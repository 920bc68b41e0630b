----------------------------- MODULE AtomicClone -----------------------------
(***************************************************************************)
(* What PlainClone promises about the directory it is given                *)
(* (repository.go): a clone that fails leaves a directory that was missing *)
(* or empty as it was, unless Init itself failed, and a repository that    *)
(* is there stays one, whatever is done to it and whenever a process dies. *)
(* A directory with other things in it is not cleaned up, and a process    *)
(* that dies in a clone may leave what it has written so far.              *)
(***************************************************************************)
VARIABLES place,    \* what is in the directory
          outcome   \* how the last call ended

Place == {"missing", "empty", "other", "repository"}
Outcome == {"none", "ok", "upToDate", "refused", "fault", "initFault", "died"}

Init ==
    /\ place \in Place \ {"repository"}
    /\ outcome = "none"

Succeed ==
    /\ place # "repository"
    /\ outcome' = "ok"
    /\ place' = "repository"

\* The clone ends with an error; what was there before is there again.
Fail ==
    /\ place \in {"missing", "empty"}
    /\ outcome' \in {"refused", "fault"}
    /\ UNCHANGED place

\* There was something to begin with: no cleanup.
FailUnclean ==
    /\ place = "other"
    /\ outcome' \in {"refused", "fault"}
    /\ place' = "repository"

\* PlainInit fails and leaves what it has written.
FailInit ==
    /\ place # "repository"
    /\ outcome' = "initFault"
    /\ place' \in {place, "other"}

\* Nothing is missing or empty that was not so before.
Die ==
    /\ place # "repository"
    /\ outcome' = "died"
    /\ place' \in {place, "other", "repository"}

Use ==
    /\ place = "repository"
    /\ outcome' \in Outcome \ {"none"}
    /\ UNCHANGED place

Next == Succeed \/ Fail \/ FailUnclean \/ FailInit \/ Die \/ Use

Spec == Init /\ [][Next]_<<place, outcome>>
=============================================================================
