----------------------------- MODULE CloneProofs -----------------------------
(***************************************************************************)
(* Clone implements AtomicClone, a call that reports success has done what *)
(* it was asked for, and an update heals what earlier calls left, for      *)
(* every set of repositories, remotes and options, and for any number of   *)
(* calls, failures and deaths.                                             *)
(***************************************************************************)
EXTENDS Clone, TLAPS, SequenceTheorems, WellFoundedInduction

Present == repo[Top].head # None

(***************************************************************************)
(* The state is what the actions take it for: records of these fields.     *)
(***************************************************************************)
FormedRepo(r) ==
    r = [head |-> r.head, origin |-> r.origin, objs |-> r.objs,
         index |-> r.index, files |-> r.files, subs |-> r.subs]

FormedOp(o) ==
    o = [call |-> o.call, pc |-> o.pc, o |-> o.o, before |-> o.before,
         cleanup |-> o.cleanup, repo |-> o.repo, hash |-> o.hash,
         left |-> o.left, todo |-> o.todo, ref |-> o.ref, new |-> o.new,
         sound |-> o.sound, result |-> o.result]

FormedRepos ==
    /\ repo = [r \in Repo |-> repo[r]]
    /\ \A r \in Repo : FormedRepo(repo[r])

Formed == FormedRepos /\ FormedOp(op)

(***************************************************************************)
(* Where there is a repository the directory is not empty.                 *)
(***************************************************************************)
DirInv ==
    /\ dir \in {"missing", "empty", "other"}
    /\ Present => dir = "other"

(***************************************************************************)
(* What is checked out in the outermost repository is there.               *)
(***************************************************************************)
Outer == {"refs", "decide", "reset", "setHead", "index", "files"}

HashInv ==
    /\ op.pc \in {"refs", "decide"} => op.repo = Top
    /\ op.pc = "checkout" => op.repo # Top
    /\ op.repo = Top /\ op.pc \in Outer => op.hash # None /\ op.ref.hash # None

(***************************************************************************)
(* A clone into a repository gets no further than Init.  Otherwise nothing *)
(* is written before Init, there is no repository before its last step,    *)
(* and always one after that; and the cleanup is that of what was there.   *)
(***************************************************************************)
InInit == op.pc = "storer" \/ (op.pc = "init" /\ op.repo = Top)

CleanupOf(before) ==
    CASE before = "missing" -> "all"
      [] before = "empty"   -> "content"
      [] OTHER              -> "none"

CloneInv ==
    /\ op.pc # "decide"
    /\ op.pc = "storer" => op.repo = Top
    /\ op.pc = "cleanup" => op.cleanup # "none" /\ op.result \in {"refused", "fault"}
    /\ \/ op.before = "repository" /\ InInit /\ Present
       \/ /\ op.before \in {"missing", "empty", "other"}
          /\ op.cleanup = CleanupOf(op.before)
          /\ Present <=> ~InInit
          /\ op.pc = "storer" => dir = op.before
          /\ op.pc # "storer" => dir = "other"

OtherInv == op.pc # "cleanup" /\ op.before = "repository" /\ Present

CallInv ==
    \/ op.pc = "idle"
    \/ op.call = "clone" /\ CloneInv
    \/ op.call # "clone" /\ OtherInv

Inv == Formed /\ DirInv /\ HashInv /\ CallInv

(***************************************************************************)
(* A step is one of AtomicClone, or changes nothing it shows.              *)
(***************************************************************************)
Mapped == Atomic!Next \/ UNCHANGED <<Shown, last.result>>

-----------------------------------------------------------------------------
\* What is needed most of the constants.
LEMMA TopIsThere == Top \in Repo
BY CloneAssumption

LEMMA NoneIsNothing == None \notin Branch \cup Commit /\ Master \in Branch
BY CloneAssumption

\* Before the first call there is no repository.
LEMMA InitInv == Init => Inv
<1> SUFFICES ASSUME Init PROVE Inv
  OBVIOUS
<1>1. Formed
  <2>1. FormedRepo(NoRepo)
    BY DEF FormedRepo, NoRepo
  <2>2. FormedOp(Idle)
    BY DEF FormedOp, Idle
  <2> QED
    BY <2>1, <2>2 DEF Init, Formed, FormedRepos
<1>2. op.pc = "idle" /\ ~Present /\ dir \in {"missing", "empty", "other"}
  BY CloneAssumption DEF Init, Idle, NoRepo, Present
<1> QED
  BY <1>1, <1>2 DEF Inv, DirInv, HashInv, Outer, CallInv

\* PlainClone asks what is in the directory before it touches it.
LEMMA StartCloneInv == Inv /\ StartClone => Inv' /\ Mapped
<1> SUFFICES ASSUME Inv, StartClone PROVE Inv' /\ Mapped
  OBVIOUS
<1>1. PICK o \in Options["clone"] :
        op' = [[Idle EXCEPT !.pc = "storer", !.cleanup = CleanupNeeded] EXCEPT
                  !.call = "clone", !.o = o, !.before = Place, !.sound = o.init /\ @]
  BY DEF StartClone, Begin
<1>2. UNCHANGED <<repo, dir, last>> /\ op.pc = "idle"
  BY DEF StartClone, Begin
<1>3. FormedOp(op') /\ op'.pc = "storer" /\ op'.repo = Top /\ op'.call = "clone"
      /\ op'.before = Place /\ op'.cleanup = CleanupNeeded
  BY <1>1 DEF FormedOp, Idle
<1>4. Inv'
  BY <1>2, <1>3 DEF Inv, Formed, FormedRepos, DirInv, HashInv, Outer, CallInv, CloneInv,
         InInit, CleanupOf, CleanupNeeded, Place, Present
<1>5. Mapped
  BY <1>2, <1>3 DEF Mapped, Shown
<1> QED
  BY <1>4, <1>5

-----------------------------------------------------------------------------
(***************************************************************************)
(* What the invariant needs of a call that ends, of one that fails, and of *)
(* one that goes on outside of Init.                                       *)
(***************************************************************************)
LEMMA EndInv ==
    ASSUME FormedRepos', DirInv', op' = Idle
    PROVE  Inv'
<1>1. FormedOp(Idle)
  BY DEF FormedOp, Idle
<1>2. op'.pc = "idle"
  BY DEF Idle
<1> QED
  BY <1>1, <1>2 DEF Inv, Formed, HashInv, Outer, CallInv

\* A call that succeeds leaves a repository.
LEMMA SuccessMapped ==
    ASSUME Inv, op.pc \notin {"idle", "storer", "init", "cleanup"},
           UNCHANGED <<repo, dir>>, NEW result, End(result),
           result = "ok" \/ (op.call # "clone" /\ result = "upToDate")
    PROVE  Inv' /\ Mapped
<1>1. FormedRepos' /\ DirInv' /\ op' = Idle /\ op'.pc = "idle" /\ last'.result = result
  BY DEF Inv, Formed, FormedRepos, DirInv, Present, End, Idle
<1>2. Inv'
  BY <1>1, EndInv
<1>3. Present /\ (op.before = "repository" \/ (op.call = "clone" /\ result = "ok"))
  BY DEF Inv, CallInv, CloneInv, OtherInv, InInit
<1>4. Shown' = "repository" /\ Shown = op.before
  BY <1>1, <1>3 DEF Shown, Place, Present
<1>5. CASE op.before = "repository"
  BY <1>1, <1>2, <1>4, <1>5 DEF Mapped, Atomic!Next, Atomic!Use, Atomic!Outcome
<1>6. CASE op.before # "repository"
  BY <1>1, <1>2, <1>3, <1>4, <1>6 DEF Mapped, Atomic!Next, Atomic!Succeed
<1> QED
  BY <1>2, <1>5, <1>6

\* A clone that fails goes to its cleanup, if there is one; other calls end.
LEMMA FailInv ==
    ASSUME Inv, op.pc # "idle", FormedRepos', Present' <=> Present, dir' = dir,
           NEW result \in {"refused", "fault", "initFault"}, Fail(result),
           result = "initFault" => InPlainInit,
           InPlainInit /\ result # "initFault" => Present
    PROVE  Inv' /\ Mapped
<1>1. DirInv'
  BY DEF Inv, DirInv
<1>2. CASE op.call = "clone" /\ ~InPlainInit /\ op.cleanup # "none"
  <2>1. op' = [op EXCEPT !.pc = "cleanup", !.result = result] /\ last' = last
    BY <1>2 DEF Fail
  <2>2. /\ FormedOp(op') /\ op'.pc = "cleanup" /\ op'.result = result
        /\ op'.call = "clone" /\ op'.cleanup = op.cleanup
        /\ op'.before = op.before /\ op'.repo = op.repo
    BY <1>2, <2>1 DEF Inv, Formed, FormedOp
  <2>3. CloneInv /\ ~InInit
    BY <1>2 DEF Inv, CallInv, CloneInv, InPlainInit, InInit
  <2>4. CloneInv'
    BY <1>2, <2>2, <2>3 DEF CloneInv, InInit
  <2>5. Mapped
    BY <2>1, <2>2 DEF Mapped, Shown
  <2> QED
    BY <1>1, <2>2, <2>4, <2>5 DEF Inv, Formed, HashInv, Outer, CallInv
<1>3. CASE ~(op.call = "clone" /\ ~InPlainInit /\ op.cleanup # "none")
  <2>1. op' = Idle /\ op'.pc = "idle" /\ last'.result = result
    BY <1>3 DEF Fail, End, Idle
  <2>2. Inv'
    BY <1>1, <2>1, EndInv
  <2>3. Shown = op.before /\ Shown' = IF Present THEN "repository" ELSE dir
    BY <2>1 DEF Shown, Place, Present
  <2>4. CASE op.before = "repository"
    <3>1. Present
      BY <2>4 DEF Inv, CallInv, CloneInv, OtherInv
    <3> QED
      BY <2>1, <2>2, <2>3, <2>4, <3>1 DEF Mapped, Atomic!Next, Atomic!Use, Atomic!Outcome
  <2>5. CASE op.before # "repository"
    <3>1. op.call = "clone" /\ CloneInv
      BY <2>5 DEF Inv, CallInv, OtherInv
    <3>2. CASE result = "initFault"
      <4>1. ~Present /\ dir \in {op.before, "other"}
        BY <2>5, <3>1, <3>2 DEF CloneInv, InPlainInit, InInit
      <4> QED
        BY <2>1, <2>2, <2>3, <2>5, <3>2, <4>1 DEF Mapped, Atomic!Next, Atomic!FailInit
    <3>3. CASE result # "initFault"
      <4>1. Present /\ op.before = "other"
        BY <1>3, <2>5, <3>1, <3>3 DEF CloneInv, InPlainInit, InInit, CleanupOf
      <4> QED
        BY <2>1, <2>2, <2>3, <3>3, <4>1 DEF Mapped, Atomic!Next, Atomic!FailUnclean
    <3> QED
      BY <3>2, <3>3
  <2> QED
    BY <2>4, <2>5
<1> QED
  BY <1>2, <1>3

\* A step after Init takes no repository away and shows nothing.
LEMMA GoOnInv ==
    ASSUME Inv, op.pc # "idle", ~InInit, op.pc # "cleanup",
           FormedRepos', FormedOp(op'), HashInv', last' = last,
           Present => Present', dir' = dir,
           op'.pc \notin {"idle", "storer", "cleanup"},
           op'.pc = "init" => op'.repo # Top,
           op'.pc = "decide" => op.call # "clone",
           op'.call = op.call, op'.before = op.before, op'.cleanup = op.cleanup
    PROVE  Inv' /\ Mapped
<1>1. Mapped
  BY DEF Mapped, Shown
<1>2. CASE op.call = "clone"
  <2>1. CloneInv /\ Present
    BY <1>2 DEF Inv, CallInv, CloneInv
  <2> QED
    BY <1>1, <1>2, <2>1 DEF Inv, Formed, DirInv, CallInv, CloneInv, InInit
<1>3. CASE op.call # "clone"
  <2>1. OtherInv
    BY <1>3 DEF Inv, CallInv
  <2> QED
    BY <1>1, <1>3, <2>1 DEF Inv, Formed, DirInv, CallInv, OtherInv
<1> QED
  BY <1>2, <1>3

\* A refusal that writes nothing.
LEMMA RefusedInv ==
    ASSUME Inv, op.pc # "idle", UNCHANGED <<repo, dir>>, Fail("refused"),
           InPlainInit => Present
    PROVE  Inv' /\ Mapped
<1>1. FormedRepos' /\ (Present' <=> Present)
  BY DEF Inv, Formed, FormedRepos, Present
<1> QED
  BY <1>1, FailInv

\* A step that goes on to the next of the same repository.
LEMMA GotoInv ==
    ASSUME Inv, op.pc \notin {"idle", "storer", "init", "cleanup"},
           NEW pc, Goto(pc),
           pc \notin {"idle", "storer", "init", "refs", "decide", "checkout", "cleanup"},
           pc \in Outer => op.pc \in Outer \/ op.repo # Top,
           FormedRepos', Present => Present', dir' = dir
    PROVE  Inv' /\ Mapped
<1>1. /\ FormedOp(op') /\ op'.pc = pc /\ op'.call = op.call
      /\ op'.before = op.before /\ op'.cleanup = op.cleanup
      /\ op'.repo = op.repo /\ op'.hash = op.hash /\ op'.ref = op.ref
  BY DEF Inv, Formed, FormedOp, Goto
<1>2. ~InInit /\ last' = last
  BY DEF InInit, Goto
<1>3. HashInv'
  BY <1>1 DEF Inv, HashInv, Outer
<1> QED
  BY <1>1, <1>2, <1>3, GoOnInv

\* setHEADCommit takes no HEAD away.
LEMMA SetHeadForms ==
    ASSUME Inv, NEW hash, SetHead(hash), op.repo = Top => hash # None
    PROVE  FormedRepos' /\ (Present => Present')
<1>1. CASE UNCHANGED repo
  BY <1>1 DEF Inv, Formed, FormedRepos, Present
<1>2. CASE repo' = [repo EXCEPT ![op.repo].head = hash]
  <2>1. FormedRepos'
    BY <1>2 DEF Inv, Formed, FormedRepos, FormedRepo
  <2>2. repo'[Top].head = repo[Top].head \/ (op.repo = Top /\ repo'[Top].head = hash)
    BY <1>2, TopIsThere DEF Inv, Formed, FormedRepos, FormedRepo
  <2> QED
    BY <2>1, <2>2 DEF Present
<1> QED
  BY <1>1, <1>2 DEF SetHead

-----------------------------------------------------------------------------
(***************************************************************************)
(* One lemma per action.                                                   *)
(***************************************************************************)
\* The calls that PlainOpen comes before find a repository.
LEMMA OtherStartsInv == Inv /\ (StartUpdate \/ StartInit \/ StartPull) => Inv' /\ Mapped
<1> SUFFICES ASSUME Inv, StartUpdate \/ StartInit \/ StartPull PROVE Inv' /\ Mapped
  OBVIOUS
<1>1. UNCHANGED <<repo, dir, last>> /\ Present /\ op.pc = "idle"
  BY DEF StartUpdate, StartInit, StartPull, Begin, Present
<1>2. /\ FormedOp(op') /\ op'.pc \in {"list", "fetch"} /\ op'.repo = Top
      /\ op'.call # "clone" /\ op'.before = "repository"
  <2>1. CASE StartUpdate
    <3>1. \E o : op' = [[Idle EXCEPT !.pc = "list", !.sound = Sound] EXCEPT
                          !.call = "update", !.o = o, !.before = Place, !.sound = o.init /\ @]
      BY <2>1 DEF StartUpdate, Begin
    <3>2. Place = "repository"
      BY <1>1 DEF Place, Present
    <3> QED
      BY <3>1, <3>2 DEF Idle, FormedOp
  <2>2. CASE StartInit
    <3>1. \E o : op' = [[Idle EXCEPT !.pc = "list"] EXCEPT
                          !.call = "init", !.o = o, !.before = Place, !.sound = o.init /\ @]
      BY <2>2 DEF StartInit, Begin
    <3>2. Place = "repository"
      BY <1>1 DEF Place, Present
    <3> QED
      BY <3>1, <3>2 DEF Idle, FormedOp
  <2>3. CASE StartPull
    <3>1. \E o : op' = [[Idle EXCEPT !.pc = "fetch"] EXCEPT
                          !.call = "pull", !.o = o, !.before = Place, !.sound = o.init /\ @]
      BY <2>3 DEF StartPull, Begin
    <3>2. Place = "repository"
      BY <1>1 DEF Place, Present
    <3> QED
      BY <3>1, <3>2 DEF Idle, FormedOp
  <2> QED
    BY <2>1, <2>2, <2>3
<1>3. Inv'
  BY <1>1, <1>2 DEF Inv, Formed, FormedRepos, DirInv, HashInv, Outer, CallInv, OtherInv, Present
<1>4. Mapped
  BY <1>1, <1>2 DEF Mapped, Shown, Place, Present
<1> QED
  BY <1>3, <1>4

\* PlainInit writes into the directory before there is a repository.
LEMMA InitStorerInv == Inv /\ InitStorer => Inv' /\ Mapped
<1> SUFFICES ASSUME Inv, InitStorer PROVE Inv' /\ Mapped
  OBVIOUS
<1>1. /\ op.pc = "storer" /\ dir' = "other" /\ repo' = repo /\ last' = last
      /\ op' = [op EXCEPT !.pc = "init"]
  BY DEF InitStorer, At, Goto
<1>2. /\ FormedOp(op') /\ op'.pc = "init" /\ op'.repo = op.repo /\ op'.call = op.call
      /\ op'.before = op.before /\ op'.cleanup = op.cleanup
  BY <1>1 DEF Inv, Formed, FormedOp
<1>3. Mapped
  BY <1>1, <1>2 DEF Mapped, Shown
<1>4. CASE op.call = "clone"
  BY <1>1, <1>2, <1>3, <1>4
     DEF Inv, Formed, FormedRepos, DirInv, HashInv, Outer, CallInv, CloneInv, InInit, Present
<1>5. CASE op.call # "clone"
  BY <1>1, <1>2, <1>3, <1>5
     DEF Inv, Formed, FormedRepos, DirInv, HashInv, Outer, CallInv, OtherInv, Present
<1> QED
  BY <1>4, <1>5

\* Init refuses a repository that is there, and otherwise sets HEAD.
LEMMA InitHeadInv == Inv /\ InitHead => Inv' /\ Mapped
<1> SUFFICES ASSUME Inv, InitHead PROVE Inv' /\ Mapped
  OBVIOUS
<1>0. op.pc = "init" /\ dir' = dir
  BY DEF InitHead, At
<1>1. CASE repo[op.repo].head # None /\ Fail("refused") /\ UNCHANGED repo
  BY <1>0, <1>1, RefusedInv DEF InPlainInit, Present
<1>2. CASE /\ repo[op.repo].head = None /\ Goto("remote")
           /\ repo' = [repo EXCEPT ![op.repo].head = Master]
  <2>1. op' = [op EXCEPT !.pc = "remote"] /\ last' = last
    BY <1>2 DEF Goto
  <2>2. /\ FormedOp(op') /\ op'.pc = "remote" /\ op'.repo = op.repo /\ op'.call = op.call
        /\ op'.before = op.before /\ op'.cleanup = op.cleanup
    BY <2>1 DEF Inv, Formed, FormedOp
  <2>3. FormedRepos'
    BY <1>2 DEF Inv, Formed, FormedRepos, FormedRepo
  <2>4. Present' <=> Present \/ op.repo = Top
    BY <1>2, TopIsThere, NoneIsNothing DEF Inv, Formed, FormedRepos, FormedRepo, Present
  <2>7. Mapped
    BY <1>0, <2>1, <2>2 DEF Mapped, Shown
  <2>5. CASE op.call = "clone"
    <3>1. CloneInv /\ op.before # "repository"
      BY <1>0, <1>2, <2>5 DEF Inv, CallInv, CloneInv, InInit, Present
    <3>2. dir = "other" /\ Present'
      BY <1>0, <2>4, <3>1 DEF CloneInv, InInit
    <3>3. CloneInv'
      BY <1>0, <2>2, <3>1, <3>2 DEF CloneInv, InInit
    <3> QED
      BY <1>0, <2>2, <2>3, <2>7, <2>5, <3>2, <3>3
         DEF Inv, Formed, DirInv, HashInv, Outer, CallInv
  <2>6. CASE op.call # "clone"
    BY <1>0, <2>2, <2>3, <2>4, <2>7, <2>6
       DEF Inv, Formed, DirInv, HashInv, Outer, CallInv, OtherInv
  <2> QED
    BY <2>5, <2>6
<1> QED
  BY <1>1, <1>2 DEF InitHead

\* CreateRemote writes the configuration.
LEMMA CreateRemoteInv == Inv /\ CreateRemote => Inv' /\ Mapped
<1> SUFFICES ASSUME Inv, CreateRemote PROVE Inv' /\ Mapped
  OBVIOUS
<1>1. op.pc = "remote" /\ dir' = dir
  BY DEF CreateRemote, At
<1>2. CASE Fail("refused") /\ UNCHANGED repo
  BY <1>1, <1>2, RefusedInv DEF InPlainInit
<1>3. CASE Goto("fetch") /\ repo' = [repo EXCEPT ![op.repo].origin = TRUE]
  <2>1. FormedRepos'
    BY <1>3 DEF Inv, Formed, FormedRepos, FormedRepo
  <2>2. repo'[Top].head = repo[Top].head
    BY <1>3, TopIsThere DEF Inv, Formed, FormedRepos, FormedRepo
  <2> QED
    BY <1>1, <1>3, <2>1, <2>2, GotoInv DEF Outer, Present
<1> QED
  BY <1>2, <1>3 DEF CreateRemote

\* A fetch brings objects; what it then sets HEAD to exists.
LEMMA FetchInv == Inv /\ Fetch => Inv' /\ Mapped
<1> SUFFICES ASSUME Inv, Fetch PROVE Inv' /\ Mapped
  OBVIOUS
<1>1. op.pc = "fetch" /\ dir' = dir
  BY DEF Fetch, At
<1>2. CASE FetchTop /\ UNCHANGED last
  <2> DEFINE asked == Resolved(op.o.ref)
             next == IF op.call = "clone" THEN "refs" ELSE "decide"
  <2>1. PICK objs, new :
            /\ asked.hash # None
            /\ repo' = [repo EXCEPT ![Top].objs = objs]
            /\ op' = [op EXCEPT !.pc = next, !.ref = asked, !.hash = asked.hash, !.new = new]
    BY <1>2 DEF FetchTop, FetchObjects
  <2>2. /\ FormedOp(op') /\ op'.pc = next /\ op'.call = op.call
        /\ op'.hash # None /\ op'.ref.hash # None /\ op'.repo = op.repo
        /\ op'.before = op.before /\ op'.cleanup = op.cleanup
    BY <2>1 DEF Inv, Formed, FormedOp
  <2>3. FormedRepos' /\ (Present => Present')
    BY <2>1, TopIsThere DEF Inv, Formed, FormedRepos, FormedRepo, Present
  <2>4. ~InInit /\ HashInv'
    BY <1>1, <1>2, <2>2 DEF InInit, HashInv, Outer, FetchTop, FetchObjects
  <2>5. /\ next \in {"refs", "decide"}
        /\ next = "decide" => op.call # "clone"
    OBVIOUS
  <2> HIDE DEF next
  <2> QED
    BY <1>1, <1>2, <2>2, <2>3, <2>4, <2>5, GoOnInv
<1>3. CASE FetchSubmodule /\ UNCHANGED last
  <2>1. PICK objs : repo' = [repo EXCEPT ![op.repo].objs = objs]
    BY <1>3 DEF FetchSubmodule
  <2>2. op.repo # Top /\ op' = [op EXCEPT !.pc = "checkout"]
    BY <1>3 DEF FetchSubmodule
  <2>3. /\ FormedOp(op') /\ op'.pc = "checkout" /\ op'.call = op.call /\ op'.repo = op.repo
        /\ op'.before = op.before /\ op'.cleanup = op.cleanup
    BY <2>2 DEF Inv, Formed, FormedOp
  <2>4. FormedRepos' /\ (Present => Present')
    <3>1. FormedRepos'
      BY <2>1 DEF Inv, Formed, FormedRepos, FormedRepo
    <3>2. repo'[Top].head = repo[Top].head
      BY <2>1, TopIsThere DEF Inv, Formed, FormedRepos, FormedRepo
    <3> QED
      BY <3>1, <3>2 DEF Present
  <2>5. ~InInit /\ HashInv'
    BY <1>1, <2>2, <2>3 DEF InInit, HashInv, Outer
  <2> QED
    BY <1>1, <1>3, <2>2, <2>3, <2>4, <2>5, GoOnInv
<1>4. CASE Fail("refused") /\ UNCHANGED repo
  BY <1>1, <1>4, RefusedInv DEF InPlainInit
<1>5. CASE FetchUnresolved
  <2>1. PICK objs : repo' = [repo EXCEPT ![Top].objs = objs]
    BY <1>5 DEF FetchUnresolved, FetchObjects
  <2>2. FormedRepos' /\ (Present' <=> Present)
    BY <2>1, TopIsThere DEF Inv, Formed, FormedRepos, FormedRepo, Present
  <2> QED
    BY <1>1, <1>5, <2>2, FailInv DEF FetchUnresolved, InPlainInit
<1> QED
  BY <1>2, <1>3, <1>4, <1>5 DEF Fetch

\* updateReferences moves HEAD to a branch or to a commit.
LEMMA UpdateReferencesInv == Inv /\ UpdateReferences => Inv' /\ Mapped
<1> SUFFICES ASSUME Inv, UpdateReferences PROVE Inv' /\ Mapped
  OBVIOUS
<1>1. op.pc = "refs" /\ dir' = dir
  BY DEF UpdateReferences, At
<1>2. CASE Fail("refused") /\ UNCHANGED repo
  BY <1>1, <1>2, RefusedInv DEF InPlainInit
<1>3. CASE ~(Fail("refused") /\ UNCHANGED repo)
  <2>1. PICK head, pc :
            /\ repo' = [repo EXCEPT ![Top].head = head]
            /\ head \in Branch \/ head = op.ref.hash
            /\ pc \in {"config", "reset"}
            /\ op' = [op EXCEPT !.pc = pc] /\ last' = last
    BY <1>3 DEF UpdateReferences, Goto
  <2>2. /\ FormedOp(op') /\ op'.pc \in {"config", "reset"} /\ op'.call = op.call
        /\ op'.hash = op.hash /\ op'.ref = op.ref /\ op'.repo = op.repo
        /\ op'.before = op.before /\ op'.cleanup = op.cleanup
    BY <2>1 DEF Inv, Formed, FormedOp
  <2>3. op.ref.hash # None /\ op.hash # None
    BY <1>1 DEF Inv, HashInv, Outer
  <2>4. FormedRepos' /\ Present'
    BY <2>1, <2>3, TopIsThere, NoneIsNothing DEF Inv, Formed, FormedRepos, FormedRepo, Present
  <2>5. ~InInit /\ HashInv'
    BY <1>1, <2>2, <2>3 DEF InInit, HashInv, Outer
  <2> QED
    BY <1>1, <2>1, <2>2, <2>4, <2>5, GoOnInv
<1> QED
  BY <1>2, <1>3

\* PullContext: up to date, a fast-forward or a refusal.
LEMMA DecideInv == Inv /\ Decide => Inv' /\ Mapped
<1> SUFFICES ASSUME Inv, Decide PROVE Inv' /\ Mapped
  OBVIOUS
<1>1. op.pc = "decide" /\ dir' = dir
  BY DEF Decide, At, Steady
<1>2. CASE End("upToDate") /\ Steady
  <2>1. op.call # "clone"
    BY <1>1 DEF Inv, CallInv, CloneInv
  <2> QED
    BY <1>1, <1>2, <2>1, SuccessMapped DEF Steady
<1>3. CASE SetHead(op.hash) /\ Goto("reset")
  <2>1. FormedRepos' /\ (Present => Present')
    BY <1>1, <1>3, SetHeadForms DEF Inv, HashInv, Outer
  <2> QED
    BY <1>1, <1>3, <2>1, GotoInv DEF Outer
<1>4. CASE Fail("refused") /\ Steady
  BY <1>1, <1>4, RefusedInv DEF Steady, InPlainInit
<1> QED
  BY <1>2, <1>3, <1>4 DEF Decide

\* Only submodules are checked out by a commit.
LEMMA CheckoutInv == Inv /\ Checkout => Inv' /\ Mapped
<1> SUFFICES ASSUME Inv, Checkout PROVE Inv' /\ Mapped
  OBVIOUS
<1>1. /\ op.pc = "checkout" /\ dir' = dir /\ Goto("reset")
      /\ repo' = [repo EXCEPT ![op.repo].head = op.hash]
  BY DEF Checkout, At
<1>2. op.repo # Top
  BY <1>1 DEF Inv, HashInv, Outer
<1>3. FormedRepos'
  BY <1>1 DEF Inv, Formed, FormedRepos, FormedRepo
<1>4. repo'[Top].head = repo[Top].head
  BY <1>1, <1>2, TopIsThere DEF Inv, Formed, FormedRepos, FormedRepo
<1> QED
  BY <1>1, <1>2, <1>3, <1>4, GotoInv DEF Outer, Present

\* Reset opens, and so creates, the submodules that are initialized.
LEMMA CheckUnstagedInv == Inv /\ CheckUnstaged => Inv' /\ Mapped
<1> SUFFICES ASSUME Inv, CheckUnstaged PROVE Inv' /\ Mapped
  OBVIOUS
<1>1. op.pc = "reset" /\ dir' = dir
  BY DEF CheckUnstaged, At
<1>2. repo' = [r \in Repo |-> IF r \in Created(op.repo)
                              THEN [repo[r] EXCEPT !.head = Master, !.origin = TRUE]
                              ELSE repo[r]]
  BY DEF CheckUnstaged
<1>3. FormedRepos'
  BY <1>2 DEF Inv, Formed, FormedRepos, FormedRepo
<1>4. Present
  BY <1>1 DEF Inv, CallInv, CloneInv, OtherInv, InInit
<1>5. Present'
  BY <1>2, <1>4, CloneAssumption DEF Created, Present
<1>6. CASE Fail("refused")
  BY <1>1, <1>3, <1>4, <1>5, <1>6, FailInv DEF InPlainInit
<1>7. CASE Goto("setHead")
  BY <1>1, <1>3, <1>5, <1>7, GotoInv DEF Outer
<1> QED
  BY <1>6, <1>7 DEF CheckUnstaged

\* Reset moves HEAD before it knows whether it has the commit.
LEMMA SetHeadCommitInv == Inv /\ SetHeadCommit => Inv' /\ Mapped
<1> SUFFICES ASSUME Inv, SetHeadCommit PROVE Inv' /\ Mapped
  OBVIOUS
<1>1. op.pc = "setHead" /\ dir' = dir /\ SetHead(op.hash)
  BY DEF SetHeadCommit, At
<1>2. FormedRepos' /\ (Present => Present')
  BY <1>1, SetHeadForms DEF Inv, HashInv, Outer
<1>3. Present
  BY <1>1 DEF Inv, CallInv, CloneInv, OtherInv, InInit
<1>4. CASE Fail("refused")
  BY <1>1, <1>2, <1>3, <1>4, FailInv DEF InPlainInit
<1>5. CASE Goto("index")
  BY <1>1, <1>2, <1>5, GotoInv DEF Outer
<1> QED
  BY <1>4, <1>5 DEF SetHeadCommit

\* resetIndex stores the index.
LEMMA ResetIndexInv == Inv /\ ResetIndex => Inv' /\ Mapped
<1> SUFFICES ASSUME Inv, ResetIndex PROVE Inv' /\ Mapped
  OBVIOUS
<1>1. /\ op.pc = "index" /\ dir' = dir /\ Goto("files")
      /\ repo' = [repo EXCEPT ![op.repo].index = op.hash]
  BY DEF ResetIndex, At
<1>2. FormedRepos'
  BY <1>1 DEF Inv, Formed, FormedRepos, FormedRepo
<1>3. repo'[Top].head = repo[Top].head
  BY <1>1, TopIsThere DEF Inv, Formed, FormedRepos, FormedRepo
<1> QED
  BY <1>1, <1>2, <1>3, GotoInv DEF Outer, Present

\* resetWorktree writes the files.
LEMMA ResetFilesInv == Inv /\ ResetFiles => Inv' /\ Mapped
<1> SUFFICES ASSUME Inv, ResetFiles PROVE Inv' /\ Mapped
  OBVIOUS
<1>1. /\ op.pc = "files" /\ dir' = dir /\ Goto(NextPc)
      /\ repo' = [repo EXCEPT ![op.repo].files = op.hash]
  BY DEF ResetFiles, At
<1>2. FormedRepos'
  BY <1>1 DEF Inv, Formed, FormedRepos, FormedRepo
<1>3. repo'[Top].head = repo[Top].head
  BY <1>1, TopIsThere DEF Inv, Formed, FormedRepos, FormedRepo
<1>4. NextPc \in {"list", "next", "config", "end"}
  BY DEF NextPc
<1> QED
  BY <1>1, <1>2, <1>3, <1>4, GotoInv DEF Outer, Present

\* Worktree.Submodules reads .gitmodules.
LEMMA ListSubmodulesInv == Inv /\ ListSubmodules => Inv' /\ Mapped
<1> SUFFICES ASSUME Inv, ListSubmodules PROVE Inv' /\ Mapped
  OBVIOUS
<1>1. PICK todo : op' = [op EXCEPT !.pc = "next", !.todo = todo]
  BY DEF ListSubmodules
<1>2. op.pc = "list" /\ UNCHANGED <<repo, dir, last>>
  BY DEF ListSubmodules, At, Steady
<1>3. /\ FormedOp(op') /\ op'.pc = "next" /\ op'.call = op.call
      /\ op'.before = op.before /\ op'.cleanup = op.cleanup
  BY <1>1 DEF Inv, Formed, FormedOp
<1>4. FormedRepos' /\ (Present => Present')
  BY <1>2 DEF Inv, Formed, FormedRepos, Present
<1>5. ~InInit /\ HashInv'
  BY <1>2, <1>3 DEF InInit, HashInv, Outer
<1> QED
  BY <1>2, <1>3, <1>4, <1>5, GoOnInv

\* Submodule.Init and Update write the configuration of the parent.
LEMMA NextSubmoduleInv == Inv /\ NextSubmodule => Inv' /\ Mapped
<1> SUFFICES ASSUME Inv, NextSubmodule PROVE Inv' /\ Mapped
  OBVIOUS
<1>1. op.pc = "next" /\ dir' = dir /\ ~InInit
  BY DEF NextSubmodule, At, InInit
<1>2. ASSUME NEW todo, op' = [op EXCEPT !.todo = todo], last' = last,
             FormedRepos', Present => Present'
      PROVE  Inv' /\ Mapped
  <2>1. /\ FormedOp(op') /\ op'.pc = "next" /\ op'.call = op.call
        /\ op'.before = op.before /\ op'.cleanup = op.cleanup
    BY <1>1, <1>2 DEF Inv, Formed, FormedOp
  <2>2. HashInv'
    BY <2>1 DEF HashInv, Outer
  <2> QED
    BY <1>1, <1>2, <2>1, <2>2, GoOnInv
<1>3. CASE Fail("refused") /\ UNCHANGED repo
  BY <1>1, <1>3, RefusedInv DEF InPlainInit
<1>4. CASE op' = [op EXCEPT !.todo = Tail(@)] /\ UNCHANGED <<repo, last>>
  <2>1. FormedRepos' /\ (Present => Present')
    BY <1>4 DEF Inv, Formed, FormedRepos, Present
  <2> QED
    BY <1>2, <1>4, <2>1
<1>5. ASSUME NEW r, Register(r), ~(Fail("refused") /\ UNCHANGED repo)
      PROVE  Inv' /\ Mapped
  <2>1. PICK subs : repo' = [repo EXCEPT ![Front(r)].subs = subs]
    BY <1>5 DEF Register
  <2>2. op' = [op EXCEPT !.todo = Without(r)] /\ last' = last
    BY <1>5 DEF Register
  <2>3. FormedRepos'
    BY <2>1 DEF Inv, Formed, FormedRepos, FormedRepo
  <2>4. repo'[Top].head = repo[Top].head
    BY <2>1, TopIsThere DEF Inv, Formed, FormedRepos, FormedRepo
  <2> QED
    BY <1>2, <2>2, <2>3, <2>4 DEF Present
<1>6. ASSUME NEW r, StartSubmodule(r), ~(Fail("refused") /\ UNCHANGED repo)
      PROVE  Inv' /\ Mapped
  <2>1. PICK subs : repo' = [repo EXCEPT ![Front(r)].subs = subs]
    BY <1>6 DEF StartSubmodule
  <2>2. FormedRepos'
    BY <2>1 DEF Inv, Formed, FormedRepos, FormedRepo
  <2>3. repo'[Top].head = repo[Top].head
    BY <2>1, TopIsThere DEF Inv, Formed, FormedRepos, FormedRepo
  <2>4. CASE Fail("refused")
    BY <1>1, <2>2, <2>3, <2>4, FailInv DEF InPlainInit, Present
  <2>5. CASE ~Fail("refused")
    <3>1. op' = [op EXCEPT !.pc = RepositoryPc(r), !.repo = r,
                           !.hash = SubmodulesOf(repo[Front(r)].index)[Last(r)],
                           !.left = Head(op.todo).left, !.todo = Without(r)]
          /\ last' = last
      BY <1>6, <2>5 DEF StartSubmodule
    <3>2. /\ FormedOp(op') /\ op'.pc = RepositoryPc(r) /\ op'.repo = r /\ op'.call = op.call
          /\ op'.before = op.before /\ op'.cleanup = op.cleanup
      BY <3>1 DEF Inv, Formed, FormedOp
    <3>3. Present
      BY <1>1 DEF Inv, CallInv, CloneInv, OtherInv
    <3>4. /\ RepositoryPc(r) \in {"fetch", "init"}
          /\ RepositoryPc(r) = "init" => r # Top
      BY <3>3 DEF RepositoryPc, Present
    <3>5. HashInv'
      BY <3>2, <3>4 DEF HashInv, Outer
    <3> QED
      BY <1>1, <2>2, <2>3, <3>1, <3>2, <3>4, <3>5, GoOnInv DEF Present
  <2> QED
    BY <2>4, <2>5
<1> QED
  BY <1>3, <1>4, <1>5, <1>6 DEF NextSubmodule

\* The last level of submodules is done.
LEMMA SubmodulesDoneInv == Inv /\ SubmodulesDone => Inv' /\ Mapped
<1> SUFFICES ASSUME Inv, SubmodulesDone PROVE Inv' /\ Mapped
  OBVIOUS
<1>1. op.pc = "next" /\ UNCHANGED <<repo, dir>>
  BY DEF SubmodulesDone, At, Steady
<1>2. FormedRepos' /\ (Present => Present')
  BY <1>1 DEF Inv, Formed, FormedRepos, Present
<1>3. PICK pc \in {"config", "end"} : Goto(pc)
  BY DEF SubmodulesDone
<1> QED
  BY <1>1, <1>2, <1>3, GotoInv DEF Outer

\* CreateBranch is the last step of a clone.
LEMMA CreateBranchInv == Inv /\ CreateBranch => Inv' /\ Mapped
<1> SUFFICES ASSUME Inv, CreateBranch PROVE Inv' /\ Mapped
  OBVIOUS
<1>1. op.pc = "config" /\ UNCHANGED <<repo, dir>>
  BY DEF CreateBranch, At
<1>2. CASE Fail("refused")
  BY <1>1, <1>2, RefusedInv DEF InPlainInit
<1>3. CASE End("ok")
  BY <1>1, <1>3, SuccessMapped
<1> QED
  BY <1>2, <1>3 DEF CreateBranch

\* cleanUpDir leaves what was there before.
LEMMA CleanUpInv == Inv /\ CleanUp => Inv' /\ Mapped
<1> SUFFICES ASSUME Inv, CleanUp PROVE Inv' /\ Mapped
  OBVIOUS
<1>1. /\ repo' = [r \in Repo |-> NoRepo] /\ op' = Idle /\ op'.pc = "idle"
      /\ dir' = IF op.cleanup = "all" THEN "missing" ELSE "empty"
      /\ last'.result = op.result /\ op.pc = "cleanup"
  BY DEF CleanUp, End, At, Idle
<1>2. FormedRepo(NoRepo)
  BY DEF FormedRepo, NoRepo
<1>3. FormedRepos'
  BY <1>1, <1>2 DEF FormedRepos
<1>4. DirInv'
  BY <1>1, CloneAssumption DEF DirInv, Present, NoRepo
<1>5. Inv'
  BY <1>1, <1>3, <1>4, EndInv
<1>6. op.before \in {"missing", "empty"} /\ op.result \in {"refused", "fault"} /\ dir' = op.before
  BY <1>1 DEF Inv, CallInv, CloneInv, OtherInv, InInit, CleanupOf
<1>7. Shown = op.before /\ Shown' = op.before
  BY <1>1, <1>6, CloneAssumption DEF Shown, Place, NoRepo
<1>8. Mapped
  BY <1>1, <1>6, <1>7 DEF Mapped, Atomic!Next, Atomic!Fail
<1> QED
  BY <1>5, <1>8

\* A call other than a clone ends well.
LEMMA ReturnInv == Inv /\ Return => Inv' /\ Mapped
<1> SUFFICES ASSUME Inv, Return PROVE Inv' /\ Mapped
  OBVIOUS
<1>1. op.pc = "end" /\ UNCHANGED <<repo, dir>> /\ End("ok")
  BY DEF Return, At, Steady
<1> QED
  BY <1>1, SuccessMapped

\* An I/O or network error in any step.
LEMMA StepFailsInv == Inv /\ StepFails => Inv' /\ Mapped
<1> SUFFICES ASSUME Inv, StepFails PROVE Inv' /\ Mapped
  OBVIOUS
<1>1. /\ op.pc # "idle" /\ UNCHANGED <<repo, dir>>
      /\ Fail(IF InPlainInit THEN "initFault" ELSE "fault")
  BY DEF StepFails, Mishap
<1>2. FormedRepos' /\ (Present' <=> Present)
  BY <1>1 DEF Inv, Formed, FormedRepos, Present
<1>3. CASE InPlainInit
  BY <1>1, <1>2, <1>3, FailInv
<1>4. CASE ~InPlainInit
  BY <1>1, <1>2, <1>4, FailInv
<1> QED
  BY <1>3, <1>4

\* A death in any step, also of the cleanup.
LEMMA DieInv == Inv /\ Die => Inv' /\ Mapped
<1> SUFFICES ASSUME Inv, Die PROVE Inv' /\ Mapped
  OBVIOUS
<1>1. /\ op.pc # "idle" /\ op' = Idle /\ op'.pc = "idle"
      /\ dir' = dir /\ last'.result = "died"
  BY DEF Die, Mishap, End, Idle
<1>2. Inv' /\ (UNCHANGED repo \/ (op.pc = "cleanup" /\ ~Present'))
  <2>1. CASE UNCHANGED repo
    <3>1. FormedRepos' /\ DirInv'
      BY <1>1, <2>1 DEF Inv, Formed, FormedRepos, DirInv, Present
    <3> QED
      BY <1>1, <2>1, <3>1, EndInv
  <2>2. CASE op.pc = "cleanup" /\ repo' = [repo EXCEPT ![Top].head = None]
    <3>1. FormedRepos'
      BY <2>2 DEF Inv, Formed, FormedRepos, FormedRepo
    <3>2. ~Present'
      BY <2>2, TopIsThere DEF Inv, Formed, FormedRepos, FormedRepo, Present
    <3>3. DirInv'
      BY <1>1, <3>2 DEF Inv, DirInv
    <3> QED
      BY <1>1, <2>2, <3>1, <3>2, <3>3, EndInv
  <2> QED
    BY <2>1, <2>2 DEF Die
<1>3. Shown = op.before /\ Shown' = IF Present' THEN "repository" ELSE dir
  BY <1>1 DEF Shown, Place, Present
<1>4. CASE op.before = "repository"
  <2>1. Present /\ op.pc # "cleanup"
    BY <1>1, <1>4 DEF Inv, CallInv, CloneInv, OtherInv, InInit
  <2>2. Present'
    BY <1>2, <2>1 DEF Present
  <2> QED
    BY <1>1, <1>2, <1>3, <1>4, <2>2 DEF Mapped, Atomic!Next, Atomic!Use, Atomic!Outcome
<1>5. CASE op.before # "repository"
  <2>1. dir \in {op.before, "other"}
    BY <1>1, <1>5 DEF Inv, CallInv, CloneInv, OtherInv
  <2> QED
    BY <1>1, <1>2, <1>3, <1>5, <2>1 DEF Mapped, Atomic!Next, Atomic!Die
<1> QED
  BY <1>4, <1>5

\* What others do to the remote, and stuttering.
LEMMA OthersInv == Inv /\ (Publish \/ Push \/ UNCHANGED vars) => Inv' /\ Mapped
<1> SUFFICES ASSUME Inv, UNCHANGED <<repo, dir, op, last>> PROVE Inv' /\ Mapped
  BY DEF Publish, Push, vars
<1>1. Inv'
  BY DEF Inv, Formed, FormedRepos, FormedRepo, FormedOp, DirInv, HashInv, Outer,
         CallInv, CloneInv, OtherInv, InInit, Present
<1>2. Mapped
  BY DEF Mapped, Shown, Place
<1> QED
  BY <1>1, <1>2

-----------------------------------------------------------------------------
(***************************************************************************)
(* Together.                                                               *)
(***************************************************************************)
\* Every step of the code is a step of the promise or shows nothing.
LEMMA NextInv == Inv /\ [Next]_vars => Inv' /\ Mapped
<1> SUFFICES ASSUME Inv, [Next]_vars PROVE Inv' /\ Mapped
  OBVIOUS
<1>1. CASE StartClone \/ StartUpdate \/ StartInit \/ StartPull
  BY <1>1, StartCloneInv, OtherStartsInv
<1>2. CASE InitStorer \/ InitHead \/ CreateRemote \/ Fetch
  BY <1>2, InitStorerInv, InitHeadInv, CreateRemoteInv, FetchInv
<1>3. CASE UpdateReferences \/ Decide \/ Checkout \/ CheckUnstaged
  BY <1>3, UpdateReferencesInv, DecideInv, CheckoutInv, CheckUnstagedInv
<1>4. CASE SetHeadCommit \/ ResetIndex \/ ResetFiles
  BY <1>4, SetHeadCommitInv, ResetIndexInv, ResetFilesInv
<1>5. CASE ListSubmodules \/ NextSubmodule \/ SubmodulesDone
  BY <1>5, ListSubmodulesInv, NextSubmoduleInv, SubmodulesDoneInv
<1>6. CASE CreateBranch \/ CleanUp \/ Return
  BY <1>6, CreateBranchInv, CleanUpInv, ReturnInv
<1>7. CASE StepFails \/ Die \/ Publish \/ Push \/ UNCHANGED vars
  BY <1>7, StepFailsInv, DieInv, OthersInv
<1> QED
  BY <1>1, <1>2, <1>3, <1>4, <1>5, <1>6, <1>7 DEF Next, Step

\* The directory before the first call is one the promise begins with.
LEMMA InitMapped == Init => Atomic!Init
<1> SUFFICES ASSUME Init PROVE Atomic!Init
  OBVIOUS
<1>1. op.pc = "idle" /\ repo[Top].head = None /\ last.result = "none"
  BY CloneAssumption DEF Init, Idle, NoRepo
<1>2. Shown = dir
  BY <1>1 DEF Shown, Place
<1> QED
  BY <1>1, <1>2 DEF Init, Atomic!Init, Atomic!Place

\* PlainClone keeps its promise about the directory: whatever is cloned, however
\* deep the submodules, and however many calls fail or die in whatever step, the
\* directory shows only what AtomicClone allows (PlainCloneContext, cleanUpDir).
THEOREM ImplementsAtomicCloneThm == Spec => ImplementsAtomicClone
<1>1. Init => Inv /\ Atomic!Init
  BY InitInv, InitMapped
<1>2. Inv /\ [Next]_vars => Inv'
  BY NextInv
<1>3. Inv /\ [Next]_vars => [Atomic!Next]_<<Shown, last.result>>
  BY NextInv DEF Mapped
<1> QED
  BY <1>1, <1>2, <1>3, PTL DEF Spec, ImplementsAtomicClone, Atomic!Spec

-----------------------------------------------------------------------------
(***************************************************************************)
(* Paths of submodules.                                                    *)
(***************************************************************************)
LEMMA PathBelow ==
    ASSUME NEW r \in Seq(Name), NEW n \in Name
    PROVE  /\ Append(r, n) \in Seq(Name) /\ Append(r, n) # Top
           /\ Front(Append(r, n)) = r /\ Last(Append(r, n)) = n
           /\ Len(Append(r, n)) = Len(r) + 1 /\ Len(r) \in Nat
<1> DEFINE s == Append(r, n)
<1>1. /\ s \in Seq(Name) /\ s # << >> /\ Len(s) = Len(r) + 1
      /\ \A i \in 1..Len(r) : s[i] = r[i]
      /\ s[Len(r) + 1] = n
  BY AppendProperties
<1>2. Len(r) \in Nat
  BY LenProperties
<1>3. Last(s) = n
  BY <1>1 DEF Last
<1>4. Front(s) = SubSeq(s, 1, Len(r))
  <2>1. Len(s) - 1 = Len(r)
    BY <1>1, <1>2
  <2> QED
    BY <2>1 DEF Front
<1>5. Front(s) = r
  <2>1. \A i \in 1..Len(r) : s[i] \in Name
    BY <1>1, <1>2, ElementOfSeq
  <2>2. /\ SubSeq(s, 1, Len(r)) \in Seq(Name)
        /\ Len(SubSeq(s, 1, Len(r))) = Len(r)
        /\ \A i \in 1..Len(r) : SubSeq(s, 1, Len(r))[i] = s[i]
    BY <1>1, <1>2, <2>1, SubSeqProperties
  <2>3. \A i \in 1..Len(r) : SubSeq(s, 1, Len(r))[i] = r[i]
    BY <1>1, <2>2
  <2> QED
    BY <1>4, <2>2, <2>3, SeqEqual
<1> QED
  BY <1>1, <1>2, <1>3, <1>5 DEF Top

LEMMA PathAbove ==
    ASSUME NEW r \in Repo \ {Top}
    PROVE  /\ Front(r) \in Repo /\ Last(r) \in Name /\ r = Append(Front(r), Last(r))
           /\ Len(Front(r)) \in Nat /\ Len(r) = Len(Front(r)) + 1
<1>1. r \in Seq(Name) /\ r # << >> /\ Front(r) \in Repo /\ Front(r) \in Seq(Name)
  BY CloneAssumption DEF Top
<1>2. PICK s \in Seq(Name), n \in Name : r = Append(s, n)
  BY <1>1, SequenceEmptyOrAppend
<1>3. Front(r) = s /\ Last(r) = n /\ Len(s) \in Nat /\ Len(r) = Len(s) + 1
  BY <1>2, PathBelow
<1> QED
  BY <1>1, <1>2, <1>3

\* The lists of submodules still to update are a stack.
Lists == [of : SUBSET (Repo \ {Top}), left : Nat]

LEMMA StackProperties ==
    ASSUME NEW s \in Seq(Lists)
    PROVE  /\ \A x \in Lists : <<x>> \o s \in Seq(Lists)
           /\ s # <<>> => Head(s) \in Lists /\ Tail(s) \in Seq(Lists)
<1>1. ASSUME NEW x \in Lists PROVE <<x>> \o s \in Seq(Lists)
  <2>1. <<x>> \in Seq(Lists)
    OBVIOUS
  <2> QED
    BY <2>1, ConcatProperties
<1>2. s # <<>> => Head(s) \in Lists /\ Tail(s) \in Seq(Lists)
  BY HeadTailProperties
<1> QED
  BY <1>1, <1>2

-----------------------------------------------------------------------------
(***************************************************************************)
(* The types of the state.  A repository has commits of its project, and   *)
(* only what it has gets into its index and its files.  What is detached   *)
(* is a commit; the outermost repository is worked on before its           *)
(* submodules.                                                             *)
(***************************************************************************)
TypedRepo(r, record) ==
    /\ record.head \in Branch \cup Project[r] \cup {None}
    /\ record.origin \in BOOLEAN
    /\ record.objs \subseteq Project[r]
    /\ record.index \in record.objs \cup {None}
    /\ record.files \in record.objs \cup {None}
    /\ record.subs \subseteq Name

TypedRepos == \A r \in Repo : TypedRepo(r, repo[r])

TypedRefs ==
    /\ refs = [branch |-> refs.branch, tracking |-> refs.tracking,
               spec |-> refs.spec, upstream |-> refs.upstream]
    /\ refs.branch \in [Branch -> Project[Top] \cup {None, Blob}]
    /\ refs.tracking \in [Branch \cup {"HEAD"} -> Project[Top] \cup {None}]
    /\ refs.spec \subseteq Ref \cup {"*"}
    /\ refs.upstream \subseteq Branch

TypedOp ==
    /\ op.o \in Option
    /\ op.repo \in Repo
    /\ op.left \in Nat
    /\ op.todo \in Seq(Lists)
    /\ op.ref.name \in Branch \cup {"HEAD", "tag"}
    /\ op.ref.hash \in Project[Top] \cup {None, Blob}
    /\ op.ref.name \in Branch => op.ref.hash \in Project[Top] \cup {None}
    /\ op.repo = Top => op.hash = op.ref.hash
    /\ op.repo # Top => op.hash \in Project[op.repo]

TypedStep ==
    /\ op.pc = "list" /\ op.repo # Top => op.left > 0
    /\ op.pc \in {"index", "files"} => op.hash \in repo[op.repo].objs
    /\ op.pc \in {"reset", "setHead"} /\ repo[op.repo].head \notin Branch =>
        op.hash \in Project[op.repo]
    /\ op.repo # Top /\ op.pc \in {"reset", "setHead", "index", "files", "list"} =>
        repo[op.repo].head = op.hash

TypedRest ==
    /\ remote \in Remote
    /\ pushed \subseteq Commit
    /\ calls \in 0 .. MaxCalls /\ faults \in 0 .. MaxFaults

TInv == TypedRepos /\ TypedRefs /\ TypedOp /\ TypedStep /\ TypedRest

\* The types that a run checks are part of these.
LEMMA TypesImply == Inv /\ TInv => TypeOK
<1> SUFFICES ASSUME Inv, TInv PROVE TypeOK
  OBVIOUS
<1>1. dir \in {"missing", "empty", "other"}
  BY DEF Inv, DirInv
<1>2. repo \in [Repo -> RepoRecord]
  <2>1. \A r \in Repo : repo[r] \in RepoRecord
    BY CloneAssumption DEF Inv, Formed, FormedRepos, FormedRepo, TInv, TypedRepos, TypedRepo, RepoRecord
  <2> QED
    BY <2>1 DEF Inv, Formed, FormedRepos
<1>3. refs.branch \in [Branch -> Commit \cup {None, Blob}] /\ refs.upstream \subseteq Branch
  BY CloneAssumption DEF TInv, TypedRefs
<1>4. \A i \in 1..Len(op.todo) : op.todo[i].of \subseteq Repo /\ op.todo[i].left \in Nat
  <2>1. op.todo \in Seq(Lists)
    BY DEF TInv, TypedOp
  <2>2. \A i \in 1..Len(op.todo) : op.todo[i] \in Lists
    BY <2>1, ElementOfSeq
  <2> QED
    BY <2>2 DEF Lists
<1> QED
  BY <1>1, <1>2, <1>3, <1>4 DEF TInv, TypedOp, TypedRest, TypeOK

\* Before the first call.
LEMMA InitTypes == Init => TInv
<1> SUFFICES ASSUME Init PROVE TInv
  OBVIOUS
<1>1. TypedRepos
  BY DEF Init, NoRepo, TypedRepos, TypedRepo
<1>2. TypedRefs
  BY DEF Init, NoRefs, TypedRefs
<1>3. TypedOp
  BY CloneAssumption DEF Init, Idle, NoOption, Option, Ref, TypedOp
<1>4. TypedStep
  BY DEF Init, Idle, TypedStep
<1>5. TypedRest
  BY CloneAssumption DEF Init, TypedRest
<1> QED
  BY <1>1, <1>2, <1>3, <1>4, <1>5 DEF TInv

\* Between the calls.
LEMMA EndTypes == op' = Idle => TypedOp' /\ TypedStep'
<1> SUFFICES ASSUME op' = Idle PROVE TypedOp' /\ TypedStep'
  OBVIOUS
<1>1. TypedOp'
  BY CloneAssumption DEF Idle, NoOption, Option, Ref, TypedOp
<1> QED
  BY <1>1 DEF Idle, TypedStep

\* The submodules a repository has are repositories in it.
LEMMA ListedBelow ==
    ASSUME TypedRepos, NEW p \in Repo, NEW s \in Listed(p)
    PROVE  /\ s \in Repo \ {Top} /\ Front(s) = p /\ s # p
           /\ Len(p) \in Nat /\ Len(s) = Len(p) + 1
           /\ Last(s) \in DOMAIN SubmodulesOf(repo[p].files)
<1>1. PICK n \in DOMAIN SubmodulesOf(repo[p].files) : s = Append(p, n)
  BY DEF Listed
<1>2. repo[p].files # None
  BY <1>1 DEF SubmodulesOf
<1>3. repo[p].files \in Project[p] /\ n \in DOMAIN Submodules[repo[p].files]
  BY <1>1, <1>2 DEF TypedRepos, TypedRepo, SubmodulesOf
<1>4. n \in Name /\ s \in Repo /\ p \in Seq(Name)
  BY <1>1, <1>3, CloneAssumption
<1>5. s # Top /\ Front(s) = p /\ Last(s) = n /\ Len(s) = Len(p) + 1 /\ Len(p) \in Nat
  BY <1>1, <1>4, PathBelow
<1> QED
  BY <1>1, <1>4, <1>5

\* The commit of a submodule in the index of its parent is one of its project.
LEMMA ExpectedTyped ==
    ASSUME TypedRepos, NEW r \in Repo \ {Top},
           Last(r) \in DOMAIN SubmodulesOf(repo[Front(r)].index)
    PROVE  Expected(r) \in Project[r]
<1>1. Front(r) \in Repo /\ r = Append(Front(r), Last(r))
  BY PathAbove
<1>2. repo[Front(r)].index # None
  BY DEF SubmodulesOf
<1>3. repo[Front(r)].index \in Project[Front(r)]
  BY <1>1, <1>2 DEF TypedRepos, TypedRepo
<1>4. SubmodulesOf(repo[Front(r)].index) = Submodules[repo[Front(r)].index]
  BY <1>2 DEF SubmodulesOf
<1>5. Submodules[repo[Front(r)].index][Last(r)] \in Project[Append(Front(r), Last(r))]
  BY <1>1, <1>3, <1>4, CloneAssumption
<1> QED
  BY <1>1, <1>4, <1>5 DEF Expected

\* What is kept of the call when it fails or goes on.
LEMMA SameTypes ==
    ASSUME TypedOp, op'.o = op.o, op'.repo = op.repo, op'.left = op.left,
           op'.todo = op.todo, op'.ref = op.ref, op'.hash = op.hash
    PROVE  TypedOp'
BY DEF TypedOp

LEMMA GotoKeeps ==
    ASSUME Inv, NEW pc, op' = [op EXCEPT !.pc = pc]
    PROVE  /\ op'.pc = pc /\ op'.call = op.call /\ op'.o = op.o /\ op'.before = op.before
           /\ op'.cleanup = op.cleanup /\ op'.repo = op.repo /\ op'.hash = op.hash
           /\ op'.left = op.left /\ op'.todo = op.todo /\ op'.ref = op.ref
           /\ op'.new = op.new /\ op'.sound = op.sound
BY DEF Inv, Formed, FormedOp

LEMMA GotoTypes ==
    ASSUME Inv, TInv, NEW pc, Goto(pc), TypedRepos', TypedRefs', TypedRest', TypedStep'
    PROVE  TInv'
BY GotoKeeps, SameTypes DEF TInv, Goto

\* A call that fails has ended, or all that is left is its cleanup.
LEMMA FailEnds ==
    ASSUME Inv, NEW result, Fail(result)
    PROVE  \/ op' = Idle /\ End(result)
           \/ /\ op'.pc = "cleanup" /\ op'.o = op.o /\ op'.repo = op.repo
              /\ op'.left = op.left /\ op'.todo = op.todo /\ op'.ref = op.ref
              /\ op'.hash = op.hash /\ op'.call = op.call /\ op'.sound = op.sound
              /\ op'.result = result /\ last' = last /\ op.call = "clone"
<1>1. CASE End(result)
  BY <1>1 DEF End
<1>2. CASE op' = [op EXCEPT !.pc = "cleanup", !.result = result]
  BY <1>2 DEF Inv, Formed, FormedOp, Fail, End, Idle
<1> QED
  BY <1>1, <1>2 DEF Fail

LEMMA FailTypes ==
    ASSUME Inv, TInv, NEW result, Fail(result), TypedRepos', TypedRefs', TypedRest'
    PROVE  TInv'
<1>1. TypedOp' /\ TypedStep'
  <2>1. CASE op' = Idle
    BY <2>1, EndTypes
  <2>2. CASE op' # Idle
    <3>1. op'.pc = "cleanup" /\ TypedOp'
      BY <2>2, FailEnds, SameTypes DEF TInv
    <3> QED
      BY <3>1 DEF TypedStep
  <2> QED
    BY <2>1, <2>2
<1> QED
  BY <1>1 DEF TInv

LEMMA RestTypes == TypedRest /\ UNCHANGED Env => TypedRest'
BY DEF TypedRest, Env

LEMMA SameState ==
    ASSUME TInv, UNCHANGED <<repo, refs>>
    PROVE  TypedRepos' /\ TypedRefs'
BY DEF TInv, TypedRepos, TypedRepo, TypedRefs

-----------------------------------------------------------------------------
(***************************************************************************)
(* Each action keeps the types.                                            *)
(***************************************************************************)
\* A call begins in the outermost repository.
Fresh(o) ==
    /\ o.pc \in {"storer", "list", "fetch"}
    /\ o.repo = Top /\ o.left = 0 /\ o.todo = <<>>
    /\ o.hash = None /\ o.ref = [name |-> "HEAD", hash |-> None]

LEMMA BeginTypes ==
    ASSUME TInv, NEW call \in DOMAIN Options, op'.o \in Options[call], Fresh(op'),
           UNCHANGED <<repo, refs, remote, pushed, faults>>, calls > 0, calls' = calls - 1
    PROVE  TInv'
<1>1. op'.o \in Option
  BY CloneAssumption
<1>2. TypedOp'
  BY <1>1, CloneAssumption DEF TypedOp, Fresh
<1>3. TypedStep'
  BY DEF TypedStep, Fresh
<1>4. TypedRepos' /\ TypedRefs'
  BY SameState
<1>5. TypedRest'
  BY CloneAssumption DEF TInv, TypedRest
<1> QED
  BY <1>2, <1>3, <1>4, <1>5 DEF TInv

LEMMA StartTypes ==
    TInv /\ (StartClone \/ StartUpdate \/ StartInit \/ StartPull) => TInv'
<1> SUFFICES ASSUME TInv, StartClone \/ StartUpdate \/ StartInit \/ StartPull
             PROVE  TInv'
  OBVIOUS
<1>1. CASE StartClone
  <2>1. PICK o \in Options["clone"] :
          op' = [[Idle EXCEPT !.pc = "storer", !.cleanup = CleanupNeeded] EXCEPT
                    !.call = "clone", !.o = o, !.before = Place, !.sound = o.init /\ @]
    BY <1>1 DEF StartClone, Begin
  <2>2. Fresh(op') /\ op'.o = o
    BY <2>1 DEF Idle, Fresh
  <2> QED
    BY <1>1, <2>2, BeginTypes, CloneAssumption DEF StartClone, Begin
<1>2. CASE StartUpdate
  <2>1. PICK o \in Options["update"] :
          op' = [[Idle EXCEPT !.pc = "list", !.sound = Sound] EXCEPT
                    !.call = "update", !.o = o, !.before = Place, !.sound = o.init /\ @]
    BY <1>2 DEF StartUpdate, Begin
  <2>2. Fresh(op') /\ op'.o = o
    BY <2>1 DEF Idle, Fresh
  <2> QED
    BY <1>2, <2>2, BeginTypes, CloneAssumption DEF StartUpdate, Begin
<1>3. CASE StartInit
  <2>1. PICK o \in Options["init"] :
          op' = [[Idle EXCEPT !.pc = "list"] EXCEPT
                    !.call = "init", !.o = o, !.before = Place, !.sound = o.init /\ @]
    BY <1>3 DEF StartInit, Begin
  <2>2. Fresh(op') /\ op'.o = o
    BY <2>1 DEF Idle, Fresh
  <2> QED
    BY <1>3, <2>2, BeginTypes, CloneAssumption DEF StartInit, Begin
<1>4. CASE StartPull
  <2>1. PICK o \in Options["pull"] :
          op' = [[Idle EXCEPT !.pc = "fetch"] EXCEPT
                    !.call = "pull", !.o = o, !.before = Place, !.sound = o.init /\ @]
    BY <1>4 DEF StartPull, Begin
  <2>2. Fresh(op') /\ op'.o = o
    BY <2>1 DEF Idle, Fresh
  <2> QED
    BY <1>4, <2>2, BeginTypes, CloneAssumption DEF StartPull, Begin
<1> QED
  BY <1>1, <1>2, <1>3, <1>4

LEMMA InitStorerTypes == Inv /\ TInv /\ InitStorer => TInv'
<1> SUFFICES ASSUME Inv, TInv, InitStorer PROVE TInv'
  OBVIOUS
<1>1. TypedRepos' /\ TypedRefs' /\ TypedRest'
  BY SameState, RestTypes DEF InitStorer, At, TInv
<1>2. op'.pc = "init" /\ Goto("init")
  BY GotoKeeps DEF InitStorer, Goto
<1>3. TypedStep'
  BY <1>2 DEF TypedStep
<1> QED
  BY <1>1, <1>2, <1>3, GotoTypes

\* A record of a repository of which one field is written.
LEMMA RepoWrites ==
    ASSUME FormedRepos, TypedRepos, NEW r \in Repo, TypedRepo(r, repo'[r]),
           \A s \in Repo \ {r} : repo'[s] = repo[s]
    PROVE  TypedRepos'
BY DEF TypedRepos, TypedRepo

LEMMA InitHeadTypes == Inv /\ TInv /\ InitHead => TInv'
<1> SUFFICES ASSUME Inv, TInv, InitHead PROVE TInv'
  OBVIOUS
<1>1. TypedRest' /\ op.repo \in Repo /\ refs' = refs
  BY RestTypes DEF InitHead, At, TInv, TypedOp
<1>2. TypedRefs'
  BY <1>1 DEF TInv, TypedRefs
<1>3. CASE Fail("refused") /\ UNCHANGED repo
  BY <1>1, <1>2, <1>3, SameState, FailTypes
<1>4. CASE Goto("remote") /\ repo' = [repo EXCEPT ![op.repo].head = Master]
  <2>1. TypedRepo(op.repo, repo'[op.repo]) /\ \A s \in Repo \ {op.repo} : repo'[s] = repo[s]
    <3>1. /\ repo'[op.repo].head = Master /\ repo'[op.repo].origin = repo[op.repo].origin
          /\ repo'[op.repo].objs = repo[op.repo].objs /\ repo'[op.repo].index = repo[op.repo].index
          /\ repo'[op.repo].files = repo[op.repo].files /\ repo'[op.repo].subs = repo[op.repo].subs
          /\ \A s \in Repo \ {op.repo} : repo'[s] = repo[s]
      BY <1>1, <1>4 DEF Inv, Formed, FormedRepos, FormedRepo
    <3> QED
      BY <1>1, <3>1, CloneAssumption DEF TInv, TypedRepos, TypedRepo
  <2>2. TypedRepos'
    BY <1>1, <2>1, RepoWrites DEF Inv, Formed, TInv
  <2>3. op'.pc = "remote"
    BY <1>4, GotoKeeps DEF Goto
  <2>4. TypedStep'
    BY <2>3 DEF TypedStep
  <2> QED
    BY <1>1, <1>2, <1>4, <2>2, <2>4, GotoTypes
<1> QED
  BY <1>3, <1>4 DEF InitHead

LEMMA CreateRemoteTypes == Inv /\ TInv /\ CreateRemote => TInv'
<1> SUFFICES ASSUME Inv, TInv, CreateRemote PROVE TInv'
  OBVIOUS
<1>1. TypedRest' /\ op.repo \in Repo
  BY RestTypes DEF CreateRemote, At, TInv, TypedOp
<1>2. CASE Fail("refused") /\ UNCHANGED <<repo, refs>>
  BY <1>1, <1>2, SameState, FailTypes
<1>3. CASE /\ Goto("fetch")
           /\ repo' = [repo EXCEPT ![op.repo].origin = TRUE]
           /\ refs' = IF op.repo = Top THEN [refs EXCEPT !.spec = CloneRefSpec(op.o)]
                                       ELSE refs
  <2>1. /\ repo'[op.repo].head = repo[op.repo].head /\ repo'[op.repo].origin = TRUE
        /\ repo'[op.repo].objs = repo[op.repo].objs /\ repo'[op.repo].index = repo[op.repo].index
        /\ repo'[op.repo].files = repo[op.repo].files /\ repo'[op.repo].subs = repo[op.repo].subs
        /\ \A s \in Repo \ {op.repo} : repo'[s] = repo[s]
    BY <1>1, <1>3 DEF Inv, Formed, FormedRepos, FormedRepo
  <2>2. TypedRepo(op.repo, repo'[op.repo])
    BY <1>1, <2>1 DEF TInv, TypedRepos, TypedRepo
  <2>3. TypedRepos'
    BY <1>1, <2>1, <2>2, RepoWrites DEF Inv, Formed, TInv
  <2>4. CloneRefSpec(op.o) \subseteq Ref \cup {"*"}
    BY CloneAssumption DEF CloneRefSpec, TInv, TypedOp, Option, Ref
  <2>5. TypedRefs'
    BY <1>3, <2>4 DEF TInv, TypedRefs
  <2>6. op'.pc = "fetch"
    BY <1>3, GotoKeeps DEF Goto
  <2>7. TypedStep'
    BY <2>6 DEF TypedStep
  <2> QED
    BY <1>1, <1>3, <2>3, <2>5, <2>7, GotoTypes
<1> QED
  BY <1>2, <1>3 DEF CreateRemote

\* What the remote has.
LEMMA ResolvedTypes ==
    ASSUME TypedRest, NEW ref \in Ref
    PROVE  /\ Resolved(ref) = [name |-> Resolved(ref).name, hash |-> Resolved(ref).hash]
           /\ Resolved(ref).name \in Branch \cup {"tag"}
           /\ Resolved(ref).hash \in Project[Top] \cup {None, Blob}
           /\ ref # "tag" => /\ Resolved(ref).hash \in Project[Top] \cup {None}
                             /\ Resolved(ref).name \in Branch
           /\ Resolved(ref).name \in Branch =>
                /\ Resolved(ref).hash = remote.at[Resolved(ref).name]
                /\ Resolved(ref).hash \in Project[Top] \cup {None}
           /\ ref = "tag" => Resolved(ref).name = "tag"
           /\ ref \in Branch => Resolved(ref).name = ref
           /\ ref = "HEAD" => Resolved(ref).name = remote.head
<1>1. /\ remote.head \in Branch /\ remote.tag \in Project[Top] \cup {Blob}
      /\ \A b \in Branch : remote.at[b] \in Project[Top] \cup {None}
  BY DEF TypedRest, Remote
<1>2. CASE ref = "HEAD"
  BY <1>1, <1>2, CloneAssumption DEF Resolved
<1>3. CASE ref = "tag"
  BY <1>1, <1>3, CloneAssumption DEF Resolved
<1>4. CASE ref \in Branch
  BY <1>1, <1>4, CloneAssumption DEF Resolved
<1> QED
  BY <1>2, <1>3, <1>4 DEF Ref

LEMMA FetchObjectsTypes == Inv /\ TInv /\ FetchObjects => TypedRepos' /\ TypedRefs'
<1> SUFFICES ASSUME Inv, TInv, FetchObjects PROVE TypedRepos' /\ TypedRefs'
  OBVIOUS
<1> DEFINE matched == Matched(refs.spec)
           found == {Resolved(b).hash : b \in matched} \cap Commit
<1>1. /\ refs' = [refs EXCEPT !.tracking = Tracking]
      /\ repo' = [repo EXCEPT ![Top].objs = @ \cup Brought]
  BY DEF FetchObjects
<1>2. matched \subseteq Ref
  BY DEF TInv, TypedRefs, Matched, Heads, Ref
<1>3. \A b \in DOMAIN refs.tracking : Tracking[b] \in Project[Top] \cup {None}
  <2> SUFFICES ASSUME NEW b \in Branch \cup {"HEAD"} PROVE Tracking[b] \in Project[Top] \cup {None}
    BY DEF TInv, TypedRefs
  <2>1. DOMAIN refs.tracking = Branch \cup {"HEAD"} /\ refs.tracking[b] \in Project[Top] \cup {None}
    BY DEF TInv, TypedRefs
  <2>2. b \in Ref /\ b # "tag"
    BY CloneAssumption DEF Ref
  <2>3. Resolved(b).hash \in Project[Top] \cup {None}
    BY <2>2, ResolvedTypes DEF TInv
  <2> QED
    BY <2>1, <2>3 DEF Tracking
<1>4. TypedRefs'
  <2>1. Tracking \in [Branch \cup {"HEAD"} -> Project[Top] \cup {None}]
    BY <1>3 DEF TInv, TypedRefs, Tracking
  <2> QED
    BY <1>1, <2>1 DEF TInv, TypedRefs
<1>5. Brought \subseteq Project[Top]
  <2>1. \A c \in found : c \in Project[Top]
    <3> SUFFICES ASSUME NEW b \in matched, Resolved(b).hash \in Commit
                 PROVE  Resolved(b).hash \in Project[Top]
      OBVIOUS
    <3>1. b \in Ref
      BY <1>2
    <3> HIDE DEF matched
    <3> QED
      BY <3>1, ResolvedTypes, CloneAssumption DEF TInv
  <2>2. \A c \in Project[Top] : Behind[c] \subseteq Project[Top]
    BY CloneAssumption
  <2>3. Brought = UNION {Behind[c] : c \in found}
    BY DEF Brought
  <2> HIDE DEF found
  <2> QED
    BY <2>1, <2>2, <2>3
<1>6. TypedRepos'
  <2>1. /\ repo'[Top].head = repo[Top].head /\ repo'[Top].origin = repo[Top].origin
        /\ repo'[Top].objs = repo[Top].objs \cup Brought /\ repo'[Top].index = repo[Top].index
        /\ repo'[Top].files = repo[Top].files /\ repo'[Top].subs = repo[Top].subs
        /\ \A s \in Repo \ {Top} : repo'[s] = repo[s]
    BY <1>1, TopIsThere DEF Inv, Formed, FormedRepos, FormedRepo
  <2>2. TypedRepo(Top, repo'[Top])
    BY <1>5, <2>1, CloneAssumption DEF TInv, TypedRepos, TypedRepo
  <2> QED
    BY <2>1, <2>2, RepoWrites, CloneAssumption DEF Inv, Formed, TInv
<1> QED
  BY <1>4, <1>6

LEMMA FetchTopTypes == Inv /\ TInv /\ op.pc = "fetch" /\ FetchTop => TypedRepos' /\ TypedRefs' /\ TypedOp' /\ TypedStep'
<1> SUFFICES ASSUME Inv, TInv, op.pc = "fetch", FetchTop
             PROVE  TypedRepos' /\ TypedRefs' /\ TypedOp' /\ TypedStep'
  OBVIOUS
<1> DEFINE asked == Resolved(op.o.ref)
           next == IF op.call = "clone" THEN "refs" ELSE "decide"
<1>1. /\ op.repo = Top
      /\ op' = [op EXCEPT !.pc = next, !.ref = asked, !.hash = asked.hash,
                          !.new = Tracking # refs.tracking]
  BY DEF FetchTop, FetchObjects
<1>2. TypedRepos' /\ TypedRefs'
  BY FetchObjectsTypes DEF FetchTop
<1> HIDE DEF next
<1>3. /\ op'.pc = next /\ op'.o = op.o /\ op'.repo = op.repo /\ op'.left = op.left
      /\ op'.todo = op.todo /\ op'.ref = asked /\ op'.hash = asked.hash
  BY <1>1 DEF Inv, Formed, FormedOp
<1>4. op.o.ref \in Ref
  BY DEF TInv, TypedOp, Option
<1>5. TypedOp'
  <2>1. /\ asked.name \in Branch \cup {"tag"} /\ asked.hash \in Project[Top] \cup {None, Blob}
        /\ asked.name \in Branch => asked.hash \in Project[Top] \cup {None}
    BY <1>4, ResolvedTypes DEF TInv
  <2> HIDE DEF asked
  <2> QED
    BY <1>1, <1>3, <2>1, CloneAssumption DEF TInv, TypedOp
<1>6. TypedStep'
  BY <1>3 DEF TypedStep, next
<1> QED
  BY <1>2, <1>5, <1>6

LEMMA FetchTypes == Inv /\ TInv /\ Fetch => TInv'
<1> SUFFICES ASSUME Inv, TInv, Fetch PROVE TInv'
  OBVIOUS
<1>1. TypedRest' /\ op.repo \in Repo /\ op.pc = "fetch"
  BY RestTypes DEF Fetch, At, TInv, TypedOp
<1>2. CASE FetchTop
  BY <1>1, <1>2, FetchTopTypes DEF TInv
<1>3. CASE FetchSubmodule
  <2> DEFINE brought == Project[op.repo] \cap pushed
  <2>1. /\ repo' = [repo EXCEPT ![op.repo].objs = @ \cup brought]
        /\ op' = [op EXCEPT !.pc = "checkout"] /\ refs' = refs
    BY <1>3 DEF FetchSubmodule
  <2> HIDE DEF brought
  <2>2. /\ repo'[op.repo].head = repo[op.repo].head /\ repo'[op.repo].origin = repo[op.repo].origin
        /\ repo'[op.repo].objs = repo[op.repo].objs \cup brought
        /\ repo'[op.repo].index = repo[op.repo].index
        /\ repo'[op.repo].files = repo[op.repo].files /\ repo'[op.repo].subs = repo[op.repo].subs
        /\ \A s \in Repo \ {op.repo} : repo'[s] = repo[s]
    BY <1>1, <2>1 DEF Inv, Formed, FormedRepos, FormedRepo
  <2>3. TypedRepo(op.repo, repo'[op.repo])
    BY <1>1, <2>2 DEF TInv, TypedRepos, TypedRepo, brought
  <2>4. TypedRepos' /\ TypedRefs'
    BY <1>1, <2>1, <2>2, <2>3, RepoWrites DEF Inv, Formed, TInv, TypedRefs
  <2>5. op'.pc = "checkout" /\ TypedOp'
    BY <2>1, GotoKeeps, SameTypes DEF TInv
  <2>6. TypedStep'
    BY <2>5 DEF TypedStep
  <2> QED
    BY <1>1, <2>4, <2>5, <2>6 DEF TInv
<1>4. CASE Fail("refused") /\ UNCHANGED <<repo, refs>>
  BY <1>1, <1>4, SameState, FailTypes
<1>5. CASE FetchUnresolved
  BY <1>1, <1>5, FetchObjectsTypes, FailTypes DEF FetchUnresolved
<1> QED
  BY <1>2, <1>3, <1>4, <1>5 DEF Fetch

LEMMA UpdateReferencesTypes == Inv /\ TInv /\ UpdateReferences => TInv'
<1> SUFFICES ASSUME Inv, TInv, UpdateReferences PROVE TInv'
  OBVIOUS
<1> DEFINE name == op.ref.name
           hash == op.ref.hash
<1>1. TypedRest' /\ op.repo = Top /\ op.pc = "refs"
  BY RestTypes DEF UpdateReferences, At, TInv, Inv, HashInv
<1>2. ASSUME NEW head, repo' = [repo EXCEPT ![Top].head = head],
             head \in Branch \cup Project[Top], head \in Branch \/ hash \in Project[Top],
             NEW pc \in {"config", "reset"}, Goto(pc), TypedRefs'
      PROVE  TInv'
  <2>1. /\ repo'[Top].head = head /\ repo'[Top].origin = repo[Top].origin
        /\ repo'[Top].objs = repo[Top].objs /\ repo'[Top].index = repo[Top].index
        /\ repo'[Top].files = repo[Top].files /\ repo'[Top].subs = repo[Top].subs
        /\ \A s \in Repo \ {Top} : repo'[s] = repo[s]
    BY <1>2, TopIsThere DEF Inv, Formed, FormedRepos, FormedRepo
  <2>2. TypedRepo(Top, repo'[Top])
    BY <1>2, <2>1, CloneAssumption DEF TInv, TypedRepos, TypedRepo
  <2>3. TypedRepos'
    BY <2>1, <2>2, RepoWrites, CloneAssumption DEF Inv, Formed, TInv
  <2>4. op'.pc = pc /\ op'.repo = Top /\ op'.hash = hash
    BY <1>1, <1>2, GotoKeeps DEF Goto, TInv, TypedOp
  <2>5. TypedStep'
    BY <1>2, <2>1, <2>4 DEF TypedStep
  <2> QED
    BY <1>1, <1>2, <2>3, <2>5, GotoTypes
<1>3. CASE /\ name \in Branch
           /\ repo' = [repo EXCEPT ![Top].head = name]
           /\ refs' = [refs EXCEPT !.branch[name] = hash,
                                   !.tracking[name] =
                         IF @ = None /\ refs.spec \cap {name, "*"} # {} THEN hash ELSE @]
           /\ (Goto("config") \/ Goto("reset"))
  <2>1. hash \in Project[Top] \cup {None}
    BY <1>3 DEF TInv, TypedOp
  <2>2. PICK t \in Project[Top] \cup {None} :
          refs' = [refs EXCEPT !.branch[name] = hash, !.tracking[name] = t]
    <3>1. refs.tracking[name] \in Project[Top] \cup {None}
      BY <1>3 DEF TInv, TypedRefs
    <3> QED
      BY <1>3, <2>1, <3>1 DEF TInv, TypedRefs
  <2>3. /\ refs'.branch = [refs.branch EXCEPT ![name] = hash]
        /\ refs'.tracking = [refs.tracking EXCEPT ![name] = t]
        /\ refs'.spec = refs.spec /\ refs'.upstream = refs.upstream
        /\ refs' = [branch |-> refs'.branch, tracking |-> refs'.tracking,
                    spec |-> refs'.spec, upstream |-> refs'.upstream]
    BY <2>2 DEF TInv, TypedRefs
  <2>4. TypedRefs'
    BY <1>3, <2>1, <2>3 DEF TInv, TypedRefs
  <2> QED
    BY <1>2, <1>3, <2>4
<1>4. CASE /\ IsCommit(hash) /\ refs' = refs
           /\ repo' = [repo EXCEPT ![Top].head = hash]
           /\ (Goto("config") \/ Goto("reset"))
  <2>1. hash \in Project[Top]
    BY <1>4, CloneAssumption DEF IsCommit, TInv, TypedRepos, TypedRepo
  <2>2. TypedRefs'
    BY <1>4 DEF TInv, TypedRefs
  <2> QED
    BY <1>2, <1>4, <2>1, <2>2
<1>5. CASE Fail("refused") /\ UNCHANGED <<repo, refs>>
  BY <1>1, <1>5, SameState, FailTypes
<1> QED
  BY <1>3, <1>4, <1>5 DEF UpdateReferences

\* What HEAD is at.
LEMMA HeadCommitIs ==
    ASSUME NEW r
    PROVE  /\ repo[r].head \notin Branch => HeadCommit(r) = repo[r].head
           /\ repo[r].head \in Branch /\ r = Top => HeadCommit(r) = refs.branch[repo[r].head]
           /\ repo[r].head \in Branch /\ r # Top => HeadCommit(r) = None
BY DEF HeadCommit

\* HEAD is moved to a commit, or its branch is set to it.
LEMMA SetHeadTypes ==
    ASSUME Inv, TInv, SetHead(op.hash), op.repo = Top \/ repo[op.repo].head = op.hash,
           repo[op.repo].head \notin Branch => op.hash \in Project[op.repo]
    PROVE  /\ TypedRepos' /\ TypedRefs'
           /\ op.repo # Top => repo'[op.repo].head = op.hash
           /\ repo[op.repo].head \notin Branch => repo'[op.repo].head = op.hash
           /\ repo[op.repo].head \in Branch => repo' = repo
           /\ \A s \in Repo \ {op.repo} : repo'[s] = repo[s]
           /\ repo'[op.repo].objs = repo[op.repo].objs
           /\ repo'[op.repo].index = repo[op.repo].index
           /\ repo'[op.repo].files = repo[op.repo].files
           /\ repo'[op.repo].origin = repo[op.repo].origin
           /\ repo'[op.repo].subs = repo[op.repo].subs
<1>1. op.repo \in Repo /\ (op.repo # Top => op.hash \in Project[op.repo])
  BY DEF TInv, TypedOp
<1>2. CASE repo[op.repo].head \in Branch
  <2>1. op.repo = Top
    BY <1>1, <1>2, CloneAssumption
  <2>2. refs' = [refs EXCEPT !.branch[repo[Top].head] = op.hash] /\ repo' = repo
    BY <1>2 DEF SetHead
  <2>3. op.hash \in Project[Top] \cup {None, Blob}
    BY <2>1 DEF TInv, TypedOp
  <2>4. TypedRefs'
    BY <1>2, <2>1, <2>2, <2>3 DEF TInv, TypedRefs
  <2>5. TypedRepos'
    BY <2>2 DEF TInv, TypedRepos, TypedRepo
  <2> QED
    BY <1>2, <2>1, <2>2, <2>4, <2>5
<1>3. CASE repo[op.repo].head \notin Branch
  <2>1. repo' = [repo EXCEPT ![op.repo].head = op.hash] /\ refs' = refs
    BY <1>3 DEF SetHead
  <2>2. /\ repo'[op.repo].head = op.hash /\ repo'[op.repo].origin = repo[op.repo].origin
        /\ repo'[op.repo].objs = repo[op.repo].objs /\ repo'[op.repo].index = repo[op.repo].index
        /\ repo'[op.repo].files = repo[op.repo].files /\ repo'[op.repo].subs = repo[op.repo].subs
        /\ \A s \in Repo \ {op.repo} : repo'[s] = repo[s]
    BY <1>1, <2>1 DEF Inv, Formed, FormedRepos, FormedRepo
  <2>3. TypedRepo(op.repo, repo'[op.repo])
    BY <1>1, <1>3, <2>2 DEF TInv, TypedRepos, TypedRepo
  <2>4. TypedRepos' /\ TypedRefs'
    BY <1>1, <2>1, <2>2, <2>3, RepoWrites DEF Inv, Formed, TInv, TypedRefs
  <2> QED
    BY <1>3, <2>2, <2>4
<1> QED
  BY <1>2, <1>3

LEMMA DecideTypes == Inv /\ TInv /\ Decide => TInv'
<1> SUFFICES ASSUME Inv, TInv, Decide PROVE TInv'
  OBVIOUS
<1>1. /\ TypedRest' /\ op.pc = "decide" /\ op.repo = Top
      /\ op.call # "clone" /\ repo[Top].head # None
  BY RestTypes DEF Decide, At, TInv, Inv, HashInv, CallInv, CloneInv, OtherInv, Present
<1>2. CASE End("upToDate") /\ Steady
  BY <1>1, <1>2, SameState, EndTypes DEF Steady, End, TInv
<1>3. CASE Fail("refused") /\ Steady
  BY <1>1, <1>3, SameState, FailTypes DEF Steady
<1>4. CASE FastForward /\ SetHead(op.hash) /\ Goto("reset")
  <2>1. repo[Top].head \notin Branch => op.hash \in Project[Top]
    <3>1. repo[Top].head \notin Branch => HeadCommit(Top) # None
      BY <1>1, HeadCommitIs
    <3>2. repo[Top].objs \subseteq Project[Top]
      BY CloneAssumption DEF TInv, TypedRepos, TypedRepo
    <3> QED
      BY <1>4, <3>1, <3>2 DEF FastForward
  <2>2. /\ TypedRepos' /\ TypedRefs'
        /\ repo[Top].head \notin Branch => repo'[Top].head = op.hash
        /\ repo[Top].head \in Branch => repo' = repo
    BY <1>1, <1>4, <2>1, SetHeadTypes
  <2>3. op'.pc = "reset" /\ op'.repo = Top /\ op'.hash = op.hash
    BY <1>1, <1>4, GotoKeeps DEF Goto
  <2>4. TypedStep'
    BY <1>1, <2>1, <2>2, <2>3 DEF TypedStep
  <2> QED
    BY <1>1, <1>4, <2>2, <2>4, GotoTypes
<1> QED
  BY <1>2, <1>3, <1>4 DEF Decide

LEMMA CheckoutTypes == Inv /\ TInv /\ Checkout => TInv'
<1> SUFFICES ASSUME Inv, TInv, Checkout PROVE TInv'
  OBVIOUS
<1>1. /\ TypedRest' /\ op.pc = "checkout" /\ op.repo \in Repo
      /\ op.repo # Top /\ op.hash \in Project[op.repo]
  BY RestTypes DEF Checkout, At, TInv, TypedOp, Inv, HashInv
<1>2. /\ repo' = [repo EXCEPT ![op.repo].head = op.hash] /\ Goto("reset") /\ refs' = refs
  BY DEF Checkout
<1>3. /\ repo'[op.repo].head = op.hash /\ repo'[op.repo].origin = repo[op.repo].origin
      /\ repo'[op.repo].objs = repo[op.repo].objs /\ repo'[op.repo].index = repo[op.repo].index
      /\ repo'[op.repo].files = repo[op.repo].files /\ repo'[op.repo].subs = repo[op.repo].subs
      /\ \A s \in Repo \ {op.repo} : repo'[s] = repo[s]
  BY <1>1, <1>2 DEF Inv, Formed, FormedRepos, FormedRepo
<1>4. TypedRepo(op.repo, repo'[op.repo])
  BY <1>1, <1>3 DEF TInv, TypedRepos, TypedRepo
<1>5. TypedRepos' /\ TypedRefs'
  BY <1>1, <1>2, <1>3, <1>4, RepoWrites DEF Inv, Formed, TInv, TypedRefs
<1>6. op'.pc = "reset" /\ op'.repo = op.repo /\ op'.hash = op.hash
  BY <1>2, GotoKeeps DEF Goto
<1>7. TypedStep'
  BY <1>1, <1>3, <1>6 DEF TypedStep
<1> QED
  BY <1>1, <1>2, <1>5, <1>7, GotoTypes

\* The submodules that Status creates are those of the repository it is about.
LEMMA CreatedTypes ==
    ASSUME Inv, TInv,
           repo' = [r \in Repo |-> IF r \in Created(op.repo)
                                   THEN [repo[r] EXCEPT !.head = Master, !.origin = TRUE]
                                   ELSE repo[r]]
    PROVE  /\ TypedRepos'
           /\ \A r \in Repo :
                /\ repo'[r].objs = repo[r].objs /\ repo'[r].index = repo[r].index
                /\ repo'[r].files = repo[r].files /\ repo'[r].subs = repo[r].subs
           /\ \A r \in Created(op.repo) :
                /\ r \in Listed(op.repo) /\ r \in Repo \ {Top} /\ Front(r) = op.repo
                /\ r # op.repo /\ repo[r].head = None
                /\ repo'[r].head = Master /\ repo'[r].origin
           /\ \A r \in Repo \ Created(op.repo) : repo'[r] = repo[r]
<1>1. op.repo \in Repo
  BY DEF TInv, TypedOp
<1>2. \A r \in Created(op.repo) :
        /\ r \in Listed(op.repo) /\ r \in Repo \ {Top} /\ Front(r) = op.repo
        /\ r # op.repo /\ repo[r].head = None
  BY <1>1, ListedBelow DEF Created, Asked, TInv
<1>3. \A r \in Repo \ Created(op.repo) : repo'[r] = repo[r]
  OBVIOUS
<1>4. \A r \in Created(op.repo) : repo'[r] = [repo[r] EXCEPT !.head = Master, !.origin = TRUE]
  BY <1>2
<1>5. \A r \in Repo : FormedRepo(repo[r])
  BY DEF Inv, Formed, FormedRepos
<1>6. \A r \in Created(op.repo) :
        /\ repo'[r].head = Master /\ repo'[r].origin = TRUE
        /\ repo'[r].objs = repo[r].objs /\ repo'[r].index = repo[r].index
        /\ repo'[r].files = repo[r].files /\ repo'[r].subs = repo[r].subs
  <2>1. ASSUME NEW v, NEW w, FormedRepo(v), w = [v EXCEPT !.head = Master, !.origin = TRUE]
        PROVE  /\ w.head = Master /\ w.origin = TRUE /\ w.objs = v.objs
               /\ w.index = v.index /\ w.files = v.files /\ w.subs = v.subs
    BY <2>1 DEF FormedRepo
  <2> SUFFICES ASSUME NEW r \in Created(op.repo)
               PROVE  /\ repo'[r].head = Master /\ repo'[r].origin = TRUE
                      /\ repo'[r].objs = repo[r].objs /\ repo'[r].index = repo[r].index
                      /\ repo'[r].files = repo[r].files /\ repo'[r].subs = repo[r].subs
    OBVIOUS
  <2>2. FormedRepo(repo[r]) /\ repo'[r] = [repo[r] EXCEPT !.head = Master, !.origin = TRUE]
    BY <1>2, <1>4, <1>5
  <2> QED
    BY <2>1, <2>2, Zenon
<1>7. TypedRepos'
  <2> SUFFICES ASSUME NEW r \in Repo PROVE TypedRepo(r, repo'[r])
    BY DEF TypedRepos
  <2>1. TypedRepo(r, repo[r])
    BY DEF TInv, TypedRepos
  <2>2. CASE r \in Created(op.repo)
    BY <1>6, <2>1, <2>2, NoneIsNothing DEF TypedRepo
  <2>3. CASE r \notin Created(op.repo)
    <3>1. repo'[r] = repo[r]
      BY <1>3, <2>3
    <3> QED
      BY <2>1, <3>1
  <2> QED
    BY <2>2, <2>3
<1> QED
  BY <1>2, <1>3, <1>6, <1>7

LEMMA CheckUnstagedTypes == Inv /\ TInv /\ CheckUnstaged => TInv'
<1> SUFFICES ASSUME Inv, TInv, CheckUnstaged PROVE TInv'
  OBVIOUS
<1>1. TypedRest' /\ op.pc = "reset" /\ TypedRefs' /\ op.repo \in Repo
  BY RestTypes DEF CheckUnstaged, At, TInv, TypedRefs, TypedOp
<1>2. TypedRepos' /\ repo'[op.repo] = repo[op.repo]
  BY <1>1, CreatedTypes DEF CheckUnstaged
<1>3. CASE Fail("refused")
  BY <1>1, <1>2, <1>3, FailTypes
<1>4. CASE Goto("setHead")
  <2>1. op'.pc = "setHead" /\ op'.repo = op.repo /\ op'.hash = op.hash
    BY <1>4, GotoKeeps DEF Goto
  <2>2. TypedStep'
    BY <1>1, <1>2, <2>1 DEF TInv, TypedStep
  <2> QED
    BY <1>1, <1>2, <1>4, <2>2, GotoTypes
<1> QED
  BY <1>3, <1>4 DEF CheckUnstaged

LEMMA SetHeadCommitTypes == Inv /\ TInv /\ SetHeadCommit => TInv'
<1> SUFFICES ASSUME Inv, TInv, SetHeadCommit PROVE TInv'
  OBVIOUS
<1>1. TypedRest' /\ op.pc = "setHead" /\ SetHead(op.hash) /\ op.repo \in Repo
  BY RestTypes DEF SetHeadCommit, At, TInv, TypedOp
<1>2. /\ TypedRepos' /\ TypedRefs' /\ repo'[op.repo].objs = repo[op.repo].objs
      /\ op.repo # Top => repo'[op.repo].head = op.hash
  BY <1>1, SetHeadTypes DEF TInv, TypedStep
<1>3. CASE Fail("refused")
  BY <1>1, <1>2, <1>3, FailTypes
<1>4. CASE op.hash \in repo[op.repo].objs /\ Goto("index")
  <2>1. op'.pc = "index" /\ op'.repo = op.repo /\ op'.hash = op.hash
    BY <1>4, GotoKeeps DEF Goto
  <2>2. TypedStep'
    BY <1>2, <1>4, <2>1 DEF TypedStep
  <2> QED
    BY <1>1, <1>2, <1>4, <2>2, GotoTypes
<1> QED
  BY <1>3, <1>4 DEF SetHeadCommit

\* The index and the files are those of a commit that is there.
LEMMA ResetIndexTypes == Inv /\ TInv /\ ResetIndex => TInv'
<1> SUFFICES ASSUME Inv, TInv, ResetIndex PROVE TInv'
  OBVIOUS
<1>1. /\ TypedRest' /\ op.pc = "index" /\ op.repo \in Repo
      /\ op.hash \in repo[op.repo].objs
      /\ op.repo # Top => repo[op.repo].head = op.hash
  BY RestTypes DEF ResetIndex, At, TInv, TypedOp, TypedStep
<1>2. /\ repo' = [repo EXCEPT ![op.repo].index = op.hash] /\ Goto("files") /\ refs' = refs
  BY DEF ResetIndex
<1>3. /\ repo'[op.repo].head = repo[op.repo].head /\ repo'[op.repo].origin = repo[op.repo].origin
      /\ repo'[op.repo].objs = repo[op.repo].objs /\ repo'[op.repo].index = op.hash
      /\ repo'[op.repo].files = repo[op.repo].files /\ repo'[op.repo].subs = repo[op.repo].subs
      /\ \A s \in Repo \ {op.repo} : repo'[s] = repo[s]
  BY <1>1, <1>2 DEF Inv, Formed, FormedRepos, FormedRepo
<1>4. TypedRepo(op.repo, repo'[op.repo])
  BY <1>1, <1>3 DEF TInv, TypedRepos, TypedRepo
<1>5. TypedRepos' /\ TypedRefs'
  BY <1>1, <1>2, <1>3, <1>4, RepoWrites DEF Inv, Formed, TInv, TypedRefs
<1>6. op'.pc = "files" /\ op'.repo = op.repo /\ op'.hash = op.hash
  BY <1>2, GotoKeeps DEF Goto
<1>7. TypedStep'
  BY <1>1, <1>3, <1>6 DEF TypedStep
<1> QED
  BY <1>1, <1>2, <1>5, <1>7, GotoTypes

LEMMA ResetFilesTypes == Inv /\ TInv /\ ResetFiles => TInv'
<1> SUFFICES ASSUME Inv, TInv, ResetFiles PROVE TInv'
  OBVIOUS
<1>1. /\ TypedRest' /\ op.pc = "files" /\ op.repo \in Repo
      /\ op.hash \in repo[op.repo].objs
      /\ op.repo # Top => repo[op.repo].head = op.hash
  BY RestTypes DEF ResetFiles, At, TInv, TypedOp, TypedStep
<1>2. /\ repo' = [repo EXCEPT ![op.repo].files = op.hash] /\ Goto(NextPc) /\ refs' = refs
  BY DEF ResetFiles
<1>3. /\ repo'[op.repo].head = repo[op.repo].head /\ repo'[op.repo].origin = repo[op.repo].origin
      /\ repo'[op.repo].objs = repo[op.repo].objs /\ repo'[op.repo].index = repo[op.repo].index
      /\ repo'[op.repo].files = op.hash /\ repo'[op.repo].subs = repo[op.repo].subs
      /\ \A s \in Repo \ {op.repo} : repo'[s] = repo[s]
  BY <1>1, <1>2 DEF Inv, Formed, FormedRepos, FormedRepo
<1>4. TypedRepo(op.repo, repo'[op.repo])
  BY <1>1, <1>3 DEF TInv, TypedRepos, TypedRepo
<1>5. TypedRepos' /\ TypedRefs'
  BY <1>1, <1>2, <1>3, <1>4, RepoWrites DEF Inv, Formed, TInv, TypedRefs
<1>6. op'.pc = NextPc /\ op'.repo = op.repo /\ op'.hash = op.hash /\ op'.left = op.left
  BY <1>2, GotoKeeps DEF Goto
<1>7. NextPc \in {"list", "next", "config", "end"} /\ (NextPc = "list" /\ op.repo # Top => op.left > 0)
  BY DEF NextPc
<1>8. TypedStep'
  BY <1>1, <1>3, <1>6, <1>7 DEF TypedStep
<1> QED
  BY <1>1, <1>2, <1>5, <1>8, GotoTypes

LEMMA ListSubmodulesTypes == Inv /\ TInv /\ ListSubmodules => TInv'
<1> SUFFICES ASSUME Inv, TInv, ListSubmodules PROVE TInv'
  OBVIOUS
<1> DEFINE list == [of |-> Listed(op.repo), left |-> LevelsBelow]
<1>1. /\ TypedRest' /\ TypedRepos' /\ TypedRefs' /\ op.repo \in Repo /\ op.pc = "list"
  BY RestTypes, SameState DEF ListSubmodules, At, Steady, TInv, TypedOp
<1>2. op' = [op EXCEPT !.pc = "next", !.todo = <<list>> \o @]
  BY DEF ListSubmodules
<1>3. list \in Lists
  <2>1. Listed(op.repo) \subseteq Repo \ {Top}
    BY <1>1, ListedBelow DEF TInv
  <2>2. LevelsBelow \in Nat
    BY <1>1 DEF LevelsBelow, TInv, TypedOp, TypedStep, Option
  <2> QED
    BY <2>1, <2>2 DEF Lists
<1> HIDE DEF list
<1>4. /\ op'.pc = "next" /\ op'.o = op.o /\ op'.repo = op.repo /\ op'.left = op.left
      /\ op'.todo = <<list>> \o op.todo /\ op'.ref = op.ref /\ op'.hash = op.hash
  BY <1>2 DEF Inv, Formed, FormedOp
<1>5. op'.todo \in Seq(Lists)
  BY <1>3, <1>4, StackProperties DEF TInv, TypedOp
<1>6. TypedOp'
  BY <1>4, <1>5 DEF TInv, TypedOp
<1> QED
  BY <1>1, <1>4, <1>6 DEF TInv, TypedStep

\* A submodule is taken off the first list.
LEMMA WithoutTypes ==
    ASSUME op.todo \in Seq(Lists), op.todo # <<>>, NEW r
    PROVE  /\ Without(r) \in Seq(Lists)
           /\ Head(op.todo) \in Lists /\ Tail(op.todo) \in Seq(Lists)
           /\ [Head(op.todo) EXCEPT !.of = @ \ {r}] =
                [of |-> Head(op.todo).of \ {r}, left |-> Head(op.todo).left]
<1> DEFINE list == [Head(op.todo) EXCEPT !.of = @ \ {r}]
<1>1. Head(op.todo) \in Lists /\ Tail(op.todo) \in Seq(Lists)
  BY StackProperties
<1>2. list = [of |-> Head(op.todo).of \ {r}, left |-> Head(op.todo).left]
  <2>1. ASSUME NEW x \in Lists
        PROVE  [x EXCEPT !.of = @ \ {r}] = [of |-> x.of \ {r}, left |-> x.left]
    <3> DEFINE y == [x EXCEPT !.of = @ \ {r}]
    <3>1. x = [of |-> x.of, left |-> x.left]
      BY DEF Lists
    <3>2. DOMAIN y = {"of", "left"} /\ y.of = x.of \ {r} /\ y.left = x.left
      BY <3>1
    <3>3. y = [i \in DOMAIN y |-> y[i]]
      OBVIOUS
    <3> HIDE DEF y
    <3>4. y = [of |-> x.of \ {r}, left |-> x.left]
      BY <3>2, <3>3
    <3> QED
      BY <3>4 DEF y
  <2> QED
    BY <1>1, <2>1, Zenon
<1>3. list \in Lists
  BY <1>1, <1>2 DEF Lists
<1>4. Without(r) = <<list>> \o Tail(op.todo)
  BY DEF Without
<1> QED
  BY <1>1, <1>2, <1>3, <1>4, StackProperties

\* Submodules are registered in the configuration of their parent.
LEMMA SubsTypes ==
    ASSUME Inv, TInv, NEW r \in Repo \ {Top},
           repo' = [repo EXCEPT ![Front(r)].subs = @ \cup {Last(r)}]
    PROVE  /\ TypedRepos'
           /\ \A s \in Repo :
                /\ repo'[s].head = repo[s].head /\ repo'[s].origin = repo[s].origin
                /\ repo'[s].objs = repo[s].objs /\ repo'[s].index = repo[s].index
                /\ repo'[s].files = repo[s].files
                /\ s # Front(r) => repo'[s].subs = repo[s].subs
<1> DEFINE p == Front(r)
<1>1. p \in Repo /\ Last(r) \in Name
  BY PathAbove
<1>2. /\ repo'[p].head = repo[p].head /\ repo'[p].origin = repo[p].origin
      /\ repo'[p].objs = repo[p].objs /\ repo'[p].index = repo[p].index
      /\ repo'[p].files = repo[p].files /\ repo'[p].subs = repo[p].subs \cup {Last(r)}
      /\ \A s \in Repo \ {p} : repo'[s] = repo[s]
  BY <1>1 DEF Inv, Formed, FormedRepos, FormedRepo
<1> HIDE DEF p
<1>3. TypedRepo(p, repo'[p])
  BY <1>1, <1>2 DEF TInv, TypedRepos, TypedRepo
<1>4. TypedRepos'
  BY <1>1, <1>2, <1>3, RepoWrites DEF Inv, Formed, TInv
<1> QED
  BY <1>2, <1>4 DEF p

LEMMA NextSubmoduleTypes == Inv /\ TInv /\ NextSubmodule => TInv'
<1> SUFFICES ASSUME Inv, TInv, NextSubmodule PROVE TInv'
  OBVIOUS
<1>1. /\ TypedRest' /\ TypedRefs' /\ op.pc = "next" /\ op.todo # <<>> /\ op.todo \in Seq(Lists)
  BY RestTypes DEF NextSubmodule, At, TInv, TypedOp, TypedRefs
<1>2. Head(op.todo) \in Lists /\ Tail(op.todo) \in Seq(Lists)
  BY <1>1, StackProperties
<1>3. CASE op' = [op EXCEPT !.todo = Tail(@)] /\ UNCHANGED <<repo, last>>
  <2>1. /\ op'.pc = "next" /\ op'.o = op.o /\ op'.repo = op.repo /\ op'.left = op.left
        /\ op'.todo = Tail(op.todo) /\ op'.ref = op.ref /\ op'.hash = op.hash
    BY <1>1, <1>3 DEF Inv, Formed, FormedOp
  <2>2. TypedOp' /\ TypedStep'
    BY <1>2, <2>1 DEF TInv, TypedOp, TypedStep
  <2> QED
    BY <1>1, <1>3, <2>2 DEF TInv, TypedRepos, TypedRepo
<1>4. CASE Fail("refused") /\ UNCHANGED repo
  BY <1>1, <1>4, FailTypes DEF TInv, TypedRepos, TypedRepo
<1>5. ASSUME NEW r \in Head(op.todo).of, Register(r), ~(Fail("refused") /\ UNCHANGED repo)
      PROVE  TInv'
  <2>1. r \in Repo \ {Top}
    BY <1>2 DEF Lists
  <2>2. /\ repo' = [repo EXCEPT ![Front(r)].subs = @ \cup {Last(r)}]
        /\ op' = [op EXCEPT !.todo = Without(r)]
    BY <1>5 DEF Register
  <2>3. TypedRepos'
    BY <2>1, <2>2, SubsTypes
  <2>4. /\ op'.pc = "next" /\ op'.o = op.o /\ op'.repo = op.repo /\ op'.left = op.left
        /\ op'.todo = Without(r) /\ op'.ref = op.ref /\ op'.hash = op.hash
    BY <1>1, <2>2 DEF Inv, Formed, FormedOp
  <2>5. op'.todo \in Seq(Lists)
    BY <1>1, <2>4, WithoutTypes
  <2>6. TypedOp' /\ TypedStep'
    BY <2>4, <2>5 DEF TInv, TypedOp, TypedStep
  <2> QED
    BY <1>1, <2>3, <2>6 DEF TInv
<1>6. ASSUME NEW r \in Head(op.todo).of, StartSubmodule(r), ~(Fail("refused") /\ UNCHANGED repo)
      PROVE  TInv'
  <2>1. r \in Repo \ {Top} /\ Head(op.todo).left \in Nat
    BY <1>2 DEF Lists
  <2>2. repo' = [repo EXCEPT ![Front(r)].subs = @ \cup {Last(r)}]
    BY <1>6 DEF StartSubmodule
  <2>3. TypedRepos'
    BY <2>1, <2>2, SubsTypes
  <2>4. CASE Fail("refused")
    BY <1>1, <2>3, <2>4, FailTypes
  <2>5. CASE ~Fail("refused")
    <3>1. /\ op' = [op EXCEPT !.pc = RepositoryPc(r), !.repo = r, !.hash = Expected(r),
                              !.left = Head(op.todo).left, !.todo = Without(r)]
          /\ Last(r) \in DOMAIN SubmodulesOf(repo[Front(r)].index)
      BY <1>6, <2>5 DEF StartSubmodule, Expected
    <3>2. Expected(r) \in Project[r]
      BY <2>1, <3>1, ExpectedTyped DEF TInv
    <3>3. /\ op'.pc = RepositoryPc(r) /\ op'.o = op.o /\ op'.repo = r
          /\ op'.left = Head(op.todo).left /\ op'.todo = Without(r) /\ op'.ref = op.ref
          /\ op'.hash = Expected(r)
      BY <3>1 DEF Inv, Formed, FormedOp
    <3>4. op'.todo \in Seq(Lists)
      BY <1>1, <3>3, WithoutTypes
    <3>5. TypedOp'
      BY <2>1, <3>2, <3>3, <3>4 DEF TInv, TypedOp
    <3>6. TypedStep'
      BY <3>3 DEF RepositoryPc, TypedStep
    <3> QED
      BY <1>1, <2>3, <3>5, <3>6 DEF TInv
  <2> QED
    BY <2>4, <2>5
<1> QED
  BY <1>3, <1>4, <1>5, <1>6 DEF NextSubmodule

LEMMA LastStepTypes ==
    Inv /\ TInv /\ (SubmodulesDone \/ CreateBranch \/ CleanUp \/ Return) => TInv'
<1> SUFFICES ASSUME Inv, TInv, SubmodulesDone \/ CreateBranch \/ CleanUp \/ Return PROVE TInv'
  OBVIOUS
<1>1. TypedRest'
  BY RestTypes DEF SubmodulesDone, CreateBranch, CleanUp, Return, At, TInv
<1>2. CASE SubmodulesDone
  <2>1. PICK pc \in {"config", "end"} : Goto(pc)
    BY <1>2 DEF SubmodulesDone
  <2>2. TypedStep'
    BY <2>1, GotoKeeps DEF Goto, TypedStep
  <2> QED
    BY <1>1, <1>2, <2>1, <2>2, SameState, GotoTypes DEF SubmodulesDone, Steady
<1>3. CASE CreateBranch
  <2>1. PICK upstream \in SUBSET Branch : refs' = [refs EXCEPT !.upstream = upstream]
    BY <1>3 DEF CreateBranch, TInv, TypedRefs
  <2>2. TypedRefs'
    BY <2>1 DEF TInv, TypedRefs
  <2>3. TypedRepos'
    BY <1>3 DEF CreateBranch, TInv, TypedRepos
  <2>4. CASE Fail("refused")
    BY <1>1, <2>2, <2>3, <2>4, FailTypes
  <2>5. CASE End("ok")
    BY <1>1, <2>2, <2>3, <2>5, EndTypes DEF End, TInv
  <2> QED
    BY <1>3, <2>4, <2>5 DEF CreateBranch
<1>4. CASE CleanUp
  <2>1. repo' = [r \in Repo |-> NoRepo] /\ refs' = NoRefs /\ op' = Idle
    BY <1>4 DEF CleanUp, End
  <2>2. TypedRepos'
    BY <2>1 DEF NoRepo, TypedRepos, TypedRepo
  <2>3. TypedRefs'
    BY <2>1 DEF NoRefs, TypedRefs
  <2> QED
    BY <1>1, <2>1, <2>2, <2>3, EndTypes DEF TInv
<1>5. CASE Return
  BY <1>1, <1>5, SameState, EndTypes DEF Return, Steady, End, TInv
<1> QED
  BY <1>2, <1>3, <1>4, <1>5

LEMMA MishapTypes == Inv /\ TInv /\ (StepFails \/ Die) => TInv'
<1> SUFFICES ASSUME Inv, TInv, StepFails \/ Die PROVE TInv'
  OBVIOUS
<1>1. TypedRest' /\ TypedRefs'
  BY CloneAssumption DEF StepFails, Die, Mishap, TInv, TypedRest, TypedRefs
<1>2. CASE StepFails
  <2>1. TypedRepos'
    BY <1>2 DEF StepFails, TInv, TypedRepos
  <2>2. PICK result : Fail(result)
    BY <1>2 DEF StepFails
  <2> QED
    BY <1>1, <2>1, <2>2, FailTypes
<1>3. CASE Die
  <2>1. op' = Idle
    BY <1>3 DEF Die, End
  <2>2. CASE UNCHANGED repo
    BY <1>1, <2>1, <2>2, EndTypes DEF TInv, TypedRepos
  <2>3. CASE repo' = [repo EXCEPT ![Top].head = None]
    <3>1. /\ repo'[Top].head = None /\ repo'[Top].origin = repo[Top].origin
          /\ repo'[Top].objs = repo[Top].objs /\ repo'[Top].index = repo[Top].index
          /\ repo'[Top].files = repo[Top].files /\ repo'[Top].subs = repo[Top].subs
          /\ \A s \in Repo \ {Top} : repo'[s] = repo[s]
      BY <2>3, TopIsThere DEF Inv, Formed, FormedRepos, FormedRepo
    <3>2. TypedRepo(Top, repo'[Top])
      BY <3>1, CloneAssumption DEF TInv, TypedRepos, TypedRepo
    <3>3. TypedRepos'
      BY <3>1, <3>2, RepoWrites, CloneAssumption DEF Inv, Formed, TInv
    <3> QED
      BY <1>1, <2>1, <3>3, EndTypes DEF TInv
  <2> QED
    BY <1>3, <2>2, <2>3 DEF Die
<1> QED
  BY <1>2, <1>3

LEMMA OthersTypes == Inv /\ TInv /\ (Publish \/ Push \/ UNCHANGED vars) => TInv'
<1> SUFFICES ASSUME Inv, TInv, Publish \/ Push \/ UNCHANGED vars PROVE TInv'
  OBVIOUS
<1>1. UNCHANGED <<repo, refs, op, calls, faults>>
  BY DEF Publish, Push, vars
<1>2. TypedRepos' /\ TypedRefs' /\ TypedOp' /\ TypedStep'
  BY <1>1 DEF TInv, TypedRepos, TypedRefs, TypedOp, TypedStep
<1>3. remote' \in Remote
  <2>1. CASE Publish
    <3>1. PICK b \in Branch, c \in Project[Top] : remote' = [remote EXCEPT !.at[b] = c]
      BY <2>1 DEF Publish, Heads
    <3> QED
      BY <3>1 DEF TInv, TypedRest, Remote
  <2>2. CASE Push \/ UNCHANGED vars
    BY <2>2 DEF Push, vars, TInv, TypedRest
  <2> QED
    BY <2>1, <2>2
<1>4. pushed' \subseteq Commit
  BY CloneAssumption DEF Publish, Push, vars, TInv, TypedRest
<1> QED
  BY <1>1, <1>2, <1>3, <1>4 DEF TInv, TypedRest

LEMMA NextTypes == Inv /\ TInv /\ [Next]_vars => TInv'
<1> SUFFICES ASSUME Inv, TInv, [Next]_vars PROVE TInv'
  OBVIOUS
<1>1. CASE StartClone \/ StartUpdate \/ StartInit \/ StartPull
  BY <1>1, StartTypes
<1>2. CASE InitStorer \/ InitHead \/ CreateRemote \/ Fetch
  BY <1>2, InitStorerTypes, InitHeadTypes, CreateRemoteTypes, FetchTypes
<1>3. CASE UpdateReferences \/ Decide \/ Checkout \/ CheckUnstaged
  BY <1>3, UpdateReferencesTypes, DecideTypes, CheckoutTypes, CheckUnstagedTypes
<1>4. CASE SetHeadCommit \/ ResetIndex \/ ResetFiles \/ ListSubmodules \/ NextSubmodule
  BY <1>4, SetHeadCommitTypes, ResetIndexTypes, ResetFilesTypes, ListSubmodulesTypes,
     NextSubmoduleTypes
<1>5. CASE SubmodulesDone \/ CreateBranch \/ CleanUp \/ Return
  BY <1>5, LastStepTypes
<1>6. CASE StepFails \/ Die
  BY <1>6, MishapTypes
<1>7. CASE Publish \/ Push \/ UNCHANGED vars
  BY <1>7, OthersTypes
<1> QED
  BY <1>1, <1>2, <1>3, <1>4, <1>5, <1>6, <1>7 DEF Next, Step

\* The state has its types, whatever is cloned and updated, whatever fails and
\* dies: only commits a repository has get into its index and its files, and HEAD
\* is detached only at a commit of its project (Reset, resolveToCommitHash).
THEOREM TypeOKThm == Spec => []TypeOK
<1>1. Init => Inv /\ TInv
  BY InitInv, InitTypes
<1>2. Inv /\ TInv /\ [Next]_vars => (Inv /\ TInv)'
  BY NextInv, NextTypes
<1>3. Inv /\ TInv => TypeOK
  BY TypesImply
<1> QED
  BY <1>1, <1>2, <1>3, PTL DEF Spec

-----------------------------------------------------------------------------
(***************************************************************************)
(* How far a call has come, in the outermost repository.  Work on a        *)
(* submodule begins when all is done there.                                *)
(***************************************************************************)
AfterFiles == {"list", "next", "config", "end"}
AfterIndex == AfterFiles \cup {"files"}
AfterHead  == AfterIndex \cup {"reset", "setHead", "index"}
AfterFetch == AfterHead \cup {"refs", "decide"}
AfterInit  == AfterFetch \cup {"fetch"}

Reached(stage) == op.pc \notin {"idle", "cleanup"} /\ (op.repo # Top \/ op.pc \in stage)

Busy == {"init", "remote", "fetch", "checkout", "reset", "setHead", "index", "files", "list"}
Working == op.repo # Top /\ op.pc \in Busy

StageInv ==
    /\ op.pc \in {"storer", "refs", "config"} => op.call = "clone"
    /\ op.pc = "end" => op.call # "clone"
    /\ op.call \in {"update", "init"} /\ op.repo = Top => op.pc \in {"list", "next", "end"}
    /\ op.call = "init" => op.repo = Top
    /\ op.repo = Top /\ op.pc \in Busy \cup {"refs", "decide", "storer"} => op.todo = <<>>

(***************************************************************************)
(* What a clone has made of the outermost repository.  The fetch of a      *)
(* single branch that is HEAD's brings master's, whatever HEAD is on.      *)
(***************************************************************************)
Elsewhere(o, name) == o.single /\ o.ref = "HEAD" /\ name # Master

Configured ==
    repo[Top].origin /\ refs.upstream = {} /\ refs.spec = CloneRefSpec(op.o)

Fetched ==
    /\ op.ref.hash # None
    /\ op.ref.name \in Branch \cup {"tag"}
    /\ op.ref.name \in Branch =>
        /\ op.ref.hash \in repo[Top].objs
        /\ Elsewhere(op.o, op.ref.name) \/ refs.tracking[op.ref.name] = op.ref.hash

OnReference ==
    /\ repo[Top].head = IF op.ref.name \in Branch THEN op.ref.name ELSE op.ref.hash
    /\ op.ref.hash \in repo[Top].objs

CloneTop ==
    op.call = "clone" =>
        /\ Reached(AfterInit) => Configured
        /\ Reached(AfterFetch) => Fetched
        /\ Reached(AfterHead) => OnReference

\* What a clone and a pull have in common: the commit that is checked out.
PullTop ==
    op.call \in {"clone", "pull"} =>
        /\ Reached(AfterHead) => HeadCommit(Top) = op.ref.hash
        /\ (op.call = "clone" => ~op.o.noCheckout) =>
            /\ Reached(AfterIndex) => repo[Top].index = op.ref.hash
            /\ Reached(AfterFiles) => repo[Top].files = op.ref.hash

\* The configuration of a branch is written after that of the remote.
UpstreamInv == ~repo[Top].origin => refs.upstream = {}

TopInv == StageInv /\ CloneTop /\ PullTop /\ UpstreamInv

-----------------------------------------------------------------------------
(***************************************************************************)
(* Writes to one field of a repository.                                    *)
(***************************************************************************)
Others(r) == \A s \in Repo \ {r} : repo'[s] = repo[s]

LEMMA HeadWritten ==
    ASSUME Inv, NEW r \in Repo, NEW h, repo' = [repo EXCEPT ![r].head = h]
    PROVE  /\ repo'[r].head = h /\ repo'[r].origin = repo[r].origin
           /\ repo'[r].objs = repo[r].objs /\ repo'[r].index = repo[r].index
           /\ repo'[r].files = repo[r].files /\ repo'[r].subs = repo[r].subs /\ Others(r)
BY DEF Inv, Formed, FormedRepos, FormedRepo, Others

LEMMA OriginWritten ==
    ASSUME Inv, NEW r \in Repo, repo' = [repo EXCEPT ![r].origin = TRUE]
    PROVE  /\ repo'[r].head = repo[r].head /\ repo'[r].origin
           /\ repo'[r].objs = repo[r].objs /\ repo'[r].index = repo[r].index
           /\ repo'[r].files = repo[r].files /\ repo'[r].subs = repo[r].subs /\ Others(r)
BY DEF Inv, Formed, FormedRepos, FormedRepo, Others

LEMMA ObjectsWritten ==
    ASSUME Inv, NEW r \in Repo, NEW brought, repo' = [repo EXCEPT ![r].objs = @ \cup brought]
    PROVE  /\ repo'[r].head = repo[r].head /\ repo'[r].origin = repo[r].origin
           /\ repo'[r].objs = repo[r].objs \cup brought /\ repo'[r].index = repo[r].index
           /\ repo'[r].files = repo[r].files /\ repo'[r].subs = repo[r].subs /\ Others(r)
BY DEF Inv, Formed, FormedRepos, FormedRepo, Others

LEMMA IndexWritten ==
    ASSUME Inv, NEW r \in Repo, NEW c, repo' = [repo EXCEPT ![r].index = c]
    PROVE  /\ repo'[r].head = repo[r].head /\ repo'[r].origin = repo[r].origin
           /\ repo'[r].objs = repo[r].objs /\ repo'[r].index = c
           /\ repo'[r].files = repo[r].files /\ repo'[r].subs = repo[r].subs /\ Others(r)
BY DEF Inv, Formed, FormedRepos, FormedRepo, Others

LEMMA FilesWritten ==
    ASSUME Inv, NEW r \in Repo, NEW c, repo' = [repo EXCEPT ![r].files = c]
    PROVE  /\ repo'[r].head = repo[r].head /\ repo'[r].origin = repo[r].origin
           /\ repo'[r].objs = repo[r].objs /\ repo'[r].index = repo[r].index
           /\ repo'[r].files = c /\ repo'[r].subs = repo[r].subs /\ Others(r)
BY DEF Inv, Formed, FormedRepos, FormedRepo, Others

LEMMA EndResult ==
    ASSUME NEW result, End(result)
    PROVE  /\ op'.pc = "idle" /\ op'.call = "none" /\ op'.repo = Top
           /\ last'.call = op.call /\ last'.o = op.o /\ last'.ref = op.ref
           /\ last'.sound = op.sound /\ last'.result = result
BY DEF End, Idle

-----------------------------------------------------------------------------
(***************************************************************************)
(* The outermost repository.                                               *)
(***************************************************************************)
\* All that the part of the outermost repository says is unchanged.
TopSame ==
    /\ repo'[Top].head = repo[Top].head /\ repo'[Top].origin = repo[Top].origin
    /\ repo'[Top].objs = repo[Top].objs /\ repo'[Top].index = repo[Top].index
    /\ repo'[Top].files = repo[Top].files
    /\ refs' = refs

LEMMA TopEnds ==
    ASSUME op'.pc = "cleanup" \/ op' = Idle,
           op'.pc = "cleanup" => op'.call = "clone", UpstreamInv'
    PROVE  TopInv'
<1>1. op' = Idle => op'.pc = "idle" /\ op'.call = "none"
  BY DEF Idle
<1> QED
  BY <1>1 DEF TopInv, StageInv, CloneTop, PullTop, Reached, Busy

LEMMA TopFails ==
    ASSUME Inv, TopInv, NEW result, Fail(result), UpstreamInv'
    PROVE  TopInv'
<1>1. op' = Idle \/ (op'.pc = "cleanup" /\ op'.call = "clone")
  BY FailEnds
<1>2. op' = Idle => op'.pc # "cleanup"
  BY DEF Idle
<1> QED
  BY <1>1, <1>2, TopEnds

\* A step that leaves the outermost repository alone, further on in the call.
LEMMA TopGoesOn ==
    ASSUME TopInv, TopSame, op'.call = op.call, op'.o = op.o, op'.ref = op.ref, StageInv',
           op.pc \notin {"idle", "cleanup"},
           \A stage \in {AfterInit, AfterFetch, AfterHead, AfterIndex, AfterFiles} :
                Reached(stage)' => Reached(stage)
    PROVE  TopInv'
<1>1. HeadCommit(Top)' = HeadCommit(Top)
  BY DEF HeadCommit, TopSame
<1>2. CloneTop'
  BY DEF TopInv, TopSame, CloneTop, Configured, Fetched, OnReference
<1>3. PullTop'
  BY <1>1 DEF TopInv, TopSame, PullTop
<1>4. UpstreamInv'
  BY DEF TopInv, TopSame, UpstreamInv
<1> QED
  BY <1>2, <1>3, <1>4 DEF TopInv

\* Work on a submodule.
LEMMA TopElsewhere ==
    ASSUME TopInv, TopSame, op'.call = op.call, op'.o = op.o, op'.ref = op.ref, StageInv',
           op.pc \notin {"idle", "cleanup"}, op.repo # Top \/ op.pc = "next"
    PROVE  TopInv'
<1>1. \A stage \in {AfterInit, AfterFetch, AfterHead, AfterIndex, AfterFiles} : Reached(stage)
  BY DEF Reached, AfterInit, AfterFetch, AfterHead, AfterIndex, AfterFiles
<1> QED
  BY <1>1, TopGoesOn

LEMMA StartTop == Inv /\ TopInv /\ (StartClone \/ StartUpdate \/ StartInit \/ StartPull) => TopInv'
<1> SUFFICES ASSUME Inv, TopInv, StartClone \/ StartUpdate \/ StartInit \/ StartPull
             PROVE  TopInv'
  OBVIOUS
<1>1. UNCHANGED <<repo, refs>>
  BY DEF StartClone, StartUpdate, StartInit, StartPull, Begin
<1>2. /\ op'.repo = Top /\ op'.todo = <<>>
      /\ \/ op'.call = "clone" /\ op'.pc = "storer"
         \/ op'.call \in {"update", "init"} /\ op'.pc = "list"
         \/ op'.call = "pull" /\ op'.pc = "fetch"
  <2>1. CASE StartClone
    <3>1. \E o : op' = [[Idle EXCEPT !.pc = "storer", !.cleanup = CleanupNeeded] EXCEPT
                          !.call = "clone", !.o = o, !.before = Place, !.sound = o.init /\ @]
      BY <2>1 DEF StartClone, Begin
    <3> QED
      BY <3>1 DEF Idle
  <2>2. CASE StartUpdate
    <3>1. \E o : op' = [[Idle EXCEPT !.pc = "list", !.sound = Sound] EXCEPT
                          !.call = "update", !.o = o, !.before = Place, !.sound = o.init /\ @]
      BY <2>2 DEF StartUpdate, Begin
    <3> QED
      BY <3>1 DEF Idle
  <2>3. CASE StartInit
    <3>1. \E o : op' = [[Idle EXCEPT !.pc = "list"] EXCEPT
                          !.call = "init", !.o = o, !.before = Place, !.sound = o.init /\ @]
      BY <2>3 DEF StartInit, Begin
    <3> QED
      BY <3>1 DEF Idle
  <2>4. CASE StartPull
    <3>1. \E o : op' = [[Idle EXCEPT !.pc = "fetch"] EXCEPT
                          !.call = "pull", !.o = o, !.before = Place, !.sound = o.init /\ @]
      BY <2>4 DEF StartPull, Begin
    <3> QED
      BY <3>1 DEF Idle
  <2> QED
    BY <2>1, <2>2, <2>3, <2>4
<1>3. StageInv'
  BY <1>2 DEF StageInv, Busy
<1>4. CloneTop' /\ PullTop'
  BY <1>2 DEF CloneTop, PullTop, Reached, AfterInit, AfterFetch, AfterHead, AfterIndex, AfterFiles
<1>5. UpstreamInv'
  BY <1>1 DEF TopInv, UpstreamInv
<1> QED
  BY <1>3, <1>4, <1>5 DEF TopInv

LEMMA InitStorerTop == Inv /\ TopInv /\ InitStorer => TopInv'
<1> SUFFICES ASSUME Inv, TopInv, InitStorer PROVE TopInv'
  OBVIOUS
<1>1. /\ op.pc = "storer" /\ op.call = "clone" /\ op.repo = Top /\ UNCHANGED <<repo, refs>>
      /\ op'.pc = "init" /\ op'.call = op.call /\ op'.repo = op.repo /\ op'.todo = op.todo
  BY GotoKeeps DEF InitStorer, Goto, At, Inv, CallInv, CloneInv, TopInv, StageInv, OtherInv
<1> QED
  BY <1>1 DEF TopInv, StageInv, CloneTop, PullTop, UpstreamInv, Reached, Busy, AfterInit,
     AfterFetch, AfterHead, AfterIndex, AfterFiles

LEMMA InitHeadTop == Inv /\ TInv /\ TopInv /\ InitHead => TopInv'
<1> SUFFICES ASSUME Inv, TInv, TopInv, InitHead PROVE TopInv'
  OBVIOUS
<1>1. op.repo \in Repo /\ op.pc = "init" /\ refs' = refs
  BY DEF InitHead, At, TInv, TypedOp
<1>2. CASE Fail("refused") /\ UNCHANGED repo
  BY <1>1, <1>2, TopFails DEF TopInv, UpstreamInv
<1>3. CASE Goto("remote") /\ repo' = [repo EXCEPT ![op.repo].head = Master]
  <2>1. /\ op'.pc = "remote" /\ op'.call = op.call /\ op'.repo = op.repo
        /\ op'.todo = op.todo /\ op'.o = op.o /\ op'.ref = op.ref
    BY <1>3, GotoKeeps DEF Goto
  <2>2. /\ repo'[op.repo].origin = repo[op.repo].origin /\ Others(op.repo)
    BY <1>1, <1>3, HeadWritten
  <2>3. StageInv'
    BY <1>1, <2>1 DEF TopInv, StageInv, Busy
  <2>4. CASE op.repo = Top
    BY <1>1, <2>1, <2>2, <2>3, <2>4 DEF TopInv, CloneTop, PullTop, UpstreamInv, Reached,
       AfterInit, AfterFetch, AfterHead, AfterIndex, AfterFiles
  <2>5. CASE op.repo # Top
    <3>1. TopSame
      BY <1>1, <2>2, <2>5, CloneAssumption DEF TopSame, Others
    <3> QED
      BY <1>1, <2>1, <2>3, <2>5, <3>1, TopElsewhere
  <2> QED
    BY <2>4, <2>5
<1> QED
  BY <1>2, <1>3 DEF InitHead

LEMMA CreateRemoteTop == Inv /\ TInv /\ TopInv /\ CreateRemote => TopInv'
<1> SUFFICES ASSUME Inv, TInv, TopInv, CreateRemote PROVE TopInv'
  OBVIOUS
<1>1. op.repo \in Repo /\ op.pc = "remote"
  BY DEF CreateRemote, At, TInv, TypedOp
<1>2. CASE Fail("refused") /\ UNCHANGED <<repo, refs>>
  BY <1>1, <1>2, TopFails DEF TopInv, UpstreamInv
<1>3. CASE /\ ~repo[op.repo].origin /\ Goto("fetch")
           /\ repo' = [repo EXCEPT ![op.repo].origin = TRUE]
           /\ refs' = IF op.repo = Top THEN [refs EXCEPT !.spec = CloneRefSpec(op.o)]
                                       ELSE refs
  <2>1. /\ op'.pc = "fetch" /\ op'.call = op.call /\ op'.repo = op.repo
        /\ op'.todo = op.todo /\ op'.o = op.o /\ op'.ref = op.ref
    BY <1>3, GotoKeeps DEF Goto
  <2>2. repo'[op.repo].origin /\ Others(op.repo)
    BY <1>1, <1>3, OriginWritten
  <2>3. StageInv'
    BY <1>1, <2>1 DEF TopInv, StageInv, Busy
  <2>4. CASE op.repo = Top
    <3>1. refs'.upstream = refs.upstream /\ refs'.spec = CloneRefSpec(op.o)
      BY <1>3, <2>4 DEF TInv, TypedRefs
    <3>2. Configured'
      BY <1>3, <2>1, <2>2, <2>4, <3>1 DEF TopInv, UpstreamInv, Configured, CloneRefSpec
    <3> QED
      BY <2>1, <2>2, <2>3, <2>4, <3>2 DEF TopInv, CloneTop, PullTop, UpstreamInv, Reached,
         AfterInit, AfterFetch, AfterHead, AfterIndex, AfterFiles
  <2>5. CASE op.repo # Top
    <3>1. TopSame
      BY <1>1, <1>3, <2>2, <2>5, CloneAssumption DEF TopSame, Others
    <3> QED
      BY <1>1, <2>1, <2>3, <2>5, <3>1, TopElsewhere
  <2> QED
    BY <2>4, <2>5
<1> QED
  BY <1>2, <1>3 DEF CreateRemote

\* What a clone has fetched.  A refspec of one reference matched it.
LEMMA FetchTopFetches ==
    ASSUME Inv, TInv, TopInv, FetchTop, op.pc = "fetch", op.call = "clone"
    PROVE  Fetched'
<1> DEFINE asked == Resolved(op.o.ref)
           matched == Matched(refs.spec)
           tracking == [b \in DOMAIN refs.tracking |->
                           IF b \in matched THEN Resolved(b).hash ELSE refs.tracking[b]]
           found == {Resolved(b).hash : b \in matched} \cap Commit
           brought == UNION {Behind[c] : c \in found}
           name == asked.name
           hash == asked.hash
<1>1. /\ op.repo = Top /\ asked.hash # None /\ Unmatched(refs.spec) = {}
      /\ refs' = [refs EXCEPT !.tracking = tracking]
      /\ repo' = [repo EXCEPT ![Top].objs = @ \cup brought]
      /\ op' = [op EXCEPT !.pc = "refs", !.ref = asked, !.hash = asked.hash,
                          !.new = tracking # refs.tracking]
  BY DEF FetchTop, FetchObjects, Tracking, Brought
<1>2. /\ op'.ref = asked /\ op'.o = op.o
      /\ repo'[Top].objs = repo[Top].objs \cup brought
      /\ refs'.tracking = tracking
  <2> HIDE DEF asked, tracking, brought
  <2> QED
    BY <1>1, ObjectsWritten, CloneAssumption DEF Inv, Formed, FormedOp, TInv, TypedRefs
<1>3. refs.spec = CloneRefSpec(op.o)
  BY <1>1 DEF TopInv, CloneTop, Reached, Configured, AfterInit
<1>4. op.o.ref \in Ref
  BY DEF TInv, TypedOp, Option
<1>5. /\ name \in Branch \cup {"tag"}
      /\ name \in Branch => hash = remote.at[name] /\ hash \in Project[Top] \cup {None}
      /\ op.o.ref = "tag" => name = "tag"
      /\ op.o.ref \in Branch => name = op.o.ref
      /\ op.o.ref = "HEAD" => name = remote.head
  <2> HIDE DEF name, hash
  <2> QED
    BY <1>4, ResolvedTypes DEF TInv, name, hash
<1>6. ASSUME name \in Branch
      PROVE  /\ hash \in brought
             /\ Elsewhere(op.o, name) \/ tracking[name] = hash
  <2>1. hash \in Project[Top] /\ name \in Heads /\ Resolved(name).hash = hash
    <3>1. Resolved(name).hash = remote.at[name]
      BY <1>6, CloneAssumption DEF Resolved
    <3> HIDE DEF name, hash
    <3> QED
      BY <1>1, <1>5, <1>6, <3>1 DEF Heads, name, hash
  <2>2. hash \in Commit /\ hash \in Behind[hash]
    BY <2>1, CloneAssumption
  <2>3. \A b \in matched : Resolved(b).hash = hash => hash \in brought
    BY <2>2
  <2>4. name \in matched => tracking[name] = hash
    BY <1>6, <2>1 DEF TInv, TypedRefs
  <2>5. CASE refs.spec = {"*"}
    <3>1. name \in matched
      BY <2>1, <2>5 DEF Matched
    <3> QED
      BY <2>1, <2>3, <2>4, <3>1
  <2>6. CASE refs.spec = {op.o.ref} /\ op.o.ref # "HEAD"
    <3>1. name = op.o.ref
      BY <1>4, <1>5, <1>6, <2>6, CloneAssumption DEF Ref
    <3>2. name \in refs.spec /\ name # "*"
      BY <1>6, <2>6, <3>1, CloneAssumption
    <3>3. refs.spec \ (matched \cup {"*"}) = {}
      BY <1>1 DEF Unmatched
    <3> HIDE DEF name, matched
    <3>4. name \in matched
      BY <3>2, <3>3
    <3> QED
      BY <2>1, <2>3, <2>4, <3>4
  <2>7. CASE refs.spec = {"HEAD", Master} /\ op.o.single /\ op.o.ref = "HEAD"
    <3>1. "HEAD" \in matched /\ Master \in matched
      BY <1>1, <2>7, CloneAssumption DEF Unmatched
    <3>2. hash \in brought
      BY <2>3, <2>7, <3>1
    <3> QED
      BY <2>4, <2>7, <3>1, <3>2 DEF Elsewhere
  <2> QED
    BY <1>3, <2>5, <2>6, <2>7 DEF CloneRefSpec
<1> HIDE DEF asked, tracking, brought
<1> QED
  BY <1>1, <1>2, <1>5, <1>6 DEF Fetched, Elsewhere

LEMMA FetchTopInv == Inv /\ TInv /\ TopInv /\ Fetch => TopInv'
<1> SUFFICES ASSUME Inv, TInv, TopInv, Fetch PROVE TopInv'
  OBVIOUS
<1>1. op.repo \in Repo /\ op.pc = "fetch"
  BY DEF Fetch, At, TInv, TypedOp
<1>2. CASE Fail("refused") /\ UNCHANGED <<repo, refs>>
  BY <1>1, <1>2, TopFails DEF TopInv, UpstreamInv
<1>3. CASE FetchTop
  <2> DEFINE asked == Resolved(op.o.ref)
             next == IF op.call = "clone" THEN "refs" ELSE "decide"
  <2>1. PICK tracking, brought :
          /\ op.repo = Top /\ repo[Top].origin
          /\ refs' = [refs EXCEPT !.tracking = tracking]
          /\ repo' = [repo EXCEPT ![Top].objs = @ \cup brought]
          /\ op' = [op EXCEPT !.pc = next, !.ref = asked, !.hash = asked.hash,
                              !.new = tracking # refs.tracking]
    BY <1>3 DEF FetchTop, FetchObjects
  <2> HIDE DEF asked, next
  <2>2. /\ op'.pc = next /\ op'.call = op.call /\ op'.repo = Top /\ op'.todo = op.todo
        /\ op'.o = op.o
    BY <2>1 DEF Inv, Formed, FormedOp
  <2>3. repo'[Top].origin = repo[Top].origin /\ refs'.upstream = refs.upstream /\ refs'.spec = refs.spec
    BY <2>1, ObjectsWritten, CloneAssumption DEF TInv, TypedRefs
  <2>4. next \in {"refs", "decide"} /\ (next = "refs" => op.call = "clone")
    BY DEF next
  <2>5. StageInv'
    BY <1>1, <2>1, <2>2, <2>4 DEF TopInv, StageInv, Busy
  <2>6. op.call = "clone" => Fetched'
    BY <1>1, <1>3, FetchTopFetches
  <2>7. op.call = "clone" => Configured'
    BY <1>1, <2>1, <2>2, <2>3 DEF TopInv, CloneTop, Reached, Configured, AfterInit, CloneRefSpec
  <2>8. CloneTop' /\ PullTop'
    BY <2>2, <2>4, <2>6, <2>7 DEF CloneTop, PullTop, Reached, AfterHead, AfterIndex, AfterFiles
  <2> QED
    BY <2>1, <2>3, <2>5, <2>8 DEF TopInv, UpstreamInv
<1>4. CASE FetchSubmodule
  <2>1. op.repo # Top /\ op' = [op EXCEPT !.pc = "checkout"] /\ refs' = refs
    BY <1>4 DEF FetchSubmodule
  <2>2. Others(op.repo)
    BY <1>1, <1>4, ObjectsWritten DEF FetchSubmodule
  <2>3. TopSame
    BY <2>1, <2>2, CloneAssumption DEF TopSame, Others
  <2>4. /\ op'.pc = "checkout" /\ op'.call = op.call /\ op'.repo = op.repo
        /\ op'.todo = op.todo /\ op'.o = op.o /\ op'.ref = op.ref
    BY <2>1, GotoKeeps
  <2>5. StageInv'
    BY <1>1, <2>1, <2>4 DEF TopInv, StageInv, Busy
  <2> QED
    BY <1>1, <2>1, <2>3, <2>4, <2>5, TopElsewhere
<1>5. CASE FetchUnresolved
  <2>1. /\ op.repo = Top /\ refs' = [refs EXCEPT !.tracking = Tracking]
        /\ repo' = [repo EXCEPT ![Top].objs = @ \cup Brought]
    BY <1>5 DEF FetchUnresolved, FetchObjects
  <2>2. repo'[Top].origin = repo[Top].origin /\ refs'.upstream = refs.upstream
    BY <2>1, ObjectsWritten, CloneAssumption DEF TInv, TypedRefs
  <2>3. UpstreamInv'
    BY <2>2 DEF TopInv, UpstreamInv
  <2> QED
    BY <1>5, <2>3, TopFails DEF FetchUnresolved
<1> QED
  BY <1>2, <1>3, <1>4, <1>5 DEF Fetch

LEMMA UpdateReferencesTop == Inv /\ TInv /\ TopInv /\ UpdateReferences => TopInv'
<1> SUFFICES ASSUME Inv, TInv, TopInv, UpdateReferences PROVE TopInv'
  OBVIOUS
<1> DEFINE name == op.ref.name
           hash == op.ref.hash
           next == IF op.o.noCheckout THEN "config" ELSE "reset"
<1>1. op.pc = "refs" /\ op.repo = Top /\ op.call = "clone"
  BY DEF UpdateReferences, At, Inv, HashInv, TopInv, StageInv
<1>2. Configured /\ Fetched
  BY <1>1 DEF TopInv, CloneTop, Reached, AfterInit, AfterFetch
<1>3. ASSUME Goto(next), repo'[Top].origin = repo[Top].origin,
             repo'[Top].objs = repo[Top].objs, hash \in repo[Top].objs,
             repo'[Top].head = IF name \in Branch THEN name ELSE hash,
             HeadCommit(Top)' = hash,
             refs'.spec = refs.spec, refs'.upstream = refs.upstream,
             name \in Branch => refs'.tracking[name] = refs.tracking[name]
      PROVE  TopInv'
  <2>1. /\ op'.pc = next /\ op'.call = op.call /\ op'.repo = op.repo
        /\ op'.todo = op.todo /\ op'.o = op.o /\ op'.ref = op.ref
    BY <1>3, GotoKeeps DEF Goto
  <2>2. next \in {"config", "reset"} /\ (next = "config" => op.o.noCheckout)
    BY DEF next
  <2> HIDE DEF next
  <2>3. StageInv'
    BY <1>1, <2>1, <2>2 DEF TopInv, StageInv, Busy
  <2>4. Configured' /\ Fetched' /\ OnReference'
    BY <1>2, <1>3, <2>1 DEF Configured, Fetched, OnReference
  <2>5. PullTop'
    BY <1>1, <1>3, <2>1, <2>2 DEF PullTop, Reached, AfterIndex, AfterFiles
  <2> QED
    BY <1>2, <1>3, <2>3, <2>4, <2>5 DEF TopInv, CloneTop, UpstreamInv, Configured
<1>4. CASE /\ name \in Branch
           /\ repo' = [repo EXCEPT ![Top].head = name]
           /\ refs' = [refs EXCEPT !.branch[name] = hash,
                                   !.tracking[name] =
                         IF @ = None /\ refs.spec \cap {name, "*"} # {} THEN hash ELSE @]
           /\ Goto(next)
  <2>1. refs.tracking[name] = hash \/ refs.tracking[name] # hash
    OBVIOUS
  <2>2. /\ refs'.branch[name] = hash /\ refs'.spec = refs.spec /\ refs'.upstream = refs.upstream
        /\ refs.tracking[name] # None => refs'.tracking[name] = refs.tracking[name]
        /\ refs'.tracking[name] \in {hash, refs.tracking[name]}
    BY <1>4 DEF TInv, TypedRefs
  <2>3. /\ repo'[Top].head = name /\ repo'[Top].origin = repo[Top].origin
        /\ repo'[Top].objs = repo[Top].objs
    <3>1. repo' = [repo EXCEPT ![Top].head = name] /\ Top \in Repo
      BY <1>4, CloneAssumption
    <3> HIDE DEF name
    <3> QED
      BY <3>1, HeadWritten, Zenon
  <2>4. HeadCommit(Top)' = hash
    BY <1>4, <2>2, <2>3 DEF HeadCommit
  <2>5. hash \in repo[Top].objs /\ hash # None
    BY <1>2, <1>4 DEF Fetched
  <2>6. CASE refs'.tracking[name] = refs.tracking[name]
    BY <1>3, <1>4, <2>2, <2>3, <2>4, <2>5, <2>6
  <2>7. CASE refs'.tracking[name] # refs.tracking[name]
    <3>1. refs'.tracking[name] = hash /\ Elsewhere(op.o, name)
      BY <1>2, <1>4, <2>2, <2>5, <2>7 DEF Fetched
    <3>2. /\ op'.pc = next /\ op'.call = op.call /\ op'.repo = op.repo
          /\ op'.todo = op.todo /\ op'.o = op.o /\ op'.ref = op.ref
      BY <1>4, GotoKeeps DEF Goto
    <3>3. next \in {"config", "reset"} /\ (next = "config" => op.o.noCheckout)
      BY DEF next
    <3> HIDE DEF next
    <3>4. StageInv'
      BY <1>1, <3>2, <3>3 DEF TopInv, StageInv, Busy
    <3>5. Configured' /\ Fetched' /\ OnReference'
      BY <1>2, <1>4, <2>2, <2>3, <2>5, <3>1, <3>2 DEF Configured, Fetched, OnReference
    <3>6. PullTop'
      BY <1>1, <2>4, <3>2, <3>3 DEF PullTop, Reached, AfterIndex, AfterFiles
    <3> QED
      BY <3>4, <3>5, <3>6 DEF TopInv, CloneTop, UpstreamInv, Configured
  <2> QED
    BY <2>6, <2>7
<1>5. CASE /\ name \notin Branch /\ IsCommit(hash) /\ refs' = refs
           /\ repo' = [repo EXCEPT ![Top].head = hash]
           /\ Goto(next)
  <2>1. /\ repo'[Top].head = hash /\ repo'[Top].origin = repo[Top].origin
        /\ repo'[Top].objs = repo[Top].objs
    BY <1>5, HeadWritten, CloneAssumption
  <2>2. hash \in repo[Top].objs /\ hash \notin Branch
    BY <1>5, CloneAssumption DEF IsCommit, TInv, TypedRepos, TypedRepo
  <2>3. HeadCommit(Top)' = hash
    BY <2>1, <2>2 DEF HeadCommit
  <2> QED
    BY <1>3, <1>5, <2>1, <2>2, <2>3
<1>6. CASE Fail("refused") /\ UNCHANGED <<repo, refs>>
  BY <1>6, TopFails DEF TopInv, UpstreamInv
<1> QED
  BY <1>4, <1>5, <1>6 DEF UpdateReferences

\* Reset, of the outermost repository: what is checked out stays the same.
LEMMA SetHeadAgain ==
    ASSUME Inv, TInv, op.repo = Top, SetHead(op.hash),
           repo[Top].head \notin Branch => op.hash \in Project[Top]
    PROVE  /\ HeadCommit(Top)' = op.hash
           /\ repo[Top].head \in Branch => repo'[Top].head = repo[Top].head
           /\ repo[Top].head \notin Branch => repo'[Top].head = op.hash
           /\ repo'[Top].origin = repo[Top].origin /\ repo'[Top].objs = repo[Top].objs
           /\ refs'.spec = refs.spec /\ refs'.upstream = refs.upstream
           /\ refs'.tracking = refs.tracking
<1>1. CASE repo[Top].head \in Branch
  <2>1. refs' = [refs EXCEPT !.branch[repo[Top].head] = op.hash] /\ repo' = repo
    BY <1>1 DEF SetHead
  <2> QED
    BY <1>1, <2>1 DEF HeadCommit, TInv, TypedRefs
<1>2. CASE repo[Top].head \notin Branch
  <2>1. repo' = [repo EXCEPT ![Top].head = op.hash] /\ refs' = refs
    BY <1>2 DEF SetHead
  <2>2. op.hash \notin Branch
    BY <1>2, CloneAssumption
  <2>3. /\ repo'[Top].head = op.hash /\ repo'[Top].origin = repo[Top].origin
        /\ repo'[Top].objs = repo[Top].objs
    <3>1. Top \in Repo
      BY CloneAssumption
    <3> QED
      BY <2>1, <3>1, HeadWritten, Zenon
  <2> QED
    BY <1>2, <2>1, <2>2, <2>3 DEF HeadCommit
<1> QED
  BY <1>1, <1>2

LEMMA DecideTop == Inv /\ TInv /\ TopInv /\ Decide => TopInv'
<1> SUFFICES ASSUME Inv, TInv, TopInv, Decide PROVE TopInv'
  OBVIOUS
<1>1. /\ op.pc = "decide" /\ op.repo = Top /\ op.call # "clone" /\ repo[Top].head # None
  BY DEF Decide, At, Inv, HashInv, CallInv, CloneInv, OtherInv, Present
<1>2. CASE End("upToDate") /\ Steady
  BY <1>2, TopEnds DEF Steady, End, TopInv, UpstreamInv, Idle
<1>3. CASE Fail("refused") /\ Steady
  BY <1>3, TopFails DEF Steady, TopInv, UpstreamInv
<1>4. CASE FastForward /\ SetHead(op.hash) /\ Goto("reset")
  <2>1. repo[Top].head \notin Branch => op.hash \in Project[Top]
    <3>1. repo[Top].head \notin Branch => HeadCommit(Top) # None
      BY <1>1, HeadCommitIs
    <3>2. repo[Top].objs \subseteq Project[Top]
      BY CloneAssumption DEF TInv, TypedRepos, TypedRepo
    <3> QED
      BY <1>4, <3>1, <3>2 DEF FastForward
  <2>2. /\ HeadCommit(Top)' = op.hash /\ repo'[Top].origin = repo[Top].origin
        /\ refs'.upstream = refs.upstream
    BY <1>1, <1>4, <2>1, SetHeadAgain
  <2>3. /\ op'.pc = "reset" /\ op'.call = op.call /\ op'.repo = op.repo
        /\ op'.todo = op.todo /\ op'.o = op.o /\ op'.ref = op.ref
    BY <1>4, GotoKeeps DEF Goto
  <2>4. StageInv'
    BY <1>1, <2>3 DEF TopInv, StageInv, Busy
  <2>5. op.hash = op.ref.hash
    BY <1>1 DEF TInv, TypedOp
  <2>6. CloneTop' /\ PullTop'
    BY <1>1, <2>2, <2>3, <2>5 DEF CloneTop, PullTop, Reached, AfterIndex, AfterFiles
  <2> QED
    BY <2>2, <2>4, <2>6 DEF TopInv, UpstreamInv
<1> QED
  BY <1>2, <1>3, <1>4 DEF Decide

LEMMA CheckoutTop == Inv /\ TInv /\ TopInv /\ Checkout => TopInv'
<1> SUFFICES ASSUME Inv, TInv, TopInv, Checkout PROVE TopInv'
  OBVIOUS
<1>1. op.pc = "checkout" /\ op.repo \in Repo /\ op.repo # Top
  BY DEF Checkout, At, TInv, TypedOp, Inv, HashInv
<1>2. Others(op.repo) /\ refs' = refs
  BY <1>1, HeadWritten DEF Checkout
<1>3. TopSame
  BY <1>1, <1>2, CloneAssumption DEF TopSame, Others
<1>4. /\ op'.pc = "reset" /\ op'.call = op.call /\ op'.repo = op.repo
      /\ op'.todo = op.todo /\ op'.o = op.o /\ op'.ref = op.ref
  BY GotoKeeps DEF Checkout, Goto
<1>5. StageInv'
  BY <1>1, <1>4 DEF TopInv, StageInv, Busy
<1> QED
  BY <1>1, <1>3, <1>4, <1>5, TopElsewhere

LEMMA CheckUnstagedTop == Inv /\ TInv /\ TopInv /\ CheckUnstaged => TopInv'
<1> SUFFICES ASSUME Inv, TInv, TopInv, CheckUnstaged PROVE TopInv'
  OBVIOUS
<1>1. op.pc = "reset" /\ refs' = refs
  BY DEF CheckUnstaged, At
<1>2. TopSame
  <2>1. Top \in Repo /\ Top \notin Created(op.repo)
    BY CreatedTypes, CloneAssumption DEF CheckUnstaged
  <2> QED
    BY <1>1, <2>1 DEF CheckUnstaged, TopSame
<1>3. CASE Fail("refused")
  BY <1>2, <1>3, TopFails DEF TopInv, UpstreamInv, TopSame
<1>4. CASE Goto("setHead")
  <2>1. /\ op'.pc = "setHead" /\ op'.call = op.call /\ op'.repo = op.repo
        /\ op'.todo = op.todo /\ op'.o = op.o /\ op'.ref = op.ref
    BY <1>4, GotoKeeps DEF Goto
  <2>2. StageInv'
    BY <1>1, <2>1 DEF TopInv, StageInv, Busy
  <2>3. \A stage \in {AfterInit, AfterFetch, AfterHead, AfterIndex, AfterFiles} :
          Reached(stage)' => Reached(stage)
    BY <1>1, <2>1 DEF Reached, AfterInit, AfterFetch, AfterHead, AfterIndex, AfterFiles
  <2> QED
    BY <1>1, <1>2, <2>1, <2>2, <2>3, TopGoesOn
<1> QED
  BY <1>3, <1>4 DEF CheckUnstaged

LEMMA SetHeadCommitTop == Inv /\ TInv /\ TopInv /\ SetHeadCommit => TopInv'
<1> SUFFICES ASSUME Inv, TInv, TopInv, SetHeadCommit PROVE TopInv'
  OBVIOUS
<1>1. /\ op.pc = "setHead" /\ op.repo \in Repo /\ SetHead(op.hash) /\ op.pc # "idle"
      /\ repo[op.repo].head \notin Branch => op.hash \in Project[op.repo]
      /\ op.repo # Top => repo[op.repo].head = op.hash /\ op.hash \in Project[op.repo]
      /\ op.repo = Top => op.hash = op.ref.hash
  BY DEF SetHeadCommit, At, TInv, TypedOp, TypedStep
<1>2. op.repo # Top => TopSame
  <2> SUFFICES ASSUME op.repo # Top PROVE TopSame
    OBVIOUS
  <2>1. op.hash \notin Branch
    BY <1>1, CloneAssumption
  <2>2. refs' = refs /\ repo' = [repo EXCEPT ![op.repo].head = op.hash]
    BY <1>1, <2>1 DEF SetHead
  <2>3. Others(op.repo)
    BY <1>1, <2>2, HeadWritten, Zenon
  <2> QED
    BY <1>1, <2>2, <2>3, CloneAssumption DEF TopSame, Others
<1>3. op.repo = Top =>
        /\ HeadCommit(Top)' = op.hash
        /\ repo[Top].head \in Branch => repo'[Top].head = repo[Top].head
        /\ repo[Top].head \notin Branch => repo'[Top].head = op.hash
        /\ repo'[Top].origin = repo[Top].origin /\ repo'[Top].objs = repo[Top].objs
        /\ refs'.spec = refs.spec /\ refs'.upstream = refs.upstream
        /\ refs'.tracking = refs.tracking
  BY <1>1, SetHeadAgain
<1>4. UpstreamInv'
  BY <1>2, <1>3 DEF TopInv, UpstreamInv, TopSame
<1>5. CASE Fail("refused")
  BY <1>4, <1>5, TopFails
<1>6. CASE Goto("index")
  <2>1. /\ op'.pc = "index" /\ op'.call = op.call /\ op'.repo = op.repo
        /\ op'.todo = op.todo /\ op'.o = op.o /\ op'.ref = op.ref
    BY <1>6, GotoKeeps DEF Goto
  <2>2. StageInv'
    BY <1>1, <2>1 DEF TopInv, StageInv, Busy
  <2>3. CASE op.repo # Top
    BY <1>1, <1>2, <2>1, <2>2, <2>3, TopElsewhere
  <2>4. CASE op.repo = Top
    <3>1. op.call = "clone" => Configured' /\ Fetched' /\ OnReference'
      <4> SUFFICES ASSUME op.call = "clone" PROVE Configured' /\ Fetched' /\ OnReference'
        OBVIOUS
      <4>1. Configured /\ Fetched /\ OnReference
        BY <1>1, <2>4 DEF TopInv, CloneTop, Reached, AfterInit, AfterFetch, AfterHead, AfterIndex
      <4>2. /\ op.ref.name \in Branch => repo[Top].head \in Branch
            /\ op.ref.name \notin Branch => repo[Top].head = op.hash /\ repo'[Top].head = op.hash
        BY <1>1, <1>3, <2>4, <4>1 DEF OnReference
      <4> QED
        BY <1>1, <1>3, <2>1, <2>4, <4>1, <4>2 DEF Configured, Fetched, OnReference
    <3>2. PullTop'
      BY <1>1, <1>3, <2>1, <2>4 DEF PullTop, Reached, AfterIndex, AfterFiles
    <3> QED
      BY <1>4, <2>1, <2>2, <3>1, <3>2 DEF TopInv, CloneTop
  <2> QED
    BY <2>3, <2>4
<1> QED
  BY <1>5, <1>6 DEF SetHeadCommit

LEMMA ResetIndexTop == Inv /\ TInv /\ TopInv /\ ResetIndex => TopInv'
<1> SUFFICES ASSUME Inv, TInv, TopInv, ResetIndex PROVE TopInv'
  OBVIOUS
<1>1. /\ op.pc = "index" /\ op.repo \in Repo /\ refs' = refs
      /\ op.repo = Top => op.hash = op.ref.hash
  BY DEF ResetIndex, At, TInv, TypedOp
<1>2. /\ repo'[op.repo].head = repo[op.repo].head /\ repo'[op.repo].origin = repo[op.repo].origin
      /\ repo'[op.repo].objs = repo[op.repo].objs /\ repo'[op.repo].index = op.hash
      /\ Others(op.repo)
  BY <1>1, IndexWritten, Zenon DEF ResetIndex
<1>3. /\ op'.pc = "files" /\ op'.call = op.call /\ op'.repo = op.repo
      /\ op'.todo = op.todo /\ op'.o = op.o /\ op'.ref = op.ref
  BY GotoKeeps DEF ResetIndex, Goto
<1>4. StageInv'
  BY <1>1, <1>3 DEF TopInv, StageInv, Busy
<1>5. CASE op.repo # Top
  <2>1. TopSame
    BY <1>1, <1>2, <1>5, CloneAssumption DEF TopSame, Others
  <2> QED
    BY <1>1, <1>3, <1>4, <1>5, <2>1, TopElsewhere
<1>6. CASE op.repo = Top
  <2>1. HeadCommit(Top)' = HeadCommit(Top)
    BY <1>1, <1>2, <1>6 DEF HeadCommit
  <2>2. CloneTop'
    BY <1>1, <1>2, <1>3, <1>6 DEF TopInv, CloneTop, Reached, Configured, Fetched, OnReference,
       AfterInit, AfterFetch, AfterHead, AfterIndex
  <2>3. PullTop'
    BY <1>1, <1>2, <1>3, <1>6, <2>1 DEF TopInv, PullTop, Reached, AfterHead, AfterIndex, AfterFiles
  <2> QED
    BY <1>1, <1>2, <1>4, <1>6, <2>2, <2>3 DEF TopInv, UpstreamInv
<1> QED
  BY <1>5, <1>6

LEMMA ResetFilesTop == Inv /\ TInv /\ TopInv /\ ResetFiles => TopInv'
<1> SUFFICES ASSUME Inv, TInv, TopInv, ResetFiles PROVE TopInv'
  OBVIOUS
<1>1. /\ op.pc = "files" /\ op.repo \in Repo /\ refs' = refs
      /\ op.repo = Top => op.hash = op.ref.hash
  BY DEF ResetFiles, At, TInv, TypedOp
<1>2. /\ repo'[op.repo].head = repo[op.repo].head /\ repo'[op.repo].origin = repo[op.repo].origin
      /\ repo'[op.repo].objs = repo[op.repo].objs /\ repo'[op.repo].index = repo[op.repo].index
      /\ repo'[op.repo].files = op.hash /\ Others(op.repo)
  BY <1>1, FilesWritten, Zenon DEF ResetFiles
<1>3. /\ op'.pc = NextPc /\ op'.call = op.call /\ op'.repo = op.repo
      /\ op'.todo = op.todo /\ op'.o = op.o /\ op'.ref = op.ref
  BY GotoKeeps DEF ResetFiles, Goto
<1>4. /\ NextPc \in {"list", "next", "config", "end"}
      /\ NextPc = "config" => op.call = "clone"
      /\ NextPc = "end" => op.call # "clone"
  BY DEF NextPc
<1>5. StageInv'
  BY <1>1, <1>3, <1>4 DEF TopInv, StageInv, Busy
<1>6. CASE op.repo # Top
  <2>1. TopSame
    BY <1>1, <1>2, <1>6, CloneAssumption DEF TopSame, Others
  <2> QED
    BY <1>1, <1>3, <1>5, <1>6, <2>1, TopElsewhere
<1>7. CASE op.repo = Top
  <2>1. HeadCommit(Top)' = HeadCommit(Top)
    BY <1>1, <1>2, <1>7 DEF HeadCommit
  <2>2. CloneTop'
    BY <1>1, <1>2, <1>3, <1>7 DEF TopInv, CloneTop, Reached, Configured, Fetched, OnReference,
       AfterInit, AfterFetch, AfterHead, AfterIndex
  <2>3. PullTop'
    BY <1>1, <1>2, <1>3, <1>7, <2>1 DEF TopInv, PullTop, Reached, AfterHead, AfterIndex, AfterFiles
  <2> QED
    BY <1>1, <1>2, <1>5, <1>7, <2>2, <2>3 DEF TopInv, UpstreamInv
<1> QED
  BY <1>6, <1>7

LEMMA ListSubmodulesTop == Inv /\ TopInv /\ ListSubmodules => TopInv'
<1> SUFFICES ASSUME Inv, TopInv, ListSubmodules PROVE TopInv'
  OBVIOUS
<1>1. op.pc = "list" /\ TopSame
  BY DEF ListSubmodules, At, Steady, TopSame
<1>2. PICK todo : op' = [op EXCEPT !.pc = "next", !.todo = todo]
  BY DEF ListSubmodules
<1>3. /\ op'.pc = "next" /\ op'.call = op.call /\ op'.repo = op.repo
      /\ op'.o = op.o /\ op'.ref = op.ref
  BY <1>2 DEF Inv, Formed, FormedOp
<1>4. StageInv'
  BY <1>1, <1>3 DEF TopInv, StageInv, Busy
<1>5. \A stage \in {AfterInit, AfterFetch, AfterHead, AfterIndex, AfterFiles} :
        Reached(stage)' => Reached(stage)
  BY <1>1 DEF Reached, AfterInit, AfterFetch, AfterHead, AfterIndex, AfterFiles
<1> QED
  BY <1>1, <1>3, <1>4, <1>5, TopGoesOn

LEMMA NextSubmoduleTop == Inv /\ TInv /\ TopInv /\ NextSubmodule => TopInv'
<1> SUFFICES ASSUME Inv, TInv, TopInv, NextSubmodule PROVE TopInv'
  OBVIOUS
<1>1. op.pc = "next" /\ refs' = refs /\ op.todo # <<>> /\ op.todo \in Seq(Lists)
  BY DEF NextSubmodule, At, TInv, TypedOp
<1>2. \A r \in Head(op.todo).of : r \in Repo \ {Top}
  BY <1>1, StackProperties DEF Lists
<1>3. CASE Fail("refused") /\ UNCHANGED repo
  BY <1>1, <1>3, TopFails DEF TopInv, UpstreamInv
<1>4. ASSUME NEW todo, op' = [op EXCEPT !.todo = todo], TopSame
      PROVE  TopInv'
  <2>1. /\ op'.pc = op.pc /\ op'.call = op.call /\ op'.repo = op.repo
        /\ op'.o = op.o /\ op'.ref = op.ref
    BY <1>4 DEF Inv, Formed, FormedOp
  <2>2. StageInv'
    BY <1>1, <2>1 DEF TopInv, StageInv, Busy
  <2> QED
    BY <1>1, <1>4, <2>1, <2>2, TopElsewhere
<1>5. CASE op' = [op EXCEPT !.todo = Tail(@)] /\ UNCHANGED <<repo, last>>
  BY <1>1, <1>4, <1>5 DEF TopSame
<1>6. ASSUME NEW r \in Repo \ {Top}, repo' = [repo EXCEPT ![Front(r)].subs = @ \cup {Last(r)}]
      PROVE  TopSame
  <2>1. /\ repo'[Top].head = repo[Top].head /\ repo'[Top].origin = repo[Top].origin
        /\ repo'[Top].objs = repo[Top].objs /\ repo'[Top].index = repo[Top].index
        /\ repo'[Top].files = repo[Top].files
    BY <1>6, SubsTypes, CloneAssumption
  <2> QED
    BY <1>1, <2>1 DEF TopSame
<1>7. ASSUME NEW r \in Head(op.todo).of, Register(r), ~(Fail("refused") /\ UNCHANGED repo)
      PROVE  TopInv'
  <2>1. /\ repo' = [repo EXCEPT ![Front(r)].subs = @ \cup {Last(r)}]
        /\ op' = [op EXCEPT !.todo = Without(r)]
    BY <1>7 DEF Register
  <2>2. TopSame
    BY <1>2, <1>6, <1>7, <2>1
  <2> QED
    BY <1>4, <2>1, <2>2
<1>8. ASSUME NEW r \in Head(op.todo).of, op.call # "init", StartSubmodule(r),
             ~(Fail("refused") /\ UNCHANGED repo)
      PROVE  TopInv'
  <2>1. repo' = [repo EXCEPT ![Front(r)].subs = @ \cup {Last(r)}]
    BY <1>8 DEF StartSubmodule
  <2>2. TopSame
    BY <1>2, <1>6, <1>8, <2>1
  <2>3. CASE Fail("refused")
    <3>1. UpstreamInv'
      BY <2>2 DEF TopInv, UpstreamInv, TopSame
    <3> QED
      BY <2>3, <3>1, TopFails
  <2>4. CASE ~Fail("refused")
    <3>1. op' = [op EXCEPT !.pc = RepositoryPc(r), !.repo = r, !.hash = Expected(r),
                           !.left = Head(op.todo).left, !.todo = Without(r)]
      BY <1>8, <2>4 DEF StartSubmodule, Expected
    <3>2. /\ op'.pc = RepositoryPc(r) /\ op'.call = op.call /\ op'.repo = r
          /\ op'.o = op.o /\ op'.ref = op.ref
      BY <3>1 DEF Inv, Formed, FormedOp
    <3>3. StageInv'
      BY <1>2, <1>8, <3>2 DEF TopInv, StageInv, RepositoryPc
    <3> QED
      BY <1>1, <2>2, <3>1, <3>2, <3>3, TopElsewhere
  <2> QED
    BY <2>3, <2>4
<1> QED
  BY <1>3, <1>5, <1>7, <1>8 DEF NextSubmodule

LEMMA LastStepTop ==
    Inv /\ TInv /\ TopInv /\ (SubmodulesDone \/ CreateBranch \/ CleanUp \/ Return) => TopInv'
<1> SUFFICES ASSUME Inv, TInv, TopInv, SubmodulesDone \/ CreateBranch \/ CleanUp \/ Return
             PROVE  TopInv'
  OBVIOUS
<1>1. CASE SubmodulesDone
  <2>1. PICK pc \in {"config", "end"} : Goto(pc) /\ (pc = "config" <=> op.call = "clone")
    BY <1>1 DEF SubmodulesDone
  <2>2. /\ op'.pc = pc /\ op'.call = op.call /\ op'.repo = op.repo
        /\ op'.todo = op.todo /\ op'.o = op.o /\ op'.ref = op.ref
    BY <2>1, GotoKeeps DEF Goto
  <2>3. op.pc = "next" /\ TopSame
    BY <1>1 DEF SubmodulesDone, At, Steady, TopSame
  <2>4. StageInv'
    BY <2>1, <2>2, <2>3 DEF TopInv, StageInv, Busy
  <2> QED
    BY <2>2, <2>3, <2>4, TopElsewhere
<1>2. CASE CreateBranch
  <2>1. op.pc = "config" /\ op.call = "clone" /\ repo' = repo
    BY <1>2 DEF CreateBranch, At, TopInv, StageInv
  <2>2. repo[Top].origin
    BY <2>1 DEF TopInv, CloneTop, Configured, Reached, AfterInit, AfterFetch, AfterHead,
       AfterIndex, AfterFiles
  <2>3. UpstreamInv'
    BY <2>1, <2>2 DEF UpstreamInv
  <2> QED
    BY <1>2, <2>3, TopFails, TopEnds, EndResult DEF CreateBranch, End
<1>3. CASE CleanUp
  <2>1. repo' = [r \in Repo |-> NoRepo] /\ refs' = NoRefs /\ op' = Idle
    BY <1>3 DEF CleanUp, End
  <2>2. UpstreamInv'
    BY <2>1, CloneAssumption DEF UpstreamInv, NoRepo, NoRefs
  <2> QED
    BY <2>1, <2>2, TopEnds DEF Idle
<1>4. CASE Return
  BY <1>4, TopEnds DEF Return, End, Steady, TopInv, UpstreamInv, Idle
<1> QED
  BY <1>1, <1>2, <1>3, <1>4

LEMMA RestTop ==
    Inv /\ TopInv /\ (StepFails \/ Die \/ Publish \/ Push \/ UNCHANGED vars) => TopInv'
<1> SUFFICES ASSUME Inv, TopInv, StepFails \/ Die \/ Publish \/ Push \/ UNCHANGED vars
             PROVE  TopInv'
  OBVIOUS
<1>1. CASE StepFails
  BY <1>1, TopFails DEF StepFails, Mishap, TopInv, UpstreamInv
<1>2. CASE Die
  <2>1. repo'[Top].origin = repo[Top].origin
    <3>1. CASE repo' = [repo EXCEPT ![Top].head = None]
      <4>1. Top \in Repo
        BY CloneAssumption
      <4> QED
        BY <3>1, <4>1, HeadWritten, Zenon
    <3> QED
      BY <1>2, <3>1 DEF Die
  <2>2. UpstreamInv'
    BY <1>2, <2>1 DEF Die, Mishap, TopInv, UpstreamInv
  <2>3. op' = Idle /\ op'.pc # "cleanup"
    BY <1>2 DEF Die, End, Idle
  <2> QED
    BY <2>2, <2>3, TopEnds
<1>3. CASE Publish \/ Push \/ UNCHANGED vars
  <2>1. UNCHANGED <<repo, refs, op>>
    BY <1>3 DEF Publish, Push, vars
  <2> QED
    BY <2>1 DEF TopInv, StageInv, CloneTop, PullTop, UpstreamInv, Reached, Configured, Fetched,
       OnReference, HeadCommit
<1> QED
  BY <1>1, <1>2, <1>3

LEMMA InitTop == Init => TopInv
<1> SUFFICES ASSUME Init PROVE TopInv
  OBVIOUS
<1>1. op.pc = "idle" /\ op.call = "none" /\ refs.upstream = {}
  BY DEF Init, Idle, NoRefs
<1> QED
  BY <1>1 DEF TopInv, StageInv, CloneTop, PullTop, UpstreamInv, Reached, Busy

LEMMA NextTop == Inv /\ TInv /\ TopInv /\ [Next]_vars => TopInv'
<1> SUFFICES ASSUME Inv, TInv, TopInv, [Next]_vars PROVE TopInv'
  OBVIOUS
<1>1. CASE StartClone \/ StartUpdate \/ StartInit \/ StartPull
  BY <1>1, StartTop
<1>2. CASE InitStorer \/ InitHead \/ CreateRemote \/ Fetch
  BY <1>2, InitStorerTop, InitHeadTop, CreateRemoteTop, FetchTopInv
<1>3. CASE UpdateReferences \/ Decide \/ Checkout \/ CheckUnstaged
  BY <1>3, UpdateReferencesTop, DecideTop, CheckoutTop, CheckUnstagedTop
<1>4. CASE SetHeadCommit \/ ResetIndex \/ ResetFiles \/ ListSubmodules \/ NextSubmodule
  BY <1>4, SetHeadCommitTop, ResetIndexTop, ResetFilesTop, ListSubmodulesTop, NextSubmoduleTop
<1>5. CASE SubmodulesDone \/ CreateBranch \/ CleanUp \/ Return
  BY <1>5, LastStepTop
<1>6. CASE StepFails \/ Die \/ Publish \/ Push \/ UNCHANGED vars
  BY <1>6, RestTop
<1> QED
  BY <1>1, <1>2, <1>3, <1>4, <1>5, <1>6 DEF Next, Step

-----------------------------------------------------------------------------
(***************************************************************************)
(* The submodules that are still to be updated, and those that were: a set *)
(* of repositories with the ones they are in, each at the commit that its  *)
(* parent names.  As deep as was asked for, a submodule of one of them is  *)
(* in the set, or it waits, or it is the one that is worked on.            *)
(***************************************************************************)
Levels == op.o.recurse + 1

WaitingIn(todo) == UNION {todo[i].of : i \in 1 .. Len(todo)}
Waiting == WaitingIn(op.todo)

Open == Waiting \cup (IF Working THEN {op.repo} ELSE {})

Inside(p) == {s \in Listed(p) : Last(s) \in DOMAIN SubmodulesOf(repo[p].index)}

Settled(S) ==
    /\ Top \in S /\ S \subseteq Repo
    /\ S \cap Open = {}
    /\ \A s \in S \ {Top} :
        Front(s) \in S /\ s \in Inside(Front(s)) /\ IsAt(s, Expected(s))
    /\ \A s \in S : Len(s) < Levels => Inside(s) \subseteq S \cup Open
    /\ \A s \in Open : Front(s) \in S

(***************************************************************************)
(* No submodule is on two lists, and each list is of one level.            *)
(***************************************************************************)
Stacked(todo, levels) ==
    \A i \in 1 .. Len(todo) :
        /\ \A s \in todo[i].of : Len(s) + todo[i].left = levels
        /\ \A j \in 1 .. Len(todo) : i # j => todo[i].of \cap todo[j].of = {}

(***************************************************************************)
(* The submodule that is worked on, and how far it is.                     *)
(***************************************************************************)
Placed ==
    /\ op.repo \notin Waiting
    /\ Len(op.repo) + op.left = Levels
    /\ op.repo \in Inside(Front(op.repo))
    /\ op.hash = Expected(op.repo)

Progress ==
    /\ op.pc = "init" <=> repo[op.repo].head = None
    /\ op.pc = "remote" => ~repo[op.repo].origin
    /\ op.pc \in {"files", "list"} => repo[op.repo].index = op.hash
    /\ op.pc = "list" => repo[op.repo].files = op.hash /\ op.hash \in repo[op.repo].objs

(***************************************************************************)
(* What an update that nothing stands in the way of meets: the submodules  *)
(* it has not come to are as they were when it began.                      *)
(***************************************************************************)
Published == UNION {Project[r] : r \in Repo \ {Top}} \subseteq pushed
Heals == op.call = "update" /\ op.sound
Rewritten == {"setHead", "index", "files", "list"}

Untouched(S) ==
    \A r \in Repo \ S : Unstaged(r) => r = op.repo /\ op.pc \in Rewritten

HealInv ==
    Heals =>
        /\ op.o.init /\ Published
        /\ \A r \in Listed(Top) : Last(r) \in DOMAIN SubmodulesOf(repo[Top].index)
        /\ \A r \in Repo \ {Top} :
            repo[r].head # None => repo[r].origin \/ (r = op.repo /\ op.pc = "remote")
        /\ op.pc = "list" /\ op.repo = Top => \A r \in Repo \ {Top} : ~Unstaged(r)
        /\ Working /\ op.pc \in {"checkout", "reset", "setHead"} =>
            op.hash \in repo[op.repo].objs

Nested == op.call # "init" /\ (op.pc = "next" \/ Working)

SubInv ==
    /\ Nested => \E S \in SUBSET Repo : Settled(S) /\ (Heals => Untouched(S))
    /\ Nested => Stacked(op.todo, Levels)
    /\ Working => Placed /\ Progress
    /\ op.pc = "next" \/ Working => \A s \in Waiting : s \in Listed(Front(s))

\* Where the submodules are all updated.
DoneInv ==
    /\ op.pc = "config" /\ ~op.o.noCheckout /\ op.o.recurse > 0 => SubmodulesAt(Levels)
    /\ op.pc = "end" /\ (op.call = "update" \/ (op.call = "pull" /\ op.o.recurse > 0)) =>
        SubmodulesAt(Levels)

\* A submodule that has no HEAD has nothing.
EmptyInv ==
    \A r \in Repo \ {Top} : repo[r].head = None =>
        /\ ~repo[r].origin
        /\ repo[r].index = None /\ repo[r].files = None /\ repo[r].subs = {}

UpdateInv == SubInv /\ DoneInv /\ EmptyInv /\ HealInv

-----------------------------------------------------------------------------
(***************************************************************************)
(* The stack of lists.                                                     *)
(***************************************************************************)
LEMMA WaitingPushed ==
    ASSUME NEW x \in Lists, NEW s \in Seq(Lists)
    PROVE  WaitingIn(<<x>> \o s) = x.of \cup WaitingIn(s)
<1> DEFINE t == <<x>> \o s
<1>1. /\ Len(s) \in Nat /\ Len(t) = Len(s) + 1 /\ t[1] = x
      /\ \A i \in 1 .. Len(s) : t[i + 1] = s[i]
  OBVIOUS
<1>2. \A i \in 1 .. Len(t) : i = 1 \/ (i - 1 \in 1 .. Len(s) /\ t[i] = s[i - 1])
  <2> SUFFICES ASSUME NEW i \in 1 .. Len(t), i # 1
               PROVE  i - 1 \in 1 .. Len(s) /\ t[i] = s[i - 1]
    OBVIOUS
  <2>1. i - 1 \in 1 .. Len(s) /\ (i - 1) + 1 = i
    BY <1>1
  <2> QED
    BY <1>1, <2>1
<1>3. 1 \in 1 .. Len(t) /\ \A i \in 1 .. Len(s) : i + 1 \in 1 .. Len(t)
  BY <1>1
<1> HIDE DEF t
<1>4. WaitingIn(t) \subseteq x.of \cup WaitingIn(s)
  BY <1>1, <1>2 DEF WaitingIn
<1>5. x.of \cup WaitingIn(s) \subseteq WaitingIn(t)
  BY <1>1, <1>3 DEF WaitingIn
<1> QED
  BY <1>4, <1>5 DEF t

LEMMA StackedPushed ==
    ASSUME NEW x \in Lists, NEW s \in Seq(Lists), NEW levels
    PROVE  Stacked(<<x>> \o s, levels) <=>
            /\ Stacked(s, levels)
            /\ \A e \in x.of : Len(e) + x.left = levels
            /\ x.of \cap WaitingIn(s) = {}
<1> DEFINE t == <<x>> \o s
<1>1. /\ Len(s) \in Nat /\ Len(t) = Len(s) + 1 /\ t[1] = x
      /\ \A i \in 1 .. Len(s) : t[i + 1] = s[i]
  OBVIOUS
<1>2. \A i \in 1 .. Len(t) : i = 1 \/ (i - 1 \in 1 .. Len(s) /\ t[i] = s[i - 1])
  <2> SUFFICES ASSUME NEW i \in 1 .. Len(t), i # 1
               PROVE  i - 1 \in 1 .. Len(s) /\ t[i] = s[i - 1]
    OBVIOUS
  <2>1. i - 1 \in 1 .. Len(s) /\ (i - 1) + 1 = i
    BY <1>1
  <2> QED
    BY <1>1, <2>1
<1>3. /\ 1 \in 1 .. Len(t)
      /\ \A i \in 1 .. Len(s) : i + 1 \in 1 .. Len(t) /\ i + 1 # 1
      /\ \A i, j \in 1 .. Len(s) : i # j => i + 1 # j + 1
  BY <1>1
<1> HIDE DEF t
<1>4. ASSUME Stacked(t, levels)
      PROVE  /\ Stacked(s, levels)
             /\ \A e \in x.of : Len(e) + x.left = levels
             /\ x.of \cap WaitingIn(s) = {}
  BY <1>1, <1>3, <1>4 DEF Stacked, WaitingIn
<1>5. ASSUME Stacked(s, levels), \A e \in x.of : Len(e) + x.left = levels,
             x.of \cap WaitingIn(s) = {}
      PROVE  Stacked(t, levels)
  <2>1. \A i \in 1 .. Len(s) : x.of \cap s[i].of = {}
    BY <1>5 DEF WaitingIn
  <2> SUFFICES ASSUME NEW i \in 1 .. Len(t)
               PROVE  /\ \A e \in t[i].of : Len(e) + t[i].left = levels
                      /\ \A j \in 1 .. Len(t) : i # j => t[i].of \cap t[j].of = {}
    BY DEF Stacked
  <2>2. \A e \in t[i].of : Len(e) + t[i].left = levels
    <3>1. CASE i = 1
      BY <1>1, <1>5, <3>1
    <3>2. CASE i # 1
      <4>1. i - 1 \in 1 .. Len(s) /\ t[i] = s[i - 1]
        BY <1>2, <3>2
      <4>2. \A e \in s[i - 1].of : Len(e) + s[i - 1].left = levels
        BY <1>5, <4>1, Zenon DEF Stacked
      <4> QED
        BY <4>1, <4>2, Zenon
    <3> QED
      BY <3>1, <3>2
  <2>3. ASSUME NEW j \in 1 .. Len(t), i # j
        PROVE  t[i].of \cap t[j].of = {}
    <3>1. CASE i = 1
      BY <1>1, <1>2, <2>1, <2>3, <3>1
    <3>2. CASE j = 1
      BY <1>1, <1>2, <2>1, <2>3, <3>2
    <3>3. CASE i # 1 /\ j # 1
      <4>1. i - 1 # j - 1 /\ i - 1 \in 1 .. Len(s) /\ j - 1 \in 1 .. Len(s)
        BY <1>1, <1>2, <2>3, <3>3
      <4>2. s[i - 1].of \cap s[j - 1].of = {}
        BY <1>5, <4>1 DEF Stacked
      <4> QED
        BY <1>2, <3>3, <4>2
    <3> QED
      BY <3>1, <3>2, <3>3
  <2> QED
    BY <2>2, <2>3
<1> QED
  BY <1>4, <1>5 DEF t

\* The first list, and the others.
LEMMA StackTop ==
    ASSUME NEW s \in Seq(Lists), s # <<>>, NEW levels
    PROVE  /\ Head(s) \in Lists /\ Tail(s) \in Seq(Lists)
           /\ WaitingIn(s) = Head(s).of \cup WaitingIn(Tail(s))
           /\ Stacked(s, levels) =>
                /\ Stacked(Tail(s), levels)
                /\ \A e \in Head(s).of : Len(e) + Head(s).left = levels
                /\ Head(s).of \cap WaitingIn(Tail(s)) = {}
<1>1. Head(s) \in Lists /\ Tail(s) \in Seq(Lists)
  BY StackProperties
<1>2. s = <<Head(s)>> \o Tail(s)
  OBVIOUS
<1>3. WaitingIn(<<Head(s)>> \o Tail(s)) = Head(s).of \cup WaitingIn(Tail(s))
  BY <1>1, WaitingPushed
<1>4. Stacked(<<Head(s)>> \o Tail(s), levels) =>
        /\ Stacked(Tail(s), levels)
        /\ \A e \in Head(s).of : Len(e) + Head(s).left = levels
        /\ Head(s).of \cap WaitingIn(Tail(s)) = {}
  BY <1>1, StackedPushed
<1> QED
  BY <1>1, <1>2, <1>3, <1>4, Zenon

LEMMA StackWithout ==
    ASSUME op.todo \in Seq(Lists), op.todo # <<>>, NEW r \in Head(op.todo).of, NEW levels
    PROVE  /\ Waiting = WaitingIn(Without(r)) \cup {r}
           /\ Stacked(op.todo, levels) =>
                Stacked(Without(r), levels) /\ r \notin WaitingIn(Without(r))
<1> DEFINE first == [of |-> Head(op.todo).of \ {r}, left |-> Head(op.todo).left]
           rest  == Tail(op.todo)
<1>1. Head(op.todo) \in Lists /\ rest \in Seq(Lists) /\ Without(r) = <<first>> \o rest
  BY WithoutTypes DEF Without
<1>2. first \in Lists /\ first.of = Head(op.todo).of \ {r} /\ first.left = Head(op.todo).left
  BY <1>1 DEF Lists
<1>3. Waiting = Head(op.todo).of \cup WaitingIn(rest)
  BY StackTop DEF Waiting
<1> HIDE DEF first, rest
<1>4. WaitingIn(Without(r)) = first.of \cup WaitingIn(rest)
  BY <1>1, <1>2, WaitingPushed
<1>5. Stacked(op.todo, levels) =>
        /\ Stacked(rest, levels)
        /\ \A e \in Head(op.todo).of : Len(e) + Head(op.todo).left = levels
        /\ Head(op.todo).of \cap WaitingIn(rest) = {}
  BY StackTop DEF rest
<1>6. Stacked(op.todo, levels) => Stacked(Without(r), levels)
  <2> SUFFICES ASSUME Stacked(op.todo, levels) PROVE Stacked(Without(r), levels)
    OBVIOUS
  <2>1. /\ Stacked(rest, levels) /\ first.of \cap WaitingIn(rest) = {}
        /\ \A e \in first.of : Len(e) + first.left = levels
    BY <1>2, <1>5
  <2> QED
    BY <1>1, <1>2, <2>1, StackedPushed
<1> QED
  BY <1>2, <1>3, <1>4, <1>5, <1>6

-----------------------------------------------------------------------------
(***************************************************************************)
(* What is settled stays, and grows.                                       *)
(***************************************************************************)
SameOn(S) ==
    /\ \A s \in S : repo'[s].index = repo[s].index /\ repo'[s].files = repo[s].files
    /\ \A s \in S \ {Top} : repo'[s].head = repo[s].head /\ repo[s].objs \subseteq repo'[s].objs

LEMMA SameInside ==
    ASSUME NEW p, repo'[p].index = repo[p].index, repo'[p].files = repo[p].files
    PROVE  Listed(p)' = Listed(p) /\ Inside(p)' = Inside(p)
BY DEF Listed, Inside

LEMMA SettledKeeps ==
    ASSUME NEW S \in SUBSET Repo, Settled(S), SameOn(S), op'.o = op.o, Open' = Open
    PROVE  Settled(S)'
<1>1. \A s \in S : Inside(s)' = Inside(s)
  BY SameInside DEF SameOn
<1>2. \A s \in S \ {Top} : Front(s) \in S /\ Expected(s)' = Expected(s)
  BY DEF Settled, SameOn, Expected
<1>3. \A s \in S \ {Top} : IsAt(s, Expected(s))'
  BY <1>2 DEF Settled, SameOn, IsAt
<1>4. Levels' = Levels
  BY DEF Levels
<1> QED
  BY <1>1, <1>2, <1>3, <1>4 DEF Settled

\* The submodule that was worked on is settled, and those in it are open.
LEMMA SettledGrows ==
    ASSUME NEW S \in SUBSET Repo, Settled(S), SameOn(S), op'.o = op.o,
           NEW r \in Repo \ {Top}, r \in Open, IsAt(r, Expected(r))',
           r \in Inside(Front(r)),
           r \notin Open', Open \ {r} \subseteq Open', Open' \cap S = {},
           \A s \in Open' \ Open : Front(s) = r,
           Len(r) < Levels => Inside(r)' \subseteq Open'
    PROVE  Settled(S \cup {r})'
<1> DEFINE T == S \cup {r}
<1>1. \A s \in S : Inside(s)' = Inside(s)
  BY SameInside DEF SameOn
<1>2. /\ \A s \in S \ {Top} : Front(s) \in S /\ Expected(s)' = Expected(s)
      /\ Front(r) \in S
  BY DEF Settled, SameOn, Expected
<1>3. \A s \in S \ {Top} : IsAt(s, Expected(s))'
  BY <1>2 DEF Settled, SameOn, IsAt
<1>4. Levels' = Levels
  BY DEF Levels
<1>5. Top \in T /\ T \subseteq Repo /\ T \cap Open' = {}
  BY DEF Settled
<1>6. \A s \in T \ {Top} : Front(s) \in T /\ s \in Inside(Front(s))' /\ IsAt(s, Expected(s))'
  BY <1>1, <1>2, <1>3 DEF Settled
<1>7. \A s \in T : Len(s) < Levels => Inside(s)' \subseteq T \cup Open'
  BY <1>1 DEF Settled
<1>8. \A s \in Open' : Front(s) \in T
  BY DEF Settled
<1> HIDE DEF T
<1>9. Settled(T)'
  BY <1>4, <1>5, <1>6, <1>7, <1>8 DEF Settled
<1> QED
  BY <1>9 DEF T

\* A set of numbers has a least one.
LEMMA SmallestNat ==
    ASSUME NEW T, T \subseteq Nat, T # {}
    PROVE  \E n \in T : \A m \in T : n <= m
<1>1. PICK n \in T : \A m \in T : <<m, n>> \notin OpToRel(<, Nat)
  BY NatLessThanWellFounded, WFMin
<1>2. ASSUME NEW m \in T PROVE n <= m
  <2>1. <<m, n>> \in Nat \X Nat /\ <<m, n>>[1] = m /\ <<m, n>>[2] = n
    OBVIOUS
  <2>2. <<m, n>> \notin {p \in Nat \X Nat : p[1] < p[2]}
    BY <1>1, Zenon DEF OpToRel
  <2>3. ~(m < n)
    BY <2>1, <2>2
  <2> QED BY <2>3
<1> QED BY <1>2

\* When nothing is open, the first levels are all settled.
LEMMA SettledReaches ==
    ASSUME TInv, NEW S \in SUBSET Repo, Settled(S), Open = {}
    PROVE  SubmodulesAt(Levels)
<1> SUFFICES ASSUME NEW r \in Repo \ {Top}, Len(r) <= Levels, Wanted(r)
             PROVE  IsAt(r, Expected(r))
  BY DEF SubmodulesAt
<1> DEFINE Up(k) == SubSeq(r, 1, k)
<1>1. r \in Seq(Name) /\ Len(r) \in Nat /\ Levels \in Nat
  BY CloneAssumption DEF TInv, TypedOp, Option, Levels
<1>2. \A k \in 0 .. Len(r) : Up(k) \in Seq(Name) /\ Len(Up(k)) = k
  BY <1>1
<1>3. Up(0) = Top /\ Up(Len(r)) = r
  BY <1>1 DEF Top
<1>4. ASSUME NEW k \in 1 .. Len(r), Up(k - 1) \in S
      PROVE  Up(k) \in S
  <2>1. Up(k) = Append(Up(k - 1), r[k])
    BY <1>1
  <2>2. Has(Up(k - 1), r[k])
    BY DEF Wanted
  <2>3. r[k] \in Name /\ Up(k - 1) \in Seq(Name) /\ Len(Up(k - 1)) = k - 1
    BY <1>1, <1>2
  <2> HIDE DEF Up
  <2>4. Last(Up(k)) = r[k]
    BY <2>1, <2>3, PathBelow
  <2>5. Up(k) \in Inside(Up(k - 1))
    BY <2>1, <2>2, <2>4 DEF Has, Inside
  <2>6. Len(Up(k - 1)) < Levels
    BY <1>1, <2>3
  <2> QED
    BY <1>4, <2>5, <2>6 DEF Settled
<1> HIDE DEF Up
<1>5. \A k \in Nat : k <= Len(r) => Up(k) \in S
  <2> DEFINE bad == {k \in Nat : k <= Len(r) /\ Up(k) \notin S}
  <2> SUFFICES ASSUME bad # {} PROVE FALSE
    OBVIOUS
  <2>1. PICK k \in bad : \A m \in bad : k <= m
    BY SmallestNat
  <2>2. k # 0
    BY <1>3 DEF Settled
  <2>3. k \in 1 .. Len(r) /\ k - 1 \in Nat /\ k - 1 <= Len(r) /\ ~(k <= k - 1)
    BY <1>1, <2>2
  <2>4. Up(k - 1) \in S
    BY <2>1, <2>3
  <2> QED
    BY <1>4, <2>3, <2>4
<1>6. r \in S
  BY <1>1, <1>3, <1>5
<1> QED
  BY <1>6 DEF Settled

-----------------------------------------------------------------------------
(***************************************************************************)
(* Work on one submodule leaves the others alone, but for those in it that *)
(* Status creates.                                                         *)
(***************************************************************************)
Beside ==
    \A s \in Repo \ {op.repo} :
        /\ repo'[s].index = repo[s].index /\ repo'[s].files = repo[s].files
        /\ repo'[s].subs = repo[s].subs /\ repo[s].objs \subseteq repo'[s].objs
        /\ \/ repo'[s].head = repo[s].head /\ repo'[s].origin = repo[s].origin
           \/ /\ s # Top /\ repo[s].head = None
              /\ repo'[s].head = Master /\ repo'[s].origin

LEMMA OthersBeside == Others(op.repo) => Beside
<1> SUFFICES ASSUME Others(op.repo), NEW s \in Repo \ {op.repo}
             PROVE  /\ repo'[s].index = repo[s].index /\ repo'[s].files = repo[s].files
                    /\ repo'[s].subs = repo[s].subs /\ repo[s].objs \subseteq repo'[s].objs
                    /\ repo'[s].head = repo[s].head /\ repo'[s].origin = repo[s].origin
  BY DEF Beside
<1>1. repo'[s] = repo[s]
  BY DEF Others
<1> QED
  BY <1>1

\* HEAD of a submodule that is created counts as nothing.
LEMMA SameHeads ==
    ASSUME Beside, NEW s \in Repo \ {Top, op.repo}
    PROVE  HeadCommit(s)' = HeadCommit(s)
<1>1. repo'[s].head = repo[s].head \/ (repo[s].head = None /\ repo'[s].head = Master)
  BY DEF Beside
<1>2. None \notin Branch /\ Master \in Branch
  BY CloneAssumption
<1> QED
  BY <1>1, <1>2 DEF HeadCommit

LEMMA SameUnstaged ==
    ASSUME NEW r \in Repo, repo'[r].index = repo[r].index, repo'[r].files = repo[r].files,
           repo'[r].subs = repo[r].subs, \A s \in Listed(r) : HeadCommit(s)' = HeadCommit(s)
    PROVE  Unstaged(r)' <=> Unstaged(r)
<1>1. Asked(r)' = Asked(r)
  BY DEF Asked, Listed
<1>2. \A s \in Asked(r) : HeadCommit(s)' = HeadCommit(s)
  BY DEF Asked
<1> QED
  BY <1>1, <1>2 DEF Unstaged

LEMMA UntouchedKeeps ==
    ASSUME TypedRepos, NEW S \in SUBSET Repo, Untouched(S), Top \in S,
           op.repo \in Repo \ {Top}, Front(op.repo) \in S, Beside,
           op'.repo = op.repo,
           \/ op'.pc \in Rewritten
           \/ /\ op.pc \notin Rewritten
              /\ repo'[op.repo].index = repo[op.repo].index
              /\ repo'[op.repo].files = repo[op.repo].files
              /\ repo'[op.repo].subs = repo[op.repo].subs
    PROVE  Untouched(S)'
<1> SUFFICES ASSUME NEW r \in Repo \ S, Unstaged(r)'
             PROVE  r = op.repo /\ op'.pc \in Rewritten
  BY DEF Untouched
<1>1. \A s \in Listed(r) : HeadCommit(s)' = HeadCommit(s)
  <2> SUFFICES ASSUME NEW s \in Listed(r) PROVE HeadCommit(s)' = HeadCommit(s)
    OBVIOUS
  <2>1. s \in Repo \ {Top} /\ Front(s) = r
    BY ListedBelow
  <2>2. s # op.repo
    BY <2>1
  <2> QED
    BY <2>1, <2>2, SameHeads
<1>2. CASE r # op.repo
  <2>1. Unstaged(r)
    BY <1>1, <1>2, SameUnstaged DEF Beside
  <2> QED
    BY <1>2, <2>1 DEF Untouched
<1>3. CASE r = op.repo /\ op'.pc \notin Rewritten
  <2>1. Unstaged(r)
    BY <1>1, <1>3, SameUnstaged
  <2> QED
    BY <1>3, <2>1 DEF Untouched
<1> QED
  BY <1>2, <1>3

\* What has no HEAD after a step had none before, and is the same.
LEMMA EmptyKeeps ==
    ASSUME EmptyInv,
           \A r \in Repo \ {Top} : repo'[r].head = None =>
                /\ repo[r].head = None /\ repo'[r].origin = repo[r].origin
                /\ repo'[r].index = repo[r].index /\ repo'[r].files = repo[r].files
                /\ repo'[r].subs = repo[r].subs
    PROVE  EmptyInv'
BY DEF EmptyInv

LEMMA EmptyBeside ==
    ASSUME EmptyInv, Beside, op.repo = Top \/ repo'[op.repo].head # None
    PROVE  EmptyInv'
<1>1. \A r \in Repo \ {Top} : repo'[r].head = None =>
        /\ repo[r].head = None /\ repo'[r].origin = repo[r].origin
        /\ repo'[r].index = repo[r].index /\ repo'[r].files = repo[r].files
        /\ repo'[r].subs = repo[r].subs
  BY CloneAssumption DEF Beside
<1> QED
  BY <1>1, EmptyKeeps

-----------------------------------------------------------------------------
(***************************************************************************)
(* The steps that go on with the submodule that is worked on.              *)
(***************************************************************************)
SameCall ==
    /\ op'.call = op.call /\ op'.o = op.o /\ op'.repo = op.repo /\ op'.hash = op.hash
    /\ op'.left = op.left /\ op'.todo = op.todo /\ op'.ref = op.ref /\ op'.sound = op.sound

LEMMA SameCallGoto == \A pc : Inv /\ Goto(pc) => SameCall /\ op'.pc = pc
<1> SUFFICES ASSUME NEW pc, Inv, Goto(pc) PROVE SameCall /\ op'.pc = pc
  OBVIOUS
<1> QED
  BY GotoKeeps DEF Goto, SameCall

LEMMA SettledAround ==
    ASSUME TInv, Working, NEW S \in SUBSET Repo, Settled(S), Beside
    PROVE  op.repo \in Repo \ {Top} /\ op.repo \notin S /\ Front(op.repo) \in S /\ SameOn(S)
<1>1. op.repo \in Repo \ {Top} /\ op.repo \in Open
  BY DEF Working, Open, TInv, TypedOp
<1>2. op.repo \notin S /\ Front(op.repo) \in S
  BY <1>1 DEF Settled
<1>3. \A s \in S \ {Top} : repo[s].head # None
  <2> SUFFICES ASSUME NEW s \in S \ {Top} PROVE repo[s].head # None
    OBVIOUS
  <2>1. /\ s \in Repo \ {Top} /\ repo[s].head = Expected(s)
        /\ Last(s) \in DOMAIN SubmodulesOf(repo[Front(s)].index)
    BY DEF Settled, IsAt, Inside
  <2>2. Expected(s) \in Project[s]
    BY <2>1, ExpectedTyped DEF TInv
  <2> QED
    BY <2>1, <2>2, CloneAssumption
<1>4. SameOn(S)
  BY <1>2, <1>3 DEF SameOn, Beside
<1> QED
  BY <1>1, <1>2, <1>4

LEMMA WorkGoesOn ==
    ASSUME Inv, TInv, TopInv, UpdateInv, Working, SameCall, Beside,
           op'.pc \in Busy, repo'[op.repo].head # None, Progress',
           \/ op'.pc \in Rewritten
           \/ /\ op.pc \notin Rewritten
              /\ repo'[op.repo].index = repo[op.repo].index
              /\ repo'[op.repo].files = repo[op.repo].files
              /\ repo'[op.repo].subs = repo[op.repo].subs,
           pushed' = pushed,
           Heals => /\ repo'[op.repo].origin \/ op'.pc = "remote"
                    /\ op'.pc \in {"checkout", "reset", "setHead"} =>
                        op.hash \in repo'[op.repo].objs
    PROVE  UpdateInv'
<1>1. Nested /\ op.call # "init" /\ op.repo \in Repo \ {Top}
  BY DEF Nested, Working, TopInv, StageInv, TInv, TypedOp
<1>2. PICK S \in SUBSET Repo : Settled(S) /\ (Heals => Untouched(S))
  BY <1>1 DEF UpdateInv, SubInv
<1>3. op.repo \notin S /\ Front(op.repo) \in S /\ SameOn(S)
  BY <1>2, SettledAround
<1>4. Working' /\ Open' = Open /\ Waiting' = Waiting /\ Levels' = Levels /\ (Heals' <=> Heals)
  BY DEF Working, SameCall, Open, Waiting, Levels, Heals
<1>5. Settled(S)'
  BY <1>2, <1>3, <1>4, SettledKeeps DEF SameCall
<1>6. Heals => Untouched(S)'
  BY <1>1, <1>2, <1>3, UntouchedKeeps DEF TInv, SameCall, Settled
<1>7. Placed'
  <2>1. PICK r \in Repo \ {Top} : r = op.repo
    BY <1>1
  <2>2. Inside(Front(r))' = Inside(Front(r)) /\ Expected(r)' = Expected(r)
    BY <1>3, <2>1, SameInside DEF SameOn, Expected
  <2>3. Placed
    BY DEF UpdateInv, SubInv
  <2>4. /\ r \notin Waiting' /\ Len(r) + op'.left = Levels'
        /\ r \in Inside(Front(r))' /\ op'.hash = Expected(r)'
    BY <1>4, <2>1, <2>2, <2>3 DEF Placed, SameCall
  <2> QED
    BY <2>1, <2>4 DEF Placed, SameCall
<1>8. \A s \in Waiting : Listed(Front(s))' = Listed(Front(s))
  BY <1>2, <1>3, SameInside DEF Settled, SameOn, Open
<1>9. SubInv'
  BY <1>1, <1>4, <1>5, <1>6, <1>7, <1>8 DEF UpdateInv, SubInv, SameCall
<1>10. EmptyInv'
  BY EmptyBeside DEF UpdateInv
<1>11. DoneInv'
  BY DEF DoneInv, Busy
<1>12. HealInv'
  <2> SUFFICES ASSUME Heals PROVE HealInv'
    BY <1>4 DEF HealInv
  <2>1. Listed(Top)' = Listed(Top) /\ repo'[Top].index = repo[Top].index
    BY <1>1, CloneAssumption, SameInside DEF Beside
  <2>2. \A r \in Repo \ {Top} :
          repo'[r].head # None => repo'[r].origin \/ (r = op.repo /\ op'.pc = "remote")
    <3> SUFFICES ASSUME NEW r \in Repo \ {Top}, repo'[r].head # None, r # op.repo
                 PROVE  repo'[r].origin
      OBVIOUS
    <3> QED
      BY DEF Beside, UpdateInv, HealInv
  <2>3. Published' /\ op'.o.init
    BY DEF UpdateInv, HealInv, Published, SameCall
  <2>4. \A r \in Listed(Top)' : Last(r) \in DOMAIN SubmodulesOf(repo'[Top].index)
    BY <2>1 DEF UpdateInv, HealInv
  <2>5. op'.repo # Top
    BY <1>1 DEF SameCall
  <2> QED
    BY <2>2, <2>3, <2>4, <2>5 DEF HealInv, SameCall
<1> QED
  BY <1>9, <1>10, <1>11, <1>12 DEF UpdateInv

LEMMA UpdateEnds ==
    ASSUME (op'.pc = "cleanup" /\ op'.call = "clone") \/ op' = Idle, EmptyInv'
    PROVE  UpdateInv'
<1>1. op'.pc \in {"cleanup", "idle"} /\ op'.call # "update"
  BY DEF Idle
<1>2. SubInv' /\ DoneInv' /\ HealInv'
  BY <1>1 DEF SubInv, DoneInv, HealInv, Nested, Working, Busy, Heals
<1> QED
  BY <1>2 DEF UpdateInv

LEMMA UpdateFails ==
    ASSUME Inv, NEW result, Fail(result), EmptyInv'
    PROVE  UpdateInv'
BY FailEnds, UpdateEnds

\* Before any submodule is worked on.
LEMMA TopStep ==
    ASSUME TopInv, op.repo = Top, op.pc \notin {"idle", "list", "next", "end"},
           SameCall, op'.pc # "next", EmptyInv', DoneInv'
    PROVE  UpdateInv' /\ ~Heals
<1>1. op'.repo = Top /\ op'.call = op.call /\ ~Heals
  BY DEF TopInv, StageInv, Heals, SameCall
<1>2. SubInv' /\ HealInv'
  BY <1>1 DEF SubInv, HealInv, Nested, Working, Heals, SameCall
<1> QED
  BY <1>1, <1>2 DEF UpdateInv

LEMMA InitHeadUpdate ==
    Inv /\ TInv /\ TopInv /\ UpdateInv /\ InitHead => UpdateInv' /\ (Heals => op'.pc # "idle")
<1> SUFFICES ASSUME Inv, TInv, TopInv, UpdateInv, InitHead
             PROVE  UpdateInv' /\ (Heals => op'.pc # "idle")
  OBVIOUS
<1>1. op.repo \in Repo /\ op.pc = "init" /\ pushed' = pushed
  BY DEF InitHead, At, Env, TInv, TypedOp
<1>2. op.repo # Top => Working /\ repo[op.repo].head = None
  BY <1>1 DEF Working, Busy, UpdateInv, SubInv, Progress
<1>3. CASE repo[op.repo].head # None /\ Fail("refused") /\ UNCHANGED repo
  <2>1. op.repo = Top /\ ~Heals
    BY <1>1, <1>2, <1>3 DEF TopInv, StageInv, Heals
  <2> QED
    BY <1>3, <2>1, UpdateFails DEF UpdateInv, EmptyInv
<1>4. CASE Goto("remote") /\ repo' = [repo EXCEPT ![op.repo].head = Master]
  <2>1. /\ repo'[op.repo].head = Master /\ repo'[op.repo].origin = repo[op.repo].origin
        /\ repo'[op.repo].index = repo[op.repo].index
        /\ repo'[op.repo].files = repo[op.repo].files
        /\ repo'[op.repo].subs = repo[op.repo].subs /\ Beside
    BY <1>1, <1>4, HeadWritten, OthersBeside, Zenon
  <2>2. SameCall /\ op'.pc = "remote" /\ Master # None
    BY <1>4, SameCallGoto, CloneAssumption
  <2>3. CASE op.repo = Top
    BY <1>1, <2>1, <2>2, <2>3, TopStep, EmptyBeside DEF UpdateInv, DoneInv
  <2>4. CASE op.repo # Top
    <3>1. ~repo[op.repo].origin
      BY <1>1, <1>2, <2>4 DEF UpdateInv, EmptyInv
    <3>2. Progress'
      BY <2>1, <2>2, <3>1 DEF Progress, SameCall
    <3>3. UpdateInv'
      BY <1>1, <1>2, <2>1, <2>2, <2>4, <3>2, WorkGoesOn DEF Busy, Rewritten
    <3> QED
      BY <2>2, <3>3
  <2> QED
    BY <2>2, <2>3, <2>4
<1> QED
  BY <1>3, <1>4 DEF InitHead

LEMMA CreateRemoteUpdate ==
    Inv /\ TInv /\ TopInv /\ UpdateInv /\ CreateRemote
        => UpdateInv' /\ (Heals => op'.pc # "idle")
<1> SUFFICES ASSUME Inv, TInv, TopInv, UpdateInv, CreateRemote
             PROVE  UpdateInv' /\ (Heals => op'.pc # "idle")
  OBVIOUS
<1>1. op.repo \in Repo /\ op.pc = "remote" /\ pushed' = pushed
  BY DEF CreateRemote, At, Env, TInv, TypedOp
<1>2. op.repo # Top => Working /\ repo[op.repo].head # None /\ ~repo[op.repo].origin
  BY <1>1 DEF Working, Busy, UpdateInv, SubInv, Progress
<1>3. CASE repo[op.repo].origin /\ Fail("refused") /\ UNCHANGED <<repo, refs>>
  <2>1. op.repo = Top /\ ~Heals
    BY <1>1, <1>2, <1>3 DEF TopInv, StageInv, Heals
  <2> QED
    BY <1>3, <2>1, UpdateFails DEF UpdateInv, EmptyInv
<1>4. CASE Goto("fetch") /\ repo' = [repo EXCEPT ![op.repo].origin = TRUE]
  <2>1. /\ repo'[op.repo].head = repo[op.repo].head /\ repo'[op.repo].origin
        /\ repo'[op.repo].index = repo[op.repo].index
        /\ repo'[op.repo].files = repo[op.repo].files
        /\ repo'[op.repo].subs = repo[op.repo].subs /\ Beside
    BY <1>1, <1>4, OriginWritten, OthersBeside, Zenon
  <2>2. SameCall /\ op'.pc = "fetch"
    BY <1>4, SameCallGoto
  <2>3. CASE op.repo = Top
    BY <1>1, <2>1, <2>2, <2>3, TopStep, EmptyBeside DEF UpdateInv, DoneInv
  <2>4. CASE op.repo # Top
    <3>1. Progress'
      BY <1>2, <2>1, <2>2, <2>4 DEF Progress, SameCall
    <3>2. UpdateInv'
      BY <1>1, <1>2, <2>1, <2>2, <2>4, <3>1, WorkGoesOn DEF Busy, Rewritten
    <3> QED
      BY <2>2, <3>2
  <2> QED
    BY <2>2, <2>3, <2>4
<1> QED
  BY <1>3, <1>4 DEF CreateRemote

LEMMA FetchUpdate ==
    Inv /\ TInv /\ TopInv /\ UpdateInv /\ Fetch => UpdateInv' /\ (Heals => op'.pc # "idle")
<1> SUFFICES ASSUME Inv, TInv, TopInv, UpdateInv, Fetch
             PROVE  UpdateInv' /\ (Heals => op'.pc # "idle")
  OBVIOUS
<1>1. op.repo \in Repo /\ op.pc = "fetch" /\ pushed' = pushed
  BY DEF Fetch, At, Env, TInv, TypedOp
<1>2. op.repo # Top => Working /\ repo[op.repo].head # None
  BY <1>1 DEF Working, Busy, UpdateInv, SubInv, Progress
<1>3. op.repo # Top /\ Heals => repo[op.repo].origin
  BY <1>1, <1>2 DEF UpdateInv, HealInv
<1>4. CASE CannotFetch /\ Fail("refused") /\ UNCHANGED <<repo, refs>>
  <2>1. ~Heals
    BY <1>1, <1>3, <1>4 DEF TopInv, StageInv, Heals, CannotFetch
  <2> QED
    BY <1>4, <2>1, UpdateFails DEF UpdateInv, EmptyInv
<1>5. CASE FetchTop
  <2> DEFINE next == IF op.call = "clone" THEN "refs" ELSE "decide"
             asked == Resolved(op.o.ref)
  <2>1. PICK new, brought :
          /\ op.repo = Top
          /\ repo' = [repo EXCEPT ![Top].objs = @ \cup brought]
          /\ op' = [op EXCEPT !.pc = next, !.ref = asked, !.hash = asked.hash, !.new = new]
    BY <1>5 DEF FetchTop, FetchObjects
  <2> HIDE DEF next, asked
  <2>2. /\ op'.pc = next /\ op'.call = op.call /\ op'.repo = Top /\ op'.sound = op.sound
        /\ next \in {"refs", "decide"}
    BY <2>1 DEF Inv, Formed, FormedOp, next
  <2>3. Beside
    BY <1>1, <2>1, ObjectsWritten, OthersBeside, Zenon
  <2>4. EmptyInv'
    BY <2>1, <2>3, EmptyBeside DEF UpdateInv
  <2>5. op.call # "update"
    BY <1>1, <2>1 DEF TopInv, StageInv
  <2>6. SubInv' /\ HealInv' /\ DoneInv'
    BY <2>2, <2>5 DEF SubInv, HealInv, DoneInv, Nested, Working, Heals
  <2> QED
    BY <2>2, <2>4, <2>6 DEF UpdateInv
<1>6. CASE FetchSubmodule
  <2> DEFINE brought == Project[op.repo] \cap pushed
  <2>1. /\ op.repo # Top /\ repo[op.repo].origin
        /\ repo' = [repo EXCEPT ![op.repo].objs = @ \cup brought]
        /\ op' = [op EXCEPT !.pc = "checkout"]
    BY <1>6 DEF FetchSubmodule
  <2> HIDE DEF brought
  <2>2. /\ repo'[op.repo].head = repo[op.repo].head
        /\ repo'[op.repo].origin = repo[op.repo].origin
        /\ repo'[op.repo].objs = repo[op.repo].objs \cup brought
        /\ repo'[op.repo].index = repo[op.repo].index
        /\ repo'[op.repo].files = repo[op.repo].files
        /\ repo'[op.repo].subs = repo[op.repo].subs /\ Beside
    BY <1>1, <2>1, ObjectsWritten, OthersBeside, Zenon
  <2>3. SameCall /\ op'.pc = "checkout"
    BY <2>1, GotoKeeps DEF SameCall
  <2>4. Heals => op.hash \in repo'[op.repo].objs
    <3> SUFFICES ASSUME Heals PROVE op.hash \in brought
      BY <2>2
    <3>1. Project[op.repo] \subseteq pushed
      BY <1>1, <2>1 DEF UpdateInv, HealInv, Published
    <3> QED
      BY <2>1, <3>1 DEF brought, TInv, TypedOp
  <2>5. Progress'
    BY <1>2, <2>1, <2>2, <2>3 DEF Progress, SameCall
  <2>6. UpdateInv'
    BY <1>1, <1>2, <2>1, <2>2, <2>3, <2>4, <2>5, WorkGoesOn DEF Busy, Rewritten
  <2> QED
    BY <2>3, <2>6
<1>7. CASE FetchUnresolved
  <2>1. op.repo = Top /\ repo' = [repo EXCEPT ![Top].objs = @ \cup Brought]
    BY <1>7 DEF FetchUnresolved, FetchObjects
  <2>2. Beside
    BY <1>1, <2>1, ObjectsWritten, OthersBeside, Zenon
  <2>3. EmptyInv'
    BY <2>1, <2>2, EmptyBeside DEF UpdateInv
  <2>4. ~Heals
    BY <1>1, <2>1 DEF TopInv, StageInv, Heals
  <2> QED
    BY <1>7, <2>3, <2>4, UpdateFails DEF FetchUnresolved
<1> QED
  BY <1>4, <1>5, <1>6, <1>7 DEF Fetch

LEMMA UpdateReferencesUpdate ==
    Inv /\ TInv /\ TopInv /\ UpdateInv /\ UpdateReferences
        => UpdateInv' /\ (Heals => op'.pc # "idle")
<1> SUFFICES ASSUME Inv, TInv, TopInv, UpdateInv, UpdateReferences
             PROVE  UpdateInv' /\ (Heals => op'.pc # "idle")
  OBVIOUS
<1> DEFINE next == IF op.o.noCheckout THEN "config" ELSE "reset"
<1>1. op.repo = Top /\ op.pc = "refs" /\ ~Heals /\ Top \in Repo
  BY CloneAssumption DEF UpdateReferences, At, Inv, HashInv, TopInv, StageInv, Heals
<1>2. CASE Fail("refused") /\ UNCHANGED <<repo, refs>>
  BY <1>1, <1>2, UpdateFails DEF UpdateInv, EmptyInv
<1>3. ASSUME Goto(next), NEW head, repo' = [repo EXCEPT ![Top].head = head]
      PROVE  UpdateInv'
  <2>1. Beside
    BY <1>1, <1>3, HeadWritten, OthersBeside, Zenon
  <2>2. SameCall /\ op'.pc = next
    BY <1>3, SameCallGoto
  <2>3. next \in {"config", "reset"} /\ (next = "config" => op.o.noCheckout)
    BY DEF next
  <2> HIDE DEF next
  <2>4. DoneInv'
    BY <2>2, <2>3 DEF DoneInv, SameCall
  <2>5. EmptyInv'
    BY <1>1, <2>1, EmptyBeside DEF UpdateInv
  <2> QED
    BY <1>1, <2>2, <2>3, <2>4, <2>5, TopStep
<1> QED
  BY <1>1, <1>2, <1>3 DEF UpdateReferences

LEMMA DecideUpdate ==
    Inv /\ TInv /\ TopInv /\ UpdateInv /\ Decide => UpdateInv' /\ (Heals => op'.pc # "idle")
<1> SUFFICES ASSUME Inv, TInv, TopInv, UpdateInv, Decide
             PROVE  UpdateInv' /\ (Heals => op'.pc # "idle")
  OBVIOUS
<1>1. op.repo = Top /\ op.pc = "decide" /\ ~Heals /\ Top \in Repo
  BY CloneAssumption DEF Decide, At, Inv, HashInv, TopInv, StageInv, Heals
<1>2. CASE (End("upToDate") \/ Fail("refused")) /\ Steady
  <2>1. EmptyInv'
    BY <1>2 DEF Steady, UpdateInv, EmptyInv
  <2> QED
    BY <1>1, <1>2, <2>1, UpdateFails, UpdateEnds DEF End
<1>3. CASE SetHead(op.hash) /\ Goto("reset")
  <2>1. Beside
    <3>1. repo' = repo \/ repo' = [repo EXCEPT ![Top].head = op.hash]
      BY <1>1, <1>3 DEF SetHead
    <3>2. repo' = repo => Others(Top)
      BY DEF Others
    <3>3. repo' = [repo EXCEPT ![Top].head = op.hash] => Others(Top)
      BY <1>1, HeadWritten, Zenon
    <3> QED
      BY <1>1, <3>1, <3>2, <3>3, OthersBeside
  <2>2. SameCall /\ op'.pc = "reset"
    BY <1>3, SameCallGoto
  <2>3. EmptyInv' /\ DoneInv'
    BY <1>1, <2>1, <2>2, EmptyBeside DEF UpdateInv, DoneInv
  <2> QED
    BY <1>1, <2>2, <2>3, TopStep
<1> QED
  BY <1>2, <1>3 DEF Decide

LEMMA CheckoutUpdate ==
    Inv /\ TInv /\ TopInv /\ UpdateInv /\ Checkout => UpdateInv' /\ (Heals => op'.pc # "idle")
<1> SUFFICES ASSUME Inv, TInv, TopInv, UpdateInv, Checkout
             PROVE  UpdateInv' /\ (Heals => op'.pc # "idle")
  OBVIOUS
<1>1. /\ op.pc = "checkout" /\ op.repo \in Repo /\ op.repo # Top /\ pushed' = pushed
      /\ op.hash # None
  BY CloneAssumption DEF Checkout, At, Env, TInv, TypedOp, Inv, HashInv
<1>2. Working /\ repo[op.repo].head # None
  BY <1>1 DEF Working, Busy, UpdateInv, SubInv, Progress
<1>3. /\ repo'[op.repo].head = op.hash /\ repo'[op.repo].origin = repo[op.repo].origin
      /\ repo'[op.repo].objs = repo[op.repo].objs
      /\ repo'[op.repo].index = repo[op.repo].index
      /\ repo'[op.repo].files = repo[op.repo].files
      /\ repo'[op.repo].subs = repo[op.repo].subs /\ Beside
  BY <1>1, HeadWritten, OthersBeside, Zenon DEF Checkout
<1>4. SameCall /\ op'.pc = "reset"
  BY SameCallGoto DEF Checkout
<1>5. Progress'
  BY <1>1, <1>3, <1>4 DEF Progress, SameCall
<1>6. Heals => repo'[op.repo].origin /\ op.hash \in repo'[op.repo].objs
  BY <1>1, <1>2, <1>3 DEF UpdateInv, HealInv
<1>7. UpdateInv'
  BY <1>1, <1>2, <1>3, <1>4, <1>5, <1>6, WorkGoesOn DEF Busy, Rewritten
<1> QED
  BY <1>4, <1>7

\* An update that nothing stands in the way of finds no changes.
LEMMA WorkIsClean ==
    ASSUME TInv, TopInv, UpdateInv, Working, Heals, op.pc \notin Rewritten
    PROVE  ~Unstaged(op.repo)
<1>1. Nested
  BY DEF Nested, Working, Heals
<1>2. PICK S \in SUBSET Repo : Settled(S) /\ Untouched(S)
  BY <1>1 DEF UpdateInv, SubInv
<1>3. op.repo \in Repo \ S
  BY <1>2 DEF Settled, Open, TInv, TypedOp
<1> QED
  BY <1>2, <1>3 DEF Untouched

LEMMA CheckUnstagedUpdate ==
    Inv /\ TInv /\ TopInv /\ UpdateInv /\ CheckUnstaged
        => UpdateInv' /\ (Heals => op'.pc # "idle")
<1> SUFFICES ASSUME Inv, TInv, TopInv, UpdateInv, CheckUnstaged
             PROVE  UpdateInv' /\ (Heals => op'.pc # "idle")
  OBVIOUS
<1>1. op.repo \in Repo /\ op.pc = "reset" /\ pushed' = pushed
  BY DEF CheckUnstaged, At, Env, TInv, TypedOp
<1>2. op.repo # Top => Working /\ repo[op.repo].head # None
  BY <1>1 DEF Working, Busy, UpdateInv, SubInv, Progress
<1>3. Beside /\ repo'[op.repo] = repo[op.repo]
  <2>1. /\ \A r \in Repo :
             /\ repo'[r].objs = repo[r].objs /\ repo'[r].index = repo[r].index
             /\ repo'[r].files = repo[r].files /\ repo'[r].subs = repo[r].subs
        /\ \A r \in Created(op.repo) :
             /\ r \in Repo \ {Top} /\ r # op.repo /\ repo[r].head = None
             /\ repo'[r].head = Master /\ repo'[r].origin
        /\ \A r \in Repo \ Created(op.repo) : repo'[r] = repo[r]
    BY CreatedTypes DEF CheckUnstaged
  <2>2. repo'[op.repo] = repo[op.repo]
    BY <1>1, <2>1
  <2> QED
    BY <2>1, <2>2 DEF Beside
<1>4. EmptyInv'
  BY <1>2, <1>3, EmptyBeside DEF UpdateInv
<1>5. CASE Unstaged(op.repo) /\ Fail("refused")
  <2>1. op.repo # Top => ~Heals
    BY <1>1, <1>2, <1>5, WorkIsClean DEF Rewritten
  <2>2. op.repo = Top => ~Heals
    BY <1>1 DEF TopInv, StageInv, Heals
  <2> QED
    BY <1>4, <1>5, <2>1, <2>2, UpdateFails
<1>6. CASE Goto("setHead")
  <2>1. SameCall /\ op'.pc = "setHead"
    BY <1>6, SameCallGoto
  <2>2. CASE op.repo = Top
    BY <1>1, <1>4, <2>1, <2>2, TopStep DEF DoneInv
  <2>3. CASE op.repo # Top
    <3>1. Progress'
      BY <1>2, <1>3, <2>1, <2>3 DEF Progress, SameCall
    <3>2. Heals => repo'[op.repo].origin /\ op.hash \in repo'[op.repo].objs
      BY <1>1, <1>2, <1>3, <2>3 DEF UpdateInv, HealInv
    <3>3. UpdateInv'
      BY <1>1, <1>2, <1>3, <2>1, <2>3, <3>1, <3>2, WorkGoesOn DEF Busy, Rewritten
    <3> QED
      BY <2>1, <3>3
  <2> QED
    BY <2>1, <2>2, <2>3
<1> QED
  BY <1>5, <1>6 DEF CheckUnstaged

LEMMA SetHeadCommitUpdate ==
    Inv /\ TInv /\ TopInv /\ UpdateInv /\ SetHeadCommit
        => UpdateInv' /\ (Heals => op'.pc # "idle")
<1> SUFFICES ASSUME Inv, TInv, TopInv, UpdateInv, SetHeadCommit
             PROVE  UpdateInv' /\ (Heals => op'.pc # "idle")
  OBVIOUS
<1>1. /\ op.repo \in Repo /\ op.pc = "setHead" /\ pushed' = pushed /\ SetHead(op.hash)
      /\ op.repo # Top => repo[op.repo].head = op.hash /\ op.hash \in Project[op.repo]
  BY DEF SetHeadCommit, At, Env, TInv, TypedOp, TypedStep
<1>2. op.repo # Top => Working
  BY <1>1 DEF Working, Busy
<1>3. /\ Others(op.repo) /\ Beside
      /\ op.repo # Top =>
            /\ repo'[op.repo].head = op.hash /\ repo'[op.repo].origin = repo[op.repo].origin
            /\ repo'[op.repo].objs = repo[op.repo].objs
            /\ repo'[op.repo].index = repo[op.repo].index
            /\ repo'[op.repo].files = repo[op.repo].files
            /\ repo'[op.repo].subs = repo[op.repo].subs
  <2>1. CASE repo' = [repo EXCEPT ![op.repo].head = op.hash]
    BY <1>1, <2>1, HeadWritten, OthersBeside, Zenon
  <2>2. CASE repo' = repo
    BY <1>1, <2>2, OthersBeside DEF Others
  <2> QED
    BY <1>1, <2>1, <2>2 DEF SetHead
<1>4. op.repo # Top => op.hash # None
  BY <1>1, CloneAssumption
<1>5. EmptyInv'
  BY <1>3, <1>4, EmptyBeside DEF UpdateInv
<1>6. CASE op.hash \notin repo[op.repo].objs /\ Fail("refused")
  <2>1. op.repo # Top => ~Heals
    BY <1>1, <1>2, <1>6 DEF UpdateInv, HealInv
  <2>2. op.repo = Top => ~Heals
    BY <1>1 DEF TopInv, StageInv, Heals
  <2> QED
    BY <1>5, <1>6, <2>1, <2>2, UpdateFails
<1>7. CASE Goto("index")
  <2>1. SameCall /\ op'.pc = "index"
    BY <1>7, SameCallGoto
  <2>2. CASE op.repo = Top
    BY <1>1, <1>5, <2>1, <2>2, TopStep DEF DoneInv
  <2>3. CASE op.repo # Top
    <3>1. Progress'
      BY <1>3, <1>4, <2>1, <2>3 DEF Progress, SameCall
    <3>2. Heals => repo'[op.repo].origin
      BY <1>1, <1>2, <1>3, <1>4, <2>3 DEF UpdateInv, HealInv
    <3>3. UpdateInv'
      BY <1>1, <1>2, <1>3, <1>4, <2>1, <2>3, <3>1, <3>2, WorkGoesOn DEF Busy, Rewritten
    <3> QED
      BY <2>1, <3>3
  <2> QED
    BY <2>1, <2>2, <2>3
<1> QED
  BY <1>6, <1>7 DEF SetHeadCommit

LEMMA ResetIndexUpdate ==
    Inv /\ TInv /\ TopInv /\ UpdateInv /\ ResetIndex => UpdateInv' /\ (Heals => op'.pc # "idle")
<1> SUFFICES ASSUME Inv, TInv, TopInv, UpdateInv, ResetIndex
             PROVE  UpdateInv' /\ (Heals => op'.pc # "idle")
  OBVIOUS
<1>1. op.repo \in Repo /\ op.pc = "index" /\ pushed' = pushed
  BY DEF ResetIndex, At, Env, TInv, TypedOp
<1>2. op.repo # Top => Working /\ repo[op.repo].head # None
  BY <1>1 DEF Working, Busy, UpdateInv, SubInv, Progress
<1>3. /\ repo'[op.repo].head = repo[op.repo].head
      /\ repo'[op.repo].origin = repo[op.repo].origin
      /\ repo'[op.repo].index = op.hash /\ Beside
  BY <1>1, IndexWritten, OthersBeside, Zenon DEF ResetIndex
<1>4. SameCall /\ op'.pc = "files"
  BY SameCallGoto DEF ResetIndex
<1>5. CASE op.repo = Top
  BY <1>1, <1>3, <1>4, <1>5, EmptyBeside, TopStep DEF UpdateInv, DoneInv
<1>6. CASE op.repo # Top
  <2>1. Progress'
    BY <1>2, <1>3, <1>4, <1>6 DEF Progress, SameCall
  <2>2. Heals => repo'[op.repo].origin
    BY <1>1, <1>2, <1>3, <1>6 DEF UpdateInv, HealInv
  <2>3. UpdateInv'
    BY <1>1, <1>2, <1>3, <1>4, <1>6, <2>1, <2>2, WorkGoesOn DEF Busy, Rewritten
  <2> QED
    BY <1>4, <2>3
<1> QED
  BY <1>4, <1>5, <1>6

-----------------------------------------------------------------------------
(***************************************************************************)
(* A submodule is done, and the ones in it wait.                           *)
(***************************************************************************)
LEMMA WorkEnds ==
    ASSUME Inv, TInv, TopInv, UpdateInv, Working, Beside, pushed' = pushed,
           op'.call = op.call, op'.o = op.o, op'.repo = op.repo, op'.sound = op.sound,
           op.pc \in {"files", "list"}, op'.pc = "next",
           repo'[op.repo].head = op.hash, repo'[op.repo].index = op.hash,
           repo'[op.repo].files = op.hash, op.hash \in repo'[op.repo].objs,
           repo'[op.repo].origin = repo[op.repo].origin,
           Stacked(op'.todo, Levels), Waiting \subseteq Waiting',
           \A s \in Waiting' \ Waiting : s \in Listed(op.repo)' /\ s \in Repo \ {Top}
                                         /\ Front(s) = op.repo /\ s # op.repo,
           Len(op.repo) < Levels => Inside(op.repo)' \subseteq Waiting'
    PROVE  UpdateInv'
<1>1. Nested /\ op.call # "init" /\ op.repo \in Repo \ {Top} /\ op.pc \notin {"idle", "cleanup"}
  BY DEF Nested, Working, Busy, TopInv, StageInv, TInv, TypedOp
<1>2. PICK S \in SUBSET Repo : Settled(S) /\ (Heals => Untouched(S))
  BY <1>1 DEF UpdateInv, SubInv
<1>3. op.repo \notin S /\ Front(op.repo) \in S /\ SameOn(S) /\ Placed /\ op.hash # None
  <2>1. op.hash # None
    BY <1>1, CloneAssumption DEF TInv, TypedOp
  <2> QED
    BY <1>2, <2>1, SettledAround DEF UpdateInv, SubInv
<1>4. Open = Waiting \cup {op.repo} /\ Open' = Waiting' /\ Levels' = Levels /\ (Heals' <=> Heals)
  BY <1>1 DEF Open, Working, Busy, Levels, Heals
<1>5. op.repo \notin Open' /\ Open' \cap S = {}
  <2>1. ASSUME NEW s \in Waiting' PROVE s # op.repo /\ s \notin S
    <3>1. CASE s \in Waiting
      BY <1>2, <1>3, <1>4, <3>1 DEF Placed, Settled
    <3>2. CASE s \notin Waiting
      BY <1>2, <1>3, <2>1, <3>2 DEF Settled
    <3> QED
      BY <3>1, <3>2
  <2> QED
    BY <1>4, <2>1
<1>6. PICK r \in Repo \ {Top} : r = op.repo
  BY <1>1
<1>7. Expected(r)' = Expected(r) /\ IsAt(r, Expected(r))'
  <2>1. Expected(r)' = Expected(r)
    BY <1>3, <1>6 DEF SameOn, Expected
  <2> QED
    BY <1>3, <1>6, <2>1 DEF Placed, IsAt
<1> DEFINE T == S \cup {r}
<1>8. Settled(T)'
  BY <1>2, <1>3, <1>4, <1>5, <1>6, <1>7, SettledGrows DEF Placed
<1>9. Heals => Untouched(T)'
  <2> SUFFICES ASSUME Heals, NEW x \in Repo \ T PROVE ~Unstaged(x)'
    BY DEF Untouched
  <2>1. x # op.repo /\ x \in Repo \ S
    BY <1>6
  <2>2. \A s \in Listed(x) : HeadCommit(s)' = HeadCommit(s)
    <3> SUFFICES ASSUME NEW s \in Listed(x) PROVE HeadCommit(s)' = HeadCommit(s)
      OBVIOUS
    <3>1. s \in Repo \ {Top} /\ Front(s) = x
      BY ListedBelow DEF TInv
    <3>2. s # op.repo
      BY <1>3, <2>1, <3>1
    <3> QED
      BY <3>1, <3>2, SameHeads
  <2>3. Unstaged(x)' <=> Unstaged(x)
    BY <2>1, <2>2, SameUnstaged DEF Beside
  <2> QED
    BY <1>2, <2>1, <2>3 DEF Untouched
<1>10. \A s \in Waiting' : s \in Listed(Front(s))'
  <2>1. ASSUME NEW s \in Waiting PROVE s \in Listed(Front(s))'
    <3>1. s \in Listed(Front(s)) /\ Front(s) \in S
      BY <1>2, <1>4, <2>1 DEF UpdateInv, SubInv, Settled
    <3> QED
      BY <1>3, <3>1, SameInside DEF SameOn
  <2>2. ASSUME NEW s \in Waiting' \ Waiting PROVE s \in Listed(Front(s))'
    <3>1. s \in Listed(r)' /\ Front(s) = r
      BY <1>6
    <3> QED
      BY <3>1
  <2> QED
    BY <2>1, <2>2
<1>11. SubInv'
  <2>1. T \in SUBSET Repo /\ Settled(T)' /\ (Heals' => Untouched(T)')
    BY <1>2, <1>4, <1>6, <1>8, <1>9
  <2>2. \E U \in SUBSET Repo : Settled(U)' /\ (Heals' => Untouched(U)')
    BY <2>1
  <2>3. Stacked(op'.todo, Levels') /\ ~Working'
    BY <1>4 DEF Working, Busy
  <2> QED
    BY <1>10, <2>2, <2>3 DEF SubInv
<1>12. EmptyInv'
  BY <1>3, EmptyBeside DEF UpdateInv
<1>13. DoneInv'
  BY DEF DoneInv
<1>14. HealInv'
  <2> SUFFICES ASSUME Heals PROVE HealInv'
    BY <1>4 DEF HealInv
  <2>1. Listed(Top)' = Listed(Top) /\ repo'[Top].index = repo[Top].index
    BY <1>1, CloneAssumption, SameInside DEF Beside
  <2>2. \A x \in Repo \ {Top} : repo'[x].head # None => repo'[x].origin
    <3> SUFFICES ASSUME NEW x \in Repo \ {Top}, repo'[x].head # None PROVE repo'[x].origin
      OBVIOUS
    <3>1. CASE x = op.repo
      <4>1. repo[op.repo].head # None
        BY DEF UpdateInv, SubInv, Progress
      <4>2. repo[op.repo].origin
        BY <1>1, <4>1 DEF UpdateInv, HealInv
      <4> QED
        BY <3>1, <4>2
    <3>2. CASE x # op.repo
      BY <3>2 DEF Beside, UpdateInv, HealInv
    <3> QED
      BY <3>1, <3>2
  <2>3. Published' /\ op'.o.init
    BY DEF UpdateInv, HealInv, Published
  <2>4. \A x \in Listed(Top)' : Last(x) \in DOMAIN SubmodulesOf(repo'[Top].index)
    BY <2>1 DEF UpdateInv, HealInv
  <2>5. op'.repo # Top /\ ~Working'
    BY <1>1 DEF Working, Busy
  <2> QED
    BY <2>2, <2>3, <2>4, <2>5 DEF HealInv
<1> QED
  BY <1>11, <1>12, <1>13, <1>14 DEF UpdateInv

LEMMA ResetFilesUpdate ==
    Inv /\ TInv /\ TopInv /\ UpdateInv /\ ResetFiles => UpdateInv' /\ (Heals => op'.pc # "idle")
<1> SUFFICES ASSUME Inv, TInv, TopInv, UpdateInv, ResetFiles
             PROVE  UpdateInv' /\ (Heals => op'.pc # "idle")
  OBVIOUS
<1>1. op.repo \in Repo /\ op.pc = "files" /\ pushed' = pushed
  BY DEF ResetFiles, At, Env, TInv, TypedOp
<1>2. op.repo # Top =>
        /\ Working /\ repo[op.repo].head # None /\ repo[op.repo].head = op.hash
        /\ repo[op.repo].index = op.hash /\ op.hash \in repo[op.repo].objs
        /\ Len(op.repo) + op.left = Levels
  BY <1>1 DEF Working, Busy, UpdateInv, SubInv, Placed, Progress, TInv, TypedStep
<1>3. /\ repo'[op.repo].head = repo[op.repo].head
      /\ repo'[op.repo].origin = repo[op.repo].origin
      /\ repo'[op.repo].objs = repo[op.repo].objs
      /\ repo'[op.repo].index = repo[op.repo].index
      /\ repo'[op.repo].files = op.hash /\ Beside
  BY <1>1, FilesWritten, OthersBeside, Zenon DEF ResetFiles
<1>4. SameCall /\ op'.pc = NextPc
  BY SameCallGoto DEF ResetFiles
<1>5. CASE op.repo = Top
  <2>1. /\ NextPc \in {"list", "config", "end"}
        /\ NextPc \in {"config", "end"} => ~(op.o.recurse > 0)
    BY <1>5 DEF NextPc
  <2>2. op.call # "update"
    BY <1>1, <1>5 DEF TopInv, StageInv
  <2>3. DoneInv'
    BY <1>4, <2>1, <2>2 DEF DoneInv, SameCall
  <2>4. EmptyInv'
    BY <1>3, <1>5, EmptyBeside DEF UpdateInv
  <2>5. UpdateInv'
    BY <1>1, <1>4, <1>5, <2>1, <2>3, <2>4, TopStep
  <2> QED
    BY <1>4, <2>1, <2>5
<1>6. CASE op.repo # Top /\ op.left > 0
  <2>1. op'.pc = "list"
    BY <1>4, <1>6 DEF NextPc
  <2>2. Progress'
    BY <1>2, <1>3, <1>4, <1>6, <2>1 DEF Progress, SameCall
  <2>3. Heals => repo'[op.repo].origin
    BY <1>1, <1>2, <1>3, <1>6 DEF UpdateInv, HealInv
  <2>4. UpdateInv'
    BY <1>1, <1>2, <1>3, <1>4, <1>6, <2>1, <2>2, <2>3, WorkGoesOn DEF Busy, Rewritten
  <2> QED
    BY <2>1, <2>4
<1>7. CASE op.repo # Top /\ ~(op.left > 0)
  <2>1. op'.pc = "next"
    BY <1>4, <1>7 DEF NextPc
  <2>2. Nested /\ Stacked(op.todo, Levels)
    BY <1>2, <1>7 DEF Nested, TopInv, StageInv, UpdateInv, SubInv, Working
  <2>3. Waiting' = Waiting /\ Stacked(op'.todo, Levels)
    BY <1>4, <2>2 DEF Waiting, SameCall
  <2>4. ~(Len(op.repo) < Levels)
    <3>1. op.left = 0 /\ Len(op.repo) \in Nat
      BY <1>1, <1>7, CloneAssumption DEF TInv, TypedOp
    <3> QED
      BY <1>2, <1>7, <3>1
  <2>5. UpdateInv'
    BY <1>1, <1>2, <1>3, <1>4, <1>7, <2>1, <2>3, <2>4, WorkEnds DEF SameCall
  <2> QED
    BY <2>1, <2>5
<1> QED
  BY <1>5, <1>6, <1>7

\* Worktree.Submodules, of the outermost repository: all in it wait.
LEMMA TopListed ==
    ASSUME Inv, TInv, TopInv, UpdateInv, op.repo = Top, op.pc = "list", op.call # "init",
           UNCHANGED <<repo, pushed>>,
           op'.call = op.call, op'.o = op.o, op'.repo = Top, op'.sound = op.sound,
           op'.pc = "next", Waiting' = Listed(Top), Stacked(op'.todo, Levels)
    PROVE  UpdateInv'
<1>1. Open' = Listed(Top) /\ Levels' = Levels /\ (Heals' <=> Heals) /\ Top \in Repo
  BY CloneAssumption DEF Open, Working, Levels, Heals
<1>2. \A s \in Listed(Top) : s \in Repo \ {Top} /\ Front(s) = Top
  BY <1>1, ListedBelow DEF TInv
<1>3. Listed(Top)' = Listed(Top) /\ Inside(Top)' = Inside(Top) /\ Inside(Top) \subseteq Listed(Top)
  BY SameInside DEF Inside
<1>4. Settled({Top})'
  BY <1>1, <1>2, <1>3 DEF Settled
<1>5. Heals => Untouched({Top})'
  <2> SUFFICES ASSUME Heals, NEW r \in Repo \ {Top} PROVE ~Unstaged(r)'
    BY DEF Untouched
  <2>1. ~Unstaged(r)
    BY DEF UpdateInv, HealInv
  <2>2. \A s \in Listed(r) : HeadCommit(s)' = HeadCommit(s)
    <3> SUFFICES ASSUME NEW s \in Listed(r) PROVE HeadCommit(s)' = HeadCommit(s)
      OBVIOUS
    <3>1. s # Top
      BY ListedBelow DEF TInv
    <3> QED
      BY <3>1 DEF HeadCommit
  <2>3. Unstaged(r)' <=> Unstaged(r)
    BY <2>2, SameUnstaged
  <2> QED
    BY <2>1, <2>3
<1>6. SubInv'
  <2>1. {Top} \in SUBSET Repo /\ Settled({Top})' /\ (Heals' => Untouched({Top})')
    BY <1>1, <1>4, <1>5
  <2>2. \E U \in SUBSET Repo : Settled(U)' /\ (Heals' => Untouched(U)')
    BY <2>1
  <2>3. \A s \in Waiting' : s \in Listed(Front(s))'
    <3> SUFFICES ASSUME NEW s \in Listed(Top) PROVE s \in Listed(Front(s))'
      OBVIOUS
    <3>1. Front(s) = Top /\ s \in Listed(Top)'
      BY <1>2, <1>3
    <3> QED
      BY <3>1
  <2> QED
    BY <1>1, <2>2, <2>3 DEF SubInv, Working
<1>7. EmptyInv' /\ DoneInv'
  BY DEF UpdateInv, EmptyInv, DoneInv
<1>8. HealInv'
  <2> SUFFICES ASSUME Heals PROVE HealInv'
    BY <1>1 DEF HealInv
  <2>1. Published' /\ op'.o.init
    BY DEF UpdateInv, HealInv, Published
  <2>2. \A x \in Listed(Top)' : Last(x) \in DOMAIN SubmodulesOf(repo'[Top].index)
    BY <1>3 DEF UpdateInv, HealInv
  <2>3. \A x \in Repo \ {Top} : repo'[x].head # None => repo'[x].origin
    BY DEF UpdateInv, HealInv
  <2> QED
    BY <2>1, <2>2, <2>3 DEF HealInv, Working
<1> QED
  BY <1>6, <1>7, <1>8 DEF UpdateInv

LEMMA ListSubmodulesUpdate ==
    Inv /\ TInv /\ TopInv /\ UpdateInv /\ ListSubmodules
        => UpdateInv' /\ (Heals => op'.pc # "idle")
<1> SUFFICES ASSUME Inv, TInv, TopInv, UpdateInv, ListSubmodules
             PROVE  UpdateInv' /\ (Heals => op'.pc # "idle")
  OBVIOUS
<1> DEFINE list == [of |-> Listed(op.repo), left |-> LevelsBelow]
<1>1. /\ op.repo \in Repo /\ op.pc = "list" /\ UNCHANGED <<repo, pushed>>
      /\ op.todo \in Seq(Lists)
  BY DEF ListSubmodules, At, Env, Steady, TInv, TypedOp
<1>2. op' = [op EXCEPT !.pc = "next", !.todo = <<list>> \o @]
  BY DEF ListSubmodules
<1>3. list \in Lists /\ list.of = Listed(op.repo) /\ list.left = LevelsBelow
  <2>1. Listed(op.repo) \subseteq Repo \ {Top}
    BY <1>1, ListedBelow DEF TInv
  <2>2. LevelsBelow \in Nat
    BY <1>1 DEF LevelsBelow, TInv, TypedOp, TypedStep, Option
  <2> QED
    BY <2>1, <2>2 DEF Lists
<1> HIDE DEF list
<1>4. /\ op'.pc = "next" /\ op'.call = op.call /\ op'.o = op.o /\ op'.repo = op.repo
      /\ op'.sound = op.sound /\ op'.hash = op.hash /\ op'.todo = <<list>> \o op.todo
  BY <1>2 DEF Inv, Formed, FormedOp
<1>5. Waiting' = Listed(op.repo) \cup Waiting
  BY <1>1, <1>3, <1>4, WaitingPushed DEF Waiting
<1>6. \A s \in Listed(op.repo) :
        /\ s \in Repo \ {Top} /\ Front(s) = op.repo /\ s # op.repo
        /\ Len(op.repo) \in Nat /\ Len(s) = Len(op.repo) + 1
  BY <1>1, ListedBelow DEF TInv
<1>7. CASE op.repo = Top
  <2>1. op.todo = <<>>
    BY <1>1, <1>7 DEF TopInv, StageInv, Busy
  <2>2. Waiting = {}
    BY <2>1 DEF Waiting, WaitingIn
  <2>3. CASE op.call = "init"
    <3>1. SubInv'
      <4>1. \A s \in Listed(Top) : s \in Listed(Front(s))
        BY <1>6, <1>7
      <4>2. \A s \in Waiting' : s \in Listed(Front(s))'
        BY <1>1, <1>5, <1>7, <2>2, <4>1, SameInside
      <4> QED
        BY <1>4, <1>7, <2>3, <4>2 DEF SubInv, Nested, Working
    <3>2. EmptyInv' /\ DoneInv' /\ HealInv' /\ ~Heals
      BY <1>1, <1>4, <2>3 DEF UpdateInv, EmptyInv, DoneInv, HealInv, Heals
    <3> QED
      BY <3>1, <3>2 DEF UpdateInv
  <2>4. CASE op.call # "init"
    <3>1. Stacked(op'.todo, Levels)
      <4>1. Stacked(op.todo, Levels) /\ WaitingIn(op.todo) = {}
        BY <2>1 DEF Stacked, WaitingIn
      <4>2. \A s \in list.of : Len(s) + list.left = Levels
        <5>1. Len(Top) = 0 /\ list.left = op.o.recurse /\ op.o.recurse \in Nat
          BY <1>3, <1>7 DEF LevelsBelow, Top, TInv, TypedOp, Option
        <5>2. \A s \in Listed(op.repo) : Len(s) = 1
          <6> SUFFICES ASSUME NEW s \in Listed(op.repo) PROVE Len(s) = 1
            OBVIOUS
          <6>1. Len(s) = Len(op.repo) + 1 /\ Len(op.repo) = 0
            BY <1>6, <1>7, <5>1
          <6> QED
            BY <6>1
        <5>3. 1 + list.left = Levels
          BY <5>1 DEF Levels
        <5> QED
          BY <1>3, <5>2, <5>3
      <4> QED
        BY <1>1, <1>3, <1>4, <4>1, <4>2, StackedPushed
    <3>2. UpdateInv'
      BY <1>1, <1>4, <1>5, <1>7, <2>2, <2>4, <3>1, TopListed
    <3> QED
      BY <1>4, <3>2
  <2> QED
    BY <2>3, <2>4
<1>8. CASE op.repo # Top
  <2>1. /\ Working /\ Nested /\ op.left > 0 /\ op.left \in Nat
        /\ repo[op.repo].head = op.hash
    BY <1>1, <1>8 DEF Working, Busy, Nested, TopInv, StageInv, TInv, TypedStep, TypedOp
  <2>2. /\ repo[op.repo].index = op.hash /\ repo[op.repo].files = op.hash
        /\ op.hash \in repo[op.repo].objs /\ Len(op.repo) + op.left = Levels
        /\ Stacked(op.todo, Levels)
    BY <1>1, <2>1 DEF UpdateInv, SubInv, Placed, Progress
  <2>3. PICK S \in SUBSET Repo : Settled(S)
    BY <2>1 DEF UpdateInv, SubInv
  <2>4. Listed(op.repo) \cap Waiting = {}
    <3>1. op.repo \notin S
      BY <1>1, <2>1, <2>3, <1>8 DEF Settled, Open
    <3>2. \A s \in Waiting : Front(s) \in S
      BY <2>3 DEF Settled, Open
    <3> QED
      BY <1>6, <3>1, <3>2
  <2>5. Stacked(op'.todo, Levels)
    <3>1. \A s \in list.of : Len(s) + list.left = Levels
      <4>1. list.left = op.left - 1 /\ Len(op.repo) \in Nat
        BY <1>1, <1>3, <1>8, CloneAssumption DEF LevelsBelow
      <4> QED
        BY <1>3, <1>6, <2>1, <2>2, <4>1
    <3> QED
      BY <1>1, <1>3, <1>4, <2>2, <2>4, <3>1, StackedPushed DEF Waiting
  <2>6. Beside /\ Inside(op.repo)' \subseteq Waiting' /\ Listed(op.repo)' = Listed(op.repo)
    <3>1. PICK r \in Repo : r = op.repo
      BY <1>1
    <3>2. Inside(r)' = Inside(r) /\ Listed(r)' = Listed(r) /\ Inside(r) \subseteq Listed(r)
      BY <1>1, SameInside DEF Inside
    <3> QED
      BY <1>1, <1>4, <1>5, <3>1, <3>2 DEF Beside
  <2>7. \A s \in Waiting' \ Waiting : s \in Listed(op.repo)' /\ s \in Repo \ {Top}
                                      /\ Front(s) = op.repo /\ s # op.repo
    BY <1>5, <1>6, <2>6
  <2>8. UpdateInv'
    BY <1>1, <1>4, <1>5, <2>1, <2>2, <2>5, <2>6, <2>7, WorkEnds
  <2> QED
    BY <1>4, <2>8
<1> QED
  BY <1>7, <1>8

\* A repository that has submodules has a HEAD.
LEMMA RegisteredEmpty ==
    ASSUME Inv, TInv, EmptyInv, NEW r \in Repo \ {Top}, r \in Listed(Front(r)),
           repo' = [repo EXCEPT ![Front(r)].subs = @ \cup {Last(r)}]
    PROVE  EmptyInv'
<1>1. \A s \in Repo :
        /\ repo'[s].head = repo[s].head /\ repo'[s].origin = repo[s].origin
        /\ repo'[s].index = repo[s].index /\ repo'[s].files = repo[s].files
        /\ s # Front(r) => repo'[s].subs = repo[s].subs
  BY SubsTypes
<1>2. repo[Front(r)].files # None /\ Front(r) \in Repo
  BY PathAbove DEF Listed, SubmodulesOf
<1>3. Front(r) # Top => repo[Front(r)].head # None
  BY <1>2 DEF EmptyInv
<1>4. \A s \in Repo \ {Top} : repo'[s].head = None =>
        /\ repo[s].head = None /\ repo'[s].origin = repo[s].origin
        /\ repo'[s].index = repo[s].index /\ repo'[s].files = repo[s].files
        /\ repo'[s].subs = repo[s].subs
  BY <1>1, <1>3
<1> QED
  BY <1>4, EmptyKeeps

LEMMA NextListUpdate ==
    ASSUME Inv, TInv, TopInv, UpdateInv, op.pc = "next", UNCHANGED <<repo, pushed>>,
           op'.call = op.call, op'.o = op.o, op'.repo = op.repo, op'.sound = op.sound,
           op'.pc = "next", Waiting' = Waiting, Nested => Stacked(op'.todo, Levels)
    PROVE  UpdateInv'
<1>1. /\ ~Working /\ ~Working' /\ (Nested' <=> Nested) /\ Open' = Open /\ Levels' = Levels
      /\ (Heals' <=> Heals)
  BY DEF Working, Busy, Nested, Open, Levels, Heals
<1>2. ASSUME NEW S \in SUBSET Repo, Settled(S) PROVE Settled(S)'
  BY <1>1, <1>2, SettledKeeps DEF SameOn
<1>3. ASSUME NEW S \in SUBSET Repo, Settled(S), Untouched(S) PROVE Untouched(S)'
  <2> SUFFICES ASSUME NEW r \in Repo \ S PROVE ~Unstaged(r)'
    BY DEF Untouched
  <2>1. ~Unstaged(r)
    BY <1>3 DEF Untouched, Rewritten
  <2>2. r \in Repo /\ \A s \in Listed(r) : HeadCommit(s)' = HeadCommit(s)
    <3> SUFFICES ASSUME NEW s \in Listed(r) PROVE HeadCommit(s)' = HeadCommit(s)
      OBVIOUS
    <3>1. s # Top
      BY ListedBelow DEF TInv
    <3> QED
      BY <3>1 DEF HeadCommit
  <2>3. Unstaged(r)' <=> Unstaged(r)
    BY <2>2, SameUnstaged
  <2> QED
    BY <2>1, <2>3
<1>4. Nested => \E S \in SUBSET Repo : Settled(S)' /\ (Heals => Untouched(S)')
  BY <1>2, <1>3 DEF UpdateInv, SubInv
<1>5. \A s \in Waiting' : s \in Listed(Front(s))'
  <2> SUFFICES ASSUME NEW s \in Waiting PROVE s \in Listed(Front(s))'
    OBVIOUS
  <2>1. s \in Listed(Front(s))
    BY DEF UpdateInv, SubInv
  <2> QED
    BY <2>1, SameInside
<1>6. SubInv'
  BY <1>1, <1>4, <1>5 DEF SubInv
<1>7. EmptyInv' /\ DoneInv'
  BY DEF UpdateInv, EmptyInv, DoneInv
<1>8. HealInv'
  <2> SUFFICES ASSUME Heals PROVE HealInv'
    BY <1>1 DEF HealInv
  <2>1. Published' /\ op'.o.init
    BY DEF UpdateInv, HealInv, Published
  <2>2. \A x \in Listed(Top)' : Last(x) \in DOMAIN SubmodulesOf(repo'[Top].index)
    BY SameInside DEF UpdateInv, HealInv
  <2>3. \A x \in Repo \ {Top} : repo'[x].head # None => repo'[x].origin
    BY DEF UpdateInv, HealInv
  <2> QED
    BY <1>1, <2>1, <2>2, <2>3 DEF HealInv
<1> QED
  BY <1>6, <1>7, <1>8 DEF UpdateInv

LEMMA RegisterUpdate ==
    ASSUME Inv, TInv, TopInv, UpdateInv, op.pc = "next", op.todo # <<>>, op.call = "init",
           NEW r \in Head(op.todo).of,
           repo' = [repo EXCEPT ![Front(r)].subs = @ \cup {Last(r)}],
           op' = [op EXCEPT !.todo = Without(r)]
    PROVE  UpdateInv'
<1>1. op.todo \in Seq(Lists) /\ op.repo = Top
  BY DEF TInv, TypedOp, TopInv, StageInv
<1>2. r \in Repo \ {Top} /\ r \in Waiting /\ WaitingIn(Without(r)) \subseteq Waiting
  <2>1. Head(op.todo) \in Lists /\ Waiting = WaitingIn(Without(r)) \cup {r}
    BY <1>1, StackTop, StackWithout
  <2> QED
    BY <2>1 DEF Lists
<1>3. \A s \in Waiting : s \in Listed(Front(s))
  BY DEF UpdateInv, SubInv
<1>4. /\ op'.pc = "next" /\ op'.call = "init" /\ op'.repo = Top /\ op'.todo = Without(r)
  BY <1>1 DEF Inv, Formed, FormedOp
<1>5. Waiting' \subseteq Waiting
  BY <1>2, <1>4 DEF Waiting
<1>6. \A s \in Waiting' : s \in Listed(Front(s))'
  <2> SUFFICES ASSUME NEW s \in Waiting PROVE s \in Listed(Front(s))'
    BY <1>5
  <2>1. s \in Repo \ {Top}
    <3>1. \A i \in 1 .. Len(op.todo) : op.todo[i] \in Lists
      BY <1>1, ElementOfSeq
    <3> QED
      BY <3>1 DEF Waiting, WaitingIn, Lists
  <2>2. Front(s) \in Repo
    BY <2>1, PathAbove
  <2>3. repo'[Front(s)].files = repo[Front(s)].files
    BY <1>2, <2>2, SubsTypes
  <2>4. s \in Listed(Front(s))
    BY <1>3
  <2> QED
    BY <2>3, <2>4 DEF Listed
<1>7. SubInv'
  BY <1>4, <1>6 DEF SubInv, Nested, Working
<1>8. EmptyInv'
  BY <1>2, <1>3, RegisteredEmpty DEF UpdateInv
<1> QED
  BY <1>4, <1>7, <1>8 DEF UpdateInv, DoneInv, HealInv, Heals

\* Submodule.Update begins, of one that waits.
LEMMA StartUpdateOf ==
    ASSUME Inv, TInv, TopInv, UpdateInv, op.pc = "next", op.todo # <<>>, op.call # "init",
           NEW r \in Head(op.todo).of, pushed' = pushed,
           Last(r) \in DOMAIN SubmodulesOf(repo[Front(r)].index),
           repo' = [repo EXCEPT ![Front(r)].subs = @ \cup {Last(r)}],
           op' = [op EXCEPT !.pc = RepositoryPc(r), !.repo = r, !.hash = Expected(r),
                            !.left = Head(op.todo).left, !.todo = Without(r)]
    PROVE  UpdateInv'
<1>1. op.todo \in Seq(Lists) /\ Nested /\ ~Working
  BY DEF TInv, TypedOp, Nested, Working, Busy
<1>2. Stacked(op.todo, Levels)
  BY <1>1 DEF UpdateInv, SubInv
<1>3. /\ r \in Repo \ {Top} /\ Waiting = WaitingIn(Without(r)) \cup {r}
      /\ Stacked(Without(r), Levels) /\ r \notin WaitingIn(Without(r))
      /\ Len(r) + Head(op.todo).left = Levels
  <2>1. Head(op.todo) \in Lists /\ \A e \in Head(op.todo).of : Len(e) + Head(op.todo).left = Levels
    BY <1>1, <1>2, StackTop
  <2> QED
    BY <1>1, <1>2, <2>1, StackWithout DEF Lists
<1>4. /\ op'.pc = RepositoryPc(r) /\ op'.call = op.call /\ op'.o = op.o /\ op'.repo = r
      /\ op'.hash = Expected(r) /\ op'.left = Head(op.todo).left
      /\ op'.todo = Without(r) /\ op'.sound = op.sound
  BY DEF Inv, Formed, FormedOp
<1>5. /\ Working' /\ Waiting' = WaitingIn(Without(r)) /\ Levels' = Levels
      /\ (Heals' <=> Heals) /\ op'.pc \in {"fetch", "init"}
  BY <1>3, <1>4 DEF Working, Busy, RepositoryPc, Waiting, Levels, Heals
<1>6. Open' = Open /\ Open = Waiting
  BY <1>1, <1>3, <1>4, <1>5 DEF Open
<1>7. \A s \in Repo :
        /\ repo'[s].head = repo[s].head /\ repo'[s].origin = repo[s].origin
        /\ repo'[s].objs = repo[s].objs /\ repo'[s].index = repo[s].index
        /\ repo'[s].files = repo[s].files
        /\ s # Front(r) => repo'[s].subs = repo[s].subs
  BY <1>3, SubsTypes
<1>8. PICK S \in SUBSET Repo : Settled(S) /\ (Heals => Untouched(S))
  BY <1>1 DEF UpdateInv, SubInv
<1>9. \A s \in Waiting : s \in Listed(Front(s)) /\ Front(s) \in S
  BY <1>6, <1>8 DEF UpdateInv, SubInv, Settled
<1>10. Settled(S)'
  <2>1. SameOn(S)
    BY <1>7, <1>8 DEF SameOn
  <2> QED
    BY <1>4, <1>6, <1>8, <2>1, SettledKeeps
<1>11. Heals => Untouched(S)'
  <2> SUFFICES ASSUME Heals, NEW x \in Repo \ S PROVE ~Unstaged(x)'
    BY DEF Untouched
  <2>1. ~Unstaged(x)
    BY <1>8 DEF Untouched, Rewritten
  <2>2. x # Front(r) /\ x \in Repo
    BY <1>3, <1>9
  <2>3. \A s \in Listed(x) : HeadCommit(s)' = HeadCommit(s)
    <3> SUFFICES ASSUME NEW s \in Listed(x) PROVE HeadCommit(s)' = HeadCommit(s)
      OBVIOUS
    <3>1. s \in Repo \ {Top}
      BY <2>2, ListedBelow DEF TInv
    <3> QED
      BY <1>7, <3>1 DEF HeadCommit
  <2>4. Unstaged(x)' <=> Unstaged(x)
    BY <1>7, <2>2, <2>3, SameUnstaged
  <2> QED
    BY <2>1, <2>4
<1>12. Placed'
  <2>1. r \in Inside(Front(r)) /\ Front(r) \in Repo
    BY <1>3, <1>9, PathAbove DEF Inside
  <2>2. Inside(Front(r))' = Inside(Front(r)) /\ Expected(r)' = Expected(r)
    BY <1>7, <2>1, SameInside DEF Expected
  <2> QED
    BY <1>3, <1>4, <1>5, <2>1, <2>2 DEF Placed
<1>13. Progress'
  BY <1>3, <1>4, <1>7 DEF Progress, RepositoryPc
<1>14. \A s \in Waiting' : s \in Listed(Front(s))'
  <2> SUFFICES ASSUME NEW s \in Waiting PROVE s \in Listed(Front(s))'
    BY <1>3, <1>5
  <2>1. s \in Listed(Front(s)) /\ Front(s) \in Repo
    BY <1>8, <1>9
  <2> QED
    BY <1>7, <2>1 DEF Listed
<1>15. SubInv'
  BY <1>3, <1>4, <1>5, <1>8, <1>10, <1>11, <1>12, <1>13, <1>14 DEF SubInv
<1>16. EmptyInv'
  BY <1>3, <1>9, RegisteredEmpty DEF UpdateInv
<1>17. HealInv'
  <2> SUFFICES ASSUME Heals PROVE HealInv'
    BY <1>5 DEF HealInv
  <2>1. Published' /\ op'.o.init
    BY <1>4 DEF UpdateInv, HealInv, Published
  <2>2. \A x \in Listed(Top)' : Last(x) \in DOMAIN SubmodulesOf(repo'[Top].index)
    BY <1>7, CloneAssumption, SameInside DEF UpdateInv, HealInv
  <2>3. \A x \in Repo \ {Top} : repo'[x].head # None => repo'[x].origin
    BY <1>7 DEF UpdateInv, HealInv
  <2> QED
    BY <1>3, <1>4, <1>5, <2>1, <2>2, <2>3 DEF HealInv
<1> QED
  BY <1>5, <1>15, <1>16, <1>17 DEF UpdateInv, DoneInv

\* An update that nothing stands in the way of finds each submodule in the
\* index of the repository it is in.
LEMMA WaitingIsInside ==
    ASSUME TInv, UpdateInv, Heals, op.pc = "next", NEW r \in Waiting, r \in Repo \ {Top}
    PROVE  Last(r) \in DOMAIN SubmodulesOf(repo[Front(r)].index)
<1>1. PICK S \in SUBSET Repo : Settled(S)
  BY DEF UpdateInv, SubInv, Nested, Heals
<1>2. Front(r) \in S /\ r \in Listed(Front(r))
  BY <1>1 DEF Settled, Open, UpdateInv, SubInv
<1>3. CASE Front(r) = Top
  BY <1>2, <1>3 DEF UpdateInv, HealInv
<1>4. CASE Front(r) # Top
  <2>1. PICK p \in Repo : p = Front(r) /\ p \in S \ {Top}
    BY <1>2, <1>4
  <2>2. repo[p].files = repo[p].index
    BY <1>1, <2>1 DEF Settled, IsAt
  <2>3. Last(r) \in DOMAIN SubmodulesOf(repo[p].files)
    BY <1>2, <2>1, ListedBelow DEF TInv
  <2> QED
    BY <2>1, <2>2, <2>3
<1> QED
  BY <1>3, <1>4

LEMMA NextSubmoduleUpdate ==
    Inv /\ TInv /\ TopInv /\ UpdateInv /\ NextSubmodule
        => UpdateInv' /\ (Heals => op'.pc # "idle")
<1> SUFFICES ASSUME Inv, TInv, TopInv, UpdateInv, NextSubmodule
             PROVE  UpdateInv' /\ (Heals => op'.pc # "idle")
  OBVIOUS
<1>1. /\ op.pc = "next" /\ op.todo # <<>> /\ op.todo \in Seq(Lists) /\ pushed' = pushed
  BY DEF NextSubmodule, At, Env, TInv, TypedOp
<1>2. /\ Head(op.todo) \in Lists
      /\ Waiting = Head(op.todo).of \cup WaitingIn(Tail(op.todo))
      /\ Stacked(op.todo, Levels) => Stacked(Tail(op.todo), Levels)
  BY <1>1, StackTop DEF Waiting
<1>3. \A r \in Head(op.todo).of : r \in Repo \ {Top} /\ r \in Waiting
  BY <1>2 DEF Lists
<1>4. CASE Head(op.todo).of = {} /\ op' = [op EXCEPT !.todo = Tail(@)] /\ UNCHANGED repo
  <2>1. /\ op'.pc = "next" /\ op'.call = op.call /\ op'.o = op.o /\ op'.repo = op.repo
        /\ op'.sound = op.sound /\ op'.todo = Tail(op.todo)
    BY <1>1, <1>4 DEF Inv, Formed, FormedOp
  <2>2. Waiting' = Waiting
    BY <1>2, <1>4, <2>1 DEF Waiting
  <2>3. Nested => Stacked(op'.todo, Levels)
    BY <1>2, <2>1 DEF UpdateInv, SubInv
  <2> QED
    BY <1>1, <1>4, <2>1, <2>2, <2>3, NextListUpdate
<1>5. Fail("refused") /\ UNCHANGED repo => UpdateInv'
  <2> SUFFICES ASSUME Fail("refused"), UNCHANGED repo PROVE UpdateInv'
    OBVIOUS
  <2>1. EmptyInv'
    BY DEF UpdateInv, EmptyInv
  <2> QED
    BY <2>1, UpdateFails
<1>6. ASSUME NEW r \in Head(op.todo).of, op.call = "init", Register(r)
      PROVE  UpdateInv' /\ ~Heals
  <2>1. CASE ~(Fail("refused") /\ UNCHANGED repo)
    <3>1. /\ repo' = [repo EXCEPT ![Front(r)].subs = @ \cup {Last(r)}]
          /\ op' = [op EXCEPT !.todo = Without(r)]
      BY <1>6, <2>1 DEF Register
    <3> QED
      BY <1>1, <1>6, <3>1, RegisterUpdate DEF Heals
  <2> QED
    BY <1>5, <1>6, <2>1 DEF Heals
<1>7. ASSUME NEW r \in Head(op.todo).of, op.call # "init", StartSubmodule(r)
      PROVE  UpdateInv' /\ (Heals => op'.pc # "idle")
  <2>1. Heals => Last(r) \in DOMAIN SubmodulesOf(repo[Front(r)].index) /\ op.o.init
    BY <1>1, <1>3, WaitingIsInside DEF UpdateInv, HealInv
  <2>2. CASE Fail("refused") /\ UNCHANGED repo /\ ~Heals
    BY <1>5, <2>2
  <2>3. CASE /\ Last(r) \notin DOMAIN SubmodulesOf(repo[Front(r)].index)
             /\ repo' = [repo EXCEPT ![Front(r)].subs = @ \cup {Last(r)}]
             /\ Fail("refused")
    <3>1. r \in Listed(Front(r))
      BY <1>1, <1>3 DEF UpdateInv, SubInv
    <3>2. EmptyInv'
      BY <1>3, <2>3, <3>1, RegisteredEmpty DEF UpdateInv
    <3> QED
      BY <2>1, <2>3, <3>2, UpdateFails
  <2>4. CASE /\ Last(r) \in DOMAIN SubmodulesOf(repo[Front(r)].index)
             /\ repo' = [repo EXCEPT ![Front(r)].subs = @ \cup {Last(r)}]
             /\ op' = [op EXCEPT !.pc = RepositoryPc(r), !.repo = r, !.hash = Expected(r),
                                 !.left = Head(op.todo).left, !.todo = Without(r)]
    <3>1. UpdateInv'
      BY <1>1, <1>7, <2>4, StartUpdateOf
    <3>2. op'.pc = RepositoryPc(r)
      BY <2>4 DEF Inv, Formed, FormedOp
    <3> QED
      BY <3>1, <3>2 DEF RepositoryPc
  <2> QED
    BY <1>7, <2>1, <2>2, <2>3, <2>4 DEF StartSubmodule, Expected
<1> QED
  BY <1>1, <1>4, <1>6, <1>7 DEF NextSubmodule

-----------------------------------------------------------------------------
(***************************************************************************)
(* The beginning of the calls, and the steps that end the work.            *)
(***************************************************************************)
\* A call that begins is not one that an update is asked to heal with.
LEMMA BeginUpdate ==
    ASSUME UpdateInv, UNCHANGED <<repo, pushed>>, op'.repo = Top, op'.pc \in {"storer", "list", "fetch"},
           ~Heals'
    PROVE  UpdateInv'
<1>1. EmptyInv'
  BY DEF UpdateInv, EmptyInv
<1>2. SubInv' /\ DoneInv' /\ HealInv'
  BY DEF SubInv, DoneInv, HealInv, Nested, Working
<1> QED
  BY <1>1, <1>2 DEF UpdateInv

LEMMA StartUpdateUpdate == Inv /\ TInv /\ UpdateInv /\ StartUpdate => UpdateInv'
<1> SUFFICES ASSUME Inv, TInv, UpdateInv, StartUpdate PROVE UpdateInv'
  OBVIOUS
<1>1. PICK o \in Options["update"] :
        op' = [[Idle EXCEPT !.pc = "list", !.sound = Sound] EXCEPT
                  !.call = "update", !.o = o, !.before = Place, !.sound = o.init /\ @]
  BY DEF StartUpdate, Begin
<1>2. /\ op'.repo = Top /\ op'.pc = "list" /\ op'.call = "update" /\ op'.o = o
      /\ op'.sound = (o.init /\ Sound)
  BY <1>1 DEF Idle
<1>3. UNCHANGED <<repo, refs, pushed>>
  BY DEF StartUpdate, Begin
<1>4. EmptyInv'
  BY <1>3 DEF UpdateInv, EmptyInv
<1>5. SubInv' /\ DoneInv'
  BY <1>2 DEF SubInv, DoneInv, Nested, Working
<1>6. HealInv'
  <2> SUFFICES ASSUME o.init, Sound PROVE HealInv'
    BY <1>2 DEF HealInv, Heals
  <2>1. op'.o.init /\ Published'
    BY <1>2, <1>3 DEF Sound, Published
  <2>2. \A r \in Listed(Top)' : Last(r) \in DOMAIN SubmodulesOf(repo'[Top].index)
    BY <1>3, SameInside DEF Sound
  <2>3. ASSUME NEW r \in Repo \ {Top} PROVE ~Unstaged(r)' /\ (repo'[r].head # None => repo'[r].origin)
    <3>1. Unstaged(r)' <=> Unstaged(r)
      <4>1. \A s \in Listed(r) : HeadCommit(s)' = HeadCommit(s)
        BY <1>3 DEF HeadCommit
      <4> QED
        BY <1>3, <4>1, SameUnstaged
    <3>2. CASE repo[r].head = None
      <4>1. repo[r].files = repo[r].index /\ repo[r].subs = {}
        BY <3>2 DEF UpdateInv, EmptyInv
      <4>2. ~Unstaged(r)
        BY <4>1 DEF Unstaged, Asked
      <4> QED
        BY <1>3, <3>1, <3>2, <4>2
    <3>3. CASE repo[r].head # None
      BY <1>3, <3>1, <3>3 DEF Sound
    <3> QED
      BY <3>2, <3>3
  <2> QED
    BY <1>2, <2>1, <2>2, <2>3 DEF HealInv, Working
<1> QED
  BY <1>4, <1>5, <1>6 DEF UpdateInv

LEMMA StartsUpdate ==
    Inv /\ TInv /\ UpdateInv /\ (StartClone \/ StartUpdate \/ StartInit \/ StartPull) => UpdateInv'
<1> SUFFICES ASSUME UpdateInv, StartClone \/ StartInit \/ StartPull PROVE UpdateInv'
  BY StartUpdateUpdate
<1>1. UNCHANGED <<repo, pushed>>
  BY DEF StartClone, StartInit, StartPull, Begin
<1>2. op'.repo = Top /\ op'.pc \in {"storer", "list", "fetch"} /\ ~Heals'
  <2>1. CASE StartClone
    BY <2>1 DEF StartClone, Begin, Idle, Heals
  <2>2. CASE StartInit
    BY <2>2 DEF StartInit, Begin, Idle, Heals
  <2>3. CASE StartPull
    BY <2>3 DEF StartPull, Begin, Idle, Heals
  <2> QED
    BY <2>1, <2>2, <2>3
<1> QED
  BY <1>1, <1>2, BeginUpdate

LEMMA InitStorerUpdate ==
    Inv /\ TInv /\ TopInv /\ UpdateInv /\ InitStorer => UpdateInv' /\ (Heals => op'.pc # "idle")
<1> SUFFICES ASSUME Inv, TInv, TopInv, UpdateInv, InitStorer
             PROVE  UpdateInv' /\ (Heals => op'.pc # "idle")
  OBVIOUS
<1>1. op.pc = "storer" /\ op.call = "clone" /\ repo' = repo
  BY DEF InitStorer, At, TopInv, StageInv
<1>2. op.repo = Top
  BY <1>1 DEF Inv, CallInv, CloneInv
<1>3. SameCall /\ op'.pc = "init"
  BY SameCallGoto DEF InitStorer
<1>4. EmptyInv' /\ DoneInv'
  BY <1>1, <1>3 DEF UpdateInv, EmptyInv, DoneInv
<1> QED
  BY <1>1, <1>2, <1>3, <1>4, TopStep

LEMMA SubmodulesDoneUpdate ==
    Inv /\ TInv /\ TopInv /\ UpdateInv /\ SubmodulesDone
        => UpdateInv' /\ (Heals => op'.pc # "idle")
<1> SUFFICES ASSUME Inv, TInv, TopInv, UpdateInv, SubmodulesDone
             PROVE  UpdateInv' /\ (Heals => op'.pc # "idle")
  OBVIOUS
<1>1. op.pc = "next" /\ op.todo = <<>> /\ UNCHANGED <<repo, refs, pushed>>
  BY DEF SubmodulesDone, At, Env, Steady
<1>2. PICK pc \in {"config", "end"} : Goto(pc) /\ (pc = "config" <=> op.call = "clone")
  BY DEF SubmodulesDone
<1>3. SameCall /\ op'.pc = pc
  BY <1>2, SameCallGoto
<1>4. EmptyInv' /\ SubInv'
  BY <1>1, <1>3 DEF UpdateInv, EmptyInv, SubInv, Nested, Working, Busy
<1>5. op.call # "init" => SubmodulesAt(Levels)
  <2> SUFFICES ASSUME op.call # "init" PROVE SubmodulesAt(Levels)
    OBVIOUS
  <2>1. PICK S \in SUBSET Repo : Settled(S)
    BY <1>1 DEF UpdateInv, SubInv, Nested
  <2>2. Open = {}
    BY <1>1 DEF Open, Waiting, WaitingIn, Working, Busy
  <2> QED
    BY <2>1, <2>2, SettledReaches
<1>6. SubmodulesAt(Levels) => SubmodulesAt(Levels)'
  BY <1>1, <1>3 DEF SubmodulesAt, Levels, SameCall, Wanted, Has, Listed, IsAt, Expected
<1>7. DoneInv'
  BY <1>2, <1>3, <1>5, <1>6 DEF DoneInv, SameCall
<1>8. HealInv'
  <2> SUFFICES ASSUME Heals PROVE HealInv'
    BY <1>3 DEF HealInv, Heals, SameCall
  <2>1. Published' /\ op'.o.init
    BY <1>1, <1>3 DEF UpdateInv, HealInv, Published, SameCall
  <2>2. \A x \in Listed(Top)' : Last(x) \in DOMAIN SubmodulesOf(repo'[Top].index)
    BY <1>1, SameInside DEF UpdateInv, HealInv
  <2>3. \A x \in Repo \ {Top} : repo'[x].head # None => repo'[x].origin
    BY <1>1 DEF UpdateInv, HealInv
  <2> QED
    BY <1>3, <2>1, <2>2, <2>3 DEF HealInv, Working, Busy
<1> QED
  BY <1>3, <1>4, <1>7, <1>8 DEF UpdateInv

LEMMA LastStepUpdate ==
    Inv /\ TInv /\ TopInv /\ UpdateInv /\ (CreateBranch \/ CleanUp \/ Return \/ StepFails \/ Die)
        => UpdateInv'
<1> SUFFICES ASSUME Inv, TInv, TopInv, UpdateInv,
                    CreateBranch \/ CleanUp \/ Return \/ StepFails \/ Die
             PROVE  UpdateInv'
  OBVIOUS
<1>1. EmptyInv'
  <2>1. CASE repo' = repo
    BY <2>1 DEF UpdateInv, EmptyInv
  <2>2. CASE repo' = [r \in Repo |-> NoRepo]
    <3>1. \A r \in Repo : repo'[r] = NoRepo
      BY <2>2
    <3> QED
      BY <3>1 DEF EmptyInv, NoRepo
  <2>3. CASE repo' = [repo EXCEPT ![Top].head = None]
    <3>1. Top \in Repo
      BY CloneAssumption
    <3>2. Others(Top)
      BY <2>3, <3>1, HeadWritten, Zenon
    <3> QED
      BY <3>2 DEF UpdateInv, EmptyInv, Others
  <2> QED
    BY <2>1, <2>2, <2>3 DEF CreateBranch, CleanUp, Return, Steady, StepFails, Die
<1>2. (\E result : Fail(result)) \/ op' = Idle
  BY DEF CreateBranch, CleanUp, Return, StepFails, Die, End
<1> QED
  BY <1>1, <1>2, UpdateFails, UpdateEnds

\* A repository that others push to.
LEMMA OthersUpdate ==
    Inv /\ TInv /\ TopInv /\ UpdateInv /\ (Publish \/ Push \/ UNCHANGED vars) => UpdateInv'
<1> SUFFICES ASSUME Inv, TInv, TopInv, UpdateInv, Publish \/ Push \/ UNCHANGED vars
             PROVE  UpdateInv'
  OBVIOUS
<1>1. UNCHANGED <<repo, refs, op>> /\ pushed \subseteq pushed'
  BY DEF Publish, Push, vars
<1>2. \A r : /\ Listed(r)' = Listed(r) /\ Inside(r)' = Inside(r) /\ Expected(r)' = Expected(r)
             /\ HeadCommit(r)' = HeadCommit(r) /\ Asked(r)' = Asked(r)
  BY <1>1 DEF Listed, Inside, Expected, HeadCommit, Asked
<1>3. Waiting' = Waiting /\ Working' = Working /\ Open' = Open /\ Levels' = Levels
      /\ Nested' = Nested /\ Heals' = Heals
  BY <1>1 DEF Waiting, Working, Open, Levels, Nested, Heals
<1>4. \A r : Unstaged(r)' <=> Unstaged(r)
  BY <1>1, <1>2 DEF Unstaged
<1>5. \A S \in SUBSET Repo : /\ Settled(S) => Settled(S)'
                             /\ Untouched(S) => Untouched(S)'
  BY <1>1, <1>2, <1>3, <1>4 DEF Settled, Untouched, IsAt
<1>6. SubInv'
  <2>1. Nested => \E S \in SUBSET Repo : Settled(S)' /\ (Heals => Untouched(S)')
    BY <1>5 DEF UpdateInv, SubInv
  <2>2. Working => Placed' /\ Progress'
    BY <1>1, <1>2, <1>3 DEF UpdateInv, SubInv, Placed, Progress
  <2>3. op.pc = "next" \/ Working => \A s \in Waiting : s \in Listed(Front(s))'
    BY <1>2 DEF UpdateInv, SubInv
  <2>4. Nested => Stacked(op'.todo, Levels)
    BY <1>1 DEF UpdateInv, SubInv
  <2> QED
    BY <1>1, <1>3, <2>1, <2>2, <2>3, <2>4 DEF SubInv
<1>7. DoneInv' /\ EmptyInv'
  BY <1>1, <1>2 DEF UpdateInv, DoneInv, EmptyInv, SubmodulesAt, Levels, Wanted, Has, IsAt
<1>8. HealInv'
  BY <1>1, <1>2, <1>3, <1>4 DEF UpdateInv, HealInv, Published
<1> QED
  BY <1>6, <1>7, <1>8 DEF UpdateInv

LEMMA InitUpdate == Init => UpdateInv
<1> SUFFICES ASSUME Init PROVE UpdateInv
  OBVIOUS
<1>1. op.pc = "idle" /\ op.call = "none" /\ \A r \in Repo : repo[r] = NoRepo
  BY DEF Init, Idle
<1>2. EmptyInv
  BY <1>1 DEF EmptyInv, NoRepo
<1> QED
  BY <1>1, <1>2 DEF UpdateInv, SubInv, DoneInv, HealInv, Nested, Working, Busy, Heals

\* The steps of the work on a repository.
WorkStep ==
    \/ InitStorer \/ InitHead \/ CreateRemote \/ Fetch \/ UpdateReferences \/ Decide
    \/ Checkout \/ CheckUnstaged \/ SetHeadCommit \/ ResetIndex \/ ResetFiles
    \/ ListSubmodules \/ NextSubmodule \/ SubmodulesDone

LEMMA WorkUpdate ==
    Inv /\ TInv /\ TopInv /\ UpdateInv /\ WorkStep => UpdateInv' /\ (Heals => op'.pc # "idle")
<1> SUFFICES ASSUME Inv, TInv, TopInv, UpdateInv, WorkStep
             PROVE  UpdateInv' /\ (Heals => op'.pc # "idle")
  OBVIOUS
<1>1. CASE InitStorer \/ InitHead \/ CreateRemote \/ Fetch \/ UpdateReferences \/ Decide
  BY <1>1, InitStorerUpdate, InitHeadUpdate, CreateRemoteUpdate, FetchUpdate,
     UpdateReferencesUpdate, DecideUpdate
<1>2. CASE Checkout \/ CheckUnstaged \/ SetHeadCommit \/ ResetIndex \/ ResetFiles
  BY <1>2, CheckoutUpdate, CheckUnstagedUpdate, SetHeadCommitUpdate, ResetIndexUpdate,
     ResetFilesUpdate
<1>3. CASE ListSubmodules \/ NextSubmodule \/ SubmodulesDone
  BY <1>3, ListSubmodulesUpdate, NextSubmoduleUpdate, SubmodulesDoneUpdate
<1> QED
  BY <1>1, <1>2, <1>3 DEF WorkStep

LEMMA NextUpdate == Inv /\ TInv /\ TopInv /\ UpdateInv /\ [Next]_vars => UpdateInv'
<1> SUFFICES ASSUME Inv, TInv, TopInv, UpdateInv, [Next]_vars PROVE UpdateInv'
  OBVIOUS
<1>1. CASE StartClone \/ StartUpdate \/ StartInit \/ StartPull
  BY <1>1, StartsUpdate
<1>2. CASE WorkStep
  BY <1>2, WorkUpdate
<1>3. CASE CreateBranch \/ CleanUp \/ Return \/ StepFails \/ Die
  BY <1>3, LastStepUpdate
<1>4. CASE Publish \/ Push \/ UNCHANGED vars
  BY <1>4, OthersUpdate
<1> QED
  BY <1>1, <1>2, <1>3, <1>4 DEF Next, Step, WorkStep

-----------------------------------------------------------------------------
(***************************************************************************)
(* What the calls report when they end.                                    *)
(***************************************************************************)
Results == CloneIsComplete /\ UpdateReaches /\ UpdateHeals

LEMMA StillGoing == op'.pc # "idle" => Results'
BY DEF Results, CloneIsComplete, UpdateReaches, UpdateHeals, Ended

\* Nothing is said of what a call that does not succeed leaves, but that an
\* update is not refused when nothing stands in its way.
LEMMA EndsWithout ==
    ASSUME NEW result, End(result), result # "ok", Heals => result # "refused"
    PROVE  Results'
<1>1. /\ last'.call = op.call /\ last'.sound = op.sound /\ last'.result = result
  BY EndResult
<1>2. CloneIsComplete' /\ UpdateReaches'
  BY <1>1 DEF CloneIsComplete, UpdateReaches, Ended
<1>3. UpdateHeals'
  BY <1>1 DEF UpdateHeals, Heals
<1> QED
  BY <1>2, <1>3 DEF Results

\* A step of the work ends the call only when it is refused, or a pull has
\* nothing to do.
LEMMA WorkStops ==
    Inv /\ WorkStep => op'.pc # "idle" \/ \E result \in {"refused", "upToDate"} : End(result)
<1> SUFFICES ASSUME Inv, WorkStep
             PROVE  op'.pc # "idle" \/ \E result \in {"refused", "upToDate"} : End(result)
  OBVIOUS
<1>1. \A pc : Goto(pc) => op'.pc = pc
  BY SameCallGoto
<1>2. Fail("refused") => op'.pc = "cleanup" \/ End("refused")
  BY FailEnds
<1>3. CASE InitStorer \/ InitHead \/ CreateRemote \/ UpdateReferences \/ Decide
  BY <1>1, <1>2, <1>3 DEF InitStorer, InitHead, CreateRemote, UpdateReferences, Decide
<1>4. CASE Fetch
  <2>1. CASE FetchTop
    <3>1. op' = [op EXCEPT !.pc = IF op.call = "clone" THEN "refs" ELSE "decide",
                           !.ref = Resolved(op.o.ref), !.hash = Resolved(op.o.ref).hash,
                           !.new = op'.new]
      BY <2>1 DEF FetchTop, Inv, Formed, FormedOp
    <3>2. op'.pc \in {"refs", "decide"}
      BY <3>1 DEF Inv, Formed, FormedOp
    <3> QED
      BY <3>2
  <2>2. CASE FetchSubmodule
    <3>1. op' = [op EXCEPT !.pc = "checkout"]
      BY <2>2 DEF FetchSubmodule
    <3> QED
      BY <3>1, GotoKeeps
  <2> QED
    BY <1>2, <1>4, <2>1, <2>2 DEF Fetch, FetchUnresolved
<1>5. CASE Checkout \/ CheckUnstaged \/ SetHeadCommit \/ ResetIndex \/ ResetFiles
  <2>1. NextPc # "idle"
    BY DEF NextPc
  <2> QED
    BY <1>1, <1>2, <1>5, <2>1 DEF Checkout, CheckUnstaged, SetHeadCommit, ResetIndex, ResetFiles
<1>6. CASE ListSubmodules \/ SubmodulesDone
  <2>1. CASE ListSubmodules
    BY <2>1 DEF ListSubmodules, Inv, Formed, FormedOp
  <2> QED
    BY <1>1, <1>6, <2>1 DEF SubmodulesDone
<1>7. CASE NextSubmodule
  <2>1. ASSUME NEW todo, op' = [op EXCEPT !.todo = todo] PROVE op'.pc = op.pc
    BY <2>1 DEF Inv, Formed, FormedOp
  <2>2. ASSUME NEW r, StartSubmodule(r), ~Fail("refused") PROVE op'.pc = RepositoryPc(r)
    <3>1. \E hash : op' = [op EXCEPT !.pc = RepositoryPc(r), !.repo = r, !.hash = hash,
                                     !.left = Head(op.todo).left, !.todo = Without(r)]
      BY <2>2 DEF StartSubmodule
    <3> QED
      BY <3>1 DEF Inv, Formed, FormedOp
  <2>3. \A r : RepositoryPc(r) # "idle"
    BY DEF RepositoryPc
  <2>4. op.pc # "idle"
    BY <1>7 DEF NextSubmodule, At
  <2> QED
    BY <1>2, <1>7, <2>1, <2>2, <2>3, <2>4 DEF NextSubmodule, Register
<1> QED
  BY <1>3, <1>4, <1>5, <1>6, <1>7 DEF WorkStep

LEMMA WorkResults == Inv /\ TInv /\ TopInv /\ UpdateInv /\ WorkStep => Results'
<1> SUFFICES ASSUME Inv, TInv, TopInv, UpdateInv, WorkStep, op'.pc = "idle" PROVE Results'
  BY StillGoing
<1>1. ~Heals
  BY WorkUpdate
<1>2. PICK result \in {"refused", "upToDate"} : End(result)
  BY WorkStops
<1> QED
  BY <1>1, <1>2, EndsWithout

\* The last step of a clone.
LEMMA CreateBranchResults == Inv /\ TInv /\ TopInv /\ UpdateInv /\ CreateBranch => Results'
<1> SUFFICES ASSUME Inv, TInv, TopInv, UpdateInv, CreateBranch PROVE Results'
  OBVIOUS
<1>1. op.pc = "config" /\ op.call = "clone" /\ repo' = repo
  BY DEF CreateBranch, At, TopInv, StageInv
<1>2. CASE Fail("refused")
  BY <1>1, <1>2, FailEnds, EndsWithout, StillGoing DEF Heals
<1>3. CASE End("ok") /\ refs' = [refs EXCEPT !.upstream = @ \cup ({op.ref.name} \cap Branch)]
  <2>1. /\ last'.call = "clone" /\ last'.o = op.o /\ last'.ref = op.ref
    BY <1>1, <1>3, EndResult
  <2>2. /\ refs'.branch = refs.branch /\ refs'.tracking = refs.tracking
        /\ refs'.upstream = refs.upstream \cup ({op.ref.name} \cap Branch)
    BY <1>3 DEF TInv, TypedRefs
  <2>3. \A stage \in {AfterInit, AfterFetch, AfterHead, AfterIndex, AfterFiles} : Reached(stage)
    BY <1>1 DEF Reached, AfterInit, AfterFetch, AfterHead, AfterIndex, AfterFiles
  <2>4. /\ Configured /\ Fetched /\ OnReference /\ HeadCommit(Top) = op.ref.hash
        /\ ~op.o.noCheckout => repo[Top].index = op.ref.hash /\ repo[Top].files = op.ref.hash
    BY <1>1, <2>3 DEF TopInv, CloneTop, PullTop
  <2>5. HeadCommit(Top)' = op.ref.hash
    BY <1>1, <2>2, <2>4 DEF HeadCommit
  <2>6. PICK levels : levels = op.o.recurse + 1
    OBVIOUS
  <2>7. ~op.o.noCheckout /\ op.o.recurse > 0 => SubmodulesAt(levels)'
    <3>1. ~op.o.noCheckout /\ op.o.recurse > 0 => SubmodulesAt(levels)
      BY <1>1, <2>6 DEF UpdateInv, DoneInv, Levels
    <3> QED
      BY <1>1, <3>1 DEF SubmodulesAt, Wanted, Has, Listed, IsAt, Expected
  <2>8. CloneIsComplete'
    <3>1. op.ref.name \in Branch =>
            /\ refs'.upstream = {op.ref.name}
            /\ (op.o.single /\ op.o.ref = "HEAD" /\ op.ref.name # Master)
                \/ refs'.tracking[op.ref.name] = op.ref.hash
      BY <2>2, <2>4 DEF Configured, Fetched, Elsewhere
    <3>2. /\ repo'[Top].head = IF op.ref.name \in Branch THEN op.ref.name ELSE op.ref.hash
          /\ op.ref.hash \in repo'[Top].objs /\ repo'[Top].origin
          /\ ~op.o.noCheckout => repo'[Top].index = op.ref.hash /\ repo'[Top].files = op.ref.hash
      BY <1>1, <2>4 DEF Configured, OnReference
    <3> QED
      BY <2>1, <2>5, <2>6, <2>7, <3>1, <3>2 DEF CloneIsComplete
  <2> QED
    BY <2>1, <2>8 DEF Results, UpdateReaches, UpdateHeals, Ended
<1> QED
  BY <1>2, <1>3 DEF CreateBranch

\* The last step of an update and of a pull.
LEMMA ReturnResults == Inv /\ TInv /\ TopInv /\ UpdateInv /\ Return => Results'
<1> SUFFICES ASSUME Inv, TInv, TopInv, UpdateInv, Return PROVE Results'
  OBVIOUS
<1>1. op.pc = "end" /\ op.call # "clone" /\ UNCHANGED <<repo, refs>>
  BY DEF Return, At, Steady, TopInv, StageInv
<1>2. /\ last'.call = op.call /\ last'.o = op.o /\ last'.ref = op.ref /\ last'.result = "ok"
  BY EndResult DEF Return
<1>3. PICK levels : levels = op.o.recurse + 1
  OBVIOUS
<1>4. op.call = "update" \/ (op.call = "pull" /\ op.o.recurse > 0) => SubmodulesAt(levels)'
  <2>1. op.call = "update" \/ (op.call = "pull" /\ op.o.recurse > 0) => SubmodulesAt(levels)
    BY <1>1, <1>3 DEF UpdateInv, DoneInv, Levels
  <2> QED
    BY <1>1, <2>1 DEF SubmodulesAt, Wanted, Has, Listed, IsAt, Expected
<1>5. op.call = "pull" => HeadCommit(Top)' = op.ref.hash /\ repo'[Top].files = op.ref.hash
  <2>1. Reached(AfterHead) /\ Reached(AfterFiles)
    BY <1>1 DEF Reached, AfterHead, AfterIndex, AfterFiles
  <2> QED
    BY <1>1, <2>1 DEF TopInv, PullTop, HeadCommit
<1>6. UpdateReaches'
  BY <1>2, <1>3, <1>4, <1>5 DEF UpdateReaches, Ended
<1> QED
  BY <1>1, <1>2, <1>6 DEF Results, CloneIsComplete, UpdateHeals, Ended

\* The cleanup, a fault and a death.
LEMMA MishapResults == Inv /\ (CleanUp \/ StepFails \/ Die) => Results'
<1> SUFFICES ASSUME Inv, CleanUp \/ StepFails \/ Die, op'.pc = "idle" PROVE Results'
  BY StillGoing
<1>1. CASE CleanUp
  <2>1. op.call = "clone" /\ op.result # "ok"
    BY <1>1 DEF CleanUp, At, Inv, CallInv, CloneInv, OtherInv
  <2> QED
    BY <1>1, <2>1, EndsWithout DEF CleanUp, Heals
<1>2. CASE StepFails
  <2>1. PICK result \in {"fault", "initFault"} : Fail(result)
    BY <1>2 DEF StepFails
  <2>2. End(result)
    BY <2>1, FailEnds
  <2> QED
    BY <2>2, EndsWithout
<1>3. CASE Die
  BY <1>3, EndsWithout DEF Die
<1> QED
  BY <1>1, <1>2, <1>3

\* Between the calls what the last one reported stays true.
LEMMA OthersResults == Results /\ (Publish \/ Push \/ UNCHANGED vars) => Results'
<1> SUFFICES ASSUME Results, Publish \/ Push \/ UNCHANGED vars PROVE Results'
  OBVIOUS
<1>1. UNCHANGED <<repo, refs, op, last>>
  BY DEF Publish, Push, vars
<1>2. HeadCommit(Top)' = HeadCommit(Top)
  BY <1>1 DEF HeadCommit
<1>3. \A levels : SubmodulesAt(levels) => SubmodulesAt(levels)'
  BY <1>1 DEF SubmodulesAt, Wanted, Has, Listed, IsAt, Expected
<1>4. CloneIsComplete'
  BY <1>1, <1>2, <1>3 DEF Results, CloneIsComplete, Ended
<1>5. UpdateReaches' /\ UpdateHeals'
  BY <1>1, <1>2, <1>3 DEF Results, UpdateReaches, UpdateHeals, Ended
<1> QED
  BY <1>4, <1>5 DEF Results

LEMMA NextResults == Inv /\ TInv /\ TopInv /\ UpdateInv /\ Results /\ [Next]_vars => Results'
<1> SUFFICES ASSUME Inv, TInv, TopInv, UpdateInv, Results, [Next]_vars PROVE Results'
  OBVIOUS
<1>1. CASE StartClone \/ StartUpdate \/ StartInit \/ StartPull
  <2>1. op'.pc # "idle"
    <3>1. CASE StartClone
      BY <3>1 DEF StartClone, Begin, Idle
    <3>2. CASE StartUpdate
      BY <3>2 DEF StartUpdate, Begin, Idle
    <3>3. CASE StartInit
      BY <3>3 DEF StartInit, Begin, Idle
    <3>4. CASE StartPull
      BY <3>4 DEF StartPull, Begin, Idle
    <3> QED
      BY <1>1, <3>1, <3>2, <3>3, <3>4
  <2> QED
    BY <2>1, StillGoing
<1>2. CASE WorkStep
  BY <1>2, WorkResults
<1>3. CASE CreateBranch \/ Return
  BY <1>3, CreateBranchResults, ReturnResults
<1>4. CASE CleanUp \/ StepFails \/ Die
  BY <1>4, MishapResults
<1>5. CASE Publish \/ Push \/ UNCHANGED vars
  BY <1>5, OthersResults
<1> QED
  BY <1>1, <1>2, <1>3, <1>4, <1>5 DEF Next, Step, WorkStep

LEMMA ResultsHold == Spec => []Results
<1>1. Init => Inv /\ TInv /\ TopInv /\ UpdateInv /\ Results
  <2>1. Init => Results
    BY DEF Init, Idle, Results, CloneIsComplete, UpdateReaches, UpdateHeals, Ended
  <2> QED
    BY <2>1, InitInv, InitTypes, InitTop, InitUpdate
<1>2. (Inv /\ TInv /\ TopInv /\ UpdateInv /\ Results) /\ [Next]_vars
        => (Inv /\ TInv /\ TopInv /\ UpdateInv /\ Results)'
  BY NextInv, NextTypes, NextTop, NextUpdate, NextResults
<1> QED
  BY <1>1, <1>2, PTL DEF Spec

\* A clone that reports success is complete: the reference that was asked for,
\* the configuration, the worktree, and the submodules as deep as was asked for
\* (Repository.clone, Submodules.UpdateContext).
THEOREM CloneIsCompleteThm == Spec => []CloneIsComplete
<1>1. Results => CloneIsComplete
  BY DEF Results
<1> QED
  BY <1>1, ResultsHold, PTL

\* An update and a pull that report success have every submodule that is wanted
\* at the commit its parent names (Submodules.UpdateContext, Submodule.update,
\* Worktree.PullContext).
THEOREM UpdateReachesThm == Spec => []UpdateReaches
<1>1. Results => UpdateReaches
  BY DEF Results
<1> QED
  BY <1>1, ResultsHold, PTL

\* An update with Init that nothing stands in the way of is not refused, whatever
\* failed or died before (Submodule.Repository, Submodule.fetchAndCheckout,
\* Worktree.Reset with containsUnstagedChanges).
THEOREM UpdateHealsThm == Spec => []UpdateHeals
<1>1. Results => UpdateHeals
  BY DEF Results
<1> QED
  BY <1>1, ResultsHold, PTL

=============================================================================
