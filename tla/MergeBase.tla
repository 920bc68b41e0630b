------------------------------ MODULE MergeBase ------------------------------
(***************************************************************************)
(* The search for the merge bases of two commits, getCommonParents in      *)
(* worktree_merge.go, over the PriorityQueue of worktree_priority_queue.go.*)
(*                                                                         *)
(* The queue holds each commit at most once (Push merges the flags of a    *)
(* commit that is already queued), so it is a function from commits to the *)
(* marks they carry; a commit that is not queued carries none.  Pop hands  *)
(* out a commit with the latest author date; commits with equal dates come *)
(* out in the order of the heap's layout, here in any order.               *)
(***************************************************************************)
EXTENDS Naturals, Sequences

CONSTANTS Commit,       \* the commits of the repository
          Histories     \* the commit graphs (with the two tips) to search

(***************************************************************************)
(* A history: the parents and the author date of every commit, and the     *)
(* two commits to merge.                                                   *)
(***************************************************************************)
History == [parents : [Commit -> SUBSET Commit],
            when    : [Commit -> Nat],
            ours    : Commit,
            theirs  : Commit]

ASSUME HistoriesAssumption == Histories \subseteq History

VARIABLES hist,    \* the history being searched; no step changes it
          queue,   \* prQ: the marks of every queued commit
          res,     \* the merge bases found so far, in the order found
          popped   \* history variable: the commits that left the queue

vars == <<hist, queue, res, popped>>

Parent1 == "parent1"
Parent2 == "parent2"
Stale   == "stale"
Result  == "result"

Mark == {Parent1, Parent2, Stale, Result}

TypeOK ==
    /\ hist \in Histories
    /\ queue \in [Commit -> SUBSET Mark]
    /\ res \in Seq(Commit)
    /\ popped \in SUBSET Commit

-----------------------------------------------------------------------------
Queued == {c \in Commit : queue[c] # {}}

\* interesting: some queued commit is not known to be below a merge base.
Interesting == \E c \in Queued : Stale \notin queue[c]

Done == ~Interesting

\* Less/After: no queued commit was authored later than c.
IsLatest(c) == \A d \in Queued : hist.when[d] <= hist.when[c]

\* heap.Push of every commit of ps with the marks ms on the queue q: a commit
\* that is queued already only gains the marks.
PushAll(q, ps, ms) == [c \in Commit |-> IF c \in ps THEN q[c] \cup ms ELSE q[c]]

\* heap.Pop
Remove(q, c) == [q EXCEPT ![c] = {}]

Init ==
    /\ hist \in Histories
    /\ queue = PushAll(PushAll([c \in Commit |-> {}], {hist.ours}, {Parent1}),
                       {hist.theirs}, {Parent2})
    /\ res = <<>>
    /\ popped = {}

\* Slips: the flags are passed on without markStale, or with a wrong bit.
PassedOnFresh(ms) == ms \cap {Parent1, Parent2, Stale}

PassedOnWrong(ms) ==
    LET flags == ms \cap {Parent1, Parent2, Stale}
    IN  IF flags = {Parent1, Parent2} THEN flags \cup {"stale1"} ELSE flags

\* The marks a commit passes on to its parents: a commit reached from both
\* sides makes everything below it stale.
PassedOn(ms) ==
    LET flags == ms \cap {Parent1, Parent2, Stale}
    IN  IF flags = {Parent1, Parent2} THEN flags \cup {Stale} ELSE flags

\* Slip: any of the two parent marks is enough.
IsNewEither(ms) ==
    /\ ms \cap {Parent1, Parent2} # {}
    /\ Result \notin ms

\* The commit that is popped becomes a result when both sides reach it and no
\* result was seen above it.  markResult is set on the popped element only, and
\* the element is dropped with it: the next push of the commit starts afresh.
IsNewBase(ms) ==
    /\ ms \cap {Parent1, Parent2, Stale} = {Parent1, Parent2}
    /\ Result \notin ms

\* Slip: the commit stays in the queue, although it is reported only once.
VisitPeeking(c) ==
    /\ Interesting
    /\ c \in Queued
    /\ IsLatest(c)
    /\ queue' = PushAll(queue, hist.parents[c], PassedOn(queue[c]))
    /\ res' = IF IsNewBase(queue[c]) /\ c \notin popped THEN Append(res, c) ELSE res
    /\ popped' = popped \cup {c}
    /\ UNCHANGED hist

\* One iteration of the loop of getCommonParents.
Visit(c) ==
    /\ Interesting
    /\ c \in Queued
    /\ IsLatest(c)
    /\ queue' = PushAll(Remove(queue, c), hist.parents[c], PassedOn(queue[c]))
    /\ res' = IF IsNewBase(queue[c]) THEN Append(res, c) ELSE res
    /\ popped' = popped \cup {c}
    /\ UNCHANGED hist

Next == \E c \in Commit : Visit(c)

Spec == Init /\ [][Next]_vars

FairSpec == Spec /\ WF_vars(Next)

-----------------------------------------------------------------------------
(***************************************************************************)
(* The reference definition of a merge base.  Closed sets contain the      *)
(* parents of their members; the ancestors of c (c is one) are the commits *)
(* that every closed set around c contains.                                *)
(***************************************************************************)
Closed(S) == \A c \in S : hist.parents[c] \subseteq S

Ancestors(c) ==
    {a \in Commit : \A S \in SUBSET Commit : c \in S /\ Closed(S) => a \in S}

Common == Ancestors(hist.ours) \cap Ancestors(hist.theirs)

\* The common ancestors that are not ancestors of another common ancestor.
MergeBases == {c \in Common : \A d \in Common : c \in Ancestors(d) => c = d}

\* Every commit was authored after its parents: what a linear workflow gives,
\* and a rebase, a cherry-pick or a skewed clock does not.
DatesFollowHistory ==
    \A c \in Commit : \A p \in hist.parents[c] : hist.when[p] < hist.when[c]

Found == {res[i] : i \in 1..Len(res)}

-----------------------------------------------------------------------------
(* Properties *)

\* Whatever the author dates, every commit that getCommonParents reports is an
\* ancestor of both sides: marks only travel from a commit to its parents.
ResultsAreCommon == Found \subseteq Common

\* When author dates follow the history, the loop may stop as soon as all that
\* is queued is stale: what it has found then is exactly the set of merge
\* bases, none missed and no ancestor of another base among them.
MergeBasesExact == Done /\ DatesFollowHistory => Found = MergeBases

\* When author dates follow the history no base is reported twice, so
\* createVirtualParent never merges a commit with itself.
BasesAreDistinct ==
    DatesFollowHistory =>
        \A i, j \in 1..Len(res) : res[i] = res[j] => i = j

\* The search ends: the stale marks catch up with every path of an acyclic
\* history, although a commit may be queued and visited again.
Terminates == <>[]Done

\* computeParent reports "No common parent" when the search comes back empty;
\* that message is right when the two sides share no commit.
NoBaseMeansUnrelated == Done /\ res = <<>> => Common = {}

=============================================================================
