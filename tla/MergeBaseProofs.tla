--------------------------- MODULE MergeBaseProofs ---------------------------
(***************************************************************************)
(* Proofs about the search for merge bases, for every set of commits and   *)
(* every history.                                                          *)
(***************************************************************************)
EXTENDS MergeBase, TLAPS

-----------------------------------------------------------------------------
(* Ancestors *)

\* A commit is its own ancestor, the ancestors of a commit are closed under
\* parents, and they are contained in every closed set around the commit.
LEMMA AncestorsFacts ==
    ASSUME NEW c \in Commit, hist \in History
    PROVE  /\ c \in Ancestors(c)
           /\ Ancestors(c) \subseteq Commit
           /\ Closed(Ancestors(c))
           /\ \A S \in SUBSET Commit :
                 c \in S /\ Closed(S) => Ancestors(c) \subseteq S
<1>1. c \in Ancestors(c)
  BY DEF Ancestors
<1>2. Ancestors(c) \subseteq Commit
  BY DEF Ancestors
<1>3. Closed(Ancestors(c))
  <2> SUFFICES ASSUME NEW x \in Ancestors(c), NEW p \in hist.parents[x]
               PROVE  p \in Ancestors(c)
    BY DEF Closed
  <2>1. x \in Commit /\ p \in Commit
    BY <1>2 DEF History
  <2>2. ASSUME NEW S \in SUBSET Commit, c \in S, Closed(S)
        PROVE  p \in S
    <3>1. x \in S
      BY <2>2 DEF Ancestors
    <3>2. QED
      BY <3>1, <2>2 DEF Closed
  <2>3. QED
    BY <2>1, <2>2 DEF Ancestors
<1>4. \A S \in SUBSET Commit : c \in S /\ Closed(S) => Ancestors(c) \subseteq S
  BY DEF Ancestors
<1>5. QED
  BY <1>1, <1>2, <1>3, <1>4

\* The ancestors of an ancestor are ancestors.
LEMMA AncestorsTransitive ==
    ASSUME NEW c \in Commit, hist \in History, NEW d \in Ancestors(c)
    PROVE  Ancestors(d) \subseteq Ancestors(c)
<1>1. d \in Commit /\ Ancestors(c) \in SUBSET Commit /\ Closed(Ancestors(c))
  BY AncestorsFacts
<1>2. QED
  BY <1>1, AncestorsFacts

\* When dates follow the history an ancestor is not younger, and a proper
\* ancestor is older.
LEMMA AncestorsAreOlder ==
    ASSUME NEW c \in Commit, hist \in History, DatesFollowHistory,
           NEW d \in Ancestors(c)
    PROVE  hist.when[d] <= hist.when[c]
<1> DEFINE S == {x \in Commit : hist.when[x] <= hist.when[c]}
<1>0. hist.when \in [Commit -> Nat] /\ hist.parents \in [Commit -> SUBSET Commit]
  BY DEF History
<1>1. c \in S
  BY <1>0
<1>2. ASSUME NEW x \in S, NEW p \in hist.parents[x]
      PROVE  p \in S
  <2>1. p \in Commit /\ x \in Commit
    BY <1>0
  <2>2. hist.when[p] < hist.when[x]
    BY <2>1 DEF DatesFollowHistory
  <2>3. QED
    BY <2>1, <2>2, <1>0
<1>3. Closed(S)
  BY <1>2 DEF Closed
<1>4. Ancestors(c) \subseteq S
  BY <1>1, <1>3, AncestorsFacts
<1>5. QED
  BY <1>4

\* A proper ancestor of c is a parent of some ancestor of c.
LEMMA ProperAncestorHasChild ==
    ASSUME NEW c \in Commit, hist \in History, NEW d \in Ancestors(c), d # c
    PROVE  \E e \in Ancestors(c) : d \in hist.parents[e]
<1> SUFFICES ASSUME \A e \in Ancestors(c) : d \notin hist.parents[e]
             PROVE  FALSE
  OBVIOUS
<1> DEFINE S == Ancestors(c) \ {d}
<1>1. c \in S /\ S \in SUBSET Commit
  BY AncestorsFacts
<1>2. Closed(S)
  <2> HIDE DEF S
  <2> SUFFICES ASSUME NEW x \in S PROVE hist.parents[x] \subseteq S
    BY DEF Closed
  <2>1. x \in Ancestors(c) /\ d \notin hist.parents[x]
    BY DEF S
  <2>2. hist.parents[x] \subseteq Ancestors(c)
    BY <2>1, AncestorsFacts DEF Closed
  <2>3. QED
    BY <2>1, <2>2 DEF S
<1>3. Ancestors(c) \subseteq S
  BY <1>1, <1>2, AncestorsFacts
<1>4. QED
  BY <1>3

-----------------------------------------------------------------------------
(* Type correctness, and what the marks mean whatever the dates. *)

\* The marks of a queued commit tell the truth, and nothing but common
\* ancestors is ever reported: inductive together with TypeOK.
MarksTellTruth ==
    /\ \A c \in Commit : Parent1 \in queue[c] => c \in Ancestors(hist.ours)
    /\ \A c \in Commit : Parent2 \in queue[c] => c \in Ancestors(hist.theirs)
    /\ ResultsAreCommon

LEMMA HistIsHistory == ASSUME TypeOK PROVE hist \in History
BY HistoriesAssumption DEF TypeOK

LEMMA InitType == Init => TypeOK
<1> SUFFICES ASSUME Init PROVE TypeOK
  OBVIOUS
<1>1. hist \in History
  BY HistoriesAssumption DEF Init
<1>2. queue \in [Commit -> SUBSET Mark]
  BY <1>1 DEF Init, PushAll, Mark, Parent1, Parent2, History
<1>3. hist \in Histories /\ res \in Seq(Commit) /\ popped \in SUBSET Commit
  BY DEF Init
<1>4. QED
  BY <1>2, <1>3 DEF TypeOK

LEMMA NextType == TypeOK /\ [Next]_vars => TypeOK'
<1> SUFFICES ASSUME TypeOK, [Next]_vars PROVE TypeOK'
  OBVIOUS
<1>1. ASSUME NEW c \in Commit, Visit(c) PROVE TypeOK'
  <2>1. queue' \in [Commit -> SUBSET Mark]
    BY <1>1 DEF TypeOK, Visit, PushAll, Remove, PassedOn, Mark,
                Parent1, Parent2, Stale
  <2>2. res' \in Seq(Commit)
    BY <1>1 DEF TypeOK, Visit
  <2>3. QED
    BY <1>1, <2>1, <2>2 DEF TypeOK, Visit
<1>2. CASE UNCHANGED vars
  BY <1>2 DEF TypeOK, vars
<1>3. QED
  BY <1>1, <1>2 DEF Next

\* getCommonParents keeps its state well typed on every history.
THEOREM TypeCorrect == Spec => []TypeOK
BY InitType, NextType, PTL DEF Spec

-----------------------------------------------------------------------------
(* What one visit does to the marks and to the result. *)

LEMMA AncestorsRigid ==
    ASSUME hist' = hist
    PROVE  /\ \A c : Ancestors(c)' = Ancestors(c)
           /\ Common' = Common
           /\ MergeBases' = MergeBases
           /\ DatesFollowHistory' = DatesFollowHistory
BY DEF Ancestors, Closed, Common, MergeBases, DatesFollowHistory

LEMMA VisitMarks ==
    ASSUME TypeOK, NEW c \in Commit, Visit(c), NEW x \in Commit, NEW m \in Mark
    PROVE  m \in queue'[x] <=> \/ x # c /\ m \in queue[x]
                               \/ x \in hist.parents[c] /\ m \in PassedOn(queue[c])
<1>1. queue' = PushAll(Remove(queue, c), hist.parents[c], PassedOn(queue[c]))
  BY DEF Visit
<1>2. queue'[x] = IF x \in hist.parents[c]
                  THEN Remove(queue, c)[x] \cup PassedOn(queue[c])
                  ELSE Remove(queue, c)[x]
  BY <1>1 DEF PushAll
<1>3. Remove(queue, c)[x] = IF x = c THEN {} ELSE queue[x]
  BY DEF Remove, TypeOK
<1>4. QED
  BY <1>2, <1>3

LEMMA VisitFound ==
    ASSUME TypeOK, NEW c \in Commit, Visit(c)
    PROVE  Found' = IF IsNewBase(queue[c]) THEN Found \cup {c} ELSE Found
<1>1. CASE IsNewBase(queue[c])
  <2>1. res' = Append(res, c) /\ res \in Seq(Commit)
    BY <1>1 DEF Visit, TypeOK
  <2>2. Len(res') = Len(res) + 1 /\ Len(res) \in Nat
    BY <2>1
  <2>3. \A i \in 1..Len(res) : res'[i] = res[i]
    BY <2>1
  <2>4. res'[Len(res')] = c
    BY <2>1, <2>2
  <2>5. 1..Len(res') = (1..Len(res)) \cup {Len(res')}
    BY <2>2
  <2>6. Found' = {res'[i] : i \in 1..Len(res')}
    BY DEF Found
  <2>7. QED
    BY <1>1, <2>3, <2>4, <2>5, <2>6 DEF Found
<1>2. CASE ~IsNewBase(queue[c])
  BY <1>2 DEF Visit, Found
<1>3. QED
  BY <1>1, <1>2

LEMMA InitMarks == Init => MarksTellTruth
<1> SUFFICES ASSUME Init PROVE MarksTellTruth
  OBVIOUS
<1>1. hist \in History
  BY HistoriesAssumption DEF Init
<1>2. hist.ours \in Commit /\ hist.theirs \in Commit
  BY <1>1 DEF History
<1>3. \A c \in Commit : /\ Parent1 \in queue[c] => c = hist.ours
                        /\ Parent2 \in queue[c] => c = hist.theirs
  BY <1>2 DEF Init, PushAll, Parent1, Parent2
<1>4. Found = {}
  BY DEF Init, Found
<1>5. QED
  BY <1>1, <1>2, <1>3, <1>4, AncestorsFacts DEF MarksTellTruth, ResultsAreCommon

LEMMA NextMarks == TypeOK /\ MarksTellTruth /\ [Next]_vars => MarksTellTruth'
<1> SUFFICES ASSUME TypeOK, MarksTellTruth, [Next]_vars PROVE MarksTellTruth'
  OBVIOUS
<1>0. hist \in History
  BY HistIsHistory
<1>h. hist.ours \in Commit /\ hist.theirs \in Commit
  BY <1>0 DEF History
<1>1. ASSUME NEW c \in Commit, Visit(c) PROVE MarksTellTruth'
  <2>1. hist' = hist
    BY <1>1 DEF Visit
  <2>2. ASSUME NEW x \in Commit, NEW m \in {Parent1, Parent2}, NEW t \in Commit,
               \A y \in Commit : m \in queue[y] => y \in Ancestors(t),
               m \in queue'[x]
        PROVE  x \in Ancestors(t)
    <3>1. m \in Mark
      BY DEF Mark
    <3>2. CASE m \in queue[x]
      BY <2>2, <3>2
    <3>3. CASE x \in hist.parents[c] /\ m \in PassedOn(queue[c])
      <4>1. m \in queue[c]
        BY <3>3 DEF PassedOn, Parent1, Parent2, Stale
      <4>2. c \in Ancestors(t)
        BY <4>1, <2>2
      <4>3. QED
        BY <4>2, <3>3, <1>0, AncestorsFacts DEF Closed
    <3>4. QED
      BY <2>2, <3>1, <3>2, <3>3, <1>1, VisitMarks
  <2>3. \A x \in Commit : Parent1 \in queue'[x] => x \in Ancestors(hist.ours)
    BY <2>2, <1>h DEF MarksTellTruth
  <2>4. \A x \in Commit : Parent2 \in queue'[x] => x \in Ancestors(hist.theirs)
    BY <2>2, <1>h DEF MarksTellTruth
  <2>5. IsNewBase(queue[c]) => c \in Common
    BY DEF IsNewBase, MarksTellTruth, Common
  <2>6. Found' \subseteq Common
    BY <1>1, <2>5, VisitFound DEF MarksTellTruth, ResultsAreCommon
  <2>7. QED
    BY <2>1, <2>3, <2>4, <2>6, AncestorsRigid DEF MarksTellTruth, ResultsAreCommon
<1>2. CASE UNCHANGED vars
  <2>1. hist' = hist /\ queue' = queue /\ Found' = Found
    BY <1>2 DEF vars, Found
  <2>2. QED
    BY <2>1, AncestorsRigid DEF MarksTellTruth, ResultsAreCommon
<1>3. QED
  BY <1>1, <1>2 DEF Next

\* Every merge base that getCommonParents reports is an ancestor of both
\* sides, for every commit graph and every assignment of author dates.
THEOREM ResultsAreCommonThm == Spec => []ResultsAreCommon
<1>1. Init => TypeOK /\ MarksTellTruth
  BY InitType, InitMarks
<1>2. TypeOK /\ MarksTellTruth /\ [Next]_vars => (TypeOK /\ MarksTellTruth)'
  BY NextType, NextMarks
<1>3. MarksTellTruth => ResultsAreCommon
  BY DEF MarksTellTruth
<1>4. QED
  BY <1>1, <1>2, <1>3, PTL DEF Spec

-----------------------------------------------------------------------------
(* Exactness, when author dates follow the history. *)

A1 == Ancestors(hist.ours)
A2 == Ancestors(hist.theirs)

\* Some commit of S has x among its parents.
ChildIn(x, S) == \E d \in S : x \in hist.parents[d]

(***************************************************************************)
(* The loop invariant.  Visits go from later to earlier commits, so a      *)
(* commit is queued only while it waits for its first and only visit;      *)
(* everything still to be visited is below the queue; and the marks of a   *)
(* queued commit are those its visited children account for.               *)
(***************************************************************************)
Ordered ==
    /\ \A p \in popped, q \in Queued : hist.when[q] <= hist.when[p]
    /\ popped \cap Queued = {}

Covered ==
    /\ {hist.ours, hist.theirs} \subseteq popped \cup Queued
    /\ \A d \in popped : hist.parents[d] \subseteq popped \cup Queued

Accounted ==
    \A x \in Queued :
        /\ Parent1 \in queue[x] <=> x = hist.ours \/ ChildIn(x, popped \cap A1)
        /\ Parent2 \in queue[x] <=> x = hist.theirs \/ ChildIn(x, popped \cap A2)
        /\ Stale \in queue[x] <=> ChildIn(x, popped \cap Common)
        /\ Result \notin queue[x]

Reported ==
    /\ Found = popped \cap MergeBases
    /\ \A i, j \in 1..Len(res) : res[i] = res[j] => i = j

DatedInv == DatesFollowHistory => Ordered /\ Covered /\ Accounted /\ Reported

\* A common ancestor is a merge base exactly when no common ancestor is its
\* child.
LEMMA MergeBaseByChildren ==
    ASSUME hist \in History, DatesFollowHistory, NEW c \in Common
    PROVE  c \in MergeBases <=> ~ChildIn(c, Common)
<1>h. hist.ours \in Commit /\ hist.theirs \in Commit
  BY DEF History
<1>c. Common \subseteq Commit
  BY <1>h, AncestorsFacts DEF Common
<1>1. ASSUME NEW e \in Common, c \in hist.parents[e] PROVE c \notin MergeBases
  <2>1. c \in Ancestors(e)
    BY <1>1, <1>c, AncestorsFacts DEF Closed
  <2>2. hist.when[c] < hist.when[e]
    BY <1>1, <1>c DEF DatesFollowHistory
  <2>3. c # e
    BY <2>2, <1>c DEF History
  <2>4. QED
    BY <2>1, <2>3 DEF MergeBases
<1>2. ASSUME NEW d \in Common, c \in Ancestors(d), c # d PROVE ChildIn(c, Common)
  <2>1. PICK e \in Ancestors(d) : c \in hist.parents[e]
    BY <1>2, <1>c, ProperAncestorHasChild
  <2>2. e \in Common
    BY <1>h, <1>c, AncestorsTransitive DEF Common
  <2>3. QED
    BY <2>1, <2>2 DEF ChildIn
<1>3. QED
  BY <1>1, <1>2 DEF MergeBases, ChildIn

\* What is above the queue has been visited: an ancestor of one side that was
\* not popped is an ancestor of a queued commit.
LEMMA BelowTheQueue ==
    ASSUME TypeOK, Covered, NEW t \in {hist.ours, hist.theirs},
           NEW x \in Ancestors(t), x \notin popped
    PROVE  \E q \in Queued : x \in Ancestors(q)
<1>0. hist \in History /\ t \in Commit
  BY HistIsHistory DEF History
<1> DEFINE B == {y \in Commit : \E q \in Queued : y \in Ancestors(q)}
<1> DEFINE S == popped \cup B
<1>1. Queued \subseteq Commit /\ Queued \subseteq B
  BY <1>0, AncestorsFacts DEF Queued
<1>2. S \in SUBSET Commit /\ t \in S
  BY <1>1 DEF TypeOK, Covered
<1>3. ASSUME NEW y \in S PROVE hist.parents[y] \subseteq S
  <2>1. CASE y \in popped
    BY <2>1, <1>1 DEF Covered
  <2>2. CASE y \in B
    <3>1. PICK q \in Queued : y \in Ancestors(q)
      BY <2>2
    <3>2. hist.parents[y] \subseteq Ancestors(q) /\ Ancestors(q) \subseteq Commit
      BY <3>1, <1>0, <1>1, AncestorsFacts DEF Closed
    <3>3. QED
      BY <3>2
  <2>3. QED
    BY <1>3, <2>1, <2>2
<1>4. Closed(S)
  BY <1>3 DEF Closed
<1>5. Ancestors(t) \subseteq S
  BY <1>0, <1>2, <1>4, AncestorsFacts
<1>6. QED
  BY <1>5

\* When a commit is visited, its children on either side have been visited.
LEMMA ChildrenFirst ==
    ASSUME TypeOK, DatesFollowHistory, Covered, NEW c \in Commit, Visit(c),
           NEW t \in {hist.ours, hist.theirs},
           NEW e \in Ancestors(t), c \in hist.parents[e]
    PROVE  e \in popped
<1> SUFFICES ASSUME e \notin popped PROVE FALSE
  OBVIOUS
<1>0. hist \in History /\ t \in Commit
  BY HistIsHistory DEF History
<1>1. e \in Commit
  BY <1>0, AncestorsFacts
<1>2. PICK q \in Queued : e \in Ancestors(q)
  BY BelowTheQueue
<1>3. q \in Commit
  BY DEF Queued
<1>4. hist.when[e] <= hist.when[q]
  BY <1>0, <1>2, <1>3, AncestorsAreOlder
<1>5. hist.when[q] <= hist.when[c]
  BY DEF Visit, IsLatest
<1>6. hist.when[c] < hist.when[e]
  BY <1>1 DEF DatesFollowHistory
<1>7. hist.when \in [Commit -> Nat]
  BY <1>0 DEF History
<1>8. QED
  BY <1>1, <1>3, <1>4, <1>5, <1>6, <1>7

\* So the marks of the visited commit say exactly which sides reach it, and
\* whether it is below a merge base.
LEMMA VisitedMarks ==
    ASSUME TypeOK, MarksTellTruth, DatesFollowHistory, Covered, Accounted,
           NEW c \in Commit, Visit(c)
    PROVE  /\ Parent1 \in queue[c] <=> c \in A1
           /\ Parent2 \in queue[c] <=> c \in A2
           /\ Stale \in queue[c] => c \in Common
           /\ Stale \in PassedOn(queue[c]) <=> c \in Common
           /\ IsNewBase(queue[c]) <=> c \in MergeBases
           /\ PassedOn(queue[c]) # {}
           /\ Result \notin PassedOn(queue[c])
<1>0. hist \in History /\ hist.ours \in Commit /\ hist.theirs \in Commit
  BY HistIsHistory DEF History
<1>q. c \in Queued /\ queue[c] # {} /\ queue[c] \subseteq Mark
  BY DEF Visit, Queued, TypeOK
<1>1. ASSUME c \in A1 PROVE Parent1 \in queue[c]
  <2>1. CASE c = hist.ours
    BY <2>1, <1>q DEF Accounted
  <2>2. CASE c # hist.ours
    <3>1. PICK e \in A1 : c \in hist.parents[e]
      BY <1>0, <1>1, <2>2, ProperAncestorHasChild DEF A1
    <3>2. e \in popped
      BY <3>1, ChildrenFirst DEF A1
    <3>3. QED
      BY <3>1, <3>2, <1>q DEF Accounted, ChildIn
  <2>3. QED
    BY <2>1, <2>2
<1>2. ASSUME c \in A2 PROVE Parent2 \in queue[c]
  <2>1. CASE c = hist.theirs
    BY <2>1, <1>q DEF Accounted
  <2>2. CASE c # hist.theirs
    <3>1. PICK e \in A2 : c \in hist.parents[e]
      BY <1>0, <1>2, <2>2, ProperAncestorHasChild DEF A2
    <3>2. e \in popped
      BY <3>1, ChildrenFirst DEF A2
    <3>3. QED
      BY <3>1, <3>2, <1>q DEF Accounted, ChildIn
  <2>3. QED
    BY <2>1, <2>2
<1>3. /\ Parent1 \in queue[c] <=> c \in A1
      /\ Parent2 \in queue[c] <=> c \in A2
  BY <1>1, <1>2 DEF MarksTellTruth, A1, A2
<1>4. Stale \in queue[c] <=> ChildIn(c, Common)
  <2>1. ASSUME NEW e \in Common, c \in hist.parents[e] PROVE e \in popped
    BY <2>1, ChildrenFirst DEF Common
  <2>2. QED
    BY <2>1, <1>q DEF Accounted, ChildIn
<1>5. Stale \in queue[c] => c \in Common
  <2>1. ASSUME NEW e \in Common, c \in hist.parents[e] PROVE c \in Common
    BY <2>1, <1>0, AncestorsFacts DEF Common, Closed
  <2>2. QED
    BY <1>4, <2>1 DEF ChildIn
<1>6. c \in Common <=> Parent1 \in queue[c] /\ Parent2 \in queue[c]
  BY <1>3 DEF Common, A1, A2
<1>7. Result \notin queue[c]
  BY <1>q DEF Accounted
<1>8. queue[c] \cap {Parent1, Parent2, Stale} = queue[c]
  BY <1>q, <1>7 DEF Mark
<1>9. Stale \in PassedOn(queue[c]) <=> c \in Common
  BY <1>5, <1>6, <1>8, <1>q DEF PassedOn, Parent1, Parent2, Stale, Mark
<1>10. IsNewBase(queue[c]) <=> c \in Common /\ Stale \notin queue[c]
  BY <1>6, <1>7, <1>8, <1>q DEF IsNewBase, Parent1, Parent2, Stale, Mark
<1>11. IsNewBase(queue[c]) <=> c \in MergeBases
  <2>1. c \in MergeBases => c \in Common
    BY DEF MergeBases
  <2>2. QED
    BY <1>0, <1>4, <1>10, <2>1, MergeBaseByChildren
<1>12. PassedOn(queue[c]) # {} /\ Result \notin PassedOn(queue[c])
  BY <1>7, <1>8, <1>q DEF PassedOn, Parent1, Parent2, Stale, Result
<1>13. QED
  BY <1>3, <1>5, <1>9, <1>11, <1>12

\* The commits queued after a visit: those queued before, without the visited
\* one, and its parents, which are older than all that was visited.
LEMMA VisitQueued ==
    ASSUME TypeOK, MarksTellTruth, DatesFollowHistory,
           Ordered, Covered, Accounted, NEW c \in Commit, Visit(c)
    PROVE  /\ Queued' = (Queued \ {c}) \cup hist.parents[c]
           /\ hist.parents[c] \cap (popped \cup {c}) = {}
           /\ c \in Queued /\ c \notin popped
<1>0. hist \in History
  BY HistIsHistory
<1>h. hist.parents[c] \subseteq Commit /\ hist.when \in [Commit -> Nat]
  BY <1>0 DEF History
<1>1. c \in Queued /\ c \notin popped
  BY DEF Visit, Ordered
<1>2. PassedOn(queue[c]) # {} /\ PassedOn(queue[c]) \subseteq Mark
  BY VisitedMarks DEF PassedOn, Mark
<1>3. queue' \in [Commit -> SUBSET Mark] /\ queue \in [Commit -> SUBSET Mark]
  BY NextType DEF Next, TypeOK
<1>4. ASSUME NEW x \in Commit
      PROVE  queue'[x] # {} <=> \/ x # c /\ queue[x] # {}
                               \/ x \in hist.parents[c]
  BY <1>2, <1>3, VisitMarks
<1>5. Queued' = {x \in Commit : queue'[x] # {}}
  BY DEF Queued
<1>6. Queued' = (Queued \ {c}) \cup hist.parents[c]
  BY <1>4, <1>5, <1>h DEF Queued
<1>7. ASSUME NEW p \in hist.parents[c] PROVE p \notin popped \cup {c}
  <2>1. p \in Commit /\ hist.when[p] < hist.when[c]
    BY <1>h DEF DatesFollowHistory
  <2>2. ASSUME p \in popped PROVE FALSE
    BY <2>1, <2>2, <1>1, <1>h DEF Ordered
  <2>3. QED
    BY <2>1, <2>2, <1>h
<1>8. QED
  BY <1>1, <1>6, <1>7

LEMMA InitDated == Init => DatedInv
<1> SUFFICES ASSUME Init, DatesFollowHistory
             PROVE  Ordered /\ Covered /\ Accounted /\ Reported
  BY DEF DatedInv
<1>0. hist \in History /\ hist.ours \in Commit /\ hist.theirs \in Commit
  BY HistoriesAssumption DEF Init, History
<1>1. popped = {} /\ res = <<>>
  BY DEF Init
<1>2. \A x \in Commit :
         queue[x] = (IF x = hist.ours THEN {Parent1} ELSE {}) \cup
                    (IF x = hist.theirs THEN {Parent2} ELSE {})
  BY <1>0 DEF Init, PushAll
<1>3. Queued = {hist.ours, hist.theirs}
  BY <1>0, <1>2 DEF Queued
<1>4. Ordered /\ Covered
  BY <1>1, <1>3 DEF Ordered, Covered
<1>5. Accounted
  <2>1. \A x, S : ~ChildIn(x, popped \cap S)
    BY <1>1 DEF ChildIn
  <2>2. \A x \in Queued : /\ Parent1 \in queue[x] <=> x = hist.ours
                          /\ Parent2 \in queue[x] <=> x = hist.theirs
                          /\ Stale \notin queue[x] /\ Result \notin queue[x]
    <3> SUFFICES ASSUME NEW x \in Queued
                 PROVE  /\ Parent1 \in queue[x] <=> x = hist.ours
                        /\ Parent2 \in queue[x] <=> x = hist.theirs
                        /\ Stale \notin queue[x] /\ Result \notin queue[x]
      OBVIOUS
    <3>1. \A m : m \in queue[x] <=> \/ x = hist.ours /\ m = Parent1
                                    \/ x = hist.theirs /\ m = Parent2
      BY <1>2 DEF Queued
    <3>2. QED
      BY <3>1 DEF Parent1, Parent2, Stale, Result
  <2>3. QED
    BY <2>1, <2>2 DEF Accounted
<1>6. Reported
  BY <1>1 DEF Reported, Found
<1>7. QED
  BY <1>4, <1>5, <1>6

LEMMA NextDated == TypeOK /\ MarksTellTruth /\ DatedInv /\ [Next]_vars => DatedInv'
<1> SUFFICES ASSUME TypeOK, MarksTellTruth, DatedInv, [Next]_vars,
                    DatesFollowHistory'
             PROVE  (Ordered /\ Covered /\ Accounted /\ Reported)'
  BY DEF DatedInv
<1>r. hist' = hist
  BY DEF Next, Visit, vars
<1>d. DatesFollowHistory /\ Ordered /\ Covered /\ Accounted /\ Reported
  BY <1>r, AncestorsRigid DEF DatedInv
<1>a. A1' = A1 /\ A2' = A2 /\ Common' = Common /\ MergeBases' = MergeBases
  BY <1>r, AncestorsRigid DEF A1, A2, Ancestors, Closed
<1>0. /\ hist \in History /\ hist.when \in [Commit -> Nat]
      /\ hist.parents \in [Commit -> SUBSET Commit]
  BY HistIsHistory DEF History
<1>1. ASSUME NEW c \in Commit, Visit(c)
      PROVE  (Ordered /\ Covered /\ Accounted /\ Reported)'
  <2>1. /\ Queued' = (Queued \ {c}) \cup hist.parents[c]
        /\ hist.parents[c] \cap (popped \cup {c}) = {}
        /\ c \in Queued /\ c \notin popped
    BY <1>1, <1>d, VisitQueued
  <2>2. popped' = popped \cup {c}
    BY <1>1 DEF Visit
  <2>3. Ordered'
    <3>1. ASSUME NEW p \in popped', NEW q \in Queued'
          PROVE  hist.when[q] <= hist.when[p]
      <4>1. p \in Commit /\ q \in Commit
        BY <2>1, <2>2, <1>0 DEF TypeOK, Queued
      <4>2. hist.when[q] <= hist.when[c]
        <5>1. CASE q \in Queued
          BY <5>1, <1>1 DEF Visit, IsLatest
        <5>2. CASE q \in hist.parents[c]
          BY <5>2, <4>1, <1>d, <1>0 DEF DatesFollowHistory
        <5>3. QED
          BY <5>1, <5>2, <2>1
      <4>3. hist.when[c] <= hist.when[p]
        <5>1. CASE p \in popped
          BY <5>1, <2>1, <1>d DEF Ordered
        <5>2. CASE p = c
          BY <5>2, <1>0
        <5>3. QED
          BY <5>1, <5>2, <2>2
      <4>4. QED
        BY <4>1, <4>2, <4>3, <1>0
    <3>2. popped' \cap Queued' = {}
      BY <2>1, <2>2, <1>d DEF Ordered
    <3>3. QED
      BY <3>1, <3>2, <1>r DEF Ordered
  <2>4. Covered'
    <3>1. popped \cup Queued \subseteq popped' \cup Queued'
      BY <2>1, <2>2
    <3>2. \A d \in popped' : hist.parents[d] \subseteq popped' \cup Queued'
      BY <3>1, <2>1, <2>2, <1>d DEF Covered
    <3>3. {hist.ours, hist.theirs} \subseteq popped' \cup Queued'
      BY <3>1, <1>d DEF Covered
    <3>4. QED
      BY <3>2, <3>3, <1>r DEF Covered
  <2>5. Accounted'
    <3> SUFFICES ASSUME NEW x \in Queued'
                 PROVE  /\ Parent1 \in queue'[x] <=> x = hist.ours \/ ChildIn(x, popped' \cap A1)
                        /\ Parent2 \in queue'[x] <=> x = hist.theirs \/ ChildIn(x, popped' \cap A2)
                        /\ Stale \in queue'[x] <=> ChildIn(x, popped' \cap Common)
                        /\ Result \notin queue'[x]
      BY <1>r, <1>a DEF Accounted, ChildIn
    <3>1. x \in Commit /\ x # c
      BY <2>1, <1>0 DEF Queued
    <3>2. \A m \in Mark : m \in queue'[x] <=>
             m \in queue[x] \/ (x \in hist.parents[c] /\ m \in PassedOn(queue[c]))
      BY <3>1, <1>1, VisitMarks
    <3>3. \A S : ChildIn(x, popped' \cap S) <=>
             ChildIn(x, popped \cap S) \/ (x \in hist.parents[c] /\ c \in S)
      BY <2>2 DEF ChildIn
    <3>4. /\ Parent1 \in queue[x] <=> x = hist.ours \/ ChildIn(x, popped \cap A1)
          /\ Parent2 \in queue[x] <=> x = hist.theirs \/ ChildIn(x, popped \cap A2)
          /\ Stale \in queue[x] <=> ChildIn(x, popped \cap Common)
          /\ Result \notin queue[x]
      <4>1. CASE x \in Queued
        BY <4>1, <1>d DEF Accounted
      <4>2. CASE x \notin Queued
        <5>1. queue[x] = {}
          BY <4>2, <3>1 DEF Queued
        <5>2. x \notin popped
          BY <2>1, <4>2
        <5>3. x # hist.ours /\ x # hist.theirs /\ \A S : ~ChildIn(x, popped \cap S)
          BY <4>2, <5>2, <1>d DEF Covered, ChildIn
        <5>4. QED
          BY <5>1, <5>3
      <4>3. QED
        BY <4>1, <4>2
    <3>5. /\ Parent1 \in PassedOn(queue[c]) <=> c \in A1
          /\ Parent2 \in PassedOn(queue[c]) <=> c \in A2
          /\ Stale \in PassedOn(queue[c]) <=> c \in Common
          /\ Result \notin PassedOn(queue[c])
      <4>1. /\ Parent1 \in queue[c] <=> c \in A1
            /\ Parent2 \in queue[c] <=> c \in A2
            /\ Stale \in PassedOn(queue[c]) <=> c \in Common
            /\ Result \notin PassedOn(queue[c])
        BY <1>1, <1>d, VisitedMarks
      <4>2. /\ Parent1 \in PassedOn(queue[c]) <=> Parent1 \in queue[c]
            /\ Parent2 \in PassedOn(queue[c]) <=> Parent2 \in queue[c]
        BY DEF PassedOn, Parent1, Parent2, Stale
      <4>3. QED
        BY <4>1, <4>2
    <3>6. Parent1 \in Mark /\ Parent2 \in Mark /\ Stale \in Mark /\ Result \in Mark
      BY DEF Mark
    <3>7. QED
      BY <3>2, <3>3, <3>4, <3>5, <3>6
  <2>6. Reported'
    <3>1. IsNewBase(queue[c]) <=> c \in MergeBases
      BY <1>1, <1>d, VisitedMarks
    <3>2. Found' = popped' \cap MergeBases
      BY <3>1, <1>1, <1>d, <2>2, VisitFound DEF Reported
    <3>3. c \notin Found
      BY <2>1, <1>d DEF Reported
    <3>4. \A i, j \in 1..Len(res') : res'[i] = res'[j] => i = j
      <4>1. CASE IsNewBase(queue[c])
        <5>1. res' = Append(res, c) /\ res \in Seq(Commit)
          BY <4>1, <1>1 DEF Visit, TypeOK
        <5>2. Len(res') = Len(res) + 1 /\ Len(res) \in Nat
          BY <5>1
        <5>3. \A i \in 1..Len(res) : res'[i] = res[i] /\ res[i] # c
          BY <5>1, <3>3 DEF Found
        <5>4. res'[Len(res) + 1] = c
          BY <5>1, <5>2
        <5>5. \A i \in 1..Len(res') : i \in 1..Len(res) \/ i = Len(res) + 1
          BY <5>2
        <5>6. QED
          BY <5>3, <5>4, <5>5, <1>d DEF Reported
      <4>2. CASE ~IsNewBase(queue[c])
        BY <4>2, <1>1, <1>d DEF Visit, Reported
      <4>3. QED
        BY <4>1, <4>2
    <3>5. QED
      BY <3>2, <3>4, <1>a DEF Reported
  <2>7. QED
    BY <2>3, <2>4, <2>5, <2>6
<1>2. CASE UNCHANGED vars
  <2>1. /\ queue' = queue /\ res' = res /\ popped' = popped
        /\ Queued' = Queued /\ Found' = Found
    BY <1>2 DEF vars, Queued, Found
  <2>2. Ordered' /\ Covered' /\ Reported'
    BY <2>1, <1>r, <1>a, <1>d DEF Ordered, Covered, Reported
  <2>3. Accounted'
    BY <2>1, <1>r, <1>a, <1>d DEF Accounted, ChildIn
  <2>4. QED
    BY <2>2, <2>3
<1>3. QED
  BY <1>1, <1>2 DEF Next

\* When every queued commit is stale, every merge base has been visited.
LEMMA DatedDone ==
    ASSUME TypeOK, MarksTellTruth, DatedInv
    PROVE  MergeBasesExact /\ BasesAreDistinct
<1>1. BasesAreDistinct
  BY DEF DatedInv, Reported, BasesAreDistinct
<1>2. ASSUME Done, DatesFollowHistory PROVE Found = MergeBases
  <2>0. hist \in History /\ hist.ours \in Commit /\ hist.theirs \in Commit
    BY HistIsHistory DEF History
  <2>1. Covered /\ Accounted /\ Found = popped \cap MergeBases
    BY <1>2 DEF DatedInv, Reported
  <2>2. ASSUME NEW b \in MergeBases, b \notin popped PROVE FALSE
    <3>1. b \in Common /\ b \in Ancestors(hist.ours)
      BY DEF MergeBases, Common
    <3>2. PICK q \in Queued : b \in Ancestors(q)
      BY <3>1, <2>1, <2>2, BelowTheQueue
    <3>3. q \in Commit /\ Stale \in queue[q]
      BY <1>2 DEF Done, Interesting, Queued
    <3>4. PICK e \in Common : q \in hist.parents[e]
      BY <3>3, <2>1 DEF Accounted, ChildIn
    <3>5. e \in Commit /\ q \in Ancestors(e)
      BY <3>4, <2>0, AncestorsFacts DEF Common, Closed
    <3>6. b \in Ancestors(e)
      BY <3>2, <3>5, <2>0, AncestorsTransitive
    <3>7. b = e
      BY <3>4, <3>6 DEF MergeBases
    <3>8. hist.when[b] <= hist.when[q]
      BY <3>2, <3>3, <2>0, <1>2, AncestorsAreOlder
    <3>9. hist.when[q] < hist.when[e]
      BY <3>4, <3>5, <1>2 DEF DatesFollowHistory
    <3>10. QED
      BY <3>3, <3>5, <3>7, <3>8, <3>9, <2>0 DEF History
  <2>3. QED
    BY <2>1, <2>2
<1>3. QED
  BY <1>1, <1>2 DEF MergeBasesExact

\* getCommonParents finds exactly the merge bases, each once, for every commit
\* graph whose author dates follow the history.
THEOREM MergeBasesExactThm == Spec => [](MergeBasesExact /\ BasesAreDistinct)
<1>1. Init => TypeOK /\ MarksTellTruth /\ DatedInv
  BY InitType, InitMarks, InitDated
<1>2. TypeOK /\ MarksTellTruth /\ DatedInv /\ [Next]_vars
        => (TypeOK /\ MarksTellTruth /\ DatedInv)'
  BY NextType, NextMarks, NextDated
<1>3. TypeOK /\ MarksTellTruth /\ DatedInv => MergeBasesExact /\ BasesAreDistinct
  BY DatedDone
<1>4. QED
  BY <1>1, <1>2, <1>3, PTL DEF Spec

=============================================================================
