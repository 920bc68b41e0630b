------------------------ MODULE WorktreeMergeProofs ------------------------
(***************************************************************************)
(* Proofs about the life of a merge, for every set of repositories, paths  *)
(* and contents, any number of calls, and, where a theorem does not say    *)
(* otherwise, deaths of the process at any step.                           *)
(***************************************************************************)
EXTENDS WorktreeMerge, TLAPS, FiniteSetTheorems, SequenceTheorems, WellFoundedInduction

Content == Version \cup {Absent}

-----------------------------------------------------------------------------
(* The entries of the index *)

\* The stages of an entry.
LEMMA Stages == Stage = {0, 1, 2, 3}
  BY DEF Stage, Merged, TheirMode

\* The entries the model makes are entries.
LEMMA EntryTypes ==
    ASSUME NEW v \in Content, NEW w \in Content, NEW x \in Content
    PROVE  /\ NoEntry \in Entries
           /\ Just(v) \in Entries
           /\ Conflict(v, w, x) \in Entries
  BY DEF NoEntry, Entries, Just, Conflict, Content, Merged, AncestorMode, OurMode, TheirMode

\* A merged entry is no conflict, and what the differs see of it is its content.
LEMMA JustFacts ==
    ASSUME NEW v \in Content
    PROVE  ~Conflicted(Just(v)) /\ First(Just(v)) = v /\ Just(v)[Merged] = v
<1>1. /\ Just(v) = [s \in Stage |-> IF s = 0 THEN v ELSE Absent]
      /\ NoEntry = [s \in Stage |-> Absent]
  BY Stages DEF Just, NoEntry, Merged
<1>2. /\ Just(v)[0] = v /\ Just(v)[1] = Absent /\ Just(v)[2] = Absent /\ Just(v)[3] = Absent
  BY <1>1, Stages
<1>3. ~Conflicted(Just(v))
  BY <1>2, Stages DEF Conflicted, Merged
<1>4. First(Just(v)) = v
  <2>1. CASE v = Absent
    <3>1. Just(v) = NoEntry
      BY <2>1, <1>1
    <3> QED BY <3>1, <2>1 DEF First
  <2>2. CASE v # Absent
    <3>1. Just(v) # NoEntry
      BY <2>2, <1>1, <1>2, Stages
    <3> DEFINE P(s) == Just(v)[s] # Absent /\ \A r \in 0 .. s - 1 : Just(v)[r] = Absent
    <3>2. 0 \in Stage /\ P(0) /\ \A s \in Stage : P(s) => s = 0
      BY <2>2, <1>2, Stages
    <3>3. (CHOOSE s \in Stage : P(s)) = 0
      <4> HIDE DEF P
      <4> QED BY <3>2
    <3> QED BY <3>1, <3>3, <1>2 DEF First
  <2> QED BY <2>1, <2>2
<1> QED BY <1>2, <1>3, <1>4 DEF Merged

\* What the differs see of an entry is a content or nothing.
LEMMA FirstType ==
    ASSUME NEW e \in Entries
    PROVE  First(e) \in Content
<1>1. CASE e = NoEntry
  BY <1>1 DEF First, Content
<1>2. CASE e # NoEntry
  <2> DEFINE P(s) == e[s] # Absent /\ \A r \in 0 .. s - 1 : e[r] = Absent
  <2>1. \E s \in Stage : e[s] # Absent
    BY <1>2 DEF NoEntry, Entries
  <2>2. \E s \in Stage : P(s)
    <3>1. CASE e[0] # Absent
      <4>1. 0 \in Stage /\ P(0)
        BY <3>1, Stages
      <4> QED BY <4>1
    <3>2. CASE e[0] = Absent /\ e[1] # Absent
      <4>1. 1 \in Stage /\ P(1)
        BY <3>2, Stages
      <4> QED BY <4>1
    <3>3. CASE e[0] = Absent /\ e[1] = Absent /\ e[2] # Absent
      <4>1. 2 \in Stage /\ P(2)
        BY <3>3, Stages
      <4> QED BY <4>1
    <3>4. CASE e[0] = Absent /\ e[1] = Absent /\ e[2] = Absent
      <4>1. 3 \in Stage /\ P(3)
        BY <3>4, <2>1, Stages
      <4> QED BY <4>1
    <3> QED BY <3>1, <3>2, <3>3, <3>4
  <2> DEFINE first == CHOOSE s \in Stage : P(s)
  <2>3. first \in Stage
    <3> HIDE DEF P
    <3> QED BY <2>2
  <2>4. First(e) = e[first]
    BY <1>2 DEF First
  <2> HIDE DEF first
  <2> QED BY <2>3, <2>4 DEF Entries, Content
<1> QED BY <1>1, <1>2

\* An entry without a conflict is a merged one.
LEMMA TidyEntry ==
    ASSUME NEW e \in Entries, ~Conflicted(e)
    PROVE  e = Just(e[Merged]) /\ e[Merged] \in Content
<1>1. e[1] = Absent /\ e[2] = Absent /\ e[3] = Absent /\ e[0] \in Content
  BY Stages DEF Conflicted, Merged, Entries, Content
<1>2. Just(e[0]) = [s \in Stage |-> IF s = 0 THEN e[0] ELSE Absent]
  BY Stages DEF Just, NoEntry, Merged
<1>3. e = [s \in Stage |-> IF s = 0 THEN e[0] ELSE Absent]
  BY <1>1, Stages DEF Entries
<1> QED BY <1>1, <1>2, <1>3 DEF Merged

\* A tree as the index has it, and the tree the differs see in an index.
LEMMA TreeAndIndex ==
    /\ \A t \in Tree : AsIndex(t) \in Index
    /\ \A idx \in Index : Seen(idx) \in Tree
    /\ NoEntries \in Index
<1>1. ASSUME NEW t \in Tree PROVE AsIndex(t) \in Index
  BY EntryTypes DEF Tree, AsIndex, Index, Content
<1>2. ASSUME NEW idx \in Index PROVE Seen(idx) \in Tree
  BY FirstType DEF Index, Seen, Tree, Content
<1>3. NoEntries \in Index
  BY DEF NoEntries, NoEntry, Index, Entries
<1> QED BY <1>1, <1>2, <1>3

\* A conflict falls back to our entry: none is left.
LEMMA SettledFacts ==
    ASSUME NEW idx \in Index
    PROVE  /\ Settled(idx) \in Index
           /\ \A p \in Path : ~Conflicted(Settled(idx)[p])
<1>1. ASSUME NEW p \in Path
      PROVE  Settled(idx)[p] \in Entries /\ ~Conflicted(Settled(idx)[p])
  <2>1. idx[p] \in Entries /\ idx[p][OurMode] \in Content
    BY Stages DEF Index, Entries, OurMode, Content
  <2>2. Settled(idx)[p] = IF Conflicted(idx[p]) THEN Just(idx[p][OurMode]) ELSE idx[p]
    BY DEF Settled
  <2> QED BY <2>1, <2>2, EntryTypes, JustFacts
<1> QED BY <1>1 DEF Settled, Index

\* resetIndex leaves no conflict.
LEMMA ResetFacts ==
    ASSUME NEW idx \in Index, NEW t \in Tree
    PROVE  /\ ResetIndexTo(idx, t) \in Index
           /\ \A p \in Path : ~Conflicted(ResetIndexTo(idx, t)[p])
<1> DEFINE stored == IF use.shared THEN Settled(idx) ELSE idx
<1>1. ASSUME NEW p \in Path
      PROVE  ResetIndexTo(idx, t)[p] \in Entries /\ ~Conflicted(ResetIndexTo(idx, t)[p])
  <2>1. t[p] \in Content
    BY DEF Tree, Content
  <2>2. ResetIndexTo(idx, t)[p] = IF First(stored[p]) = t[p] THEN Settled(idx)[p] ELSE Just(t[p])
    BY DEF ResetIndexTo
  <2>3. Settled(idx)[p] \in Entries /\ ~Conflicted(Settled(idx)[p])
    BY SettledFacts DEF Index
  <2> QED BY <2>1, <2>2, <2>3, EntryTypes, JustFacts
<1> QED BY <1>1 DEF ResetIndexTo, Index

\* It makes the index that of the tree if the storage shares its index, and
\* over a copy if the conflicts are those of a merge into this tree.
LEMMA ResetIsExact ==
    ASSUME NEW idx \in Index, NEW t \in Tree,
           use.shared \/ \A p \in Path : Conflicted(idx[p]) => idx[p][OurMode] = t[p]
    PROVE  ResetIndexTo(idx, t) = AsIndex(t)
<1> DEFINE stored == IF use.shared THEN Settled(idx) ELSE idx
<1>1. ASSUME NEW p \in Path PROVE ResetIndexTo(idx, t)[p] = Just(t[p])
  <2>1. ResetIndexTo(idx, t)[p] = IF First(stored[p]) = t[p] THEN Settled(idx)[p] ELSE Just(t[p])
    BY DEF ResetIndexTo
  <2>2. Settled(idx)[p] \in Entries /\ ~Conflicted(Settled(idx)[p]) /\ idx[p] \in Entries
    BY SettledFacts DEF Index
  <2>3. PICK v \in Content : Settled(idx)[p] = Just(v)
    BY <2>2, TidyEntry
  <2>4. Settled(idx)[p] = IF Conflicted(idx[p]) THEN Just(idx[p][OurMode]) ELSE idx[p]
    BY DEF Settled
  <2>5. First(Settled(idx)[p]) = v
    BY <2>3, JustFacts
  <2>6. CASE use.shared
    BY <2>1, <2>3, <2>5, <2>6
  <2>7. CASE ~use.shared /\ Conflicted(idx[p])
    BY <2>1, <2>4, <2>7
  <2>8. CASE ~use.shared /\ ~Conflicted(idx[p])
    BY <2>1, <2>3, <2>4, <2>5, <2>8
  <2> QED BY <2>6, <2>7, <2>8
<1> QED BY <1>1 DEF ResetIndexTo, AsIndex

\* What the steps store in the index and in the cache of blobs.
LEMMA StoreTypes ==
    ASSUME NEW idx \in Index, NEW p \in Path, NEW e \in Entries
    PROVE  /\ [idx EXCEPT ![p] = e] \in Index
           /\ [idx EXCEPT ![p] = e][p] = e
           /\ \A q \in Path : q # p => [idx EXCEPT ![p] = e][q] = idx[q]
  BY DEF Index

\* addOrUpdateBlobToCache keeps every blob of its entry, and those of the other
\* paths as they were.
LEMMA CacheTypes ==
    ASSUME blobs \in Index, NEW p \in Path, NEW e \in Entries
    PROVE  /\ Cache(p, e) \in Index
           /\ \A s \in Stage : e[s] # Absent => Cache(p, e)[p][s] = e[s]
           /\ \A q \in Path : q # p => Cache(p, e)[q] = blobs[q]
<1> DEFINE f == [s \in Stage |-> IF e[s] = Absent THEN blobs[p][s] ELSE e[s]]
<1>1. f \in Entries
  BY DEF Index, Entries
<1>2. Cache(p, e) = [blobs EXCEPT ![p] = f]
  BY DEF Cache
<1>3. \A s \in Stage : e[s] # Absent => f[s] = e[s]
  OBVIOUS
<1> HIDE DEF f
<1>4. /\ [blobs EXCEPT ![p] = f] \in Index
      /\ [blobs EXCEPT ![p] = f][p] = f
      /\ \A q \in Path : q # p => [blobs EXCEPT ![p] = f][q] = blobs[q]
  BY <1>1, StoreTypes
<1> QED BY <1>2, <1>3, <1>4, Zenon

-----------------------------------------------------------------------------
(* Commits and references *)

\* A set of numbers has a smallest one.
LEMMA SmallestNat ==
    ASSUME NEW T, T \subseteq Nat, T # {}
    PROVE  \E n \in T : \A m \in T : n <= m
<1>1. PICK n \in T : \A m \in T : <<m, n>> \notin OpToRel(<, Nat)
  BY NatLessThanWellFounded, WFMin
<1>2. ASSUME NEW m \in T PROVE n <= m
  <2>1. <<m, n>> \in Nat \X Nat /\ <<m, n>>[1] = m /\ <<m, n>>[2] = n
    OBVIOUS
  <2>2. <<m, n>> \notin {p \in Nat \X Nat : p[1] < p[2]}
    BY <1>1, Zenon DEF OpToRel
  <2>3. ~(m < n)
    BY <2>1, <2>2
  <2> QED BY <2>3
<1> QED BY <1>2

\* The newest of some commits is one of them.
LEMMA NewestIn ==
    ASSUME NEW n \in Nat, NEW cs, cs \subseteq 1 .. n, cs # {}
    PROVE  Newest(cs) \in cs
<1> DEFINE above == {n - c : c \in cs}
<1>1. above \subseteq Nat /\ above # {}
  <2>1. ASSUME NEW c \in cs PROVE n - c \in Nat
    <3>1. c \in Int /\ c <= n
      OBVIOUS
    <3> QED BY <3>1
  <2> QED BY <2>1
<1>2. PICK d \in above : \A e \in above : d <= e
  <2> HIDE DEF above
  <2> QED BY <1>1, SmallestNat
<1>3. PICK c \in cs : d = n - c
  OBVIOUS
<1>4. ASSUME NEW e \in cs PROVE e <= c
  <2>1. n - c <= n - e
    BY <1>2, <1>3
  <2>2. n \in Nat /\ c \in Nat /\ e \in Nat
    OBVIOUS
  <2> QED BY <2>1, <2>2
<1> QED BY <1>4 DEF Newest

\* What getCommonParents finds is stored.
LEMMA CommonAreKnown ==
    ASSUME NEW c, NEW d
    PROVE  CommonParents(c, d) \subseteq Known
  BY DEF CommonParents, Known

\* The state without what the calls keep for themselves.
RefsOK ==
    /\ commits \in Seq(Commits)
    /\ branch \in [Branch -> Ref]
    /\ head \in Branch \cup Known
    /\ HeadCommit \in Known

\* A tree of a commit that is stored.
LEMMA TreesOfKnown ==
    ASSUME commits \in Seq(Commits), NEW c \in Known
    PROVE  /\ TreeOf(c) \in Tree
           /\ c \in Nat /\ c # None
           /\ Known \subseteq Nat /\ None \notin Known
           /\ \A b \in Branch : b \notin Known
<1>1. Len(commits) \in Nat /\ commits[c] \in Commits
  BY DEF Known
<1>2. TreeOf(c) \in Tree
  BY <1>1 DEF TreeOf, Commits
<1> QED BY <1>1, <1>2, ContentAssumption DEF Known

\* updateHEAD makes a commit that is stored that of HEAD, and no branch but
\* the one HEAD is on moves.
LEMMA SetHeadFacts ==
    ASSUME RefsOK, commits' = commits, NEW c \in Known, SetHead(c)
    PROVE  /\ RefsOK' /\ HeadCommit' = c /\ (head \in Branch <=> head' \in Branch)
           /\ head \in Branch => head' = head
           /\ head \notin Branch => branch' = branch
           /\ \A b \in Branch \ {head} : branch'[b] = branch[b]
<1>1. c \notin Branch
  BY TreesOfKnown DEF RefsOK
<1> QED BY <1>1 DEF RefsOK, SetHead, HeadCommit, Known, Ref

\* A step that leaves commits, branches and HEAD.
LEMMA SameRefs ==
    ASSUME commits' = commits, branch' = branch, head' = head
    PROVE  /\ Known' = Known /\ HeadCommit' = HeadCommit /\ (RefsOK => RefsOK')
           /\ SeveralBases' = SeveralBases
  BY DEF Known, HeadCommit, RefsOK, Ref, SeveralBases, CommonParents

\* A step that stores no commit.
LEMMA SameCommits ==
    ASSUME commits' = commits
    PROVE  /\ Known' = Known /\ Ref' = Ref
           /\ \A c : TreeOf(c)' = TreeOf(c)
           /\ SeveralBases' = SeveralBases
  BY DEF Known, Ref, SeveralBases, CommonParents, TreeOf

-----------------------------------------------------------------------------
(* Calls in progress *)

\* What mergeCommits merges names commits that are stored: those it merges
\* now, and those of every merge that waits for a virtual base.
KnownFrame(f) == f.left.commit \in Known /\ f.right \in Known /\ f.rest \subseteq Known
MergesKnown(o) == KnownFrame(o) /\ \A i \in 1 .. Len(o.stack) : KnownFrame(o.stack[i])

\* HEAD's commit, which is the left one of the outermost merge.
Outermost(o) == IF o.stack = <<>> THEN o.left ELSE o.stack[Len(o.stack)].left

\* And the right one.
OuterRight(o) == IF o.stack = <<>> THEN o.right ELSE o.stack[Len(o.stack)].right

\* No call, and a call that is to reset, are calls in progress.
LEMMA CallTypes ==
    /\ NoOp \in CallInProgress
    /\ \A name \in Name, mode \in ModeOrNone, c \in Number : ResetTo(name, c, mode) \in CallInProgress
<1>1. /\ Plain(None) \in MergingCommit /\ NoEntries \in Index
      /\ <<>> \in Seq(Frame) /\ [p \in Path |-> Absent] \in Tree /\ None \in Number
  BY TreeAndIndex, EmptySeq DEF Plain, MergingCommit, Number, Tree
<1>2. ASSUME NEW pc \in PC, NEW l \in MergingCommit, NEW b \in MergingCommit,
             NEW st \in Seq(Frame), NEW fr \in Tree, NEW sn \in Index,
             NEW n \in Number, NEW e \in SUBSET Path, NEW k \in SUBSET Nat,
             NEW f \in BOOLEAN, NEW z \in Name, NEW m \in ModeOrNone,
             NEW on \in Branch \cup {None}
      PROVE  [pc |-> pc, name |-> z, left |-> l, right |-> n, base |-> b,
              rest |-> k, stack |-> st, copied |-> f, from |-> fr,
              both |-> e, onlyRight |-> e, snap |-> sn,
              target |-> n, mode |-> m, on |-> on, parents |-> k] \in CallInProgress
  BY DEF CallInProgress
<1>3. /\ "idle" \in PC /\ {} \in SUBSET Path /\ {} \in SUBSET Nat
      /\ FALSE \in BOOLEAN /\ "none" \in Name /\ "none" \in ModeOrNone
      /\ None \in Branch \cup {None}
  <2>1. "idle" \in PC
    BY DEF PC
  <2>2. "none" \in Name /\ "none" \in ModeOrNone
    BY DEF Name, ModeOrNone
  <2> QED BY <2>1, <2>2, Zenon
<1>4. NoOp \in CallInProgress
  BY <1>1, <1>2, <1>3 DEF NoOp
<1>5. ASSUME NEW name \in Name, NEW mode \in ModeOrNone, NEW c \in Number
      PROVE  ResetTo(name, c, mode) \in CallInProgress
  BY <1>4 DEF ResetTo, CallInProgress, PC
<1> QED BY <1>4, <1>5

\* A commit that is no virtual base.
LEMMA PlainTypes ==
    ASSUME NEW c \in Number
    PROVE  Plain(c) \in MergingCommit /\ Plain(c).commit = c /\ ~Plain(c).virtual
  BY TreeAndIndex DEF Plain, MergingCommit

\* computeParent goes on with the only common parent, or with a virtual base
\* for which the merge at hand waits.
LEMMA BasedFacts ==
    ASSUME NEW o \in CallInProgress, NEW ps, ps \subseteq Known, ps # {},
           commits \in Seq(Commits), MergesKnown(o)
    PROVE  /\ Based(o, ps) \in CallInProgress
           /\ MergesKnown(Based(o, ps))
           /\ Outermost(Based(o, ps)) = Outermost(o)
           /\ OuterRight(Based(o, ps)) = OuterRight(o)
           /\ Based(o, ps).stack = <<>> =>
                 /\ ps = {Based(o, ps).base.commit} /\ ~Based(o, ps).base.virtual
                 /\ Based(o, ps).right = o.right
           /\ \/ /\ Based(o, ps).pc = "computeParent"
                 /\ Based(o, ps).stack # <<>>
                 /\ \E b, c \in ps : b # c
              \/ /\ Based(o, ps).pc = "setMergeHead" /\ o.stack = <<>>
                 /\ Based(o, ps).base.commit \in Known
                 /\ Based(o, ps).stack = <<>>
              \/ /\ Based(o, ps).pc = "resetForMerge" /\ o.stack # <<>>
                 /\ Based(o, ps).base.commit \in Known
                 /\ Based(o, ps).stack = o.stack
           /\ Based(o, ps).name = o.name /\ Based(o, ps).copied = o.copied
           /\ Based(o, ps).mode = o.mode
<1> DEFINE first == Newest(ps)
           second == Newest(ps \ {first})
           frame == [left |-> o.left, right |-> o.right, rest |-> o.rest]
<1>0. Len(commits) \in Nat /\ Known = 1 .. Len(commits) /\ Known \subseteq Nat
  BY LenProperties DEF Known
<1>1. first \in ps /\ first \in Known /\ first \in Number
  <2>1. first \in ps
    BY <1>0, NewestIn
  <2> HIDE DEF first
  <2> QED BY <2>1, <1>0 DEF Number
<1>2. CASE ps = {first}
  <2> DEFINE b == Based(o, ps)
  <2>1. b = [o EXCEPT !.pc = IF o.stack = <<>> THEN "setMergeHead" ELSE "resetForMerge",
                      !.base = Plain(first)]
    BY <1>2 DEF Based
  <2>2. /\ b.pc = IF o.stack = <<>> THEN "setMergeHead" ELSE "resetForMerge"
        /\ b.base = Plain(first)
        /\ b.left = o.left /\ b.right = o.right /\ b.rest = o.rest /\ b.stack = o.stack
        /\ b.name = o.name /\ b.copied = o.copied /\ b.mode = o.mode
    <3> HIDE DEF first
    <3> QED BY <2>1 DEF CallInProgress
  <2>3. Plain(first) \in MergingCommit /\ Plain(first).commit = first /\ ~Plain(first).virtual
    <3> HIDE DEF first
    <3> QED BY <1>1, PlainTypes
  <2>4. b \in CallInProgress
    <3>1. ASSUME NEW x \in PC, NEW y \in MergingCommit
          PROVE  [o EXCEPT !.pc = x, !.base = y] \in CallInProgress
      BY DEF CallInProgress
    <3> HIDE DEF first, b
    <3> QED BY <3>1, <2>1, <2>3 DEF PC
  <2> HIDE DEF b, first
  <2>5. MergesKnown(b) /\ Outermost(b) = Outermost(o) /\ OuterRight(b) = OuterRight(o)
    BY <2>2 DEF MergesKnown, KnownFrame, Outermost, OuterRight
  <2>6. CASE o.stack = <<>>
    BY <2>2, <2>3, <2>4, <2>5, <2>6, <1>1, <1>2 DEF b
  <2>7. CASE o.stack # <<>>
    BY <2>2, <2>3, <2>4, <2>5, <2>7, <1>1, <1>2 DEF b
  <2> QED BY <2>6, <2>7
<1>3. CASE ps # {first}
  <2> DEFINE b == Based(o, ps)
             pushed == <<frame>> \o o.stack
  <2>1. second \in ps \ {first}
    <3>1. \A x \in ps : ps \ {x} \subseteq 1 .. Len(commits) /\ (ps # {x} => ps \ {x} # {})
      BY <1>0
    <3>2. ps \ {first} \subseteq 1 .. Len(commits) /\ ps \ {first} # {}
      <4> HIDE DEF first
      <4> QED BY <3>1, <1>1, <1>3
    <3> HIDE DEF first
    <3> QED BY <3>2, <1>0, NewestIn
  <2>2. second \in Known /\ second \in Number
    BY <2>1, TreesOfKnown DEF Number
  <2>3. b = [o EXCEPT !.pc = "computeParent", !.left = Plain(first), !.right = second,
                      !.rest = ps \ {first, second}, !.stack = <<frame>> \o @]
    BY <1>3 DEF Based
  <2>4. frame \in Frame /\ o.stack \in Seq(Frame) /\ KnownFrame(frame)
    BY DEF CallInProgress, Frame, KnownFrame, MergesKnown
  <2>5. /\ pushed \in Seq(Frame) /\ Len(pushed) = Len(o.stack) + 1
        /\ \A i \in 1 .. Len(pushed) :
              pushed[i] = IF i = 1 THEN frame ELSE o.stack[i - 1]
    <3> HIDE DEF frame
    <3> QED BY <2>4
  <2>6. /\ b.pc = "computeParent" /\ b.left = Plain(first) /\ b.right = second
        /\ b.rest = ps \ {first, second} /\ b.stack = pushed
        /\ b.name = o.name /\ b.copied = o.copied /\ b.mode = o.mode
    <3> HIDE DEF first, second, frame
    <3> QED BY <2>3 DEF CallInProgress
  <2>7. Plain(first) \in MergingCommit /\ Plain(first).commit = first
    <3> HIDE DEF first
    <3> QED BY <1>1, PlainTypes
  <2>8. b \in CallInProgress
    <3>1. ASSUME NEW l \in MergingCommit, NEW r \in Number, NEW rs \in SUBSET Nat,
                 NEW st \in Seq(Frame)
          PROVE  [o EXCEPT !.pc = "computeParent", !.left = l, !.right = r,
                           !.rest = rs, !.stack = st] \in CallInProgress
      BY DEF CallInProgress, PC
    <3>2. ps \ {first, second} \in SUBSET Nat
      BY TreesOfKnown
    <3>3. b = [o EXCEPT !.pc = "computeParent", !.left = Plain(first), !.right = second,
                        !.rest = ps \ {first, second}, !.stack = pushed]
      BY <2>3
    <3> HIDE DEF first, second, pushed, b
    <3> QED BY <3>1, <3>2, <3>3, <2>2, <2>5, <2>7
  <2> HIDE DEF b, first, second, pushed, frame
  <2>9. b.stack # <<>>
    <3>1. Len(b.stack) # 0
      BY <2>4, <2>5, <2>6
    <3> QED BY <3>1
  <2>10. MergesKnown(b)
    <3>1. KnownFrame(b)
      BY <2>2, <2>6, <2>7, <1>1 DEF KnownFrame
    <3>2. ASSUME NEW i \in 1 .. Len(b.stack) PROVE KnownFrame(b.stack[i])
      <4>1. CASE i = 1
        BY <4>1, <2>4, <2>5, <2>6
      <4>2. CASE i # 1
        <5>1. i - 1 \in 1 .. Len(o.stack) /\ b.stack[i] = o.stack[i - 1]
          BY <4>2, <2>4, <2>5, <2>6
        <5> QED BY <5>1 DEF MergesKnown
      <4> QED BY <4>1, <4>2
    <3> QED BY <3>1, <3>2 DEF MergesKnown
  <2>11. Outermost(b) = Outermost(o) /\ OuterRight(b) = OuterRight(o)
    <3>1. CASE o.stack = <<>>
      <4>1. Len(b.stack) = 1 /\ b.stack[1] = frame
        BY <3>1, <2>5, <2>6
      <4>2. frame.left = o.left /\ frame.right = o.right
        BY DEF frame
      <4> QED BY <3>1, <4>1, <4>2, <2>9 DEF Outermost, OuterRight
    <3>2. CASE o.stack # <<>>
      <4>1. Len(o.stack) \in Nat /\ Len(o.stack) # 0
        BY <3>2, <2>4, EmptySeq
      <4>2. Len(b.stack) = Len(o.stack) + 1 /\ b.stack[Len(b.stack)] = o.stack[Len(o.stack)]
        BY <4>1, <2>5, <2>6
      <4> QED BY <3>2, <4>2, <2>9 DEF Outermost, OuterRight
    <3> QED BY <3>1, <3>2
  <2>12. first \in ps /\ second \in ps /\ first # second
    BY <1>1, <2>1
  <2> QED BY <2>6, <2>8, <2>9, <2>10, <2>11, <2>12 DEF b
<1> QED BY <1>2, <1>3

MergePc == {"computeParent", "setMergeHead", "setOrigHead", "resetForMerge", "compare"}

\* What a call keeps for its next steps names commits that are stored.
OpKnown ==
    /\ op.pc \in MergePc => MergesKnown(op)
    /\ op.pc \in MergePc \ {"computeParent"} => op.base.commit \in Known
    /\ op.pc \in {"reset", "switch", "resetIndex", "resetWorktree"} => op.target \in Known
    /\ op.pc = "switch" => op.on \in Branch /\ branch[op.on] \in Known
    /\ op.pc = "updateHead" => op.parents \subseteq Known

\* What began may be.
Found == [branch : [Branch -> Number], head : Branch \cup Nat,
          orig : Number, switched : BOOLEAN]

\* The parts of TypeOK beside those of RefsOK and op.
RestOK ==
    /\ {mergeHead, origHead, joined} \subseteq Ref
    /\ mergeMsg \in BOOLEAN
    /\ index \in Index
    /\ files \in Tree
    /\ blobs \in Index
    /\ calls \in Nat
    /\ use \in [ops : SUBSET Op, shared : BOOLEAN, dies : BOOLEAN]
    /\ last \in [name : Name, mode : ModeOrNone]
    /\ began \in Found

\* The parts of TypeOK, before and after a step.
LEMMA TypeParts ==
    /\ TypeOK <=> RefsOK /\ RestOK /\ op \in CallInProgress
    /\ TypeOK' <=> RefsOK' /\ RestOK' /\ op' \in CallInProgress
  BY DEF TypeOK, RefsOK, RestOK, Found

\* A merge at hand knows its commits after a step that stores none.
LEMMA SameMerges ==
    ASSUME commits' = commits, MergesKnown(op')
    PROVE  MergesKnown(op)'
  BY DEF MergesKnown, KnownFrame, Known

\* The references as numbers.
LEMMA Numbers ==
    ASSUME TypeOK
    PROVE  /\ Known \subseteq Nat /\ Known \subseteq Number /\ Ref \subseteq Number
           /\ branch \in [Branch -> Number] /\ head \in Branch \cup Nat
           /\ origHead \in Number /\ HeadCommit \in Number /\ HeadCommit \in Known
           /\ "none" \in Name /\ "none" \in ModeOrNone
<1>1. Known \subseteq Nat
  BY TreesOfKnown DEF TypeOK
<1>2. Known \subseteq Number /\ Ref \subseteq Number
  BY <1>1 DEF Ref, Number
<1>3. /\ branch \in [Branch -> Number] /\ head \in Branch \cup Nat
      /\ origHead \in Number /\ HeadCommit \in Number /\ HeadCommit \in Known
  BY <1>1, <1>2 DEF TypeOK
<1> QED BY <1>1, <1>2, <1>3 DEF Name, ModeOrNone

\* What a merge finds, and what a checkout makes of it.
LEMMA BeganTypes ==
    /\ \A b \in [Branch -> Number], h \in Branch \cup Nat, o \in Number :
          [branch |-> b, head |-> h, orig |-> o, switched |-> FALSE] \in Found
    /\ \A x \in Found : /\ [x EXCEPT !.switched = TRUE] \in Found
                        /\ [x EXCEPT !.switched = TRUE].branch = x.branch
                        /\ [x EXCEPT !.switched = TRUE].head = x.head
                        /\ [x EXCEPT !.switched = TRUE].orig = x.orig
                        /\ [x EXCEPT !.switched = TRUE].switched
  BY DEF Found

\* A merge that starts has HEAD's commit and theirs to merge.
LEMMA StartFacts ==
    ASSUME TypeOK, NEW name \in Name, NEW theirs \in Known, StartMerge(name, theirs)
    PROVE  /\ op' \in CallInProgress /\ MergesKnown(op')
           /\ Outermost(op') = Plain(HeadCommit)
           /\ \/ op'.pc = "computeParent" /\ op'.stack # <<>> /\ SeveralBases
              \/ op'.pc = "setMergeHead" /\ op'.stack = <<>> /\ op'.base.commit \in Known
           /\ op'.name = name /\ (op'.copied => name = "pull") /\ op'.mode = "none"
           /\ began' = [branch |-> branch, head |-> head, orig |-> origHead, switched |-> FALSE]
           /\ mergeHead = None /\ ~HasUncommitted(HeadCommit)
           /\ OuterRight(op') = theirs
           /\ op'.pc = "computeParent" => \E b, c \in CommonParents(HeadCommit, theirs) : b # c
           /\ op'.stack = <<>> =>
                 /\ CommonParents(HeadCommit, theirs) = {op'.base.commit}
                 /\ op'.right = theirs /\ ~op'.base.virtual
<1> DEFINE parents == CommonParents(HeadCommit, theirs)
           copied == name = "pull" /\ blobs = NoBlobs
           o == [NoOp EXCEPT !.name = name, !.left = Plain(HeadCommit), !.right = theirs,
                             !.copied = copied]
<1>1. /\ op' = Based(o, parents) /\ parents # {} /\ parents \subseteq Known
      /\ began' = [branch |-> branch, head |-> head, orig |-> origHead, switched |-> FALSE]
      /\ mergeHead = None /\ ~HasUncommitted(HeadCommit)
  BY CommonAreKnown DEF StartMerge
<1>2. HeadCommit \in Known /\ HeadCommit \in Number /\ theirs \in Number
      /\ commits \in Seq(Commits)
  BY TreesOfKnown DEF TypeOK, Number
<1>3. Plain(HeadCommit) \in MergingCommit /\ Plain(HeadCommit).commit = HeadCommit
  BY <1>2, PlainTypes
<1>4. /\ o \in CallInProgress
      /\ o.name = name /\ o.left = Plain(HeadCommit) /\ o.right = theirs /\ o.copied = copied
      /\ o.rest = {} /\ o.stack = <<>> /\ o.mode = "none"
  <2>1. /\ NoOp.rest = {} /\ NoOp.stack = <<>> /\ NoOp.mode = "none"
    BY DEF NoOp
  <2>2. copied \in BOOLEAN
    OBVIOUS
  <2> DEFINE X(l, r, f) == [NoOp EXCEPT !.name = name, !.left = l, !.right = r, !.copied = f]
  <2>3. ASSUME NEW l \in MergingCommit, NEW r \in Number, NEW f \in BOOLEAN
        PROVE  /\ X(l, r, f) \in CallInProgress
               /\ X(l, r, f).name = name /\ X(l, r, f).left = l
               /\ X(l, r, f).right = r /\ X(l, r, f).copied = f
               /\ X(l, r, f).rest = NoOp.rest /\ X(l, r, f).stack = NoOp.stack
               /\ X(l, r, f).mode = NoOp.mode
    BY CallTypes DEF CallInProgress
  <2>4. o = X(Plain(HeadCommit), theirs, copied)
    OBVIOUS
  <2> HIDE DEF copied, X, o
  <2> QED BY <2>1, <2>2, <2>3, <2>4, <1>2, <1>3
<1> HIDE DEF o, parents
<1>5. MergesKnown(o)
  <2>1. Len(o.stack) = 0
    BY <1>4
  <2>2. \A i \in 1 .. Len(o.stack) : FALSE
    BY <2>1
  <2>3. KnownFrame(o)
    BY <1>2, <1>3, <1>4 DEF KnownFrame
  <2> QED BY <2>2, <2>3 DEF MergesKnown
<1>6. Outermost(o) = Plain(HeadCommit)
  BY <1>4 DEF Outermost
<1>7. (\E b, c \in parents : b # c) => SeveralBases
  BY <1>2 DEF SeveralBases, parents
<1>8. /\ op' \in CallInProgress /\ MergesKnown(op') /\ Outermost(op') = Outermost(o)
      /\ op'.name = o.name /\ op'.copied = o.copied /\ op'.mode = o.mode
  BY <1>1, <1>2, <1>4, <1>5, BasedFacts
<1>9. \/ op'.pc = "computeParent" /\ op'.stack # <<>> /\ SeveralBases
      \/ op'.pc = "setMergeHead" /\ op'.stack = <<>> /\ op'.base.commit \in Known
  BY <1>1, <1>2, <1>4, <1>5, <1>7, BasedFacts
<1>10. /\ OuterRight(op') = theirs
       /\ op'.pc = "computeParent" => \E b, c \in parents : b # c
       /\ op'.stack = <<>> =>
             parents = {op'.base.commit} /\ op'.right = theirs /\ ~op'.base.virtual
  <2>1. OuterRight(o) = theirs
    BY <1>4 DEF OuterRight
  <2> QED BY <1>1, <1>2, <1>4, <1>5, <2>1, BasedFacts
<1> QED BY <1>1, <1>4, <1>6, <1>8, <1>9, <1>10 DEF parents

\* A call that moves on keeps what it knows.
LEMMA MovesOn ==
    ASSUME op \in CallInProgress, NEW x \in PC, op' = [op EXCEPT !.pc = x]
    PROVE  /\ op' \in CallInProgress /\ op'.pc = x
           /\ op'.name = op.name /\ op'.left = op.left /\ op'.right = op.right
           /\ op'.base = op.base /\ op'.rest = op.rest /\ op'.stack = op.stack
           /\ op'.copied = op.copied /\ op'.from = op.from /\ op'.both = op.both
           /\ op'.onlyRight = op.onlyRight /\ op'.snap = op.snap
           /\ op'.target = op.target /\ op'.mode = op.mode /\ op'.on = op.on
           /\ op'.parents = op.parents
  BY DEF CallInProgress

\* The fields of a call that is to reset.
LEMMA ResetFields ==
    ASSUME NEW name \in Name, NEW c \in Number, NEW mode \in ModeOrNone
    PROVE  /\ ResetTo(name, c, mode) \in CallInProgress
           /\ ResetTo(name, c, mode).pc = "reset"
           /\ ResetTo(name, c, mode).name = name
           /\ ResetTo(name, c, mode).target = c
           /\ ResetTo(name, c, mode).mode = mode
           /\ ~ResetTo(name, c, mode).copied
<1>1. ~NoOp.copied
  BY DEF NoOp
<1> QED BY <1>1, CallTypes DEF ResetTo, CallInProgress

\* The fields of no call.
LEMMA NoOpFields == /\ NoOp \in CallInProgress /\ NoOp.pc = "idle" /\ NoOp.name = "none"
                    /\ ~NoOp.copied /\ NoOp.mode = "none"
<1>1. NoOp.pc = "idle" /\ NoOp.name = "none" /\ ~NoOp.copied /\ NoOp.mode = "none"
  BY DEF NoOp
<1> QED BY <1>1, CallTypes

\* Calls of the user start from no call and leave what is stored typed.
LEMMA UserTypes ==
    ASSUME TypeOK, UserCall
    PROVE  TypeOK' /\ OpKnown'
<1>0. RefsOK /\ RestOK /\ op \in CallInProgress
  BY TypeParts
<1>1. ASSUME NEW b \in Branch, Merge(b) PROVE TypeOK' /\ OpKnown'
  <2>1. /\ branch[b] \in Known /\ branch[b] \in Number /\ commits' = commits
        /\ "merge" \in Name /\ "hard" \in ModeOrNone
    BY <1>1, <1>0, Numbers DEF Merge, RefsOK, Ref, Name, Op, ModeOrNone, Mode
  <2>2. CASE SetHead(branch[b]) /\ op' = ResetTo("merge", branch[b], "hard") /\ UNCHANGED began
    <3>1. RefsOK'
      BY <1>0, <2>1, <2>2, SetHeadFacts
    <3>2. RestOK'
      BY <1>0, <1>1, <2>1, <2>2, SameCommits, Numbers DEF Merge, Call, RestOK, area, NoCall
    <3>3. op' \in CallInProgress /\ OpKnown'
      BY <2>1, <2>2, ResetFields, SameCommits DEF OpKnown, MergePc
    <3> QED BY <3>1, <3>2, <3>3, TypeParts
  <2>3. CASE StartMerge("merge", branch[b]) /\ UNCHANGED <<branch, head>>
    <3>1. RefsOK'
      BY <1>0, <2>1, <2>3, SameRefs
    <3>2. RestOK'
      <4>1. began' \in Found
        BY <2>1, <2>3, StartFacts, Numbers, BeganTypes
      <4> QED BY <1>0, <1>1, <2>1, <4>1, SameCommits, Numbers DEF Merge, Call, RestOK, area, NoCall
    <3>3. op' \in CallInProgress /\ OpKnown'
      BY <2>1, <2>3, StartFacts, SameCommits, SameMerges DEF OpKnown, MergePc
    <3> QED BY <3>1, <3>2, <3>3, TypeParts
  <2> QED BY <1>1, <2>2, <2>3, Zenon DEF Merge
<1>2. ASSUME NEW c \in Known, Pull(c) PROVE TypeOK' /\ OpKnown'
  <2>1. /\ c \in Number /\ commits' = commits
        /\ "pull" \in Name /\ "merge" \in ModeOrNone
    BY <1>2, Numbers DEF Pull, Name, Op, ModeOrNone, Mode
  <2>2. CASE SetHead(c) /\ op' = ResetTo("pull", c, "merge") /\ UNCHANGED began
    <3>1. RefsOK'
      BY <1>0, <2>1, <2>2, SetHeadFacts
    <3>2. RestOK'
      BY <1>0, <1>2, <2>1, <2>2, SameCommits, Numbers DEF Pull, Call, RestOK, area, NoCall
    <3>3. op' \in CallInProgress /\ OpKnown'
      BY <2>1, <2>2, ResetFields, SameCommits DEF OpKnown, MergePc
    <3> QED BY <3>1, <3>2, <3>3, TypeParts
  <2>3. CASE StartMerge("pull", c) /\ UNCHANGED <<branch, head>>
    <3>1. RefsOK'
      BY <1>0, <2>1, <2>3, SameRefs
    <3>2. RestOK'
      <4>1. began' \in Found
        BY <2>1, <2>3, StartFacts, Numbers, BeganTypes
      <4> QED BY <1>0, <1>2, <2>1, <4>1, SameCommits, Numbers DEF Pull, Call, RestOK, area, NoCall
    <3>3. op' \in CallInProgress /\ OpKnown'
      BY <2>1, <2>3, StartFacts, SameCommits, SameMerges DEF OpKnown, MergePc
    <3> QED BY <3>1, <3>2, <3>3, TypeParts
  <2> QED BY <1>2, <2>2, <2>3, Zenon DEF Pull
<1>3. ASSUME NEW all \in BOOLEAN, Commit(all) PROVE TypeOK' /\ OpKnown'
  <2>1. commits' = commits /\ branch' = branch /\ head' = head
    BY <1>3 DEF Commit, refs
  <2>2. RefsOK'
    BY <1>0, <2>1, SameRefs
  <2>3. index' \in Index
    <3>1. ASSUME NEW p \in Path PROVE index'[p] \in Entries
      BY <1>0, <1>3, EntryTypes DEF Commit, RestOK, Index, Tree, Content
    <3> QED BY <1>3, <3>1 DEF Commit, Index
  <2>4. RestOK'
    BY <1>0, <1>3, <2>1, <2>3, SameCommits, Numbers DEF Commit, Call, RestOK, refs, NoCall
  <2>5. op' \in CallInProgress /\ OpKnown'
    <3> DEFINE parents == {HeadCommit} \cup ({mergeHead} \ {None})
    <3>1. parents \subseteq Known /\ parents \subseteq Nat
      BY <1>0, Numbers DEF RestOK, Ref
    <3>2. op' = [NoOp EXCEPT !.pc = "updateHead", !.name = "commit", !.parents = parents]
      BY <1>3 DEF Commit
    <3> HIDE DEF parents
    <3>3. op' \in CallInProgress /\ op'.pc = "updateHead" /\ op'.parents = parents
      BY <3>1, <3>2, CallTypes DEF CallInProgress, PC, Name, Op
    <3> QED BY <2>1, <3>1, <3>3, SameCommits DEF OpKnown, MergePc
  <2> QED BY <2>2, <2>4, <2>5, TypeParts
<1>4. ASSUME AbortMerge PROVE TypeOK' /\ OpKnown'
  <2>1. commits' = commits /\ branch' = branch /\ head' = head
    BY <1>4 DEF AbortMerge
  <2>2. RefsOK'
    BY <1>0, <2>1, SameRefs
  <2>3. RestOK'
    BY <1>0, <1>4, <2>1, SameCommits, Numbers DEF AbortMerge, Call, RestOK, area, NoCall, Ref
  <2>4. op' \in CallInProgress /\ op'.pc = "abortMsg"
    BY <1>4, CallTypes DEF AbortMerge, CallInProgress, PC, Name, Op
  <2>5. OpKnown'
    BY <2>4 DEF OpKnown, MergePc
  <2> QED BY <2>2, <2>3, <2>4, <2>5, TypeParts
<1>5. ASSUME NEW c \in Known, NEW mode \in Mode, Reset(c, mode) PROVE TypeOK' /\ OpKnown'
  <2>1. /\ commits' = commits /\ branch' = branch /\ head' = head
        /\ op' = ResetTo("reset", c, mode)
        /\ c \in Number /\ "reset" \in Name /\ mode \in ModeOrNone
    BY <1>5, Numbers DEF Reset, refs, Name, Op, ModeOrNone
  <2>2. RefsOK'
    BY <1>0, <2>1, SameRefs
  <2>3. RestOK'
    BY <1>0, <1>5, <2>1, SameCommits, Numbers DEF Reset, Call, RestOK, refs, area, NoCall
  <2>4. op' \in CallInProgress /\ OpKnown'
    BY <2>1, ResetFields, SameCommits DEF OpKnown, MergePc
  <2> QED BY <2>2, <2>3, <2>4, TypeParts
<1>6. ASSUME NEW b \in Branch, NEW mode \in Mode, Checkout(b, mode) PROVE TypeOK' /\ OpKnown'
  <2>1. /\ commits' = commits /\ branch' = branch /\ head' = b
        /\ op' = ResetTo("checkout", branch[b], mode)
        /\ branch[b] \in Known /\ branch[b] \in Number
        /\ "checkout" \in Name /\ mode \in ModeOrNone
    BY <1>0, <1>6, Numbers DEF Checkout, RefsOK, Ref, Name, Op, ModeOrNone
  <2>2. RefsOK'
    BY <1>0, <2>1, SameCommits DEF RefsOK, HeadCommit
  <2>3. RestOK'
    <3>1. began' \in Found
      BY <1>0, <1>6, BeganTypes DEF Checkout, RestOK
    <3> QED BY <1>0, <1>6, <2>1, <3>1, SameCommits, Numbers DEF Checkout, Call, RestOK, area, NoCall
  <2>4. op' \in CallInProgress /\ OpKnown'
    BY <2>1, ResetFields, SameCommits DEF OpKnown, MergePc
  <2> QED BY <2>2, <2>3, <2>4, TypeParts
<1>7. ASSUME NEW c \in Known, NEW mode \in Mode, CheckoutHash(c, mode)
      PROVE  TypeOK' /\ OpKnown'
  <2>1. /\ commits' = commits /\ branch' = branch /\ head' = c /\ c \notin Branch
        /\ op' = ResetTo("checkout", c, mode)
        /\ c \in Number /\ "checkout" \in Name /\ mode \in ModeOrNone
    BY <1>0, <1>7, Numbers, TreesOfKnown DEF CheckoutHash, RefsOK, Name, Op, ModeOrNone
  <2>2. RefsOK'
    BY <1>0, <2>1, SameCommits DEF RefsOK, HeadCommit
  <2>3. RestOK'
    <3>1. began' \in Found
      BY <1>0, <1>7, BeganTypes DEF CheckoutHash, RestOK
    <3> QED BY <1>0, <1>7, <2>1, <3>1, SameCommits, Numbers DEF CheckoutHash, Call, RestOK, area, NoCall
  <2>4. op' \in CallInProgress /\ OpKnown'
    BY <2>1, ResetFields, SameCommits DEF OpKnown, MergePc
  <2> QED BY <2>2, <2>3, <2>4, TypeParts
<1>8. ASSUME NEW b \in Branch, NEW mode \in Mode, CheckoutCreate(b, mode)
      PROVE  TypeOK' /\ OpKnown'
  <2>1. /\ commits' = commits /\ branch' = [branch EXCEPT ![b] = HeadCommit] /\ head' = head
        /\ branch[b] = None /\ HeadCommit \in Known /\ HeadCommit \in Number
        /\ op' = [ResetTo("checkout", HeadCommit, mode) EXCEPT !.pc = "switch", !.on = b]
        /\ "checkout" \in Name /\ mode \in ModeOrNone
    BY <1>0, <1>8, Numbers DEF CheckoutCreate, RefsOK, Name, Op, ModeOrNone
  <2>2. RefsOK'
    BY <1>0, <2>1, SameCommits DEF RefsOK, HeadCommit, Ref
  <2>3. RestOK'
    <3>1. began' \in Found
      BY <1>0, <1>8, BeganTypes DEF CheckoutCreate, RestOK
    <3> QED BY <1>0, <1>8, <2>1, <3>1, SameCommits, Numbers DEF CheckoutCreate, Call, RestOK, area, NoCall
  <2>4. op' \in CallInProgress /\ op'.pc = "switch" /\ op'.on = b /\ op'.target = HeadCommit
    <3> DEFINE r == ResetTo("checkout", HeadCommit, mode)
    <3>1. r \in CallInProgress /\ r.target = HeadCommit
      BY <2>1, ResetFields
    <3>2. op' = [r EXCEPT !.pc = "switch", !.on = b]
      BY <2>1
    <3> HIDE DEF r
    <3> QED BY <3>1, <3>2 DEF CallInProgress, PC
  <2>5. branch'[b] = HeadCommit
    BY <1>0, <2>1 DEF RefsOK
  <2>6. OpKnown'
    BY <2>1, <2>4, <2>5, SameCommits DEF OpKnown, MergePc
  <2> QED BY <2>2, <2>3, <2>4, <2>6, TypeParts
<1>9. ASSUME NEW p \in Path, NEW v \in Content, Edit(p, v) PROVE TypeOK' /\ OpKnown'
  <2>1. commits' = commits /\ branch' = branch /\ head' = head /\ op' = op /\ op.pc = "idle"
    BY <1>9 DEF Edit, refs, Call, Idle
  <2>2. RefsOK'
    BY <1>0, <2>1, SameRefs
  <2>3. files' \in Tree
    BY <1>0, <1>9 DEF Edit, RestOK, Tree, Content
  <2>4. RestOK'
    BY <1>0, <1>9, <2>1, <2>3, SameCommits, Numbers DEF Edit, Call, RestOK, refs, NoCall
  <2>5. OpKnown'
    BY <2>1 DEF OpKnown, MergePc
  <2> QED BY <1>0, <2>1, <2>2, <2>4, <2>5, TypeParts
<1>10. ASSUME NEW p \in Path, Add(p) PROVE TypeOK' /\ OpKnown'
  <2>1. commits' = commits /\ branch' = branch /\ head' = head /\ op' = op /\ op.pc = "idle"
    BY <1>10 DEF Add, refs, Call, Idle
  <2>2. RefsOK'
    BY <1>0, <2>1, SameRefs
  <2>3. index' \in Index
    <3>1. files[p] \in Content
      BY <1>0 DEF RestOK, Tree, Content
    <3> QED BY <1>0, <1>10, <3>1, EntryTypes, StoreTypes DEF Add, AddFile, RestOK
  <2>4. RestOK'
    BY <1>0, <1>10, <2>1, <2>3, SameCommits, Numbers DEF Add, Call, RestOK, refs, NoCall
  <2>5. OpKnown'
    BY <2>1 DEF OpKnown, MergePc
  <2> QED BY <1>0, <2>1, <2>2, <2>4, <2>5, TypeParts
<1> QED BY <1>1, <1>2, <1>3, <1>4, <1>5, <1>6, <1>7, <1>8, <1>9, <1>10, ContentAssumption
        DEF UserCall, Content

\* getBlob gives a content, or nothing.
LEMMA BlobTypes ==
    ASSUME TypeOK, NEW m \in MergingCommit, m.commit \in Known, NEW p \in Path
    PROVE  BlobOf(m, p) \in Content
<1>1. IndexOf(m) \in Index
  BY DEF IndexOf, MergingCommit, TypeOK
<1>2. /\ IndexOf(m)[p][Merged] \in Content /\ IndexOf(m)[p][OurMode] \in Content
      /\ TreeOf(m.commit)[p] \in Content
  BY <1>1, Stages, TreesOfKnown DEF Index, Entries, Content, Merged, OurMode, Tree, TypeOK
<1> QED BY <1>2 DEF BlobOf

\* createVirtualParent goes on with the next common parent, or gives its
\* virtual base to the merge that waited for it.
LEMMA VirtualFacts ==
    ASSUME TypeOK, OpKnown, VirtualNext
    PROVE  /\ op' \in CallInProgress /\ MergesKnown(op') /\ Outermost(op') = Outermost(op)
           /\ op.pc = "compare" /\ op.stack # <<>>
           /\ \/ op'.pc = "computeParent" /\ op'.stack # <<>>
              \/ op'.pc = "setMergeHead" /\ op'.stack = <<>> /\ op'.base.commit \in Known
              \/ op'.pc = "resetForMerge" /\ op'.stack # <<>> /\ op'.base.commit \in Known
           /\ op'.name = op.name /\ op'.copied = op.copied /\ op'.mode = op.mode
           /\ OuterRight(op') = OuterRight(op) /\ (op'.stack = <<>> => op'.base.virtual)
<1> DEFINE next  == Newest(op.rest)
           frame == Head(op.stack)
<1>1. /\ op \in CallInProgress /\ op.pc = "compare" /\ op.stack # <<>>
      /\ MergesKnown(op) /\ op.base.commit \in Known
      /\ op' = IF op.rest # {}
               THEN [op EXCEPT !.pc = "computeParent", !.left = op.base,
                               !.right = next, !.rest = @ \ {next}]
               ELSE [op EXCEPT !.pc = IF Len(op.stack) = 1 THEN "setMergeHead"
                                                           ELSE "resetForMerge",
                               !.left = frame.left, !.right = frame.right,
                               !.rest = frame.rest, !.stack = Tail(@),
                               !.base = [@ EXCEPT !.virtual = TRUE, !.idx = index]]
  BY DEF VirtualNext, Compared, TypeOK, OpKnown, MergePc
<1>2. CASE op.rest # {}
  <2>1. next \in op.rest /\ next \in Known /\ next \in Number
    <3>1. op.rest \subseteq 1 .. Len(commits) /\ Len(commits) \in Nat
      BY <1>1 DEF MergesKnown, KnownFrame, Known, TypeOK
    <3>2. next \in op.rest
      BY <1>2, <3>1, NewestIn
    <3> HIDE DEF next
    <3> QED BY <3>1, <3>2 DEF Known, Number
  <2>2. op' = [op EXCEPT !.pc = "computeParent", !.left = op.base,
                         !.right = next, !.rest = op.rest \ {next}]
    BY <1>1, <1>2
  <2>3. op.base \in MergingCommit /\ op.rest \ {next} \in SUBSET Nat
    BY <1>1 DEF CallInProgress
  <2> DEFINE X(r, rs, b) ==
                [op EXCEPT !.pc = "computeParent", !.left = b, !.right = r, !.rest = rs]
  <2>4. ASSUME NEW r \in Number, NEW rs \in SUBSET Nat, NEW b \in MergingCommit
        PROVE  /\ X(r, rs, b) \in CallInProgress
               /\ X(r, rs, b).pc = "computeParent" /\ X(r, rs, b).left = b
               /\ X(r, rs, b).right = r
               /\ X(r, rs, b).rest = rs /\ X(r, rs, b).stack = op.stack
               /\ X(r, rs, b).name = op.name /\ X(r, rs, b).copied = op.copied
               /\ X(r, rs, b).mode = op.mode
    BY <1>1 DEF CallInProgress, PC
  <2>2a. op' = X(next, op.rest \ {next}, op.base)
    BY <2>2
  <2> HIDE DEF next, X
  <2>5. /\ op' \in CallInProgress
        /\ op'.pc = "computeParent" /\ op'.left = op.base /\ op'.right = next
        /\ op'.rest = op.rest \ {next} /\ op'.stack = op.stack
        /\ op'.name = op.name /\ op'.copied = op.copied /\ op'.mode = op.mode
    BY <2>1, <2>2a, <2>3, <2>4
  <2>6. MergesKnown(op')
    BY <1>1, <2>1, <2>5 DEF MergesKnown, KnownFrame
  <2>7. Outermost(op') = Outermost(op) /\ OuterRight(op') = OuterRight(op)
    BY <1>1, <2>5 DEF Outermost, OuterRight
  <2> QED BY <1>1, <2>5, <2>6, <2>7
<1>3. CASE op.rest = {}
  <2> DEFINE pc   == IF Len(op.stack) = 1 THEN "setMergeHead" ELSE "resetForMerge"
             base == [op.base EXCEPT !.virtual = TRUE, !.idx = index]
  <2>1. op.stack \in Seq(Frame) /\ op.base \in MergingCommit
    BY <1>1 DEF CallInProgress
  <2>2. /\ Len(op.stack) \in Nat \ {0} /\ 1 \in 1 .. Len(op.stack)
        /\ frame = op.stack[1] /\ frame \in Frame
        /\ Tail(op.stack) \in Seq(Frame) /\ Len(Tail(op.stack)) = Len(op.stack) - 1
        /\ \A i \in 1 .. Len(op.stack) - 1 : Tail(op.stack)[i] = op.stack[i + 1]
    BY <1>1, <2>1, EmptySeq, HeadTailProperties
  <2>3. base \in MergingCommit /\ base.commit = op.base.commit /\ base.virtual
    BY <2>1 DEF MergingCommit, TypeOK
  <2>4. op' = [op EXCEPT !.pc = pc, !.left = frame.left, !.right = frame.right,
                         !.rest = frame.rest, !.stack = Tail(op.stack), !.base = base]
    BY <1>1, <1>3
  <2>5. /\ pc \in PC /\ frame.left \in MergingCommit /\ frame.right \in Number
        /\ frame.rest \in SUBSET Nat /\ Tail(op.stack) \in Seq(Frame) /\ base \in MergingCommit
    BY <2>2, <2>3 DEF PC, Frame
  <2> HIDE DEF frame, pc, base
  <2>6. op' \in CallInProgress
    BY <1>1, <2>4, <2>5, ZenonT(30) DEF CallInProgress
  <2>7. /\ op'.pc = pc /\ op'.left = frame.left /\ op'.right = frame.right
        /\ op'.rest = frame.rest /\ op'.stack = Tail(op.stack) /\ op'.base = base
        /\ op'.name = op.name /\ op'.copied = op.copied /\ op'.mode = op.mode
    BY <1>1, <2>4, ZenonT(30) DEF CallInProgress
  <2>8. MergesKnown(op')
    <3>1. KnownFrame(op')
      BY <1>1, <2>2, <2>7 DEF MergesKnown, KnownFrame
    <3>2. ASSUME NEW i \in 1 .. Len(op'.stack) PROVE KnownFrame(op'.stack[i])
      <4>1. i + 1 \in 1 .. Len(op.stack) /\ op'.stack[i] = op.stack[i + 1]
        BY <2>2, <2>7
      <4> QED BY <1>1, <4>1 DEF MergesKnown
    <3> QED BY <3>1, <3>2 DEF MergesKnown
  <2>9. CASE Len(op.stack) = 1
    <3>1. op'.stack = <<>>
      <4>1. op'.stack \in Seq(Frame) /\ Len(op'.stack) = 0
        BY <2>2, <2>7, <2>9
      <4> QED BY <4>1, EmptySeq
    <3>2. Outermost(op') = Outermost(op) /\ OuterRight(op') = OuterRight(op)
      BY <1>1, <2>2, <2>7, <2>9, <3>1 DEF Outermost, OuterRight
    <3> QED BY <1>1, <2>3, <2>6, <2>7, <2>8, <2>9, <3>1, <3>2 DEF pc
  <2>10. CASE Len(op.stack) # 1
    <3>1. op'.stack # <<>> /\ Len(op'.stack) = Len(op.stack) - 1
          /\ op'.stack[Len(op'.stack)] = op.stack[Len(op.stack)]
      <4> DEFINE n == Len(op.stack)
                 m == Len(op'.stack)
      <4>0. n \in Nat \ {0} /\ n # 1 /\ m = n - 1
        BY <2>2, <2>7, <2>10
      <4>1. m = n - 1 /\ m # 0 /\ m \in 1 .. n - 1
        <5> HIDE DEF n, m
        <5> QED BY <4>0
      <4>2. op'.stack[Len(op'.stack)] = op.stack[Len(op.stack)]
        BY <2>2, <2>7, <4>1
      <4> QED BY <4>1, <4>2
    <3>2. Outermost(op') = Outermost(op) /\ OuterRight(op') = OuterRight(op)
      BY <1>1, <3>1 DEF Outermost, OuterRight
    <3> QED BY <1>1, <2>3, <2>6, <2>7, <2>8, <2>10, <3>1, <3>2 DEF pc
  <2> QED BY <2>9, <2>10
<1> QED BY <1>2, <1>3

\* compareCommitsChanges: the entries of a conflict, what the cache and what
\* the file get, for a path that both sides changed.
LEMMA CompareTypes ==
    ASSUME TypeOK, OpKnown, NEW p \in Path, CompareBoth(p)
    PROVE  /\ index' \in Index /\ files' \in Tree /\ blobs' \in Index
<1> DEFINE base   == BaseBlob(p)
           ours   == OursBlob(p)
           theirs == TreeOf(op.right)[p]
<1>1. /\ op.pc = "compare" /\ op.left \in MergingCommit /\ op.base \in MergingCommit
      /\ op.left.commit \in Known /\ op.base.commit \in Known /\ op.right \in Known
      /\ commits \in Seq(Commits) /\ index \in Index /\ blobs \in Index /\ files \in Tree
      /\ op.snap \in Index
  BY DEF CompareBoth, Step, TypeOK, CallInProgress, OpKnown, MergePc, MergesKnown, KnownFrame
<1>2. base \in Content /\ ours \in Content /\ theirs \in Content /\ Absent \in Content
  BY <1>1, BlobTypes, TreesOfKnown DEF BaseBlob, OursBlob, Content, Tree
<1>3. /\ Conflict(base, ours, theirs) \in Entries
      /\ Conflict(Absent, ours, theirs) \in Entries
  <2> HIDE DEF base, ours, theirs
  <2> QED BY <1>2, EntryTypes
<1>4. ASSUME NEW e \in Entries
      PROVE  /\ Cache(p, e) \in Index
             /\ [index EXCEPT ![p] = e] \in Index
             /\ [op.snap EXCEPT ![p] = e] \in Index
  BY <1>1, CacheTypes, StoreTypes
<1>5. ASSUME NEW b \in Content, NEW o \in Content, NEW t \in Content, NEW r,
             r \in Diff3Results(b, o, t)
      PROVE  r \in Content /\ Just(r) \in Entries
  <2>1. r \in Content
    BY <1>5, ContentAssumption DEF Diff3Results, Content
  <2> QED BY <2>1, EntryTypes
<1>6. ASSUME NEW b, NEW o, NEW t, Conflict(b, o, t) \in Entries, AddConflict(p, b, o, t)
      PROVE  index' \in Index
  <2> DEFINE e == Conflict(b, o, t)
  <2>1. index' = [index EXCEPT ![p] = e] \/ index' = [op.snap EXCEPT ![p] = e]
    BY <1>6 DEF AddConflict
  <2> HIDE DEF e
  <2> QED BY <1>4, <1>6, <2>1 DEF e
<1>7. ASSUME NEW r \in Content PROVE [files EXCEPT ![p] = r] \in Tree
  BY <1>1 DEF Tree, Content
<1>8. Marked \in Content
  BY ContentAssumption DEF Content
<1> DEFINE e == Conflict(base, ours, theirs)
           d == Conflict(Absent, ours, theirs)
<1>9. \/ /\ blobs' = Cache(p, e)
         /\ \E r \in Diff3Results(base, ours, theirs) :
               /\ files' = [files EXCEPT ![p] = r]
               /\ IF r = Marked THEN AddConflict(p, base, ours, theirs) ELSE AddFile(p, r)
      \/ /\ blobs' = Cache(p, d)
         /\ files' = [files EXCEPT ![p] = Marked]
         /\ AddConflict(p, Absent, ours, theirs)
      \/ /\ blobs' = Cache(p, e)
         /\ AddConflict(p, base, ours, theirs)
         /\ files' = files
      \/ UNCHANGED area
  BY DEF CompareBoth
<1> HIDE DEF base, ours, theirs
<1>10. CASE /\ blobs' = Cache(p, e)
            /\ \E r \in Diff3Results(base, ours, theirs) :
                  /\ files' = [files EXCEPT ![p] = r]
                  /\ IF r = Marked THEN AddConflict(p, base, ours, theirs) ELSE AddFile(p, r)
  <2>1. PICK r \in Diff3Results(base, ours, theirs) :
              /\ files' = [files EXCEPT ![p] = r]
              /\ IF r = Marked THEN AddConflict(p, base, ours, theirs) ELSE AddFile(p, r)
    BY <1>10
  <2>2. r \in Content /\ Just(r) \in Entries
    BY <1>2, <1>5
  <2>3. index' \in Index
    BY <1>3, <1>4, <1>6, <2>1, <2>2 DEF AddFile
  <2> QED BY <1>3, <1>4, <1>7, <1>10, <2>1, <2>2, <2>3
<1>11. CASE /\ blobs' = Cache(p, d)
            /\ files' = [files EXCEPT ![p] = Marked]
            /\ AddConflict(p, Absent, ours, theirs)
  BY <1>3, <1>4, <1>6, <1>7, <1>8, <1>11
<1>12. CASE /\ blobs' = Cache(p, e)
            /\ AddConflict(p, base, ours, theirs)
            /\ files' = files
  BY <1>1, <1>3, <1>4, <1>6, <1>12
<1>13. CASE UNCHANGED area
  BY <1>1, <1>13 DEF area
<1> QED BY <1>9, <1>10, <1>11, <1>12, <1>13

\* No call is in progress once one returns.
LEMMA Returned ==
    ASSUME op' = NoOp
    PROVE  op' \in CallInProgress /\ OpKnown' /\ Idle'
  BY NoOpFields DEF OpKnown, MergePc, Idle

\* The steps of a merge leave what is stored typed.
LEMMA MergeStepTypes ==
    ASSUME TypeOK, OpKnown, MergeStep
    PROVE  TypeOK' /\ OpKnown'
<1>0. /\ RefsOK /\ RestOK /\ op \in CallInProgress /\ commits \in Seq(Commits)
      /\ op.pc \in MergePc => /\ op.left.commit \in Known /\ op.right \in Known
                              /\ op.left \in MergingCommit /\ op.base \in MergingCommit
  BY TypeParts DEF RefsOK, OpKnown, MergesKnown, KnownFrame, CallInProgress
<1>1. CASE SetMergeHead
  <2>1. commits' = commits /\ branch' = branch /\ head' = head /\ op.pc = "setMergeHead"
        /\ op' = [op EXCEPT !.pc = "setOrigHead"] /\ "setOrigHead" \in PC
    BY <1>1 DEF SetMergeHead, Step, At, PC
  <2>2. RefsOK'
    BY <1>0, <2>1, SameRefs
  <2>3. RestOK'
    BY <1>0, <1>1, <2>1, SameCommits DEF SetMergeHead, Step, RestOK, area, ghosts, MergePc, Ref
  <2>4. op' \in CallInProgress /\ OpKnown'
    BY <1>0, <2>1, MovesOn, SameCommits, SameMerges DEF OpKnown, MergePc, MergesKnown, KnownFrame
  <2> QED BY <2>2, <2>3, <2>4, TypeParts
<1>2. CASE SetOrigHead
  <2>1. commits' = commits /\ branch' = branch /\ head' = head /\ op.pc = "setOrigHead"
        /\ op' = [op EXCEPT !.pc = "resetForMerge"] /\ "resetForMerge" \in PC
    BY <1>2 DEF SetOrigHead, Step, At, PC
  <2>2. RefsOK'
    BY <1>0, <2>1, SameRefs
  <2>3. RestOK'
    BY <1>0, <1>2, <2>1, SameCommits DEF SetOrigHead, Step, RestOK, area, ghosts, MergePc, Ref
  <2>4. op' \in CallInProgress /\ OpKnown'
    BY <1>0, <2>1, MovesOn, SameCommits, SameMerges DEF OpKnown, MergePc, MergesKnown, KnownFrame
  <2> QED BY <2>2, <2>3, <2>4, TypeParts
<1>3. CASE ResetForMerge
  <2> DEFINE from  == IF ~op.base.virtual THEN TreeOf(op.base.commit)
                      ELSE Seen(IF use.shared THEN index' ELSE op.base.idx)
             left  == {p \in Path : from[p] # TreeOf(op.left.commit)[p]}
             right == {p \in Path : from[p] # TreeOf(op.right)[p]}
  <2>1. commits' = commits /\ branch' = branch /\ head' = head /\ op.pc = "resetForMerge"
        /\ index' = ResetIndexTo(index, TreeOf(op.left.commit))
        /\ op' = [op EXCEPT !.pc = "compare", !.snap = index', !.from = from,
                            !.both = left \cap right, !.onlyRight = right \ left]
    BY <1>3 DEF ResetForMerge, Step, refs
  <2>2. RefsOK'
    BY <1>0, <2>1, SameRefs
  <2>3. index' \in Index
    BY <1>0, <2>1, ResetFacts, TreesOfKnown DEF RestOK, MergePc
  <2>4. RestOK'
    BY <1>0, <1>3, <2>1, <2>3, SameCommits DEF ResetForMerge, Step, RestOK, refs, Ref
  <2>5. from \in Tree
    <3>1. op.base.commit \in Known /\ op.base.idx \in Index
      BY <1>0, <2>1 DEF OpKnown, MergePc, MergingCommit
    <3> QED BY <1>0, <2>3, <3>1, TreesOfKnown, TreeAndIndex
  <2>6. left \cap right \in SUBSET Path /\ right \ left \in SUBSET Path
    OBVIOUS
  <2> HIDE DEF from, left, right
  <2>7. /\ op' \in CallInProgress
        /\ op'.pc = "compare" /\ op'.left = op.left /\ op'.right = op.right
        /\ op'.base = op.base /\ op'.rest = op.rest /\ op'.stack = op.stack
    BY <1>0, <2>1, <2>3, <2>5, <2>6 DEF CallInProgress, PC
  <2>8. OpKnown'
    BY <2>1, <2>7, SameCommits, SameMerges DEF OpKnown, MergePc, MergesKnown, KnownFrame
  <2> QED BY <2>2, <2>4, <2>7, <2>8, TypeParts
<1>4. ASSUME NEW p \in Path, CompareBoth(p) PROVE TypeOK' /\ OpKnown'
  <2> DEFINE snap == IF Conflicted(index'[p]) THEN index' ELSE op.snap
  <2>1. commits' = commits /\ branch' = branch /\ head' = head /\ op.pc = "compare"
        /\ op' = [op EXCEPT !.both = @ \ {p}, !.snap = snap]
    BY <1>4 DEF CompareBoth, Step, refs
  <2>2. RefsOK'
    BY <1>0, <2>1, SameRefs
  <2>3. index' \in Index /\ files' \in Tree /\ blobs' \in Index
    BY <1>0, <1>4, <2>1, CompareTypes DEF MergePc
  <2>4. RestOK'
    BY <1>0, <1>4, <2>1, <2>3, SameCommits DEF CompareBoth, Step, RestOK, refs, ghosts
  <2>5. snap \in Index /\ op.both \ {p} \in SUBSET Path
    BY <1>0, <2>3 DEF CallInProgress
  <2> HIDE DEF snap
  <2>6. /\ op' \in CallInProgress
        /\ op'.pc = "compare" /\ op'.left = op.left /\ op'.right = op.right
        /\ op'.base = op.base /\ op'.rest = op.rest /\ op'.stack = op.stack
    BY <1>0, <2>1, <2>5 DEF CallInProgress
  <2>7. OpKnown'
    BY <2>1, <2>6, SameCommits, SameMerges DEF OpKnown, MergePc, MergesKnown, KnownFrame
  <2> QED BY <2>2, <2>4, <2>6, <2>7, TypeParts
<1>5. ASSUME NEW p \in Path, CompareFails(p) PROVE TypeOK' /\ OpKnown'
  <2>1. commits' = commits /\ branch' = branch /\ head' = head /\ op.pc = "compare"
        /\ op' = NoOp /\ last' = last
        /\ blobs' = Kept(Cache(p, Conflict(BaseBlob(p), Absent, Absent)))
    BY <1>5 DEF CompareFails, Step, refs, Fail
  <2>2. RefsOK'
    BY <1>0, <2>1, SameRefs
  <2>3. blobs' \in Index
    <3>1. op.base.commit \in Known
      BY <2>1 DEF OpKnown, MergePc
    <3>2. BaseBlob(p) \in Content /\ Absent \in Content
      BY <1>0, <2>1, <3>1, BlobTypes DEF BaseBlob, Content, MergePc
    <3>3. Conflict(BaseBlob(p), Absent, Absent) \in Entries
      BY <3>2, EntryTypes
    <3>4. Cache(p, Conflict(BaseBlob(p), Absent, Absent)) \in Index
      BY <1>0, <3>3, CacheTypes DEF RestOK
    <3> QED BY <2>1, <3>4, TreeAndIndex DEF Kept, NoBlobs
  <2>4. RestOK'
    BY <1>0, <1>5, <2>1, <2>3, SameCommits DEF CompareFails, Step, RestOK, refs
  <2> QED BY <2>1, <2>2, <2>4, Returned, TypeParts
<1>6. ASSUME NEW p \in Path, TakeTheirs(p) PROVE TypeOK' /\ OpKnown'
  <2> DEFINE theirs == TreeOf(op.right)[p]
  <2>1. commits' = commits /\ branch' = branch /\ head' = head /\ op.pc = "compare"
        /\ op' = [op EXCEPT !.onlyRight = @ \ {p}]
        /\ index' = [index EXCEPT ![p] = Just(theirs)]
        /\ files' = [files EXCEPT ![p] = theirs]
    BY <1>6 DEF TakeTheirs, Step, refs, AddFile
  <2>2. RefsOK'
    BY <1>0, <2>1, SameRefs
  <2>3. theirs \in Content
    BY <1>0, <2>1, TreesOfKnown DEF Tree, Content, MergePc
  <2>4. index' \in Index /\ files' \in Tree
    <3> HIDE DEF theirs
    <3> QED BY <1>0, <2>1, <2>3, EntryTypes, StoreTypes DEF RestOK, Tree, Content
  <2>5. RestOK'
    BY <1>0, <1>6, <2>1, <2>4, SameCommits DEF TakeTheirs, Step, RestOK, refs, ghosts
  <2>6. /\ op' \in CallInProgress
        /\ op'.pc = "compare" /\ op'.left = op.left /\ op'.right = op.right
        /\ op'.base = op.base /\ op'.rest = op.rest /\ op'.stack = op.stack
    BY <1>0, <2>1 DEF CallInProgress
  <2>7. OpKnown'
    BY <2>1, <2>6, SameCommits, SameMerges DEF OpKnown, MergePc, MergesKnown, KnownFrame
  <2> QED BY <2>2, <2>5, <2>6, <2>7, TypeParts
<1>7. CASE ComputeParent
  <2> DEFINE parents == CommonParents(op.left.commit, op.right)
  <2>1. commits' = commits /\ branch' = branch /\ head' = head /\ op.pc = "computeParent"
    BY <1>7 DEF ComputeParent, Step, refs
  <2>2. RefsOK'
    BY <1>0, <2>1, SameRefs
  <2>3. CASE Fail /\ blobs' = Kept(blobs)
    <3>1. op' = NoOp /\ last' = last /\ blobs' \in Index
      BY <1>0, <2>3, TreeAndIndex DEF Fail, Kept, NoBlobs, RestOK
    <3>2. RestOK'
      BY <1>0, <1>7, <2>1, <3>1, SameCommits DEF ComputeParent, Step, RestOK, refs
    <3> QED BY <2>2, <3>1, <3>2, Returned, TypeParts
  <2>4. CASE parents # {} /\ op' = Based(op, parents) /\ UNCHANGED <<blobs, last>>
    <3>1. RestOK'
      BY <1>0, <1>7, <2>1, <2>4, SameCommits DEF ComputeParent, Step, RestOK, refs
    <3>2. parents \subseteq Known /\ MergesKnown(op)
      BY <2>1, CommonAreKnown DEF OpKnown, MergePc
    <3> HIDE DEF parents
    <3>3. op' \in CallInProgress /\ MergesKnown(op')
      BY <1>0, <2>4, <3>2, BasedFacts
    <3>4. \/ op'.pc = "computeParent"
          \/ op'.pc \in {"setMergeHead", "resetForMerge"} /\ op'.base.commit \in Known
      BY <1>0, <2>4, <3>2, BasedFacts
    <3>5. OpKnown'
      BY <2>1, <3>3, <3>4, SameCommits, SameMerges DEF OpKnown, MergePc
    <3> QED BY <2>2, <3>1, <3>3, <3>5, TypeParts
  <2> QED BY <1>7, <2>3, <2>4, Zenon DEF ComputeParent
<1>8. CASE VirtualNext
  <2>1. commits' = commits /\ branch' = branch /\ head' = head
    BY <1>8 DEF VirtualNext, refs
  <2>2. RefsOK'
    BY <1>0, <2>1, SameRefs
  <2>3. RestOK'
    BY <1>0, <1>8, <2>1, SameCommits DEF VirtualNext, RestOK, refs, area, ghosts
  <2>4. op' \in CallInProgress /\ OpKnown'
    BY <1>8, <2>1, VirtualFacts, SameCommits, SameMerges DEF OpKnown, MergePc
  <2> QED BY <2>2, <2>3, <2>4, TypeParts
<1>9. CASE SetMergeMsg
  <2>1. commits' = commits /\ branch' = branch /\ head' = head /\ op.pc = "compare"
        /\ op' = NoOp /\ last' = [name |-> op.name, mode |-> op.mode]
        /\ blobs' = Kept(blobs) /\ joined' = op.right /\ mergeMsg' = TRUE
    BY <1>9 DEF SetMergeMsg, Compared, Succeed
  <2>2. RefsOK'
    BY <1>0, <2>1, SameRefs
  <2>3. blobs' \in Index /\ last' \in [name : Name, mode : ModeOrNone]
    BY <1>0, <2>1, TreeAndIndex DEF Kept, NoBlobs, RestOK, CallInProgress
  <2>4. RestOK'
    BY <1>0, <1>9, <2>1, <2>3, SameCommits DEF SetMergeMsg, RestOK, MergePc, Ref
  <2> QED BY <2>1, <2>2, <2>4, Returned, TypeParts
<1> QED BY <1>1, <1>2, <1>3, <1>4, <1>5, <1>6, <1>7, <1>8, <1>9 DEF MergeStep

\* A reset of the index keeps its target, whatever call it is part of.
LEMMA ResetTypes ==
    ASSUME TypeOK, OpKnown, ResetHead \/ ResetIndex \/ ResetWorktree \/ SwitchHead
    PROVE  TypeOK' /\ OpKnown'
<1>0. /\ RefsOK /\ RestOK /\ op \in CallInProgress /\ commits \in Seq(Commits)
      /\ {"reset", "resetIndex", "resetWorktree", "abortEnd"} \subseteq PC
  BY TypeParts DEF RefsOK, PC
<1>a. [name |-> op.name, mode |-> op.mode] \in [name : Name, mode : ModeOrNone]
  BY <1>0 DEF CallInProgress
<1>1. CASE ResetHead
  <2>1. commits' = commits /\ op.pc = "reset" /\ op.target \in Known
    BY <1>1 DEF ResetHead, Step, OpKnown
  <2>2. CASE Fail /\ UNCHANGED <<branch, head>>
    <3>1. RefsOK'
      BY <1>0, <2>1, <2>2, SameRefs
    <3>2. RestOK' /\ op' = NoOp
      BY <1>0, <1>1, <2>1, <2>2, SameCommits DEF ResetHead, Step, Fail, RestOK, area
    <3> QED BY <3>1, <3>2, Returned, TypeParts
  <2>3. CASE /\ SetHead(op.target)
             /\ IF op.mode = "soft" THEN Succeed ELSE At("resetIndex") /\ UNCHANGED last
    <3>1. RefsOK'
      BY <1>0, <2>1, <2>3, SetHeadFacts
    <3>2. RestOK'
      BY <1>0, <1>a, <1>1, <2>1, <2>3, SameCommits DEF ResetHead, Step, Succeed, RestOK, area
    <3>3. CASE op' = NoOp
      BY <3>1, <3>2, <3>3, Returned, TypeParts
    <3>4. CASE op' = [op EXCEPT !.pc = "resetIndex"]
      <4>1. op' \in CallInProgress /\ op'.pc = "resetIndex" /\ op'.target = op.target
        BY <1>0, <3>4, MovesOn
      <4>2. OpKnown'
        BY <2>1, <4>1, SameCommits DEF OpKnown, MergePc
      <4> QED BY <3>1, <3>2, <4>1, <4>2, TypeParts
    <3> QED BY <2>3, <3>3, <3>4 DEF Succeed, At
  <2> QED BY <1>1, <2>2, <2>3, Zenon DEF ResetHead
<1>2. CASE ResetIndex
  <2>1. commits' = commits /\ branch' = branch /\ head' = head /\ op.pc = "resetIndex"
        /\ op.target \in Known /\ index' = ResetIndexTo(index, TreeOf(op.target))
        /\ joined' = None
    BY <1>2 DEF ResetIndex, Step, refs, OpKnown
  <2>2. RefsOK'
    BY <1>0, <2>1, SameRefs
  <2>3. index' \in Index
    BY <1>0, <2>1, ResetFacts, TreesOfKnown DEF RestOK
  <2>4. RestOK'
    BY <1>0, <1>a, <1>2, <2>1, <2>3, SameCommits DEF ResetIndex, Step, Succeed, RestOK, refs, Ref
  <2>5. CASE op' = NoOp
    BY <2>2, <2>4, <2>5, Returned, TypeParts
  <2>6. CASE op' = [op EXCEPT !.pc = "resetWorktree"]
    <3>1. op' \in CallInProgress /\ op'.pc = "resetWorktree" /\ op'.target = op.target
      BY <1>0, <2>6, MovesOn
    <3>2. OpKnown'
      BY <2>1, <3>1, SameCommits DEF OpKnown, MergePc
    <3> QED BY <2>2, <2>4, <3>1, <3>2, TypeParts
  <2> QED BY <1>2, <2>5, <2>6 DEF ResetIndex, Succeed, At
<1>3. CASE ResetWorktree
  <2> DEFINE t       == TreeOf(op.target)
             changed == {p \in Path : files[p] # First(index[p])}
             written == {p \in changed : First(index[p]) # Absent}
  <2>1. commits' = commits /\ branch' = branch /\ head' = head /\ op.pc = "resetWorktree"
        /\ op.target \in Known
    BY <1>3 DEF ResetWorktree, Step, refs, OpKnown
  <2>2. RefsOK'
    BY <1>0, <2>1, SameRefs
  <2>3. t \in Tree
    BY <1>0, <2>1, TreesOfKnown
  <2>4. CASE Fail /\ UNCHANGED <<index, files>>
    <3>1. RestOK' /\ op' = NoOp
      BY <1>0, <1>3, <2>1, <2>4, SameCommits DEF ResetWorktree, Step, Fail, RestOK, refs
    <3> QED BY <2>2, <3>1, Returned, TypeParts
  <2>5. CASE /\ files' = [p \in Path |-> CASE p \in written -> t[p]
                                           [] p \in changed \ written -> Absent
                                           [] OTHER -> files[p]]
             /\ index' = [p \in Path |-> IF p \in written THEN Just(t[p]) ELSE index[p]]
             /\ IF op.name = "abort" THEN At("abortEnd") /\ UNCHANGED last ELSE Succeed
    <3>1. files' \in Tree
      <4> HIDE DEF t, written, changed
      <4> QED BY <1>0, <2>3, <2>5 DEF Tree, RestOK
    <3>2. index' \in Index
      <4>1. ASSUME NEW p \in Path PROVE Just(t[p]) \in Entries
        BY <2>3, EntryTypes DEF Tree, Content
      <4> HIDE DEF t, written
      <4> QED BY <1>0, <2>5, <4>1 DEF Index, RestOK
    <3>3. RestOK'
      BY <1>0, <1>a, <1>3, <2>1, <2>5, <3>1, <3>2, SameCommits
         DEF ResetWorktree, Step, Succeed, RestOK, refs
    <3>4. CASE op' = NoOp
      BY <2>2, <3>3, <3>4, Returned, TypeParts
    <3>5. CASE op' = [op EXCEPT !.pc = "abortEnd"]
      <4>1. op' \in CallInProgress /\ op'.pc = "abortEnd"
        BY <1>0, <3>5, MovesOn
      <4>2. OpKnown'
        BY <4>1 DEF OpKnown, MergePc
      <4> QED BY <2>2, <3>3, <4>1, <4>2, TypeParts
    <3> QED BY <2>5, <3>4, <3>5 DEF Succeed, At
  <2> QED BY <1>3, <2>4, <2>5 DEF ResetWorktree
<1>4. CASE SwitchHead
  <2>1. commits' = commits /\ branch' = branch /\ head' = op.on /\ op.pc = "switch"
        /\ op.on \in Branch /\ branch[op.on] \in Known /\ op.target \in Known
        /\ op' = [op EXCEPT !.pc = "reset"]
    BY <1>4 DEF SwitchHead, Step, At, OpKnown
  <2>2. RefsOK'
    BY <1>0, <2>1, SameCommits DEF RefsOK, HeadCommit
  <2>3. RestOK'
    BY <1>0, <1>4, <2>1, SameCommits DEF SwitchHead, Step, RestOK, area, ghosts
  <2>4. op' \in CallInProgress /\ op'.pc = "reset" /\ op'.target = op.target
    BY <1>0, <2>1, MovesOn
  <2>5. OpKnown'
    BY <2>1, <2>4, SameCommits DEF OpKnown, MergePc
  <2> QED BY <2>2, <2>3, <2>4, <2>5, TypeParts
<1> QED BY <1>1, <1>2, <1>3, <1>4

\* A commit that is stored is the last one; those before it stay.
LEMMA StoredCommit ==
    ASSUME TypeOK, OpKnown, UpdateHead
    PROVE  /\ commits' \in Seq(Commits) /\ Len(commits') = Len(commits) + 1
           /\ Known' = Known \cup {Len(commits')} /\ Len(commits') \notin Known
           /\ Ref \subseteq Ref'
           /\ \A c \in Known : commits'[c] = commits[c]
           /\ commits'[Len(commits')] = [tree |-> Seen(index), parents |-> op.parents]
<1> DEFINE c == [tree |-> Seen(index), parents |-> op.parents]
<1>1. c \in Commits
  <2>1. Seen(index) \in Tree /\ op.parents \in SUBSET Nat
    BY TreeAndIndex DEF TypeOK, CallInProgress
  <2> QED BY <2>1 DEF Commits
<1>2. commits \in Seq(Commits) /\ commits' = Append(commits, c)
  BY DEF TypeOK, UpdateHead
<1> HIDE DEF c
<1>3. /\ commits' \in Seq(Commits) /\ Len(commits') = Len(commits) + 1
      /\ \A k \in 1 .. Len(commits) : commits'[k] = commits[k]
      /\ commits'[Len(commits) + 1] = c
      /\ Len(commits) \in Nat
  BY <1>1, <1>2, AppendProperties, LenProperties
<1>4. Known' = Known \cup {Len(commits')} /\ Len(commits') \notin Known
  BY <1>3 DEF Known
<1> QED BY <1>3, <1>4 DEF c, Known, Ref

\* The other steps leave what is stored typed.
LEMMA OtherTypes ==
    ASSUME TypeOK, OpKnown, OtherStep
    PROVE  TypeOK' /\ OpKnown'
<1>0. /\ RefsOK /\ RestOK /\ op \in CallInProgress /\ commits \in Seq(Commits)
      /\ {"removeMergeHead", "removeMergeMsg", "removeOrigHead"} \subseteq PC
  BY TypeParts DEF RefsOK, PC
<1>a. [name |-> op.name, mode |-> op.mode] \in [name : Name, mode : ModeOrNone]
  BY <1>0 DEF CallInProgress
<1>1. CASE ResetHead \/ ResetIndex \/ ResetWorktree \/ SwitchHead
  BY <1>1, ResetTypes
<1>2. CASE AbortMsg
  <2>1. commits' = commits /\ branch' = branch /\ head' = head /\ op.pc = "abortMsg"
    BY <1>2 DEF AbortMsg, Step
  <2>2. RefsOK'
    BY <1>0, <2>1, SameRefs
  <2>3. RestOK'
    BY <1>0, <1>2, <2>1, SameCommits DEF AbortMsg, Step, Fail, RestOK, area
  <2>4. CASE op' = NoOp
    BY <2>2, <2>3, <2>4, Returned, TypeParts
  <2>5. CASE origHead # None /\ op' = ResetTo("abort", origHead, "hard")
    <3>1. origHead \in Known /\ origHead \in Number
          /\ "abort" \in Name /\ "hard" \in ModeOrNone
      BY <1>0, <2>5, Numbers DEF RestOK, Ref, Name, Op, ModeOrNone, Mode
    <3>2. op' \in CallInProgress /\ op'.pc = "reset" /\ op'.target = origHead
      BY <2>5, <3>1, ResetFields
    <3>3. OpKnown'
      BY <2>1, <3>1, <3>2, SameCommits DEF OpKnown, MergePc
    <3> QED BY <2>2, <2>3, <3>2, <3>3, TypeParts
  <2> QED BY <1>2, <2>4, <2>5 DEF AbortMsg, Fail
<1>3. CASE AbortEnd \/ RemoveOrigHead
  <2>1. commits' = commits /\ branch' = branch /\ head' = head /\ op' = NoOp
    BY <1>3 DEF AbortEnd, RemoveOrigHead, Step, Succeed
  <2>2. RefsOK'
    BY <1>0, <2>1, SameRefs
  <2>3. RestOK'
    BY <1>0, <1>a, <1>3, <2>1, SameCommits, TreeAndIndex
       DEF AbortEnd, RemoveOrigHead, Step, Succeed, RestOK, Ref, NoBlobs
  <2> QED BY <2>1, <2>2, <2>3, Returned, TypeParts
<1>4. CASE UpdateHead
  <2> DEFINE new == Len(commits')
  <2>1. /\ op.pc = "updateHead" /\ SetHead(new)
        /\ op' = [op EXCEPT !.pc = "removeMergeHead", !.parents = {}]
    BY <1>4 DEF UpdateHead, Step
  <2>2. /\ commits' \in Seq(Commits) /\ Known' = Known \cup {new} /\ Ref \subseteq Ref'
        /\ new \in Known' /\ Known \subseteq Known' /\ new \in Ref'
    BY <1>4, StoredCommit DEF Ref
  <2> HIDE DEF new
  <2>3. RefsOK'
    <3>1. new \notin Branch
      <4>1. new \in Nat
        BY <2>2 DEF Known
      <4> QED BY <4>1, ContentAssumption
    <3>2. branch' \in [Branch -> Ref'] /\ head' \in Branch \cup Known' /\ HeadCommit' = new
      BY <1>0, <2>1, <2>2, <3>1 DEF RefsOK, SetHead, HeadCommit
    <3> QED BY <2>2, <3>2 DEF RefsOK
  <2>4. RestOK'
    BY <1>0, <1>4, <2>2 DEF UpdateHead, Step, RestOK, area, ghosts
  <2>5. op' \in CallInProgress /\ op'.pc = "removeMergeHead"
    BY <1>0, <2>1 DEF CallInProgress
  <2>6. OpKnown'
    BY <2>5 DEF OpKnown, MergePc
  <2> QED BY <2>3, <2>4, <2>5, <2>6, TypeParts
<1>5. CASE RemoveMergeHead \/ RemoveMergeMsg
  <2>1. commits' = commits /\ branch' = branch /\ head' = head
        /\ \E x \in {"removeMergeMsg", "removeOrigHead"} : op' = [op EXCEPT !.pc = x]
    BY <1>5 DEF RemoveMergeHead, RemoveMergeMsg, At
  <2>2. RefsOK'
    BY <1>0, <2>1, SameRefs
  <2>3. RestOK'
    BY <1>0, <1>5, <2>1, SameCommits
       DEF RemoveMergeHead, RemoveMergeMsg, Step, RestOK, area, ghosts, Ref
  <2>4. op' \in CallInProgress /\ op'.pc \in {"removeMergeMsg", "removeOrigHead"}
    BY <1>0, <2>1, MovesOn
  <2>5. OpKnown'
    BY <2>4 DEF OpKnown, MergePc
  <2> QED BY <2>2, <2>3, <2>4, <2>5, TypeParts
<1> QED BY <1>1, <1>2, <1>3, <1>4, <1>5 DEF OtherStep

\* Files that a step left half written are files.
LEMMA HalfTypes ==
    ASSUME TypeOK, OpKnown, NEW f \in HalfWritten
    PROVE  f \in Tree
<1>1. /\ files \in Tree /\ commits \in Seq(Commits) /\ Absent \in Content /\ Marked \in Content
  BY ContentAssumption DEF TypeOK, Content
<1>2. CASE op.pc = "compare"
  <2>1. /\ op.left \in MergingCommit /\ op.base \in MergingCommit
        /\ op.left.commit \in Known /\ op.base.commit \in Known /\ op.right \in Known
    BY <1>2 DEF TypeOK, CallInProgress, OpKnown, MergePc, MergesKnown, KnownFrame
  <2>2. ASSUME NEW p \in Path, NEW v \in Compares(p)
        PROVE  v \in Content
    <3> DEFINE base   == BaseBlob(p)
               ours   == OursBlob(p)
               theirs == TreeOf(op.right)[p]
    <3>1. base \in Content /\ ours \in Content /\ theirs \in Content
      BY <1>1, <2>1, BlobTypes, TreesOfKnown DEF BaseBlob, OursBlob, Content, Tree
    <3>2. v \in Diff3Results(base, ours, theirs) \/ v = Marked \/ v = theirs
      <4>1. v \in CASE p \in op.both /\ Absent \notin {base, ours, theirs} ->
                            Diff3Results(base, ours, theirs)
                     [] p \in op.both /\ op.from[p] = Absent /\ ours # Absent -> {Marked}
                     [] op.both = {} /\ p \in op.onlyRight -> {theirs}
                     [] OTHER -> {}
        BY <2>2 DEF Compares
      <4> HIDE DEF base, ours, theirs
      <4> QED BY <4>1
    <3> HIDE DEF base, ours, theirs
    <3> QED BY <3>1, <3>2, ContentAssumption DEF Diff3Results, Content
  <2>3. f = files \/ \E p \in Path : \E v \in Compares(p) : f = [files EXCEPT ![p] = v]
    BY <1>2 DEF HalfWritten
  <2> QED BY <1>1, <2>2, <2>3 DEF Tree, Content
<1>3. CASE op.pc = "resetWorktree"
  <2> DEFINE t == TreeOf(op.target)
  <2>1. t \in Tree
    BY <1>1, <1>3, TreesOfKnown DEF OpKnown
  <2>2. \E done : f = [p \in Path |-> IF p \notin done THEN files[p]
                                      ELSE IF First(index[p]) = Absent THEN Absent ELSE t[p]]
    BY <1>3 DEF HalfWritten
  <2> HIDE DEF t
  <2> QED BY <1>1, <2>1, <2>2 DEF Tree, Content
<1>4. CASE op.pc \notin {"compare", "resetWorktree"}
  BY <1>1, <1>4 DEF HalfWritten
<1> QED BY <1>2, <1>3, <1>4

\* Every step, and none, leaves what is stored typed.
LEMMA StepTypes ==
    ASSUME TypeOK, OpKnown, [Next]_vars
    PROVE  TypeOK' /\ OpKnown'
<1>1. CASE UserCall
  BY <1>1, UserTypes
<1>2. CASE MergeStep
  BY <1>2, MergeStepTypes
<1>3. CASE OtherStep
  BY <1>3, OtherTypes
<1>4. CASE Die
  <2>1. commits' = commits /\ branch' = branch /\ head' = head /\ op' = NoOp
    BY <1>4 DEF Die, refs
  <2>2. RefsOK'
    BY <2>1, TypeParts, SameRefs
  <2>3. RestOK'
    <3>1. files' \in Tree
      BY <1>4, HalfTypes DEF Die
    <3> QED BY <1>4, <2>1, <3>1, TypeParts, SameCommits, TreeAndIndex, Numbers
            DEF Die, RestOK, refs, NoBlobs, NoCall
  <2> QED BY <2>1, <2>2, <2>3, Returned, TypeParts
<1>5. CASE UNCHANGED vars
  BY <1>5 DEF vars, refs, area, ghosts, TypeOK, OpKnown, MergesKnown, KnownFrame,
              HeadCommit, Known, Ref, TreeOf
<1> QED BY <1>1, <1>2, <1>3, <1>4, <1>5 DEF Next

\* A repository to start from has the types.
LEMMA InitTypes == Init => TypeOK /\ OpKnown
<1> SUFFICES ASSUME Init PROVE TypeOK /\ OpKnown
  OBVIOUS
<1>1. PICK h \in Histories :
        /\ commits = h.commits
        /\ branch = h.branch
        /\ head = h.at
        /\ mergeHead = None /\ origHead = None /\ mergeMsg = FALSE
        /\ index = AsIndex(h.commits[h.branch[h.at]].tree)
        /\ files = h.commits[h.branch[h.at]].tree
        /\ blobs = NoBlobs
        /\ op = NoOp
        /\ calls = h.calls
        /\ use = [ops |-> h.ops, shared |-> h.shared, dies |-> h.dies]
        /\ last = NoCall /\ joined = None
        /\ began = [branch |-> h.branch, head |-> h.at, orig |-> None, switched |-> FALSE]
  BY DEF Init
<1>2. /\ commits \in Seq(Commits) /\ head \in Branch
      /\ branch \in [Branch -> Ref] /\ branch[head] \in Known
      /\ calls \in Nat /\ use \in [ops : SUBSET Op, shared : BOOLEAN, dies : BOOLEAN]
  BY <1>1, HistoryAssumption DEF History, Ref, Known
<1>3. HeadCommit \in Known /\ HeadCommit = branch[head]
  BY <1>2 DEF HeadCommit
<1>4. RefsOK
  BY <1>2, <1>3 DEF RefsOK
<1>5. files \in Tree /\ index \in Index /\ blobs \in Index
  <2>1. commits[branch[head]] \in Commits
    BY <1>2 DEF Known
  <2>2. files \in Tree /\ index = AsIndex(files)
    BY <1>1, <2>1 DEF Commits
  <2> QED BY <1>1, <2>2, TreeAndIndex DEF NoBlobs
<1>6. Known \subseteq Nat /\ None \in Number
  BY <1>2, <1>3, TreesOfKnown DEF Number
<1>7. began \in Found
  <2>1. branch \in [Branch -> Number] /\ head \in Branch \cup Nat
    BY <1>2, <1>6 DEF Ref, Number
  <2> QED BY <1>1, <1>6, <2>1, BeganTypes
<1>8. RestOK
  BY <1>1, <1>2, <1>5, <1>7 DEF RestOK, Ref, NoCall, Name, ModeOrNone
<1> QED BY <1>1, <1>4, <1>8, NoOpFields, TypeParts DEF OpKnown, MergePc

\* Through every merge, commit, abort, reset, checkout and pull, and at
\* whatever step the process dies, the references and HEAD name commits that
\* are stored, as does what a call keeps for its next steps (updateHEAD,
\* setHEADCommit, mergeCommits).
THEOREM MergeTypes == Spec => []TypeOK
<1>1. Spec => [](TypeOK /\ OpKnown)
  <2>1. TypeOK /\ OpKnown /\ [Next]_vars => TypeOK' /\ OpKnown'
    BY StepTypes
  <2> QED BY <2>1, InitTypes, PTL DEF Spec
<1> QED BY <1>1, PTL

-----------------------------------------------------------------------------
(* Conflicts can be taken back *)

\* The index lists a conflict.
Conf == \E p \in Path : Conflicted(index[p])

\* Only the merges that wait for a virtual base come before ORIG_HEAD is set;
\* the outermost merge is that of HEAD's commit, which ORIG_HEAD names.
StackInv ==
    /\ op.pc = "computeParent" => op.stack # <<>>
    /\ op.pc \in {"setMergeHead", "setOrigHead"} => op.stack = <<>>
    /\ op.pc \in MergePc /\ op.stack # <<>> => SeveralBases
    /\ op.pc \in MergePc => ~Outermost(op).virtual
    /\ op.pc \in {"resetForMerge", "compare"} /\ op.stack = <<>> => origHead = op.left.commit

\* There is no conflict from Commit's check on, nor once a reset has written
\* the index: that is when ORIG_HEAD goes.
NoConflicts ==
    op.pc \in {"resetWorktree", "abortEnd", "updateHead",
               "removeMergeHead", "removeMergeMsg", "removeOrigHead"} => ~Conf

Recoverable == StackInv /\ NoConflicts /\ ConflictsAreRecoverable

\* ConflictsAreRecoverable is about Conf.
LEMMA AboutConf == ConflictsAreRecoverable <=> (Conf => origHead # None \/ SeveralBases)
  BY DEF ConflictsAreRecoverable, Conf

\* A merge starts with nothing of the repository changed.
Starts ==
    /\ \E name \in {"merge", "pull"}, theirs \in Known : StartMerge(name, theirs)
    /\ UNCHANGED <<commits, branch, head, origHead, index, files, blobs>>

\* A merged entry in place of another makes no conflict.
LEMMA JustAdds ==
    ASSUME NEW idx \in Index, NEW p \in Path, NEW v \in Content
    PROVE  \A q \in Path : Conflicted([idx EXCEPT ![p] = Just(v)][q]) =>
                              [idx EXCEPT ![p] = Just(v)][q] = idx[q]
<1>1. Just(v) \in Entries /\ ~Conflicted(Just(v))
  BY EntryTypes, JustFacts
<1> DEFINE e == Just(v)
           new == [idx EXCEPT ![p] = e]
<1>2. new[p] = e /\ \A q \in Path : q # p => new[q] = idx[q]
  <2>1. e \in Entries
    BY <1>1
  <2> HIDE DEF e
  <2> QED BY <2>1 DEF Index
<1>3. \A q \in Path : Conflicted(new[q]) => new[q] = idx[q]
  <2> HIDE DEF new
  <2> QED BY <1>1, <1>2
<1> QED BY <1>3

\* What a call of the user begins, and what it leaves alone.
LEMMA CallsBegin ==
    ASSUME TypeOK, UserCall
    PROVE  /\ commits' = commits /\ origHead' = origHead /\ Idle /\ last' = NoCall
           /\ op'.pc \in MergePc => Starts
           /\ op'.pc \in {"idle", "reset", "switch", "abortMsg", "updateHead"} \cup MergePc
           /\ op'.pc = "updateHead" => ~Conf'
           /\ \A p \in Path : Conflicted(index'[p]) => index'[p] = index[p]
<1>0. /\ "merge" \in Name /\ "pull" \in Name /\ "commit" \in Name /\ "abort" \in Name
      /\ "reset" \in Name /\ "checkout" \in Name
      /\ "hard" \in ModeOrNone /\ "merge" \in ModeOrNone /\ Mode \subseteq ModeOrNone
      /\ \A b \in Branch : branch[b] # None => branch[b] \in Known /\ branch[b] \in Number
      /\ Known \subseteq Number /\ HeadCommit \in Number
  BY Numbers DEF Name, Op, ModeOrNone, Mode, TypeOK, Ref
<1>1. ASSUME NEW b \in Branch, Merge(b) PROVE
        /\ commits' = commits /\ origHead' = origHead /\ Idle /\ last' = NoCall
        /\ index' = index /\ (op'.pc = "reset" \/ (op'.pc \in MergePc /\ Starts))
  <2>1. branch[b] \in Known /\ branch[b] \in Number
    BY <1>0, <1>1 DEF Merge
  <2>2. CASE op' = ResetTo("merge", branch[b], "hard")
    BY <1>0, <1>1, <2>1, <2>2, ResetFields DEF Merge, Call, area
  <2>3. CASE StartMerge("merge", branch[b]) /\ UNCHANGED <<branch, head>>
    <3>1. op'.pc \in MergePc
      BY <1>0, <2>1, <2>3, StartFacts DEF MergePc
    <3> QED BY <1>1, <2>1, <2>3, <3>1 DEF Merge, Call, area, Starts
  <2> QED BY <1>1, <2>2, <2>3, Zenon DEF Merge
<1>2. ASSUME NEW c \in Known, Pull(c) PROVE
        /\ commits' = commits /\ origHead' = origHead /\ Idle /\ last' = NoCall
        /\ index' = index /\ (op'.pc = "reset" \/ (op'.pc \in MergePc /\ Starts))
  <2>1. c \in Number
    BY <1>0
  <2>2. CASE op' = ResetTo("pull", c, "merge")
    BY <1>0, <1>2, <2>1, <2>2, ResetFields DEF Pull, Call, area
  <2>3. CASE StartMerge("pull", c) /\ UNCHANGED <<branch, head>>
    <3>1. op'.pc \in MergePc
      BY <1>0, <2>3, StartFacts DEF MergePc
    <3> QED BY <1>2, <2>3, <3>1 DEF Pull, Call, area, Starts
  <2> QED BY <1>2, <2>2, <2>3, Zenon DEF Pull
<1>3. ASSUME NEW all \in BOOLEAN, Commit(all) PROVE
        /\ commits' = commits /\ origHead' = origHead /\ Idle /\ last' = NoCall
        /\ op'.pc = "updateHead" /\ (\A p \in Path : ~Conflicted(index'[p]))
  <2>1. ASSUME NEW p \in Path PROVE ~Conflicted(index'[p])
    <3>1. files[p] \in Content
      BY DEF TypeOK, Tree, Content
    <3> QED BY <1>3, <3>1, JustFacts DEF Commit
  <2>2. op'.pc = "updateHead"
    BY <1>3, CallTypes DEF Commit, CallInProgress
  <2> QED BY <1>3, <2>1, <2>2 DEF Commit, Call, refs
<1>4. ASSUME AbortMerge PROVE
        /\ commits' = commits /\ origHead' = origHead /\ Idle /\ last' = NoCall
        /\ index' = index /\ op'.pc = "abortMsg"
  <2>1. op'.pc = "abortMsg"
    BY <1>4, CallTypes DEF AbortMerge, CallInProgress
  <2> QED BY <1>4, <2>1 DEF AbortMerge, Call, area
<1>5. ASSUME NEW c \in Known, NEW mode \in Mode, Reset(c, mode) PROVE
        /\ commits' = commits /\ origHead' = origHead /\ Idle /\ last' = NoCall
        /\ index' = index /\ op'.pc = "reset"
  BY <1>0, <1>5, ResetFields DEF Reset, Call, refs, area
<1>6. ASSUME NEW b \in Branch, NEW mode \in Mode, Checkout(b, mode) PROVE
        /\ commits' = commits /\ origHead' = origHead /\ Idle /\ last' = NoCall
        /\ index' = index /\ op'.pc = "reset"
  BY <1>0, <1>6, ResetFields DEF Checkout, Call, area
<1>7. ASSUME NEW c \in Known, NEW mode \in Mode, CheckoutHash(c, mode) PROVE
        /\ commits' = commits /\ origHead' = origHead /\ Idle /\ last' = NoCall
        /\ index' = index /\ op'.pc = "reset"
  BY <1>0, <1>7, ResetFields DEF CheckoutHash, Call, area
<1>8. ASSUME NEW b \in Branch, NEW mode \in Mode, CheckoutCreate(b, mode) PROVE
        /\ commits' = commits /\ origHead' = origHead /\ Idle /\ last' = NoCall
        /\ index' = index /\ op'.pc = "switch"
  <2>1. ResetTo("checkout", HeadCommit, mode) \in CallInProgress
    BY <1>0, ResetFields
  <2>2. op'.pc = "switch"
    BY <1>8, <2>1 DEF CheckoutCreate, CallInProgress
  <2> QED BY <1>8, <2>2 DEF CheckoutCreate, Call, area
<1>9. ASSUME NEW p \in Path, NEW v \in Content, Edit(p, v) PROVE
        /\ commits' = commits /\ origHead' = origHead /\ Idle /\ last' = NoCall
        /\ index' = index /\ op'.pc = "idle"
  BY <1>9 DEF Edit, Call, refs, Idle
<1>10. ASSUME NEW p \in Path, Add(p) PROVE
        /\ commits' = commits /\ origHead' = origHead /\ Idle /\ last' = NoCall
        /\ op'.pc = "idle"
        /\ \A q \in Path : Conflicted(index'[q]) => index'[q] = index[q]
  <2>1. files[p] \in Content /\ index \in Index
    BY DEF TypeOK, Tree, Content
  <2>2. index' = [index EXCEPT ![p] = Just(files[p])]
    BY <1>10 DEF Add, AddFile
  <2> DEFINE v == files[p]
  <2>3. \A q \in Path : Conflicted(index'[q]) => index'[q] = index[q]
    <3>1. v \in Content /\ index' = [index EXCEPT ![p] = Just(v)]
      BY <2>1, <2>2
    <3> HIDE DEF v
    <3> QED BY <2>1, <3>1, JustAdds
  <2> QED BY <1>10, <2>3 DEF Add, Call, refs, Idle
<1>11. Edited \in Content /\ Absent \in Content
  BY ContentAssumption DEF Content
<1> DEFINE Goal ==
        /\ commits' = commits /\ origHead' = origHead /\ Idle /\ last' = NoCall
        /\ op'.pc \in MergePc => Starts
        /\ op'.pc \in {"idle", "reset", "switch", "abortMsg", "updateHead"} \cup MergePc
        /\ op'.pc = "updateHead" => ~Conf'
        /\ \A p \in Path : Conflicted(index'[p]) => index'[p] = index[p]
<1>12. ASSUME NEW b \in Branch, Merge(b) PROVE Goal
  BY <1>1, <1>12 DEF MergePc
<1>13. ASSUME NEW c \in Known, Pull(c) PROVE Goal
  BY <1>2, <1>13 DEF MergePc
<1>14. ASSUME NEW all \in BOOLEAN, Commit(all) PROVE Goal
  BY <1>3, <1>14 DEF MergePc, Conf
<1>15. ASSUME AbortMerge PROVE Goal
  BY <1>4, <1>15 DEF MergePc
<1>16. ASSUME NEW c \in Known, NEW mode \in Mode, Reset(c, mode) \/ CheckoutHash(c, mode) PROVE Goal
  BY <1>5, <1>7, <1>16 DEF MergePc
<1>17. ASSUME NEW b \in Branch, NEW mode \in Mode, Checkout(b, mode) \/ CheckoutCreate(b, mode)
       PROVE  Goal
  BY <1>6, <1>8, <1>17 DEF MergePc
<1>18. ASSUME NEW p \in Path, Edit(p, Edited) \/ Edit(p, Absent) \/ Add(p) PROVE Goal
  BY <1>9, <1>10, <1>11, <1>18 DEF MergePc
<1> HIDE DEF Goal
<1>19. Goal
  BY <1>12, <1>13, <1>14, <1>15, <1>16, <1>17, <1>18 DEF UserCall
<1> QED BY <1>19 DEF Goal

\* Without a merge at hand there is nothing to say of its stack.
LEMMA NoStack ==
    ASSUME op'.pc \notin MergePc
    PROVE  StackInv'
  BY DEF StackInv, MergePc

\* A call of the user stages no conflict, and a merge that starts is that of
\* HEAD's commit.
LEMMA CallsRecoverable ==
    ASSUME TypeOK, Recoverable, UserCall
    PROVE  Recoverable'
<1>1. /\ commits' = commits /\ origHead' = origHead
      /\ op'.pc \in MergePc => Starts
      /\ op'.pc \in {"idle", "reset", "switch", "abortMsg", "updateHead"} \cup MergePc
      /\ op'.pc = "updateHead" => ~Conf'
      /\ \A p \in Path : Conflicted(index'[p]) => index'[p] = index[p]
  BY CallsBegin
<1>2. SeveralBases' = SeveralBases
  BY <1>1, SameCommits
<1>3. Conf' => Conf
  BY <1>1 DEF Conf
<1>4. ConflictsAreRecoverable'
  BY <1>1, <1>2, <1>3 DEF Recoverable, ConflictsAreRecoverable, Conf
<1>5. NoConflicts'
  BY <1>1 DEF NoConflicts, MergePc
<1>6. StackInv'
  <2>1. CASE op'.pc \notin MergePc
    BY <2>1, NoStack
  <2>2. CASE op'.pc \in MergePc
    <3>1. PICK name \in {"merge", "pull"}, theirs \in Known : StartMerge(name, theirs)
      BY <1>1, <2>2 DEF Starts
    <3>2. name \in Name
      BY <3>1 DEF Name, Op
    <3>3. /\ Outermost(op') = Plain(HeadCommit) /\ HeadCommit \in Number
          /\ \/ op'.pc = "computeParent" /\ op'.stack # <<>> /\ SeveralBases
             \/ op'.pc = "setMergeHead" /\ op'.stack = <<>>
      BY <3>1, <3>2, StartFacts, Numbers
    <3>4. ~Outermost(op').virtual
      BY <3>3, PlainTypes
    <3> QED BY <1>2, <3>3, <3>4 DEF StackInv, MergePc, Outermost
  <2> QED BY <2>1, <2>2
<1> QED BY <1>4, <1>5, <1>6 DEF Recoverable

\* nonFastForwardMerge sets ORIG_HEAD before its first conflict; the merges of
\* virtual bases, which come before, need several common parents.
LEMMA MergeRecoverable ==
    ASSUME TypeOK, OpKnown, Recoverable, MergeStep
    PROVE  Recoverable'
<1>0. /\ op \in CallInProgress /\ index \in Index /\ commits \in Seq(Commits)
      /\ op.pc \in MergePc => op.left.commit \in Known /\ op.right \in Known /\ None \notin Known
      /\ StackInv /\ NoConflicts /\ (Conf => origHead # None \/ SeveralBases)
  BY TreesOfKnown DEF TypeOK, OpKnown, MergesKnown, KnownFrame, Recoverable,
                      ConflictsAreRecoverable, Conf
<1>1. ASSUME commits' = commits, origHead' = origHead, index' = index, op'.pc \notin MergePc,
             op'.pc = "idle"
      PROVE  Recoverable'
  BY <1>0, <1>1, NoStack, SameCommits DEF Recoverable, NoConflicts, ConflictsAreRecoverable, Conf
<1>2. CASE SetMergeHead
  <2>1. /\ commits' = commits /\ origHead' = origHead /\ index' = index /\ op.pc = "setMergeHead"
        /\ op' = [op EXCEPT !.pc = "setOrigHead"] /\ "setOrigHead" \in PC
    BY <1>2 DEF SetMergeHead, Step, At, PC, area
  <2>2. op'.pc = "setOrigHead" /\ op'.stack = op.stack /\ op'.left = op.left
    BY <1>0, <2>1, MovesOn
  <2>3. StackInv'
    BY <1>0, <2>1, <2>2, SameCommits DEF StackInv, MergePc, Outermost
  <2> QED BY <1>0, <2>1, <2>2, <2>3, SameCommits DEF Recoverable, NoConflicts, ConflictsAreRecoverable, Conf
<1>3. CASE SetOrigHead
  <2>1. /\ commits' = commits /\ origHead' = op.left.commit /\ index' = index
        /\ op.pc = "setOrigHead"
        /\ op' = [op EXCEPT !.pc = "resetForMerge"] /\ "resetForMerge" \in PC
    BY <1>3 DEF SetOrigHead, Step, At, PC, area
  <2>2. op'.pc = "resetForMerge" /\ op'.stack = op.stack /\ op'.left = op.left
    BY <1>0, <2>1, MovesOn
  <2>3. StackInv'
    BY <1>0, <2>1, <2>2, SameCommits DEF StackInv, MergePc, Outermost
  <2>4. origHead' # None
    BY <1>0, <2>1 DEF MergePc
  <2> QED BY <2>2, <2>3, <2>4 DEF Recoverable, NoConflicts, ConflictsAreRecoverable
<1>4. CASE ResetForMerge
  <2>1. /\ commits' = commits /\ origHead' = origHead /\ op.pc = "resetForMerge"
        /\ index' = ResetIndexTo(index, TreeOf(op.left.commit))
        /\ op'.pc = "compare" /\ op'.stack = op.stack /\ op'.left = op.left
    BY <1>0, <1>4 DEF ResetForMerge, Step, refs, CallInProgress
  <2>2. ~Conf'
    BY <1>0, <2>1, ResetFacts, TreesOfKnown DEF Conf, MergePc
  <2>3. StackInv'
    BY <1>0, <2>1, SameCommits DEF StackInv, MergePc, Outermost
  <2> QED BY <2>1, <2>2, <2>3 DEF Recoverable, NoConflicts, ConflictsAreRecoverable, Conf
<1>5. ASSUME NEW p \in Path, CompareBoth(p) \/ TakeTheirs(p) PROVE Recoverable'
  <2>1. /\ commits' = commits /\ origHead' = origHead /\ op.pc = "compare"
        /\ op'.pc = "compare" /\ op'.stack = op.stack /\ op'.left = op.left
    BY <1>0, <1>5 DEF CompareBoth, TakeTheirs, Step, refs, CallInProgress
  <2>2. StackInv'
    BY <1>0, <2>1, SameCommits DEF StackInv, MergePc, Outermost
  <2>3. origHead' # None \/ SeveralBases'
    BY <1>0, <2>1, SameCommits DEF StackInv, MergePc
  <2> QED BY <2>1, <2>2, <2>3 DEF Recoverable, NoConflicts, ConflictsAreRecoverable
<1>6. ASSUME NEW p \in Path, CompareFails(p) PROVE Recoverable'
  BY <1>1, <1>6, NoOpFields DEF CompareFails, Fail, refs, MergePc
<1>7. CASE ComputeParent
  <2> DEFINE parents == CommonParents(op.left.commit, op.right)
  <2>1. /\ commits' = commits /\ origHead' = origHead /\ index' = index /\ op.pc = "computeParent"
        /\ (op' = NoOp \/ (parents # {} /\ op' = Based(op, parents)))
    BY <1>7 DEF ComputeParent, Step, refs, Fail
  <2>2. CASE op' = NoOp
    BY <1>1, <2>1, <2>2, NoOpFields DEF MergePc
  <2>3. CASE parents # {} /\ op' = Based(op, parents)
    <3>1. parents \subseteq Known /\ MergesKnown(op) /\ op.stack # <<>> /\ SeveralBases
          /\ ~Outermost(op).virtual
      BY <1>0, <2>1, CommonAreKnown DEF OpKnown, MergePc, StackInv
    <3> HIDE DEF parents
    <3>2. /\ Outermost(op') = Outermost(op) /\ op'.pc \in {"computeParent", "resetForMerge"}
          /\ op'.stack # <<>>
      BY <1>0, <2>3, <3>1, BasedFacts
    <3>3. StackInv'
      BY <2>1, <3>1, <3>2, SameCommits DEF StackInv, MergePc, Outermost
    <3> QED BY <1>0, <2>1, <3>2, <3>3, SameCommits
            DEF Recoverable, NoConflicts, ConflictsAreRecoverable, Conf
  <2> QED BY <2>1, <2>2, <2>3
<1>8. CASE VirtualNext
  <2>1. commits' = commits /\ origHead' = origHead /\ index' = index
    BY <1>8 DEF VirtualNext, refs, area
  <2>2. /\ Outermost(op') = Outermost(op) /\ op.pc = "compare" /\ op.stack # <<>>
        /\ \/ op'.pc = "computeParent" /\ op'.stack # <<>>
           \/ op'.pc = "setMergeHead" /\ op'.stack = <<>>
           \/ op'.pc = "resetForMerge" /\ op'.stack # <<>>
    BY <1>8, VirtualFacts
  <2>3. StackInv'
    BY <1>0, <2>1, <2>2, SameCommits DEF StackInv, MergePc, Outermost
  <2> QED BY <1>0, <2>1, <2>2, <2>3, SameCommits
          DEF Recoverable, NoConflicts, ConflictsAreRecoverable, Conf
<1>9. CASE SetMergeMsg
  BY <1>1, <1>9, NoOpFields DEF SetMergeMsg, Succeed, MergePc
<1> QED BY <1>2, <1>3, <1>4, <1>5, <1>6, <1>7, <1>8, <1>9 DEF MergeStep

\* The files a reset writes are staged as they are: resetWorktree stages no
\* conflict.
LEMMA WorktreeAddsNone ==
    ASSUME TypeOK, OpKnown, NoConflicts, ResetWorktree
    PROVE  ~Conf'
<1>1. /\ op.pc = "resetWorktree" /\ op.target \in Known /\ commits \in Seq(Commits)
      /\ \A p \in Path : index'[p] \in {index[p], Just(TreeOf(op.target)[p])}
  <2>1. op.pc = "resetWorktree" /\ op.target \in Known
    BY DEF ResetWorktree, Step, OpKnown
  <2> QED BY <2>1 DEF ResetWorktree, TypeOK
<1>2. ASSUME NEW p \in Path PROVE ~Conflicted(index'[p])
  <2>1. TreeOf(op.target)[p] \in Content
    BY <1>1, TreesOfKnown DEF Tree, Content
  <2>2. ~Conflicted(index[p]) /\ ~Conflicted(Just(TreeOf(op.target)[p]))
    BY <1>1, <2>1, JustFacts DEF NoConflicts, Conf
  <2> QED BY <1>1, <2>2
<1> QED BY <1>2 DEF Conf

\* ORIG_HEAD goes with the last step of an abort, after its reset, and of a
\* commit, which checked for conflicts.
LEMMA OthersRecoverable ==
    ASSUME TypeOK, OpKnown, Recoverable, OtherStep \/ Die
    PROVE  Recoverable'
<1>0. /\ op \in CallInProgress /\ index \in Index /\ commits \in Seq(Commits)
      /\ StackInv /\ NoConflicts /\ (Conf => origHead # None \/ SeveralBases)
      /\ {"reset", "resetIndex", "resetWorktree", "abortEnd",
          "removeMergeHead", "removeMergeMsg", "removeOrigHead"} \subseteq PC
  BY DEF TypeOK, Recoverable, ConflictsAreRecoverable, Conf, PC
<1>1. ASSUME commits' = commits, origHead' = origHead, index' = index,
             op'.pc \in {"idle", "reset", "resetIndex"}
      PROVE  Recoverable'
  BY <1>0, <1>1, NoStack, SameCommits
     DEF Recoverable, NoConflicts, ConflictsAreRecoverable, Conf, MergePc
<1>2. ASSUME ~Conf', op'.pc \notin MergePc
      PROVE  Recoverable'
  BY <1>2, NoStack DEF Recoverable, NoConflicts, ConflictsAreRecoverable, Conf
<1>3. CASE ResetHead
  <2>1. /\ commits' = commits /\ origHead' = origHead /\ index' = index
        /\ (op' = NoOp \/ op' = [op EXCEPT !.pc = "resetIndex"])
    BY <1>3 DEF ResetHead, Step, Fail, Succeed, At, area
  <2>2. op'.pc \in {"idle", "resetIndex"}
    BY <1>0, <2>1, MovesOn, NoOpFields
  <2> QED BY <1>1, <2>1, <2>2
<1>4. CASE ResetIndex
  <2>1. /\ index' = ResetIndexTo(index, TreeOf(op.target)) /\ op.target \in Known
        /\ (op' = NoOp \/ op' = [op EXCEPT !.pc = "resetWorktree"])
    BY <1>4 DEF ResetIndex, Step, Succeed, At, OpKnown
  <2>2. op'.pc \in {"idle", "resetWorktree"}
    BY <1>0, <2>1, MovesOn, NoOpFields
  <2>3. ~Conf'
    BY <1>0, <2>1, ResetFacts, TreesOfKnown DEF Conf
  <2> QED BY <1>2, <2>2, <2>3 DEF MergePc
<1>5. CASE ResetWorktree
  <2>1. op.pc = "resetWorktree" /\ (op' = NoOp \/ op' = [op EXCEPT !.pc = "abortEnd"])
    BY <1>5 DEF ResetWorktree, Step, Fail, Succeed, At, OpKnown
  <2>2. op'.pc \in {"idle", "abortEnd"}
    BY <1>0, <2>1, MovesOn, NoOpFields
  <2>3. ~Conf'
    BY <1>0, <1>5, WorktreeAddsNone
  <2> QED BY <1>2, <2>2, <2>3 DEF MergePc, Conf
<1>6. CASE SwitchHead \/ AbortMsg \/ Die
  <2>1. /\ commits' = commits /\ origHead' = origHead /\ index' = index
        /\ \/ op' = NoOp
           \/ op' = [op EXCEPT !.pc = "reset"]
           \/ op' = ResetTo("abort", origHead, "hard") /\ origHead \in Known
    BY <1>6 DEF SwitchHead, AbortMsg, Die, Step, At, Fail, area, refs, TypeOK, Ref
  <2>2. op'.pc \in {"idle", "reset"}
    <3>1. CASE op' = ResetTo("abort", origHead, "hard") /\ origHead \in Known
      <4>1. origHead \in Number /\ "abort" \in Name /\ "hard" \in ModeOrNone
        BY <3>1, Numbers DEF Name, Op, ModeOrNone, Mode
      <4> QED BY <3>1, <4>1, ResetFields
    <3> QED BY <1>0, <2>1, <3>1, MovesOn, NoOpFields
  <2> QED BY <1>1, <2>1, <2>2
<1>7. CASE AbortEnd \/ UpdateHead \/ RemoveMergeHead \/ RemoveMergeMsg \/ RemoveOrigHead
  <2>1. ~Conf /\ index' = index
    BY <1>0, <1>7 DEF AbortEnd, UpdateHead, RemoveMergeHead, RemoveMergeMsg, RemoveOrigHead,
                      Step, NoConflicts, area
  <2>2. op'.pc \in {"idle", "removeMergeHead", "removeMergeMsg", "removeOrigHead"}
    <3>1. CASE UpdateHead
      BY <1>0, <3>1 DEF UpdateHead, CallInProgress
    <3>2. CASE op' = NoOp
      BY <3>2, NoOpFields
    <3>3. CASE \E x \in {"removeMergeMsg", "removeOrigHead"} : op' = [op EXCEPT !.pc = x]
      BY <1>0, <3>3, MovesOn
    <3> QED BY <1>7, <3>1, <3>2, <3>3
            DEF AbortEnd, RemoveMergeHead, RemoveMergeMsg, RemoveOrigHead, At, Succeed
  <2> QED BY <1>2, <2>1, <2>2 DEF MergePc, Conf
<1> QED BY <1>3, <1>4, <1>5, <1>6, <1>7 DEF OtherStep

\* A repository starts without a conflict and without a call.
LEMMA InitRecoverable == Init => Recoverable
<1> SUFFICES ASSUME Init PROVE Recoverable
  OBVIOUS
<1>1. op = NoOp /\ index = AsIndex(files) /\ files \in Tree
  BY InitTypes DEF Init, TypeOK
<1>2. ~Conf
  <2>1. ASSUME NEW p \in Path PROVE ~Conflicted(index[p])
    <3>1. index[p] = Just(files[p]) /\ files[p] \in Content
      BY <1>1 DEF AsIndex, Tree, Content
    <3> QED BY <3>1, JustFacts
  <2> QED BY <2>1 DEF Conf
<1> QED BY <1>1, <1>2, NoOpFields
        DEF Recoverable, StackInv, NoConflicts, ConflictsAreRecoverable, Conf, MergePc

\* Every step keeps conflicts recoverable.
LEMMA StepRecoverable ==
    ASSUME TypeOK, OpKnown, Recoverable, [Next]_vars
    PROVE  Recoverable'
<1>1. CASE Next
  BY <1>1, CallsRecoverable, MergeRecoverable, OthersRecoverable DEF Next
<1>2. CASE UNCHANGED vars
  BY <1>2, SameCommits DEF vars, refs, area, ghosts, Recoverable, StackInv, NoConflicts,
                           ConflictsAreRecoverable, Conf, Outermost
<1> QED BY <1>1, <1>2

\* As long as the index lists a conflict, ORIG_HEAD is there for AbortMerge to
\* reset to, at whatever step Merge, Pull, Commit or AbortMerge died, or two
\* commits of the repository have several common parents (nonFastForwardMerge,
\* AbortMerge, updateHEAD).
THEOREM ConflictsAreRecoverableHolds == Spec => []ConflictsAreRecoverable
<1> DEFINE RInv == TypeOK /\ OpKnown /\ Recoverable
<1>1. Init => RInv
  BY InitTypes, InitRecoverable
<1>2. RInv /\ [Next]_vars => RInv'
  BY StepTypes, StepRecoverable
<1>3. RInv => ConflictsAreRecoverable
  BY DEF Recoverable
<1> QED BY <1>1, <1>2, <1>3, PTL DEF Spec

-----------------------------------------------------------------------------
(* What an abort and a hard reset leave *)

\* The commit of HEAD as the last merge found it.
BeganCommit == IF began.head \in Branch THEN began.branch[began.head] ELSE began.head

\* Without a checkout only the branch of HEAD moves, or HEAD itself; the merge
\* at hand is that of the commit HEAD had, and until its last virtual base is
\* made ORIG_HEAD is what it was.
BeganInv ==
    /\ ~began.switched =>
          IF began.head \in Branch
          THEN head = began.head /\ \A b \in Branch \ {head} : branch[b] = began.branch[b]
          ELSE head \notin Branch /\ branch = began.branch
    /\ op.pc = "switch" => began.switched
    /\ op.pc \in MergePc => Outermost(op).commit = BeganCommit
    /\ op.pc \in {"setMergeHead", "setOrigHead"} \/ (op.pc \in MergePc /\ op.stack # <<>>) =>
          origHead = began.orig
    /\ began.orig = None /\ origHead # None => origHead = BeganCommit

\* Our entry of every conflict is what the commit has.
OursIn(idx, c) ==
    \A p \in Path : Conflicted(idx[p]) => idx[p][OurMode] = TreeOf(c)[p]

\* The conflicts of a merge are conflicts with ORIG_HEAD; those of a virtual
\* base are not, and a process that dies leaves them.
OursInv ==
    /\ /\ began.orig = None /\ origHead # None
       /\ ~SeveralBases \/ (~use.dies /\ op.pc # "resetForMerge")
       => OursIn(index, origHead)
    /\ op.pc = "compare" /\ op.stack = <<>> => OursIn(op.snap, origHead) /\ OursIn(index, origHead)

\* When the reset of the index leaves it as the commit has it.
Exact ==
    use.shared \/ (op.name = "abort" /\ began.orig = None /\ ~(use.dies /\ SeveralBases))

CommitPc == {"updateHead", "removeMergeHead", "removeMergeMsg", "removeOrigHead"}

\* How far an abort, or another reset, has come.
AbortInv ==
    /\ op.pc \in {"abortMsg", "abortEnd"} => op.name = "abort"
    /\ op.name = "abort" =>
          /\ mergeHead = None
          /\ op.pc \in {"abortMsg", "reset", "resetIndex", "resetWorktree", "abortEnd"}
    /\ op.name = "abort" /\ op.pc # "abortMsg" =>
          op.mode = "hard" /\ origHead = op.target /\ ~mergeMsg
    /\ op.pc \in {"resetIndex", "resetWorktree", "abortEnd"} => HeadCommit = op.target
    /\ op.pc \in {"resetWorktree", "abortEnd"} /\ Exact => index = AsIndex(TreeOf(op.target))
    /\ op.pc = "abortEnd" /\ Exact => files = TreeOf(op.target)
    /\ ~Idle => last = NoCall
    /\ op.pc \in MergePc \cup CommitPc => op.mode = "none"
    /\ Idle => ~op.copied

\* What a call that ended well has left.
Ended == AbortReconstructs /\ (use.shared => HardResetReachesTree)

\* HEAD and the branches after SetHead.
OnlyHeadMoves ==
    /\ head \in Branch <=> head' \in Branch
    /\ head \in Branch => head' = head
    /\ head \notin Branch => branch' = branch
    /\ \A b \in Branch \ {head} : branch'[b] = branch[b]

\* Neither moves.
LEMMA HeadStays == UNCHANGED <<branch, head>> => OnlyHeadMoves
  BY DEF OnlyHeadMoves

\* updateHEAD and setHEADCommit move nothing else.
LEMMA SetHeadMoves ==
    ASSUME TypeOK, NEW c, c \notin Branch, SetHead(c)
    PROVE  OnlyHeadMoves /\ HeadCommit' = c
  BY DEF TypeOK, SetHead, OnlyHeadMoves, HeadCommit

\* What a call of the user that is no merge does beside that.
Begins ==
    /\ began'.orig = began.orig /\ began'.head = began.head /\ began'.branch = began.branch
    /\ ~began'.switched => ~began.switched /\ OnlyHeadMoves
    /\ op'.pc = "switch" => began'.switched
    /\ op'.pc \notin MergePc
    /\ op'.pc \in CommitPc => op'.mode = "none" /\ op'.name = "commit"
    /\ op'.pc \in {"reset", "switch"} /\ op'.name \in {"merge", "pull"} =>
          op'.mode \in {"hard", "merge"}
    /\ op'.name = "abort" => op'.pc = "abortMsg" /\ mergeHead' = None
    /\ op'.pc = "abortMsg" => op'.name = "abort"
    /\ ~op'.copied

\* Every call of the user is the start of a merge or one of these.
LEMMA CallsAre ==
    ASSUME TypeOK, OpKnown, AbortInv, UserCall
    PROVE  /\ Starts \/ Begins
           /\ blobs' = blobs /\ use' = use
           /\ ("pull" \in use.ops) \/ ~op'.copied
<1>0. /\ "merge" \in Name /\ "pull" \in Name /\ "commit" \in Name
      /\ "reset" \in Name /\ "checkout" \in Name
      /\ "hard" \in ModeOrNone /\ "merge" \in ModeOrNone /\ Mode \subseteq ModeOrNone
      /\ \A b \in Branch : branch[b] # None => branch[b] \in Known /\ branch[b] \in Number
      /\ Known \subseteq Number /\ HeadCommit \in Number
      /\ \A c \in Known : c \notin Branch
      /\ op \in CallInProgress /\ began \in Found
  BY Numbers, TreesOfKnown, TypeParts DEF Name, Op, ModeOrNone, Mode, TypeOK, Ref, RestOK
<1>b. \A x \in {"reset", "idle", "switch", "abortMsg", "updateHead"} : x \notin MergePc
  BY DEF MergePc
<1> DEFINE Goal == /\ Starts \/ Begins
                   /\ blobs' = blobs /\ use' = use
                   /\ ("pull" \in use.ops) \/ ~op'.copied
<1>1. ASSUME NEW b \in Branch, Merge(b) PROVE Goal
  <2>1. branch[b] \in Known /\ branch[b] \in Number /\ blobs' = blobs /\ use' = use
    BY <1>0, <1>1 DEF Merge, Call, area
  <2>2. CASE SetHead(branch[b]) /\ op' = ResetTo("merge", branch[b], "hard") /\ UNCHANGED began
    <3>1. OnlyHeadMoves
      BY <1>0, <2>1, <2>2, SetHeadMoves
    <3>2. op'.pc = "reset" /\ op'.name = "merge" /\ op'.mode = "hard" /\ ~op'.copied
      BY <1>0, <2>1, <2>2, ResetFields
    <3> QED BY <1>b, <2>1, <2>2, <3>1, <3>2 DEF Begins, CommitPc
  <2>3. CASE StartMerge("merge", branch[b]) /\ UNCHANGED <<branch, head>>
    <3>1. Starts
      BY <1>1, <2>1, <2>3 DEF Merge, area, Starts
    <3>2. ~op'.copied
      BY <1>0, <2>1, <2>3, StartFacts
    <3> QED BY <2>1, <3>1, <3>2
  <2> QED BY <1>1, <2>2, <2>3, Zenon DEF Merge
<1>2. ASSUME NEW c \in Known, Pull(c) PROVE Goal
  <2>1. c \in Number /\ blobs' = blobs /\ use' = use /\ "pull" \in use.ops
    BY <1>0, <1>2 DEF Pull, Call, area
  <2>2. CASE SetHead(c) /\ op' = ResetTo("pull", c, "merge") /\ UNCHANGED began
    <3>1. OnlyHeadMoves
      BY <1>0, <2>1, <2>2, SetHeadMoves
    <3>2. op'.pc = "reset" /\ op'.name = "pull" /\ op'.mode = "merge" /\ ~op'.copied
      BY <1>0, <2>1, <2>2, ResetFields
    <3> QED BY <1>b, <2>1, <2>2, <3>1, <3>2 DEF Begins, CommitPc
  <2>3. CASE StartMerge("pull", c) /\ UNCHANGED <<branch, head>>
    <3>1. Starts
      BY <1>2, <2>3 DEF Pull, area, Starts
    <3> QED BY <2>1, <3>1
  <2> QED BY <1>2, <2>2, <2>3, Zenon DEF Pull
<1>3. ASSUME NEW all \in BOOLEAN, Commit(all) PROVE Goal
  <2> DEFINE parents == {HeadCommit} \cup ({mergeHead} \ {None})
  <2>1. op' = [NoOp EXCEPT !.pc = "updateHead", !.name = "commit", !.parents = parents]
    BY <1>3 DEF Commit
  <2> HIDE DEF parents
  <2>2. op'.pc = "updateHead" /\ op'.name = "commit" /\ op'.mode = NoOp.mode
        /\ op'.copied = NoOp.copied
    BY <2>1, CallTypes DEF CallInProgress
  <2>3. blobs' = blobs /\ use' = use /\ began' = began /\ UNCHANGED <<branch, head>>
    BY <1>3 DEF Commit, Call, refs
  <2> QED BY <1>b, <2>2, <2>3, HeadStays, NoOpFields DEF Begins, CommitPc
<1>4. ASSUME AbortMerge PROVE Goal
  <2>1. op' = [NoOp EXCEPT !.pc = "abortMsg", !.name = "abort"]
    BY <1>4 DEF AbortMerge
  <2>2. op'.pc = "abortMsg" /\ op'.name = "abort" /\ op'.copied = NoOp.copied
    BY <2>1, CallTypes DEF CallInProgress
  <2>3. blobs' = blobs /\ use' = use /\ began' = began /\ UNCHANGED <<branch, head>>
        /\ mergeHead' = None
    BY <1>4 DEF AbortMerge, Call, area
  <2> QED BY <1>b, <2>2, <2>3, HeadStays, NoOpFields DEF Begins, CommitPc
<1>5. ASSUME NEW c \in Known, NEW mode \in Mode, Reset(c, mode) PROVE Goal
  <2>1. op'.pc = "reset" /\ op'.name = "reset" /\ ~op'.copied
    BY <1>0, <1>5, ResetFields DEF Reset
  <2>2. blobs' = blobs /\ use' = use /\ began' = began /\ UNCHANGED <<branch, head>>
    BY <1>5 DEF Reset, Call, refs, area
  <2> QED BY <1>b, <2>1, <2>2, HeadStays DEF Begins, CommitPc
<1>6. ASSUME began' = [began EXCEPT !.switched = TRUE], blobs' = blobs, use' = use,
             op'.pc \in {"reset", "switch"}, op'.name = "checkout", ~op'.copied
      PROVE  Goal
  <2>1. /\ began'.switched /\ began'.orig = began.orig /\ began'.head = began.head
        /\ began'.branch = began.branch
    BY <1>0, <1>6, BeganTypes
  <2> QED BY <1>b, <1>6, <2>1 DEF Begins, CommitPc
<1>7. ASSUME NEW p \in Path, NEW v, Edit(p, v) \/ Add(p) PROVE Goal
  <2>1. /\ op' = op /\ op.pc = "idle" /\ blobs' = blobs /\ use' = use /\ began' = began
        /\ UNCHANGED <<branch, head>>
    BY <1>7 DEF Edit, Add, Call, refs, Idle
  <2>2. op.name # "abort" /\ ~op.copied
    BY <2>1 DEF AbortInv, Idle
  <2> QED BY <1>b, <2>1, <2>2, HeadStays DEF Begins, CommitPc
<1>8. ASSUME NEW b \in Branch, NEW mode \in Mode, Checkout(b, mode) PROVE Goal
  <2>1. op'.pc = "reset" /\ op'.name = "checkout" /\ ~op'.copied
    BY <1>0, <1>8, ResetFields DEF Checkout
  <2> QED BY <1>6, <1>8, <2>1 DEF Checkout, Call, area
<1>9. ASSUME NEW c \in Known, NEW mode \in Mode, CheckoutHash(c, mode) PROVE Goal
  <2>1. op'.pc = "reset" /\ op'.name = "checkout" /\ ~op'.copied
    BY <1>0, <1>9, ResetFields DEF CheckoutHash
  <2> QED BY <1>6, <1>9, <2>1 DEF CheckoutHash, Call, area
<1>10. ASSUME NEW b \in Branch, NEW mode \in Mode, CheckoutCreate(b, mode) PROVE Goal
  <2> DEFINE r == ResetTo("checkout", HeadCommit, mode)
  <2>1. r \in CallInProgress /\ r.name = "checkout" /\ ~r.copied
    BY <1>0, ResetFields
  <2>2. op' = [r EXCEPT !.pc = "switch", !.on = b]
    BY <1>10 DEF CheckoutCreate
  <2> HIDE DEF r
  <2>3. op'.pc = "switch" /\ op'.name = "checkout" /\ ~op'.copied
    BY <2>1, <2>2 DEF CallInProgress
  <2> QED BY <1>6, <1>10, <2>3 DEF CheckoutCreate, Call, area
<1> HIDE DEF Goal
<1>11. Goal
  BY <1>1, <1>2, <1>3, <1>4, <1>5, <1>7, <1>8, <1>9, <1>10 DEF UserCall
<1> QED BY <1>11 DEF Goal

AInv == BeganInv /\ OursInv /\ AbortInv /\ Ended

\* Conflicts that stay are those there were.
LEMMA OursKept ==
    ASSUME commits' = commits, origHead' = origHead, OursIn(index, origHead),
           \A p \in Path : Conflicted(index'[p]) => index'[p] = index[p]
    PROVE  OursIn(index, origHead)'
  BY DEF OursIn, TreeOf

\* Nothing is said of a call that ended badly, or has not ended.
LEMMA NotEnded ==
    ASSUME last' = NoCall
    PROVE  Ended'
  BY DEF Ended, AbortReconstructs, HardResetReachesTree, NoCall

\* Without a checkout HEAD is where the merge found it.
LEMMA BeganKept ==
    ASSUME BeganInv, began' = began, OnlyHeadMoves
    PROVE  ~began'.switched =>
              IF began'.head \in Branch
              THEN head' = began'.head /\ \A b \in Branch \ {head'} : branch'[b] = began'.branch[b]
              ELSE head' \notin Branch /\ branch' = began'.branch
  BY DEF BeganInv, OnlyHeadMoves

\* A call of the user begins what AInv says of it.
LEMMA CallsAbort ==
    ASSUME TypeOK, OpKnown, Recoverable, AInv, UserCall
    PROVE  AInv'
<1>1. /\ commits' = commits /\ origHead' = origHead /\ Idle /\ last' = NoCall
      /\ op'.pc \in {"idle", "reset", "switch", "abortMsg", "updateHead"} \cup MergePc
      /\ \A p \in Path : Conflicted(index'[p]) => index'[p] = index[p]
      /\ blobs' = blobs /\ use' = use /\ (Starts \/ Begins)
      /\ SeveralBases' = SeveralBases
      /\ BeganInv /\ OursInv /\ AbortInv
  BY CallsBegin, CallsAre, SameCommits DEF AInv
<1>2. Ended'
  BY <1>1, NotEnded
<1>3. CASE Starts
  <2>1. PICK name \in {"merge", "pull"}, theirs \in Known : StartMerge(name, theirs)
    BY <1>3 DEF Starts
  <2>2. name \in Name
    BY <2>1 DEF Name, Op
  <2>3. /\ Outermost(op') = Plain(HeadCommit) /\ HeadCommit \in Number
        /\ \/ op'.pc = "computeParent" /\ op'.stack # <<>>
           \/ op'.pc = "setMergeHead" /\ op'.stack = <<>>
        /\ op'.name = name /\ op'.mode = "none"
        /\ began' = [branch |-> branch, head |-> head, orig |-> origHead, switched |-> FALSE]
    BY <2>1, <2>2, StartFacts, Numbers
  <2>4. branch' = branch /\ head' = head
    BY <1>3 DEF Starts
  <2>5. Outermost(op').commit = HeadCommit
    BY <2>3, PlainTypes
  <2>6. BeganInv'
    BY <1>1, <2>3, <2>4, <2>5 DEF BeganInv, BeganCommit, HeadCommit, Outermost, MergePc
  <2>7. OursInv'
    BY <1>1, <2>3 DEF OursInv
  <2>8. AbortInv'
    BY <1>1, <2>1, <2>3 DEF AbortInv, CommitPc, MergePc, Idle
  <2> QED BY <1>2, <2>6, <2>7, <2>8 DEF AInv
<1>4. CASE Begins
  <2>1. BeganInv'
    <3>1. BeganCommit' = BeganCommit
      BY <1>4 DEF Begins, BeganCommit
    <3>2. ~began'.switched =>
              IF began'.head \in Branch
              THEN head' = began'.head /\ \A b \in Branch \ {head'} : branch'[b] = began'.branch[b]
              ELSE head' \notin Branch /\ branch' = began'.branch
      BY <1>1, <1>4 DEF BeganInv, Begins, OnlyHeadMoves
    <3> QED BY <1>1, <1>4, <3>1, <3>2 DEF BeganInv, Begins, MergePc
  <2>2. OursInv'
    <3>1. op.pc = "idle" /\ op'.pc \notin MergePc /\ began'.orig = began.orig
      BY <1>1, <1>4 DEF Idle, Begins
    <3>2. CASE began.orig = None /\ origHead # None /\ (~SeveralBases \/ ~use.dies)
      BY <1>1, <3>1, <3>2, OursKept DEF OursInv, MergePc
    <3>3. CASE ~(began.orig = None /\ origHead # None /\ (~SeveralBases \/ ~use.dies))
      BY <1>1, <3>1, <3>3 DEF OursInv, MergePc
    <3> QED BY <3>2, <3>3
  <2>3. AbortInv'
    BY <1>1, <1>4 DEF AbortInv, Begins, Idle, CommitPc
  <2> QED BY <1>2, <2>1, <2>2, <2>3 DEF AInv
<1> QED BY <1>1, <1>3, <1>4

\* Ours of a merge that is not between virtual bases is what its commit has.
LEMMA OursBlobIsOurs ==
    ASSUME ~op.left.virtual, NEW p
    PROVE  OursBlob(p) = TreeOf(op.left.commit)[p]
  BY DEF OursBlob, BlobOf

\* What compareCommitsChanges does to the entries and the blobs of a path that
\* both sides changed: a conflict has our file as its entry, and its blobs are
\* in the cache.
LEMMA CompareEffect ==
    ASSUME TypeOK, OpKnown, NEW p \in Path, CompareBoth(p)
    PROVE  /\ \E idx \in {index, op.snap} : \A q \in Path \ {p} : index'[q] = idx[q]
           /\ op'.snap = IF Conflicted(index'[p]) THEN index' ELSE op.snap
           /\ \A q \in Path \ {p} : blobs'[q] = blobs[q]
           /\ \/ ~Conflicted(index'[p])
              \/ index'[p] = index[p] /\ index' = index /\ blobs' = blobs
              \/ /\ index'[p][OurMode] = OursBlob(p)
                 /\ \A s \in Stage : index'[p][s] # Absent => blobs'[p][s] = index'[p][s]
<1> DEFINE base   == BaseBlob(p)
           ours   == OursBlob(p)
           theirs == TreeOf(op.right)[p]
           Goal == /\ \E idx \in {index, op.snap} : \A q \in Path \ {p} : index'[q] = idx[q]
                   /\ \A q \in Path \ {p} : blobs'[q] = blobs[q]
                   /\ \/ ~Conflicted(index'[p])
                      \/ index'[p] = index[p] /\ index' = index /\ blobs' = blobs
                      \/ /\ index'[p][OurMode] = ours
                         /\ \A s \in Stage : index'[p][s] # Absent => blobs'[p][s] = index'[p][s]
<1>1. /\ op.pc = "compare" /\ op.left \in MergingCommit /\ op.base \in MergingCommit
      /\ op.left.commit \in Known /\ op.base.commit \in Known /\ op.right \in Known
      /\ commits \in Seq(Commits) /\ index \in Index /\ blobs \in Index
      /\ op.snap \in Index /\ op \in CallInProgress
  BY DEF CompareBoth, Step, TypeOK, CallInProgress, OpKnown, MergePc, MergesKnown, KnownFrame
<1>2. base \in Content /\ ours \in Content /\ theirs \in Content /\ Absent \in Content
  BY <1>1, BlobTypes, TreesOfKnown DEF BaseBlob, OursBlob, Content, Tree
<1>3. op'.snap = IF Conflicted(index'[p]) THEN index' ELSE op.snap
  BY <1>1 DEF CompareBoth, CallInProgress
<1>4. ASSUME NEW b \in Content, NEW o \in Content, NEW t \in Content
      PROVE  /\ Conflict(b, o, t) \in Entries /\ Conflict(b, o, t)[OurMode] = o
             /\ Just(o) \in Entries /\ ~Conflicted(Just(o))
  <2>1. Conflict(b, o, t)[OurMode] = o
    BY DEF Conflict, NoEntry, Stage, Merged, AncestorMode, OurMode, TheirMode
  <2> QED BY <2>1, EntryTypes, JustFacts
<1>5. ASSUME NEW e \in Entries, NEW idx \in {index, op.snap}, NEW f \in Entries,
             index' = [idx EXCEPT ![p] = e], blobs' = Cache(p, f),
             ~Conflicted(e) \/ (e = f /\ e[OurMode] = ours)
      PROVE  Goal
  <2>1. idx \in Index
    BY <1>1
  <2>2. index'[p] = e /\ \A q \in Path \ {p} : index'[q] = idx[q]
    BY <1>5, <2>1 DEF Index
  <2>3. /\ \A s \in Stage : f[s] # Absent => blobs'[p][s] = f[s]
        /\ \A q \in Path : q # p => blobs'[q] = blobs[q]
    BY <1>1, <1>5, CacheTypes, Zenon
  <2> HIDE DEF ours
  <2> QED BY <1>5, <2>2, <2>3
<1> DEFINE e == Conflict(base, ours, theirs)
           d == Conflict(Absent, ours, theirs)
           at == IF use.shared THEN index ELSE op.snap
<1>6. e \in Entries /\ d \in Entries /\ e[OurMode] = ours /\ d[OurMode] = ours
  <2> HIDE DEF base, ours, theirs
  <2> QED BY <1>2, <1>4
<1>7. \/ /\ blobs' = Cache(p, e)
         /\ \E r \in Diff3Results(base, ours, theirs) :
               index' = IF r = Marked THEN [at EXCEPT ![p] = e] ELSE [index EXCEPT ![p] = Just(r)]
      \/ /\ blobs' = Cache(p, d) /\ index' = [at EXCEPT ![p] = d]
      \/ /\ blobs' = Cache(p, e) /\ index' = [at EXCEPT ![p] = e]
      \/ blobs' = blobs /\ index' = index
  BY DEF CompareBoth, AddConflict, AddFile, area
<1>8. at \in {index, op.snap}
  OBVIOUS
<1>9. ASSUME NEW r \in Diff3Results(base, ours, theirs) PROVE Just(r) \in Entries /\ ~Conflicted(Just(r))
  <2>1. r \in Content
    <3> HIDE DEF base, ours, theirs
    <3> QED BY <1>2, ContentAssumption DEF Diff3Results, Content
  <2> QED BY <2>1, EntryTypes, JustFacts
<1> HIDE DEF base, ours, theirs, e, d, at, Goal
<1>10. ASSUME blobs' = Cache(p, d), index' = [at EXCEPT ![p] = d] PROVE Goal
  BY <1>5, <1>6, <1>8, <1>10
<1>11. ASSUME blobs' = Cache(p, e), index' = [at EXCEPT ![p] = e] PROVE Goal
  BY <1>5, <1>6, <1>8, <1>11
<1>12. ASSUME NEW r \in Diff3Results(base, ours, theirs),
              blobs' = Cache(p, e), index' = [index EXCEPT ![p] = Just(r)]
       PROVE  Goal
  <2> DEFINE j == Just(r)
  <2>2. j \in Entries /\ ~Conflicted(j) /\ index' = [index EXCEPT ![p] = j]
    BY <1>9, <1>12
  <2> HIDE DEF j
  <2> QED BY <1>5, <1>6, <1>12, <2>2
<1>13. ASSUME blobs' = blobs, index' = index PROVE Goal
  BY <1>13 DEF Goal
<1>14. Goal
  BY <1>7, <1>10, <1>11, <1>12, <1>13
<1> QED BY <1>3, <1>14 DEF Goal, ours

\* A step of a merge keeps AInv: the first merge that is not between virtual
\* bases starts from an index without a conflict, and stages HEAD's entries.
LEMMA MergeAbort ==
    ASSUME TypeOK, OpKnown, Recoverable, AInv, MergeStep
    PROVE  AInv'
<1>0. /\ commits' = commits /\ branch' = branch /\ head' = head /\ use' = use /\ began' = began
      /\ op.pc \in MergePc /\ SeveralBases' = SeveralBases
      /\ op \in CallInProgress /\ index \in Index /\ commits \in Seq(Commits)
      /\ MergesKnown(op) /\ op.left.commit \in Known
  <2>1. /\ commits' = commits /\ branch' = branch /\ head' = head /\ use' = use /\ began' = began
        /\ op.pc \in MergePc
    BY DEF MergeStep, SetMergeHead, SetOrigHead, ResetForMerge, CompareBoth, CompareFails,
           TakeTheirs, ComputeParent, VirtualNext, SetMergeMsg, Compared, Step, refs, ghosts, MergePc
  <2> QED BY <2>1, SameCommits DEF TypeOK, OpKnown, MergesKnown, KnownFrame
<1>1. /\ BeganInv /\ OursInv /\ AbortInv /\ StackInv
      /\ last = NoCall /\ op.name # "abort" /\ op.mode = "none"
      /\ op.stack # <<>> => SeveralBases /\ origHead = began.orig
      /\ BeganCommit' = BeganCommit
      /\ ~began'.switched =>
            IF began'.head \in Branch
            THEN head' = began'.head /\ \A b \in Branch \ {head'} : branch'[b] = began'.branch[b]
            ELSE head' \notin Branch /\ branch' = began'.branch
  <2>1. BeganInv /\ OursInv /\ AbortInv /\ StackInv
    BY DEF AInv, Recoverable
  <2>2. last = NoCall /\ op.name # "abort" /\ op.mode = "none"
    BY <1>0, <2>1 DEF AbortInv, Idle, MergePc
  <2>3. op.stack # <<>> => SeveralBases /\ origHead = began.orig
    BY <1>0, <2>1 DEF BeganInv, StackInv
  <2>4. BeganCommit' = BeganCommit
    BY <1>0 DEF BeganCommit
  <2>5. OnlyHeadMoves
    BY <1>0, HeadStays
  <2> QED BY <1>0, <2>1, <2>2, <2>3, <2>4, <2>5, BeganKept
<1>2. ASSUME op' = NoOp, origHead' = origHead, index' = index,
             last' = last \/ last' = [name |-> op.name, mode |-> op.mode],
             origHead = began.orig \/ OursIn(index, origHead)
      PROVE  AInv'
  <2>1. op'.pc = "idle" /\ op'.name = "none" /\ ~op'.copied /\ op'.mode = "none"
    BY <1>2, NoOpFields
  <2>2. BeganInv'
    BY <1>0, <1>1, <1>2, <2>1 DEF BeganInv, MergePc
  <2>3. OursInv'
    <3>1. OursIn(index, origHead) => OursIn(index, origHead)'
      BY <1>0, <1>2, OursKept
    <3> QED BY <1>0, <1>2, <2>1, <3>1 DEF OursInv
  <2>4. AbortInv'
    BY <2>1 DEF AbortInv, Idle, MergePc, CommitPc
  <2>5. Ended'
    <3>1. CASE last' = last
      BY <1>1, <3>1, NotEnded
    <3>2. CASE last' = [name |-> op.name, mode |-> op.mode]
      BY <1>1, <3>2 DEF Ended, AbortReconstructs, HardResetReachesTree
    <3> QED BY <1>2, <3>1, <3>2
  <2> QED BY <2>2, <2>3, <2>4, <2>5 DEF AInv
<1>3. ASSUME op'.pc \in MergePc, op'.name = op.name, op'.mode = op.mode, last' = last
      PROVE  AbortInv' /\ Ended'
  <2>1. AbortInv'
    BY <1>1, <1>3 DEF AbortInv, Idle, MergePc, CommitPc
  <2> QED BY <1>1, <1>3, <2>1, NotEnded
<1>4. CASE SetMergeHead
  <2>1. /\ origHead' = origHead /\ index' = index /\ op.pc = "setMergeHead" /\ last' = last
        /\ op' = [op EXCEPT !.pc = "setOrigHead"] /\ "setOrigHead" \in PC
    BY <1>4 DEF SetMergeHead, Step, At, PC, area, ghosts
  <2>2. /\ op'.pc = "setOrigHead" /\ op'.stack = op.stack /\ op'.left = op.left
        /\ op'.name = op.name /\ op'.mode = op.mode
    BY <1>0, <2>1, MovesOn
  <2>3. origHead = began.orig
    BY <1>1, <2>1 DEF BeganInv
  <2>4. BeganInv'
    BY <1>0, <1>1, <2>1, <2>2, <2>3 DEF BeganInv, Outermost, MergePc
  <2>5. OursInv'
    BY <1>0, <2>1, <2>2, <2>3 DEF OursInv
  <2> QED BY <1>3, <2>1, <2>2, <2>4, <2>5 DEF AInv, MergePc
<1>5. CASE SetOrigHead
  <2>1. /\ origHead' = op.left.commit /\ index' = index /\ op.pc = "setOrigHead" /\ last' = last
        /\ op' = [op EXCEPT !.pc = "resetForMerge"] /\ "resetForMerge" \in PC
    BY <1>5 DEF SetOrigHead, Step, At, PC, area, ghosts
  <2>2. /\ op'.pc = "resetForMerge" /\ op'.stack = op.stack /\ op'.left = op.left
        /\ op'.name = op.name /\ op'.mode = op.mode
    BY <1>0, <2>1, MovesOn
  <2>3. op.stack = <<>> /\ origHead = began.orig
    BY <1>1, <2>1 DEF StackInv, BeganInv
  <2>4. BeganInv'
    BY <1>0, <1>1, <2>1, <2>2, <2>3 DEF BeganInv, Outermost, MergePc
  <2>5. OursInv'
    <3>1. began.orig = None /\ ~SeveralBases => ~Conf
      BY <2>3 DEF Recoverable, ConflictsAreRecoverable, Conf
    <3>2. began.orig = None /\ ~SeveralBases => OursIn(index, origHead)'
      BY <2>1, <3>1 DEF OursIn, Conf
    <3> QED BY <1>0, <2>1, <2>2, <3>2 DEF OursInv
  <2> QED BY <1>3, <2>1, <2>2, <2>4, <2>5 DEF AInv, MergePc
<1>6. CASE ResetForMerge
  <2>1. /\ origHead' = origHead /\ op.pc = "resetForMerge" /\ last' = last
        /\ index' = ResetIndexTo(index, TreeOf(op.left.commit))
        /\ op'.pc = "compare" /\ op'.stack = op.stack /\ op'.left = op.left
        /\ op'.snap = index' /\ op'.name = op.name /\ op'.mode = op.mode
    BY <1>0, <1>6 DEF ResetForMerge, Step, refs, CallInProgress
  <2>2. \A p \in Path : ~Conflicted(index'[p])
    BY <1>0, <2>1, ResetFacts, TreesOfKnown
  <2>3. BeganInv'
    BY <1>0, <1>1, <2>1 DEF BeganInv, Outermost, MergePc
  <2>4. OursInv'
    BY <2>1, <2>2 DEF OursInv, OursIn
  <2> QED BY <1>3, <2>1, <2>3, <2>4 DEF AInv, MergePc
<1>7. ASSUME NEW p \in Path, CompareBoth(p) PROVE AInv'
  <2>1. /\ origHead' = origHead /\ op.pc = "compare" /\ last' = last
        /\ op'.pc = "compare" /\ op'.stack = op.stack /\ op'.left = op.left
        /\ op'.name = op.name /\ op'.mode = op.mode
    BY <1>0, <1>7 DEF CompareBoth, Step, refs, ghosts, CallInProgress
  <2>2. BeganInv'
    BY <1>0, <1>1, <2>1 DEF BeganInv, Outermost, MergePc
  <2>3. OursInv'
    <3>1. CASE op.stack # <<>>
      BY <1>0, <1>1, <2>1, <3>1 DEF OursInv
    <3>2. CASE op.stack = <<>>
      <4>1. OursIn(op.snap, origHead) /\ OursIn(index, origHead)
        BY <1>1, <2>1, <3>2 DEF OursInv
      <4>2. OursBlob(p) = TreeOf(origHead)[p]
        <5>1. ~op.left.virtual /\ origHead = op.left.commit
          BY <1>0, <1>1, <2>1, <3>2 DEF StackInv, Outermost
        <5> QED BY <5>1, OursBlobIsOurs
      <4>3. \A q \in Path : TreeOf(origHead)'[q] = TreeOf(origHead)[q]
        BY <1>0, <2>1 DEF TreeOf
      <4>4. OursIn(index, origHead)'
        <5>1. ASSUME NEW q \in Path, Conflicted(index'[q])
              PROVE  index'[q][OurMode] = TreeOf(origHead)[q]
          <6>1. CASE q = p
            BY <1>7, <4>1, <4>2, <5>1, <6>1, CompareEffect DEF OursIn
          <6>2. CASE q # p
            <7>1. PICK idx \in {index, op.snap} : \A r \in Path \ {p} : index'[r] = idx[r]
              BY <1>7, CompareEffect
            <7> QED BY <4>1, <5>1, <6>2, <7>1 DEF OursIn
          <6> QED BY <6>1, <6>2
        <5> QED BY <4>3, <5>1 DEF OursIn
      <4>5. OursIn(op.snap, origHead)'
        <5>1. op'.snap = index' \/ op'.snap = op.snap
          BY <1>7, CompareEffect
        <5>2. CASE op'.snap = index'
          BY <4>4, <5>2 DEF OursIn
        <5>3. CASE op'.snap = op.snap
          BY <4>1, <4>3, <5>3 DEF OursIn
        <5> QED BY <5>1, <5>2, <5>3
      <4> QED BY <4>4, <4>5 DEF OursInv
    <3> QED BY <3>1, <3>2
  <2> QED BY <1>3, <2>1, <2>2, <2>3 DEF AInv, MergePc
<1>8. ASSUME NEW p \in Path, TakeTheirs(p) PROVE AInv'
  <2>1. /\ origHead' = origHead /\ op.pc = "compare" /\ last' = last
        /\ op'.pc = "compare" /\ op'.stack = op.stack /\ op'.left = op.left
        /\ op'.snap = op.snap /\ op'.name = op.name /\ op'.mode = op.mode
        /\ index' = [index EXCEPT ![p] = Just(TreeOf(op.right)[p])] /\ op.right \in Known
    BY <1>0, <1>8 DEF TakeTheirs, Step, refs, ghosts, CallInProgress, AddFile, MergesKnown, KnownFrame
  <2>2. BeganInv'
    BY <1>0, <1>1, <2>1 DEF BeganInv, Outermost, MergePc
  <2>3. OursInv'
    <3>1. CASE op.stack # <<>>
      BY <1>0, <1>1, <2>1, <3>1 DEF OursInv
    <3>2. CASE op.stack = <<>>
      <4>1. OursIn(op.snap, origHead) /\ OursIn(index, origHead)
        BY <1>1, <2>1, <3>2 DEF OursInv
      <4> DEFINE v == TreeOf(op.right)[p]
      <4>2. v \in Content /\ index' = [index EXCEPT ![p] = Just(v)]
        BY <1>0, <2>1, TreesOfKnown DEF Tree, Content
      <4>3. \A q \in Path : Conflicted(index'[q]) => index'[q] = index[q]
        <5> HIDE DEF v
        <5> QED BY <1>0, <4>2, JustAdds
      <4>4. OursIn(index, origHead)'
        BY <1>0, <2>1, <4>1, <4>3, OursKept
      <4>5. OursIn(op.snap, origHead)'
        BY <1>0, <2>1, <4>1 DEF OursIn, TreeOf
      <4> QED BY <4>4, <4>5 DEF OursInv
    <3> QED BY <3>1, <3>2
  <2> QED BY <1>3, <2>1, <2>2, <2>3 DEF AInv, MergePc
<1>9. ASSUME op.pc = "compare" PROVE origHead = began.orig \/ OursIn(index, origHead)
  BY <1>1, <1>9 DEF OursInv
<1>10. ASSUME NEW p \in Path, CompareFails(p) PROVE AInv'
  BY <1>2, <1>9, <1>10 DEF CompareFails, Step, Fail, refs
<1>11. CASE SetMergeMsg
  BY <1>2, <1>9, <1>11 DEF SetMergeMsg, Compared, Succeed
<1>12. CASE ComputeParent
  <2> DEFINE parents == CommonParents(op.left.commit, op.right)
  <2>1. /\ origHead' = origHead /\ index' = index /\ op.pc = "computeParent" /\ last' = last
        /\ (op' = NoOp \/ (parents # {} /\ op' = Based(op, parents)))
    BY <1>12 DEF ComputeParent, Step, refs, Fail
  <2>2. op.stack # <<>> /\ origHead = began.orig
    BY <1>1, <2>1 DEF StackInv
  <2>3. CASE op' = NoOp
    BY <1>2, <2>1, <2>2, <2>3
  <2>4. CASE parents # {} /\ op' = Based(op, parents)
    <3>1. parents \subseteq Known
      BY CommonAreKnown
    <3> HIDE DEF parents
    <3>2. /\ Outermost(op') = Outermost(op) /\ op'.pc \in {"computeParent", "resetForMerge"}
          /\ op'.name = op.name /\ op'.mode = op.mode
      BY <1>0, <2>2, <2>4, <3>1, BasedFacts
    <3>3. BeganInv'
      BY <1>0, <1>1, <2>1, <2>2, <3>2 DEF BeganInv, MergePc, Outermost
    <3>4. OursInv'
      BY <1>0, <2>1, <2>2, <3>2 DEF OursInv
    <3> QED BY <1>3, <2>1, <3>2, <3>3, <3>4 DEF AInv, MergePc
  <2> QED BY <2>1, <2>3, <2>4
<1>13. CASE VirtualNext
  <2>1. origHead' = origHead /\ index' = index /\ last' = last
    BY <1>13 DEF VirtualNext, refs, area, ghosts
  <2>2. /\ Outermost(op') = Outermost(op) /\ op.stack # <<>>
        /\ op'.pc \in {"computeParent", "setMergeHead", "resetForMerge"}
        /\ op'.name = op.name /\ op'.mode = op.mode
    BY <1>13, VirtualFacts
  <2>3. origHead = began.orig
    BY <1>1, <2>2
  <2>4. BeganInv'
    BY <1>0, <1>1, <2>1, <2>2, <2>3 DEF BeganInv, MergePc, Outermost
  <2>5. OursInv'
    BY <1>0, <2>1, <2>2, <2>3 DEF OursInv
  <2> QED BY <1>3, <2>1, <2>2, <2>4, <2>5 DEF AInv, MergePc
<1> QED BY <1>4, <1>5, <1>6, <1>7, <1>8, <1>10, <1>11, <1>12, <1>13 DEF MergeStep

\* What BeganInv needs of a step that is no merge's.
LEMMA BeganStays ==
    ASSUME BeganInv, began' = began, OnlyHeadMoves \/ began.switched,
           op'.pc \notin MergePc \cup {"switch"}, origHead' \in {origHead, None}
    PROVE  BeganInv'
<1>1. BeganCommit' = BeganCommit
  BY DEF BeganCommit
<1>2. ~began'.switched =>
          IF began'.head \in Branch
          THEN head' = began'.head /\ \A b \in Branch \ {head'} : branch'[b] = began'.branch[b]
          ELSE head' \notin Branch /\ branch' = began'.branch
  BY BeganKept
<1> QED BY <1>1, <1>2 DEF BeganInv, MergePc

\* What OursInv needs of it: the conflicts stay as they are, or none is left.
LEMMA OursStays ==
    ASSUME OursInv, commits' = commits, began' = began, use' = use,
           op'.pc \notin MergePc, origHead' \in {origHead, None},
           \/ index' = index /\ (op.pc # "resetForMerge" \/ use.dies)
           \/ ~Conf'
    PROVE  OursInv'
<1>1. SeveralBases' = SeveralBases
  BY SameCommits
<1>2. ~Conf' => OursIn(index, origHead)'
  BY DEF Conf, OursIn
<1>3. ASSUME began.orig = None, origHead' # None, index' = index,
             ~SeveralBases \/ ~use.dies, op.pc # "resetForMerge" \/ use.dies
      PROVE  OursIn(index, origHead)'
  <2>1. origHead' = origHead /\ OursIn(index, origHead)
    BY <1>3 DEF OursInv
  <2> QED BY <1>3, <2>1, OursKept
<1> QED BY <1>1, <1>2, <1>3 DEF OursInv, MergePc

\* The index that a reset leaves, if its conflicts are those of a merge of the
\* commit it resets to.
LEMMA ResetLeaves ==
    ASSUME TypeOK, OpKnown, OursInv, AbortInv, ResetIndex
    PROVE  /\ ~Conf'
           /\ Exact => index' = AsIndex(TreeOf(op.target))
<1>1. /\ index' = ResetIndexTo(index, TreeOf(op.target)) /\ op.target \in Known
      /\ op.pc = "resetIndex" /\ commits \in Seq(Commits) /\ index \in Index
  BY DEF ResetIndex, Step, OpKnown, TypeOK
<1>2. TreeOf(op.target) \in Tree /\ op.target # None
  BY <1>1, TreesOfKnown
<1>3. ~Conf'
  BY <1>1, <1>2, ResetFacts DEF Conf
<1>4. ASSUME Exact, ~use.shared PROVE OursIn(index, op.target)
  <2>1. op.name = "abort" /\ began.orig = None /\ (~SeveralBases \/ ~use.dies)
    BY <1>4 DEF Exact
  <2>2. origHead = op.target
    BY <1>1, <2>1 DEF AbortInv
  <2> QED BY <1>1, <1>2, <2>1, <2>2 DEF OursInv
<1>5. Exact => index' = AsIndex(TreeOf(op.target))
  BY <1>1, <1>2, <1>4, ResetIsExact DEF OursIn
<1> QED BY <1>3, <1>5

\* Over an index that is that of the tree, the worktree becomes that tree.
LEMMA WorktreeLeaves ==
    ASSUME TypeOK, NEW t \in Tree, t = TreeOf(op.target), index = AsIndex(t), ResetWorktree
    PROVE  /\ index' = AsIndex(t) /\ files' = t
           /\ IF op.name = "abort" THEN At("abortEnd") /\ UNCHANGED last ELSE Succeed
<1> DEFINE changed == {p \in Path : files[p] # First(index[p])}
           written == {p \in changed : First(index[p]) # Absent}
<1>1. \A p \in Path : index[p] = Just(t[p]) /\ First(index[p]) = t[p]
  BY JustFacts DEF AsIndex, Tree, Content
<1>2. ~\E p \in written : t[p] = Absent
  BY <1>1
<1>3. /\ files' = [p \in Path |->
                      CASE p \in written -> t[p]
                        [] p \in changed \ written -> Absent
                        [] OTHER -> files[p]]
      /\ index' = [p \in Path |-> IF p \in written THEN Just(t[p]) ELSE index[p]]
      /\ IF op.name = "abort" THEN At("abortEnd") /\ UNCHANGED last ELSE Succeed
  BY <1>2 DEF ResetWorktree
<1>4. \A p \in Path : files'[p] = t[p]
  BY <1>1, <1>3
<1>5. files' = t
  BY <1>3, <1>4 DEF Tree
<1>6. index' = AsIndex(t)
  BY <1>1, <1>3 DEF AsIndex
<1> QED BY <1>3, <1>5, <1>6

\* HEAD is where AbortMerge found ORIG_HEAD: nothing moved.
LEMMA NothingMoved ==
    ASSUME TypeOK, BeganInv, ~began.switched, HeadCommit = BeganCommit
    PROVE  branch = began.branch /\ head = began.head
<1>0. branch \in [Branch -> Ref] /\ began.branch \in [Branch -> Number]
  BY DEF TypeOK
<1>1. CASE began.head \in Branch
  <2>1. head = began.head /\ \A b \in Branch \ {head} : branch[b] = began.branch[b]
    BY <1>1 DEF BeganInv
  <2>2. branch[head] = began.branch[head]
    BY <1>1, <2>1 DEF HeadCommit, BeganCommit
  <2> QED BY <1>0, <2>1, <2>2
<1>2. CASE began.head \notin Branch
  BY <1>2 DEF BeganInv, HeadCommit, BeganCommit
<1> QED BY <1>1, <1>2

\* The steps of Reset, Checkout, AbortMerge and Commit keep AInv, and so does
\* the end of the process.
LEMMA OthersAbort ==
    ASSUME TypeOK, OpKnown, Recoverable, AInv, OtherStep \/ Die
    PROVE  AInv'
<1>0. /\ BeganInv /\ OursInv /\ AbortInv /\ NoConflicts
      /\ op \in CallInProgress /\ commits \in Seq(Commits)
      /\ {"reset", "resetIndex", "resetWorktree", "abortEnd",
          "removeMergeHead", "removeMergeMsg", "removeOrigHead"} \subseteq PC
      /\ use' = use /\ began' = began
  <2>1. use' = use /\ began' = began
    BY DEF OtherStep, ResetHead, ResetIndex, ResetWorktree, SwitchHead, AbortMsg, AbortEnd,
           UpdateHead, RemoveMergeHead, RemoveMergeMsg, RemoveOrigHead, Die, Step, ghosts
  <2> QED BY <2>1 DEF AInv, Recoverable, TypeOK, PC
<1>a. /\ op.name = "abort" => mergeHead = None
      /\ op.name = "abort" /\ op.pc # "abortMsg" =>
            op.mode = "hard" /\ origHead = op.target /\ ~mergeMsg
      /\ op.pc # "idle" => last = NoCall
  BY <1>0 DEF AbortInv, Idle
<1>1. CASE ResetHead
  <2>1. /\ op.pc = "reset" /\ op.target \in Known /\ op.target \notin Branch
        /\ commits' = commits /\ origHead' = origHead /\ index' = index
        /\ mergeHead' = mergeHead /\ mergeMsg' = mergeMsg
    BY <1>0, <1>1, TreesOfKnown DEF ResetHead, Step, OpKnown, area
  <2>2. CASE op' = NoOp /\ UNCHANGED <<last, branch, head>>
    <3>1. OnlyHeadMoves
      BY <2>2, HeadStays
    <3>2. BeganInv' /\ OursInv'
      BY <1>0, <2>1, <2>2, <3>1, BeganStays, OursStays, NoOpFields DEF MergePc
    <3>3. AbortInv' /\ Ended'
      BY <1>a, <2>1, <2>2, NoOpFields, NotEnded DEF AbortInv, Idle, MergePc, CommitPc
    <3> QED BY <3>2, <3>3 DEF AInv
  <2>3. CASE op.mode = "soft" /\ SetHead(op.target) /\ Succeed
    <3>1. op' = NoOp /\ last' = [name |-> op.name, mode |-> op.mode]
      BY <2>3 DEF Succeed
    <3>2. OnlyHeadMoves
      BY <2>1, <2>3, SetHeadMoves
    <3>3. BeganInv' /\ OursInv'
      BY <1>0, <2>1, <3>1, <3>2, BeganStays, OursStays, NoOpFields DEF MergePc
    <3>4. AbortInv'
      BY <3>1, NoOpFields DEF AbortInv, Idle, MergePc, CommitPc
    <3>5. last'.name # "abort" /\ last'.mode # "hard"
      BY <1>a, <2>1, <2>3, <3>1
    <3>6. Ended'
      BY <3>5 DEF Ended, AbortReconstructs, HardResetReachesTree
    <3> QED BY <3>3, <3>4, <3>6 DEF AInv
  <2>4. CASE SetHead(op.target) /\ At("resetIndex") /\ UNCHANGED last
    <3>1. op'.pc = "resetIndex" /\ op'.name = op.name /\ op'.target = op.target
          /\ op'.mode = op.mode
      BY <1>0, <2>4, MovesOn DEF At
    <3>2. OnlyHeadMoves /\ HeadCommit' = op.target
      BY <2>1, <2>4, SetHeadMoves
    <3>3. BeganInv' /\ OursInv'
      BY <1>0, <2>1, <3>1, <3>2, BeganStays, OursStays DEF MergePc
    <3>4. AbortInv'
      BY <1>a, <2>1, <2>4, <3>1, <3>2 DEF AbortInv, Idle, MergePc, CommitPc
    <3>5. Ended'
      BY <1>a, <2>1, <2>4, NotEnded
    <3> QED BY <3>3, <3>4, <3>5 DEF AInv
  <2> QED BY <1>1, <2>2, <2>3, <2>4, Zenon DEF ResetHead, Fail
<1>2. CASE ResetIndex
  <2>1. /\ op.pc = "resetIndex" /\ commits' = commits /\ origHead' = origHead
        /\ mergeHead' = mergeHead /\ mergeMsg' = mergeMsg
        /\ branch' = branch /\ head' = head /\ HeadCommit = op.target
    BY <1>0, <1>2 DEF ResetIndex, Step, refs, AbortInv
  <2>2. ~Conf' /\ (Exact => index' = AsIndex(TreeOf(op.target)))
    BY <1>0, <1>2, ResetLeaves
  <2>3. OnlyHeadMoves
    BY <2>1, HeadStays
  <2>4. CASE op.mode = "mixed" /\ Succeed
    <3>1. op' = NoOp /\ last' = [name |-> op.name, mode |-> op.mode]
      BY <2>4 DEF Succeed
    <3>2. BeganInv' /\ OursInv'
      BY <1>0, <2>1, <2>2, <2>3, <3>1, BeganStays, OursStays, NoOpFields DEF MergePc
    <3>3. AbortInv'
      BY <3>1, NoOpFields DEF AbortInv, Idle, MergePc, CommitPc
    <3>4. last'.name # "abort" /\ last'.mode # "hard"
      BY <1>a, <2>1, <2>4, <3>1
    <3>5. Ended'
      BY <3>4 DEF Ended, AbortReconstructs, HardResetReachesTree
    <3> QED BY <3>2, <3>3, <3>5 DEF AInv
  <2>5. CASE At("resetWorktree") /\ UNCHANGED last
    <3>1. op'.pc = "resetWorktree" /\ op'.name = op.name /\ op'.target = op.target
          /\ op'.mode = op.mode
      BY <1>0, <2>5, MovesOn DEF At
    <3>2. BeganInv' /\ OursInv'
      BY <1>0, <2>1, <2>2, <2>3, <3>1, BeganStays, OursStays DEF MergePc
    <3>3. Exact' = Exact /\ HeadCommit' = op'.target /\ TreeOf(op.target)' = TreeOf(op.target)
      BY <1>0, <2>1, <3>1, SameRefs, SameCommits DEF Exact, TreeOf
    <3>4. AbortInv'
      BY <1>a, <2>1, <2>2, <2>5, <3>1, <3>3 DEF AbortInv, Idle, MergePc, CommitPc, TreeOf
    <3>5. Ended'
      BY <1>a, <2>1, <2>5, NotEnded
    <3> QED BY <3>2, <3>4, <3>5 DEF AInv
  <2> QED BY <1>2, <2>4, <2>5, Zenon DEF ResetIndex
<1>3. CASE ResetWorktree
  <2> DEFINE t == TreeOf(op.target)
  <2>1. /\ op.pc = "resetWorktree" /\ commits' = commits /\ origHead' = origHead
        /\ mergeHead' = mergeHead /\ mergeMsg' = mergeMsg
        /\ branch' = branch /\ head' = head /\ HeadCommit = op.target
        /\ op.target \in Known /\ t \in Tree
    BY <1>0, <1>3, TreesOfKnown DEF ResetWorktree, Step, refs, AbortInv, OpKnown
  <2>2. Exact => index' = AsIndex(t) /\ files' = t
                 /\ IF op.name = "abort" THEN At("abortEnd") /\ UNCHANGED last ELSE Succeed
    <3>1. Exact => index = AsIndex(t)
      BY <1>0, <2>1 DEF AbortInv
    <3> HIDE DEF t
    <3> QED BY <1>3, <2>1, <3>1, WorktreeLeaves DEF t
  <2>3. ~Conf'
    BY <1>0, <1>3, WorktreeAddsNone
  <2>4. OnlyHeadMoves
    BY <2>1, HeadStays
  <2>5. HeadCommit' = op.target /\ TreeOf(HeadCommit)' = t
    <3>1. HeadCommit' = op.target
      BY <2>1, SameRefs
    <3> QED BY <2>1, <3>1 DEF TreeOf
  <2>6. CASE op' = NoOp
    <3>1. BeganInv' /\ OursInv'
      BY <1>0, <2>1, <2>3, <2>4, <2>6, BeganStays, OursStays, NoOpFields DEF MergePc
    <3>2. AbortInv'
      BY <2>6, NoOpFields DEF AbortInv, Idle, MergePc, CommitPc
    <3>3. CASE last' = last
      BY <1>a, <2>1, <3>1, <3>2, <3>3, NotEnded DEF AInv
    <3>4. CASE op.name # "abort" /\ last' = [name |-> op.name, mode |-> op.mode]
      <4>1. last'.name # "abort"
        BY <3>4
      <4>2. use.shared => index' = AsIndex(t) /\ files' = t
        BY <2>2 DEF Exact
      <4>3. use'.shared => HardResetReachesTree'
        <5> HIDE DEF t
        <5> QED BY <1>0, <2>5, <4>2 DEF HardResetReachesTree
      <4> QED BY <3>1, <3>2, <4>1, <4>3 DEF AInv, Ended, AbortReconstructs
    <3> QED BY <1>3, <2>6, <3>3, <3>4 DEF ResetWorktree, Fail, Succeed
  <2>7. CASE op.name = "abort" /\ At("abortEnd") /\ UNCHANGED last
    <3>1. op'.pc = "abortEnd" /\ op'.name = op.name /\ op'.target = op.target
          /\ op'.mode = op.mode
      BY <1>0, <2>7, MovesOn DEF At
    <3>2. BeganInv' /\ OursInv'
      BY <1>0, <2>1, <2>3, <2>4, <3>1, BeganStays, OursStays DEF MergePc
    <3>3. Exact' = Exact /\ HeadCommit' = op'.target /\ TreeOf(op.target)' = t
      BY <1>0, <2>1, <2>5, <3>1, SameCommits DEF Exact, TreeOf
    <3>4. AbortInv'
      <4> HIDE DEF t
      <4> QED BY <1>a, <2>1, <2>2, <2>7, <3>1, <3>3
              DEF AbortInv, Idle, MergePc, CommitPc
    <3>5. Ended'
      BY <1>a, <2>1, <2>7, NotEnded
    <3> QED BY <3>2, <3>4, <3>5 DEF AInv
  <2>8. (op' = NoOp) \/ (op.name = "abort" /\ At("abortEnd") /\ UNCHANGED last)
    BY <1>3, Zenon DEF ResetWorktree, Fail, Succeed
  <2> QED BY <2>6, <2>7, <2>8
<1>4. CASE SwitchHead
  <2>1. /\ op.pc = "switch" /\ commits' = commits /\ origHead' = origHead /\ index' = index
        /\ mergeHead' = mergeHead /\ mergeMsg' = mergeMsg /\ last' = last
        /\ op' = [op EXCEPT !.pc = "reset"]
    BY <1>4 DEF SwitchHead, Step, At, area, ghosts
  <2>2. op'.pc = "reset" /\ op'.name = op.name
    BY <1>0, <2>1, MovesOn
  <2>3. began.switched /\ op.name # "abort"
    BY <1>0, <2>1 DEF BeganInv, AbortInv
  <2>4. BeganInv' /\ OursInv'
    BY <1>0, <2>1, <2>2, <2>3, BeganStays, OursStays DEF MergePc
  <2>5. AbortInv' /\ Ended'
    BY <1>a, <2>1, <2>2, <2>3, NotEnded DEF AbortInv, Idle, MergePc, CommitPc
  <2> QED BY <2>4, <2>5 DEF AInv
<1>5. CASE AbortMsg
  <2>1. /\ op.pc = "abortMsg" /\ commits' = commits /\ origHead' = origHead /\ index' = index
        /\ mergeHead' = mergeHead /\ mergeMsg' = FALSE /\ UNCHANGED <<branch, head, last>>
        /\ \/ op' = NoOp
           \/ origHead # None /\ op' = ResetTo("abort", origHead, "hard")
    BY <1>5 DEF AbortMsg, Step, Fail, area
  <2>2. OnlyHeadMoves /\ op.name = "abort" /\ mergeHead = None
    BY <1>0, <1>a, <2>1, HeadStays DEF AbortInv
  <2>3. \/ op'.pc = "idle" /\ op'.name = "none" /\ op' = NoOp
        \/ /\ op'.pc = "reset" /\ op'.name = "abort" /\ op'.target = origHead
           /\ op'.mode = "hard"
    <3>1. origHead \in Number /\ "abort" \in Name /\ "hard" \in ModeOrNone
      BY Numbers DEF Name, Op, ModeOrNone, Mode
    <3> QED BY <2>1, <3>1, ResetFields, NoOpFields
  <2>4. BeganInv' /\ OursInv'
    BY <1>0, <2>1, <2>2, <2>3, BeganStays, OursStays DEF MergePc
  <2>5. AbortInv' /\ Ended'
    BY <1>a, <2>1, <2>2, <2>3, NotEnded, NoOpFields DEF AbortInv, Idle, MergePc, CommitPc
  <2> QED BY <2>4, <2>5 DEF AInv
<1>6. CASE AbortEnd
  <2>1. /\ op.pc = "abortEnd" /\ commits' = commits /\ origHead' = None
        /\ UNCHANGED <<branch, head, mergeHead, mergeMsg, index, files>>
        /\ op' = NoOp /\ last' = [name |-> op.name, mode |-> op.mode]
    BY <1>6 DEF AbortEnd, Step, Succeed
  <2>2. /\ OnlyHeadMoves /\ op.name = "abort" /\ mergeHead = None /\ ~mergeMsg
        /\ HeadCommit = op.target /\ origHead = op.target /\ origHead # None
    BY <1>0, <1>a, <2>1, HeadStays, TreesOfKnown DEF AbortInv, TypeOK
  <2>3. BeganInv' /\ OursInv'
    BY <1>0, <2>1, <2>2, BeganStays, OursStays, NoOpFields DEF MergePc
  <2>4. AbortInv'
    BY <2>1, NoOpFields DEF AbortInv, Idle, MergePc, CommitPc
  <2>5. HeadCommit' = HeadCommit /\ TreeOf(HeadCommit)' = TreeOf(op.target)
        /\ SeveralBases' = SeveralBases
    <3>1. HeadCommit' = HeadCommit /\ SeveralBases' = SeveralBases
      BY <2>1, SameRefs
    <3> QED BY <2>1, <2>2, <3>1 DEF TreeOf
  <2>6. Exact => index' = AsIndex(TreeOf(op.target)) /\ files' = TreeOf(op.target)
    BY <1>0, <2>1 DEF AbortInv
  <2>7. AbortReconstructs'
    <3>1. began.orig = None /\ ~began.switched => branch = began.branch /\ head = began.head
      BY <1>0, <2>2, NothingMoved DEF BeganInv
    <3>2. began.orig = None /\ ~(use.dies /\ SeveralBases) => Exact
      BY <2>2 DEF Exact
    <3> QED BY <1>0, <2>1, <2>2, <2>5, <2>6, <3>1, <3>2 DEF AbortReconstructs
  <2>8. use'.shared => HardResetReachesTree'
    BY <1>0, <2>5, <2>6 DEF HardResetReachesTree, Exact
  <2> QED BY <2>3, <2>4, <2>7, <2>8 DEF AInv, Ended
<1>7. CASE UpdateHead
  <2>1. /\ op.pc = "updateHead" /\ UNCHANGED <<origHead, index, last>>
        /\ op' = [op EXCEPT !.pc = "removeMergeHead", !.parents = {}]
        /\ SetHead(Len(commits'))
    BY <1>7 DEF UpdateHead, Step, area, ghosts
  <2>2. op'.pc = "removeMergeHead" /\ op'.name = op.name /\ op'.mode = op.mode
    BY <1>0, <2>1 DEF CallInProgress
  <2>3. op.name # "abort" /\ op.mode = "none"
    BY <1>0, <2>1 DEF AbortInv, CommitPc
  <2>4. OnlyHeadMoves
    <3>1. Len(commits') \in Nat
      BY <1>7, StoredCommit, LenProperties
    <3>2. Len(commits') \notin Branch
      BY <3>1, ContentAssumption
    <3> QED BY <2>1, <3>2, SetHeadMoves
  <2>5. BeganInv'
    BY <1>0, <2>1, <2>2, <2>4, BeganStays DEF MergePc
  <2>6. OursInv'
    <3>1. ~Conf'
      BY <1>0, <2>1 DEF NoConflicts, Conf
    <3> QED BY <2>2, <3>1 DEF OursInv, OursIn, Conf
  <2>7. AbortInv' /\ Ended'
    BY <1>a, <2>1, <2>2, <2>3, NotEnded DEF AbortInv, Idle, MergePc, CommitPc
  <2> QED BY <2>5, <2>6, <2>7 DEF AInv
<1>8. CASE RemoveMergeHead \/ RemoveMergeMsg
  <2>1. /\ op.pc \in {"removeMergeHead", "removeMergeMsg"}
        /\ UNCHANGED <<commits, branch, head, origHead, index, last>>
        /\ \E x \in {"removeMergeMsg", "removeOrigHead"} : op' = [op EXCEPT !.pc = x]
    BY <1>8 DEF RemoveMergeHead, RemoveMergeMsg, Step, At, area, ghosts
  <2>2. /\ op'.pc \in {"removeMergeMsg", "removeOrigHead"} /\ op'.name = op.name
        /\ op'.mode = op.mode
    BY <1>0, <2>1, MovesOn
  <2>3. op.name # "abort" /\ op.mode = "none"
    BY <1>0, <2>1 DEF AbortInv, CommitPc
  <2>4. OnlyHeadMoves
    BY <2>1, HeadStays
  <2>5. BeganInv' /\ OursInv'
    BY <1>0, <2>1, <2>2, <2>4, BeganStays, OursStays DEF MergePc
  <2>6. AbortInv' /\ Ended'
    BY <1>a, <2>1, <2>2, <2>3, NotEnded DEF AbortInv, Idle, MergePc, CommitPc
  <2> QED BY <2>5, <2>6 DEF AInv
<1>9. CASE RemoveOrigHead
  <2>1. /\ op.pc = "removeOrigHead" /\ UNCHANGED <<commits, branch, head, index>>
        /\ origHead' = None /\ op' = NoOp /\ last' = [name |-> op.name, mode |-> op.mode]
    BY <1>9 DEF RemoveOrigHead, Step, Succeed
  <2>2. op.name # "abort" /\ op.mode = "none"
    BY <1>0, <2>1 DEF AbortInv, CommitPc
  <2>3. OnlyHeadMoves
    BY <2>1, HeadStays
  <2>4. BeganInv' /\ OursInv'
    BY <1>0, <2>1, <2>3, BeganStays, OursStays, NoOpFields DEF MergePc
  <2>5. AbortInv'
    BY <2>1, NoOpFields DEF AbortInv, Idle, MergePc, CommitPc
  <2>6. Ended'
    BY <2>1, <2>2 DEF Ended, AbortReconstructs, HardResetReachesTree
  <2> QED BY <2>4, <2>5, <2>6 DEF AInv
<1>10. CASE Die
  <2>1. /\ UNCHANGED <<commits, branch, head, origHead, index>> /\ use.dies
        /\ op' = NoOp /\ last' = NoCall
    BY <1>10 DEF Die, refs
  <2>2. OnlyHeadMoves
    BY <2>1, HeadStays
  <2>3. BeganInv' /\ OursInv'
    BY <1>0, <2>1, <2>2, BeganStays, OursStays, NoOpFields DEF MergePc
  <2>4. AbortInv' /\ Ended'
    BY <2>1, NoOpFields, NotEnded DEF AbortInv, Idle, MergePc, CommitPc
  <2> QED BY <2>3, <2>4 DEF AInv
<1> QED BY <1>1, <1>2, <1>3, <1>4, <1>5, <1>6, <1>7, <1>8, <1>9, <1>10 DEF OtherStep

\* A repository starts with no merge found and no call that ended.
LEMMA InitAbort == Init => AInv
<1> SUFFICES ASSUME Init PROVE AInv
  OBVIOUS
<1>1. PICK h \in Histories :
         /\ branch = h.branch /\ head = h.at /\ mergeHead = None /\ origHead = None
         /\ op = NoOp /\ last = NoCall
         /\ began = [branch |-> h.branch, head |-> h.at, orig |-> None, switched |-> FALSE]
  BY DEF Init
<1>2. BeganInv
  BY <1>1, NoOpFields DEF BeganInv, MergePc
<1>3. OursInv
  BY <1>1, NoOpFields DEF OursInv
<1>4. AbortInv
  BY <1>1, NoOpFields DEF AbortInv, MergePc, CommitPc, Idle
<1>5. Ended
  BY <1>1 DEF Ended, AbortReconstructs, HardResetReachesTree, NoCall
<1> QED BY <1>2, <1>3, <1>4, <1>5 DEF AInv

\* Every step keeps AInv.
LEMMA StepAbort ==
    ASSUME TypeOK, OpKnown, Recoverable, AInv, [Next]_vars
    PROVE  AInv'
<1>1. CASE Next
  BY <1>1, CallsAbort, MergeAbort, OthersAbort DEF Next
<1>2. CASE UNCHANGED vars
  <2>1. /\ UNCHANGED <<commits, branch, head, mergeHead, origHead, mergeMsg, index, files>>
        /\ UNCHANGED <<op, use, last, began>>
    BY <1>2 DEF vars, refs, area, ghosts
  <2>2. SeveralBases' = SeveralBases /\ BeganCommit' = BeganCommit /\ HeadCommit' = HeadCommit
    BY <2>1, SameRefs DEF BeganCommit
  <2>3. BeganInv /\ OursInv /\ AbortInv /\ AbortReconstructs
        /\ (use.shared => HardResetReachesTree)
    BY DEF AInv, Ended
  <2>4. BeganInv'
    BY <2>1, <2>2, <2>3 DEF BeganInv, Outermost
  <2>5. OursInv'
    BY <2>1, <2>2, <2>3 DEF OursInv, OursIn, TreeOf
  <2>6. AbortInv'
    BY <2>1, <2>2, <2>3 DEF AbortInv, Exact, TreeOf, Idle
  <2>7. AbortReconstructs' /\ (use.shared => HardResetReachesTree)'
    BY <2>1, <2>2, <2>3 DEF AbortReconstructs, HardResetReachesTree, TreeOf
  <2> QED BY <2>4, <2>5, <2>6, <2>7 DEF AInv, Ended
<1> QED BY <1>1, <1>2

\* What a merge, an abort and a reset leave, together with what it rests on.
LEMMA AbortHolds == Spec => [](AbortReconstructs /\ (use.shared => HardResetReachesTree))
<1> DEFINE RInv == TypeOK /\ OpKnown /\ Recoverable /\ AInv
<1>1. Init => RInv
  BY InitTypes, InitRecoverable, InitAbort
<1>2. RInv /\ [Next]_vars => RInv'
  BY StepTypes, StepRecoverable, StepAbort
<1>3. RInv => AbortReconstructs /\ (use.shared => HardResetReachesTree)
  BY DEF AInv, Ended
<1> QED BY <1>1, <1>2, <1>3, PTL DEF Spec

\* AbortMerge puts HEAD, the branches, the index and the tracked files back to
\* where the merge found them, whatever was reset, committed, added or edited
\* since and at whatever step the process died (nonFastForwardMerge,
\* AbortMerge, resetIndex, resetWorktree); the excuses are AbortReconstructs's.
THEOREM AbortReconstructsHolds == Spec => []AbortReconstructs
  BY AbortHolds, PTL

\* Over a shared index (storage/memory) every hard reset, of Reset, Checkout,
\* Merge, Pull or AbortMerge, leaves index and worktree as the commit has them,
\* whatever conflicts they had before.
THEOREM HardResetHolds == Spec => [](use.shared => HardResetReachesTree)
  BY AbortHolds, PTL

-----------------------------------------------------------------------------
(* The files of a conflict can be read *)

\* The blobs bs have the base, our and their file of a conflict at p in idx.
Readable(idx, bs, p) ==
    Conflicted(idx[p]) => \A s \in Stage : idx[p][s] # Absent => bs[p][s] = idx[p][s]

\* The blobs of every conflict are cached, also of those in the index that
\* compareCommitsChanges read before its loops; a path still to be compared has
\* no conflict, so that a comparison that fails spoils none.
StagesInv ==
    ~use.dies /\ "pull" \notin use.ops =>
        /\ ~op.copied
        /\ \A p \in Path : Readable(index, blobs, p)
        /\ op.pc = "compare" =>
              /\ \A p \in Path : Readable(op.snap, blobs, p)
              /\ \A p \in op.both : ~Conflicted(op.snap[p]) /\ ~Conflicted(index[p])

\* A step that caches nothing and adds no conflict.
LEMMA StagesStay ==
    ASSUME StagesInv, use' = use, ~op'.copied,
           (blobs' = blobs /\ \A p \in Path : Conflicted(index'[p]) => index'[p] = index[p])
             \/ (\A p \in Path : ~Conflicted(index'[p])),
           op'.pc # "compare"
    PROVE  StagesInv'
<1> SUFFICES ASSUME ~use.dies, "pull" \notin use.ops
             PROVE  \A p \in Path : Readable(index', blobs', p)
  BY DEF StagesInv
<1>1. ASSUME NEW p \in Path, Conflicted(index'[p]) PROVE Readable(index', blobs', p)
  <2>1. blobs' = blobs /\ index'[p] = index[p]
    BY <1>1
  <2> QED BY <1>1, <2>1 DEF StagesInv, Readable
<1> QED BY <1>1 DEF Readable

\* The steps of a merge keep StagesInv.
LEMMA MergeStages ==
    ASSUME TypeOK, OpKnown, StagesInv, MergeStep
    PROVE  StagesInv'
<1>0. /\ op \in CallInProgress /\ index \in Index /\ blobs \in Index /\ commits \in Seq(Commits)
      /\ use' = use /\ op.pc \in MergePc
      /\ MergesKnown(op) /\ op.left.commit \in Known /\ op.right \in Known
  <2>1. use' = use /\ op.pc \in MergePc
    BY DEF MergeStep, SetMergeHead, SetOrigHead, ResetForMerge, CompareBoth, CompareFails,
           TakeTheirs, ComputeParent, VirtualNext, SetMergeMsg, Compared, Step, MergePc
  <2> QED BY <2>1 DEF TypeOK, OpKnown, MergesKnown, KnownFrame
<1> SUFFICES ASSUME ~use.dies, "pull" \notin use.ops PROVE StagesInv'
  BY <1>0 DEF StagesInv
<1>1. /\ ~op.copied
      /\ \A p \in Path : Readable(index, blobs, p)
      /\ op.pc = "compare" =>
            /\ \A p \in Path : Readable(op.snap, blobs, p)
            /\ \A p \in op.both : ~Conflicted(op.snap[p]) /\ ~Conflicted(index[p])
      /\ \A bs : Kept(bs) = bs
  BY DEF StagesInv, Kept
<1>2. ASSUME blobs' = blobs, index' = index, op'.pc # "compare", ~op'.copied PROVE StagesInv'
  BY <1>0, <1>2, StagesStay
<1>3. CASE SetMergeHead \/ SetOrigHead
  <2>1. /\ blobs' = blobs /\ index' = index
        /\ \E x \in {"setOrigHead", "resetForMerge"} : op' = [op EXCEPT !.pc = x]
    BY <1>3 DEF SetMergeHead, SetOrigHead, At, area
  <2>2. {"setOrigHead", "resetForMerge"} \subseteq PC
    BY DEF PC
  <2>3. op'.pc # "compare" /\ ~op'.copied
    BY <1>0, <1>1, <2>1, <2>2, MovesOn
  <2> QED BY <1>2, <2>1, <2>3
<1>4. CASE ResetForMerge
  <2>1. /\ index' = ResetIndexTo(index, TreeOf(op.left.commit))
        /\ op'.snap = index' /\ op'.copied = op.copied
        /\ op' \in CallInProgress
    BY <1>0, <1>4, MergeStepTypes DEF ResetForMerge, CallInProgress, TypeOK, MergeStep
  <2>2. \A p \in Path : ~Conflicted(index'[p])
    BY <1>0, <2>1, ResetFacts, TreesOfKnown
  <2>3. op'.both \subseteq Path
    BY <2>1 DEF CallInProgress
  <2> QED BY <1>1, <2>1, <2>2, <2>3 DEF StagesInv, Readable
<1>5. ASSUME NEW p \in Path, CompareBoth(p) PROVE StagesInv'
  <2>1. /\ op.pc = "compare" /\ p \in op.both
        /\ op'.both = op.both \ {p} /\ op'.copied = op.copied /\ op.both \subseteq Path
    BY <1>0, <1>5 DEF CompareBoth, Step, CallInProgress
  <2>2. PICK idx \in {index, op.snap} : \A q \in Path \ {p} : index'[q] = idx[q]
    BY <1>5, CompareEffect
  <2>3. /\ op'.snap = IF Conflicted(index'[p]) THEN index' ELSE op.snap
        /\ \A q \in Path \ {p} : blobs'[q] = blobs[q]
        /\ \/ ~Conflicted(index'[p])
           \/ index'[p] = index[p] /\ index' = index /\ blobs' = blobs
           \/ \A s \in Stage : index'[p][s] # Absent => blobs'[p][s] = index'[p][s]
    BY <1>5, CompareEffect
  <2>4. ASSUME NEW q \in Path PROVE Readable(index', blobs', q)
    <3>1. CASE q = p
      BY <1>1, <2>1, <2>3, <3>1 DEF Readable
    <3>2. CASE q # p
      BY <1>1, <2>1, <2>2, <2>3, <3>2 DEF Readable
    <3> QED BY <3>1, <3>2
  <2>5. ASSUME NEW q \in Path PROVE Readable(op.snap, blobs', q)
    <3>1. CASE q = p
      BY <1>1, <2>1, <3>1 DEF Readable
    <3>2. CASE q # p
      BY <1>1, <2>1, <2>3, <3>2 DEF Readable
    <3> QED BY <3>1, <3>2
  <2>6. \A q \in Path : Readable(op'.snap, blobs', q)
    BY <2>3, <2>4, <2>5
  <2>7. ASSUME NEW q \in op'.both PROVE ~Conflicted(op'.snap[q]) /\ ~Conflicted(index'[q])
    <3>1. q \in op.both /\ q \in Path \ {p}
      BY <2>1
    <3>2. ~Conflicted(op.snap[q]) /\ ~Conflicted(index'[q])
      BY <1>1, <2>1, <2>2, <3>1
    <3> QED BY <2>3, <3>2
  <2> QED BY <1>1, <2>1, <2>4, <2>6, <2>7 DEF StagesInv
<1>6. ASSUME NEW p \in Path, CompareFails(p) PROVE StagesInv'
  <2> DEFINE e == Conflict(BaseBlob(p), Absent, Absent)
  <2>1. /\ op.pc = "compare" /\ p \in op.both /\ index' = index /\ op' = NoOp
        /\ blobs' = Cache(p, e)
    BY <1>1, <1>6 DEF CompareFails, Step, Fail
  <2>2. ~Conflicted(index[p])
    BY <1>1, <2>1
  <2>3. \A q \in Path : q # p => blobs'[q] = blobs[q]
    <3>1. op.base.commit \in Known /\ op.base \in MergingCommit
      BY <1>0, <2>1 DEF OpKnown, MergePc, CallInProgress
    <3>2. BaseBlob(p) \in Content /\ Absent \in Content
      BY <3>1, BlobTypes DEF BaseBlob, Content
    <3>3. e \in Entries
      BY <3>2, EntryTypes
    <3> HIDE DEF e
    <3> QED BY <1>0, <2>1, <3>3, CacheTypes
  <2>4. \A q \in Path : Readable(index', blobs', q)
    BY <1>1, <2>1, <2>2, <2>3 DEF Readable
  <2> QED BY <2>1, <2>4, NoOpFields DEF StagesInv
<1>7. ASSUME NEW p \in Path, TakeTheirs(p) PROVE StagesInv'
  <2> DEFINE v == TreeOf(op.right)[p]
  <2>1. /\ op.pc = "compare" /\ op.both = {} /\ blobs' = blobs
        /\ op'.both = op.both /\ op'.copied = op.copied /\ op'.snap = op.snap
        /\ index' = [index EXCEPT ![p] = Just(v)]
    BY <1>0, <1>7 DEF TakeTheirs, Step, AddFile, CallInProgress
  <2>2. v \in Content
    BY <1>0, TreesOfKnown DEF Tree, Content
  <2>3. \A q \in Path : Conflicted(index'[q]) => index'[q] = index[q]
    <3> HIDE DEF v
    <3> QED BY <1>0, <2>1, <2>2, JustAdds
  <2>4. \A q \in Path : Readable(index', blobs', q)
    BY <1>1, <2>1, <2>3 DEF Readable
  <2> QED BY <1>1, <2>1, <2>4 DEF StagesInv
<1>8. CASE SetMergeMsg
  BY <1>1, <1>2, <1>8, NoOpFields DEF SetMergeMsg, Succeed
<1>9. CASE ComputeParent
  <2> DEFINE parents == CommonParents(op.left.commit, op.right)
  <2>1. /\ blobs' = blobs /\ index' = index
        /\ (op' = NoOp \/ (parents # {} /\ op' = Based(op, parents)))
    BY <1>1, <1>9 DEF ComputeParent, Fail
  <2>2. CASE op' = NoOp
    BY <1>2, <2>1, <2>2, NoOpFields
  <2>3. CASE parents # {} /\ op' = Based(op, parents)
    <3>1. parents \subseteq Known
      BY CommonAreKnown
    <3> HIDE DEF parents
    <3>2. op'.pc # "compare" /\ ~op'.copied
      BY <1>0, <1>1, <2>3, <3>1, BasedFacts
    <3> QED BY <1>2, <2>1, <3>2
  <2> QED BY <2>1, <2>2, <2>3
<1>10. CASE VirtualNext
  <2>1. blobs' = blobs /\ index' = index
    BY <1>10 DEF VirtualNext, area
  <2>2. op'.pc # "compare" /\ op'.copied = op.copied
    BY <1>10, VirtualFacts
  <2> QED BY <1>1, <1>2, <2>1, <2>2
<1> QED BY <1>3, <1>4, <1>5, <1>6, <1>7, <1>8, <1>9, <1>10 DEF MergeStep

\* The calls of the user, and the other steps of calls, keep StagesInv: the
\* blobs are dropped when no conflict is left.
LEMMA OthersStages ==
    ASSUME TypeOK, OpKnown, Recoverable, AbortInv, StagesInv, UserCall \/ OtherStep \/ Die
    PROVE  StagesInv'
<1>0. /\ op \in CallInProgress /\ index \in Index /\ commits \in Seq(Commits)
      /\ NoConflicts
      /\ {"reset", "resetIndex", "resetWorktree", "abortEnd",
          "removeMergeHead", "removeMergeMsg", "removeOrigHead"} \subseteq PC
      /\ use' = use
  <2>1. UserCall => use' = use
    BY CallsAre
  <2>2. ASSUME OtherStep \/ Die PROVE use' = use
    BY <2>2 DEF OtherStep, ResetHead, ResetIndex, ResetWorktree, SwitchHead, AbortMsg, AbortEnd,
           UpdateHead, RemoveMergeHead, RemoveMergeMsg, RemoveOrigHead, Die, Step
  <2> QED BY <2>1, <2>2 DEF Recoverable, TypeOK, PC
<1> SUFFICES ASSUME ~use.dies, "pull" \notin use.ops PROVE StagesInv'
  BY <1>0 DEF StagesInv
<1>1. ~op.copied
  BY DEF StagesInv
<1>2. ASSUME ~op'.copied, op'.pc # "compare", blobs' = blobs,
             \A p \in Path : Conflicted(index'[p]) => index'[p] = index[p]
      PROVE  StagesInv'
  BY <1>0, <1>2, StagesStay
<1>3. ASSUME ~op'.copied, op'.pc # "compare", ~Conf' PROVE StagesInv'
  BY <1>0, <1>3, StagesStay DEF Conf
<1>4. CASE UserCall
  <2>1. /\ op'.pc # "compare"
        /\ \A p \in Path : Conflicted(index'[p]) => index'[p] = index[p]
    <3>1. CASE Starts
      <4>1. PICK name \in {"merge", "pull"}, theirs \in Known : StartMerge(name, theirs)
        BY <3>1 DEF Starts
      <4>2. name \in Name
        BY <4>1 DEF Name, Op
      <4>3. op'.pc # "compare"
        BY <4>1, <4>2, StartFacts, Numbers
      <4> QED BY <1>4, <4>3, CallsBegin
    <3>2. CASE Begins
      BY <1>4, <3>2, CallsBegin DEF Begins, MergePc
    <3> QED BY <1>4, <3>1, <3>2, CallsAre
  <2>2. blobs' = blobs /\ ~op'.copied
    BY <1>4, CallsAre
  <2> QED BY <1>2, <2>1, <2>2
<1>5. CASE ResetHead \/ SwitchHead \/ AbortMsg \/ UpdateHead \/ RemoveMergeHead \/ RemoveMergeMsg
  <2>1. /\ blobs' = blobs /\ index' = index
        /\ \/ op' = NoOp
           \/ op' = [op EXCEPT !.pc = "removeMergeHead", !.parents = {}]
           \/ \E x \in {"reset", "resetIndex", "removeMergeMsg", "removeOrigHead"} :
                 op' = [op EXCEPT !.pc = x]
           \/ origHead # None /\ op' = ResetTo("abort", origHead, "hard")
    BY <1>5 DEF ResetHead, SwitchHead, AbortMsg, UpdateHead, RemoveMergeHead, RemoveMergeMsg,
                At, Fail, Succeed, area
  <2>2. CASE op' = [op EXCEPT !.pc = "removeMergeHead", !.parents = {}]
    <3>1. op'.pc = "removeMergeHead" /\ op'.copied = op.copied
      BY <1>0, <2>2 DEF CallInProgress
    <3> QED BY <1>1, <1>2, <2>1, <3>1
  <2>3. CASE \E x \in {"reset", "resetIndex", "removeMergeMsg", "removeOrigHead"} :
                op' = [op EXCEPT !.pc = x]
    <3>1. op'.pc # "compare" /\ op'.copied = op.copied
      BY <1>0, <2>3, MovesOn
    <3> QED BY <1>1, <1>2, <2>1, <3>1
  <2>4. CASE op' = ResetTo("abort", origHead, "hard")
    <3>1. origHead \in Number /\ "abort" \in Name /\ "hard" \in ModeOrNone
      BY Numbers DEF Name, Op, ModeOrNone, Mode
    <3>2. op'.pc # "compare" /\ ~op'.copied
      BY <2>4, <3>1, ResetFields
    <3> QED BY <1>2, <2>1, <3>2
  <2> QED BY <1>2, <2>1, <2>2, <2>3, <2>4, NoOpFields
<1>6. CASE ResetIndex
  <2>1. /\ index' = ResetIndexTo(index, TreeOf(op.target)) /\ op.target \in Known
        /\ (op' = NoOp \/ op' = [op EXCEPT !.pc = "resetWorktree"])
    BY <1>6 DEF ResetIndex, Step, Succeed, At, OpKnown
  <2>2. ~Conf'
    BY <1>0, <2>1, ResetFacts, TreesOfKnown DEF Conf
  <2>3. op'.pc # "compare" /\ ~op'.copied
    BY <1>0, <1>1, <2>1, MovesOn, NoOpFields
  <2> QED BY <1>3, <2>2, <2>3
<1>7. CASE ResetWorktree
  <2>1. op' = NoOp \/ op' = [op EXCEPT !.pc = "abortEnd"]
    BY <1>7 DEF ResetWorktree, Fail, Succeed, At
  <2>2. op'.pc # "compare" /\ ~op'.copied
    BY <1>0, <1>1, <2>1, MovesOn, NoOpFields
  <2> QED BY <1>0, <1>3, <1>7, <2>2, WorktreeAddsNone
<1>8. CASE AbortEnd \/ RemoveOrigHead
  <2>1. op' = NoOp /\ index' = index /\ op.pc \in {"abortEnd", "removeOrigHead"}
    BY <1>8 DEF AbortEnd, RemoveOrigHead, Step, Succeed
  <2>2. ~Conf'
    BY <1>0, <2>1 DEF NoConflicts, Conf
  <2> QED BY <1>3, <2>1, <2>2, NoOpFields
<1>9. CASE Die
  BY <1>9 DEF Die
<1> QED BY <1>4, <1>5, <1>6, <1>7, <1>8, <1>9 DEF OtherStep

\* A repository starts without a conflict.
LEMMA InitStages == Init => StagesInv
<1> SUFFICES ASSUME Init PROVE StagesInv
  OBVIOUS
<1>1. op = NoOp
  BY DEF Init
<1>2. Recoverable /\ ~Conf
  <2>1. origHead = None /\ index = AsIndex(files) /\ files \in Tree
    BY InitTypes DEF Init, TypeOK
  <2>2. ASSUME NEW p \in Path PROVE ~Conflicted(index[p])
    BY <2>1, JustFacts DEF AsIndex, Tree, Content
  <2> QED BY <2>2, InitRecoverable DEF Conf
<1> QED BY <1>1, <1>2, NoOpFields DEF StagesInv, Readable, Conf

\* ReadFileByStage has the base, our and their file of every conflict between
\* any two calls of one process: the blobs that addOrUpdateBlobToCache keeps
\* are dropped with the last conflict only, and a merge that fails half-way
\* spoils none.  Without a pull, which caches them on a copy of the Worktree,
\* and without a death of the process, with which they go.
THEOREM StagesReadableHolds ==
    Spec => [](~use.dies /\ "pull" \notin use.ops => StagesReadable)
<1> DEFINE RInv == TypeOK /\ OpKnown /\ Recoverable /\ AInv /\ StagesInv
<1>1. Init => RInv
  BY InitTypes, InitRecoverable, InitAbort, InitStages
<1>2. RInv /\ [Next]_vars => RInv'
  <2>1. ASSUME TypeOK, OpKnown, Recoverable, AInv, StagesInv, [Next]_vars PROVE StagesInv'
    <3>1. CASE Next
      BY <2>1, <3>1, MergeStages, OthersStages DEF Next, AInv
    <3>2. CASE UNCHANGED vars
      BY <2>1, <3>2 DEF vars, area, StagesInv, Readable
    <3> QED BY <2>1, <3>1, <3>2
  <2> QED BY <2>1, StepTypes, StepRecoverable, StepAbort
<1>3. RInv => (~use.dies /\ "pull" \notin use.ops => StagesReadable)
  BY DEF StagesInv, StagesReadable, Readable
<1> QED BY <1>1, <1>2, <1>3, PTL DEF Spec

-----------------------------------------------------------------------------
(* A merge is three-way *)

\* Two commits have several common parents, of which a virtual base is made.
Several(c, d) == \E x, y \in CommonParents(c, d) : x # y

\* The outermost merge has one base, and it is at hand.
OneBase == op.stack = <<>> /\ ~op.base.virtual

\* The entry e and the file f of a path that base, ours and theirs are merged into.
Taken(e, f, base, ours, theirs) ==
    /\ theirs = base => e = Just(ours)
    /\ ours = base => e = Just(theirs) /\ (f = theirs \/ ours = theirs)
    /\ ~Conflicted(e) => f = e[Merged] \/ f = Absent

\* Those of a path that is still to be merged.
Untaken(e, f, ours) == e = Just(ours) /\ f \in {Absent, ours}

\* How far compareCommitsChanges has come in the merge of HEAD's commit with
\* another of which it has one common parent.
Comparing ==
    /\ op.from = TreeOf(op.base.commit)
    /\ \A p \in Path :
          LET base   == TreeOf(op.base.commit)[p]
              ours   == TreeOf(HeadCommit)[p]
              theirs == TreeOf(op.right)[p]
          IN  /\ p \in op.both =>
                    Untaken(index[p], files[p], ours) /\ base # ours /\ base # theirs
              /\ p \in op.onlyRight =>
                    Untaken(index[p], files[p], ours) /\ base = ours /\ base # theirs
              /\ p \notin op.both \cup op.onlyRight =>
                    Taken(index[p], files[p], base, ours, theirs)

\* The merge at hand is that of HEAD's commit; its base is the common parent if
\* there is one only, and nothing was written before it is compared.
ThreeInv ==
    /\ op.pc \in MergePc =>
          /\ Outermost(op).commit = HeadCommit
          /\ ~OneBase => Several(HeadCommit, OuterRight(op))
          /\ OneBase => CommonParents(HeadCommit, op.right) = {op.base.commit}
    /\ op.pc \in {"setMergeHead", "setOrigHead", "resetForMerge"} /\ OneBase =>
          \A p \in Path : files[p] \in {Absent, TreeOf(HeadCommit)[p]}
    /\ op.pc = "compare" /\ OneBase => Comparing
    /\ op.pc \in {"switch", "reset", "resetIndex"} /\ op.name \in {"merge", "pull"} =>
          op.mode \in {"hard", "merge"}
    /\ op.pc = "resetWorktree" => joined = None
    /\ op.pc \in CommitPc => op.name = "commit"

\* Over a shared index, as MergeIsThreeWay needs it.
SharedThree == use.shared => ThreeInv /\ MergeIsThreeWay

\* Nothing is said of a call that ended badly, of one that was no merge, and of
\* a merge after which the index was reset.
LEMMA NoMergeEnded ==
    ASSUME last' = NoCall \/ joined' = None \/ last'.name \notin {"merge", "pull"}
    PROVE  MergeIsThreeWay'
  BY DEF MergeIsThreeWay, NoCall

\* The common parents after a step that stores no commit.
LEMMA SameParents ==
    ASSUME commits' = commits
    PROVE  \A c, d : CommonParents(c, d)' = CommonParents(c, d)
  BY DEF CommonParents

\* Every path of the merge that ended is taken, or it had several bases.
AllAreTaken ==
    /\ TypeOK /\ use.shared
    /\ \/ Several(HeadCommit, joined)
       \/ \E b : /\ CommonParents(HeadCommit, joined) = {b}
                 /\ \A p \in Path : Taken(index[p], files[p], TreeOf(b)[p],
                                          TreeOf(HeadCommit)[p], TreeOf(joined)[p])

\* A merge whose paths are all taken is three-way; with several common parents
\* nothing is said over a shared index.
LEMMA AllTaken == AllAreTaken => MergeIsThreeWay
<1> SUFFICES ASSUME commits \in Seq(Commits), use.shared, AllAreTaken PROVE MergeIsThreeWay
  BY DEF AllAreTaken, TypeOK
<1>1. IsFiniteSet(CommonParents(HeadCommit, joined))
  <2>1. CommonParents(HeadCommit, joined) \subseteq 1 .. Len(commits)
    BY DEF CommonParents
  <2>2. IsFiniteSet(1 .. Len(commits))
    <3>1. Len(commits) \in Int /\ 1 \in Int
      BY LenProperties
    <3> QED BY <3>1, FS_Interval
  <2> QED BY <2>1, <2>2, FS_Subset
<1>2. CASE Several(HeadCommit, joined)
  <2>1. Cardinality(CommonParents(HeadCommit, joined)) # 1
    BY <1>1, <1>2, FS_Singleton DEF Several
  <2> QED BY <2>1 DEF MergeIsThreeWay
<1>3. ASSUME NEW b, CommonParents(HeadCommit, joined) = {b},
             \A p \in Path : Taken(index[p], files[p], TreeOf(b)[p],
                                   TreeOf(HeadCommit)[p], TreeOf(joined)[p])
      PROVE  MergeIsThreeWay
  <2>1. Bases = {TreeOf(b)}
    BY <1>3 DEF Bases
  <2>2. ASSUME NEW p \in Path
        PROVE  LET ours   == TreeOf(HeadCommit)[p]
                   theirs == TreeOf(joined)[p]
               IN  /\ (\A t \in Bases : theirs = t[p]) => index[p] = Just(ours)
                   /\ (\A t \in Bases : ours = t[p]) => index[p] = Just(theirs)
                   /\ (\A t \in Bases : ours = t[p]) => files[p] = theirs \/ ours = theirs
                   /\ ~Conflicted(index[p]) => files[p] = index[p][Merged] \/ files[p] = Absent
    BY <1>3, <2>1 DEF Taken
  <2> QED BY <2>2 DEF MergeIsThreeWay
<1> QED BY <1>2, <1>3 DEF AllAreTaken

\* The same after a step.
LEMMA AllTakenNext == AllAreTaken' => MergeIsThreeWay'
  BY AllTaken, PTL

\* compareCommitsChanges: a path that both sides changed ends with a conflict
\* or with its file staged; the other paths are left alone.
LEMMA CompareTakes ==
    ASSUME TypeOK, OpKnown, use.shared, NEW p \in Path, CompareBoth(p),
           ~op.base.virtual, ~op.left.virtual, op.from = TreeOf(op.base.commit),
           Untaken(index[p], files[p], TreeOf(op.left.commit)[p])
    PROVE  /\ \A q \in Path \ {p} : index'[q] = index[q] /\ files'[q] = files[q]
           /\ ~Conflicted(index'[p]) => files'[p] = index'[p][Merged] \/ files'[p] = Absent
<1> DEFINE base   == BaseBlob(p)
           ours   == OursBlob(p)
           theirs == TreeOf(op.right)[p]
           left   == Change(op.from[p], TreeOf(op.left.commit)[p])
           right  == Change(op.from[p], theirs)
           Goal == /\ \A q \in Path \ {p} : index'[q] = index[q] /\ files'[q] = files[q]
                   /\ \/ Conflicted(index'[p])
                      \/ files'[p] = index'[p][Merged] \/ files'[p] = Absent
<1>1. /\ op.pc = "compare" /\ op.left.commit \in Known /\ op.base.commit \in Known
      /\ op.right \in Known /\ commits \in Seq(Commits) /\ index \in Index /\ files \in Tree
      /\ op.left \in MergingCommit /\ op.base \in MergingCommit
  BY DEF CompareBoth, Step, TypeOK, OpKnown, MergePc, MergesKnown, KnownFrame, CallInProgress
<1>2. base \in Content /\ ours \in Content /\ theirs \in Content /\ Absent \in Content
  BY <1>1, BlobTypes, TreesOfKnown DEF BaseBlob, OursBlob, Content, Tree
<1>3. ours = TreeOf(op.left.commit)[p]
  BY OursBlobIsOurs
<1>4. ASSUME NEW b \in Content, NEW o \in Content, NEW t \in Content, b # Absent \/ o # Absent
      PROVE  Conflict(b, o, t) \in Entries /\ Conflicted(Conflict(b, o, t))
  <2>1. Conflict(b, o, t)[AncestorMode] = b /\ Conflict(b, o, t)[OurMode] = o
    BY DEF Conflict, NoEntry, Stage, Merged, AncestorMode, OurMode, TheirMode
  <2>2. AncestorMode \in Stage \ {Merged} /\ OurMode \in Stage \ {Merged}
    BY DEF Stage, Merged, AncestorMode, OurMode, TheirMode
  <2> QED BY <1>4, <2>1, <2>2, EntryTypes DEF Conflicted
<1>5. ASSUME NEW e \in Entries, index' = [index EXCEPT ![p] = e], Conflicted(e),
             files' = files \/ \E f : files' = [files EXCEPT ![p] = f]
      PROVE  Goal
  BY <1>1, <1>5 DEF Index, Tree
<1>6. ASSUME NEW r \in Content, index' = [index EXCEPT ![p] = Just(r)],
             files' = [files EXCEPT ![p] = r]
      PROVE  Goal
  <2> DEFINE j == Just(r)
  <2>1. j \in Entries /\ j[Merged] = r /\ index' = [index EXCEPT ![p] = j]
    BY <1>6, EntryTypes, JustFacts
  <2> HIDE DEF j
  <2> QED BY <1>1, <1>6, <2>1 DEF Index, Tree
<1>7. \/ /\ base # Absent
         /\ \E r \in Diff3Results(base, ours, theirs) :
               /\ files' = [files EXCEPT ![p] = r]
               /\ index' = IF r = Marked THEN [index EXCEPT ![p] = Conflict(base, ours, theirs)]
                                         ELSE [index EXCEPT ![p] = Just(r)]
      \/ /\ ours # Absent /\ files' = [files EXCEPT ![p] = Marked]
         /\ index' = [index EXCEPT ![p] = Conflict(Absent, ours, theirs)]
      \/ /\ base # Absent /\ files' = files
         /\ index' = [index EXCEPT ![p] = Conflict(base, ours, theirs)]
      \/ left = "delete" /\ index' = index /\ files' = files
  BY DEF CompareBoth, AddConflict, AddFile, area
<1>8. ASSUME left = "delete", index' = index, files' = files PROVE Goal
  <2>1. TreeOf(op.left.commit)[p] = Absent
    BY <1>8 DEF Change
  <2> QED BY <1>8, <2>1 DEF Untaken
<1>9. ASSUME NEW r \in Diff3Results(base, ours, theirs), base # Absent,
             files' = [files EXCEPT ![p] = r],
             index' = IF r = Marked THEN [index EXCEPT ![p] = Conflict(base, ours, theirs)]
                                    ELSE [index EXCEPT ![p] = Just(r)]
      PROVE  Goal
  <2>1. r \in Content
    <3> HIDE DEF base, ours, theirs
    <3> QED BY <1>2, ContentAssumption DEF Diff3Results, Content
  <2>2. CASE r = Marked
    <3> HIDE DEF base, ours, theirs, Goal
    <3> QED BY <1>2, <1>4, <1>5, <1>9, <2>2
  <2>3. CASE r # Marked
    <3> HIDE DEF base, ours, theirs, Goal
    <3> QED BY <1>6, <1>9, <2>1, <2>3
  <2> QED BY <2>2, <2>3
<1>10. ASSUME ours # Absent, files' = [files EXCEPT ![p] = Marked],
              index' = [index EXCEPT ![p] = Conflict(Absent, ours, theirs)]
       PROVE  Goal
  <2> HIDE DEF base, ours, theirs, Goal
  <2> QED BY <1>2, <1>4, <1>5, <1>10
<1>11. ASSUME base # Absent, files' = files,
              index' = [index EXCEPT ![p] = Conflict(base, ours, theirs)]
       PROVE  Goal
  <2> HIDE DEF base, ours, theirs, Goal
  <2> QED BY <1>2, <1>4, <1>5, <1>11
<1>12. Goal
  <2> HIDE DEF base, ours, theirs, left, right, Goal
  <2> QED BY <1>7, <1>8, <1>9, <1>10, <1>11
<1> QED BY <1>12

\* Where a merge begins, nothing of the files differs from HEAD's commit.
LEMMA CallsThree ==
    ASSUME TypeOK, OpKnown, AbortInv, SharedThree, UserCall
    PROVE  SharedThree'
<1>1. /\ commits' = commits /\ last' = NoCall /\ Idle
      /\ op'.pc \in {"idle", "reset", "switch", "abortMsg", "updateHead"} \cup MergePc
      /\ Starts \/ Begins
  BY CallsBegin, CallsAre
<1>2. MergeIsThreeWay'
  BY <1>1, NoMergeEnded
<1>3. CASE Starts
  <2>1. PICK name \in {"merge", "pull"}, theirs \in Known : StartMerge(name, theirs)
    BY <1>3 DEF Starts
  <2>2. name \in Name /\ HeadCommit \in Number
    BY <2>1, Numbers DEF Name, Op
  <2>3. /\ Outermost(op') = Plain(HeadCommit) /\ OuterRight(op') = theirs
        /\ \/ op'.pc = "computeParent" /\ op'.stack # <<>>
              /\ Several(HeadCommit, theirs)
           \/ op'.pc = "setMergeHead" /\ op'.stack = <<>>
        /\ op'.stack = <<>> => /\ CommonParents(HeadCommit, theirs) = {op'.base.commit}
                               /\ op'.right = theirs /\ ~op'.base.virtual
        /\ ~HasUncommitted(HeadCommit)
    BY <2>1, <2>2, StartFacts DEF Several
  <2>4. branch' = branch /\ head' = head /\ files' = files
    BY <1>3 DEF Starts
  <2>5. HeadCommit' = HeadCommit /\ \A c : TreeOf(c)' = TreeOf(c)
    BY <1>1, <2>4, SameRefs, SameCommits
  <2>6. \A p \in Path : files[p] \in {Absent, TreeOf(HeadCommit)[p]}
    <3>1. Seen(index) = TreeOf(HeadCommit)
          /\ \A p \in Path : files[p] \in {Absent, First(index[p])}
      BY <2>3 DEF HasUncommitted
    <3> QED BY <3>1 DEF Seen
  <2>7. Outermost(op').commit = HeadCommit
    BY <2>2, <2>3, PlainTypes
  <2>8. OneBase' <=> op'.stack = <<>> /\ ~op'.base.virtual
    BY DEF OneBase
  <2>9. ThreeInv'
    <3>1. TreeOf(HeadCommit)' = TreeOf(HeadCommit)
      BY <1>1, <2>5 DEF TreeOf
    <3>2. Several(HeadCommit, theirs)' <=> Several(HeadCommit, theirs)
      BY <1>1, <2>5, SameParents DEF Several
    <3>3. CommonParents(HeadCommit, theirs)' = CommonParents(HeadCommit, theirs)
      BY <1>1, <2>5, SameParents
    <3>4. op'.pc \in MergePc =>
            /\ Outermost(op').commit = HeadCommit'
            /\ ~OneBase' => Several(HeadCommit, OuterRight(op))'
            /\ OneBase' => CommonParents(HeadCommit, op.right)' = {op'.base.commit}
      <4>1. ~OneBase' => Several(HeadCommit, OuterRight(op))'
        BY <1>1, <2>3, <2>5, <2>8, <3>2, SameParents DEF Several
      <4>2. OneBase' => CommonParents(HeadCommit, op.right)' = {op'.base.commit}
        BY <1>1, <2>3, <2>5, <2>8, SameParents DEF CommonParents
      <4> QED BY <2>5, <2>7, <4>1, <4>2
    <3>5. \A p \in Path : files'[p] \in {Absent, TreeOf(HeadCommit)'[p]}
      BY <2>4, <2>6, <3>1
    <3> QED BY <2>3, <3>4, <3>5 DEF ThreeInv, CommitPc, MergePc
  <2> QED BY <1>2, <2>9 DEF SharedThree
<1>4. CASE Begins
  <2>1. ThreeInv'
    BY <1>1, <1>4 DEF ThreeInv, Begins, CommitPc, MergePc
  <2> QED BY <1>2, <2>1 DEF SharedThree
<1> QED BY <1>1, <1>3, <1>4

\* A merge that goes on to the next reference, or among virtual bases.
LEMMA StillMerging ==
    ASSUME TypeOK, ThreeInv, op.pc \in MergePc, commits' = commits, branch' = branch,
           head' = head, last' = NoCall, op'.pc \in MergePc \ {"compare"},
           \/ /\ ~OneBase /\ ~OneBase'
              /\ Outermost(op') = Outermost(op) /\ OuterRight(op') = OuterRight(op)
           \/ /\ op'.stack = op.stack /\ op'.left = op.left /\ op'.right = op.right
              /\ op'.base = op.base /\ files' = files
              /\ op.pc \in {"setMergeHead", "setOrigHead"}
    PROVE  ThreeInv' /\ MergeIsThreeWay'
<1>1. HeadCommit' = HeadCommit
  BY SameRefs
<1>2. MergeIsThreeWay'
  BY NoMergeEnded
<1>3. /\ Outermost(op') = Outermost(op) /\ OuterRight(op') = OuterRight(op)
      /\ OneBase' <=> OneBase
      /\ OneBase => op'.right = op.right /\ op'.base = op.base
  BY DEF Outermost, OuterRight, OneBase
<1>4. Outermost(op').commit = HeadCommit'
  BY <1>1, <1>3 DEF ThreeInv
<1>5. ~OneBase' => Several(HeadCommit, OuterRight(op))'
  BY <1>1, <1>3, SameParents DEF Several, ThreeInv
<1>6. OneBase' => CommonParents(HeadCommit, op.right)' = {op'.base.commit}
  BY <1>1, <1>3, SameParents DEF ThreeInv, CommonParents
<1>7. op'.pc \in {"setMergeHead", "setOrigHead", "resetForMerge"} /\ OneBase' =>
          \A p \in Path : files'[p] \in {Absent, TreeOf(HeadCommit)'[p]}
  <2>1. TreeOf(HeadCommit)' = TreeOf(HeadCommit)
    BY <1>1 DEF TreeOf
  <2> QED BY <1>3, <2>1 DEF ThreeInv
<1>8. ThreeInv'
  BY <1>4, <1>5, <1>6, <1>7 DEF ThreeInv, MergePc, CommitPc
<1> QED BY <1>2, <1>8

\* The steps of a merge take one path after the other.
LEMMA MergeThree ==
    ASSUME TypeOK, OpKnown, StackInv, AbortInv, SharedThree, MergeStep
    PROVE  SharedThree'
<1>0. /\ op \in CallInProgress /\ index \in Index /\ files \in Tree /\ commits \in Seq(Commits)
      /\ use' = use /\ op.pc \in MergePc /\ last = NoCall
      /\ commits' = commits /\ branch' = branch /\ head' = head
      /\ MergesKnown(op) /\ op.left.commit \in Known /\ op.right \in Known
  <2>1. use' = use /\ op.pc \in MergePc /\ commits' = commits /\ branch' = branch /\ head' = head
    BY DEF MergeStep, SetMergeHead, SetOrigHead, ResetForMerge, CompareBoth, CompareFails,
           TakeTheirs, ComputeParent, VirtualNext, SetMergeMsg, Compared, Step, MergePc, refs
  <2> QED BY <2>1 DEF TypeOK, OpKnown, MergesKnown, KnownFrame, AbortInv, Idle, MergePc
<1> SUFFICES ASSUME use.shared PROVE ThreeInv' /\ MergeIsThreeWay'
  BY <1>0 DEF SharedThree
<1>1. /\ ThreeInv /\ HeadCommit' = HeadCommit
      /\ \A c : TreeOf(c)' = TreeOf(c)
      /\ Outermost(op).commit = HeadCommit /\ ~Outermost(op).virtual
      /\ ~OneBase => Several(HeadCommit, OuterRight(op))
      /\ OneBase => CommonParents(HeadCommit, op.right) = {op.base.commit}
  BY <1>0, SameRefs, SameCommits DEF SharedThree, ThreeInv, StackInv
<1>2. OneBase => op.left.commit = HeadCommit /\ ~op.left.virtual
  BY <1>1 DEF OneBase, Outermost
<1>3. ASSUME op' = NoOp, last' = NoCall PROVE ThreeInv' /\ MergeIsThreeWay'
  BY <1>3, NoOpFields, NoMergeEnded DEF ThreeInv, MergePc, CommitPc
<1>4. CASE SetMergeHead \/ SetOrigHead
  <2>1. /\ last' = last /\ files' = files /\ op.pc \in {"setMergeHead", "setOrigHead"}
        /\ \E x \in {"setOrigHead", "resetForMerge"} : op' = [op EXCEPT !.pc = x]
    BY <1>4 DEF SetMergeHead, SetOrigHead, At, area, Step, ghosts
  <2>2. {"setOrigHead", "resetForMerge"} \subseteq PC
    BY DEF PC
  <2>3. /\ op'.pc \in {"setOrigHead", "resetForMerge"} /\ op'.stack = op.stack
        /\ op'.left = op.left /\ op'.right = op.right /\ op'.base = op.base
    BY <1>0, <2>1, <2>2, MovesOn
  <2> QED BY <1>0, <1>1, <2>1, <2>3, StillMerging DEF MergePc
<1>5. CASE ComputeParent
  <2> DEFINE parents == CommonParents(op.left.commit, op.right)
  <2>1. /\ op.pc = "computeParent" /\ last' = last
        /\ (op' = NoOp \/ (parents # {} /\ op' = Based(op, parents)))
    BY <1>5 DEF ComputeParent, Step, Fail
  <2>2. op.stack # <<>>
    BY <2>1 DEF StackInv
  <2>3. CASE op' = NoOp
    BY <1>0, <1>3, <2>1, <2>3
  <2>4. CASE parents # {} /\ op' = Based(op, parents)
    <3>1. parents \subseteq Known
      BY CommonAreKnown
    <3> HIDE DEF parents
    <3>2. /\ Outermost(op') = Outermost(op) /\ OuterRight(op') = OuterRight(op)
          /\ op'.pc \in {"computeParent", "resetForMerge"} /\ op'.stack # <<>>
      BY <1>0, <2>2, <2>4, <3>1, BasedFacts
    <3>3. ~OneBase /\ ~OneBase'
      BY <2>2, <3>2 DEF OneBase
    <3> QED BY <1>0, <1>1, <2>1, <3>2, <3>3, StillMerging DEF MergePc
  <2> QED BY <2>1, <2>3, <2>4
<1>6. CASE VirtualNext
  <2>1. last' = last
    BY <1>6 DEF VirtualNext, ghosts
  <2>2. /\ Outermost(op') = Outermost(op) /\ OuterRight(op') = OuterRight(op)
        /\ op'.pc \in {"computeParent", "setMergeHead", "resetForMerge"}
        /\ op.stack # <<>> /\ (op'.stack = <<>> => op'.base.virtual)
    BY <1>6, VirtualFacts
  <2>3. ~OneBase /\ ~OneBase'
    BY <2>2 DEF OneBase
  <2> QED BY <1>0, <1>1, <2>1, <2>2, <2>3, StillMerging DEF MergePc
<1>7. ASSUME op'.pc = "compare", op'.left = op.left, op'.right = op.right, op'.base = op.base,
             op'.stack = op.stack, last' = last, OneBase => Comparing'
      PROVE  ThreeInv' /\ MergeIsThreeWay'
  <2>1. MergeIsThreeWay'
    BY <1>0, <1>7, NoMergeEnded
  <2>2. /\ Outermost(op') = Outermost(op) /\ OuterRight(op') = OuterRight(op)
        /\ OneBase' <=> OneBase
    BY <1>7 DEF Outermost, OuterRight, OneBase
  <2>3. Outermost(op').commit = HeadCommit'
    BY <1>1, <2>2
  <2>4. ~OneBase' => Several(HeadCommit, OuterRight(op))'
    BY <1>0, <1>1, <2>2, SameParents DEF Several
  <2>5. OneBase' => CommonParents(HeadCommit, op.right)' = {op'.base.commit}
    BY <1>0, <1>1, <1>7, <2>2, SameParents DEF CommonParents
  <2>6. ThreeInv'
    BY <1>7, <2>2, <2>3, <2>4, <2>5 DEF ThreeInv, MergePc, CommitPc
  <2> QED BY <2>1, <2>6
<1>8. CASE ResetForMerge
  <2> DEFINE b == TreeOf(op.base.commit)
             o == TreeOf(HeadCommit)
             t == TreeOf(op.right)
  <2>1. /\ op.pc = "resetForMerge" /\ last' = last /\ files' = files
        /\ index' = ResetIndexTo(index, TreeOf(op.left.commit))
        /\ op'.pc = "compare" /\ op'.left = op.left /\ op'.right = op.right
        /\ op'.base = op.base /\ op'.stack = op.stack
    BY <1>0, <1>8 DEF ResetForMerge, Step, CallInProgress
  <2>2. ASSUME OneBase PROVE Comparing'
    <3>1. /\ op'.from = b
          /\ op'.both = {p \in Path : b[p] # o[p]} \cap {p \in Path : b[p] # t[p]}
          /\ op'.onlyRight = {p \in Path : b[p] # t[p]} \ {p \in Path : b[p] # o[p]}
      BY <1>0, <1>2, <1>8, <2>2 DEF ResetForMerge, OneBase, CallInProgress
    <3>2. o \in Tree /\ index' = AsIndex(o)
      BY <1>0, <1>2, <2>1, <2>2, TreesOfKnown, ResetIsExact
    <3>3. ASSUME NEW p \in Path
          PROVE  index'[p] = Just(o[p]) /\ files'[p] \in {Absent, o[p]}
                 /\ Just(o[p])[Merged] = o[p]
      <4>1. o[p] \in Content /\ files[p] \in {Absent, o[p]}
        BY <1>1, <2>1, <2>2, <3>2 DEF ThreeInv, Tree, Content
      <4>2. Just(o[p])[Merged] = o[p]
        BY <4>1, JustFacts
      <4> QED BY <2>1, <3>2, <4>1, <4>2 DEF AsIndex
    <3>4. TreeOf(op.base.commit)' = b /\ TreeOf(HeadCommit)' = o /\ TreeOf(op.right)' = t
      BY <1>0, <1>1, <2>1 DEF TreeOf
    <3> HIDE DEF b, o, t
    <3>5. ASSUME NEW p \in Path
          PROVE  /\ p \in op'.both =>
                       Untaken(index'[p], files'[p], o[p]) /\ b[p] # o[p] /\ b[p] # t[p]
                 /\ p \in op'.onlyRight =>
                       Untaken(index'[p], files'[p], o[p]) /\ b[p] = o[p] /\ b[p] # t[p]
                 /\ p \notin op'.both \cup op'.onlyRight =>
                       Taken(index'[p], files'[p], b[p], o[p], t[p])
      BY <3>1, <3>3 DEF Untaken, Taken
    <3> QED BY <3>1, <3>4, <3>5 DEF Comparing
  <2> QED BY <1>7, <2>1, <2>2
<1>9. ASSUME NEW p \in Path, op.pc = "compare", op'.from = op.from, op'.right = op.right,
             op'.base = op.base, OneBase,
             \/ p \in op.both /\ op'.both = op.both \ {p} /\ op'.onlyRight = op.onlyRight
             \/ p \in op.onlyRight /\ op'.both = op.both /\ op'.onlyRight = op.onlyRight \ {p},
             \A q \in Path \ {p} : index'[q] = index[q] /\ files'[q] = files[q],
             Taken(index'[p], files'[p], TreeOf(op.base.commit)[p], TreeOf(HeadCommit)[p],
                   TreeOf(op.right)[p])
      PROVE  Comparing'
  <2> DEFINE b == TreeOf(op.base.commit)
             o == TreeOf(HeadCommit)
             t == TreeOf(op.right)
  <2>1. Comparing
    BY <1>1, <1>9 DEF ThreeInv
  <2>2. TreeOf(op.base.commit)' = b /\ TreeOf(HeadCommit)' = o /\ TreeOf(op.right)' = t
    BY <1>0, <1>1, <1>9 DEF TreeOf
  <2>3. /\ op.from = b
        /\ \A q \in Path :
              /\ q \in op.both => Untaken(index[q], files[q], o[q]) /\ b[q] # o[q] /\ b[q] # t[q]
              /\ q \in op.onlyRight =>
                    Untaken(index[q], files[q], o[q]) /\ b[q] = o[q] /\ b[q] # t[q]
              /\ q \notin op.both \cup op.onlyRight =>
                    Taken(index[q], files[q], b[q], o[q], t[q])
    BY <2>1 DEF Comparing
  <2>4. Taken(index'[p], files'[p], b[p], o[p], t[p])
    BY <1>9
  <2> HIDE DEF b, o, t
  <2>5. ASSUME NEW q \in Path
        PROVE  /\ q \in op'.both =>
                     Untaken(index'[q], files'[q], o[q]) /\ b[q] # o[q] /\ b[q] # t[q]
               /\ q \in op'.onlyRight =>
                     Untaken(index'[q], files'[q], o[q]) /\ b[q] = o[q] /\ b[q] # t[q]
               /\ q \notin op'.both \cup op'.onlyRight =>
                     Taken(index'[q], files'[q], b[q], o[q], t[q])
    <3>1. CASE q = p
      BY <1>9, <2>3, <2>4, <3>1
    <3>2. CASE q # p
      BY <1>9, <2>3, <3>2
    <3> QED BY <3>1, <3>2
  <2> QED BY <1>9, <2>2, <2>3, <2>5 DEF Comparing
<1>10. ASSUME NEW p \in Path, CompareBoth(p) PROVE ThreeInv' /\ MergeIsThreeWay'
  <2>1. /\ op.pc = "compare" /\ p \in op.both /\ last' = last
        /\ op'.pc = "compare" /\ op'.left = op.left /\ op'.right = op.right
        /\ op'.base = op.base /\ op'.stack = op.stack /\ op'.from = op.from
        /\ op'.both = op.both \ {p} /\ op'.onlyRight = op.onlyRight
    BY <1>0, <1>10 DEF CompareBoth, Step, ghosts, CallInProgress
  <2>2. ASSUME OneBase PROVE Comparing'
    <3>1. Comparing
      BY <1>1, <2>1, <2>2 DEF ThreeInv
    <3>2. /\ op.from = TreeOf(op.base.commit)
          /\ Untaken(index[p], files[p], TreeOf(HeadCommit)[p])
          /\ TreeOf(op.base.commit)[p] # TreeOf(HeadCommit)[p]
          /\ TreeOf(op.base.commit)[p] # TreeOf(op.right)[p]
      BY <2>1, <3>1 DEF Comparing
    <3>3. /\ \A q \in Path \ {p} : index'[q] = index[q] /\ files'[q] = files[q]
          /\ ~Conflicted(index'[p]) => files'[p] = index'[p][Merged] \/ files'[p] = Absent
      BY <1>2, <1>10, <2>2, <3>2, CompareTakes DEF OneBase
    <3>4. Taken(index'[p], files'[p], TreeOf(op.base.commit)[p], TreeOf(HeadCommit)[p],
                TreeOf(op.right)[p])
      BY <3>2, <3>3 DEF Taken
    <3> QED BY <1>9, <2>1, <2>2, <3>3, <3>4
  <2> QED BY <1>7, <2>1, <2>2
<1>11. ASSUME NEW p \in Path, TakeTheirs(p) PROVE ThreeInv' /\ MergeIsThreeWay'
  <2> DEFINE v == TreeOf(op.right)[p]
  <2>1. /\ op.pc = "compare" /\ p \in op.onlyRight /\ last' = last
        /\ op'.pc = "compare" /\ op'.left = op.left /\ op'.right = op.right
        /\ op'.base = op.base /\ op'.stack = op.stack /\ op'.from = op.from
        /\ op'.both = op.both /\ op'.onlyRight = op.onlyRight \ {p}
        /\ index' = [index EXCEPT ![p] = Just(v)] /\ files' = [files EXCEPT ![p] = v]
    BY <1>0, <1>11 DEF TakeTheirs, Step, ghosts, AddFile, CallInProgress
  <2>2. v \in Content
    BY <1>0, TreesOfKnown DEF Tree, Content
  <2>3. /\ index'[p] = Just(v) /\ files'[p] = v /\ Just(v)[Merged] = v
        /\ \A q \in Path \ {p} : index'[q] = index[q] /\ files'[q] = files[q]
    <3> DEFINE j == Just(v)
    <3>1. j \in Entries /\ j[Merged] = v /\ index' = [index EXCEPT ![p] = j]
      BY <2>1, <2>2, EntryTypes, JustFacts
    <3>2. index'[p] = j /\ files'[p] = v
          /\ \A q \in Path \ {p} : index'[q] = index[q] /\ files'[q] = files[q]
      <4> HIDE DEF j, v
      <4> QED BY <1>0, <2>1, <3>1 DEF Index, Tree
    <3> QED BY <3>1, <3>2
  <2>4. ASSUME OneBase PROVE Comparing'
    <3>1. Comparing
      BY <1>1, <2>1, <2>4 DEF ThreeInv
    <3>2. /\ TreeOf(op.base.commit)[p] = TreeOf(HeadCommit)[p]
          /\ TreeOf(op.base.commit)[p] # v
      BY <2>1, <3>1 DEF Comparing
    <3>3. Taken(index'[p], files'[p], TreeOf(op.base.commit)[p], TreeOf(HeadCommit)[p], v)
      <4> HIDE DEF v
      <4> QED BY <2>3, <3>2 DEF Taken
    <3> QED BY <1>9, <2>1, <2>3, <2>4, <3>3
  <2> QED BY <1>7, <2>1, <2>4
<1>12. ASSUME NEW p \in Path, CompareFails(p) PROVE ThreeInv' /\ MergeIsThreeWay'
  BY <1>0, <1>3, <1>12 DEF CompareFails, Fail
<1>13. CASE SetMergeMsg
  <2>1. /\ op.pc = "compare" /\ op.both = {} /\ op.onlyRight = {} /\ op.stack = <<>>
        /\ joined' = op.right /\ op' = NoOp /\ index' = index /\ files' = files
    BY <1>13 DEF SetMergeMsg, Compared, Succeed
  <2>2. ThreeInv'
    BY <2>1, NoOpFields DEF ThreeInv, MergePc, CommitPc
  <2>3. AllAreTaken'
    <3>0. TypeOK' /\ use'.shared
      BY <1>0, MergeStepTypes
    <3>1. CASE ~OneBase
      <4>1. Several(HeadCommit, op.right)
        BY <1>1, <2>1, <3>1 DEF OuterRight
      <4>2. Several(HeadCommit, joined)'
        BY <1>0, <1>1, <2>1, <4>1, SameParents DEF Several
      <4> QED BY <3>0, <4>2 DEF AllAreTaken
    <3>2. CASE OneBase
      <4> DEFINE b == op.base.commit
      <4>1. Comparing /\ CommonParents(HeadCommit, op.right) = {b}
        BY <1>1, <2>1, <3>2 DEF ThreeInv
      <4>2. CommonParents(HeadCommit, joined)' = {b}
        BY <1>0, <1>1, <2>1, <4>1 DEF CommonParents
      <4>3. \A p \in Path : Taken(index[p], files[p], TreeOf(b)[p], TreeOf(HeadCommit)[p],
                                 TreeOf(op.right)[p])
        BY <2>1, <4>1 DEF Comparing
      <4>4. /\ commits'[b].tree = TreeOf(b) /\ TreeOf(HeadCommit)' = TreeOf(HeadCommit)
            /\ TreeOf(joined)' = TreeOf(op.right)
        BY <1>0, <1>1, <2>1 DEF TreeOf
      <4>5. \A p \in Path : Taken(index'[p], files'[p], commits'[b].tree[p],
                                 TreeOf(HeadCommit)'[p], TreeOf(joined)'[p])
        BY <2>1, <4>3, <4>4
      <4> QED BY <3>0, <4>2, <4>5 DEF AllAreTaken, TreeOf
    <3> QED BY <3>1, <3>2
  <2>4. MergeIsThreeWay'
    BY <2>3, AllTakenNext
  <2> QED BY <2>2, <2>4
<1> QED BY <1>4, <1>5, <1>6, <1>8, <1>10, <1>11, <1>12, <1>13 DEF MergeStep

\* Reset, Checkout, AbortMerge and Commit end no merge; a fast-forward resets
\* the index.
LEMMA OthersThree ==
    ASSUME TypeOK, OpKnown, AbortInv, SharedThree, OtherStep \/ Die
    PROVE  SharedThree'
<1>0. /\ op \in CallInProgress /\ use' = use
      /\ {"reset", "resetIndex", "resetWorktree", "abortEnd",
          "removeMergeHead", "removeMergeMsg", "removeOrigHead"} \subseteq PC
  <2>1. use' = use
    BY DEF OtherStep, ResetHead, ResetIndex, ResetWorktree, SwitchHead, AbortMsg, AbortEnd,
           UpdateHead, RemoveMergeHead, RemoveMergeMsg, RemoveOrigHead, Die, Step
  <2> QED BY <2>1 DEF TypeOK, PC
<1> SUFFICES ASSUME use.shared PROVE ThreeInv' /\ MergeIsThreeWay'
  BY <1>0 DEF SharedThree
<1>1. /\ ThreeInv /\ (op.pc # "idle" => last = NoCall)
      /\ op.name = "abort" => op.pc \in {"abortMsg", "reset", "resetIndex", "resetWorktree", "abortEnd"}
      /\ op.pc \in {"abortMsg", "abortEnd"} => op.name = "abort"
  BY DEF SharedThree, AbortInv, Idle
<1>2. ASSUME op' = NoOp,
             last' = NoCall \/ joined' = None \/ last'.name \notin {"merge", "pull"}
      PROVE  ThreeInv' /\ MergeIsThreeWay'
  BY <1>2, NoOpFields, NoMergeEnded DEF ThreeInv, MergePc, CommitPc
<1>3. ASSUME op'.pc \in {"reset", "resetIndex", "resetWorktree", "abortEnd"} \cup CommitPc,
             last' = NoCall,
             op'.pc \in {"reset", "resetIndex"} /\ op'.name \in {"merge", "pull"} =>
                op'.mode \in {"hard", "merge"},
             op'.pc = "resetWorktree" => joined' = None,
             op'.pc \in CommitPc => op'.name = "commit"
      PROVE  ThreeInv' /\ MergeIsThreeWay'
  BY <1>3, NoMergeEnded DEF ThreeInv, MergePc, CommitPc
<1>4. CASE ResetHead
  <2>1. CASE op' = NoOp /\ last' = last
    BY <1>1, <1>2, <1>4, <2>1 DEF ResetHead, Step
  <2>2. CASE op.mode = "soft" /\ Succeed
    <3>1. op.name \notin {"merge", "pull"}
      BY <1>1, <1>4, <2>2 DEF ThreeInv, ResetHead, Step
    <3> QED BY <1>2, <2>2, <3>1 DEF Succeed
  <2>3. CASE At("resetIndex") /\ last' = last
    <3>1. op'.pc = "resetIndex" /\ op'.name = op.name /\ op'.mode = op.mode
      BY <1>0, <2>3, MovesOn DEF At
    <3> QED BY <1>1, <1>3, <1>4, <2>3, <3>1 DEF ResetHead, Step, ThreeInv, CommitPc
  <2> QED BY <1>4, <2>1, <2>2, <2>3, Zenon DEF ResetHead, Fail
<1>5. CASE ResetIndex
  <2>1. op.pc = "resetIndex" /\ joined' = None
        /\ (op' = NoOp \/ (op' = [op EXCEPT !.pc = "resetWorktree"] /\ last' = last))
    BY <1>5 DEF ResetIndex, Step, Succeed, At
  <2>2. CASE op' = NoOp
    BY <1>2, <2>1, <2>2
  <2>3. CASE op' = [op EXCEPT !.pc = "resetWorktree"] /\ last' = last
    <3>1. op'.pc = "resetWorktree"
      BY <1>0, <2>3, MovesOn
    <3> QED BY <1>1, <1>3, <2>1, <2>3, <3>1 DEF CommitPc
  <2> QED BY <2>1, <2>2, <2>3
<1>6. CASE ResetWorktree
  <2>1. op.pc = "resetWorktree" /\ joined' = None
        /\ (op' = NoOp \/ (op' = [op EXCEPT !.pc = "abortEnd"] /\ last' = last))
    <3>1. op.pc = "resetWorktree" /\ joined' = joined
      BY <1>6 DEF ResetWorktree, Step
    <3>2. op' = NoOp \/ (op' = [op EXCEPT !.pc = "abortEnd"] /\ last' = last)
      BY <1>6, Zenon DEF ResetWorktree, Fail, Succeed, At
    <3> QED BY <1>1, <3>1, <3>2 DEF ThreeInv
  <2>2. CASE op' = NoOp
    BY <1>2, <2>1, <2>2
  <2>3. CASE op' = [op EXCEPT !.pc = "abortEnd"] /\ last' = last
    <3>1. op'.pc = "abortEnd"
      BY <1>0, <2>3, MovesOn
    <3> QED BY <1>1, <1>3, <2>1, <2>3, <3>1 DEF CommitPc
  <2> QED BY <2>1, <2>2, <2>3
<1>7. CASE SwitchHead
  <2>1. op.pc = "switch" /\ op' = [op EXCEPT !.pc = "reset"] /\ last' = last
    BY <1>7 DEF SwitchHead, Step, At, ghosts
  <2>2. op'.pc = "reset" /\ op'.name = op.name /\ op'.mode = op.mode
    BY <1>0, <2>1, MovesOn
  <2> QED BY <1>1, <1>3, <2>1, <2>2 DEF CommitPc, ThreeInv
<1>8. CASE AbortMsg
  <2>1. op.pc = "abortMsg" /\ last' = last
        /\ (op' = NoOp \/ op' = ResetTo("abort", origHead, "hard"))
    BY <1>8 DEF AbortMsg, Step, Fail
  <2>2. CASE op' = ResetTo("abort", origHead, "hard")
    <3>1. origHead \in Number /\ "abort" \in Name /\ "hard" \in ModeOrNone
      BY Numbers DEF Name, Op, ModeOrNone, Mode
    <3>2. op'.pc = "reset" /\ op'.name = "abort"
      BY <2>2, <3>1, ResetFields
    <3> QED BY <1>1, <1>3, <2>1, <3>2 DEF CommitPc
  <2> QED BY <1>1, <1>2, <2>1, <2>2
<1>9. CASE AbortEnd \/ RemoveOrigHead
  <2>1. op' = NoOp /\ last' = [name |-> op.name, mode |-> op.mode]
        /\ op.pc \in {"abortEnd", "removeOrigHead"}
    BY <1>9 DEF AbortEnd, RemoveOrigHead, Step, Succeed
  <2>2. op.name \in {"abort", "commit"}
    BY <1>1, <2>1 DEF ThreeInv, CommitPc
  <2> QED BY <1>2, <2>1, <2>2
<1>10. CASE UpdateHead \/ RemoveMergeHead \/ RemoveMergeMsg
  <2>1. op.pc \in CommitPc /\ last' = last
        /\ \/ op' = [op EXCEPT !.pc = "removeMergeHead", !.parents = {}]
           \/ \E x \in {"removeMergeMsg", "removeOrigHead"} : op' = [op EXCEPT !.pc = x]
    BY <1>10 DEF UpdateHead, RemoveMergeHead, RemoveMergeMsg, Step, At, ghosts, CommitPc
  <2>2. op'.pc \in CommitPc /\ op'.name = op.name
    <3>1. CASE op' = [op EXCEPT !.pc = "removeMergeHead", !.parents = {}]
      BY <1>0, <3>1 DEF CallInProgress, CommitPc
    <3>2. CASE \E x \in {"removeMergeMsg", "removeOrigHead"} : op' = [op EXCEPT !.pc = x]
      BY <1>0, <3>2, MovesOn DEF CommitPc
    <3> QED BY <2>1, <3>1, <3>2
  <2> QED BY <1>1, <1>3, <2>1, <2>2 DEF ThreeInv, CommitPc
<1>11. CASE Die
  BY <1>2, <1>11 DEF Die
<1> QED BY <1>4, <1>5, <1>6, <1>7, <1>8, <1>9, <1>10, <1>11 DEF OtherStep

\* Over a shared index (storage/memory) every merge of two commits with one
\* common parent is three-way, whatever the user did before, in whatever order
\* the loops of compareCommitsChanges take the paths, and also when a merge of
\* virtual bases came before it.  (Over a copy of the index the run MergeLostAdd
\* refutes it.)
THEOREM MergeIsThreeWayHolds == Spec => [](use.shared => MergeIsThreeWay)
<1> DEFINE RInv == TypeOK /\ OpKnown /\ Recoverable /\ AInv /\ SharedThree
<1>1. Init => RInv
  <2>1. Init => SharedThree
    <3> SUFFICES ASSUME Init PROVE ThreeInv /\ MergeIsThreeWay
      BY DEF SharedThree
    <3>1. op = NoOp /\ last = NoCall
      BY DEF Init
    <3> QED BY <3>1, NoOpFields DEF ThreeInv, MergeIsThreeWay, NoCall, MergePc, CommitPc
  <2> QED BY <2>1, InitTypes, InitRecoverable, InitAbort
<1>2. RInv /\ [Next]_vars => RInv'
  <2>1. ASSUME TypeOK, OpKnown, Recoverable, AInv, SharedThree, [Next]_vars PROVE SharedThree'
    <3>1. AbortInv /\ StackInv
      BY <2>1 DEF AInv, Recoverable
    <3>2. CASE Next
      BY <2>1, <3>1, <3>2, CallsThree, MergeThree, OthersThree DEF Next
    <3>3. CASE UNCHANGED vars
      <4>1. /\ UNCHANGED <<commits, branch, head, index, files, op, use, last, joined>>
        BY <3>3 DEF vars, refs, area, ghosts
      <4>2. HeadCommit' = HeadCommit
        BY <4>1, SameRefs
      <4>3. ThreeInv => ThreeInv'
        BY <4>1, <4>2 DEF ThreeInv, OneBase, Outermost, OuterRight, Several, CommonParents,
                          Comparing, TreeOf
      <4>4. MergeIsThreeWay => MergeIsThreeWay'
        BY <4>1, <4>2 DEF MergeIsThreeWay, Bases, CommonParents, TreeOf
      <4> QED BY <2>1, <4>1, <4>3, <4>4 DEF SharedThree
    <3> QED BY <2>1, <3>2, <3>3
  <2> QED BY <2>1, StepTypes, StepRecoverable, StepAbort
<1>3. RInv => (use.shared => MergeIsThreeWay)
  BY DEF SharedThree
<1> QED BY <1>1, <1>2, <1>3, PTL DEF Spec

=============================================================================
