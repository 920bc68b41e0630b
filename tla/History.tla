------------------------------- MODULE History -------------------------------
(***************************************************************************)
(* What a commit stores and what is read back from it: the trees that      *)
(* BuildTree makes of the index (worktree_commit.go), the revisions of a   *)
(* file that references finds in the history (references.go), and the      *)
(* commit that Blame gives for each of its lines (blame.go).               *)
(*                                                                         *)
(* The hash of a blob is its content, a sequence of lines.                 *)
(***************************************************************************)
EXTENDS Integers, FiniteSets, SequencesExt

CONSTANTS Slash,        \* "/", in the order of the characters of names
          Plans,        \* what histories to make
          BlamePath     \* the file whose history is asked for

(***************************************************************************)
(* A plan gives for the n-th commit the indexes it may be made from, the   *)
(* parents it may have and its dates.                                      *)
(***************************************************************************)
ASSUME HistoryAssumption ==
    /\ Slash \in Nat
    /\ \A k \in DOMAIN Plans : \A n \in DOMAIN Plans[k] :
        /\ \A idx \in Plans[k][n].indexes :
            Cardinality({e.path : e \in ToSet(idx)}) = Len(idx)
        /\ \A ps \in Plans[k][n].parents : ToSet(ps) \subseteq 1 .. n - 1

\* The elements of a sequence at the indexes that pass a test.
Pick(s, Passes(_)) ==
    LET is == SelectSeq([i \in DOMAIN s |-> i], Passes)
    IN  [i \in DOMAIN is |-> s[is[i]]]

VARIABLES plan,     \* the plan, by its number
          commits,  \* the commits, in the order they were made
          blame     \* the call of Blame in progress, or the last one

vars == <<plan, commits, blame>>

Idle == [pc |-> "idle", of |-> 0, revs |-> <<>>, graph |-> <<>>, lines |-> <<>>]

Init ==
    /\ plan \in DOMAIN Plans
    /\ commits = <<>>
    /\ blame = Idle

-----------------------------------------------------------------------------
(***************************************************************************)
(* The trees of an index.  A path is a sequence of names, a name one of    *)
(* characters; "trees" maps the path of a directory to its entries.        *)
(***************************************************************************)
Less(s, t) ==
    \/ Len(s) < Len(t) /\ IsPrefix(s, t)
    \/ \E i \in 1 .. Len(s) :
        /\ i <= Len(t)
        /\ s[i] < t[i]
        /\ \A j \in 1 .. i - 1 : s[j] = t[j]

\* Slip: a directory is sorted as a file.
SortNamePlain(te) == te.name

SortName(te) == IF te.dir THEN Append(te.name, Slash) ELSE te.name

\* buildTreeHelper.entries is never written to: only directories are seen.
DoBuildTree(trees, e, path) ==
    IF path \in DOMAIN trees THEN trees
    ELSE LET dir == path # e.path
             te == [name |-> Last(path), dir |-> dir,
                    hash |-> IF dir THEN <<>> ELSE e.hash]
             grown == [trees EXCEPT ![Front(path)] = Append(@, te)]
         IN  IF dir THEN grown @@ (path :> <<>>) ELSE grown

CommitIndexEntry(trees, e) ==
    FoldLeft(LAMBDA t, n : DoBuildTree(t, e, SubSeq(e.path, 1, n)), trees,
             [n \in 1 .. Len(e.path) |-> n])

BuildTree(idx) ==
    LET trees == FoldLeft(CommitIndexEntry, <<>> :> <<>>, idx)
        Before(x, y) == Less(SortName(x), SortName(y))
    IN  [p \in DOMAIN trees |-> SortSeq(trees[p], Before)]

\* Tree.File of a path whose directories are no files as well.
Find(trees, path) ==
    IF Front(path) \notin DOMAIN trees THEN {}
    ELSE {te.hash : te \in {x \in ToSet(trees[Front(path)]) : x.name = Last(path) /\ ~x.dir}}

-----------------------------------------------------------------------------
(***************************************************************************)
(* Commits, of an index, with parents and a date: the committer's, and for *)
(* equal ones the author's.                                                *)
(***************************************************************************)
Commit ==
    LET n == Len(commits) + 1
    IN  /\ n \in DOMAIN Plans[plan]
        /\ blame = Idle
        /\ \E idx \in Plans[plan][n].indexes,
              ps \in Plans[plan][n].parents,
              when \in Plans[plan][n].dates :
            commits' = Append(commits, [idx |-> idx, tree |-> BuildTree(idx),
                                        parents |-> ps, when |-> when])
        /\ UNCHANGED <<plan, blame>>

File(c) == Find(commits[c].tree, BlamePath)
HasFile(c) == File(c) # {}
Contents(c) == CHOOSE text \in File(c) : TRUE

-----------------------------------------------------------------------------
(***************************************************************************)
(* references: the commits that walkGraph adds, the ones it comes to       *)
(* through parents that have the file.                                     *)
(***************************************************************************)
ParentsContainingPath(c) == SelectSeq(commits[c].parents, HasFile)

\* Slip: of a merge the first parent is followed only.
FollowedFirst(c) ==
    LET ps == ParentsContainingPath(c)
    IN  IF ps = <<>> THEN {} ELSE {Head(ps)}

Followed(c) == ToSet(ParentsContainingPath(c))

Walked(c) ==
    LET upTo[n \in 0 .. Len(commits)] ==
            IF n = 0 THEN {c} ELSE upTo[n - 1] \cup UNION {Followed(d) : d \in upTo[n - 1]}
    IN  upTo[Len(commits)]

IsRevision(c) ==
    LET ps == ParentsContainingPath(c)
    IN  \/ ps = <<>>
        \/ Len(ps) = 1 /\ Contents(c) # Contents(ps[1])

\* Slip: the commit asked about is taken to have the file.
WalkGraphUnchecked(c) == {d \in Walked(c) : IsRevision(d)}

WalkGraph(c) == IF HasFile(c) THEN {d \in Walked(c) : IsRevision(d)} ELSE {}

\* Slip: newer to older, as the comment of references has it.
InOrderNewest(c, d) == commits[c].when >= commits[d].when

InOrder(c, d) == commits[c].when <= commits[d].when

\* sort.Sort leaves commits of one date in any order.
SortedCommits(cs) ==
    {s \in SetToSeqs(cs) : \A i, j \in DOMAIN s : i < j => InOrder(s[i], s[j])}

(***************************************************************************)
(* diff.Do, which is go-diff's DiffMainRunes: for each line of the result  *)
(* of a diff whether it is kept (0), gone (-1) or new (1), what is gone    *)
(* before what is new.  Common ends are set aside, a shortest script is    *)
(* found for the rest, any one here, and DiffCleanupMerge slides its edits. *)
(* Texts whose rest has four lines or more may get a longer script.        *)
(***************************************************************************)
Shared(s, t) ==
    LET n == IF Len(s) < Len(t) THEN Len(s) ELSE Len(t)
    IN  CHOOSE k \in 0 .. n :
            /\ SubSeq(s, 1, k) = SubSeq(t, 1, k)
            /\ k < n => s[k + 1] # t[k + 1]

Lines(type, n) == [i \in 1 .. n |-> type]

Middles(s, t) ==
    LET upTo[i \in 0 .. Len(s), j \in 0 .. Len(t)] ==
            IF i = 0 \/ j = 0 THEN {Lines(-1, i) \o Lines(1, j)}
            ELSE {Append(h, -1) : h \in {g \in upTo[i - 1, j] : g = <<>> \/ Last(g) # 1}}
                 \cup {Append(h, 1) : h \in upTo[i, j - 1]}
                 \cup IF s[i] = t[j] THEN {Append(h, 0) : h \in upTo[i - 1, j - 1]} ELSE {}
        all == upTo[Len(s), Len(t)]
    IN  {h \in all : \A g \in all : Len(h) <= Len(g)}

Scripts(s, t) ==
    LET k == Shared(s, t)
        restS == SubSeq(s, k + 1, Len(s))
        restT == SubSeq(t, k + 1, Len(t))
        l == Shared(Reverse(restS), Reverse(restT))
    IN  {Lines(0, k) \o m \o Lines(0, l) :
            m \in Middles(SubSeq(restS, 1, Len(restS) - l), SubSeq(restT, 1, Len(restT) - l))}

\* The text of each line of a script.
TextOf(h, s, t) ==
    LET Upto(i, other) == Len(SelectSeq(SubSeq(h, 1, i), LAMBDA type : type # other))
    IN  [i \in DOMAIN h |-> IF h[i] = 1 THEN t[Upto(i, -1)] ELSE s[Upto(i, 1)]]

GoneFirst(h) ==
    LET step(acc, type) ==
            CASE type = 0  -> [out |-> Append(acc.out \o acc.new, 0), new |-> <<>>]
              [] type = 1  -> [acc EXCEPT !.new = Append(@, 1)]
              [] OTHER     -> [acc EXCEPT !.out = Append(@, -1)]
        all == FoldLeft(step, [out |-> <<>>, new |-> <<>>], h)
    IN  all.out \o all.new

(***************************************************************************)
(* A single edit, lines b + 1 to c, between two equalities, from a + 1 and *)
(* to d: it goes before the first, if it ends as that one reads, or else   *)
(* behind the second, if it begins as that one reads.                      *)
(***************************************************************************)
Slides(h, s, t) ==
    LET text == TextOf(h, s, t)
        Run(i, j) ==
            /\ \A k \in i + 1 .. j : h[k] = h[j]
            /\ i > 0 => h[i] # h[j]
            /\ j < Len(h) => h[j + 1] # h[j]
        Reads(i, j, k) == SubSeq(text, i + 1, j) = SubSeq(text, k + 1, k + j - i)
        Slid(a, b, c, d) ==
            IF c - b >= b - a /\ Reads(a, b, c - (b - a))
            THEN {Lines(h[c], c - b) \o Lines(0, d - c + b - a)}
            ELSE IF c - b >= d - c /\ Reads(c, d, b)
            THEN {Lines(0, d - c + b - a) \o Lines(h[c], c - b)}
            ELSE {}
    IN  UNION {UNION {UNION {UNION {
            {GoneFirst(SubSeq(h, 1, a) \o m \o SubSeq(h, d + 1, Len(h))) : m \in Slid(a, b, c, d)}
                : d \in {i \in c + 1 .. Len(h) : h[i] = 0 /\ Run(c, i)}}
                : c \in {i \in b + 1 .. Len(h) : h[i] # 0 /\ Run(b, i)}}
                : b \in {i \in a + 1 .. Len(h) : h[i] = 0 /\ Run(a, i)}}
                : a \in 0 .. Len(h)}

\* Each slide leaves an equality less.
DiffCleanupMerge(h, s, t) ==
    LET after[n \in 0 .. Len(h)] ==
            IF n = 0 THEN {h}
            ELSE UNION {IF Slides(g, s, t) = {} THEN {g} ELSE Slides(g, s, t) : g \in after[n - 1]}
    IN  after[Len(h)]

Diffs(s, t) == UNION {DiffCleanupMerge(h, s, t) : h \in Scripts(s, t)}

(***************************************************************************)
(* equivalent: the patch from a commit to its first parent, where only the *)
(* texts of lines that are gone or new count.                              *)
(***************************************************************************)
Patches(c) ==
    LET p == commits[c].parents[1]
        old == Contents(c)
        new == IF HasFile(p) THEN Contents(p) ELSE <<>>
    IN  {[i \in DOMAIN h |-> IF h[i] = 0 THEN <<0>> ELSE <<h[i], TextOf(h, old, new)[i]>>] :
            h \in Diffs(old, new)}

OneParent(c) == Len(commits[c].parents) = 1

\* patch has the patches of the commits with one parent.
Equivalent(c, d, patch) == OneParent(c) /\ OneParent(d) /\ patch[c] = patch[d]

RemoveComp(cs, patch) ==
    Pick(cs, LAMBDA i : i = 1 \/ ~Equivalent(cs[i], cs[i - 1], patch))

References(c) ==
    {RemoveComp(cs, patch) :
        cs \in SortedCommits(WalkGraph(c)),
        patch \in LET single == {d \in WalkGraph(c) : OneParent(d)}
                  IN  {f \in [single -> UNION {Patches(d) : d \in single}] :
                          \A d \in single : f[d] \in Patches(d)}}

-----------------------------------------------------------------------------
(***************************************************************************)
(* Blame, one step per revision.                                           *)
(***************************************************************************)
FillRevs ==
    /\ blame = Idle
    /\ commits # <<>>
    /\ LET c == Len(commits)
       IN  \E revs \in References(c) :
            blame' = [Idle EXCEPT !.pc = "graph", !.of = c, !.revs = revs]
    /\ UNCHANGED <<plan, commits>>

\* Slip: a line that is gone is not counted in the source.
OriginsUncounted(hunks, i, before) ==
    LET step(acc, type) ==
            CASE type = 0  -> [sl |-> acc.sl + 1, graph |-> Append(acc.graph, before[acc.sl + 1])]
              [] type = 1  -> [acc EXCEPT !.graph = Append(@, i)]
              [] OTHER     -> acc
    IN  FoldLeft(step, [sl |-> 0, graph |-> <<>>], hunks).graph

\* The revision, by its number, that each line of the i-th is from.
Origins(hunks, i, before) ==
    LET step(acc, type) ==
            CASE type = 0  -> [sl |-> acc.sl + 1, graph |-> Append(acc.graph, before[acc.sl + 1])]
              [] type = 1  -> [acc EXCEPT !.graph = Append(@, i)]
              [] OTHER     -> [acc EXCEPT !.sl = @ + 1]
    IN  FoldLeft(step, [sl |-> 0, graph |-> <<>>], hunks).graph

AssignOrigin ==
    LET i == Len(blame.graph) + 1
        text == Contents(blame.revs[i])
    IN  /\ blame.pc = "graph"
        /\ i <= Len(blame.revs)
        /\ \E hunks \in IF i = 1 THEN {Lines(1, Len(text))}
                                 ELSE Diffs(Contents(blame.revs[i - 1]), text) :
            blame' = [blame EXCEPT !.graph =
                        Append(@, Origins(hunks, i, IF i = 1 THEN <<>> ELSE @[i - 1]))]
        /\ UNCHANGED <<plan, commits>>

\* newLines adds a line to a file that is one line short.
NewLines ==
    /\ blame.pc = "graph"
    /\ Len(blame.graph) = Len(blame.revs)
    /\ LET found == IF blame.graph = <<>> THEN <<>> ELSE Last(blame.graph)
           short == IF HasFile(blame.of) THEN Len(found) - Len(Contents(blame.of)) ELSE 2
           result == CASE short = 0                    -> "ok"
                       [] short = 1 /\ Len(found) > 1  -> "ok"
                       [] short = 1 /\ Len(found) <= 1 -> "panic"
                       [] OTHER                        -> "error"
       IN  blame' = [blame EXCEPT !.pc = result,
                                  !.lines = IF result = "ok" THEN found ELSE <<>>]
    /\ UNCHANGED <<plan, commits>>

Next == Commit \/ FillRevs \/ AssignOrigin \/ NewLines

Spec == Init /\ [][Next]_vars

-----------------------------------------------------------------------------
(***************************************************************************)
(* Properties.                                                             *)
(***************************************************************************)
\* The types of the state; the revisions are of the file and the graph has a
\* commit for each of their lines (fillGraphAndData).
TypeOK ==
    /\ plan \in DOMAIN Plans
    /\ \A c \in DOMAIN commits :
        /\ ToSet(commits[c].parents) \subseteq 1 .. c - 1
        /\ Cardinality(File(c)) <= 1
    /\ blame.pc \in {"idle", "graph", "ok", "error", "panic"}
    /\ blame.of \in 0 .. Len(commits)
    /\ \A i \in DOMAIN blame.revs : HasFile(blame.revs[i])
    /\ Len(blame.graph) <= Len(blame.revs)
    /\ \A i \in DOMAIN blame.graph :
        /\ Len(blame.graph[i]) = Len(Contents(blame.revs[i]))
        /\ ToSet(blame.graph[i]) \subseteq 1 .. i

(***************************************************************************)
(* Reading a tree: the files below a directory, in the order of the        *)
(* entries.  Git wants them in the order of their whole paths.             *)
(***************************************************************************)
Flattened(trees) ==
    LET below[p \in DOMAIN trees] ==
            FlattenSeq([i \in DOMAIN trees[p] |->
                LET te == trees[p][i] path == Append(p, te.name)
                IN  IF te.dir THEN below[path] ELSE <<[path |-> path, hash |-> te.hash]>>])
    IN  below[<<>>]

PathString(path) ==
    FoldLeft(LAMBDA s, name : IF s = <<>> THEN name ELSE Append(s, Slash) \o name, <<>>, path)

InIndexOrder(e, f) == Less(PathString(e.path), PathString(f.path))

\* The trees of a commit, read in their order, are its index in the order of
\* paths, whatever order the index is in (BuildTree, sortableEntries).  Of a
\* path that is a file and a directory at once nothing is promised.
TreeIsIndex ==
    \A c \in DOMAIN commits :
        LET idx == commits[c].idx
            Plain(e) == \A f \in ToSet(idx) : ~IsStrictPrefix(e.path, f.path)
        IN  SelectSeq(Flattened(commits[c].tree), Plain)
                = SortSeq(SelectSeq(idx, Plain), InIndexOrder)

(***************************************************************************)
(* The line of first parents up to a commit, while it has no other parents *)
(* and as long as the file is there, the oldest first.                     *)
(***************************************************************************)
Line(c) ==
    LET line[d \in 1 .. Len(commits)] ==
            LET ps == commits[d].parents
            IN  IF ps = <<>> \/ ~HasFile(ps[1]) THEN <<d>> ELSE Append(line[ps[1]], d)
    IN  line[c]

Linear(c) ==
    /\ HasFile(c)
    /\ \A i \in DOMAIN Line(c) : Len(commits[Line(c)[i]].parents) <= 1
    /\ \A i \in 2 .. Len(Line(c)) : commits[Line(c)[i - 1]].when < commits[Line(c)[i]].when

\* The commits of that line that change the file.
Versions(c) ==
    Pick(Line(c), LAMBDA i : i = 1 \/ Contents(Line(c)[i]) # Contents(Line(c)[i - 1]))

\* Two versions in a row that may have the same patch: an edit that slid over
\* other lines may look like the one before it.
Twins(c, d) == OneParent(c) /\ OneParent(d) /\ Patches(c) \cap Patches(d) # {}

TwinFree(c) == \A i \in 2 .. Len(Versions(c)) : ~Twins(Versions(c)[i - 1], Versions(c)[i])

SubsequenceOf(s, t) ==
    \E S \in SUBSET DOMAIN t : Pick(t, LAMBDA i : i \in S) = s

Texts(cs) == [i \in DOMAIN cs |-> Contents(cs[i])]

\* In a history without merges whose dates rise the revisions are the versions
\* the file went through, each once, the oldest first, as long as no version has
\* the patch of the one before it (references, removeComp).
RevisionsAreVersions ==
    (blame.pc # "idle" /\ Linear(blame.of) /\ TwinFree(blame.of)) =>
        blame.revs = Versions(blame.of)

\* A merge forgets no revision of its sides: each commit that changed the file
\* on a way to it is among the revisions, or one with the same patch is.
MergeKeepsRevisions ==
    (blame.pc # "idle" /\ HasFile(blame.of)) =>
        \A p \in ToSet(commits[blame.of].parents) :
            HasFile(p) =>
                \A d \in WalkGraph(p) :
                    \/ d \in ToSet(blame.revs)
                    \/ \E e \in ToSet(blame.revs) : Twins(d, e)

Ended == blame.pc \notin {"idle", "graph"}

\* The lines that Blame gives to one of the first k revisions.
From(k) == Pick(Contents(blame.of), LAMBDA i : blame.lines[i] <= k)

\* "Each node (line) holds the commit where it was introduced or last modified"
\* (blame.go): in such a history Blame succeeds, and the lines it gives to one of
\* the first k revisions were in the k-th already, in that order.
LinesWereThere ==
    (Ended /\ Linear(blame.of)) =>
        /\ blame.pc = "ok"
        /\ Len(blame.lines) = Len(Contents(blame.of))
        /\ \A k \in DOMAIN blame.revs : SubsequenceOf(From(k), Contents(blame.revs[k]))

\* It does, as long as no version has the patch of the one before it; and where
\* versions only add lines, the lines given to the first k revisions are all of
\* the k-th: untouched lines retain the old commit (assignOrigin).
BlameIsHistorical ==
    (Ended /\ Linear(blame.of) /\ TwinFree(blame.of)) =>
        LET versions == Texts(blame.revs)
        IN  /\ LinesWereThere
            /\ (\A k \in 2 .. Len(versions) : SubsequenceOf(versions[k - 1], versions[k]))
                  => \A k \in DOMAIN versions : From(k) = versions[k]
=============================================================================
