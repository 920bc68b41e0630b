---------------------------- MODULE WorktreeMerge ----------------------------
(***************************************************************************)
(* The life of a merge in one worktree: Merge, Commit, AbortMerge, Reset,  *)
(* Checkout and Pull (worktree_merge.go, worktree_commit.go, worktree.go)  *)
(* over the references, the index, the files and the cached blobs.         *)
(*                                                                         *)
(* A call is a sequence of steps, so that the process may die between any  *)
(* two of them.  A step that writes files and stores the index after them  *)
(* may also be cut off with some of the files written and the index as it  *)
(* was.  A tree, the index and the worktree are functions of the path; of  *)
(* a content the model keeps its identity only.                            *)
(***************************************************************************)
EXTENDS Integers, FiniteSets, Sequences

CONSTANTS Path,         \* the paths of the tree
          Version,      \* the contents of files
          Absent,       \* "no file", no hash (plumbing.ZeroHash), no entry
          Joined,       \* what Diff3 makes of two texts it can combine
          Marked,       \* a file with conflict markers
          Edited,       \* what the user writes into a file
          Branch,       \* the branches
          None,         \* no reference
          Histories     \* the repositories to start from

Op == {"merge", "pull", "commit", "abort", "reset", "checkout", "edit"}

Tree == [Path -> Version \cup {Absent}]
Commits == [tree : Tree, parents : SUBSET Nat]

(***************************************************************************)
(* A repository to start from: its commits, numbered in the order they     *)
(* were made, and its branches; HEAD is on the branch "at" and index and   *)
(* files are as that branch has them.  And how it is used: the calls the   *)
(* user makes; whether Storer.Index returns the stored index itself        *)
(* (storage/memory) or a copy (storage/filesystem); whether the process    *)
(* may die and be started again; and a bound on the calls and edits.       *)
(***************************************************************************)
History == [commits : Seq(Commits),
            branch  : [Branch -> Nat \cup {None}],
            at      : Branch,
            ops     : SUBSET Op,
            shared  : BOOLEAN,
            dies    : BOOLEAN,
            calls   : Nat]

ASSUME ContentAssumption ==
    /\ {Joined, Marked, Edited} \subseteq Version
    /\ Absent \notin Version
    /\ None \notin Nat
    /\ \A b \in Branch : b \notin Nat
ASSUME HistoryAssumption ==
    \A h \in Histories :
        /\ h \in History
        /\ \A c \in 1 .. Len(h.commits) : h.commits[c].parents \subseteq 1 .. c - 1
        /\ \A b \in Branch : h.branch[b] \in 1 .. Len(h.commits) \cup {None}
        /\ h.branch[h.at] # None
        /\ h.shared => ~h.dies      \* what is in memory dies with the process

VARIABLES commits,    \* the commit objects, in the order they were stored
          branch,     \* refs/heads: the commit of a branch
          head,       \* HEAD: a branch (symbolic), or a commit (detached)
          mergeHead,  \* MERGE_HEAD
          origHead,   \* ORIG_HEAD
          mergeMsg,   \* there is a MERGE_MSG
          index,      \* the stored index: the hash of every path and stage
          files,      \* the files of the worktree
          blobs,      \* w.blobs: the blob cached for a path and a stage
          op,         \* the call in progress
          calls,      \* how many calls and edits are left
          use,        \* how the repository is used: its History
          last,       \* history variable: the call that just ended well
          joined,     \* history variable: the commit whose changes a merge
                      \* brought into the index
          began       \* history variable: HEAD, branches and ORIG_HEAD as the
                      \* last merge found them, and whether there was a
                      \* checkout since

refs    == <<branch, head, mergeHead, origHead, mergeMsg>>
area    == <<index, files, blobs>>
ghosts  == <<last, joined, began>>
vars    == <<commits, refs, area, op, calls, use, ghosts>>

-----------------------------------------------------------------------------
(* The index.  A path has one merged entry or entries of the stages of a   *)
(* conflict; the entries of a path are kept in the order of their stages.  *)

Merged       == 0
AncestorMode == 1
OurMode      == 2
TheirMode    == 3
Stage == Merged .. TheirMode

Entries == [Stage -> Version \cup {Absent}]
Index == [Path -> Entries]

NoEntry == [s \in Stage |-> Absent]
NoEntries == [p \in Path |-> NoEntry]
Just(v) == [NoEntry EXCEPT ![Merged] = v]
AsIndex(t) == [p \in Path |-> Just(t[p])]

Conflicted(e) == \E s \in Stage \ {Merged} : e[s] # Absent

\* What the differs of merkletrie see of a path: its first entry.
First(e) ==
    IF e = NoEntry THEN Absent
    ELSE e[CHOOSE s \in Stage : /\ e[s] # Absent
                                /\ \A r \in 0 .. s - 1 : e[r] = Absent]

Seen(idx) == [p \in Path |-> First(idx[p])]

\* addConflictFile: the stages of a conflict replace the entries of its path.
Conflict(base, ours, theirs) ==
    [NoEntry EXCEPT ![AncestorMode] = base, ![OurMode] = ours, ![TheirMode] = theirs]

\* resetIndex: conflicts fall back to our entry, then every path in which the
\* tree differs from the stored index takes the tree's entry.
Settled(idx) ==
    [p \in Path |-> IF Conflicted(idx[p]) THEN Just(idx[p][OurMode]) ELSE idx[p]]

ResetIndexTo(idx, t) ==
    LET stored == IF use.shared THEN Settled(idx) ELSE idx
    IN  [p \in Path |-> IF First(stored[p]) = t[p] THEN Settled(idx)[p] ELSE Just(t[p])]

-----------------------------------------------------------------------------
(* Commits and references. *)

Ancestors(cs, c) ==
    LET anc[d \in 1 .. Len(cs)] == {d} \cup UNION {anc[p] : p \in cs[d].parents}
    IN  anc[c]

\* What getCommonParents finds (module MergeBase), for commits whose dates
\* follow their order.
CommonParents(c, d) ==
    LET common == {b \in 1 .. Len(commits) : b \in Ancestors(commits, c) \cap Ancestors(commits, d)}
    IN  {b \in common : \A e \in common \ {b} : b \notin Ancestors(commits, e)}

IsFastForward(c, d) == c \in Ancestors(commits, d)

HeadCommit == IF head \in Branch THEN branch[head] ELSE head

\* updateHEAD, setHEADCommit: move the branch HEAD is on, or HEAD itself.
SetHead(c) ==
    IF head \in Branch THEN /\ branch' = [branch EXCEPT ![head] = c]
                            /\ UNCHANGED head
                       ELSE /\ head' = c
                            /\ UNCHANGED branch

TreeOf(c) == commits[c].tree

-----------------------------------------------------------------------------
(* The state of the worktree as the calls see it. *)

\* hasUncommittedFiles: files that are only missing do not count.
HasUncommitted(c) ==
    \/ Seen(index) # TreeOf(c)
    \/ \E p \in Path : files[p] \notin {Absent, First(index[p])}

\* containsUnstagedChanges: untracked files do not count.
Unstaged == \E p \in Path : First(index[p]) \notin {Absent, files[p]}

NoBlobs == NoEntries

\* Slip: their blob is cached as the base.
CacheTheirsAsBase(p, es) ==
    [blobs EXCEPT ![p] =
        [@ EXCEPT ![AncestorMode] = es[TheirMode], ![OurMode] = es[OurMode]]]

\* The blobs after addOrUpdateBlobToCache, for the stages of es that have a blob.
Cache(p, es) ==
    [blobs EXCEPT ![p] = [s \in Stage |-> IF es[s] = Absent THEN blobs[p][s] ELSE es[s]]]

-----------------------------------------------------------------------------
(* Calls in progress.                                                      *)

\* mergingCommit: a commit, or a virtual base, of which the index is kept.
Plain(c) == [commit |-> c, virtual |-> FALSE, idx |-> NoEntries]

NoOp == [pc |-> "idle", name |-> "none",
         left |-> Plain(None), right |-> None,  \* what mergeCommits merges: first
                                                \* the commits of the virtual bases,
                                                \* then HEAD's and theirs
         base |-> Plain(None),    \* what it compares them with
         rest |-> {},             \* common parents still to be merged into base
         stack |-> <<>>,          \* the merges that wait for a virtual base
         copied |-> FALSE,        \* the blobs are those of a copy of the Worktree
         from |-> [p \in Path |-> Absent],      \* base as it was compared
         both |-> {}, onlyRight |-> {},         \* paths left in the loops of
                                                \* compareCommitsChanges
         snap |-> NoEntries,      \* oursIdx
         target |-> None, mode |-> "none", on |-> None, parents |-> {}]

Idle == op.pc = "idle"

NoCall == [name |-> "none", mode |-> "none"]

Call(name) ==
    /\ Idle
    /\ name \in use.ops
    /\ calls > 0
    /\ calls' = calls - 1
    /\ last' = NoCall
    /\ UNCHANGED use

\* A step of the call in progress that is at pc.
Step(pc) == op.pc = pc /\ UNCHANGED <<calls, use>>

At(pc) == op' = [op EXCEPT !.pc = pc]

\* The call returns; only a call that succeeds is remembered in last.
Succeed == op' = NoOp /\ last' = [name |-> op.name, mode |-> op.mode]
Fail    == op' = NoOp /\ UNCHANGED last

ResetTo(name, c, mode) ==
    [NoOp EXCEPT !.pc = "reset", !.name = name, !.target = c, !.mode = mode]

-----------------------------------------------------------------------------
(* Merge and Pull. *)

Newest(cs) == CHOOSE c \in cs : \A d \in cs : d <= c

\* computeParent of left and right, which have common parents: the only one,
\* or a virtual one, for which these two wait.
Based(o, parents) ==
    LET first  == Newest(parents)
        second == Newest(parents \ {first})
    IN  IF parents = {first}
        THEN [o EXCEPT !.pc = IF o.stack = <<>> THEN "setMergeHead" ELSE "resetForMerge",
                       !.base = Plain(first)]
        ELSE [o EXCEPT !.pc = "computeParent",
                       !.left = Plain(first), !.right = second,
                       !.rest = parents \ {first, second},
                       !.stack = <<[left |-> o.left, right |-> o.right, rest |-> o.rest]>> \o @]

\* nonFastForwardMerge up to computeParent.
StartMerge(name, theirs) ==
    LET ours    == HeadCommit
        parents == CommonParents(ours, theirs)
    IN  /\ ~IsFastForward(ours, theirs)
        /\ mergeHead = None
        /\ ~HasUncommitted(ours)
        /\ parents # {}
        /\ began' = [branch |-> branch, head |-> head, orig |-> origHead, switched |-> FALSE]
        /\ op' = Based([NoOp EXCEPT !.name = name, !.left = Plain(ours), !.right = theirs,
                                    !.copied = (name = "pull" /\ blobs = NoBlobs)], parents)

Merge(b) ==
    /\ Call("merge")
    /\ branch[b] # None
    /\ \/ /\ IsFastForward(HeadCommit, branch[b])
          /\ SetHead(branch[b])
          /\ op' = ResetTo("merge", branch[b], "hard")
          /\ UNCHANGED began
       \/ /\ StartMerge("merge", branch[b])
          /\ UNCHANGED <<branch, head>>
    /\ UNCHANGED <<commits, mergeHead, origHead, mergeMsg, area, joined>>

\* PullContext after the fetch: c is what the remote's reference points to.
Pull(c) ==
    /\ Call("pull")
    /\ \/ /\ IsFastForward(HeadCommit, c)
          /\ SetHead(c)
          /\ op' = ResetTo("pull", c, "merge")
          /\ UNCHANGED began
       \/ /\ StartMerge("pull", c)
          /\ UNCHANGED <<branch, head>>
    /\ UNCHANGED <<commits, mergeHead, origHead, mergeMsg, area, joined>>

SetMergeHead ==
    /\ Step("setMergeHead")
    /\ mergeHead' = op.right
    /\ At("setOrigHead")
    /\ UNCHANGED <<commits, branch, head, origHead, mergeMsg, area, ghosts>>

\* Slip: ORIG_HEAD is not set.
SetNoOrigHead ==
    /\ Step("setOrigHead")
    /\ At("resetForMerge")
    /\ UNCHANGED <<commits, refs, area, ghosts>>

SetOrigHead ==
    /\ Step("setOrigHead")
    /\ origHead' = op.left.commit
    /\ At("resetForMerge")
    /\ UNCHANGED <<commits, branch, head, mergeHead, mergeMsg, area, ghosts>>

\* The change of a path from one tree to another.
Change(v, w) == CASE v = w                    -> "none"
                  [] v = Absent /\ w # Absent -> "insert"
                  [] v # Absent /\ w = Absent -> "delete"
                  [] OTHER                    -> "modify"

\* c.idx is the stored index itself when Storer.Index returns it.
IndexOf(c) == IF use.shared THEN index ELSE c.idx

\* getBlob: Absent if there is none, which is an error.
BlobOf(c, p) ==
    LET e == IndexOf(c)[p]
    IN  CASE ~c.virtual \/ e = NoEntry -> TreeOf(c.commit)[p]
          [] c.virtual /\ e[Merged] # Absent -> e[Merged]
          [] OTHER -> e[OurMode]

\* What getBlob gives of the base and of ours for a path that both sides changed.
BaseBlob(p) == IF op.from[p] = Absent THEN Absent ELSE BlobOf(op.base, p)
OursBlob(p) == IF TreeOf(op.left.commit)[p] = Absent THEN Absent ELSE BlobOf(op.left, p)

\* Diff3: what it may make of two texts with a common base.  When only one side
\* has changed the lines are that side's; the bytes may differ from it in the
\* line end that closes the file, which this model does not keep apart.
Diff3Results(base, ours, theirs) ==
    CASE ours = theirs                 -> {ours}
      [] ours # theirs /\ base = ours   -> {theirs}
      [] ours # theirs /\ base = theirs -> {ours}
      [] OTHER                         -> {Joined, Marked}

\* mergeCommits: resetIndex, the two diffs, and the index that
\* compareCommitsChanges reads before its loops.
ResetForMerge ==
    /\ Step("resetForMerge")
    /\ index' = ResetIndexTo(index, TreeOf(op.left.commit))
    /\ LET from  == IF ~op.base.virtual THEN TreeOf(op.base.commit)
                    ELSE Seen(IF use.shared THEN index' ELSE op.base.idx)
           left  == {p \in Path : from[p] # TreeOf(op.left.commit)[p]}
           right == {p \in Path : from[p] # TreeOf(op.right)[p]}
       IN  op' = [op EXCEPT !.pc = "compare", !.snap = index', !.from = from,
                            !.both = left \cap right, !.onlyRight = right \ left]
    /\ joined' = None
    /\ UNCHANGED <<commits, refs, files, blobs, last, began>>

\* w.Add: what the file is now is the merged entry of its path in the stored
\* index, read afresh.
AddFile(p, v) == index' = [index EXCEPT ![p] = Just(v)]

\* addConflictFile(oursIdx, ...): the index read before the loops is changed
\* and stored.
AddConflict(p, base, ours, theirs) ==
    LET idx == IF use.shared THEN index ELSE op.snap
    IN  index' = [idx EXCEPT ![p] = Conflict(base, ours, theirs)]

\* compareCommitsChanges: the body of its first loop, for a path that both
\* sides changed.  The order is that of a Go map: any.
CompareBoth(p) ==
    LET base   == BaseBlob(p)
        ours   == OursBlob(p)
        theirs == TreeOf(op.right)[p]
        left   == Change(op.from[p], TreeOf(op.left.commit)[p])
        right  == Change(op.from[p], theirs)
    IN  /\ Step("compare")
        /\ p \in op.both
        /\ \/ /\ left = "modify" /\ right = "modify"
              /\ base # Absent /\ ours # Absent
              /\ blobs' = Cache(p, Conflict(base, ours, theirs))
              /\ \E r \in Diff3Results(base, ours, theirs) :
                     /\ files' = [files EXCEPT ![p] = r]
                     /\ IF r = Marked THEN AddConflict(p, base, ours, theirs)
                                      ELSE AddFile(p, r)
           \/ /\ left = "insert" /\ right = "insert"
              /\ ours # Absent
              /\ blobs' = Cache(p, Conflict(Absent, ours, theirs))
              /\ files' = [files EXCEPT ![p] = Marked]
              /\ AddConflict(p, Absent, ours, theirs)
           \/ /\ {left, right} = {"modify", "delete"}
              /\ base # Absent /\ (ours = Absent => left = "delete")
              /\ blobs' = Cache(p, Conflict(base, ours, theirs))
              /\ AddConflict(p, base, ours, theirs)
              /\ UNCHANGED files
           \/ /\ left = "delete" /\ right = "delete"
              /\ UNCHANGED area
        /\ op' = [op EXCEPT !.both = @ \ {p},
                    !.snap = IF Conflicted(index'[p]) THEN index' ELSE @]
        /\ UNCHANGED <<commits, refs, ghosts>>

\* PullContext works on its own copy of the Worktree: the blobs a merge caches
\* there go with the copy, unless the two share a map that was there before.
Kept(bs) == IF op.copied THEN NoBlobs ELSE bs

\* A blob cannot be read, of the base or, with that one cached, of ours: Merge
\* returns an error.
CompareFails(p) ==
    /\ Step("compare")
    /\ p \in op.both
    /\ TreeOf(op.left.commit)[p] # Absent \/ TreeOf(op.right)[p] # Absent
    /\ \/ op.from[p] # Absent /\ BaseBlob(p) = Absent
       \/ TreeOf(op.left.commit)[p] # Absent /\ OursBlob(p) = Absent
    /\ Fail
    /\ blobs' = Kept(Cache(p, Conflict(BaseBlob(p), Absent, Absent)))
    /\ UNCHANGED <<commits, refs, index, files, joined, began>>

\* Slip: the file is copied and not added.
TakeTheirsUnstaged(p) ==
    /\ Step("compare")
    /\ op.both = {}
    /\ p \in op.onlyRight
    /\ files' = [files EXCEPT ![p] = TreeOf(op.right)[p]]
    /\ op' = [op EXCEPT !.onlyRight = @ \ {p}]
    /\ UNCHANGED <<commits, refs, index, blobs, ghosts>>

\* The body of the second loop, for a path that only their side changed:
\* copyFileToOurs or w.Remove.
TakeTheirs(p) ==
    LET theirs == TreeOf(op.right)[p]
    IN  /\ Step("compare")
        /\ op.both = {}
        /\ p \in op.onlyRight
        /\ files' = [files EXCEPT ![p] = theirs]
        /\ AddFile(p, theirs)
        /\ op' = [op EXCEPT !.onlyRight = @ \ {p}]
        /\ UNCHANGED <<commits, refs, blobs, ghosts>>

Compared == op.pc = "compare" /\ op.both = {} /\ op.onlyRight = {}

\* mergeCommits without a base: computeParent, which fails without a common one.
ComputeParent ==
    LET parents == CommonParents(op.left.commit, op.right)
    IN  /\ Step("computeParent")
        /\ \/ /\ parents = {}
              /\ Fail
              /\ blobs' = Kept(blobs)
           \/ /\ parents # {}
              /\ op' = Based(op, parents)
              /\ UNCHANGED <<blobs, last>>
        /\ UNCHANGED <<commits, refs, index, files, joined, began>>

\* createVirtualParent: the next common parent, or the end of its loop, with
\* which the merge that waited goes on.
VirtualNext ==
    LET next  == Newest(op.rest)
        frame == Head(op.stack)
    IN  /\ Compared
        /\ op.stack # <<>>
        /\ op' = IF op.rest # {}
                 THEN [op EXCEPT !.pc = "computeParent", !.left = op.base,
                                 !.right = next, !.rest = @ \ {next}]
                 ELSE [op EXCEPT !.pc = IF Len(op.stack) = 1 THEN "setMergeHead"
                                                             ELSE "resetForMerge",
                                 !.left = frame.left, !.right = frame.right,
                                 !.rest = frame.rest, !.stack = Tail(@),
                                 !.base = [@ EXCEPT !.virtual = TRUE, !.idx = index]]
        /\ UNCHANGED <<commits, refs, area, calls, use, ghosts>>

\* logMergeConflicts, and the return from Merge or Pull.
SetMergeMsg ==
    /\ Compared
    /\ op.stack = <<>>
    /\ mergeMsg' = TRUE
    /\ joined' = op.right
    /\ Succeed
    /\ blobs' = Kept(blobs)
    /\ UNCHANGED <<commits, branch, head, mergeHead, origHead, index, files, calls, use, began>>

-----------------------------------------------------------------------------
(* Reset, and the calls that end in one. *)

Reset(c, mode) ==
    /\ Call("reset")
    /\ op' = ResetTo("reset", c, mode)
    /\ UNCHANGED <<commits, refs, area, joined, began>>

ResetHead ==
    /\ Step("reset")
    /\ \/ /\ op.mode = "merge"
          /\ Unstaged
          /\ Fail
          /\ UNCHANGED <<branch, head>>
       \/ /\ op.mode = "merge" => ~Unstaged
          /\ SetHead(op.target)
          /\ IF op.mode = "soft" THEN Succeed ELSE At("resetIndex") /\ UNCHANGED last
    /\ UNCHANGED <<commits, mergeHead, origHead, mergeMsg, area, joined, began>>

ResetIndex ==
    /\ Step("resetIndex")
    /\ index' = ResetIndexTo(index, TreeOf(op.target))
    /\ joined' = None
    /\ IF op.mode = "mixed" THEN Succeed ELSE At("resetWorktree") /\ UNCHANGED last
    /\ UNCHANGED <<commits, refs, files, blobs, began>>

\* Slip: files that the index does not have are left alone.
ResetTrackedFiles ==
    LET t == TreeOf(op.target)
        written == {p \in Path : First(index[p]) \notin {Absent, files[p]}}
    IN  /\ Step("resetWorktree")
        /\ files' = [p \in Path |-> IF p \in written THEN t[p] ELSE files[p]]
        /\ IF op.name = "abort" THEN At("abortEnd") /\ UNCHANGED last ELSE Succeed
        /\ UNCHANGED <<commits, refs, index, blobs, joined, began>>

\* resetWorktree: every file that differs from the index takes what the tree
\* has; the files that the index does not have are removed.  checkoutChange
\* fails on an indexed file that the tree does not have.
ResetWorktree ==
    LET t       == TreeOf(op.target)
        changed == {p \in Path : files[p] # First(index[p])}
        written == {p \in changed : First(index[p]) # Absent}
    IN  /\ Step("resetWorktree")
        /\ IF \E p \in written : t[p] = Absent
           THEN Fail /\ UNCHANGED <<index, files>>
           ELSE /\ files' = [p \in Path |->
                               CASE p \in written -> t[p]
                                 [] p \in changed \ written -> Absent
                                 [] OTHER -> files[p]]
                /\ index' = [p \in Path |-> IF p \in written THEN Just(t[p]) ELSE index[p]]
                /\ IF op.name = "abort" THEN At("abortEnd") /\ UNCHANGED last ELSE Succeed
        /\ UNCHANGED <<commits, refs, blobs, joined, began>>

\* Checkout of a branch, of a commit, and with Create of a new branch.
Checkout(b, mode) ==
    /\ Call("checkout")
    /\ branch[b] # None
    /\ head' = b
    /\ op' = ResetTo("checkout", branch[b], mode)
    /\ began' = [began EXCEPT !.switched = TRUE]
    /\ UNCHANGED <<commits, branch, mergeHead, origHead, mergeMsg, area, joined>>

CheckoutHash(c, mode) ==
    /\ Call("checkout")
    /\ head' = c
    /\ op' = ResetTo("checkout", c, mode)
    /\ began' = [began EXCEPT !.switched = TRUE]
    /\ UNCHANGED <<commits, branch, mergeHead, origHead, mergeMsg, area, joined>>

CheckoutCreate(b, mode) ==
    /\ Call("checkout")
    /\ branch[b] = None
    /\ branch' = [branch EXCEPT ![b] = HeadCommit]
    /\ op' = [ResetTo("checkout", HeadCommit, mode) EXCEPT !.pc = "switch", !.on = b]
    /\ began' = [began EXCEPT !.switched = TRUE]
    /\ UNCHANGED <<commits, head, mergeHead, origHead, mergeMsg, area, joined>>

SwitchHead ==
    /\ Step("switch")
    /\ head' = op.on
    /\ At("reset")
    /\ UNCHANGED <<commits, branch, mergeHead, origHead, mergeMsg, area, ghosts>>

-----------------------------------------------------------------------------
(* AbortMerge. *)

AbortMerge ==
    /\ Call("abort")
    /\ mergeHead' = None
    /\ op' = [NoOp EXCEPT !.pc = "abortMsg", !.name = "abort"]
    /\ UNCHANGED <<commits, branch, head, origHead, mergeMsg, area, joined, began>>

\* Slip: MERGE_MSG stays.
AbortKeepsMsg ==
    /\ Step("abortMsg")
    /\ IF origHead = None THEN Fail
       ELSE op' = ResetTo("abort", origHead, "hard") /\ UNCHANGED last
    /\ UNCHANGED <<commits, refs, area, joined, began>>

AbortMsg ==
    /\ Step("abortMsg")
    /\ mergeMsg' = FALSE
    /\ IF origHead = None THEN Fail
       ELSE op' = ResetTo("abort", origHead, "hard") /\ UNCHANGED last
    /\ UNCHANGED <<commits, branch, head, mergeHead, origHead, area, joined, began>>

AbortEnd ==
    /\ Step("abortEnd")
    /\ origHead' = None
    /\ blobs' = NoBlobs
    /\ Succeed
    /\ UNCHANGED <<commits, branch, head, mergeHead, mergeMsg, index, files, joined, began>>

-----------------------------------------------------------------------------
(* Commit. *)

\* The checks; with all, every tracked file is added as it is.
Commit(all) ==
    /\ Call("commit")
    /\ \A p \in Path : ~Conflicted(index[p])
    /\ index' = [p \in Path |-> IF all /\ index[p] # NoEntry THEN Just(files[p])
                                                           ELSE index[p]]
    /\ op' = [NoOp EXCEPT !.pc = "updateHead", !.name = "commit",
                          !.parents = {HeadCommit} \cup ({mergeHead} \ {None})]
    /\ UNCHANGED <<commits, refs, files, blobs, joined, began>>

\* Slip: HEAD is moved to a commit that was not stored.
UpdateHeadOnly ==
    /\ Step("updateHead")
    /\ SetHead(Len(commits) + 1)
    /\ At("removeMergeHead")
    /\ UNCHANGED <<commits, mergeHead, origHead, mergeMsg, area, ghosts>>

\* buildCommitObject and updateHEAD: a commit object without a reference to it
\* is not seen by any call.
UpdateHead ==
    /\ Step("updateHead")
    /\ commits' = Append(commits, [tree |-> Seen(index), parents |-> op.parents])
    /\ SetHead(Len(commits'))
    /\ op' = [op EXCEPT !.pc = "removeMergeHead", !.parents = {}]
    /\ UNCHANGED <<mergeHead, origHead, mergeMsg, area, ghosts>>

RemoveMergeHead ==
    /\ Step("removeMergeHead")
    /\ mergeHead' = None
    /\ joined' = None
    /\ At("removeMergeMsg")
    /\ UNCHANGED <<commits, branch, head, origHead, mergeMsg, area, last, began>>

RemoveMergeMsg ==
    /\ Step("removeMergeMsg")
    /\ mergeMsg' = FALSE
    /\ At("removeOrigHead")
    /\ UNCHANGED <<commits, branch, head, mergeHead, origHead, area, ghosts>>

RemoveOrigHead ==
    /\ Step("removeOrigHead")
    /\ origHead' = None
    /\ blobs' = NoBlobs
    /\ Succeed
    /\ UNCHANGED <<commits, branch, head, mergeHead, mergeMsg, index, files, joined, began>>

-----------------------------------------------------------------------------
(* What the user does to the files and, with Add, to the index; and the end *)
(* of the process, with its start over the same repository.                 *)

Edit(p, v) ==
    /\ Call("edit")
    /\ files[p] # v
    /\ files' = [files EXCEPT ![p] = v]
    /\ UNCHANGED <<commits, refs, index, blobs, op, joined, began>>

Add(p) ==
    /\ Call("edit")
    /\ files[p] # Absent \/ index[p] # NoEntry
    /\ AddFile(p, files[p])
    /\ UNCHANGED <<commits, refs, files, blobs, op, joined, began>>

\* The files that a step writes before it stores the index: what comparing the
\* path p writes, and the files that resetWorktree goes through one by one.
Compares(p) ==
    LET base   == BaseBlob(p)
        ours   == OursBlob(p)
        theirs == TreeOf(op.right)[p]
    IN  CASE p \in op.both /\ Absent \notin {base, ours, theirs} ->
                Diff3Results(base, ours, theirs)
          [] p \in op.both /\ op.from[p] = Absent /\ ours # Absent -> {Marked}
          [] op.both = {} /\ p \in op.onlyRight -> {theirs}
          [] OTHER -> {}

HalfWritten ==
    CASE op.pc = "compare" ->
            {files} \cup UNION {{[files EXCEPT ![p] = v] : v \in Compares(p)} : p \in Path}
      [] op.pc = "resetWorktree" ->
            {[p \in Path |-> IF p \notin done THEN files[p]
                             ELSE IF First(index[p]) = Absent THEN Absent
                             ELSE TreeOf(op.target)[p]] :
                done \in SUBSET {p \in Path : files[p] # First(index[p])}}
      [] OTHER -> {files}

Die ==
    /\ use.dies
    /\ ~Idle \/ blobs # NoBlobs
    /\ files' \in HalfWritten
    /\ op' = NoOp
    /\ blobs' = NoBlobs
    /\ last' = NoCall
    /\ UNCHANGED <<commits, refs, index, calls, use, joined, began>>

-----------------------------------------------------------------------------
Init ==
    \E h \in Histories :
        /\ commits = h.commits
        /\ branch = h.branch
        /\ head = h.at
        /\ mergeHead = None /\ origHead = None /\ mergeMsg = FALSE
        /\ index = AsIndex(h.commits[h.branch[h.at]].tree)
        /\ files = h.commits[h.branch[h.at]].tree
        /\ blobs = NoBlobs
        /\ op = NoOp
        /\ calls = h.calls
        /\ use = [ops |-> h.ops, shared |-> h.shared, dies |-> h.dies]
        /\ last = NoCall /\ joined = None
        /\ began = [branch |-> h.branch, head |-> h.at, orig |-> None, switched |-> FALSE]

Known == 1 .. Len(commits)
Mode == {"soft", "mixed", "hard", "merge"}

UserCall ==
    \/ \E b \in Branch : Merge(b)
    \/ \E c \in Known : Pull(c)
    \/ \E all \in BOOLEAN : Commit(all)
    \/ AbortMerge
    \/ \E c \in Known, mode \in Mode : Reset(c, mode)
    \/ \E b \in Branch, mode \in Mode \ {"mixed"} :
          Checkout(b, mode) \/ CheckoutCreate(b, mode)
    \/ \E c \in Known, mode \in Mode \ {"mixed"} : CheckoutHash(c, mode)
    \/ \E p \in Path : Edit(p, Edited) \/ Edit(p, Absent) \/ Add(p)

MergeStep ==
    \/ SetMergeHead \/ SetOrigHead \/ ResetForMerge
    \/ \E p \in Path : CompareBoth(p) \/ CompareFails(p) \/ TakeTheirs(p)
    \/ ComputeParent \/ VirtualNext \/ SetMergeMsg

OtherStep ==
    \/ ResetHead \/ ResetIndex \/ ResetWorktree \/ SwitchHead
    \/ AbortMsg \/ AbortEnd
    \/ UpdateHead \/ RemoveMergeHead \/ RemoveMergeMsg \/ RemoveOrigHead

Next == UserCall \/ MergeStep \/ OtherStep \/ Die

Spec == Init /\ [][Next]_vars

-----------------------------------------------------------------------------
(* Properties. *)

Ref == Known \cup {None}

PC == {"idle", "computeParent", "setMergeHead", "setOrigHead", "resetForMerge", "compare",
       "reset", "resetIndex", "resetWorktree", "switch", "abortMsg", "abortEnd",
       "updateHead", "removeMergeHead", "removeMergeMsg", "removeOrigHead"}

Number == Nat \cup {None}
Name == Op \cup {"none"}
ModeOrNone == Mode \cup {"none"}
MergingCommit == [commit : Number, virtual : BOOLEAN, idx : Index]
Frame == [left : MergingCommit, right : Number, rest : SUBSET Nat]
CallInProgress ==
    [pc : PC, name : Name,
     left : MergingCommit, right : Number, base : MergingCommit,
     rest : SUBSET Nat, stack : Seq(Frame), copied : BOOLEAN,
     from : Tree, both : SUBSET Path, onlyRight : SUBSET Path, snap : Index,
     target : Number, mode : ModeOrNone, on : Branch \cup {None}, parents : SUBSET Nat]

\* Every reference names a commit that is stored, and HEAD has one.
TypeOK ==
    /\ commits \in Seq(Commits)
    /\ branch \in [Branch -> Ref]
    /\ head \in Branch \cup Known
    /\ HeadCommit \in Known
    /\ {mergeHead, origHead, joined} \subseteq Ref
    /\ mergeMsg \in BOOLEAN
    /\ index \in Index
    /\ files \in Tree
    /\ blobs \in Index
    /\ op \in CallInProgress
    /\ calls \in Nat
    /\ use \in [ops : SUBSET Op, shared : BOOLEAN, dies : BOOLEAN]
    /\ last \in [name : Name, mode : ModeOrNone]
    /\ began \in [branch : [Branch -> Number], head : Branch \cup Nat,
                  orig : Number, switched : BOOLEAN]

SeveralBases == \E x, y \in Known : \E b, c \in CommonParents(x, y) : b # c

Bases == {TreeOf(b) : b \in CommonParents(HeadCommit, joined)}

\* When a merge returns, a path that they did not change since any merge base
\* is staged as we have it, one that we did not change is staged as they have
\* it and its file with it, and one that both changed is a conflict or staged
\* as its file (compareCommitsChanges).  Excused are several merge bases: over a
\* shared index the index of the virtual base changes with the merge, with a
\* third base what the first two have become is lost, and the files the virtual
\* base was written to are not taken back.
MergeIsThreeWay ==
    last.name \in {"merge", "pull"} /\ joined # None =>
        LET bases  == Cardinality(CommonParents(HeadCommit, joined))
            single == bases = 1
        IN  \A p \in Path :
                LET ours   == TreeOf(HeadCommit)[p]
                    theirs == TreeOf(joined)[p]
                IN  /\ single \/ (bases = 2 /\ ~use.shared) =>
                          /\ (\A b \in Bases : theirs = b[p]) => index[p] = Just(ours)
                          /\ (\A b \in Bases : ours = b[p]) => index[p] = Just(theirs)
                    /\ single =>
                          /\ (\A b \in Bases : ours = b[p]) => files[p] = theirs \/ ours = theirs
                          /\ ~Conflicted(index[p]) =>
                                files[p] = index[p][Merged] \/ files[p] = Absent

\* ReadFileByStage gives the base, our and their file of every conflict that
\* the index lists, between any two calls.
StagesReadable ==
    Idle => \A p \in Path : Conflicted(index[p]) =>
                \A s \in Stage : index[p][s] # Absent => blobs[p][s] = index[p][s]

\* AbortMerge restores what the merge found: HEAD and the branches, the index
\* and the tracked files; and no merge is in progress any more.  Excused are a
\* checkout in between, since the abort resets the branch HEAD is on, and an
\* ORIG_HEAD that a commit which died left to the merge; and, for index and
\* files, a death with the conflicts of a virtual base staged.
AbortReconstructs ==
    last.name = "abort" /\ ~began.switched /\ began.orig = None =>
        /\ branch = began.branch /\ head = began.head
        /\ ~(use.dies /\ SeveralBases) =>
              /\ index = AsIndex(TreeOf(HeadCommit))
              /\ files = TreeOf(HeadCommit)
        /\ mergeHead = None /\ origHead = None /\ ~mergeMsg

\* As long as the index has conflicts ORIG_HEAD is there for AbortMerge, at
\* whatever step the process died: nonFastForwardMerge sets it before the first
\* conflict, AbortMerge removes it after the last.  Excused are histories with
\* several merge bases: the conflicts of a virtual base are staged before.
ConflictsAreRecoverable ==
    (\E p \in Path : Conflicted(index[p])) => origHead # None \/ SeveralBases

\* A hard reset, alone or as the end of Merge, Checkout or AbortMerge, leaves
\* index and worktree as the commit has them.
HardResetReachesTree ==
    last.mode = "hard" =>
        /\ index = AsIndex(TreeOf(HeadCommit))
        /\ files = TreeOf(HeadCommit)

=============================================================================
