# A verification of test_perf: git merges over a file system in MySQL

The repository is a fork of go-git (package `git`, `src/*.go`) with a merge of
its own, and a billy file system whose files are rows of a MySQL table
(`storage.go`, `filesystem.go`; the same text is in
`go-git-mysql/mysqlfs/`). This directory models what the fork adds and the parts
of go-git it rests on, checks the models with TLC, and proves what matters most
about them with TLAPS.

    tlc -config MergeLife.cfg MCWorktreeMerge     # one of the runs below
    tlapm MergeBaseProofs.tla                     # the proofs

## 1. Inventory

| Component | State | Operations | Hard behaviour |
|---|---|---|---|
| Merge-base search (`worktree_merge.go` `getCommonParents`, `worktree_priority_queue.go`) | a heap of commits with marks, the results | push, pop, one turn of the loop | order by author date; commits queued again after their marks were forgotten |
| Merge (`worktree_merge.go`, `worktree_commit.go`) | MERGE_HEAD, ORIG_HEAD, MERGE_MSG, index with stages, files, cached blobs | Merge, Commit, AbortMerge, ReadFileByStage | an index read once and stored several times; a virtual base merged into the same worktree; a death between two writes |
| Worktree (`worktree.go`) | HEAD, branches, index, files | Reset, Checkout, Pull, Clean, Grep | HEAD, index and files move one after the other; a conflict is several entries of one path |
| Text merge (`diff3.go`, `myers_differer.go`) | two edit scripts, three positions, the output | setup, writeChunks, emitChunk | ends of texts, empty texts, progress of the loop |
| mysqlfs tree (`storage.go`, `filesystem.go`) | one table: id, path, parentID, mode | NewFile, RemoveFile, RenameFile, CreateParentAddToFile | several statements per call and no transaction; two clients; a client that dies |
| mysqlfs files (`filesystem.go` `File`) | a copy of the content, a position, flags | Open, Read, Write, Seek, Truncate, Close | copies that go stale; O_TRUNC that is not stored |
| Caches (`object_lru.go`, `buffer_lru.go`) | list, map, summed size | Put, Get, Clear | a key put again with another size; an object that grows, or gets its hash, while cached |
| Maintenance (`prune.go`, `RepackObjects`) | loose objects, packs | Prune, RepackObjects | beside a process that commits, between the look at an object and its deletion as well; a death between deletion and the end of the pack |
| Tree objects (`worktree_commit.go` `BuildTree`) | maps of trees and entries | BuildTree | directories that share a prefix, sorting |
| Repository (`repository.go`, `reference.go`) | references, config, `.git` | Init, Open, Clone, branches, tags, remotes | config and reference change one after the other; cleanup after a failed clone; a death before it |
| Submodules (`submodule.go`) | config, index entry, repository | Init, Update, Status, Repository | nested updates that stop halfway; a repository that is opened although its Init did not finish; commits that are not published yet |
| History walks (`references.go`, `blame.go`) | none | references, Blame | revisions of equal dates and equal patches; merges; lines counted in two texts at once |
| Resolution and log (`revision.go`, `ResolveRevision`, `Log`) | none | read only | - |
| Values (`hash.go`, `object.go`, `memory.go`, `status.go`, `options.go`) | an object's bytes | hash, encode, validate | no Hash before the content is of its size, one Hash after that, whatever is written |

How they interact: `Merge` asks the merge-base search for the common parents,
merges several of them into a virtual base, compares trees, and calls the text
merge for a file both sides changed. It goes through `Worktree.Add`, `Reset` and
the index of the storage. All of it reads and writes files through billy, for
which mysqlfs is one implementation; the storage of objects and references may
itself live on mysqlfs. The caches sit before the object store. `Prune` and
`RepackObjects` work on the same store as any process that commits.

Not in the repository are `worktree_status.go` (`Add`, `Remove`,
`addConflictFile`, the diffs of trees, index and files), `remote.go`
(`isFastForward`, fetch), the storages, the object walker and the merkletrie
package. What the models need of them is a few operators that the map marks
external: `Add` stages the file as it is; `addConflictFile` replaces the entries
of a path by its stages; a differ sees the first entry of a path;
`walkAllRefs` fails on a missing object; a pack exists when its writer is
closed. A fetch brings the objects that the references of a refspec need and moves
the remote-tracking branches; `diff.Do` gives a shortest script, and what it inserts
or deletes between two equal parts is slid over a neighbour that is the same, as the
`DiffCleanupMerge` of go-diff does last.

A clone is Init, CreateRemote, a fetch, the references, Reset, and the update of the
submodules, each of which is again Init (or the opening of what is there),
CreateRemote, a fetch, Checkout, and its own submodules. Pull ends the same way.
Reset asks the status of the submodules, which creates the repositories of those
that the configuration names.

What makes each component correct: the search returns the merge bases, all and only, and
ends; a merge is the three-way merge of every path and can be undone until it is
committed, whatever step the process died at; a merge of texts loses and repeats no
line; in the table, the links by parentID and the paths say the same; a file holds what
was written to it; a cache keeps its bound and its list and map agree; maintenance loses
no object that is, or is about to be, reachable; a clone that succeeds is complete and
one that fails is undone; an update brings every submodule to the commit its parent
names and can be repeated after any failure; the trees of a commit are its index; the
revisions of a file are the versions it went through, and blame is history.

## 2. Modules

| Module | Models | Checked by |
|---|---|---|
| `MergeBase` | `getCommonParents` and its priority queue | `MCMergeBase`: MergeBase, MergeBaseSkew |
| `MergeBaseProofs` | theorems about `MergeBase` | tlapm |
| `WorktreeMerge` | Merge, Pull, Commit, AbortMerge, Reset, Checkout | `MCWorktreeMerge`: MergeLife, MergeDies, MergeLostAdd |
| `WorktreeMergeProofs` | theorems about `WorktreeMerge` | tlapm |
| `Diff3`, `Myers` | the text merge and the differ under it | Diff3 |
| `Diff3Proofs` | theorems about both | tlapm |
| `MysqlStorage` | the table of mysqlfs, one step per SQL statement | `MCMysqlStorage`: Storage |
| `MysqlStorageProofs` | theorems about `MysqlStorage` | tlapm |
| `MysqlFile` | handles of open files | `MCMysqlFile`: FileSession |
| `MysqlFileProofs` | theorems about `MysqlFile` | tlapm |
| `LruCache` | both caches | `MCLruCache`: Lru |
| `LruProofs` | theorems about `LruCache` | tlapm |
| `ObjectStore` | Prune and RepackObjects beside commits | `MCObjectStore`: Maintenance |
| `ObjectStoreProofs` | theorems about `ObjectStore` | tlapm |
| `AtomicClone` | what PlainClone promises about the directory | as a property of `Clone` |
| `Clone` | PlainInit, PlainClone, Submodules.Init and Update, Pull with submodules | `MCClone`: Clone |
| `CloneProofs` | that `Clone` implements `AtomicClone`, and theorems about it | tlapm |
| `History` | BuildTree, references, Blame | `MCHistory`: History |

Definitions that begin with the comment "Slip" are variants of
the definition below them, with a mistake such code might have. No run uses
them; put in place of the original each makes one property fail, which shows
that the property depends on the code (`PROJECT.json`, "mutants").

### MergeBase

`queue` maps a commit to its marks (empty: not queued), `res` is the list of
results, `popped` a history variable. `Visit(c)` is one turn of the loop: pop a
commit with no later one queued, report it if it carries both parent marks and
neither markStale nor markResult, push its parents with the marks it passes on.
The heap's order among equal dates is left open. `DatesFollowHistory` says that
every commit is authored later than its parents; `markCommit` uses the author
date, which a rebase or a cherry-pick keeps, so the code does not guarantee it.

### WorktreeMerge

A tree, the index and the worktree are functions of the path; a content is its identity.
Diff3 gives one side when the other did not change, and otherwise either a joined text
or one with markers, whichever. A call is a chain of steps, one per write that outlives
the process: `Merge` reads and decides, then `SetMergeHead`, `SetOrigHead`,
`ResetForMerge`, `CompareBoth` and `TakeTheirs` for one path each, `SetMergeMsg`. With
several bases the virtual base is merged first, by the same steps: `Based` is
`computeParent`, which puts the merge that needs the base on `op.stack` and merges the
first two bases instead; `ComputeParent` does the same for these two, which may have
several bases themselves; and `VirtualNext` goes on to the next of the bases or, after
the last, back to the merge that waited. `Plain` makes a mergingCommit of a commit,
`BlobOf` is `getBlob` of either kind. Reset is `ResetHead`, `ResetIndex`,
`ResetWorktree`; Commit is `Commit` (the checks and the trees), `UpdateHead` (which
stores the commit and moves the branch) and the three removals. `Die` ends the process
and keeps what is stored. Within a step the files are written before the index is
stored, so that `Die` may leave what is `HalfWritten`: the file that `CompareBoth` or
`TakeTheirs` was about to stage, and any of the files that `ResetWorktree` goes through.
Not divided further are the write of one file and the adds of a Commit with All. How a
repository is used is part of it (`use`): the calls that are made, whether the process
may die, and `shared`, which tells the two storages of go-git apart: that in memory
returns the stored index itself, that on files a copy. `op.copied` says that a pull
caches blobs in its copy of the Worktree, which it does unless there is a map already,
which the two share. `Edit` and `Add` are the user's. The history variables `last`,
`joined` and `began` say which call ended last, which commit's changes are in the index,
and where HEAD and the branches were when the merge began.

`CommonParents` is what `MergeBase` computes for dates that follow the history;
`MergeBasesExactThm` is the proof that the search does compute it. What `Diff3Results`
gives when one side is as the base is that of the other: diff3 writes its lines again,
joined by a newline, which contents that are identities do not tell from the lines it
read. Left out: the panic of two empty texts (section 5), binary files, modes,
symlinks, submodules.

### Diff3 and Myers

`Diff` is the greedy search of Myers with its backtracking. `Rounds` is the function of
all rounds there can be, of which `GetShortestPath` takes those up to the first that
ends, and `Backtrack` the function of the steps back; both are recursive functions, so
that they can be proved about. `Diff3` is the loop of `writeChunks`: `StableChunk`,
`ChangedChunk` and `FinalChunk` are the branches of one turn.

### MysqlStorage

`rows` is the table; every SELECT, INSERT, UPDATE and DELETE is a step of a
client, and the recursion of `NewFile` through `createParent` is the stack
`frames` of the client's record. The UNIQUE path and the AUTO_INCREMENT id are
the database's. `work` is what the clients call: the discipline under which
`LinkedToDir` and `UnlinkedIsInProgress` hold is the formula `Disciplined` over
it, so it is stated and not built in: a path is used as a file or as a directory
(what is above a file, or given to MkdirAll, is a directory), directories are not
renamed or removed, and only the client that creates a file renames it. `Alone` is
the other case of `NothingDangles`: one client, which may do all that, but renames
nothing to below a path where it may have a file. `orphaned` remembers the rows of
calls that failed or died. A rename of a directory gives each child the path of its new
parent and the name it was read with (`c.FileName`, storage.go:251); `NewPath` takes the
name from the path at the time of the UPDATE, which is another only if a second client
has renamed the child in between. A column for the name is not modelled.

### MysqlFile

A handle has its copy of the content, its position and its flags; `want` is what a file
of the operating system would hold, and `excused` the files for which the difference is
known (see section 5). `WriteFails` is a Write whose UPDATE is an error, after the copy
and the position have moved. Calls are whole steps: the interleaving of statements is in
`MysqlStorage`.

### LruCache

`ll` is the list of elements, most recent first, `cache` the map from keys to elements,
`value` the item of each, `actualSize` the account. The mutex makes each call one step.
An item has a size, a length of content and the hash it keeps: `Hash` is
`MemoryObject.Hash`, which is `ZeroHash` until it is called while the content is of its
size, and from then on the hash of that content. `Write` and `SetSize` are what may be
done to a MemoryObject at any time, in the cache or not. So the key that eviction deletes
need not be the one the object was put under, and an element may be gone from the list
and still in the map. `rekeyed` remembers that a write changed the Hash of a cached
object, `written` that there was one at all, and `later` which element was used after
which.

### ObjectStore

Loose objects, packs and one reference that stands for all. A commit stores its objects
one at a time and then moves the reference. Prune and RepackObjects go object by object
and pack by pack. Of each object Prune makes two steps: `PruneCheck` asks whether it was
seen and how old it is, `PruneDelete` is the handler, which does not ask again and ends
Prune with an error when the object is gone. In between it is `doomed`, and `raced`
remembers which doomed objects were stored again. `DeleteLooseFails` is the other end of
createNewObjectPack: the pack is closed all the same and the old packs stay. What the
commit in the making adds to the one the reference is on it stores itself, also what is
there already (`BuildTree` and `SetEncodedObject` ask for nothing); blobs staged long
before are not in the model. `young` are the objects newer than OnlyObjectsOlderThan,
with which a careful caller prunes; `exposed` are those that createNewObjectPack has
deleted before its pack was complete.

### Clone and AtomicClone

A repository is named by the path of submodule names that leads to it, `<<>>` the
outermost. `repo` gives each one its HEAD (a branch, a commit, or none: no
repository), whether "origin" is configured, its commits, the commits its index and
its files are at, and which submodules its configuration names; `refs` has the
branches, tracking branches, refspec and upstream branches of the outermost. A
commit is its identity and the submodules of its tree. `dir` is the directory apart
from that: missing, empty, or with other things in it, which it has from the moment
PlainInit makes its storer.

`op` is the call in progress: `pc` names the step, `op.repo` the repository it is about,
`op.todo` the stack of submodule lists that `doRecursiveUpdate` has open (the lists are
maps in the code, so any order is possible), `left` the levels that are left. A step is
what the code does up to the next point at which a failure or a death makes a difference
to the properties, and mostly one write, with the checks before it: `InitStorer`,
`InitHead`, `CreateRemote`, `Fetch`, `UpdateReferences`, `Checkout`, `CheckUnstaged`
(which creates the repositories that `Status` asks for), `SetHeadCommit`, `ResetIndex`,
`ResetFiles`, `ListSubmodules`, `NextSubmodule`, `CreateBranch`, `CleanUp`. Three of
these are more than one write: `UpdateReferences` stores up to three references (the
path on which nothing is updated, repository.go:896, is that of an empty fetch and left
out), `InitHead` HEAD and, of a submodule, the `.git` file and core.worktree, and
`CheckUnstaged` creates the repositories it asks for with HEAD and remote. A submodule
that the index has not is registered in the configuration before `StartSubmodule` fails
on it. `FetchUnresolved` is a fetch that has moved the tracking branches and brought the
objects (`FetchObjects`) before the reference asked for is found missing, and the call
fails. `StepFails` ends a step in an error, `Die` the process; `Publish` and `Push` are
other people. `Push` is let happen where a call is about to look at a submodule,
`Publish` between calls: what a call reads of either it reads in one step.

`AtomicClone` has two variables. `place` is what is in the directory, `outcome` how
the last call ended. `Clone` implements it with

    place   <- Shown      what is there between calls, and while a call runs
                          what was there when it began
    outcome <- last.result

so that a call is one step of it. It allows a directory that was missing or empty
no change by a clone that fails after PlainInit; a repository no end; and a
death, or a PlainInit that fails, a directory with something in it.

### History

`Commit` makes a commit of one of the indexes, parents and dates that the plan allows,
with the trees of `BuildTree`; a path is a sequence of names and a name one of
characters, since the order of names is what is at stake. `FillRevs` is references
(walk, sort, removal of equivalent neighbours), `AssignOrigin` the origins of the lines
of one revision, `NewLines` the end of Blame with its error and its panic.
`SortedCommits` has every order that sort.Sort may leave. `Diffs` has, of two texts, the
shortest scripts, each slid as `DiffCleanupMerge` slides it: an edit between two equal
parts that ends as the part before it reads goes before that part, and one that begins
as the part after it reads goes behind that one. `Patches` are the ones that
`Equivalent` compares. `Twins` are revisions that `RemoveComp` takes for one though they
follow each other (section 5); `TwinFree` histories have none.

## 3. Runs and bounds

| Run | Bounds and why they are enough |
|---|---|
| MergeBase | all graphs of 5 commits with dates that follow it (two bases need 4, a root below them 5; a base above another base 5), all graphs of 4 with any dates 0..2; fairness for Terminates |
| MergeBaseSkew | all graphs of 4 commits, all different dates; must fail |
| Storage | 2 clients with 5 calls under the discipline, 3 levels of directories; 1 client with 7 calls on 3 levels, enough to rename a directory, use its old name as a file and remove it; both may die after any statement |
| FileSession | 2 handles, 1 path, 2 rows (the file and its successor), 5 combinations of flags, contents up to 3 bytes; with two rows contents of 1 byte |
| Lru | an object of fixed size and two MemoryObjects that start empty, one of which becomes the same object as the first when it is filled; sizes and lengths 0..3, bound 2 (so that 3 is larger than the cache); writes may take the account 1 from the sum; 600,000 states |
| Diff3 | every three texts of up to 3 lines over 2 different lines: chunks at both ends, repeated lines, empty texts |
| MergeLife | shared index: 2 paths, each of the 13 ways a path can differ between base, ours and theirs, and criss-crosses in which both sides disagree; merges, edits, commits, aborts, resets. Copied index: 108 criss-crosses of one path beside another that does not change; no resets. 3 calls: a merge, what follows it, and one more. Both kinds of index, with merges and aborts: a criss-cross over a criss-cross, one over two roots (which fails), and three merge bases of which two are a criss-cross |
| MergeDies | 1 path, 13 ways, copied index, the process may die at every step: 3 branches and every call with 4 calls (a merge, what happens to it, its abort, and an abort again); merge, pull, abort and edit with 6. 108 criss-crosses and the three longer histories of MergeLife, without deaths, both kinds of index, 3 calls |
| MergeLostAdd | 2 paths; must fail |
| Maintenance | 9 objects, 2 commits to make, the second of which stores again an old tree that nothing names, one pack with an unreachable object; repack and prune any number of times, deaths of the repack |
| Clone | a repository with a submodule that has one of its own, and a second submodule in its second commit; 2 remotes (HEAD on master, which is alone; HEAD on another branch, with a tag of a blob); 4 ways to clone, 2 to update, 3 to pull (HEAD, a tag, and a branch that one of the remotes does not have); 3 calls (clone, something that stops, what heals it) and 1 failure or death at any step; 2.1 million states |
| History | commits of 4 of 6 paths, in each of their orders, with names that sort before and after the slash of a directory; 3 commits in a line with texts of up to 3 lines over 2 different ones and of up to 2 over 3, the file missing included, and three texts over 3 lines whose patches are equal once they are slid; a merge of a branch of one commit and one of two, with texts of up to 2 lines, dates equal or either way; 780,000 states |

Deadlock is checked for Lru and Maintenance. The others stop: their calls are
bounded (`MaxCalls`, `calls` of a workload, the plan of a history), a panic ends
the process (`MysqlFile`), or the algorithm is done.

Fairness: `Terminates` of MergeBase and of Diff3 assume that the loop goes on (weak
fairness of Next), which a single-threaded loop does. `Ends` of Clone assumes weak
fairness of `Step`: a call is a sequential program, and the transport answers or
fails, which a context with a deadline sees to. Nothing is assumed fair about the
beginning of calls, about clients, failures, deaths, or what others publish.

What the properties say:

- **ResultsAreCommon, MergeBasesExact, Terminates**: what is found is common
  whatever the dates; with ordered dates it is exactly the merge bases; the search
  ends. That each is found once (BasesAreDistinct) is proved.
- **MergeIsThreeWay**: when a merge returns, a path only one side changed has
  that side's content staged, with its file; one that both changed is in
  conflict or staged as its file. With two merge bases, and an index that is copied,
  what is staged for a path that one side left as it is in both bases; with two over
  a shared index, and with more, nothing (section 5).
- **StagesReadable**: every stage of a listed conflict can be read through
  ReadFileByStage. MergeLife, which checks it, has neither deaths nor pulls: either
  loses the cached blobs.
- **AbortReconstructs**: an abort that ends restores HEAD, branches, index and
  files, and leaves no trace of the merge; with the process dying anywhere
  before, the abort itself included. Excused are a merge that had a checkout after
  it or began with an ORIG_HEAD left behind and, for index and files, a death in a
  history with several merge bases (section 5).
- **ConflictsAreRecoverable**: an index with conflicts has an ORIG_HEAD, at
  every step of every call, in histories with one merge base.
- **HardResetReachesTree**: a hard reset by any call leaves index and files as
  the commit has them.
- **CleanMerges, EditsAreKept, DiffsAreShortest, Terminates**: the text merge. What
  a side inserted is in the result, in order; a merge without conflicts has as many
  lines as the changes add up to.
- **LinkedToDir, UnlinkedIsInProgress, NothingDangles**: the table.
- **StoredAsWanted, OnlyOwnRow**: the handles. Excused is a file that had a second
  handle, a truncation followed by a Read or Close and no Write, a Write whose UPDATE
  failed, or an appending handle after Seek, Truncate or O_TRUNC (section 5).
- **ListMatchesMap, NeverExceeded, EvictsOldest**: the caches. A Get always hits an object
  of the hash it was asked for, ZeroHash aside. The list and the map have the same elements, unless
  a write changed the Hash of a cached object; the account is the sum of the sizes and
  within the bound, unless a cached object was written to; what is evicted was used
  before all that stays, with no exception.
- **NothingLost, StoredStays**: whatever Prune, RepackObjects and a commit do at the same
  time, what the reference reaches and what was stored for the next commit stays. Excused
  are exactly the objects RepackObjects has deleted before its pack is closed (`exposed`)
  and those stored again between Prune's look at their age and its handler (`raced`).
- **CloneIsComplete**: a clone that reports success has HEAD, objects, branch,
  upstream, tracking branch, files and submodules as was asked for.
- **UpdateReaches**: an update or a pull that reports success leaves every submodule,
  as deep as was asked for, at the commit its parent names.
- **UpdateHeals**: an update with Init is not refused after whatever failed or
  died, when its commits are published and no repository is in one of the three states
  that nothing gets out of (section 5).
- **ImplementsAtomicClone, Ends**: the refinement above; every call ends.
- **TreeIsIndex**: the trees of a commit, read in their order, are the index in the
  order of git.
- **RevisionsAreVersions, MergeKeepsRevisions**: references; exact for rising dates
  without merges and without twins; of a merge, nothing of its sides is forgotten.
- **BlameIsHistorical**: without merges and twins Blame succeeds, the lines given to the
  first k revisions were in the k-th, in that order, and where versions only add lines
  they are all of it.

## 4. Proofs

`MergeBaseProofs` proves, for every finite or infinite set of commits and every
history that satisfies `HistoriesAssumption` (parents and dates are functions of
the right type; nothing about their order):

- `TypeCorrect`: `Spec => []TypeOK`;
- `ResultsAreCommonThm`: `Spec => []ResultsAreCommon`. The strengthening is
  `MarksTellTruth`: a commit that carries the first (second) parent mark is an
  ancestor of ours (theirs). The marks travel to parents only, and the ancestors
  of a commit are closed under parents; the results carry both marks.
- `MergeBasesExactThm`: `Spec => [](MergeBasesExact /\ BasesAreDistinct)`. With
  dates that follow the history the search visits children first, so when a
  commit is popped every child that can be visited has been, and its marks are
  complete. The invariant `DatedInv` says so: a popped commit is never queued
  again, the parents of popped commits are popped or queued with the marks they
  passed on, and nothing older than a queued commit was popped. Without it
  MergeBasesExact is not inductive, since the marks of a queued commit may be
  anything.

`Ancestors` in MergeBase is the smallest set closed under parents, and not a
recursion, so that the lemmas on it need no induction over data.

`LruProofs` proves, for every set of items, keys, sizes and bound, every way in which
hashes follow from contents, and every write to an object, cached or not:

- `HitsHaveTheirHashThm`: `Spec => []HitsHaveTheirHash`, and `ListMatchesMapThm`:
  `Spec => []ListMatchesMap`. Of the inductive invariant `Inv`, `KeepTheirs` says that the
  item of a key other than ZeroHash keeps that Hash for ever, wherever its element is:
  no call and no write changes a Hash once it is kept. It holds after eviction has
  missed an entry too. `Matches` says for as long as nothing was rekeyed that list and
  map agree, and `Injective` that no element is under two keys, so that an eviction
  takes both ends away;
- `EvictsOldestThm`: `Spec => EvictsOldest`. The strengthening is `Ordered`: the
  elements appear in the list in the order of their last use. MoveToFront takes one
  element out and puts it in front, where it is the latest; the loop of Put
  keeps a beginning of the list (`KeptIsLength`), whatever the sizes add up to.

`ObjectStoreProofs` proves, for every finite or infinite set of objects and every
way they name each other:

- `TypeCorrect`: `Spec => []TypeOK`;
- `NothingLostThm` and `StoredStaysThm`, both under the assumption `Limited` (Prune
  has an OnlyObjectsOlderThan), without which both are false. Walks are old when
  they are used, so the invariant says what has happened since: everything the
  reference reaches now and did not at the walk of Prune is young, and what Prune is
  about to delete was not seen and is old or stored again since (`PruneInv`); what was
  not reached at the walk of RepackObjects is loose and young, or in `raced`
  (`RepackInv`), and so is what a commit in the making adds, unless it is yet to be
  stored (`MakingInv`); and before an old pack is deleted the new one, which holds all
  that was seen, is there. `Reach` is the least closed set, like `Ancestors`. So Prune
  has one way only to take an object out of a commit in the making, the race, for all
  objects and changes, old objects that are stored again included.

`CloneProofs` proves `ImplementsAtomicCloneThm`: `Spec => ImplementsAtomicClone`, the
refinement, for every set of repositories and submodules however deep, every remote
and option, and any number of calls, failures and deaths; from `CloneAssumption`,
which says that the sets of names, commits and branches are apart, that the parent
of a repository is one, and that projects are closed: a project has the ancestors of
its commits, and the submodules a commit names are clones of the projects that have
the commits it names them at. The inductive invariant `Inv` has four parts:

- `Formed`: `repo` and `op` are records of the fields the actions update;
- `DirInv`: where there is a repository the directory is not empty;
- `HashInv`: what HEAD of the outermost repository is set to exists, and only
  submodules are checked out by commit, so that no step takes its HEAD away;
- `CallInv`: a clone into a repository gets no further than Init (so that its
  failure cleans up nothing); otherwise there is no repository before the last step
  of Init and always one after it, nothing is written before, and the cleanup is
  that of what was there; every other call runs where there is a repository.

Each action has a lemma: it keeps `Inv`, and it is a step of AtomicClone or changes
nothing that is shown (`Mapped`). The fairness of Clone is not needed.

The other theorems of `CloneProofs` have the same assumption and generality. Each
rests on the ones before it:

- `TypeOKThm`: `Spec => []TypeOK`. `TInv` says more: each repository has commits of its
  own project only, index and files are at commits it has (or none), what is detached is
  a commit of it, and the lists of submodules still to update have repositories that are
  not the outermost. A branch may be at what is no commit: a pull of a tag of a blob, into a
  repository without commits, sets it to that before Reset refuses;
- `CloneIsCompleteThm`: `Spec => []CloneIsComplete`. `TopInv` says how far the call has
  come in the outermost repository: the configuration from the fetch on, what the
  reference resolved to and the tracking branch after it, HEAD after the references, the
  index and the files after theirs; work on a submodule begins when all of that is done,
  and leaves it alone;
- `UpdateReachesThm`: `Spec => []UpdateReaches`, and the submodules of CloneIsComplete.
  `SubInv` says that there is a set of submodules that are done (`Settled`), closed under
  parents and each at the commit its parent's index names, such that a submodule of one
  of them that is not too deep is in the set, or waits on one of the lists, or is the one
  that is worked on. When nothing waits, what is wanted is in it. `Stacked` says
  that no submodule waits twice and that the levels left over on each list are right,
  whatever the order in which the submodules are taken. That the reset of one submodule
  creates repositories in it (Status asks for them) does no harm to the others (`Beside`);
- `UpdateHealsThm`: `Spec => []UpdateHeals`. `HealInv` keeps what Sound found when the
  update began: the submodules that it has not come to are as they were (`Untouched`),
  with their remotes and without changes, and the one worked on has only what the update
  itself did to it; so no step on the way can refuse. Sound has a condition that is easily
  missed: that .gitmodules in the files names no submodule the index has not, which
  a pull that dies between index and files may leave behind.

`MysqlStorageProofs` proves, for every set of clients, every workload
(`WorkloadsAssumption`: sets of paths and a number of calls, nothing about which), any
interleaving of the statements and a death after any of them:

- `TypesCorrect`: `Spec => []TypeOK`, with the fact that the frames of a client are of
  rows that were inserted;
- `LinkedToDirHolds` and `UnlinkedIsInProgressHolds`: `Spec => []LinkedToDir` and
  `Spec => []UnlinkedIsInProgress`, both of which begin with `Disciplined`. The
  inductive invariant `DInv` says of every row (`RowInv`) that it is linked to the
  directory of its path or to nothing; of every client where its frames are
  (`FramesInv`: each is the row of the path the frame below it wants), that a file
  it renames is nobody else's (`MovingInv`), and what the row it found last has to do
  with the path it is at (`PointInv`). `DirsStay` is what all statements respect: no
  directory goes or moves, so that an id read before is still the directory when it is
  written;
- `NothingDanglesHolds`: `Spec => []NothingDangles`. Under the discipline it follows
  from `DInv`. For a single client `LoneInv` says that parents are live directories,
  that what was read still holds, and that the row RemoveFile is about to delete has
  no children: as a file because parents are directories, as a directory because it
  asked. Nothing like it holds of two clients.

`MysqlFileProofs` proves, for every set of handles, paths and flags, and all contents,
offsets and sizes: `FileTypes`, `StoredAsWantedHolds` and `OnlyOwnRowHolds`. The
inductive invariant `FInv` is that a row has one name at most, that a second handle
excuses the row, and that a handle which may write has in its copy what the file
should hold, with its position at the end if it appends (`HandleInv`). What is stored
lags behind the copy between a truncation and the next Write; the lemmas on `WriteAt` and
`Resize` are about the lengths and bytes of sequences.

Of the caches `LruProofs` also proves `CacheTypes` and `NeverExceededThm`. `Sums` is
the function of the sums of the beginnings of a list. That it exists, and that the
sums of a list and of the same list with one element moved, added, taken out or of
another size differ by what they should, is shown by way of the smallest length at
which it would fail (`SmallestNat`), which stands for an induction.

`Diff3Proofs` proves, for every set of lines and texts of any length (`MaxLines` is any
number):

- `TypeOKThm`: `Spec => []TypeOK`. The positions stay in their files because
  the matches do;
- `DiffsAreShortestThm`: `Spec => []DiffsAreShortest`, about the differ. `Far` is
  how far a round comes on a diagonal, and `FarGrows` that the next round comes at least
  as far on the diagonals beside it. So a pairing of c equal lines among the first x
  and y lines brings round x + y - 2c to line x (`SearchReaches`, by the smallest x + y
  at which it would fail), and no pairing saves more edits than the search does. That
  Backtrack, which reads of each round only the diagonals the round did not write
  (`RoundKeeps`), finds the way back that the search came, with one edit for each round,
  is `StepBackFacts`; `IsScript` is what the script is on the way;
- `CleanMergesThm` and `EditsAreKeptThm`: `Spec => []CleanMerges` and
  `Spec => []EditsAreKept`. `Aligned` says that both pairings are largest, and that no
  pair crosses the position (`Cut`); a chunk ends at a pair, before or behind it, which
  cuts the pairing again. `Produced` is what the output has at that position. The
  step that needs the differ to be exact is the chunk that writeChunk takes from the
  other side because this one equals base in it: where blocks between two cuts
  are equal, a largest pairing pairs all of their lines, or pairing them one by one would
  make a larger one (`EqualBlock`), so that nothing inserted is lost with it. A differ
  that is only correct, and not minimal, would not do.

Each of these inductions over a text is done by way of the smallest place at which the
statement would fail (`SmallestIn`), and each recursive function is shown to exist by it.

`WorktreeMergeProofs` proves, for every set of paths, contents and branches, every
history that satisfies `HistoryAssumption` (parents come before children, a branch
is at a commit, a storage that is in memory does not outlive its process), any
number of merge bases at any depth, any sequence of calls, and a death after any write:

- `MergeTypes`: `Spec => []TypeOK`; with `OpKnown`, that whatever a call keeps for its
  next steps, frames of waiting merges included, names a stored commit;
- `ConflictsAreRecoverableHolds`: `Spec => []ConflictsAreRecoverable`. `StackInv` says
  that merges wait for virtual bases only before ORIG_HEAD is set, and only where there
  are several bases, `NoConflicts` that the index is clean from the checks of a commit,
  and from the reset of the index, on to where ORIG_HEAD is removed;
- `AbortReconstructsHolds`: `Spec => []AbortReconstructs`. `BeganInv`: without a
  checkout only the branch of HEAD moves, and ORIG_HEAD, when it is there, is where the
  merge began. `OursInv`: our stage of a conflict is what ORIG_HEAD's tree has, which is
  why resetIndex, which lets a conflict fall back to it, is exact. `AbortInv`: how far
  an abort has come, and that what is left of it, after a death, can be done again;
- `HardResetHolds`: `Spec => [](use.shared => HardResetReachesTree)`, from the same
  invariant. Over a copied index it is false (section 5), so that the hypothesis is
  needed: it is the storage in memory;
- `StagesReadableHolds`: `Spec => [](~use.dies /\ "pull" \notin use.ops =>
  StagesReadable)`. `StagesInv` has it of the stored index and of the one that
  compareCommitsChanges read before its loops, and that a path still to be compared is
  not in conflict, so that a merge that fails spoils no blob of one. A death and a pull
  lose the blobs, so these hypotheses are needed as well;
- `MergeIsThreeWayHolds`: `Spec => [](use.shared => MergeIsThreeWay)`. `ThreeInv`
  says of a merge in progress that its base is the only one, and of every path
  where it is between what it was and what the two sides make of it (`Untaken`,
  `Taken`); the loops take the paths in any order. Over a copied index MergeLostAdd is
  the counterexample.

The theorems that begin with a condition on `use` are about those repositories and
processes only; Init leaves `use` open and no step changes it.

Only model-checked, and why:

- Terminates and Ends: liveness and fairness are out of TLAPS' reach;
- History (TypeOK, TreeIsIndex, RevisionsAreVersions, MergeKeepsRevisions,
  BlameIsHistorical), whose sorts, walks and hunks are folds over sequences: the
  library's folds rest on an induction theorem that the provers at hand cannot
  instantiate;
- MergeIsThreeWay over a copied index in the histories where no added file is lost
  (one path, or one path that changes), and HardResetReachesTree without conflicts
  to reset: both depend on what the runs leave out.

## 5. Where the code and its documentation part

Two are runs that must fail:

- **MergeBaseSkew**. markCommit orders by author date (worktree_merge.go:1097) and
  a commit's marks are dropped when it is popped. Branches with a common commit are
  told "No common parent" (line 427).
- **MergeLostAdd**. compareCommitsChanges reads the index once (line 601) and
  addConflictFile stores that copy after Add has stored another: of two files both
  sides changed, the one merged automatically is not staged when the other is in
  conflict, and the merge commit has our version of it.

The models show others, in short histories that can be found again by stating
the property in brackets:

- Merge fast-forwards without a look at uncommitted changes (lines 83-91) and
  overwrites them, against ErrHasUncommittedFiles (line 31). [no Merge starts while
  hasUncommittedFiles]
- The same path does not look at MERGE_HEAD: a merge in progress, then a Merge of
  the current branch, resets the index; the next Commit has MERGE_HEAD for a parent
  and none of its changes (line 22). [a commit's second parent was joined into
  the index]
- Merging a branch that is behind makes a merge commit. [no parent of a commit
  is an ancestor of another]
- Over the storage in memory the index kept for the virtual base is the stored
  index; ours is lost in a criss-cross merge. MergeIsThreeWay excuses it.
- The conflict markers of a virtual base stay in files the merge does not report
  (comment at 481). [a file with markers is in conflict]
- The virtual base is staged before ORIG_HEAD is set: after a death there the
  index has conflicts and no merge to abort. ConflictsAreRecoverable is about
  single bases.
- After a criss-cross merge the worktree may keep the virtual base's file where the
  index has ours.
- mergeCommits returns the base of the two commits it merged, and createVirtualParent
  goes on from that (lines 492-505): with three merge bases what the first two were
  merged into is lost. MergeIsThreeWay excuses more than two.
- Of two merge bases that are unrelated (a criss-cross over two roots) computeParent
  finds no common parent, and Merge fails with "No common parent" (line 427) although
  the branches have two.
- PullContext has a value receiver (worktree.go:63): after a pull with conflicts
  ReadFileByStage finds nothing, unless an earlier merge has made the map of blobs,
  which the copy shares. MergeLife has no pulls. [StagesReadable with pulls]
- resetIndex compares the tree with an index in which the first stage stands for a
  path; over a storage that copies the index, `reset --hard` to the base of a
  modify/delete conflict leaves our file. HardResetReachesTree is checked with a
  shared index, or without resets during conflicts.
- AbortMerge resets the branch HEAD is on, also after a checkout (line 403).
  AbortReconstructs excuses a checkout between a merge and its abort.
- Commit moves HEAD before it removes ORIG_HEAD; a death in between, and one in the
  next merge before its ORIG_HEAD, let an abort go back one commit too far.
  AbortReconstructs excuses a merge that began with an ORIG_HEAD.
- Rename of a file to itself deletes it, and a failing UPDATE is shadowed, so Rename
  returns nil (storage.go:263, 296). Renaming a directory moves one level of its
  content only (storage.go:246). RemoveFile checks for children in a statement of its
  own (storage.go:339), and another client may create a file in between. RemoveFile asks
  this of directories only, and Rename links to the row at the Dir of its target without
  a look at its mode: a file renamed to below a file is its child, and a row without a
  parent once that is removed. [NothingDangles without the second part of Lone]
- O_TRUNC and Truncate change the handle's copy only (filesystem.go:410, 437); a
  Close or Read before the next Write undoes them. A negative Seek is accepted and
  the next Read or Write panics. An appending handle writes at its
  position; opened with O_TRUNC as well, that is the length the file had before.
- An object that grows while cached takes the cache over a maximum that "will never
  be exceeded" (object_lru.go:21).
- A MemoryObject that is put in the cache before it is filled is under ZeroHash, or the
  hash of an empty content; filled while it is cached and then evicted, it leaves its
  entry in the map, since eviction deletes the hash it has now (object_lru.go:73,
  memory.go:21-27). The entry is a leak: a Get of it moves nothing to the front and
  returns an object of that hash. [ListMatchesMap without `~rekeyed`]
- createNewObjectPack deletes "the packed, loose objects" (repository.go:1549) before
  the deferred Close of the pack; NothingLost excuses them as `exposed`. Prune without
  OnlyObjectsOlderThan deletes objects of a commit in the making.
- Prune "selects only objects older than the time provided" (prune.go:14), but asks for
  the age before it calls the handler (prune.go:59-64): an old object that nothing
  names, stored again by a commit between the two, is new and is deleted, and the
  reference then reaches what is not there. [StoredStays without `raced`]
- PlainClone into a directory that has other things in it goes ahead, where
  ErrRepositoryAlreadyExists is what its comment promises for one that is not empty
  (repository.go:340); after a failure nothing is cleaned up. PlainInit that
  fails leaves what it has written. AtomicClone allows both. [place is as before
  whenever outcome is not "ok"]
- A submodule whose process died between Init and CreateRemote has a HEAD and no
  remote: Repository opens it (submodule.go:132), and every later update fails with
  "remote not found". One that died between resetIndex and resetWorktree has
  unstaged changes and is refused as well; and so is an update of a worktree whose
  pull died there, when the new commit has one submodule less. UpdateHeals excuses
  them. [the same without `sound`]
- Pull moves the branch and then resets. When the reset fails, the next Pull finds
  the branch at the remote's commit and says NoErrAlreadyUpToDate, with the files of
  the old commit.
- references is said to go "from newer to older" (references.go:15-20); the result is
  sorted from older to newer (line 49), which Blame relies on.
- Over merges Blame gives lines to commits that never had them, since it compares
  revisions that are neighbours by date and not by history, and may fail with a
  number of lines that does not fit. On an empty file it panics (blame.go, newLines).
  RevisionsAreVersions and BlameIsHistorical are about histories without merges.
- Two edits in a row can have the same patch: the versions `z y y`, `x z y`, `x x z` both
  times insert x in front and drop the y at the end. removeComp takes the third for a
  copy of the second (references.go:164-183), so that Blame ends
  with a text that is not the file's: "each node (line) holds the commit where it was
  introduced or last modified" (blame.go:87-88) is then not so, and the number of lines
  may not fit. [BlameIsHistorical without `TwinFree`]
- Of a path that is a file and a directory at once BuildTree makes both entries:
  `entries` of buildTreeHelper is never written to.
- Two empty texts make the differ panic (myers_differer.go:52).

## 6. Plan and what is not modelled

Done: the merge-base search, the merge with deaths and virtual bases at any depth,
mysqlfs (tree and files), the caches, maintenance, each with the proofs of its safety
properties; the text merge; the clone with its refinement, submodules and pulls, with
the proofs of all but its liveness; trees, references and blame.

Worth doing next, in this order:

1. Of History what needs no induction over data: TypeOK, and BlameIsHistorical from an
   invariant of the origins.
2. An abstract file tree that MysqlStorage implements under the discipline.
3. An index in ObjectStore, for blobs that are staged and not committed.

Not modelled, and why:

- Grep, Log, ResolveRevision, Stat, ReadDir and Status of the outermost worktree:
  they change nothing, and iterate over structures that are not under src/.
- Clean: it deletes the untracked files one by one and keeps no state.
- DeleteRemote, DeleteBranch, CreateTag, DeleteTag, SetConfig: one read and one write
  of the configuration or of one reference each.
- Bare and shallow clones, NoFetch, an update to a given hash: they leave steps out.
- Failures of RemoveAll in the cleanup short of a death: PlainClone returns the error
  of the clone and drops that of the cleanup.
- Two processes in one clone: nothing keeps them apart, and the one that fails
  removes what the other has.
- Symlinks, modes, binary files, GPG signatures, the network, platform files, the
  wording of messages.
