-------------------------------- MODULE Clone --------------------------------
(***************************************************************************)
(* PlainClone with its cleanup, Submodules.Update and Pull with submodules *)
(* (repository.go, submodule.go, worktree.go), run by one process over one *)
(* directory, of which any step may fail or be the last before a death.    *)
(*                                                                         *)
(* A repository is named by the path of submodule names that leads to it.  *)
(* The index and the files are those of a commit, whose identity the model *)
(* keeps; of a tree it keeps the submodules.  A repository's own commits   *)
(* and merges are the subject of WorktreeMerge.                            *)
(***************************************************************************)
EXTENDS Integers, Sequences, FiniteSets, SequencesExt

CONSTANTS Name,         \* the names of submodules
          Repo,         \* the repositories, sequences of names
          Commit,       \* the commits of all of them
          Submodules,   \* the submodules a commit's tree has, and their commits
          Behind,       \* a commit and its ancestors
          Project,      \* the commits of the project a repository is a clone of
          Branch,       \* the branches of the remote of the outermost repository
          Master,       \* plumbing.Master
          Blob,         \* the target of a tag that is not of a commit
          None,         \* no reference, no commit
          Remotes,      \* the remotes to start from
          Options,      \* the options of calls
          MaxCalls,     \* bound on the calls
          MaxFaults     \* bound on the failed steps and deaths

Top == <<>>
Ref == Branch \cup {"HEAD", "tag"}

(***************************************************************************)
(* The remote: the branch HEAD is on, the branches, a tag.                 *)
(***************************************************************************)
Remote == [head : Branch,
           at   : [Branch -> Project[Top] \cup {None}],
           tag  : Project[Top] \cup {Blob}]

(***************************************************************************)
(* CloneOptions, SubmoduleUpdateOptions and PullOptions: Options gives     *)
(* those of each call, of which it uses its own fields.                    *)
(***************************************************************************)
Option == [ref : Ref, single : BOOLEAN, noCheckout : BOOLEAN,
           init : BOOLEAN, recurse : Nat]

(***************************************************************************)
(* A project has the ancestors of its commits, and the submodules of a     *)
(* commit are clones of the projects that have the commits it names.       *)
(***************************************************************************)
ASSUME CloneAssumption ==
    /\ Top \in Repo
    /\ Repo \subseteq Seq(Name)
    /\ \A r \in Repo \ {Top} : Front(r) \in Repo
    /\ Master \in Branch
    /\ {None, Blob} \cap (Commit \cup Branch) = {}
    /\ Commit \cap Branch = {}
    /\ {"HEAD", "tag", "*"} \cap Branch = {}
    /\ \A r \in Repo : Project[r] \subseteq Commit
    /\ \A r \in Repo : \A c \in Project[r] :
        /\ c \in Behind[c]
        /\ Behind[c] \subseteq Project[r]
        /\ DOMAIN Submodules[c] \subseteq Name
        /\ \A n \in DOMAIN Submodules[c] :
            Append(r, n) \in Repo /\ Submodules[c][n] \in Project[Append(r, n)]
    /\ Remotes \subseteq Remote
    /\ {"clone", "update", "init", "pull"} \subseteq DOMAIN Options
    /\ \A call \in DOMAIN Options : Options[call] \subseteq Option
    /\ MaxCalls \in Nat /\ MaxFaults \in Nat

VARIABLES dir,      \* the directory apart from a repository in it
          repo,     \* the repositories in it
          refs,     \* the references and the configuration of the outermost
          remote,   \* the remote
          pushed,   \* the commits of submodules that are published
          op,       \* the call in progress
          last,     \* the last call that ended
          calls,    \* the calls left
          faults    \* the faults and deaths left

vars == <<dir, repo, refs, remote, pushed, op, last, calls, faults>>

(***************************************************************************)
(* HEAD is a branch (symbolic), a commit (detached) or not there; "origin" *)
(* says that the remote is configured, "subs" which submodules are.        *)
(***************************************************************************)
NoRepo == [head |-> None, origin |-> FALSE, objs |-> {},
           index |-> None, files |-> None, subs |-> {}]

NoRefs == [branch   |-> [b \in Branch |-> None],
           tracking |-> [b \in Branch \cup {"HEAD"} |-> None],
           spec     |-> {},
           upstream |-> {}]

NoOption == [ref |-> "HEAD", single |-> FALSE, noCheckout |-> FALSE,
             init |-> FALSE, recurse |-> 0]

Idle == [call    |-> "none",
         pc      |-> "idle",
         o       |-> NoOption,
         before  |-> "missing",  \* the directory when the call began
         cleanup |-> "none",     \* what a failure removes
         repo    |-> Top,        \* the repository the step is about
         hash    |-> None,       \* the commit to check out there
         left    |-> 0,          \* the levels of submodules left below it
         todo    |-> <<>>,       \* the lists of submodules being updated
         ref     |-> [name |-> "HEAD", hash |-> None],  \* what was asked for
         new     |-> FALSE,      \* the fetch brought something
         sound   |-> FALSE,      \* nothing stands in the way of an update
         result  |-> "none"]

SubmodulesOf(c) == IF c = None THEN <<>> ELSE Submodules[c]

HeadCommit(r) ==
    LET h == repo[r].head
    IN  IF h \notin Branch THEN h ELSE IF r = Top THEN refs.branch[h] ELSE None

Place == IF repo[Top].head # None THEN "repository" ELSE dir

(***************************************************************************)
(* Worktree.Submodules: the submodules .gitmodules names.                  *)
(***************************************************************************)
Listed(r) == {Append(r, n) : n \in DOMAIN SubmodulesOf(repo[r].files)}

(***************************************************************************)
(* Status asks every submodule that is initialized for its repository, and *)
(* so creates the ones that are not there.                                 *)
(***************************************************************************)
Asked(r) == {s \in Listed(r) : Last(s) \in repo[r].subs}
Created(r) == {s \in Asked(r) : repo[s].head = None}

(***************************************************************************)
(* The HEAD of a submodule counts as what is in the worktree there.        *)
(***************************************************************************)
Unstaged(r) ==
    \/ repo[r].files # repo[r].index
    \/ \E s \in Asked(r) :
        HeadCommit(s) \notin {None, SubmodulesOf(repo[r].index)[Last(s)]}

Init ==
    /\ dir \in {"missing", "empty", "other"}
    /\ repo = [r \in Repo |-> NoRepo]
    /\ refs = NoRefs
    /\ remote \in Remotes
    /\ pushed = {}
    /\ op = Idle
    /\ last = Idle
    /\ calls = MaxCalls
    /\ faults = MaxFaults

(***************************************************************************)
(* The end of a call.  A failed clone cleans up unless PlainInit failed.   *)
(***************************************************************************)
End(result) ==
    /\ op' = Idle
    /\ last' = [Idle EXCEPT !.call = op.call, !.o = op.o, !.ref = op.ref,
                            !.sound = op.sound, !.result = result]

InPlainInit == op.call = "clone" /\ op.repo = Top /\ op.pc \in {"storer", "init"}

Fail(result) ==
    IF op.call = "clone" /\ ~InPlainInit /\ op.cleanup # "none"
    THEN op' = [op EXCEPT !.pc = "cleanup", !.result = result] /\ UNCHANGED last
    ELSE End(result)

Goto(pc) == op' = [op EXCEPT !.pc = pc] /\ UNCHANGED last

Env == <<remote, pushed, calls, faults>>
Steady == UNCHANGED <<dir, repo, refs>>

-----------------------------------------------------------------------------
(***************************************************************************)
(* The calls.                                                              *)
(***************************************************************************)
Begin(call, record) ==
    /\ op.pc = "idle"
    /\ calls > 0
    /\ calls' = calls - 1
    /\ \E o \in Options[call] :
        op' = [record EXCEPT !.call = call, !.o = o, !.before = Place,
                             !.sound = o.init /\ @]
    /\ UNCHANGED <<dir, repo, refs, remote, pushed, last, faults>>

\* Slip: what is there is taken for an empty directory.
CleanupAlways == IF dir = "missing" THEN "all" ELSE "content"

CleanupNeeded ==
    CASE dir = "missing" -> "all"
      [] dir = "empty"   -> "content"
      [] OTHER           -> "none"

StartClone ==
    Begin("clone", [Idle EXCEPT !.pc = "storer", !.cleanup = CleanupNeeded])

Sound ==
    /\ UNION {Project[r] : r \in Repo \ {Top}} \subseteq pushed
    /\ \A r \in Listed(Top) : Last(r) \in DOMAIN SubmodulesOf(repo[Top].index)
    /\ \A r \in Repo \ {Top} :
        repo[r].head # None => repo[r].origin /\ ~Unstaged(r)

\* PlainOpen finds a repository where there is a HEAD.
StartUpdate ==
    /\ repo[Top].head # None
    /\ Begin("update", [Idle EXCEPT !.pc = "list", !.sound = Sound])

StartInit ==
    /\ repo[Top].head # None
    /\ Begin("init", [Idle EXCEPT !.pc = "list"])

StartPull ==
    /\ repo[Top].head # None
    /\ Begin("pull", [Idle EXCEPT !.pc = "fetch"])

-----------------------------------------------------------------------------
(***************************************************************************)
(* Init, CreateRemote and the fetch, of the outermost repository and of    *)
(* submodules.                                                             *)
(***************************************************************************)
At(pc) == op.pc = pc /\ UNCHANGED Env

InitStorer ==
    /\ At("storer")
    /\ dir' = "other"
    /\ Goto("init")
    /\ UNCHANGED <<repo, refs>>

InitHead ==
    /\ At("init")
    /\ IF repo[op.repo].head # None
       THEN Fail("refused") /\ UNCHANGED repo       \* ErrRepositoryAlreadyExists
       ELSE Goto("remote") /\ repo' = [repo EXCEPT ![op.repo].head = Master]
    /\ UNCHANGED <<dir, refs>>

\* Slip: only HEAD is fetched.
CloneRefSpecHeadOnly(o) ==
    IF o.ref = "tag" \/ o.single THEN {o.ref} ELSE {"*"}

CloneRefSpec(o) ==
    IF o.single /\ o.ref = "HEAD" THEN {"HEAD", Master}
    ELSE IF o.ref = "tag" \/ o.single THEN {o.ref} ELSE {"*"}

CreateRemote ==
    /\ At("remote")
    /\ IF repo[op.repo].origin
       THEN Fail("refused") /\ UNCHANGED <<repo, refs>>     \* ErrRemoteExists
       ELSE /\ Goto("fetch")
            /\ repo' = [repo EXCEPT ![op.repo].origin = TRUE]
            /\ refs' = IF op.repo = Top THEN [refs EXCEPT !.spec = CloneRefSpec(op.o)]
                                        ELSE refs
    /\ UNCHANGED dir

(***************************************************************************)
(* What the remote has for a reference, and what the fetch of a refspec    *)
(* matches.  A refspec of one reference has to match.                      *)
(***************************************************************************)
Heads == {b \in Branch : remote.at[b] # None}

Resolved(ref) ==
    CASE ref = "HEAD" -> [name |-> remote.head, hash |-> remote.at[remote.head]]
      [] ref = "tag"  -> [name |-> "tag", hash |-> remote.tag]
      [] OTHER        -> [name |-> ref, hash |-> remote.at[ref]]

Matched(spec) == IF "*" \in spec THEN Heads ELSE spec \cap (Heads \cup {"HEAD", "tag"})

Unmatched(spec) == spec \ (Matched(spec) \cup {"*"})

Tracking == [b \in DOMAIN refs.tracking |->
                IF b \in Matched(refs.spec) THEN Resolved(b).hash ELSE refs.tracking[b]]

Brought == UNION {Behind[c] : c \in {Resolved(b).hash : b \in Matched(refs.spec)} \cap Commit}

FetchObjects ==
    /\ op.repo = Top
    /\ repo[Top].origin
    /\ Unmatched(refs.spec) = {}
    /\ refs' = [refs EXCEPT !.tracking = Tracking]
    /\ repo' = [repo EXCEPT ![Top].objs = @ \cup Brought]

FetchTop ==
    LET asked == Resolved(op.o.ref)
    IN  /\ FetchObjects
        /\ asked.hash # None
        /\ op' = [op EXCEPT !.pc = IF op.call = "clone" THEN "refs" ELSE "decide",
                            !.ref = asked,
                            !.hash = asked.hash,
                            !.new = Tracking # refs.tracking]

\* What was asked for is looked up after the fetch, of which everything stays.
FetchUnresolved ==
    /\ FetchObjects
    /\ Resolved(op.o.ref).hash = None
    /\ Fail("refused")

FetchSubmodule ==
    /\ op.repo # Top
    /\ repo[op.repo].origin
    /\ repo' = [repo EXCEPT ![op.repo].objs = @ \cup (Project[op.repo] \cap pushed)]
    /\ op' = [op EXCEPT !.pc = "checkout"]
    /\ UNCHANGED refs

CannotFetch ==
    \/ ~repo[op.repo].origin
    \/ op.repo = Top /\ Unmatched(refs.spec) # {}

Fetch ==
    /\ At("fetch")
    /\ \/ (FetchTop \/ FetchSubmodule) /\ UNCHANGED last
       \/ FetchUnresolved
       \/ CannotFetch /\ Fail("refused") /\ UNCHANGED <<repo, refs>>
    /\ UNCHANGED dir

-----------------------------------------------------------------------------
(***************************************************************************)
(* The references of the clone and of the pull.                            *)
(***************************************************************************)
\* Slip: the target of a tag is not looked at.
IsAnything(hash) == TRUE

\* resolveToCommitHash
IsCommit(hash) == hash \in repo[Top].objs

UpdateReferences ==
    /\ At("refs")
    /\ LET name == op.ref.name
           hash == op.ref.hash
           next == IF op.o.noCheckout THEN "config" ELSE "reset"
       IN  \/ /\ name \in Branch
              /\ repo' = [repo EXCEPT ![Top].head = name]
              /\ refs' = [refs EXCEPT !.branch[name] = hash,
                                      !.tracking[name] =
                            IF @ = None /\ refs.spec \cap {name, "*"} # {} THEN hash ELSE @]
              /\ Goto(next)
           \/ /\ name \notin Branch /\ IsCommit(hash)
              /\ repo' = [repo EXCEPT ![Top].head = hash]
              /\ Goto(next)
              /\ UNCHANGED refs
           \/ /\ name \notin Branch /\ ~IsCommit(hash)
              /\ Fail("refused")                    \* ErrUnableToResolveCommit
              /\ UNCHANGED <<repo, refs>>
    /\ UNCHANGED dir

SetHead(hash) ==
    IF repo[op.repo].head \in Branch
    THEN refs' = [refs EXCEPT !.branch[repo[Top].head] = hash] /\ UNCHANGED repo
    ELSE repo' = [repo EXCEPT ![op.repo].head = hash] /\ UNCHANGED refs

(***************************************************************************)
(* PullContext: whether there is anything to do, the fast-forward and      *)
(* updateHEAD.  A merge that is not a fast-forward is WorktreeMerge's.     *)
(***************************************************************************)
FastForward ==
    \/ HeadCommit(Top) = None
    \/ op.hash \in repo[Top].objs /\ HeadCommit(Top) \in Behind[op.hash]

Decide ==
    /\ At("decide")
    /\ IF ~op.new /\ HeadCommit(Top) = op.hash
       THEN End("upToDate") /\ Steady
       ELSE IF FastForward
            THEN SetHead(op.hash) /\ Goto("reset") /\ UNCHANGED dir
            ELSE Fail("refused") /\ Steady

-----------------------------------------------------------------------------
(***************************************************************************)
(* Checkout and Reset(MergeReset), of the outermost repository and of      *)
(* submodules.                                                             *)
(***************************************************************************)
Checkout ==
    /\ At("checkout")
    /\ repo' = [repo EXCEPT ![op.repo].head = op.hash]
    /\ Goto("reset")
    /\ UNCHANGED <<dir, refs>>

CheckUnstaged ==
    /\ At("reset")
    /\ repo' = [r \in Repo |-> IF r \in Created(op.repo)
                               THEN [repo[r] EXCEPT !.head = Master, !.origin = TRUE]
                               ELSE repo[r]]
    /\ IF Unstaged(op.repo) THEN Fail("refused")    \* ErrUnstagedChanges
                            ELSE Goto("setHead")
    /\ UNCHANGED <<dir, refs>>

SetHeadCommit ==
    /\ At("setHead")
    /\ SetHead(op.hash)
    /\ IF op.hash \in repo[op.repo].objs THEN Goto("index")
                                         ELSE Fail("refused")
    /\ UNCHANGED dir

ResetIndex ==
    /\ At("index")
    /\ repo' = [repo EXCEPT ![op.repo].index = op.hash]
    /\ Goto("files")
    /\ UNCHANGED <<dir, refs>>

\* Slip: an off-by-one in the levels.
NextPcShallow ==
    IF op.repo # Top THEN IF op.left > 1 THEN "list" ELSE "next"
    ELSE IF op.o.recurse > 0 THEN "list"
    ELSE IF op.call = "clone" THEN "config" ELSE "end"

(***************************************************************************)
(* The levels of submodules that follow: all of the outermost repository's *)
(* when they are asked for, those below a submodule while levels are left. *)
(***************************************************************************)
NextPc ==
    IF op.repo # Top THEN IF op.left > 0 THEN "list" ELSE "next"
    ELSE IF op.o.recurse > 0 THEN "list"
    ELSE IF op.call = "clone" THEN "config" ELSE "end"

ResetFiles ==
    /\ At("files")
    /\ repo' = [repo EXCEPT ![op.repo].files = op.hash]
    /\ Goto(NextPc)
    /\ UNCHANGED <<dir, refs>>

-----------------------------------------------------------------------------
(***************************************************************************)
(* Submodules.Update, the lists of submodules innermost first.             *)
(***************************************************************************)
LevelsBelow == IF op.repo = Top THEN op.o.recurse ELSE op.left - 1

ListSubmodules ==
    /\ At("list")
    /\ op' = [op EXCEPT !.pc = "next",
                        !.todo = <<[of |-> Listed(op.repo), left |-> LevelsBelow]>> \o @]
    /\ UNCHANGED last
    /\ Steady

\* Slip: what is there is not looked for.
RepositoryPcAlwaysInit(r) == "init"

\* Submodule.Repository opens what is there.
RepositoryPc(r) == IF repo[r].head # None THEN "fetch" ELSE "init"

\* Slip: the submodule stays on the list.
WithoutNone(r) == op.todo

Without(r) == <<[Head(op.todo) EXCEPT !.of = @ \ {r}]>> \o Tail(op.todo)

\* A submodule that the index does not have is registered before that is found.
StartSubmodule(r) ==
    LET parent == Front(r)
        registered == Last(r) \in repo[parent].subs
        entries == SubmodulesOf(repo[parent].index)
    IN  IF ~registered /\ ~(op.o.init \/ op.call # "update")
        THEN Fail("refused") /\ UNCHANGED repo
        ELSE IF Last(r) \notin DOMAIN entries
        THEN /\ repo' = [repo EXCEPT ![parent].subs = @ \cup {Last(r)}]
             /\ Fail("refused")
        ELSE /\ repo' = [repo EXCEPT ![parent].subs = @ \cup {Last(r)}]
             /\ op' = [op EXCEPT !.pc = RepositoryPc(r),
                                 !.repo = r,
                                 !.hash = entries[Last(r)],
                                 !.left = Head(op.todo).left,
                                 !.todo = Without(r)]
             /\ UNCHANGED last

\* Submodules.Init
Register(r) ==
    IF Last(r) \in repo[Front(r)].subs
    THEN Fail("refused") /\ UNCHANGED repo          \* ErrSubmoduleAlreadyInitialized
    ELSE /\ repo' = [repo EXCEPT ![Front(r)].subs = @ \cup {Last(r)}]
         /\ op' = [op EXCEPT !.todo = Without(r)]
         /\ UNCHANGED last

NextSubmodule ==
    /\ At("next")
    /\ op.todo # <<>>
    /\ \/ /\ Head(op.todo).of = {}
          /\ op' = [op EXCEPT !.todo = Tail(@)]
          /\ UNCHANGED <<repo, last>>
       \/ \E r \in Head(op.todo).of :
            IF op.call = "init" THEN Register(r) ELSE StartSubmodule(r)
    /\ UNCHANGED <<dir, refs>>

SubmodulesDone ==
    /\ At("next")
    /\ op.todo = <<>>
    /\ IF op.call = "clone" THEN Goto("config") ELSE Goto("end")
    /\ Steady

-----------------------------------------------------------------------------
(***************************************************************************)
(* The end of a clone, its cleanup, and the end of the other calls.        *)
(***************************************************************************)
CreateBranch ==
    /\ At("config")
    /\ IF op.ref.name \in refs.upstream
       THEN Fail("refused") /\ UNCHANGED refs       \* ErrBranchExists
       ELSE /\ refs' = [refs EXCEPT !.upstream = @ \cup ({op.ref.name} \cap Branch)]
            /\ End("ok")
    /\ UNCHANGED <<dir, repo>>

CleanUp ==
    /\ At("cleanup")
    /\ dir' = IF op.cleanup = "all" THEN "missing" ELSE "empty"
    /\ repo' = [r \in Repo |-> NoRepo]
    /\ refs' = NoRefs
    /\ End(op.result)

Return ==
    /\ At("end")
    /\ End("ok")
    /\ Steady

Step ==
    \/ InitStorer \/ InitHead \/ CreateRemote \/ Fetch \/ UpdateReferences \/ Decide
    \/ Checkout \/ CheckUnstaged \/ SetHeadCommit \/ ResetIndex \/ ResetFiles
    \/ ListSubmodules \/ NextSubmodule \/ SubmodulesDone
    \/ CreateBranch \/ CleanUp \/ Return

-----------------------------------------------------------------------------
(***************************************************************************)
(* A step that fails, with an I/O or a network error; a death, which in    *)
(* the cleanup may find HEAD gone and the configuration still there.       *)
(***************************************************************************)
Mishap ==
    /\ op.pc # "idle"
    /\ faults > 0
    /\ faults' = faults - 1
    /\ UNCHANGED <<refs, remote, pushed, calls>>

StepFails ==
    /\ Mishap
    /\ op.pc \notin {"cleanup", "end"}
    /\ Fail(IF InPlainInit THEN "initFault" ELSE "fault")
    /\ UNCHANGED <<dir, repo>>

Die ==
    /\ Mishap
    /\ End("died")
    /\ \/ UNCHANGED repo
       \/ op.pc = "cleanup" /\ repo' = [repo EXCEPT ![Top].head = None]
    /\ UNCHANGED dir

(***************************************************************************)
(* The others: a branch of the remote moves on, the commits of a submodule *)
(* that its superproject refers to are pushed, before that or after it.    *)
(* A call reads the one in a single step, FetchTop, and the other when it  *)
(* fetches a submodule: to move in between at these points is enough.      *)
(***************************************************************************)
Publish ==
    /\ op.pc = "idle"
    /\ \E b \in Heads, c \in Project[Top] :
        /\ remote.at[b] \in Behind[c] \ {c}
        /\ remote' = [remote EXCEPT !.at[b] = c]
    /\ UNCHANGED <<dir, repo, refs, pushed, op, last, calls, faults>>

Push ==
    /\ op.pc \in {"idle", "next"}
    /\ \E r \in Repo \ {Top} :
        /\ ~(Project[r] \subseteq pushed)
        /\ pushed' = pushed \cup Project[r]
    /\ UNCHANGED <<dir, repo, refs, remote, op, last, calls, faults>>

Next ==
    \/ StartClone \/ StartUpdate \/ StartInit \/ StartPull
    \/ Step
    \/ StepFails \/ Die
    \/ Publish \/ Push

(***************************************************************************)
(* A call is a sequential program, and the transport ends with an answer   *)
(* or an error: the next step of a call is taken.                          *)
(***************************************************************************)
Spec == Init /\ [][Next]_vars /\ WF_vars(Step)
-----------------------------------------------------------------------------
(***************************************************************************)
(* Properties.                                                             *)
(***************************************************************************)
RepoRecord == [head : Branch \cup Commit \cup {None}, origin : BOOLEAN,
               objs : SUBSET Commit, index : Commit \cup {None},
               files : Commit \cup {None}, subs : SUBSET Name]

\* The types of the state.  A tag of something else than a commit never
\* becomes HEAD (resolveToCommitHash); the branch of a repository that has no
\* commits yet is set to it by a pull (updateHEAD), before Reset refuses.
TypeOK ==
    /\ dir \in {"missing", "empty", "other"}
    /\ repo \in [Repo -> RepoRecord]
    /\ refs.branch \in [Branch -> Commit \cup {None, Blob}]
    /\ refs.upstream \subseteq Branch
    /\ remote \in Remote
    /\ pushed \subseteq Commit
    /\ calls \in 0 .. MaxCalls /\ faults \in 0 .. MaxFaults
    /\ op.repo \in Repo
    /\ \A i \in 1 .. Len(op.todo) :
        op.todo[i].of \subseteq Repo /\ op.todo[i].left \in Nat

(***************************************************************************)
(* A submodule is wanted where .gitmodules and the index have it, and so   *)
(* with every repository it is in.  Those of the first levels are at the   *)
(* commit that the index of their parent names.                            *)
(***************************************************************************)
Has(parent, n) ==
    /\ Append(parent, n) \in Listed(parent)
    /\ n \in DOMAIN SubmodulesOf(repo[parent].index)

Wanted(r) == \A k \in 1 .. Len(r) : Has(SubSeq(r, 1, k - 1), r[k])

Expected(r) == SubmodulesOf(repo[Front(r)].index)[Last(r)]

IsAt(r, c) ==
    /\ repo[r].head = c
    /\ repo[r].index = c
    /\ repo[r].files = c
    /\ c \in repo[r].objs

SubmodulesAt(levels) ==
    \A r \in Repo \ {Top} : (Len(r) <= levels /\ Wanted(r)) => IsAt(r, Expected(r))

Ended(call, result) == op.pc = "idle" /\ last.call = call /\ last.result = result

\* A clone that reports success has HEAD on the reference that was asked for
\* with its objects there, the branch with its upstream and its remote-tracking
\* branch, the files, and the submodules as deep as was asked for
\* (Repository.clone).  A single-branch clone of HEAD fetches into the tracking
\* branch of master only, whatever branch HEAD is on.
CloneIsComplete ==
    Ended("clone", "ok") =>
        LET o == last.o
            name == last.ref.name
            hash == last.ref.hash
        IN  /\ repo[Top].head = IF name \in Branch THEN name ELSE hash
            /\ HeadCommit(Top) = hash
            /\ hash \in repo[Top].objs
            /\ repo[Top].origin
            /\ name \in Branch =>
                /\ refs.upstream = {name}
                /\ (o.single /\ o.ref = "HEAD" /\ name # Master)
                    \/ refs.tracking[name] = hash
            /\ ~o.noCheckout =>
                /\ repo[Top].index = hash
                /\ repo[Top].files = hash
                /\ o.recurse > 0 => SubmodulesAt(o.recurse + 1)

\* Submodules.Update and Pull that report success leave every submodule, as
\* deep as was asked for, at the commit its parent's commit names: HEAD, index,
\* files and objects; and Pull leaves the worktree at the remote's commit.
UpdateReaches ==
    /\ Ended("update", "ok") => SubmodulesAt(last.o.recurse + 1)
    /\ Ended("pull", "ok") =>
        /\ HeadCommit(Top) = last.ref.hash
        /\ repo[Top].files = last.ref.hash
        /\ last.o.recurse > 0 => SubmodulesAt(last.o.recurse + 1)

\* Whatever failed or died before, Submodules.Update with Init finishes the work
\* when the commits are published, .gitmodules names nothing the index has not,
\* and no submodule is left without its remote, or with files, or submodules of
\* its own, that are not as its index says (Submodule.Repository opens what is
\* there and creates what is not).
UpdateHeals ==
    (op.pc = "idle" /\ last.call = "update" /\ last.sound) =>
        last.result # "refused"

\* What the directory is for somebody who looks between the calls: a failed
\* clone is undone, a repository is never taken away (PlainCloneContext).
Shown == IF op.pc = "idle" THEN Place ELSE op.before

Atomic == INSTANCE AtomicClone WITH place <- Shown, outcome <- last.result

ImplementsAtomicClone == Atomic!Spec

\* A call comes to its end: the lists of submodules still to update become
\* empty (Submodules.UpdateContext, doRecursiveUpdate).
Ends == (op.pc # "idle") ~> (op.pc = "idle")

=============================================================================
