----------------------------- MODULE ObjectStore -----------------------------
(***************************************************************************)
(* The objects of a repository under maintenance: Prune (prune.go) and     *)
(* RepackObjects (repository.go) beside a process that commits.            *)
(*                                                                         *)
(* An object is loose or in packs; a pack is known by what it holds (its   *)
(* name is a hash of that).  The one reference stands for all of them: it  *)
(* is what walkAllRefs starts from.                                        *)
(***************************************************************************)
EXTENDS Naturals, Sequences, FiniteSets

CONSTANTS Object,
          Points,      \* [Object -> SUBSET Object]: what an object names
          First,       \* the commit the reference is on at first
          Packed,      \* the packs at first
          Garbage,     \* loose objects at first, besides those of First
          Changes,     \* what a process stores in one go: the new objects,
                       \* in their order, a commit last
          Limited,     \* Prune has an OnlyObjectsOlderThan
          MayDie       \* the process that repacks may die

ASSUME ObjectsAssumption ==
    /\ Points \in [Object -> SUBSET Object]
    /\ First \in Object
    /\ Packed \subseteq SUBSET Object
    /\ Garbage \subseteq Object
    /\ Changes \subseteq Seq(Object) \ {<<>>}
    /\ Limited \in BOOLEAN /\ MayDie \in BOOLEAN

VARIABLES loose,      \* the loose objects
          packs,      \* the packs
          ref,        \* the commit of the reference
          young,      \* the objects too new for OnlyObjectsOlderThan
          writing,    \* the process that commits: what it has yet to store
          commit,     \* and the commit it is about to make
          pruner,     \* the call of Prune
          repacker,   \* the call of RepackObjects
          exposed,    \* history variable: what createNewObjectPack has deleted
                      \* before its pack was there
          raced       \* history variable: what was stored again after Prune had
                      \* found it old and before its handler deleted it

vars == <<loose, packs, ref, young, writing, commit, pruner, repacker, exposed, raced>>

Closed(S) == \A x \in S : Points[x] \subseteq S

\* What an object names, directly or not, and the object itself.
Reach ==
    [o \in Object |->
        {x \in Object : \A S \in SUBSET Object : o \in S /\ Closed(S) => x \in S}]

Available == loose \cup UNION packs

NotPruning   == [pc |-> "idle", seen |-> {}, left |-> {}, doomed |-> {}]
NotRepacking == [pc |-> "idle", seen |-> {}, old |-> {}, left |-> {}]

TypeOK ==
    /\ loose \subseteq Object
    /\ packs \subseteq SUBSET Object
    /\ ref \in Object
    /\ young \subseteq Object
    /\ exposed \subseteq Object
    /\ raced \subseteq Object
    /\ writing \in Seq(Object)
    /\ commit \in Object
    /\ pruner \in [pc : {"idle", "loose"}, seen : SUBSET Object, left : SUBSET Object,
                    doomed : SUBSET Object]
    /\ pruner.pc = "idle" => pruner = NotPruning
    /\ repacker \in [pc : {"idle", "walk", "loose", "old"}, seen : SUBSET Object,
                      old : SUBSET SUBSET Object, left : SUBSET Object]

Init ==
    /\ packs = Packed
    /\ loose = Garbage \cup (Reach[First] \ UNION Packed)
    /\ ref = First
    /\ young = {}
    /\ writing = <<>>
    /\ commit = First
    /\ pruner = NotPruning
    /\ repacker = NotRepacking
    /\ exposed = {}
    /\ raced = {}

-----------------------------------------------------------------------------
(* A process that commits (Add, BuildTree, buildCommitObject, updateHEAD).  *)
(* It makes a commit on top of the one the reference is on, and stores      *)
(* every object that is not part of that one, also one that is there.       *)

Begin(change) ==
    /\ writing = <<>> /\ commit = ref
    /\ ref \in Points[change[Len(change)]]
    /\ Reach[change[Len(change)]] \subseteq Reach[ref] \cup {change[i] : i \in 1..Len(change)}
    /\ writing' = change
    /\ commit' = change[Len(change)]
    /\ UNCHANGED <<loose, packs, ref, young, pruner, repacker, exposed, raced>>

\* SetEncodedObject
Store ==
    /\ writing # <<>>
    /\ loose' = loose \cup {Head(writing)}
    /\ young' = young \cup {Head(writing)}
    /\ writing' = Tail(writing)
    /\ raced' = (raced \ {Head(writing)}) \cup ({Head(writing)} \cap pruner.doomed)
    /\ UNCHANGED <<packs, ref, commit, pruner, repacker, exposed>>

UpdateRef ==
    /\ writing = <<>> /\ commit # ref
    /\ ref' = commit
    /\ UNCHANGED <<loose, packs, young, writing, commit, pruner, repacker, exposed, raced>>

-----------------------------------------------------------------------------
(* Prune, with DeleteObject as its handler. *)

\* walkAllRefs; the walk fails on an object that is missing.
PruneWalk ==
    /\ pruner.pc = "idle"
    /\ Reach[ref] \subseteq Available
    /\ pruner' = [pc |-> "loose", seen |-> Reach[ref], left |-> loose, doomed |-> {}]
    /\ UNCHANGED <<loose, packs, ref, young, writing, commit, repacker, exposed, raced>>

\* Slip in PruneCheck: OnlyObjectsOlderThan is not looked at.
PruneCheckNoAge(o) ==
    /\ pruner.pc = "loose" /\ pruner.doomed = {}
    /\ o \in loose
    /\ pruner' = [pruner EXCEPT !.left = @ \ {o}, !.doomed = {o} \ pruner.seen]
    /\ UNCHANGED <<loose, packs, ref, young, writing, commit, repacker, exposed, raced>>

\* ForEachObjectHash comes to a loose object, maybe one stored after it began:
\* one that is unseen and old is left to the handler.
PruneCheck(o) ==
    /\ pruner.pc = "loose" /\ pruner.doomed = {}
    /\ o \in loose
    /\ pruner' = [pruner EXCEPT
            !.left = @ \ {o},
            !.doomed = {o} \ (pruner.seen \cup IF Limited THEN young ELSE {})]
    /\ UNCHANGED <<loose, packs, ref, young, writing, commit, repacker, exposed, raced>>

\* The handler deletes it, whatever has happened to it since; of an object that
\* is gone DeleteLooseObject is an error, which ends Prune.
PruneDelete ==
    /\ pruner.doomed # {}
    /\ loose' = loose \ pruner.doomed
    /\ pruner' = IF pruner.doomed \subseteq loose THEN [pruner EXCEPT !.doomed = {}] ELSE NotPruning
    /\ UNCHANGED <<packs, ref, young, writing, commit, repacker, exposed, raced>>

\* Slip in PruneEnd: the object walker is kept for the next call.
PruneKeepsWalker ==
    /\ pruner.pc = "loose" /\ pruner.doomed = {}
    /\ pruner.left \cap loose = {}
    /\ pruner' = [pruner EXCEPT !.pc = "idle"]
    /\ UNCHANGED <<loose, packs, ref, young, writing, commit, repacker, exposed, raced>>

\* ForEachObjectHash has come to every object that was there from the start.
PruneEnd ==
    /\ pruner.pc = "loose" /\ pruner.doomed = {}
    /\ pruner.left \cap loose = {}
    /\ pruner' = NotPruning
    /\ UNCHANGED <<loose, packs, ref, young, writing, commit, repacker, exposed, raced>>

-----------------------------------------------------------------------------
(* RepackObjects *)

ListPacks ==
    /\ repacker.pc = "idle"
    /\ repacker' = [NotRepacking EXCEPT !.pc = "walk", !.old = packs]
    /\ UNCHANGED <<loose, packs, ref, young, writing, commit, pruner, exposed, raced>>

\* createNewObjectPack: walkAllRefs and Encode read every object that the
\* reference reaches; the pack is not there before its writer is closed.
WalkAndEncode ==
    /\ repacker.pc = "walk"
    /\ repacker' = IF Reach[ref] \subseteq Available
                   THEN [repacker EXCEPT !.pc = "loose", !.seen = Reach[ref], !.left = loose]
                   ELSE NotRepacking
    /\ UNCHANGED <<loose, packs, ref, young, writing, commit, pruner, exposed, raced>>

\* createNewObjectPack: a loose object that was seen is deleted.
DeleteLoose(o) ==
    /\ repacker.pc = "loose"
    /\ o \in loose \cap repacker.seen
    /\ loose' = loose \ {o}
    /\ repacker' = [repacker EXCEPT !.left = @ \ {o}]
    /\ exposed' = exposed \cup ({o} \ UNION packs)
    /\ UNCHANGED <<packs, ref, young, writing, commit, pruner, raced>>

\* DeleteLooseObject is an error: the pack is closed, the old ones stay.
DeleteLooseFails ==
    /\ repacker.pc = "loose"
    /\ repacker.left \cap repacker.seen # {}
    /\ packs' = packs \cup {repacker.seen}
    /\ repacker' = NotRepacking
    /\ exposed' = exposed \ repacker.seen
    /\ UNCHANGED <<loose, ref, young, writing, commit, pruner, raced>>

\* Slip in ClosePack: the writer is left open.
CloseNothing ==
    /\ repacker.pc = "loose"
    /\ repacker.left \cap loose \cap repacker.seen = {}
    /\ repacker' = [repacker EXCEPT !.pc = "old", !.old = @ \ {repacker.seen}]
    /\ exposed' = exposed \ repacker.seen
    /\ UNCHANGED <<loose, packs, ref, young, writing, commit, pruner, raced>>

\* The deferred Close, when createNewObjectPack returns.
ClosePack ==
    /\ repacker.pc = "loose"
    /\ repacker.left \cap loose \cap repacker.seen = {}
    /\ packs' = packs \cup {repacker.seen}
    /\ repacker' = [repacker EXCEPT !.pc = "old", !.old = @ \ {repacker.seen}]
    /\ exposed' = exposed \ repacker.seen
    /\ UNCHANGED <<loose, ref, young, writing, commit, pruner, raced>>

\* DeleteOldObjectPackAndIndex keeps a pack that is not old enough.
DeletePack(p) ==
    /\ repacker.pc = "old"
    /\ p \in repacker.old
    /\ packs' \in {packs \ {p}, packs}
    /\ repacker' = [repacker EXCEPT !.old = @ \ {p}]
    /\ UNCHANGED <<loose, ref, young, writing, commit, pruner, exposed, raced>>

RepackEnd ==
    /\ repacker.pc = "old"
    /\ repacker.old = {}
    /\ repacker' = NotRepacking
    /\ UNCHANGED <<loose, packs, ref, young, writing, commit, pruner, exposed, raced>>

RepackDies ==
    /\ MayDie
    /\ repacker.pc # "idle"
    /\ repacker' = NotRepacking
    /\ UNCHANGED <<loose, packs, ref, young, writing, commit, pruner, exposed, raced>>

-----------------------------------------------------------------------------
Next ==
    \/ \E change \in Changes : Begin(change)
    \/ Store \/ UpdateRef
    \/ PruneWalk \/ PruneDelete \/ PruneEnd
    \/ \E o \in Object : PruneCheck(o) \/ DeleteLoose(o)
    \/ ListPacks \/ WalkAndEncode \/ DeleteLooseFails \/ ClosePack \/ RepackEnd \/ RepackDies
    \/ \E p \in SUBSET Object : DeletePack(p)

Spec == Init /\ [][Next]_vars

-----------------------------------------------------------------------------
(* Properties *)

\* Whatever Prune, RepackObjects and a commit do at the same time, and wherever
\* RepackObjects dies, all that the reference reaches is loose or in a pack; but
\* for what createNewObjectPack has deleted before it closed its pack, and for an
\* object stored again between Prune's look at its age and the handler.
NothingLost == Reach[ref] \subseteq Available \cup exposed \cup raced

\* What is yet to be stored for the commit in the making.
Pending == {writing[i] : i \in 1..Len(writing)}

\* Prune never takes an object out of a commit that is being made, except by
\* that race: all that is stored for it stays until the reference reaches it.
StoredStays ==
    commit # ref => Reach[commit] \ Reach[ref] \subseteq Available \cup Pending \cup raced

=============================================================================
