------------------------- MODULE ObjectStoreProofs --------------------------
(***************************************************************************)
(* Proofs about maintenance, for every set of objects and every way they   *)
(* name each other: what the reference reaches survives a Prune that has   *)
(* an OnlyObjectsOlderThan, a RepackObjects and a commit, in any order, but  *)
(* for what is stored again between the look at its age and the handler.    *)
(***************************************************************************)
EXTENDS ObjectStore, TLAPS, SequenceTheorems

-----------------------------------------------------------------------------
(* Reachability *)

\* An object is reached from itself, and so is what it names.
LEMMA ReachFacts ==
    ASSUME NEW o \in Object
    PROVE  /\ Reach[o] \subseteq Object
           /\ o \in Reach[o]
           /\ Closed(Reach[o])
           /\ \A S \in SUBSET Object : o \in S /\ Closed(S) => Reach[o] \subseteq S
<1>1. Reach[o] = {x \in Object : \A S \in SUBSET Object : o \in S /\ Closed(S) => x \in S}
  BY DEF Reach
<1>2. Closed(Reach[o])
  <2> SUFFICES ASSUME NEW x \in Reach[o], NEW y \in Points[x]
               PROVE  y \in Reach[o]
    BY DEF Closed
  <2>1. x \in Object /\ y \in Object
    BY <1>1, ObjectsAssumption
  <2>2. ASSUME NEW S \in SUBSET Object, o \in S, Closed(S)
        PROVE  y \in S
    BY <2>2, <1>1 DEF Closed
  <2> QED BY <2>1, <2>2, <1>1
<1> QED BY <1>1, <1>2

\* What a parent reaches, the commit reaches.
LEMMA ReachOfParent ==
    ASSUME NEW c \in Object, NEW p \in Points[c]
    PROVE  Reach[p] \subseteq Reach[c]
<1>1. p \in Object
  BY ObjectsAssumption
<1>2. p \in Reach[c] /\ Reach[c] \in SUBSET Object /\ Closed(Reach[c])
  BY ReachFacts DEF Closed
<1> QED BY <1>1, <1>2, ReachFacts

-----------------------------------------------------------------------------
(* Types *)

LEMMA InitTypes == Init => TypeOK
<1> SUFFICES ASSUME Init PROVE TypeOK
  OBVIOUS
<1>1. Reach[First] \subseteq Object
  BY ObjectsAssumption, ReachFacts
<1>2. pruner = NotPruning /\ repacker = NotRepacking
  BY DEF Init
<1>3. writing \in Seq(Object)
  BY EmptySeq DEF Init
<1> QED BY <1>1, <1>2, <1>3, ObjectsAssumption DEF Init, TypeOK, NotPruning, NotRepacking

LEMMA StepTypes ==
    ASSUME TypeOK, [Next]_vars
    PROVE  TypeOK'
<1> USE DEF TypeOK
<1>0. Reach[ref] \subseteq Object
  BY ReachFacts
<1>1. ASSUME NEW change \in Changes, Begin(change)
      PROVE  TypeOK'
  <2>1. change \in Seq(Object) /\ change # <<>>
    BY ObjectsAssumption
  <2>2. Len(change) \in 1..Len(change)
    BY <2>1, LenProperties, EmptySeq
  <2>3. change[Len(change)] \in Object
    BY <2>1, <2>2, ElementOfSeq
  <2> QED BY <2>1, <2>3, <1>1 DEF Begin
<1>2. ASSUME Store
      PROVE  TypeOK'
  <2>1. Head(writing) \in Object /\ Tail(writing) \in Seq(Object)
    BY <1>2, HeadTailProperties DEF Store
  <2> QED BY <2>1, <1>2 DEF Store
<1>3. CASE UpdateRef
  BY <1>3 DEF UpdateRef
<1>4. CASE PruneWalk
  BY <1>4, <1>0 DEF PruneWalk
<1>5. CASE PruneEnd
  BY <1>5 DEF PruneEnd, NotPruning
<1>6. ASSUME NEW o \in Object, PruneCheck(o)
      PROVE  TypeOK'
  BY <1>6 DEF PruneCheck
<1>15. CASE PruneDelete
  BY <1>15 DEF PruneDelete, NotPruning
<1>16. CASE DeleteLooseFails
  BY <1>16 DEF DeleteLooseFails, NotRepacking
<1>7. ASSUME NEW o \in Object, DeleteLoose(o)
      PROVE  TypeOK'
  BY <1>7 DEF DeleteLoose
<1>8. CASE ListPacks
  BY <1>8 DEF ListPacks, NotRepacking
<1>9. CASE WalkAndEncode
  BY <1>9, <1>0 DEF WalkAndEncode, NotRepacking
<1>10. CASE ClosePack
  BY <1>10 DEF ClosePack
<1>11. CASE RepackEnd
  BY <1>11 DEF RepackEnd, NotRepacking
<1>12. CASE RepackDies
  BY <1>12 DEF RepackDies, NotRepacking
<1>13. ASSUME NEW p \in SUBSET Object, DeletePack(p)
       PROVE  TypeOK'
  BY <1>13 DEF DeletePack
<1>14. CASE UNCHANGED vars
  BY <1>14 DEF vars
<1> QED BY <1>1, <1>2, <1>3, <1>4, <1>5, <1>6, <1>7, <1>8, <1>9, <1>10, <1>11,
           <1>12, <1>13, <1>14, <1>15, <1>16 DEF Next

-----------------------------------------------------------------------------
(* The invariant *)

\* What the commit in the making adds to the reference is stored, loose and
\* young, or yet to be stored, or lost by the race; and that was stored as well.
MakingInv ==
    /\ Reach[ref] \subseteq Reach[commit]
    /\ Reach[commit] \subseteq Reach[ref] \cup (loose \cap young) \cup Pending \cup raced
    /\ raced \subseteq young

\* What the reference reaches now and did not when Prune walked is young.  What
\* the handler is about to delete was not seen, and is old or stored again.
PruneInv ==
    pruner.pc = "loose" =>
        /\ Reach[ref] \subseteq pruner.seen \cup young
        /\ pruner.doomed \cap pruner.seen = {}
        /\ pruner.doomed \cap young \subseteq raced

\* What the reference reaches now and did not when RepackObjects walked is loose
\* and young, or lost by the race; the rest is in the new pack before an old one
\* is deleted.
RepackInv ==
    /\ repacker.pc \in {"loose", "old"} =>
          /\ repacker.seen \subseteq Reach[ref]
          /\ Reach[ref] \subseteq repacker.seen \cup (loose \cap young) \cup raced
    /\ repacker.pc = "old" => repacker.seen \in packs \ repacker.old

\* NothingLost alone is not inductive: it does not say why an object that a walk
\* has missed is not deleted.
IInv == TypeOK /\ NothingLost /\ MakingInv /\ PruneInv /\ RepackInv

LEMMA InitEstablishes == Init => IInv
<1> SUFFICES ASSUME Init PROVE IInv
  OBVIOUS
<1>1. TypeOK
  BY InitTypes
<1>2. NothingLost
  BY DEF Init, NothingLost, Available
<1>3. MakingInv
  BY DEF Init, MakingInv
<1>4. PruneInv /\ RepackInv
  BY DEF Init, PruneInv, RepackInv, NotPruning, NotRepacking
<1> QED BY <1>1, <1>2, <1>3, <1>4 DEF IInv

\* A commit: none of its steps takes anything away.
LEMMA CommitKeeps ==
    ASSUME IInv, (\E change \in Changes : Begin(change)) \/ Store \/ UpdateRef
    PROVE  NothingLost' /\ MakingInv' /\ PruneInv' /\ RepackInv'
<1> USE DEF IInv
<1>1. ASSUME NEW change \in Changes, Begin(change)
      PROVE  NothingLost' /\ MakingInv' /\ PruneInv' /\ RepackInv'
  <2> DEFINE c == change[Len(change)]
  <2>1. change \in Seq(Object) /\ change # <<>>
    BY ObjectsAssumption
  <2>2. c \in Object
    BY <2>1, LenProperties, EmptySeq, ElementOfSeq
  <2>3. /\ ref \in Points[c]
        /\ Reach[c] \subseteq Reach[ref] \cup {change[i] : i \in 1..Len(change)}
        /\ writing' = change /\ commit' = c
        /\ UNCHANGED <<loose, packs, ref, young, pruner, repacker, exposed, raced>>
    BY <1>1 DEF Begin
  <2>4. Reach[ref] \subseteq Reach[c]
    BY <2>2, <2>3, ReachOfParent
  <2> HIDE DEF c
  <2>5. MakingInv'
    BY <2>3, <2>4 DEF MakingInv, Pending
  <2>6. NothingLost' /\ PruneInv' /\ RepackInv'
    BY <2>3 DEF NothingLost, Available, PruneInv, RepackInv
  <2> QED BY <2>5, <2>6
<1>2. ASSUME Store
      PROVE  NothingLost' /\ MakingInv' /\ PruneInv' /\ RepackInv'
  <2>1. /\ loose' = loose \cup {Head(writing)}
        /\ young' = young \cup {Head(writing)}
        /\ writing' = Tail(writing)
        /\ raced' = (raced \ {Head(writing)}) \cup ({Head(writing)} \cap pruner.doomed)
        /\ UNCHANGED <<packs, ref, commit, pruner, repacker, exposed>>
    BY <1>2 DEF Store
  <2>2. Pending \subseteq {Head(writing)} \cup Pending'
    <3>0. writing \in Seq(Object) /\ writing # <<>>
      BY <1>2 DEF Store, TypeOK
    <3> SUFFICES ASSUME NEW i \in 1..Len(writing), i # 1
                 PROVE  writing[i] \in {writing'[j] : j \in 1..Len(writing')}
      BY <3>0, HeadTailProperties DEF Pending
    <3>1. i - 1 \in 1..Len(writing') /\ writing'[i - 1] = writing[i]
      BY <3>0, <2>1, LenProperties
    <3> QED BY <3>1
  <2>3. MakingInv'
    BY <2>1, <2>2 DEF MakingInv
  <2>4. NothingLost' /\ PruneInv' /\ RepackInv'
    BY <2>1 DEF NothingLost, Available, PruneInv, RepackInv
  <2> QED BY <2>3, <2>4
<1>3. ASSUME UpdateRef
      PROVE  NothingLost' /\ MakingInv' /\ PruneInv' /\ RepackInv'
  <2>1. /\ writing = <<>> /\ ref' = commit
        /\ UNCHANGED <<loose, packs, young, writing, commit, pruner, repacker, exposed, raced>>
    BY <1>3 DEF UpdateRef
  <2>2. Pending = {}
    BY <2>1 DEF Pending
  <2>3. /\ Reach[ref] \subseteq Reach[ref']
        /\ Reach[ref'] \subseteq Reach[ref] \cup (loose \cap young) \cup raced
    BY <2>1, <2>2 DEF MakingInv
  <2>4. MakingInv'
    BY <2>1 DEF MakingInv
  <2>5. NothingLost'
    BY <2>1, <2>3 DEF NothingLost, Available
  <2>6. PruneInv' /\ RepackInv'
    BY <2>1, <2>3 DEF MakingInv, PruneInv, RepackInv
  <2> QED BY <2>4, <2>5, <2>6
<1> QED BY <1>1, <1>2, <1>3

\* Prune: what it deletes was not seen, and is not young but for the race.
LEMMA PruneKeeps ==
    ASSUME Limited, IInv,
           PruneWalk \/ PruneDelete \/ PruneEnd \/ \E o \in Object : PruneCheck(o)
    PROVE  NothingLost' /\ MakingInv' /\ PruneInv' /\ RepackInv'
<1> USE DEF IInv
<1>1. CASE PruneWalk
  <2>1. /\ pruner'.seen = Reach[ref] /\ pruner'.doomed = {}
        /\ UNCHANGED <<loose, packs, ref, young, writing, commit, repacker, exposed, raced>>
    BY <1>1 DEF PruneWalk
  <2> QED BY <2>1 DEF NothingLost, Available, MakingInv, Pending, PruneInv, RepackInv
<1>2. CASE PruneEnd
  <2>1. /\ pruner'.pc = "idle"
        /\ UNCHANGED <<loose, packs, ref, young, writing, commit, repacker, exposed, raced>>
    BY <1>2 DEF PruneEnd, NotPruning
  <2> QED BY <2>1 DEF NothingLost, Available, MakingInv, Pending, PruneInv, RepackInv
<1>3. ASSUME NEW o \in Object, PruneCheck(o)
      PROVE  NothingLost' /\ MakingInv' /\ PruneInv' /\ RepackInv'
  <2>1. /\ pruner.pc = "loose"
        /\ pruner'.pc = pruner.pc /\ pruner'.seen = pruner.seen
        /\ pruner'.doomed = {o} \ (pruner.seen \cup young)
        /\ UNCHANGED <<loose, packs, ref, young, writing, commit, repacker, exposed, raced>>
    BY <1>3 DEF PruneCheck, TypeOK
  <2>2. PruneInv'
    BY <2>1 DEF PruneInv
  <2> QED BY <2>1, <2>2 DEF NothingLost, Available, MakingInv, Pending, RepackInv
<1>4. CASE PruneDelete
  <2>1. /\ pruner.doomed # {} /\ loose' = loose \ pruner.doomed
        /\ UNCHANGED <<packs, ref, young, writing, commit, repacker, exposed, raced>>
        /\ \/ /\ pruner'.pc = pruner.pc /\ pruner'.seen = pruner.seen
              /\ pruner'.doomed = {}
           \/ pruner'.pc = "idle"
    BY <1>4 DEF PruneDelete, NotPruning, TypeOK
  <2>2. pruner.pc = "loose"
    BY <2>1 DEF TypeOK, NotPruning
  <2>3. \A x \in loose \ loose' : (x \in Reach[ref] \/ x \in young) => x \in raced
    BY <2>1, <2>2 DEF PruneInv
  <2>4. loose \cap young \subseteq (loose' \cap young) \cup raced
    BY <2>3
  <2>5. NothingLost'
    BY <2>1, <2>3 DEF NothingLost, Available
  <2>6. MakingInv'
    BY <2>1, <2>4 DEF MakingInv, Pending
  <2>7. PruneInv' /\ RepackInv'
    BY <2>1, <2>4 DEF PruneInv, RepackInv
  <2> QED BY <2>5, <2>6, <2>7
<1> QED BY <1>1, <1>2, <1>3, <1>4

\* RepackObjects: a loose object it deletes is seen, and was reached before the
\* commit in the making; an old pack goes when the new one holds all it needs.
LEMMA RepackKeeps ==
    ASSUME IInv,
           \/ ListPacks \/ WalkAndEncode \/ DeleteLooseFails \/ ClosePack \/ RepackEnd \/ RepackDies
           \/ \E o \in Object : DeleteLoose(o)
           \/ \E p \in SUBSET Object : DeletePack(p)
    PROVE  NothingLost' /\ MakingInv' /\ PruneInv' /\ RepackInv'
<1> USE DEF IInv
<1>1. CASE ListPacks \/ RepackEnd \/ RepackDies
  <2>1. /\ repacker'.pc \in {"idle", "walk"}
        /\ UNCHANGED <<loose, packs, ref, young, writing, commit, pruner, exposed, raced>>
    <3>1. NotRepacking.pc = "idle" /\ [NotRepacking EXCEPT !.pc = "walk", !.old = packs].pc = "walk"
      BY DEF NotRepacking
    <3>2. CASE ListPacks
      BY <3>1, <3>2 DEF ListPacks
    <3>3. CASE RepackEnd
      BY <3>1, <3>3 DEF RepackEnd
    <3>4. CASE RepackDies
      BY <3>1, <3>4 DEF RepackDies
    <3> QED BY <1>1, <3>2, <3>3, <3>4
  <2> QED BY <2>1 DEF NothingLost, Available, MakingInv, Pending, PruneInv, RepackInv
<1>2. CASE WalkAndEncode
  <2>1. UNCHANGED <<loose, packs, ref, young, writing, commit, pruner, exposed, raced>>
    BY <1>2 DEF WalkAndEncode
  <2>2. repacker'.pc = "idle" \/ (repacker'.pc = "loose" /\ repacker'.seen = Reach[ref])
    BY <1>2 DEF WalkAndEncode, NotRepacking, TypeOK
  <2>3. RepackInv'
    BY <2>1, <2>2 DEF RepackInv
  <2> QED BY <2>1, <2>3 DEF NothingLost, Available, MakingInv, Pending, PruneInv
<1>3. ASSUME NEW o \in Object, DeleteLoose(o)
      PROVE  NothingLost' /\ MakingInv' /\ PruneInv' /\ RepackInv'
  <2>1. /\ repacker.pc = "loose" /\ o \in loose \cap repacker.seen
        /\ loose' = loose \ {o}
        /\ repacker'.pc = repacker.pc /\ repacker'.seen = repacker.seen
        /\ exposed' = exposed \cup ({o} \ UNION packs)
        /\ UNCHANGED <<packs, ref, young, writing, commit, pruner, raced>>
    BY <1>3 DEF DeleteLoose, TypeOK
  <2>2. o \in Reach[ref]
    BY <2>1 DEF RepackInv
  <2>3. NothingLost'
    BY <2>1 DEF NothingLost, Available
  <2>4. MakingInv'
    BY <2>1, <2>2 DEF MakingInv, Pending
  <2>5. PruneInv' /\ RepackInv'
    BY <2>1 DEF PruneInv, RepackInv
  <2> QED BY <2>3, <2>4, <2>5
<1>4. CASE ClosePack
  <2>1. /\ repacker.pc = "loose" /\ packs' = packs \cup {repacker.seen}
        /\ repacker'.pc = "old" /\ repacker'.seen = repacker.seen
        /\ repacker'.old = repacker.old \ {repacker.seen}
        /\ exposed' = exposed \ repacker.seen
        /\ UNCHANGED <<loose, ref, young, writing, commit, pruner, raced>>
    BY <1>4 DEF ClosePack, TypeOK
  <2>2. UNION packs' = (UNION packs) \cup repacker.seen
    BY <2>1
  <2>3. NothingLost'
    BY <2>1, <2>2 DEF NothingLost, Available
  <2>4. MakingInv' /\ PruneInv'
    BY <2>1 DEF MakingInv, Pending, PruneInv
  <2>5. RepackInv'
    BY <2>1 DEF RepackInv
  <2> QED BY <2>3, <2>4, <2>5
<1>6. CASE DeleteLooseFails
  <2>1. /\ packs' = packs \cup {repacker.seen}
        /\ repacker'.pc = "idle"
        /\ exposed' = exposed \ repacker.seen
        /\ UNCHANGED <<loose, ref, young, writing, commit, pruner, raced>>
    BY <1>6 DEF DeleteLooseFails, NotRepacking
  <2>2. UNION packs' = (UNION packs) \cup repacker.seen
    BY <2>1
  <2>3. NothingLost'
    BY <2>1, <2>2 DEF NothingLost, Available
  <2>4. MakingInv' /\ PruneInv' /\ RepackInv'
    BY <2>1 DEF MakingInv, Pending, PruneInv, RepackInv
  <2> QED BY <2>3, <2>4
<1>5. ASSUME NEW p \in SUBSET Object, DeletePack(p)
      PROVE  NothingLost' /\ MakingInv' /\ PruneInv' /\ RepackInv'
  <2>1. /\ repacker.pc = "old" /\ p \in repacker.old
        /\ packs' \in {packs \ {p}, packs}
        /\ repacker'.pc = "old" /\ repacker'.seen = repacker.seen
        /\ repacker'.old = repacker.old \ {p}
        /\ UNCHANGED <<loose, ref, young, writing, commit, pruner, exposed, raced>>
    BY <1>5 DEF DeletePack, TypeOK
  <2>2. /\ repacker.seen \in packs \ repacker.old
        /\ repacker.seen \subseteq Reach[ref]
        /\ Reach[ref] \subseteq repacker.seen \cup (loose \cap young) \cup raced
    BY <2>1 DEF RepackInv
  <2>3. repacker.seen \in packs' \ repacker'.old
    BY <2>1, <2>2
  <2>4. NothingLost'
    BY <2>1, <2>2, <2>3 DEF NothingLost, Available
  <2>5. MakingInv' /\ PruneInv'
    BY <2>1 DEF MakingInv, Pending, PruneInv
  <2>6. RepackInv'
    BY <2>1, <2>2, <2>3 DEF RepackInv
  <2> QED BY <2>4, <2>5, <2>6
<1> QED BY <1>1, <1>2, <1>3, <1>4, <1>5, <1>6

LEMMA StepKeeps ==
    ASSUME Limited, IInv, [Next]_vars
    PROVE  IInv'
<1>1. TypeOK'
  BY StepTypes DEF IInv
<1>2. NothingLost' /\ MakingInv' /\ PruneInv' /\ RepackInv'
  <2>1. CASE UNCHANGED vars
    BY <2>1 DEF vars, IInv, NothingLost, Available, MakingInv, Pending, PruneInv, RepackInv
  <2>2. CASE Next
    BY <2>2, CommitKeeps, PruneKeeps, RepackKeeps DEF Next
  <2> QED BY <2>1, <2>2
<1> QED BY <1>1, <1>2 DEF IInv

-----------------------------------------------------------------------------
(* Theorems *)

\* The variables of maintenance keep their types; a Prune that has ended leaves
\* no walk behind.
THEOREM TypeCorrect == Spec => []TypeOK
<1> QED BY InitTypes, StepTypes, PTL DEF Spec

\* Prune with OnlyObjectsOlderThan, RepackObjects and a commit, in any order, with
\* the repack dying anywhere, lose nothing that the reference reaches, but for
\* what createNewObjectPack deletes before it closes its pack, and what is stored
\* again after Prune has found it old and before its handler deletes it.
THEOREM NothingLostThm ==
    ASSUME Limited
    PROVE  Spec => []NothingLost
<1>1. IInv => NothingLost
  BY DEF IInv
<1> QED BY <1>1, InitEstablishes, StepKeeps, PTL DEF Spec

\* But for that race they take nothing out of a commit that is being made: until
\* updateHEAD, all that it adds is in the storage or yet to be stored.
THEOREM StoredStaysThm ==
    ASSUME Limited
    PROVE  Spec => []StoredStays
<1>1. IInv => StoredStays
  BY DEF IInv, MakingInv, StoredStays, Available
<1> QED BY <1>1, InitEstablishes, StepKeeps, PTL DEF Spec

=============================================================================
