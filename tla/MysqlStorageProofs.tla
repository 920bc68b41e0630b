------------------------- MODULE MysqlStorageProofs -------------------------
(***************************************************************************)
(* Proofs about the table of mysqlfs, for every number of clients, every   *)
(* workload, and deaths between any two statements.                        *)
(***************************************************************************)
EXTENDS MysqlStorage, TLAPS, SequenceTheorems

-----------------------------------------------------------------------------
(* Paths and frames *)

\* filepath.Dir stays within the paths and shortens every path but the root.
LEMMA DirProps ==
    ASSUME NEW p \in Path
    PROVE  /\ Dir(p) \in Path
           /\ p # Root => /\ Len(p) \in Nat \ {0}
                          /\ Dir(p) = SubSeq(p, 1, Len(p) - 1)
                          /\ Len(Dir(p)) = Len(p) - 1
           /\ Dir(Root) = Root
<1>1. Dir(Root) = Root /\ Root \in Path
  BY EmptySeq DEF Dir, Root, Path
<1>2. CASE p = Root
  BY <1>1, <1>2
<1>3. CASE p # Root
  <2>1. Len(p) \in Nat \ {0} /\ Dir(p) = SubSeq(p, 1, Len(p) - 1)
    BY <1>3, EmptySeq DEF Dir, Root, Path
  <2>2. \A i \in 1 .. (Len(p) - 1) : p[i] \in STRING
    <3> SUFFICES ASSUME NEW i \in 1 .. (Len(p) - 1) PROVE p[i] \in STRING
      OBVIOUS
    <3>1. i \in 1 .. Len(p)
      BY <2>1
    <3> QED BY <3>1, ElementOfSeq DEF Path
  <2>3. /\ SubSeq(p, 1, Len(p) - 1) \in Seq(STRING)
        /\ Len(SubSeq(p, 1, Len(p) - 1)) =
             IF 1 <= Len(p) - 1 THEN (Len(p) - 1) - 1 + 1 ELSE 0
    <3>1. 1 \in Int /\ Len(p) - 1 \in Int
      BY <2>1
    <3> QED BY <3>1, <2>2, SubSeqProperties
  <2>4. Len(Dir(p)) = Len(p) - 1
    <3> DEFINE n == Len(p) - 1
    <3>1. n \in Nat
      BY <2>1
    <3>2. Len(Dir(p)) = IF 1 <= n THEN n - 1 + 1 ELSE 0
      BY <2>1, <2>3
    <3> HIDE DEF n
    <3>3. Len(Dir(p)) = n
      BY <3>1, <3>2
    <3> QED BY <3>3 DEF n
  <2> QED BY <1>1, <2>1, <2>3, <2>4 DEF Path
<1> QED BY <1>2, <1>3

\* What is above the Dir of a path is above the path.
LEMMA UpwardsProps ==
    ASSUME NEW p \in Path
    PROVE  /\ p \in Upwards(p)
           /\ Root \in Upwards(p)
           /\ \A q \in Upwards(p) : q \in Path /\ Dir(q) \in Upwards(p)
<1>1. Len(p) \in Nat /\ p \in Seq(STRING)
  BY LenProperties DEF Path
<1>2. p \in Upwards(p)
  BY <1>1, SubSeqFull DEF Upwards
<1>3. Root \in Upwards(p)
  <2>1. SubSeq(p, 1, 0) = <<>> /\ 0 \in 0 .. Len(p)
    BY <1>1, SubSeqEmpty
  <2> QED BY <2>1 DEF Upwards, Root
<1>4. ASSUME NEW n \in 0 .. Len(p)
      PROVE  /\ SubSeq(p, 1, n) \in Path
             /\ Dir(SubSeq(p, 1, n)) \in Upwards(p)
  <2> DEFINE q == SubSeq(p, 1, n)
  <2>1. \A i \in 1 .. n : p[i] \in STRING
    BY <1>1, ElementOfSeq
  <2>2. n \in Int /\ 1 \in Int
    BY <1>1
  <2>3. /\ q \in Path
        /\ Len(q) = IF 1 <= n THEN n - 1 + 1 ELSE 0
    BY <2>1, <2>2, SubSeqProperties DEF Path
  <2>4. CASE n = 0
    <3>1. q = Root
      BY <2>4, <1>1, SubSeqEmpty DEF Root
    <3> QED BY <3>1, <1>3, <2>3, DirProps
  <2>5. CASE n # 0
    <3>1. Len(q) = n /\ q # Root
      BY <2>3, <2>5, <1>1, EmptySeq DEF Root
    <3>2. Dir(q) = SubSeq(q, 1, n - 1)
      BY <3>1, <2>3, DirProps
    <3>3. SubSeq(q, 1, n - 1) = SubSeq(p, 1, n - 1)
      <4>1. CASE n = 1
        <5>1. SubSeq(q, 1, 0) = <<>> /\ SubSeq(p, 1, 0) = <<>>
          BY SubSeqEmpty
        <5> QED BY <4>1, <5>1
      <4>2. CASE n # 1
        <5>1. /\ 1 \in 1 .. Len(p) /\ n \in 1 .. Len(p)
              /\ 1 \in 1 .. (n - 1 + 1) /\ n - 1 \in 1 .. (n - 1 + 1)
              /\ 1 + 1 - 1 = 1 /\ 1 + (n - 1) - 1 = n - 1
          BY <4>2, <2>5, <1>1
        <5>2. SubSeq(SubSeq(p, 1, n), 1, n - 1) = SubSeq(p, 1 + 1 - 1, 1 + (n - 1) - 1)
          BY <5>1, <1>1, SubSeqOfSubSeq
        <5> QED BY <5>1, <5>2
      <4> QED BY <4>1, <4>2
    <3>4. n - 1 \in 0 .. Len(p)
      BY <2>5, <1>1
    <3> QED BY <3>2, <3>3, <3>4, <2>3 DEF Upwards
  <2> QED BY <2>4, <2>5
<1> QED BY <1>2, <1>3, <1>4 DEF Upwards

\* The frames of NewFile: the one on top, and those below it.
LEMMA PopProps ==
    ASSUME NEW frames \in Seq(Frame), frames # <<>>
    PROVE  /\ Len(frames) \in Nat \ {0}
           /\ Top(frames) \in Frame
           /\ Top(frames) = frames[Len(frames)]
           /\ Pop(frames) \in Seq(Frame)
           /\ Len(Pop(frames)) = Len(frames) - 1
           /\ \A k \in 1 .. Len(frames) - 1 : Pop(frames)[k] = frames[k]
           /\ Ids(frames) = Ids(Pop(frames)) \cup {Top(frames).id}
<1>1. Len(frames) \in Nat \ {0}
  BY EmptySeq
<1>2. \A k \in 1 .. Len(frames) : frames[k] \in Frame
  BY ElementOfSeq
<1>3. Top(frames) \in Frame /\ Top(frames) = frames[Len(frames)]
  BY <1>1, <1>2 DEF Top
<1>4. 1 \in Int /\ Len(frames) - 1 \in Int /\ \A k \in 1 .. Len(frames) - 1 : frames[k] \in Frame
  BY <1>1, <1>2
<1>5. /\ Pop(frames) \in Seq(Frame)
      /\ Len(Pop(frames)) = IF 1 <= Len(frames) - 1 THEN Len(frames) - 1 - 1 + 1 ELSE 0
      /\ \A k \in 1 .. (Len(frames) - 1 - 1 + 1) : Pop(frames)[k] = frames[1 + k - 1]
  BY <1>4, SubSeqProperties DEF Pop
<1>6. Len(Pop(frames)) = Len(frames) - 1
  <2> DEFINE n == Len(frames) - 1
  <2>1. n \in Nat
    BY <1>1
  <2>2. Len(Pop(frames)) = IF 1 <= n THEN n - 1 + 1 ELSE 0
    BY <1>5
  <2> HIDE DEF n
  <2>3. Len(Pop(frames)) = n
    BY <2>1, <2>2
  <2> QED BY <2>3 DEF n
<1>7. ASSUME NEW k \in 1 .. Len(frames) - 1
      PROVE  Pop(frames)[k] = frames[k]
  <2>1. k \in 1 .. (Len(frames) - 1 - 1 + 1) /\ 1 + k - 1 = k
    BY <1>1
  <2> QED BY <1>5, <2>1
<1>8. 1 .. Len(frames) = 1 .. (Len(frames) - 1) \cup {Len(frames)}
  BY <1>1
<1>9. Ids(frames) = Ids(Pop(frames)) \cup {Top(frames).id}
  BY <1>3, <1>6, <1>7, <1>8 DEF Ids
<1> QED BY <1>1, <1>3, <1>5, <1>6, <1>7, <1>9

\* NewFile puts a frame on top.
LEMMA PushProps ==
    ASSUME NEW frames \in Seq(Frame), NEW f \in Frame
    PROVE  /\ Append(frames, f) \in Seq(Frame)
           /\ Append(frames, f) # <<>>
           /\ Len(Append(frames, f)) = Len(frames) + 1
           /\ \A k \in 1 .. Len(frames) : Append(frames, f)[k] = frames[k]
           /\ Top(Append(frames, f)) = f
           /\ Append(frames, f)[Len(frames) + 1] = f
           /\ Ids(Append(frames, f)) = Ids(frames) \cup {f.id}
<1>1. /\ Append(frames, f) \in Seq(Frame)
      /\ Append(frames, f) # <<>>
      /\ Len(Append(frames, f)) = Len(frames) + 1
      /\ \A k \in 1 .. Len(frames) : Append(frames, f)[k] = frames[k]
      /\ Append(frames, f)[Len(frames) + 1] = f
  BY AppendProperties
<1>2. 1 .. (Len(frames) + 1) = 1 .. Len(frames) \cup {Len(frames) + 1}
  BY LenProperties
<1>3. Ids(Append(frames, f)) = Ids(frames) \cup {f.id}
  BY <1>1, <1>2 DEF Ids
<1> QED BY <1>1, <1>3 DEF Top

-----------------------------------------------------------------------------
(* The control flow of a client *)

\* A call that returns, or a process that dies, has no frames left.
LEMMA ReturnProps ==
    ASSUME NEW s \in ClientState, NEW ok \in BOOLEAN
    PROVE  /\ Return(s, ok) \in ClientState
           /\ Return(s, ok).pc = "idle"
           /\ Return(s, ok).frames = <<>>
           /\ Dead(s) \in ClientState
           /\ Dead(s).pc = "dead"
           /\ Dead(s).frames = <<>>
<1>1. <<>> \in Seq(Frame) /\ Root \in Path
  BY EmptySeq DEF Root, Path
<1>2. NoParent \in Nat /\ {} \in SUBSET Nat /\ "idle" \in PC /\ "dead" \in PC /\ "none" \in Op
  BY DEF NoParent, PC, Op
<1>3. Idle \in ClientState /\ Idle.frames = <<>> /\ Idle.pc = "idle"
  BY <1>1, <1>2 DEF Idle, ClientState
<1>4. s.op \in Op /\ s.src \in Nat /\ s.to \in Path
  BY DEF ClientState
<1>5. /\ Return(s, ok) \in ClientState
      /\ Return(s, ok).pc = Idle.pc
      /\ Return(s, ok).frames = Idle.frames
  BY <1>3, <1>4 DEF Return, ClientState
<1>6. /\ Dead(s) \in ClientState
      /\ Dead(s).pc = "dead"
      /\ Dead(s).frames = Idle.frames
  BY <1>2, <1>3 DEF Dead, ClientState
<1> QED BY <1>3, <1>5, <1>6

\* createParent has the File of the parent.
LEMMA ParentReadyProps ==
    ASSUME NEW s \in ClientState, NEW parent \in Nat
    PROVE  LET t == ParentReady(s, parent)
           IN  /\ t \in ClientState
               /\ t.op = s.op /\ t.frames = s.frames /\ t.src = s.src /\ t.to = s.to
               /\ t.id = parent
               /\ t.pc = IF s.frames = <<>> THEN "update" ELSE "link"
BY DEF ParentReady, ClientState, PC

\* createParent goes on with NewFile(Dir(path)).
LEMMA CreateParentProps ==
    ASSUME NEW s \in ClientState, NEW path \in Path
    PROVE  LET t == CreateParent(s, path)
           IN  /\ t \in ClientState
               /\ t.op = s.op /\ t.frames = s.frames /\ t.src = s.src /\ t.to = s.to
               /\ t.path = Dir(path)
               /\ t.pc = "lookup"
BY DirProps DEF CreateParent, ClientState, PC

\* NewFile returns: the call is over, or createParent one frame down goes on.
LEMMA CreatedProps ==
    ASSUME NEW s \in ClientState, NEW id \in Nat
    PROVE  LET t == Created(s, id)
           IN  /\ t \in ClientState
               /\ \/ s.frames = <<>> /\ s.op # "rename" /\ t.pc = "idle" /\ t.frames = <<>>
                  \/ /\ s.frames # <<>> \/ s.op = "rename"
                     /\ t.op = s.op /\ t.frames = s.frames /\ t.src = s.src /\ t.to = s.to
                     /\ t.id = id
                     /\ t.pc = IF s.frames = <<>> THEN "update" ELSE "link"
<1>1. TRUE \in BOOLEAN
  OBVIOUS
<1>2. CASE s.frames = <<>> /\ s.op # "rename"
  BY <1>1, <1>2, ReturnProps DEF Created
<1>3. CASE ~(s.frames = <<>> /\ s.op # "rename")
  <2>1. Created(s, id) = ParentReady(s, id)
    BY <1>3 DEF Created
  <2> QED BY <1>3, <2>1, ParentReadyProps
<1> QED BY <1>2, <1>3

\* The frame on top is done: its NewFile returns.
LEMMA PoppedProps ==
    ASSUME NEW s \in ClientState, s.frames # <<>>
    PROVE  LET r == [s EXCEPT !.frames = Pop(@)]
           IN  /\ r \in ClientState
               /\ r.op = s.op /\ r.frames = Pop(s.frames) /\ r.src = s.src /\ r.to = s.to
               /\ s.frames \in Seq(Frame)
               /\ Top(s.frames).id \in Nat
<1>1. s.frames \in Seq(Frame)
  BY DEF ClientState
<1>2. Pop(s.frames) \in Seq(Frame) /\ Top(s.frames) \in Frame
  BY <1>1, PopProps
<1> QED BY <1>1, <1>2 DEF ClientState, Frame

\* NewFile has inserted the row of a path and waits for the parent.
LEMMA PushedProps ==
    ASSUME NEW s \in ClientState, NEW f \in Frame
    PROVE  LET r == [s EXCEPT !.frames = Append(@, f)]
           IN  /\ r \in ClientState
               /\ r.op = s.op /\ r.frames = Append(s.frames, f) /\ r.src = s.src /\ r.to = s.to
               /\ s.frames \in Seq(Frame)
<1>1. s.frames \in Seq(Frame)
  BY DEF ClientState
<1>2. Append(s.frames, f) \in Seq(Frame)
  BY <1>1, PushProps
<1> QED BY <1>1, <1>2 DEF ClientState

\* RemoveFile returns: to Remove, or to Rename.
LEMMA RemovedProps ==
    ASSUME NEW s \in ClientState, NEW ok \in BOOLEAN
    PROVE  LET t == Removed(s, ok)
           IN  /\ t \in ClientState
               /\ \/ s.op # "rename" /\ t.pc = "idle" /\ t.frames = <<>>
                  \/ /\ s.op = "rename" /\ t.op = s.op /\ t.pc = "newparent"
                     /\ t.frames = s.frames /\ t.src = s.src /\ t.to = s.to
<1>1. CASE s.op # "rename"
  BY <1>1, ReturnProps DEF Removed
<1>2. CASE s.op = "rename"
  BY <1>2 DEF Removed, ClientState, PC
<1> QED BY <1>1, <1>2

-----------------------------------------------------------------------------
(* Types *)

(***************************************************************************)
(* TypeOK, and the frames are of rows that were inserted.                  *)
(***************************************************************************)
RowsTyped ==
    /\ DOMAIN rows \subseteq 1..(nextId - 1)
    /\ rows \in [DOMAIN rows -> Row]
    /\ nextId \in Nat \ {0}

Linking(s) == s.pc = "link" => s.frames # <<>>

TypeInv ==
    /\ RowsTyped
    /\ cl \in [Client -> ClientState]
    /\ calls \in 0..work.calls
    /\ work \in Workloads
    /\ orphaned \subseteq 1..(nextId - 1)
    /\ \A c \in Client : /\ Ids(cl[c].frames) \subseteq 1..(nextId - 1)
                         /\ Linking(cl[c])

\* The invariant that is proved contains the one that the run checks.
LEMMA TypeInvTypeOK == TypeInv => TypeOK
BY DEF TypeInv, RowsTyped, TypeOK

\* GetFileID answers with a row of that path, or with 0.
LEMMA IdAtProps ==
    ASSUME RowsTyped, NEW p
    PROVE  /\ IdAt(p) \in Nat
           /\ IdAt(p) = NoParent => At(p) = {}
           /\ IdAt(p) # NoParent => IdAt(p) \in DOMAIN rows /\ rows[IdAt(p)].path = p
           /\ IdAt(p) < nextId
<1>1. At(p) \subseteq 1..(nextId - 1) /\ NoParent \in Nat /\ NoParent < nextId
  BY DEF RowsTyped, At, NoParent
<1>2. CASE At(p) = {}
  BY <1>1, <1>2 DEF IdAt
<1>3. CASE At(p) # {}
  <2>1. IdAt(p) \in At(p)
    BY <1>3 DEF IdAt
  <2>2. IdAt(p) \in DOMAIN rows /\ rows[IdAt(p)].path = p
    BY <2>1 DEF At
  <2>3. IdAt(p) \in 1..(nextId - 1)
    BY <1>1, <2>1
  <2>4. IdAt(p) # NoParent
    BY <2>3 DEF NoParent
  <2> QED BY <2>2, <2>3, <2>4 DEF RowsTyped
<1> QED BY <1>2, <1>3

-----------------------------------------------------------------------------
(* The statements that write *)

\* INSERT adds one row, with the next id and without a parent.
LEMMA InsertProps ==
    ASSUME RowsTyped, NEW p \in Path, NEW d \in BOOLEAN, InsertRow(p, d)
    PROVE  /\ RowsTyped'
           /\ nextId' = nextId + 1
           /\ DOMAIN rows' = DOMAIN rows \cup {nextId}
           /\ nextId \notin DOMAIN rows
           /\ \A i \in DOMAIN rows : rows'[i] = rows[i]
           /\ rows'[nextId].path = p
           /\ rows'[nextId].parent = NoParent
           /\ rows'[nextId].dir = d
<1> DEFINE new == [path |-> p, parent |-> NoParent, dir |-> d]
<1>1. new \in Row
  BY DEF Row, NoParent
<1>2. /\ DOMAIN rows' = DOMAIN rows \cup {nextId}
      /\ \A i \in DOMAIN rows' : rows'[i] = IF i = nextId THEN new ELSE rows[i]
      /\ rows' = [i \in DOMAIN rows \cup {nextId} |-> IF i = nextId THEN new ELSE rows[i]]
      /\ nextId' = nextId + 1
  BY DEF InsertRow
<1>3. nextId \notin DOMAIN rows /\ nextId + 1 \in Nat \ {0}
      /\ DOMAIN rows \cup {nextId} \subseteq 1..(nextId + 1 - 1)
  BY DEF RowsTyped
<1>4. \A i \in DOMAIN rows : rows[i] \in Row
  BY DEF RowsTyped
<1> HIDE DEF new
<1>5. RowsTyped'
  BY <1>1, <1>2, <1>3, <1>4 DEF RowsTyped
<1> QED BY <1>2, <1>3, <1>5 DEF new

\* UPDATE changes the parent of one row, or of none.
LEMMA SetParentProps ==
    ASSUME RowsTyped, NEW j \in Nat, NEW q \in Nat, SetParent(j, q), nextId' = nextId
    PROVE  /\ RowsTyped'
           /\ DOMAIN rows' = DOMAIN rows
           /\ \A i \in DOMAIN rows : /\ i # j => rows'[i] = rows[i]
                                     /\ rows'[i].path = rows[i].path
                                     /\ rows'[i].dir = rows[i].dir
                                     /\ i = j => rows'[i].parent = q
<1>1. /\ rows' = [i \in DOMAIN rows |->
                    IF i = j THEN [rows[i] EXCEPT !.parent = q] ELSE rows[i]]
      /\ DOMAIN rows' = DOMAIN rows
  BY DEF SetParent
<1>2. \A i \in DOMAIN rows : rows[i] \in Row
  BY DEF RowsTyped
<1>3. \A i \in DOMAIN rows :
         /\ rows'[i] \in Row
         /\ i # j => rows'[i] = rows[i]
         /\ rows'[i].path = rows[i].path
         /\ rows'[i].dir = rows[i].dir
         /\ i = j => rows'[i].parent = q
  BY <1>1, <1>2 DEF Row
<1> QED BY <1>1, <1>3 DEF RowsTyped

\* UPDATE moves one row and links it, or none.
LEMMA SetPathAndParentProps ==
    ASSUME RowsTyped, NEW j \in Nat, NEW p \in Path, NEW q \in Nat,
           SetPathAndParent(j, p, q), nextId' = nextId
    PROVE  /\ RowsTyped'
           /\ DOMAIN rows' = DOMAIN rows
           /\ \A i \in DOMAIN rows : /\ i # j => rows'[i] = rows[i]
                                     /\ rows'[i].dir = rows[i].dir
                                     /\ i = j => rows'[i].path = p /\ rows'[i].parent = q
<1>1. /\ rows' = [i \in DOMAIN rows |->
                    IF i = j THEN [rows[i] EXCEPT !.path = p, !.parent = q] ELSE rows[i]]
      /\ DOMAIN rows' = DOMAIN rows
  BY DEF SetPathAndParent
<1>2. \A i \in DOMAIN rows : rows[i] \in Row
  BY DEF RowsTyped
<1>3. \A i \in DOMAIN rows :
         /\ rows'[i] \in Row
         /\ i # j => rows'[i] = rows[i]
         /\ rows'[i].dir = rows[i].dir
         /\ i = j => rows'[i].path = p /\ rows'[i].parent = q
  BY <1>1, <1>2 DEF Row
<1> QED BY <1>1, <1>3 DEF RowsTyped

\* DELETE removes one row, or none.
LEMMA DeleteProps ==
    ASSUME RowsTyped, NEW j, DeleteRow(j), nextId' = nextId
    PROVE  /\ RowsTyped'
           /\ DOMAIN rows' = DOMAIN rows \ {j}
           /\ \A i \in DOMAIN rows' : rows'[i] = rows[i]
BY DEF RowsTyped, DeleteRow

\* The transaction that renames a directory changes nothing but paths.
LEMMA MoveProps ==
    ASSUME RowsTyped, NEW s \in ClientState, nextId' = nextId,
           rows' = [i \in DOMAIN rows |-> [rows[i] EXCEPT !.path = NewPath(s, i)]]
    PROVE  /\ RowsTyped'
           /\ DOMAIN rows' = DOMAIN rows
           /\ \A i \in DOMAIN rows : /\ rows'[i].path = NewPath(s, i)
                                     /\ rows'[i].dir = rows[i].dir
                                     /\ rows'[i].parent = rows[i].parent
<1>1. \A i \in DOMAIN rows : rows[i] \in Row
  BY DEF RowsTyped
<1>2. s.to \in Path
  BY DEF ClientState
<1>3. ASSUME NEW p \in Path
      PROVE  Join(s.to, Base(p)) \in Path
  <2>1. CASE p = Root
    BY <2>1, <1>2 DEF Base, Join
  <2>2. CASE p # Root
    <3>1. Len(p) \in 1..Len(p)
      BY <2>2, EmptySeq DEF Path, Root
    <3>2. p[Len(p)] \in STRING
      BY <3>1, ElementOfSeq DEF Path
    <3>3. Append(s.to, p[Len(p)]) \in Path
      BY <3>2, <1>2, AppendProperties DEF Path
    <3> QED BY <2>2, <3>3, <1>2 DEF Base, Join
  <2> QED BY <2>1, <2>2
<1>4. \A i \in DOMAIN rows : NewPath(s, i) \in Path
  BY <1>1, <1>2, <1>3 DEF NewPath, Row
<1>5. \A i \in DOMAIN rows :
         /\ rows'[i] \in Row
         /\ rows'[i].path = NewPath(s, i)
         /\ rows'[i].dir = rows[i].dir
         /\ rows'[i].parent = rows[i].parent
  BY <1>1, <1>4 DEF Row
<1> QED BY <1>5 DEF RowsTyped

-----------------------------------------------------------------------------
(* TypeOK *)

\* A call outside NewFile has no frames.
LEMMA NoFrames == <<>> \in Seq(Frame) /\ Ids(<<>>) = {}
<1>1. <<>> \in Seq(Frame) /\ Len(<<>>) = 0
  BY EmptySeq
<1> QED BY <1>1 DEF Ids

\* Initially the table is empty and nobody calls anything.
LEMMA InitTypes == Init => TypeInv
<1> SUFFICES ASSUME Init PROVE TypeInv
  OBVIOUS
<1>1. Root \in Path /\ <<>> \in Seq(Row) /\ Len(<<>>) = 0
  BY EmptySeq DEF Root, Path
<1>2. Idle \in ClientState /\ Idle.frames = <<>> /\ Linking(Idle)
  BY <1>1, NoFrames DEF Idle, ClientState, NoParent, PC, Op, Linking
<1>3. DOMAIN rows = {} /\ rows \in [DOMAIN rows -> Row]
  <2>1. rows \in Seq(Row) /\ Len(rows) = 0
    BY <1>1 DEF Init
  <2>2. DOMAIN rows = 1..0 /\ rows \in [1..0 -> Row]
    BY <2>1, LenProperties
  <2> QED BY <2>2
<1>4. RowsTyped
  BY <1>3 DEF Init, RowsTyped
<1>5. work.calls \in Nat
  BY WorkloadsAssumption DEF Init
<1> QED BY <1>2, <1>4, <1>5, NoFrames DEF Init, TypeInv

\* A step changes what one client executes.
LEMMA GoProps ==
    ASSUME TypeInv, NEW c \in Client, NEW t, Go(c, t)
    PROVE  /\ cl[c] \in ClientState
           /\ cl'[c] = t
           /\ \A d \in Client \ {c} : cl'[d] = cl[d]
           /\ t \in ClientState => cl' \in [Client -> ClientState]
BY DEF TypeInv, Go

\* A statement that leaves the table alone and a client in one of its states.
LEMMA GoTypes ==
    ASSUME TypeInv, NEW c \in Client, NEW t \in ClientState, Go(c, t),
           RowsTyped', nextId \in 1..nextId', work' = work, calls' \in 0..work.calls,
           orphaned' \subseteq orphaned \cup Ids(cl[c].frames),
           Ids(t.frames) \subseteq 1..(nextId' - 1), Linking(t)
    PROVE  TypeInv'
<1>1. 1..(nextId - 1) \subseteq 1..(nextId' - 1)
  BY DEF TypeInv, RowsTyped
<1>2. orphaned' \subseteq 1..(nextId' - 1)
  BY <1>1 DEF TypeInv
<1>3. ASSUME NEW d \in Client
      PROVE  Ids(cl'[d].frames) \subseteq 1..(nextId' - 1) /\ Linking(cl'[d])
  <2>1. CASE d = c
    BY <2>1, GoProps
  <2>2. CASE d # c
    BY <2>2, <1>1, GoProps DEF TypeInv
  <2> QED BY <2>1, <2>2
<1> QED BY <1>2, <1>3, GoProps DEF TypeInv

\* A statement that only reads.
LEMMA ReadTypes ==
    ASSUME TypeInv, NEW c \in Client, NEW t \in ClientState, Go(c, t),
           UNCHANGED <<rows, nextId, work>>, calls' \in 0..work.calls,
           orphaned' \subseteq orphaned \cup Ids(cl[c].frames),
           Ids(t.frames) \subseteq Ids(cl[c].frames), Linking(t)
    PROVE  TypeInv'
<1>1. RowsTyped' /\ nextId \in 1..nextId' /\ Ids(t.frames) \subseteq 1..(nextId' - 1)
  BY DEF TypeInv, RowsTyped
<1> QED BY <1>1, GoTypes

\* The calls that filesystem.go starts.
LEMMA StartTypes ==
    ASSUME TypeInv, NEW c \in Client, work' = work,
           StartOpen(c) \/ StartMkdirAll(c) \/ StartRemove(c) \/ StartRename(c)
    PROVE  TypeInv'
<1>0. /\ work.creates[c] \subseteq Path /\ work.mkdirs[c] \subseteq Path
      /\ work.removes[c] \subseteq Path /\ work.renames[c] \subseteq Path \X Path
      /\ work.calls \in Nat
  BY WorkloadsAssumption DEF TypeInv
<1>1. Root \in Path
  BY EmptySeq DEF Root, Path
<1>2. ASSUME NEW t \in ClientState, t.frames = <<>>, Linking(t), Start(c, t)
      PROVE  TypeInv'
  <2>1. calls' \in 0..work.calls /\ orphaned' = orphaned /\ Ids(t.frames) = {}
    BY <1>0, <1>2, NoFrames DEF Start, TypeInv
  <2> QED BY <1>2, <2>1, ReadTypes DEF Start
<1>3. ASSUME NEW p \in Path, NEW q \in Path
      PROVE  LET t == [Idle EXCEPT !.op = "rename", !.pc = "source", !.path = p, !.to = q]
             IN  t \in ClientState /\ t.frames = <<>> /\ Linking(t)
  BY <1>1, NoFrames DEF Idle, ClientState, NoParent, PC, Op, Linking
<1>4. ASSUME NEW op \in Op, NEW pc \in PC \ {"link"}, NEW p \in Path
      PROVE  LET t == [Idle EXCEPT !.op = op, !.pc = pc, !.path = p]
             IN  t \in ClientState /\ t.frames = <<>> /\ Linking(t)
  BY <1>1, NoFrames DEF Idle, ClientState, NoParent, PC, Op, Linking
<1>5. CASE StartOpen(c)
  BY <1>5, <1>0, <1>2, <1>4 DEF StartOpen, Op, PC
<1>6. CASE StartMkdirAll(c)
  BY <1>6, <1>0, <1>2, <1>4 DEF StartMkdirAll, Op, PC
<1>7. CASE StartRemove(c)
  BY <1>7, <1>0, <1>2, <1>4 DEF StartRemove, Op, PC
<1>8. CASE StartRename(c)
  <2>1. PICK r \in work.renames[c] :
           Start(c, [Idle EXCEPT !.op = "rename", !.pc = "source", !.path = r[1], !.to = r[2]])
    BY <1>8 DEF StartRename
  <2>2. r[1] \in Path /\ r[2] \in Path
    BY <1>0
  <2> DEFINE t == [Idle EXCEPT !.op = "rename", !.pc = "source", !.path = r[1], !.to = r[2]]
  <2>3. t \in ClientState /\ t.frames = <<>> /\ Linking(t)
    BY <2>2, <1>3
  <2>4. Start(c, t)
    BY <2>1
  <2> HIDE DEF t
  <2> QED BY <2>3, <2>4, <1>2
<1> QED BY <1>5, <1>6, <1>7, <1>8

\* What a step of client c does with its state s when it only reads.
LEMMA ReadStepTypes ==
    ASSUME TypeInv, NEW c \in Client, work' = work,
           Open(c) \/ Lookup(c) \/ Relookup(c) \/ Find(c) \/ Children(c)
             \/ Source(c) \/ Kids(c) \/ NewParent(c) \/ Die(c)
    PROVE  TypeInv'
<1> DEFINE s == cl[c]
           i == IdAt(s.path)
<1>0. s \in ClientState /\ calls \in 0..work.calls /\ RowsTyped /\ Ids(<<>>) \subseteq Ids(s.frames)
  BY NoFrames DEF TypeInv
<1> DEFINE Keeps(t) == t \in ClientState /\ Ids(t.frames) \subseteq Ids(s.frames) /\ Linking(t)
<1>1. ASSUME NEW ok \in BOOLEAN
      PROVE  Keeps(Return(s, ok)) /\ Keeps(Dead(s))
  BY <1>0, ReturnProps, NoFrames DEF Linking
<1>2. ASSUME NEW pc \in PC \ {"link"} PROVE Keeps([s EXCEPT !.pc = pc])
  BY <1>0 DEF ClientState, Linking
<1>3. i \in Nat /\ i < nextId /\ (i # NoParent => i \in DOMAIN rows)
  BY <1>0, IdAtProps
<1>4. \A j \in DOMAIN rows : rows[j].dir \in BOOLEAN
  BY <1>0 DEF RowsTyped, Row
<1>5. ASSUME NEW t, Keeps(t), Go(c, t), UNCHANGED <<rows, nextId, calls>>,
             orphaned' \subseteq orphaned \cup Ids(s.frames)
      PROVE  TypeInv'
  BY <1>0, <1>5, ReadTypes
<1> HIDE DEF Keeps, Linking
<1>6. CASE Open(c)
  <2>1. PICK t : Go(c, t) /\ (t = [s EXCEPT !.pc = "lookup"]
                               \/ (i # NoParent /\ t = Return(s, ~rows[i].dir)))
    BY <1>6 DEF Open
  <2>2. Keeps(t)
    BY <2>1, <1>1, <1>2, <1>3, <1>4 DEF PC
  <2> QED BY <2>1, <2>2, <1>5, <1>6 DEF Open
<1>7. CASE Lookup(c)
  <2>1. PICK t : Go(c, t) /\ (\/ t = [s EXCEPT !.pc = "insert"]
                              \/ t = [s EXCEPT !.pc = "relookup"]
                              \/ t = Return(s, TRUE) \/ t = Return(s, FALSE) \/ t = Dead(s))
    BY <1>7 DEF Lookup, Finish
  <2>2. Keeps(t)
    BY <2>1, <1>1, <1>2 DEF PC
  <2>3. orphaned' \subseteq orphaned \cup Ids(s.frames)
    BY <1>7 DEF Lookup, Finish
  <2> QED BY <2>1, <2>2, <2>3, <1>5, <1>7 DEF Lookup
<1>8. CASE Relookup(c)
  <2>1. CASE i # NoParent \/ s.frames = <<>>
    <3>1. Go(c, ParentReady(s, i))
      BY <1>8, <2>1 DEF Relookup
    <3>2. Keeps(ParentReady(s, i))
      BY <1>0, <1>3, ParentReadyProps, SMTT(30) DEF Keeps, Linking
    <3> QED BY <3>1, <3>2, <2>1, <1>5, <1>8 DEF Relookup
  <2>2. CASE i = NoParent /\ s.frames # <<>>
    <3> DEFINE r == [s EXCEPT !.frames = Pop(@)]
               id == Top(s.frames).id
    <3>1. /\ r \in ClientState /\ r.frames = Pop(s.frames)
          /\ s.frames \in Seq(Frame) /\ id \in Nat
      BY <2>2, <1>0, PoppedProps
    <3>2. Ids(s.frames) = Ids(Pop(s.frames)) \cup {id}
      BY <3>1, <2>2, PopProps
    <3>3. Go(c, Created(r, id)) /\ orphaned' = orphaned \cup {id}
      BY <1>8, <2>2 DEF Relookup
    <3> HIDE DEF r, id
    <3>4. Created(r, id) \in ClientState
          /\ (Created(r, id).frames = <<>> \/ Created(r, id).frames = r.frames)
          /\ Linking(Created(r, id))
      BY <3>1, CreatedProps DEF Linking
    <3>5. Keeps(Created(r, id))
      BY <3>1, <3>2, <3>4, <1>0 DEF Keeps
    <3> QED BY <3>2, <3>3, <3>5, <1>5, <1>8 DEF Relookup
  <2> QED BY <2>1, <2>2
<1>9. CASE Find(c)
  <2>1. Keeps(Removed(s, FALSE))
    BY <1>0, RemovedProps DEF Keeps, Linking
  <2>2. i # NoParent => Keeps([s EXCEPT !.pc = "children", !.id = i, !.isDir = rows[i].dir])
    BY <1>0, <1>3, <1>4 DEF Keeps, Linking, ClientState, PC
  <2> QED BY <2>1, <2>2, <1>5, <1>9 DEF Find
<1>10. CASE Children(c)
  <2>1. Keeps(Removed(s, FALSE))
    BY <1>0, RemovedProps DEF Keeps, Linking
  <2> QED BY <2>1, <1>2, <1>5, <1>10 DEF Children, PC
<1>11. CASE Source(c)
  <2>1. Keeps([s EXCEPT !.pc = "kids", !.src = i])
    BY <1>0, <1>3 DEF Keeps, Linking, ClientState, PC
  <2>2. Keeps([s EXCEPT !.pc = "find", !.src = i, !.path = s.to])
    BY <1>0, <1>3 DEF Keeps, Linking, ClientState, PC
  <2> QED BY <2>1, <2>2, <1>1, <1>5, <1>11 DEF Source
<1>12. CASE Kids(c)
  <2>1. ChildrenOf(s.src) \subseteq Nat
    BY <1>0 DEF ChildrenOf, RowsTyped
  <2>2. Keeps([s EXCEPT !.pc = "move", !.kids = ChildrenOf(s.src)])
    BY <2>1, <1>0 DEF Keeps, Linking, ClientState, PC
  <2> QED BY <2>2, <1>5, <1>12 DEF Kids
<1>13. CASE NewParent(c)
  <2> DEFINE j == IdAt(Dir(s.to))
  <2>1. j \in Nat /\ NoParent \in Nat /\ s.to \in Path
    BY <1>0, IdAtProps DEF NoParent, ClientState
  <2>2. Keeps([s EXCEPT !.pc = "update", !.id = j, !.loud = TRUE])
    BY <2>1, <1>0 DEF Keeps, Linking, ClientState, PC
  <2>3. ASSUME NEW n \in Nat PROVE Keeps(ParentReady(s, n))
    BY <1>0, ParentReadyProps DEF Keeps, Linking
  <2>4. Keeps(CreateParent(s, s.to))
    BY <2>1, <1>0, CreateParentProps DEF Keeps, Linking
  <2> QED BY <2>1, <2>2, <2>3, <2>4, <1>5, <1>13 DEF NewParent
<1>14. CASE Die(c)
  BY <1>14, <1>1, <1>5 DEF Die, Finish
<1> QED BY <1>6, <1>7, <1>8, <1>9, <1>10, <1>11, <1>12, <1>13, <1>14

\* INSERT, and the frame of NewFile that waits for the parent.
LEMMA InsertTypes ==
    ASSUME TypeInv, NEW c \in Client, work' = work, Insert(c)
    PROVE  TypeInv'
<1> DEFINE s == cl[c]
           f == [id |-> nextId, path |-> s.path]
           r == [s EXCEPT !.frames = Append(@, f)]
           d == s.op # "open" \/ s.frames # <<>>
<1>0. /\ s \in ClientState /\ s.path \in Path /\ nextId \in Nat \ {0} /\ RowsTyped
      /\ calls' \in 0..work.calls /\ Ids(s.frames) \subseteq 1..(nextId - 1)
  BY DEF TypeInv, RowsTyped, ClientState, Insert
<1>1. CASE At(s.path) # {}
  <2>1. Go(c, Return(s, FALSE)) /\ orphaned' = orphaned \cup Ids(s.frames)
        /\ UNCHANGED <<rows, nextId>>
    BY <1>1 DEF Insert, Finish
  <2>2. Return(s, FALSE) \in ClientState /\ Ids(Return(s, FALSE).frames) = {}
        /\ Linking(Return(s, FALSE))
    BY <1>0, ReturnProps, NoFrames DEF Linking
  <2> QED BY <2>1, <2>2, <1>0, ReadTypes
<1>2. CASE At(s.path) = {}
  <2>1. /\ InsertRow(s.path, d)
        /\ Go(c, IF Dir(s.path) = Root THEN Created(s, nextId) ELSE CreateParent(r, s.path))
        /\ orphaned' = orphaned
    BY <1>2 DEF Insert
  <2>2. d \in BOOLEAN
    OBVIOUS
  <2> HIDE DEF d
  <2>3. RowsTyped' /\ nextId' = nextId + 1
    BY <2>1, <2>2, <1>0, InsertProps
  <2>4. /\ Created(s, nextId) \in ClientState
        /\ Created(s, nextId).frames \in {<<>>, s.frames}
        /\ Linking(Created(s, nextId))
    BY <1>0, CreatedProps DEF Linking
  <2>5. f \in Frame /\ s.frames \in Seq(Frame) /\ f.id = nextId
    BY <1>0 DEF Frame, ClientState
  <2>6. /\ r \in ClientState /\ r.frames = Append(s.frames, f)
        /\ Ids(r.frames) = Ids(s.frames) \cup {nextId}
    BY <2>5, <1>0, PushedProps, PushProps
  <2> HIDE DEF r, f
  <2>7. CreateParent(r, s.path) \in ClientState /\ CreateParent(r, s.path).frames = r.frames
        /\ Linking(CreateParent(r, s.path))
    BY <2>6, <1>0, CreateParentProps DEF Linking
  <2>8. 1..(nextId - 1) \cup {nextId} \subseteq 1..(nextId' - 1) /\ nextId \in 1..nextId'
    BY <2>3, <1>0
  <2>9. CASE Dir(s.path) = Root
    <3>1. Ids(Created(s, nextId).frames) \subseteq 1..(nextId' - 1)
      BY <2>4, <2>8, <1>0, NoFrames
    <3> QED BY <3>1, <2>1, <2>3, <2>4, <2>8, <2>9, <1>0, GoTypes
  <2>10. CASE Dir(s.path) # Root
    <3>1. Ids(CreateParent(r, s.path).frames) \subseteq 1..(nextId' - 1)
      BY <2>6, <2>7, <2>8, <1>0
    <3> QED BY <3>1, <2>1, <2>3, <2>7, <2>8, <2>10, <1>0, GoTypes
  <2> QED BY <2>9, <2>10
<1> QED BY <1>1, <1>2

\* The UPDATEs and the DELETE.
LEMMA WriteStepTypes ==
    ASSUME TypeInv, NEW c \in Client, work' = work,
           Link(c) \/ Delete(c) \/ Move(c) \/ Update(c)
    PROVE  TypeInv'
<1> DEFINE s == cl[c]
<1>0. /\ s \in ClientState /\ nextId \in Nat \ {0} /\ RowsTyped
      /\ Ids(s.frames) \subseteq 1..(nextId - 1)
      /\ s.src \in Nat /\ s.id \in Nat /\ s.to \in Path
  BY DEF TypeInv, RowsTyped, ClientState
<1>1. ASSUME NEW t \in ClientState, Go(c, t), RowsTyped', UNCHANGED <<nextId, calls, orphaned>>,
             t.frames = <<>> \/ Ids(t.frames) \subseteq Ids(s.frames), Linking(t)
      PROVE  TypeInv'
  <2>1. Ids(t.frames) \subseteq 1..(nextId - 1) /\ nextId \in 1..nextId'
    BY <1>0, <1>1, NoFrames
  <2> QED BY <2>1, <1>0, <1>1, GoTypes DEF TypeInv
<1>2. CASE Link(c)
  <2> DEFINE r == [s EXCEPT !.frames = Pop(@)]
             id == Top(s.frames).id
  <2>1. s.frames # <<>>
    BY <1>2 DEF Link, TypeInv, Linking
  <2>2. TypeInv'
    <3>1. /\ r \in ClientState /\ r.frames = Pop(s.frames)
          /\ s.frames \in Seq(Frame) /\ id \in Nat
      BY <2>1, <1>0, PoppedProps
    <3>2. Ids(s.frames) = Ids(Pop(s.frames)) \cup {id}
      BY <3>1, <2>1, PopProps
    <3>3. Go(c, Created(r, id)) /\ SetParent(id, s.id) /\ UNCHANGED <<nextId, calls, orphaned>>
      BY <1>2 DEF Link
    <3> HIDE DEF r, id
    <3>4. Created(r, id) \in ClientState
          /\ (Created(r, id).frames = <<>> \/ Created(r, id).frames = r.frames)
          /\ Linking(Created(r, id))
      BY <3>1, CreatedProps DEF Linking
    <3>5. RowsTyped'
      BY <3>1, <3>3, <1>0, SetParentProps
    <3> QED BY <3>1, <3>2, <3>3, <3>4, <3>5, <1>1
  <2> QED BY <2>2
<1>3. CASE Delete(c)
  <2>1. DeleteRow(s.id) /\ Go(c, Removed(s, TRUE)) /\ UNCHANGED <<nextId, calls, orphaned>>
    BY <1>3 DEF Delete
  <2>2. RowsTyped'
    BY <2>1, <1>0, DeleteProps
  <2>3. Removed(s, TRUE) \in ClientState
        /\ (Removed(s, TRUE).frames = <<>> \/ Removed(s, TRUE).frames = s.frames)
        /\ Linking(Removed(s, TRUE))
    BY <1>0, RemovedProps DEF Linking
  <2> QED BY <2>1, <2>2, <2>3, <1>1
<1>4. CASE Move(c)
  <2>1. Return(s, TRUE) \in ClientState /\ Return(s, TRUE).frames = <<>>
        /\ Dead(s) \in ClientState /\ Dead(s).frames = <<>>
        /\ Linking(Return(s, TRUE)) /\ Linking(Dead(s))
    BY <1>0, ReturnProps DEF Linking
  <2>2. CASE Collides(s)
    <3>1. Go(c, Dead(s)) /\ UNCHANGED <<rows, nextId, calls, orphaned>>
      BY <2>2, <1>4 DEF Move
    <3> QED BY <3>1, <2>1, <1>0, <1>1 DEF RowsTyped
  <2>3. CASE ~Collides(s)
    <3>1. /\ rows' = [i \in DOMAIN rows |-> [rows[i] EXCEPT !.path = NewPath(s, i)]]
          /\ Go(c, Return(s, TRUE)) /\ UNCHANGED <<nextId, calls, orphaned>>
      BY <2>3, <1>4 DEF Move
    <3>2. RowsTyped'
      BY <3>1, <1>0, MoveProps
    <3> QED BY <3>1, <3>2, <2>1, <1>1
  <2> QED BY <2>2, <2>3
<1>5. CASE Update(c)
  <2> DEFINE dup == Duplicate(s.src, s.to)
             ok == ~dup \/ ~s.loud
  <2>1. Go(c, Return(s, ok)) /\ UNCHANGED <<nextId, calls, orphaned>>
        /\ (rows' = rows \/ SetPathAndParent(s.src, s.to, s.id))
    BY <1>5 DEF Update
  <2>2. ok \in BOOLEAN
    OBVIOUS
  <2> HIDE DEF ok
  <2>3. Return(s, ok) \in ClientState /\ Return(s, ok).frames = <<>> /\ Linking(Return(s, ok))
    BY <2>2, <1>0, ReturnProps DEF Linking
  <2>4. CASE rows' = rows
    BY <2>1, <2>3, <2>4, <1>0, <1>1 DEF RowsTyped
  <2>5. CASE SetPathAndParent(s.src, s.to, s.id)
    <3>1. RowsTyped'
      BY <2>1, <2>5, <1>0, SetPathAndParentProps
    <3> QED BY <3>1, <2>1, <2>3, <1>1
  <2> QED BY <2>1, <2>4, <2>5
<1> QED BY <1>2, <1>3, <1>4, <1>5

\* Every statement of every client keeps the types.
LEMMA StepTypes == TypeInv /\ [Next]_vars => TypeInv'
<1> SUFFICES ASSUME TypeInv, [Next]_vars PROVE TypeInv'
  OBVIOUS
<1>1. ASSUME NEW c \in Client, Step(c), work' = work
      PROVE  TypeInv'
  BY <1>1, StartTypes, ReadStepTypes, InsertTypes, WriteStepTypes DEF Step
<1>2. CASE UNCHANGED vars
  BY <1>2 DEF vars, TypeInv, RowsTyped
<1> QED BY <1>1, <1>2 DEF Next

\* The types hold in every state.
LEMMA TypesHold == Spec => []TypeInv
BY InitTypes, StepTypes, PTL DEF Spec

\* The table holds rows of its columns with ids that were given out, and every
\* client a state of the statements of its calls.
THEOREM TypesCorrect == Spec => []TypeOK
BY TypesHold, TypeInvTypeOK, PTL

-----------------------------------------------------------------------------
(***************************************************************************)
(* The invariant of clients that keep to the discipline.                   *)
(***************************************************************************)

\* Row i is a directory, at path p.
DirAt(i, p) == i \in DOMAIN rows /\ rows[i].dir /\ rows[i].path = p

\* A path tells whether its row is a directory, and the parent is the directory
\* above.
RowInv(i) ==
    /\ rows[i].path \in Files \cup Dirs
    /\ rows[i].dir <=> rows[i].path \in Dirs
    /\ rows[i].parent # NoParent => DirAt(rows[i].parent, Dir(rows[i].path))

RowsInv == \A i \in DOMAIN rows : RowInv(i)

\* NewFile is called for p with n frames below: by OpenFile, MkdirAll or
\* Rename, or by createParent for the path of the frame on top.
Wanted(c, n, p) ==
    IF n = 0
    THEN /\ cl[c].op \in {"open", "mkdir", "rename"}
         /\ cl[c].op = "open" => p \in work.creates[c]
         /\ cl[c].op = "mkdir" => p \in Dirs
         /\ cl[c].op = "rename" => p = Dir(cl[c].to)
    ELSE p = Dir(cl[c].frames[n].path)

\* A frame is of the row that was inserted for what was wanted.  Directories
\* stay; a file may have been removed, but has not been moved.
FrameInv(c, k) ==
    LET f == cl[c].frames[k]
    IN  /\ Wanted(c, k - 1, f.path)
        /\ f.path \in Files \cup Dirs
        /\ Dir(f.path) # Root
        /\ f.path \in Dirs => DirAt(f.id, f.path)
        /\ f.id \in DOMAIN rows => rows[f.id].path = f.path

FramesInv(c) == \A k \in 1..Len(cl[c].frames) : FrameInv(c, k)

\* A rename that has read its source moves a file, and nobody waits to link it.
Moving(c) == cl[c].op = "rename" /\ cl[c].pc \notin {"idle", "source", "dead"}

MovingInv(c) ==
    Moving(c) =>
        /\ cl[c].to \in Files \ {Root}
        /\ cl[c].src < nextId
        /\ cl[c].src \in DOMAIN rows => ~rows[cl[c].src].dir
        /\ \A d \in Client : cl[c].src \notin Ids(cl[d].frames)

\* What each statement works on.
PointInv(c) ==
    LET s == cl[c]
        n == Len(s.frames)
    IN  /\ s.pc \notin {"kids", "move"}
        /\ s.pc \notin {"lookup", "insert", "relookup", "link"} => s.frames = <<>>
        /\ s.pc = "open" => s.op = "open" /\ s.path \in work.creates[c]
        /\ s.pc \in {"lookup", "insert", "relookup"} => Wanted(c, n, s.path)
        /\ s.pc = "relookup" =>
              (s.frames # <<>> \/ s.op = "rename") /\ \E i \in DOMAIN rows : DirAt(i, s.path)
        /\ s.pc = "link" => DirAt(s.id, Dir(s.frames[n].path))
        /\ s.pc \in {"find", "children", "delete"} => s.op \in {"remove", "rename"}
        /\ s.pc = "find" => s.path \in Files
        /\ s.pc \in {"children", "delete"} =>
              s.id < nextId /\ (s.id \in DOMAIN rows => ~rows[s.id].dir)
        /\ s.pc = "source" => s.op = "rename" /\ <<s.path, s.to>> \in work.renames[c]
        /\ s.pc \in {"newparent", "update"} => s.op = "rename"
        /\ s.pc = "update" =>
              (s.id = NoParent /\ Dir(s.to) = Root) \/ DirAt(s.id, Dir(s.to))

ClientInv(c) == FramesInv(c) /\ MovingInv(c) /\ PointInv(c)

UnlinkedInv ==
    \A i \in DOMAIN rows :
        rows[i].parent = NoParent /\ Dir(rows[i].path) # Root =>
            i \in orphaned \cup UNION {Ids(cl[c].frames) : c \in Client}

DInv == RowsInv /\ UnlinkedInv /\ \A c \in Client : ClientInv(c)

-----------------------------------------------------------------------------
(* Files and directories *)

\* What the discipline says of the paths: above a file or a directory there are
\* directories, and what is renamed or removed is a file.
LEMMA PathFacts ==
    ASSUME TypeInv, Disciplined
    PROVE  /\ Files \subseteq Path /\ Dirs \subseteq Path /\ Files \cap Dirs = {}
           /\ \A p \in Dirs : Dir(p) \in Dirs
           /\ \A p \in Files : p # Root => Dir(p) \in Dirs
           /\ \A c \in Client :
                 /\ work.creates[c] \subseteq Files
                 /\ work.removes[c] \subseteq Files
                 /\ work.mkdirs[c] \subseteq Dirs
                 /\ \A r \in work.renames[c] :
                       /\ r[1] \in Files \ {Root} /\ r[2] \in Files \ {Root}
                       /\ \A d \in Client \ {c} : r[1] \notin work.creates[d]
<1>0. \A c \in Client :
         /\ work.creates[c] \subseteq Path /\ work.mkdirs[c] \subseteq Path
         /\ work.removes[c] \subseteq Path /\ work.renames[c] \subseteq Path \X Path
  BY WorkloadsAssumption DEF TypeInv
<1>1. ASSUME NEW c \in Client
      PROVE  /\ work.creates[c] \subseteq Files /\ work.removes[c] \subseteq Files
             /\ \A r \in work.renames[c] : r[1] \in Files /\ r[2] \in Files
  BY DEF Files
<1>2. Files \subseteq Path
  <2> SUFFICES ASSUME NEW p \in Files PROVE p \in Path
    OBVIOUS
  <2>1. PICK c \in Client : p \in work.creates[c] \cup work.removes[c]
                                 \cup {r[1] : r \in work.renames[c]}
                                 \cup {r[2] : r \in work.renames[c]}
    BY DEF Files
  <2>2. CASE p \in work.creates[c] \cup work.removes[c]
    BY <2>2, <1>0
  <2>3. CASE p \in {r[1] : r \in work.renames[c]} \cup {r[2] : r \in work.renames[c]}
    <3>1. PICK r \in work.renames[c] : p \in {r[1], r[2]}
      BY <2>3
    <3>2. r \in Path \X Path
      BY <1>0
    <3> QED BY <3>1, <3>2
  <2> QED BY <2>1, <2>2, <2>3
<1> DEFINE Made  == UNION {Upwards(p) : p \in UNION {work.mkdirs[c] : c \in Client}}
           Above == UNION {Upwards(Dir(p)) : p \in Files \ {Root}}
<1>10. Dirs = Made \cup Above
  BY Zenon DEF Dirs
<1>9. ASSUME NEW p \in Files, p # Root
      PROVE  Dir(p) \in Path /\ Upwards(Dir(p)) \subseteq Dirs
  <2>1. Dir(p) \in Path
    BY <1>2, DirProps
  <2>2. Upwards(Dir(p)) \in {Upwards(Dir(q)) : q \in Files \ {Root}}
    BY <1>9
  <2>3. Upwards(Dir(p)) \subseteq Above
    BY <2>2
  <2> HIDE DEF Above, Made
  <2> QED BY <2>1, <2>3, <1>10
<1>3. ASSUME NEW q \in Dirs
      PROVE  \E p \in Path : /\ q \in Upwards(p) /\ Upwards(p) \subseteq Dirs
  <2>1. CASE q \in Made
    <3>1. PICK p \in UNION {work.mkdirs[c] : c \in Client} : q \in Upwards(p)
      BY <2>1
    <3>2. p \in Path /\ Upwards(p) \subseteq Dirs
      BY <3>1, <1>0 DEF Dirs
    <3> QED BY <3>1, <3>2
  <2>2. CASE q \in Above
    <3>1. PICK p \in Files \ {Root} : q \in Upwards(Dir(p))
      BY <2>2
    <3>2. Dir(p) \in Path /\ Upwards(Dir(p)) \subseteq Dirs
      BY <3>1, <1>9
    <3> QED BY <3>1, <3>2, Zenon
  <2> HIDE DEF Made, Above
  <2> QED BY <2>1, <2>2, <1>10
<1>4. Dirs \subseteq Path /\ \A q \in Dirs : Dir(q) \in Dirs
  BY <1>3, UpwardsProps
<1>5. ASSUME NEW p \in Files, p # Root
      PROVE  Dir(p) \in Dirs /\ Root \in Dirs
  <2>1. Dir(p) \in Path /\ Upwards(Dir(p)) \subseteq Dirs
    BY <1>5, <1>9
  <2>2. Dir(p) \in Upwards(Dir(p)) /\ Root \in Upwards(Dir(p))
    BY <2>1, UpwardsProps
  <2> QED BY <2>1, <2>2
<1>6. ASSUME NEW c \in Client
      PROVE  work.mkdirs[c] \subseteq Dirs
  <2> SUFFICES ASSUME NEW p \in work.mkdirs[c] PROVE p \in Dirs
    OBVIOUS
  <2>1. p \in Upwards(p)
    BY <1>0, UpwardsProps
  <2>2. p \in UNION {work.mkdirs[d] : d \in Client}
    OBVIOUS
  <2> QED BY <2>1, <2>2 DEF Dirs
<1>7. Files \cap Dirs = {}
  BY DEF Disciplined
<1>8. ASSUME NEW c \in Client, NEW r \in work.renames[c]
      PROVE  /\ r[1] \in Files \ {Root} /\ r[2] \in Files \ {Root}
             /\ \A d \in Client \ {c} : r[1] \notin work.creates[d]
  <2>1. r[1] # r[2] /\ \A d \in Client \ {c} : r[1] \notin work.creates[d]
    BY DEF Disciplined
  <2>2. r[1] \in Files /\ r[2] \in Files
    BY <1>1
  <2>3. r[1] # Root /\ r[2] # Root
    BY <2>1, <2>2, <1>5, <1>7
  <2> QED BY <2>1, <2>2, <2>3
<1> QED BY <1>1, <1>2, <1>4, <1>5, <1>6, <1>7, <1>8

\* Nothing is called that is not in the workload, which stays.
LEMMA WorkFixed ==
    ASSUME work' = work
    PROVE  Files' = Files /\ Dirs' = Dirs /\ (Disciplined' <=> Disciplined)
<1>1. Files' = Files
  BY DEF Files
<1>2. Dirs' = Dirs
  BY <1>1 DEF Dirs
<1> QED BY <1>1, <1>2 DEF Disciplined

\* What NewFile is called for is a file only for OpenFile itself.
LEMMA WantedIs ==
    ASSUME TypeInv, Disciplined, NEW c \in Client, FramesInv(c), MovingInv(c),
           cl[c].pc \notin {"idle", "source", "dead"},
           NEW n \in 0..Len(cl[c].frames), NEW p, Wanted(c, n, p)
    PROVE  IF cl[c].op = "open" /\ n = 0 THEN p \in work.creates[c] ELSE p \in Dirs
<1>1. CASE n = 0 /\ cl[c].op = "rename"
  <2>1. cl[c].to \in Files \ {Root} /\ p = Dir(cl[c].to)
    BY <1>1 DEF MovingInv, Moving, Wanted
  <2> QED BY <2>1, <1>1, PathFacts
<1>2. CASE n = 0 /\ cl[c].op # "rename"
  BY <1>2 DEF Wanted
<1>3. CASE n # 0
  <2>1. n \in 1..Len(cl[c].frames)
    BY <1>3
  <2> DEFINE q == cl[c].frames[n].path
  <2>2. q \in Files \cup Dirs /\ Dir(q) # Root /\ p = Dir(q)
    BY <2>1, <1>3 DEF FramesInv, FrameInv, Wanted
  <2>3. q # Root
    BY <2>2 DEF Dir
  <2> HIDE DEF q
  <2> QED BY <2>2, <2>3, <1>3, PathFacts
<1> QED BY <1>1, <1>2, <1>3

-----------------------------------------------------------------------------
(***************************************************************************)
(* What every statement respects: it adds at most the row nextId, and no   *)
(* directory goes away or moves.                                           *)
(***************************************************************************)
DirsStay ==
    /\ work' = work
    /\ nextId' \in Nat /\ nextId <= nextId'
    /\ \A i \in DOMAIN rows :
          rows[i].dir => /\ i \in DOMAIN rows' /\ rows'[i].dir
                         /\ rows'[i].path = rows[i].path
    /\ \A i \in DOMAIN rows' :
          i = nextId \/ (i \in DOMAIN rows /\ rows'[i].dir = rows[i].dir)

\* The files of these frames, if they are still there, have not moved.
NotMoved(frames) ==
    \A i \in Ids(frames) \cap DOMAIN rows \cap DOMAIN rows' : rows'[i].path = rows[i].path

\* No client but the one that inserts has a new frame.
NoFrameButNew ==
    \A d \in Client : Ids(cl'[d].frames) \subseteq Ids(cl[d].frames) \cup {nextId}

\* A frame stays what it is while those below it do.
LEMMA FrameKept ==
    ASSUME TypeInv, DirsStay, NEW c \in Client, NotMoved(cl[c].frames),
           NEW k \in 1..Len(cl[c].frames), FrameInv(c, k),
           cl'[c].op = cl[c].op, cl'[c].to = cl[c].to,
           cl'[c].frames[k] = cl[c].frames[k],
           k # 1 => cl'[c].frames[k - 1] = cl[c].frames[k - 1]
    PROVE  FrameInv(c, k)'
<1> DEFINE f == cl[c].frames[k]
<1>1. f.id \in Ids(cl[c].frames) /\ f.id < nextId
  <2>1. f.id \in Ids(cl[c].frames)
    BY DEF Ids
  <2>2. Ids(cl[c].frames) \subseteq 1..(nextId - 1) /\ nextId \in Nat
    BY DEF TypeInv, RowsTyped
  <2> HIDE DEF f
  <2> QED BY <2>1, <2>2
<1>2. k - 1 = 0 <=> k = 1
  OBVIOUS
<1>3. Wanted(c, k - 1, f.path)'
  BY <1>2, WorkFixed DEF DirsStay, FrameInv, Wanted
<1>4. f.path \in Dirs => DirAt(f.id, f.path)'
  BY DEF DirsStay, FrameInv, DirAt
<1>5. f.id \in DOMAIN rows' => rows'[f.id].path = f.path
  BY <1>1 DEF DirsStay, FrameInv, NotMoved, TypeInv, RowsTyped
<1>6. f' = f
  OBVIOUS
<1> QED BY <1>3, <1>4, <1>5, <1>6, WorkFixed DEF DirsStay, FrameInv

\* So do all frames of a client of which only those on top go.
LEMMA FramesKept ==
    ASSUME TypeInv, DirsStay, NEW c \in Client, NotMoved(cl[c].frames), FramesInv(c),
           cl'[c].op = cl[c].op, cl'[c].to = cl[c].to,
           Len(cl'[c].frames) \in 0..Len(cl[c].frames),
           \A k \in 1..Len(cl'[c].frames) : cl'[c].frames[k] = cl[c].frames[k]
    PROVE  FramesInv(c)'
<1> SUFFICES ASSUME NEW k \in 1..Len(cl'[c].frames) PROVE FrameInv(c, k)'
  BY DEF FramesInv
<1>1. k \in 1..Len(cl[c].frames) /\ (k # 1 => k - 1 \in 1..Len(cl'[c].frames))
  BY DEF TypeInv
<1> QED BY <1>1, FrameKept DEF FramesInv

\* A rename goes on with its source and target.
LEMMA MovingKept ==
    ASSUME TypeInv, DirsStay, NoFrameButNew, NEW c \in Client, Moving(c), MovingInv(c),
           cl'[c].src = cl[c].src, cl'[c].to = cl[c].to
    PROVE  MovingInv(c)'
<1>1. /\ cl[c].to \in Files \ {Root}
      /\ cl[c].src < nextId /\ cl[c].src \in Nat /\ nextId \in Nat
      /\ cl[c].src \in DOMAIN rows => ~rows[cl[c].src].dir
      /\ \A d \in Client : cl[c].src \notin Ids(cl[d].frames)
  BY DEF MovingInv, TypeInv, RowsTyped, ClientState
<1>2. cl[c].src # nextId /\ cl[c].src < nextId'
  BY <1>1 DEF DirsStay, TypeInv
<1> DEFINE i == cl[c].src
<1>3. i \in DOMAIN rows' => ~rows'[i].dir
  BY <1>1, <1>2 DEF DirsStay
<1>4. \A d \in Client : i \notin Ids(cl'[d].frames)
  BY <1>1, <1>2 DEF NoFrameButNew
<1> QED BY <1>1, <1>2, <1>3, <1>4, WorkFixed DEF MovingInv, DirsStay

\* The other clients stay where they are.
LEMMA OthersKept ==
    ASSUME TypeInv, DirsStay, NoFrameButNew,
           NEW d \in Client, NotMoved(cl[d].frames), ClientInv(d), cl'[d] = cl[d]
    PROVE  ClientInv(d)'
<1> DEFINE s == cl[d]
           n == Len(s.frames)
<1>0. s \in ClientState /\ nextId \in Nat /\ n \in Nat
  <2>1. s \in ClientState /\ nextId \in Nat
    BY DEF TypeInv, RowsTyped
  <2> QED BY <2>1, LenProperties DEF ClientState
<1>1. FramesInv(d)'
  BY <1>0, FramesKept DEF ClientInv
<1>2. MovingInv(d)'
  <2>1. CASE Moving(d)
    BY <2>1, MovingKept DEF ClientInv
  <2>2. CASE ~Moving(d)
    BY <2>2 DEF Moving, MovingInv
  <2> QED BY <2>1, <2>2
<1>3. PointInv(d)'
  <2>1. s.pc = "relookup" => \E i \in DOMAIN rows' : DirAt(i, s.path)'
    <3> SUFFICES ASSUME s.pc = "relookup" PROVE \E i \in DOMAIN rows' : DirAt(i, s.path)'
      OBVIOUS
    <3>1. PICK i \in DOMAIN rows : DirAt(i, s.path)
      BY DEF ClientInv, PointInv
    <3> QED BY <3>1 DEF DirAt, DirsStay
  <2>2. s.pc = "link" => DirAt(s.id, Dir(s.frames[n].path))'
    BY DEF ClientInv, PointInv, DirAt, DirsStay
  <2>3. s.pc = "update" => (s.id = NoParent /\ Dir(s.to) = Root) \/ DirAt(s.id, Dir(s.to))'
    BY DEF ClientInv, PointInv, DirAt, DirsStay
  <2>4. s.pc \in {"lookup", "insert", "relookup"} => Wanted(d, n, s.path)'
    BY WorkFixed DEF ClientInv, PointInv, Wanted, DirsStay
  <2>5. s.pc \in {"children", "delete"} =>
           s.id < nextId' /\ (s.id \in DOMAIN rows' => ~rows'[s.id].dir)
    BY <1>0 DEF ClientInv, PointInv, DirsStay, ClientState
  <2>6. s' = s
    OBVIOUS
  <2> QED BY <2>1, <2>2, <2>3, <2>4, <2>5, <2>6, WorkFixed DEF ClientInv, PointInv, DirsStay
<1> QED BY <1>1, <1>2, <1>3 DEF ClientInv

\* Whoever returns or dies waits for nothing.
LEMMA StoppedInv ==
    ASSUME NEW c \in Client, cl'[c].pc \in {"idle", "dead"}, cl'[c].frames = <<>>
    PROVE  ClientInv(c)'
<1>1. Len(cl'[c].frames) = 0
  BY EmptySeq
<1>2. FramesInv(c)'
  BY <1>1 DEF FramesInv
<1> QED BY <1>2 DEF ClientInv, MovingInv, Moving, PointInv

\* A row that was there keeps its parent, if that is a directory.
LEMMA RowsKept ==
    ASSUME RowsInv, DirsStay,
           \A i \in DOMAIN rows' : RowInv(i)' \/ (i \in DOMAIN rows /\ rows'[i] = rows[i])
    PROVE  RowsInv'
<1> SUFFICES ASSUME NEW i \in DOMAIN rows', i \in DOMAIN rows, rows'[i] = rows[i]
             PROVE  RowInv(i)'
  BY DEF RowsInv
<1>1. RowInv(i)
  BY DEF RowsInv
<1> QED BY <1>1, WorkFixed DEF RowInv, DirAt, DirsStay

\* A row without a parent stays with a call in progress or one that failed.
LEMMA UnlinkedKept ==
    ASSUME UnlinkedInv, NEW c \in Client, \A d \in Client \ {c} : cl'[d] = cl[d],
           orphaned \subseteq orphaned',
           \A i \in DOMAIN rows' :
              \/ rows'[i].parent # NoParent
              \/ Dir(rows'[i].path) = Root
              \/ i \in orphaned' \cup Ids(cl'[c].frames)
              \/ /\ i \in DOMAIN rows /\ rows'[i] = rows[i]
                 /\ i \notin Ids(cl[c].frames)
    PROVE  UnlinkedInv'
<1> SUFFICES ASSUME NEW i \in DOMAIN rows', rows'[i].parent = NoParent, Dir(rows'[i].path) # Root
             PROVE  i \in orphaned' \cup UNION {Ids(cl'[d].frames) : d \in Client}
  BY DEF UnlinkedInv
<1>1. CASE i \in orphaned' \cup Ids(cl'[c].frames)
  BY <1>1
<1>2. CASE i \in DOMAIN rows /\ rows'[i] = rows[i] /\ i \notin Ids(cl[c].frames)
  <2>1. i \in orphaned \cup UNION {Ids(cl[d].frames) : d \in Client}
    BY <1>2 DEF UnlinkedInv
  <2>2. CASE i \in orphaned
    BY <2>2
  <2>3. ASSUME NEW d \in Client, i \in Ids(cl[d].frames)
        PROVE  i \in UNION {Ids(cl'[e].frames) : e \in Client}
    <3>1. d # c
      BY <2>3, <1>2
    <3>2. i \in Ids(cl'[d].frames)
      BY <3>1, <2>3
    <3> QED BY <3>2
  <2> QED BY <2>1, <2>2, <2>3
<1> QED BY <1>1, <1>2

-----------------------------------------------------------------------------
(* Every step of disciplined clients *)

\* A statement that only reads leaves the table and the other clients alone.
LEMMA ReadKeeps ==
    ASSUME TypeInv, UNCHANGED <<rows, nextId, work>>
    PROVE  DirsStay /\ \A frames : NotMoved(frames)
BY DEF TypeInv, RowsTyped, DirsStay, NotMoved

\* A statement that reads keeps the invariant if it keeps the part of its client.
LEMMA ReadStep ==
    ASSUME TypeInv, DInv, NEW c \in Client, NEW t, Go(c, t),
           UNCHANGED <<rows, nextId, work>>, orphaned \subseteq orphaned',
           Ids(t.frames) \subseteq Ids(cl[c].frames),
           Ids(cl[c].frames) \subseteq Ids(t.frames) \cup orphaned',
           ClientInv(c)'
    PROVE  DInv'
<1>1. cl'[c] = t /\ \A d \in Client \ {c} : cl'[d] = cl[d]
  BY GoProps
<1>2. DirsStay /\ \A frames : NotMoved(frames)
  BY ReadKeeps
<1>3. NoFrameButNew
  BY <1>1 DEF NoFrameButNew
<1>4. \A d \in Client \ {c} : ClientInv(d)'
  BY <1>1, <1>2, <1>3, OthersKept DEF DInv
<1>5. RowsInv'
  BY <1>2, RowsKept DEF DInv
<1>6. UnlinkedInv'
  <2>1. \A i \in DOMAIN rows' :
          \/ i \in orphaned' \cup Ids(cl'[c].frames)
          \/ i \in DOMAIN rows /\ rows'[i] = rows[i] /\ i \notin Ids(cl[c].frames)
    BY <1>1
  <2> QED BY <2>1, <1>1, UnlinkedKept DEF DInv
<1> QED BY <1>4, <1>5, <1>6 DEF DInv

\* The same when the client stops, and when it stays where it is with its frames.
LEMMA StopStep ==
    ASSUME TypeInv, DInv, NEW c \in Client, NEW t, Go(c, t),
           UNCHANGED <<rows, nextId, work>>,
           orphaned' = orphaned \cup Ids(cl[c].frames) \/ (orphaned' = orphaned /\ cl[c].frames = <<>>),
           t.pc \in {"idle", "dead"}, t.frames = <<>>
    PROVE  DInv'
<1>1. cl'[c] = t
  BY GoProps
<1>2. ClientInv(c)'
  BY <1>1, StoppedInv
<1> QED BY <1>2, NoFrames, ReadStep

\* A statement that reads, and leaves the frames and the call as they are.
LEMMA StayStep ==
    ASSUME TypeInv, DInv, NEW c \in Client, NEW t, Go(c, t),
           UNCHANGED <<rows, nextId, work, orphaned>>,
           t.op = cl[c].op, t.frames = cl[c].frames, t.to = cl[c].to, t.src = cl[c].src,
           cl[c].pc \notin {"idle", "source", "dead"},
           PointInv(c)'
    PROVE  DInv'
<1>1. cl'[c] = t /\ \A d \in Client \ {c} : cl'[d] = cl[d]
  BY GoProps
<1>2. DirsStay /\ \A frames : NotMoved(frames)
  BY ReadKeeps
<1>3. FramesInv(c)'
  <2>1. Len(t.frames) \in Nat
    BY LenProperties DEF TypeInv, ClientState
  <2>2. Len(cl'[c].frames) \in 0..Len(cl[c].frames)
        /\ \A k \in 1..Len(cl'[c].frames) : cl'[c].frames[k] = cl[c].frames[k]
    BY <2>1, <1>1
  <2> QED BY <2>2, <1>1, <1>2, FramesKept DEF DInv, ClientInv
<1>4. MovingInv(c)'
  <2>1. CASE Moving(c)
    <3>1. NoFrameButNew
      BY <1>1 DEF NoFrameButNew
    <3> QED BY <3>1, <2>1, <1>1, <1>2, MovingKept DEF DInv, ClientInv
  <2>2. CASE ~Moving(c)
    BY <2>2, <1>1 DEF Moving, MovingInv
  <2> QED BY <2>1, <2>2
<1> QED BY <1>1, <1>3, <1>4, ReadStep DEF ClientInv

\* The start of a call: the workload keeps files and directories apart.
LEMMA StartStep ==
    ASSUME TypeInv, Disciplined, DInv, NEW c \in Client, work' = work,
           StartOpen(c) \/ StartMkdirAll(c) \/ StartRemove(c) \/ StartRename(c)
    PROVE  DInv'
<1> DEFINE T(op, pc, p) == [Idle EXCEPT !.op = op, !.pc = pc, !.path = p]
<1>1. ASSUME NEW t, Start(c, t), t.frames = <<>>, PointInv(c)',
             t.op = "rename" => t.pc = "source"
      PROVE  DInv'
  <2>1. cl'[c] = t /\ cl[c].pc = "idle" /\ UNCHANGED <<rows, nextId, orphaned>> /\ Go(c, t)
    BY <1>1, GoProps DEF Start
  <2>2. cl[c].frames = <<>>
    BY <2>1 DEF DInv, ClientInv, PointInv
  <2>3. ClientInv(c)'
    <3>1. Len(t.frames) = 0
      BY <1>1, EmptySeq
    <3> QED BY <3>1, <2>1, <1>1 DEF ClientInv, FramesInv, MovingInv, Moving
  <2> QED BY <2>1, <2>2, <2>3, <1>1, ReadStep
<1>2. /\ work.creates[c] \subseteq Files /\ work.removes[c] \subseteq Files
      /\ work.mkdirs[c] \subseteq Dirs
  BY PathFacts
<1>3. CASE StartOpen(c)
  <2>1. PICK p \in work.creates[c] : Start(c, T("open", "open", p))
    BY <1>3 DEF StartOpen
  <2> DEFINE t == T("open", "open", p)
  <2>2. t.op = "open" /\ t.pc = "open" /\ t.path = p /\ t.frames = <<>>
    BY DEF Idle
  <2>3. cl'[c] = t
    BY <2>1, GoProps DEF Start
  <2> HIDE DEF t
  <2>4. PointInv(c)'
    BY <2>2, <2>3 DEF PointInv
  <2> QED BY <2>1, <2>2, <2>4, <1>1 DEF t
<1>4. CASE StartMkdirAll(c)
  <2>1. PICK p \in work.mkdirs[c] : Start(c, T("mkdir", "lookup", p))
    BY <1>4 DEF StartMkdirAll
  <2> DEFINE t == T("mkdir", "lookup", p)
  <2>2. t.op = "mkdir" /\ t.pc = "lookup" /\ t.path = p /\ t.frames = <<>>
    BY DEF Idle
  <2>3. cl'[c] = t
    BY <2>1, GoProps DEF Start
  <2> HIDE DEF t
  <2>4. PointInv(c)'
    BY <2>2, <2>3, <1>2, EmptySeq, WorkFixed DEF PointInv, Wanted
  <2> QED BY <2>1, <2>2, <2>4, <1>1 DEF t
<1>5. CASE StartRemove(c)
  <2>1. PICK p \in work.removes[c] : Start(c, T("remove", "find", p))
    BY <1>5 DEF StartRemove
  <2> DEFINE t == T("remove", "find", p)
  <2>2. t.op = "remove" /\ t.pc = "find" /\ t.path = p /\ t.frames = <<>>
    BY DEF Idle
  <2>3. cl'[c] = t
    BY <2>1, GoProps DEF Start
  <2> HIDE DEF t
  <2>4. PointInv(c)'
    BY <2>2, <2>3, <1>2, WorkFixed DEF PointInv
  <2> QED BY <2>1, <2>2, <2>4, <1>1 DEF t
<1>6. CASE StartRename(c)
  <2> DEFINE R(r) == [Idle EXCEPT !.op = "rename", !.pc = "source", !.path = r[1], !.to = r[2]]
  <2>1. PICK r \in work.renames[c] : Start(c, R(r))
    BY <1>6 DEF StartRename
  <2> DEFINE t == R(r)
  <2>2. t.op = "rename" /\ t.pc = "source" /\ t.path = r[1] /\ t.to = r[2] /\ t.frames = <<>>
    BY DEF Idle
  <2>3. cl'[c] = t
    BY <2>1, GoProps DEF Start
  <2>4. <<r[1], r[2]>> = r
    BY WorkloadsAssumption DEF TypeInv
  <2> HIDE DEF t
  <2>5. PointInv(c)'
    BY <2>2, <2>3, <2>4 DEF PointInv
  <2> QED BY <2>1, <2>2, <2>5, <1>1 DEF t
<1> QED BY <1>3, <1>4, <1>5, <1>6

\* OpenFile looks for the row before NewFile does.
LEMMA OpenStep ==
    ASSUME TypeInv, Disciplined, DInv, NEW c \in Client, work' = work, Open(c)
    PROVE  DInv'
<1> DEFINE s == cl[c]
           i == IdAt(s.path)
<1>1. s \in ClientState /\ RowsTyped /\ UNCHANGED <<rows, nextId, orphaned>>
  BY DEF TypeInv, Open
<1>2. s.pc = "open" /\ s.frames = <<>> /\ s.op = "open" /\ s.path \in work.creates[c]
  BY DEF Open, DInv, ClientInv, PointInv
<1>3. CASE i = NoParent
  <2> DEFINE t == [s EXCEPT !.pc = "lookup"]
  <2>1. Go(c, t)
    BY <1>3 DEF Open
  <2>2. /\ t.pc = "lookup" /\ t.op = s.op /\ t.frames = s.frames /\ t.to = s.to
        /\ t.src = s.src /\ t.path = s.path
    BY <1>1 DEF ClientState
  <2> HIDE DEF t
  <2>3. cl'[c] = t
    BY <2>1, GoProps
  <2>4. PointInv(c)'
    BY <2>2, <2>3, <1>2, EmptySeq DEF PointInv, Wanted
  <2> QED BY <2>1, <2>2, <2>4, <1>1, <1>2, StayStep
<1>4. CASE i # NoParent
  <2>1. i \in DOMAIN rows
    BY <1>1, <1>4, IdAtProps
  <2>2. rows[i].dir \in BOOLEAN
    BY <1>1, <2>1 DEF RowsTyped, Row
  <2>3. Go(c, Return(s, ~rows[i].dir))
    BY <1>4 DEF Open
  <2> DEFINE ok == ~rows[i].dir
  <2>4. ok \in BOOLEAN
    BY <2>2
  <2> HIDE DEF ok
  <2>5. Return(s, ok).pc = "idle" /\ Return(s, ok).frames = <<>>
    BY <2>4, <1>1, ReturnProps
  <2> QED BY <2>3, <2>5, <1>1, <1>2, StopStep DEF ok
<1> QED BY <1>3, <1>4

\* A row that createParent finds at what it wants is a directory.
LEMMA WantedRow ==
    ASSUME TypeInv, Disciplined, DInv, NEW c \in Client,
           cl[c].pc \in {"lookup", "insert", "relookup"},
           cl[c].frames # <<>> \/ cl[c].op # "open",
           NEW i \in DOMAIN rows, rows[i].path = cl[c].path
    PROVE  rows[i].dir
<1> DEFINE n == Len(cl[c].frames)
           p == cl[c].path
<1>1. n \in Nat /\ n \in 0..n /\ (cl[c].frames # <<>> => n # 0)
  BY EmptySeq, LenProperties DEF TypeInv, ClientState
<1>2. Wanted(c, n, p) /\ FramesInv(c) /\ MovingInv(c) /\ RowInv(i)
  BY DEF DInv, ClientInv, PointInv, RowsInv
<1>3. p \in Dirs
  BY <1>1, <1>2, WantedIs
<1> QED BY <1>2, <1>3 DEF RowInv

\* NewFile and the row that it finds.
LEMMA LookupStep ==
    ASSUME TypeInv, Disciplined, DInv, NEW c \in Client, work' = work, Lookup(c)
    PROVE  DInv'
<1> DEFINE s == cl[c]
           i == IdAt(s.path)
<1>1. s \in ClientState /\ RowsTyped /\ UNCHANGED <<rows, nextId>> /\ s.pc = "lookup"
  BY DEF TypeInv, Lookup
<1>2. ASSUME NEW pc, pc = "insert" \/ (pc = "relookup" /\ i # NoParent /\ rows[i].dir
                                            /\ (s.frames # <<>> \/ s.op = "rename")),
             Go(c, [s EXCEPT !.pc = pc]), orphaned' = orphaned
      PROVE  DInv'
  <2> DEFINE t == [s EXCEPT !.pc = pc]
  <2>1. /\ t.pc = pc /\ t.op = s.op /\ t.frames = s.frames /\ t.to = s.to
        /\ t.src = s.src /\ t.path = s.path
    BY <1>1 DEF ClientState
  <2>2. Go(c, t)
    BY <1>2
  <2> HIDE DEF t
  <2>3. cl'[c] = t
    BY <2>2, GoProps
  <2>4. Wanted(c, Len(s.frames), s.path)
    BY <1>1 DEF DInv, ClientInv, PointInv
  <2>5. Wanted(c, Len(cl[c].frames), cl[c].path)'
    BY <2>1, <2>3, <2>4, WorkFixed DEF Wanted
  <2>6. pc = "relookup" => \E j \in DOMAIN rows' : DirAt(j, cl[c].path)'
    <3>1. i # NoParent => i \in DOMAIN rows /\ rows[i].path = s.path
      BY <1>1, IdAtProps
    <3> QED BY <3>1, <1>1, <1>2, <2>1, <2>3 DEF DirAt
  <2>7. PointInv(c)'
    BY <2>1, <2>3, <2>5, <2>6, <1>2 DEF PointInv
  <2> QED BY <2>1, <2>2, <2>7, <1>1, <1>2, StayStep
<1>3. ASSUME NEW t, Go(c, t), t \in {Return(s, TRUE), Return(s, FALSE), Dead(s)},
             orphaned' = orphaned \cup Ids(s.frames) \/ (orphaned' = orphaned /\ s.frames = <<>>)
      PROVE  DInv'
  <2>1. t.pc \in {"idle", "dead"} /\ t.frames = <<>>
    <3>1. ASSUME NEW ok \in BOOLEAN
          PROVE  /\ Return(s, ok).pc = "idle" /\ Return(s, ok).frames = <<>>
                 /\ Dead(s).pc = "dead" /\ Dead(s).frames = <<>>
      BY <1>1, ReturnProps
    <3>2. TRUE \in BOOLEAN /\ FALSE \in BOOLEAN
      OBVIOUS
    <3> QED BY <3>1, <3>2, <1>3
  <2> QED BY <2>1, <1>1, <1>3, StopStep
<1>4. CASE i = NoParent
  BY <1>2, <1>4 DEF Lookup
<1>5. CASE i # NoParent /\ ~rows[i].dir
  BY <1>3, <1>5 DEF Lookup, Finish
<1>6. CASE i # NoParent /\ rows[i].dir
  <2>1. CASE s.frames # <<>> \/ s.op = "rename"
    BY <2>1, <1>2, <1>6 DEF Lookup
  <2>2. CASE ~(s.frames # <<>> \/ s.op = "rename")
    <3>1. Go(c, IF s.op = "mkdir" THEN Return(s, TRUE) ELSE Dead(s)) /\ orphaned' = orphaned
      BY <2>2, <1>6 DEF Lookup
    <3> QED BY <3>1, <2>2, <1>3
  <2> QED BY <2>1, <2>2
<1> QED BY <1>4, <1>5, <1>6

\* createParent reads the parent that NewFile found: it may be gone again.
LEMMA RelookupStep ==
    ASSUME TypeInv, Disciplined, DInv, NEW c \in Client, work' = work, Relookup(c)
    PROVE  DInv'
<1> DEFINE s == cl[c]
           i == IdAt(s.path)
           n == Len(s.frames)
           t == ParentReady(s, i)
<1>1. s \in ClientState /\ RowsTyped /\ UNCHANGED <<rows, nextId>> /\ s.pc = "relookup"
  BY DEF TypeInv, Relookup
<1>2. /\ s.frames # <<>> \/ s.op = "rename"
      /\ \E j \in DOMAIN rows : DirAt(j, s.path)
      /\ Wanted(c, n, s.path)
  BY <1>1 DEF DInv, ClientInv, PointInv
<1>3. i # NoParent /\ i \in DOMAIN rows /\ rows[i].path = s.path /\ i \in Nat
  <2>1. At(s.path) # {}
    BY <1>2 DEF DirAt, At
  <2> QED BY <2>1, <1>1, IdAtProps
<1>4. DirAt(i, s.path)
  BY <1>1, <1>2, <1>3, WantedRow DEF DirAt
<1>5. Go(c, t) /\ orphaned' = orphaned
  BY <1>3 DEF Relookup
<1>6. /\ t.op = s.op /\ t.frames = s.frames /\ t.src = s.src /\ t.to = s.to /\ t.id = i
      /\ t.pc = IF s.frames = <<>> THEN "update" ELSE "link"
  BY <1>1, <1>3, ParentReadyProps
<1>7. cl'[c] = t
  BY <1>5, GoProps
<1> HIDE DEF t, i
<1>8. n = 0 <=> s.frames = <<>>
  BY <1>1, EmptySeq DEF ClientState
<1>9. s.path = IF s.frames = <<>> THEN Dir(s.to) ELSE Dir(s.frames[n].path)
  BY <1>2, <1>8 DEF Wanted
<1>10. PointInv(c)'
  <2>1. CASE s.frames = <<>>
    <3>1. DirAt(cl[c].id, Dir(cl[c].to))'
      BY <2>1, <1>1, <1>4, <1>6, <1>7, <1>9 DEF DirAt
    <3> QED BY <2>1, <3>1, <1>2, <1>6, <1>7 DEF PointInv
  <2>2. CASE s.frames # <<>>
    <3>1. DirAt(cl[c].id, Dir(cl[c].frames[Len(cl[c].frames)].path))'
      BY <2>2, <1>1, <1>4, <1>6, <1>7, <1>9 DEF DirAt
    <3> QED BY <2>2, <3>1, <1>6, <1>7 DEF PointInv
  <2> QED BY <2>1, <2>2
<1> QED BY <1>1, <1>5, <1>6, <1>10, StayStep

\* RemoveFile is over without a change of the table.
LEMMA RemovedStep ==
    ASSUME TypeInv, Disciplined, DInv, NEW c \in Client, work' = work,
           cl[c].pc \in {"find", "children"}, Go(c, Removed(cl[c], FALSE)),
           UNCHANGED <<rows, nextId, orphaned>>
    PROVE  DInv'
<1> DEFINE s == cl[c]
           t == Removed(s, FALSE)
<1>1. s \in ClientState /\ s.frames = <<>>
  BY DEF TypeInv, DInv, ClientInv, PointInv
<1>2. \/ s.op # "rename" /\ t.pc = "idle" /\ t.frames = <<>>
      \/ s.op = "rename" /\ t.op = s.op /\ t.pc = "newparent"
           /\ t.frames = s.frames /\ t.src = s.src /\ t.to = s.to
  BY <1>1, RemovedProps
<1>3. cl'[c] = t
  BY GoProps
<1> HIDE DEF t
<1>4. CASE t.pc = "idle" /\ t.frames = <<>>
  BY <1>1, <1>4, StopStep DEF t
<1>5. CASE t.op = "rename" /\ s.op = "rename" /\ t.pc = "newparent"
            /\ t.frames = s.frames /\ t.src = s.src /\ t.to = s.to
  <2>1. PointInv(c)'
    BY <1>1, <1>3, <1>5 DEF PointInv
  <2> QED BY <2>1, <1>1, <1>5, StayStep DEF t
<1> QED BY <1>2, <1>4, <1>5

\* RemoveFile looks for its row: it is no directory.
LEMMA FindStep ==
    ASSUME TypeInv, Disciplined, DInv, NEW c \in Client, work' = work, Find(c)
    PROVE  DInv'
<1> DEFINE s == cl[c]
           i == IdAt(s.path)
<1>1. /\ s \in ClientState /\ RowsTyped /\ UNCHANGED <<rows, nextId, orphaned>> /\ s.pc = "find"
      /\ s.frames = <<>> /\ s.op \in {"remove", "rename"} /\ s.path \in Files
  BY DEF TypeInv, Find, DInv, ClientInv, PointInv
<1>2. CASE i = NoParent
  BY <1>1, <1>2, RemovedStep DEF Find
<1>3. CASE i # NoParent
  <2>1. i \in DOMAIN rows /\ rows[i].path = s.path /\ i < nextId
    BY <1>1, <1>3, IdAtProps
  <2>2. ~rows[i].dir
    BY <2>1, <1>1, PathFacts DEF DInv, RowsInv, RowInv
  <2> DEFINE t == [s EXCEPT !.pc = "children", !.id = i, !.isDir = rows[i].dir]
  <2>3. Go(c, t)
    BY <1>3 DEF Find
  <2>4. /\ t.pc = "children" /\ t.op = s.op /\ t.frames = s.frames /\ t.to = s.to
        /\ t.src = s.src /\ t.id = i
    BY <1>1 DEF ClientState
  <2> HIDE DEF t, i
  <2>5. cl'[c] = t
    BY <2>3, GoProps
  <2>6. PointInv(c)'
    BY <2>1, <2>2, <2>4, <2>5, <1>1 DEF PointInv
  <2> QED BY <2>3, <2>4, <2>6, <1>1, StayStep
<1> QED BY <1>2, <1>3

\* RemoveFile looks for children.
LEMMA ChildrenStep ==
    ASSUME TypeInv, Disciplined, DInv, NEW c \in Client, work' = work, Children(c)
    PROVE  DInv'
<1> DEFINE s == cl[c]
           t == [s EXCEPT !.pc = "delete"]
<1>1. /\ s \in ClientState /\ UNCHANGED <<rows, nextId, orphaned>> /\ s.pc = "children"
      /\ s.frames = <<>> /\ s.op \in {"remove", "rename"}
      /\ s.id < nextId /\ (s.id \in DOMAIN rows => ~rows[s.id].dir)
  BY DEF TypeInv, Children, DInv, ClientInv, PointInv
<1>2. CASE Go(c, Removed(s, FALSE))
  BY <1>1, <1>2, RemovedStep
<1>3. CASE Go(c, t)
  <2>1. /\ t.pc = "delete" /\ t.op = s.op /\ t.frames = s.frames /\ t.to = s.to
        /\ t.src = s.src /\ t.id = s.id
    BY <1>1 DEF ClientState
  <2> HIDE DEF t
  <2>2. cl'[c] = t
    BY <1>3, GoProps
  <2>3. PointInv(c)'
    BY <2>1, <2>2, <1>1 DEF PointInv
  <2> QED BY <2>1, <2>3, <1>1, <1>3, StayStep
<1> QED BY <1>2, <1>3 DEF Children

\* The source of a rename is a file that no other client has created and not
\* yet linked.
LEMMA SourceStep ==
    ASSUME TypeInv, Disciplined, DInv, NEW c \in Client, work' = work, Source(c)
    PROVE  DInv'
<1> DEFINE s == cl[c]
           i == IdAt(s.path)
           r == <<s.path, s.to>>
<1>1. /\ s \in ClientState /\ RowsTyped /\ UNCHANGED <<rows, nextId, orphaned>> /\ s.pc = "source"
      /\ s.frames = <<>> /\ s.op = "rename" /\ r \in work.renames[c]
  BY DEF TypeInv, Source, DInv, ClientInv, PointInv
<1>2. /\ s.path \in Files \ {Root} /\ s.to \in Files \ {Root}
      /\ \A d \in Client \ {c} : s.path \notin work.creates[d]
  <2>1. r[1] = s.path /\ r[2] = s.to
    OBVIOUS
  <2> QED BY <2>1, <1>1, PathFacts
<1>3. CASE i = NoParent
  <2>1. Go(c, Return(s, FALSE))
    BY <1>3 DEF Source
  <2>2. Return(s, FALSE).pc = "idle" /\ Return(s, FALSE).frames = <<>>
    BY <1>1, ReturnProps
  <2> QED BY <2>1, <2>2, <1>1, StopStep
<1>4. CASE i # NoParent
  <2>1. i \in DOMAIN rows /\ rows[i].path = s.path /\ i < nextId
    BY <1>1, <1>4, IdAtProps
  <2>2. ~rows[i].dir
    BY <2>1, <1>2, PathFacts DEF DInv, RowsInv, RowInv
  <2> DEFINE t == [s EXCEPT !.pc = "find", !.src = i, !.path = s.to]
  <2>3. Go(c, t)
    BY <2>2, <1>4 DEF Source
  <2>4. /\ t.pc = "find" /\ t.op = s.op /\ t.frames = s.frames /\ t.to = s.to
        /\ t.src = i /\ t.path = s.to
    BY <1>1 DEF ClientState
  <2> HIDE DEF t, i
  <2>5. cl'[c] = t /\ \A d \in Client \ {c} : cl'[d] = cl[d]
    BY <2>3, GoProps
  <2>6. PointInv(c)'
    BY <2>4, <2>5, <1>1, <1>2, WorkFixed DEF PointInv
  <2>7. Len(t.frames) = 0 /\ Ids(t.frames) = {}
    BY <2>4, <1>1, EmptySeq, NoFrames
  <2>8. FramesInv(c)'
    BY <2>5, <2>7 DEF FramesInv
  <2>9. ASSUME NEW d \in Client \ {c}, i \in Ids(cl[d].frames)
        PROVE  FALSE
    <3>1. PICK k \in 1..Len(cl[d].frames) : cl[d].frames[k].id = i
      BY <2>9 DEF Ids
    <3>2. FramesInv(d) /\ MovingInv(d) /\ FrameInv(d, k)
      BY DEF DInv, ClientInv, FramesInv
    <3>3. cl[d].frames[k].path = s.path /\ Wanted(d, k - 1, s.path)
      BY <3>1, <3>2, <2>1 DEF FrameInv
    <3>4. cl[d].pc \notin {"idle", "source", "dead"}
      <4>1. Len(cl[d].frames) # 0
        BY <3>1
      <4>2. cl[d].frames # <<>>
        BY <4>1, EmptySeq
      <4> QED BY <4>2 DEF DInv, ClientInv, PointInv
    <3>5. k - 1 \in 0..Len(cl[d].frames)
      BY <3>1 DEF TypeInv
    <3>6. s.path \in work.creates[d] \/ s.path \in Dirs
      BY <3>2, <3>3, <3>4, <3>5, WantedIs
    <3> QED BY <3>6, <1>2, PathFacts
  <2>10. \A d \in Client : i \notin Ids(cl'[d].frames)
    BY <2>5, <2>7, <2>9
  <2>11. MovingInv(c)'
    BY <2>1, <2>2, <2>4, <2>5, <2>10, <1>1, <1>2, WorkFixed DEF MovingInv
  <2>12. ClientInv(c)'
    BY <2>6, <2>8, <2>11 DEF ClientInv
  <2> QED BY <2>3, <2>4, <2>12, <1>1, ReadStep
<1> QED BY <1>3, <1>4

\* RenameFile looks for the directory of its target, or makes it.
LEMMA NewParentStep ==
    ASSUME TypeInv, Disciplined, DInv, NEW c \in Client, work' = work, NewParent(c)
    PROVE  DInv'
<1> DEFINE s == cl[c]
           i == IdAt(Dir(s.to))
<1>1. /\ s \in ClientState /\ RowsTyped /\ UNCHANGED <<rows, nextId, orphaned>>
      /\ s.pc = "newparent" /\ s.frames = <<>> /\ s.op = "rename" /\ Len(s.frames) = 0
  BY EmptySeq DEF TypeInv, NewParent, DInv, ClientInv, PointInv
<1>2. s.to \in Files \ {Root} /\ s.to \in Path
  BY <1>1, PathFacts DEF DInv, ClientInv, MovingInv, Moving
<1>3. CASE i # NoParent
  <2>1. i \in DOMAIN rows /\ rows[i].path = Dir(s.to)
    BY <1>1, <1>3, IdAtProps
  <2>2. rows[i].dir
    BY <2>1, <1>2, PathFacts DEF DInv, RowsInv, RowInv
  <2> DEFINE t == [s EXCEPT !.pc = "update", !.id = i, !.loud = TRUE]
  <2>3. Go(c, t)
    BY <1>3 DEF NewParent
  <2>4. /\ t.pc = "update" /\ t.op = s.op /\ t.frames = s.frames /\ t.to = s.to
        /\ t.src = s.src /\ t.id = i
    BY <1>1 DEF ClientState
  <2> HIDE DEF t, i
  <2>5. cl'[c] = t
    BY <2>3, GoProps
  <2>6. PointInv(c)'
    BY <2>1, <2>2, <2>4, <2>5, <1>1 DEF PointInv, DirAt
  <2> QED BY <2>3, <2>4, <2>6, <1>1, StayStep
<1>4. CASE i = NoParent /\ Dir(s.to) = Root
  <2> DEFINE t(id) == ParentReady(s, id)
  <2>1. Go(c, t(NoParent))
    BY <1>4 DEF NewParent
  <2>2. ASSUME NEW id \in Nat
        PROVE  /\ t(id).pc = "update" /\ t(id).op = s.op /\ t(id).frames = s.frames
               /\ t(id).to = s.to /\ t(id).src = s.src /\ t(id).id = id
    BY <1>1, ParentReadyProps
  <2>3. NoParent \in Nat
    BY DEF NoParent
  <2> HIDE DEF t
  <2>4. cl'[c] = t(NoParent)
    BY <2>1, GoProps
  <2>5. PointInv(c)'
    BY <2>2, <2>3, <2>4, <1>1, <1>4 DEF PointInv
  <2> QED BY <2>1, <2>2, <2>3, <2>5, <1>1, StayStep
<1>5. CASE i = NoParent /\ Dir(s.to) # Root
  <2> DEFINE t == CreateParent(s, s.to)
  <2>1. Go(c, t)
    BY <1>5 DEF NewParent
  <2>2. /\ t.pc = "lookup" /\ t.op = s.op /\ t.frames = s.frames
        /\ t.to = s.to /\ t.src = s.src /\ t.path = Dir(s.to)
    BY <1>1, <1>2, CreateParentProps
  <2> HIDE DEF t
  <2>3. cl'[c] = t
    BY <2>1, GoProps
  <2>4. PointInv(c)'
    BY <2>2, <2>3, <1>1 DEF PointInv, Wanted
  <2> QED BY <2>1, <2>2, <2>4, <1>1, StayStep
<1> QED BY <1>3, <1>4, <1>5

\* A client that dies leaves its frames to nobody.
LEMMA DieStep ==
    ASSUME TypeInv, Disciplined, DInv, NEW c \in Client, work' = work, Die(c)
    PROVE  DInv'
<1>1. /\ Go(c, Dead(cl[c])) /\ orphaned' = orphaned \cup Ids(cl[c].frames)
      /\ UNCHANGED <<rows, nextId>> /\ cl[c] \in ClientState
  BY DEF Die, Finish, TypeInv
<1>2. Dead(cl[c]).pc = "dead" /\ Dead(cl[c]).frames = <<>>
  BY <1>1, ReturnProps
<1> QED BY <1>1, <1>2, StopStep

\* Directories are not renamed.
LEMMA NoMove ==
    ASSUME DInv, NEW c \in Client
    PROVE  ~Kids(c) /\ ~Move(c)
BY DEF DInv, ClientInv, PointInv, Kids, Move

\* A statement that writes: what it has to keep, and what it does to the rows.
LEMMA WriteStep ==
    ASSUME TypeInv, DInv, NEW c \in Client, NEW t, Go(c, t), DirsStay,
           UNCHANGED orphaned,
           Ids(t.frames) \subseteq Ids(cl[c].frames) \cup {nextId},
           \A d \in Client \ {c} : NotMoved(cl[d].frames),
           \A i \in DOMAIN rows' : RowInv(i)' \/ (i \in DOMAIN rows /\ rows'[i] = rows[i]),
           \A i \in DOMAIN rows' :
              \/ rows'[i].parent # NoParent
              \/ Dir(rows'[i].path) = Root
              \/ i \in Ids(t.frames)
              \/ i \in DOMAIN rows /\ rows'[i] = rows[i] /\ i \notin Ids(cl[c].frames),
           ClientInv(c)'
    PROVE  DInv'
<1>1. cl'[c] = t /\ \A d \in Client \ {c} : cl'[d] = cl[d]
  BY GoProps
<1>2. NoFrameButNew
  BY <1>1 DEF NoFrameButNew
<1>3. \A d \in Client \ {c} : ClientInv(d)'
  BY <1>1, <1>2, OthersKept DEF DInv
<1>4. RowsInv'
  BY RowsKept DEF DInv
<1>5. UnlinkedInv'
  <2>1. \A i \in DOMAIN rows' :
              \/ rows'[i].parent # NoParent
              \/ Dir(rows'[i].path) = Root
              \/ i \in orphaned' \cup Ids(cl'[c].frames)
              \/ i \in DOMAIN rows /\ rows'[i] = rows[i] /\ i \notin Ids(cl[c].frames)
    BY <1>1
  <2> QED BY <2>1, <1>1, UnlinkedKept DEF DInv
<1> QED BY <1>3, <1>4, <1>5 DEF DInv

\* NewFile inserts a row without a parent: its frame accounts for it.
LEMMA InsertStep ==
    ASSUME TypeInv, Disciplined, DInv, NEW c \in Client, work' = work, Insert(c)
    PROVE  DInv'
<1> DEFINE s == cl[c]
           n == Len(s.frames)
           f == [id |-> nextId, path |-> s.path]
           r == [s EXCEPT !.frames = Append(@, f)]
           d == s.op # "open" \/ s.frames # <<>>
<1>1. /\ s \in ClientState /\ RowsTyped /\ nextId \in Nat /\ s.pc = "insert" /\ s.path \in Path
      /\ s.frames \in Seq(Frame)
  BY DEF TypeInv, RowsTyped, Insert, ClientState
<1>2. /\ n \in Nat /\ n \in 0..n /\ (s.frames = <<>> <=> n = 0) /\ n + 1 # 0
  BY <1>1, EmptySeq, LenProperties
<1>3. Wanted(c, n, s.path) /\ FramesInv(c) /\ MovingInv(c)
  BY <1>1 DEF DInv, ClientInv, PointInv
<1>4. /\ s.path \in Files \cup Dirs
      /\ d <=> s.path \in Dirs
  BY <1>1, <1>2, <1>3, WantedIs, PathFacts
<1>5. CASE At(s.path) # {}
  <2>1. Go(c, Return(s, FALSE)) /\ orphaned' = orphaned \cup Ids(s.frames)
        /\ UNCHANGED <<rows, nextId>>
    BY <1>5 DEF Insert, Finish
  <2>2. Return(s, FALSE).pc = "idle" /\ Return(s, FALSE).frames = <<>>
    BY <1>1, ReturnProps
  <2> QED BY <2>1, <2>2, StopStep
<1>6. CASE At(s.path) = {}
  <2>1. /\ InsertRow(s.path, d)
        /\ Go(c, IF Dir(s.path) = Root THEN Created(s, nextId) ELSE CreateParent(r, s.path))
        /\ orphaned' = orphaned
    BY <1>6 DEF Insert
  <2>2. d \in BOOLEAN
    OBVIOUS
  <2>3. s.op # "open" \/ s.frames # <<>> <=> d
    OBVIOUS
  <2> HIDE DEF d
  <2>4. /\ nextId' = nextId + 1
        /\ DOMAIN rows' = DOMAIN rows \cup {nextId}
        /\ nextId \notin DOMAIN rows
        /\ \A i \in DOMAIN rows : rows'[i] = rows[i]
        /\ rows'[nextId].path = s.path
        /\ rows'[nextId].parent = NoParent
        /\ rows'[nextId].dir = d
    BY <2>1, <2>2, <1>1, InsertProps
  <2>5. DirsStay /\ \A frames : NotMoved(frames)
    BY <2>4, <1>1 DEF DirsStay, NotMoved
  <2>6. \A i \in DOMAIN rows' : RowInv(i)' \/ (i \in DOMAIN rows /\ rows'[i] = rows[i])
    <3> SUFFICES ASSUME NEW i \in DOMAIN rows', i = nextId PROVE RowInv(i)'
      BY <2>4
    <3> QED BY <2>4, <1>4, WorkFixed DEF RowInv
  <2>7. CASE Dir(s.path) = Root
    <3> DEFINE t == Created(s, nextId)
    <3>1. Go(c, t)
      BY <2>1, <2>7
    <3>2. \/ s.frames = <<>> /\ s.op # "rename" /\ t.pc = "idle" /\ t.frames = <<>>
          \/ /\ s.frames # <<>> \/ s.op = "rename"
             /\ t.op = s.op /\ t.frames = s.frames /\ t.src = s.src /\ t.to = s.to
             /\ t.id = nextId
             /\ t.pc = IF s.frames = <<>> THEN "update" ELSE "link"
      BY <1>1, CreatedProps
    <3> HIDE DEF t
    <3>3. cl'[c] = t /\ \A e \in Client \ {c} : cl'[e] = cl[e]
      BY <3>1, GoProps
    <3>4. Ids(t.frames) = Ids(s.frames)
      BY <3>2
    <3>5. ClientInv(c)'
      <4>1. CASE t.pc = "idle" /\ t.frames = <<>>
        BY <4>1, <3>3, StoppedInv
      <4>2. CASE /\ s.frames # <<>> \/ s.op = "rename"
                 /\ t.op = s.op /\ t.frames = s.frames /\ t.src = s.src /\ t.to = s.to
                 /\ t.id = nextId
                 /\ t.pc = IF s.frames = <<>> THEN "update" ELSE "link"
        <5>1. FramesInv(c)'
          BY <4>2, <3>3, <2>5, <1>2, <1>3, FramesKept
        <5>2. MovingInv(c)'
          <6>1. NoFrameButNew
            BY <3>3, <3>4 DEF NoFrameButNew
          <6>2. CASE Moving(c)
            BY <6>1, <6>2, <4>2, <3>3, <2>5, <1>3, MovingKept
          <6>3. CASE ~Moving(c)
            BY <6>3, <4>2, <3>3, <1>1 DEF Moving, MovingInv
          <6> QED BY <6>2, <6>3
        <5>3. d
          BY <4>2, <2>3
        <5>4. PointInv(c)'
          <6>1. CASE s.frames = <<>>
            <7>1. s.path = Dir(s.to) /\ s.op = "rename"
              BY <6>1, <4>2, <1>2, <1>3 DEF Wanted
            <7>2. DirAt(cl[c].id, Dir(cl[c].to))'
              BY <7>1, <5>3, <4>2, <3>3, <2>4 DEF DirAt
            <7> QED BY <7>1, <7>2, <6>1, <4>2, <3>3 DEF PointInv
          <6>2. CASE s.frames # <<>>
            <7>1. s.path = Dir(s.frames[n].path)
              BY <6>2, <1>2, <1>3 DEF Wanted
            <7>2. DirAt(cl[c].id, Dir(cl[c].frames[Len(cl[c].frames)].path))'
              BY <7>1, <5>3, <4>2, <3>3, <2>4 DEF DirAt
            <7> QED BY <7>1, <7>2, <6>2, <4>2, <3>3 DEF PointInv
          <6> QED BY <6>1, <6>2
        <5> QED BY <5>1, <5>2, <5>4 DEF ClientInv
      <4> QED BY <3>2, <4>1, <4>2
    <3>6. \A i \in DOMAIN rows' :
             \/ Dir(rows'[i].path) = Root
             \/ i \in Ids(t.frames)
             \/ i \in DOMAIN rows /\ rows'[i] = rows[i] /\ i \notin Ids(cl[c].frames)
      BY <3>4, <2>4, <2>7
    <3> QED BY <3>1, <3>4, <3>5, <3>6, <2>1, <2>5, <2>6, WriteStep
  <2>8. CASE Dir(s.path) # Root
    <3> DEFINE t == CreateParent(r, s.path)
    <3>1. Go(c, t)
      BY <2>1, <2>8
    <3>2. f \in Frame /\ f.id = nextId /\ f.path = s.path
      BY <1>1 DEF Frame
    <3> HIDE DEF f
    <3>3. /\ r \in ClientState /\ r.op = s.op /\ r.src = s.src /\ r.to = s.to
          /\ r.frames = Append(s.frames, f)
      BY <3>2, <1>1, PushedProps
    <3> HIDE DEF r
    <3>4. /\ t.op = s.op /\ t.src = s.src /\ t.to = s.to /\ t.frames = Append(s.frames, f)
          /\ t.path = Dir(s.path) /\ t.pc = "lookup"
      BY <3>3, <1>1, CreateParentProps
    <3>5. /\ Len(t.frames) = n + 1
          /\ \A k \in 1..n : t.frames[k] = s.frames[k]
          /\ t.frames[n + 1] = f
          /\ Ids(t.frames) = Ids(s.frames) \cup {nextId}
          /\ t.frames # <<>>
      BY <3>2, <3>4, <1>1, PushProps
    <3> HIDE DEF t
    <3>6. cl'[c] = t /\ \A e \in Client \ {c} : cl'[e] = cl[e]
      BY <3>1, GoProps
    <3>7. FramesInv(c)'
      <4> SUFFICES ASSUME NEW k \in 1..(n + 1) PROVE FrameInv(c, k)'
        BY <3>5, <3>6 DEF FramesInv
      <4>1. CASE k \in 1..n
        <5>1. k # 1 => k - 1 \in 1..n
          BY <4>1, <1>2
        <5>2. /\ cl'[c].frames[k] = cl[c].frames[k]
              /\ k # 1 => cl'[c].frames[k - 1] = cl[c].frames[k - 1]
          BY <5>1, <4>1, <3>5, <3>6
        <5> QED BY <5>2, <4>1, <3>4, <3>6, <2>5, <1>3, FrameKept DEF FramesInv
      <4>2. CASE k = n + 1
        <5>1. cl'[c].frames[k].path = s.path /\ cl'[c].frames[k].id = nextId /\ k - 1 = n
          BY <4>2, <3>2, <3>5, <3>6, <1>2
        <5>2. n # 0 => cl'[c].frames[n] = s.frames[n]
          BY <3>5, <3>6, <1>2
        <5>3. Wanted(c, n, s.path) /\ cl'[c].op = s.op /\ cl'[c].to = s.to
          BY <3>4, <3>6, <1>3
        <5>4. Wanted(c, k - 1, cl[c].frames[k].path)'
          BY <5>1, <5>2, <5>3, WorkFixed DEF Wanted
        <5>5. DirAt(cl[c].frames[k].id, cl[c].frames[k].path)' \/ cl'[c].frames[k].path \notin Dirs
          BY <5>1, <2>4, <1>4 DEF DirAt
        <5>6. rows'[cl'[c].frames[k].id].path = cl'[c].frames[k].path
          BY <5>1, <2>4
        <5> QED BY <5>1, <5>4, <5>5, <5>6, <2>8, <1>4, WorkFixed DEF FrameInv
      <4> QED BY <4>1, <4>2, <1>2
    <3>8. MovingInv(c)'
      <4>1. NoFrameButNew
        BY <3>5, <3>6 DEF NoFrameButNew
      <4>2. CASE Moving(c)
        BY <4>1, <4>2, <3>4, <3>6, <2>5, <1>3, MovingKept
      <4>3. CASE ~Moving(c)
        BY <4>3, <3>4, <3>6, <1>1 DEF Moving, MovingInv
      <4> QED BY <4>2, <4>3
    <3>9. PointInv(c)'
      <4>1. Wanted(c, Len(cl[c].frames), cl[c].path)'
        BY <3>2, <3>4, <3>5, <3>6, <1>2 DEF Wanted
      <4> QED BY <4>1, <3>4, <3>5, <3>6 DEF PointInv
    <3>10. ClientInv(c)'
      BY <3>7, <3>8, <3>9 DEF ClientInv
    <3>11. \A i \in DOMAIN rows' :
             \/ i \in Ids(t.frames)
             \/ i \in DOMAIN rows /\ rows'[i] = rows[i] /\ i \notin Ids(cl[c].frames)
      BY <3>5, <2>4
    <3> QED BY <3>1, <3>5, <3>10, <3>11, <2>1, <2>5, <2>6, WriteStep
  <2> QED BY <2>7, <2>8
<1> QED BY <1>5, <1>6

\* CreateParentAddToFile links the row to the live directory at the Dir of its path.
LEMMA LinkStep ==
    ASSUME TypeInv, Disciplined, DInv, NEW c \in Client, work' = work, Link(c)
    PROVE  DInv'
<1> DEFINE s == cl[c]
           n == Len(s.frames)
           f == Top(s.frames)
           r == [s EXCEPT !.frames = Pop(@)]
           t == Created(r, f.id)
<1>1. /\ s \in ClientState /\ RowsTyped /\ nextId \in Nat /\ s.pc = "link" /\ s.id \in Nat
      /\ s.frames \in Seq(Frame) /\ s.frames # <<>>
      /\ SetParent(f.id, s.id) /\ Go(c, t) /\ UNCHANGED <<nextId, orphaned>>
  BY DEF TypeInv, RowsTyped, Link, Linking, ClientState
<1>2. /\ n \in Nat \ {0} /\ f = s.frames[n] /\ f \in Frame
      /\ Len(Pop(s.frames)) = n - 1
      /\ \A k \in 1..n - 1 : Pop(s.frames)[k] = s.frames[k]
      /\ Pop(s.frames) \in Seq(Frame)
      /\ Ids(s.frames) = Ids(Pop(s.frames)) \cup {f.id}
  BY <1>1, PopProps
<1>3. f.id \in Nat
  BY <1>2 DEF Frame
<1>4. r \in ClientState /\ r.op = s.op /\ r.src = s.src /\ r.to = s.to /\ r.frames = Pop(s.frames)
  BY <1>1, PoppedProps
<1> HIDE DEF r
<1>5. \/ r.frames = <<>> /\ r.op # "rename" /\ t.pc = "idle" /\ t.frames = <<>>
      \/ /\ r.frames # <<>> \/ r.op = "rename"
         /\ t.op = r.op /\ t.frames = r.frames /\ t.src = r.src /\ t.to = r.to
         /\ t.id = f.id
         /\ t.pc = IF r.frames = <<>> THEN "update" ELSE "link"
  BY <1>3, <1>4, CreatedProps
<1> HIDE DEF t
<1>6. cl'[c] = t /\ \A e \in Client \ {c} : cl'[e] = cl[e]
  BY <1>1, GoProps
<1>7. /\ DOMAIN rows' = DOMAIN rows
      /\ \A i \in DOMAIN rows : /\ i # f.id => rows'[i] = rows[i]
                                /\ rows'[i].path = rows[i].path
                                /\ rows'[i].dir = rows[i].dir
                                /\ i = f.id => rows'[i].parent = s.id
  BY <1>1, <1>3, SetParentProps
<1>8. DirsStay /\ \A frames : NotMoved(frames)
  BY <1>1, <1>7 DEF DirsStay, NotMoved
<1>9. FramesInv(c) /\ MovingInv(c) /\ FrameInv(c, n) /\ DirAt(s.id, Dir(f.path))
  <2>1. n \in 1..n
    BY <1>2
  <2> QED BY <2>1, <1>1, <1>2 DEF DInv, ClientInv, FramesInv, PointInv
<1>10. s.id # NoParent
  BY <1>1, <1>9 DEF DirAt, RowsTyped, NoParent
<1>11. \A i \in DOMAIN rows' : RowInv(i)' \/ (i \in DOMAIN rows /\ rows'[i] = rows[i])
  <2> SUFFICES ASSUME NEW i \in DOMAIN rows', i = f.id PROVE RowInv(i)'
    BY <1>7
  <2>1. i \in DOMAIN rows /\ RowInv(i) /\ rows[i].path = f.path
    BY <1>2, <1>7, <1>9 DEF FrameInv, DInv, RowsInv
  <2>2. DirAt(rows[i].parent, Dir(rows[i].path))'
    BY <2>1, <1>7, <1>9 DEF DirAt
  <2> QED BY <2>1, <2>2, <1>7, WorkFixed DEF RowInv
<1>12. Ids(t.frames) = Ids(Pop(s.frames))
  BY <1>4, <1>5
<1>13. \A i \in DOMAIN rows' :
          \/ rows'[i].parent # NoParent
          \/ i \in Ids(t.frames)
          \/ i \in DOMAIN rows /\ rows'[i] = rows[i] /\ i \notin Ids(cl[c].frames)
  BY <1>2, <1>7, <1>10, <1>12
<1>14. ClientInv(c)'
  <2>1. CASE t.pc = "idle" /\ t.frames = <<>>
    BY <2>1, <1>6, StoppedInv
  <2>2. CASE /\ r.frames # <<>> \/ r.op = "rename"
             /\ t.op = r.op /\ t.frames = r.frames /\ t.src = r.src /\ t.to = r.to
             /\ t.id = f.id
             /\ t.pc = IF r.frames = <<>> THEN "update" ELSE "link"
    <3>1. FramesInv(c)'
      <4>1. /\ cl'[c].op = s.op /\ cl'[c].to = s.to
            /\ Len(cl'[c].frames) \in 0..Len(s.frames)
            /\ \A k \in 1..Len(cl'[c].frames) : cl'[c].frames[k] = s.frames[k]
        BY <2>2, <1>2, <1>4, <1>6
      <4> QED BY <4>1, <1>8, <1>9, FramesKept
    <3>2. MovingInv(c)'
      <4>1. NoFrameButNew
        BY <1>2, <1>6, <1>12 DEF NoFrameButNew
      <4>2. CASE Moving(c)
        BY <4>1, <4>2, <2>2, <1>4, <1>6, <1>8, <1>9, MovingKept
      <4>3. CASE ~Moving(c)
        BY <4>3, <2>2, <1>1, <1>4, <1>6 DEF Moving, MovingInv
      <4> QED BY <4>2, <4>3
    <3>3. n - 1 = 0 <=> r.frames = <<>>
      BY <1>2, <1>4, EmptySeq
    <3>4. Wanted(c, n - 1, f.path)
      BY <1>2, <1>9 DEF FrameInv
    <3>5. f.path \in Dirs
      <4>1. n - 1 \in 0..n
        BY <1>2
      <4> QED BY <4>1, <3>3, <3>4, <2>2, <1>1, <1>4, <1>9, WantedIs
    <3>6. DirAt(f.id, f.path)
      BY <3>5, <1>2, <1>9 DEF FrameInv
    <3>7. PointInv(c)'
      <4>1. CASE r.frames = <<>>
        <5>1. f.path = Dir(s.to) /\ s.op = "rename"
          BY <4>1, <3>3, <3>4, <2>2, <1>4 DEF Wanted
        <5>2. DirAt(cl[c].id, Dir(cl[c].to))'
          BY <5>1, <3>6, <2>2, <1>4, <1>6, <1>7 DEF DirAt
        <5> QED BY <5>1, <5>2, <4>1, <2>2, <1>4, <1>6 DEF PointInv
      <4>2. CASE r.frames # <<>>
        <5>1. f.path = Dir(s.frames[n - 1].path)
          BY <4>2, <3>3, <3>4 DEF Wanted
        <5>2. cl'[c].frames[Len(cl'[c].frames)] = s.frames[n - 1]
          <6>1. n - 1 \in 1..n - 1
            <7>1. n \in Nat \ {0} /\ n - 1 # 0
              BY <4>2, <3>3, <1>2
            <7> HIDE DEF n
            <7> QED BY <7>1
          <6> QED BY <6>1, <2>2, <1>2, <1>4, <1>6
        <5>3. DirAt(cl[c].id, Dir(cl[c].frames[Len(cl[c].frames)].path))'
          BY <5>1, <5>2, <3>6, <2>2, <1>6, <1>7 DEF DirAt
        <5> QED BY <5>3, <4>2, <2>2, <1>6 DEF PointInv
      <4> QED BY <4>1, <4>2
    <3> QED BY <3>1, <3>2, <3>7 DEF ClientInv
  <2> QED BY <1>5, <2>1, <2>2
<1> QED BY <1>1, <1>2, <1>8, <1>11, <1>12, <1>13, <1>14, WriteStep

\* RemoveFile takes a file away, which is nobody's parent.
LEMMA DeleteStep ==
    ASSUME TypeInv, Disciplined, DInv, NEW c \in Client, work' = work, Delete(c)
    PROVE  DInv'
<1> DEFINE s == cl[c]
           t == Removed(s, TRUE)
<1>1. /\ s \in ClientState /\ RowsTyped /\ nextId \in Nat /\ s.pc = "delete" /\ s.frames = <<>>
      /\ s.id \in DOMAIN rows => ~rows[s.id].dir
      /\ DeleteRow(s.id) /\ Go(c, t) /\ UNCHANGED <<nextId, orphaned>>
      /\ MovingInv(c)
  BY DEF TypeInv, RowsTyped, Delete, DInv, ClientInv, PointInv
<1>2. \/ s.op # "rename" /\ t.pc = "idle" /\ t.frames = <<>>
      \/ s.op = "rename" /\ t.op = s.op /\ t.pc = "newparent"
           /\ t.frames = s.frames /\ t.src = s.src /\ t.to = s.to
  BY <1>1, RemovedProps
<1> HIDE DEF t
<1>3. cl'[c] = t /\ \A e \in Client \ {c} : cl'[e] = cl[e]
  BY <1>1, GoProps
<1>4. /\ DOMAIN rows' = DOMAIN rows \ {s.id}
      /\ \A i \in DOMAIN rows' : rows'[i] = rows[i]
  BY <1>1, DeleteProps
<1>5. DirsStay /\ \A frames : NotMoved(frames)
  BY <1>1, <1>4 DEF DirsStay, NotMoved
<1>6. t.frames = <<>> /\ Ids(t.frames) = {} /\ Ids(s.frames) = {}
  BY <1>1, <1>2, NoFrames
<1>7. ClientInv(c)'
  <2>1. CASE t.pc = "idle"
    BY <2>1, <1>3, <1>6, StoppedInv
  <2>2. CASE s.op = "rename" /\ t.op = s.op /\ t.pc = "newparent" /\ t.src = s.src /\ t.to = s.to
    <3>1. FramesInv(c)'
      <4>1. Len(t.frames) = 0
        BY <1>6, EmptySeq
      <4> QED BY <4>1, <1>3 DEF FramesInv
    <3>2. NoFrameButNew
      BY <1>3, <1>6 DEF NoFrameButNew
    <3>3. MovingInv(c)'
      BY <3>2, <2>2, <1>1, <1>3, <1>5, MovingKept DEF Moving
    <3>4. PointInv(c)'
      BY <2>2, <1>3, <1>6 DEF PointInv
    <3> QED BY <3>1, <3>3, <3>4 DEF ClientInv
  <2> QED BY <1>2, <2>1, <2>2
<1>8. \A i \in DOMAIN rows' : i \in DOMAIN rows /\ rows'[i] = rows[i] /\ i \notin Ids(cl[c].frames)
  BY <1>4, <1>6
<1> QED BY <1>1, <1>5, <1>6, <1>7, <1>8, WriteStep

\* RenameFile gives the source its path and the parent of that path in one UPDATE.
LEMMA UpdateStep ==
    ASSUME TypeInv, Disciplined, DInv, NEW c \in Client, work' = work, Update(c)
    PROVE  DInv'
<1> DEFINE s == cl[c]
           dup == Duplicate(s.src, s.to)
           ok == ~dup \/ ~s.loud
           t == Return(s, ok)
<1>1. /\ s \in ClientState /\ RowsTyped /\ nextId \in Nat /\ s.pc = "update" /\ s.frames = <<>>
      /\ s.src \in Nat /\ s.to \in Path /\ s.id \in Nat
      /\ (s.id = NoParent /\ Dir(s.to) = Root) \/ DirAt(s.id, Dir(s.to))
      /\ s.to \in Files
      /\ s.src \in DOMAIN rows => ~rows[s.src].dir
      /\ \A d \in Client : s.src \notin Ids(cl[d].frames)
  BY DEF TypeInv, RowsTyped, ClientState, Update, DInv, ClientInv, PointInv, MovingInv, Moving
<1>2. /\ IF dup THEN rows' = rows ELSE SetPathAndParent(s.src, s.to, s.id)
      /\ Go(c, t) /\ UNCHANGED <<nextId, orphaned>>
  BY DEF Update
<1>3. ok \in BOOLEAN
  OBVIOUS
<1> HIDE DEF ok
<1>4. t.pc = "idle" /\ t.frames = <<>>
  BY <1>1, <1>3, ReturnProps
<1> HIDE DEF t
<1>5. CASE dup
  BY <1>1, <1>2, <1>4, <1>5, StopStep
<1>6. CASE ~dup
  <2>1. /\ DOMAIN rows' = DOMAIN rows
        /\ \A i \in DOMAIN rows : /\ i # s.src => rows'[i] = rows[i]
                                  /\ rows'[i].dir = rows[i].dir
                                  /\ i = s.src => rows'[i].path = s.to /\ rows'[i].parent = s.id
    BY <1>1, <1>2, <1>6, SetPathAndParentProps
  <2>2. DirsStay
    BY <2>1, <1>1, <1>2 DEF DirsStay
  <2>3. \A d \in Client : NotMoved(cl[d].frames)
    BY <2>1, <1>1 DEF NotMoved
  <2>4. \A i \in DOMAIN rows' : RowInv(i)' \/ (i \in DOMAIN rows /\ rows'[i] = rows[i])
    <3> SUFFICES ASSUME NEW i \in DOMAIN rows', i = s.src PROVE RowInv(i)'
      BY <2>1
    <3>1. rows'[i].path = s.to /\ rows'[i].parent = s.id /\ ~rows'[i].dir
      BY <2>1, <1>1
    <3>2. s.to \notin Dirs
      BY <1>1, PathFacts
    <3>3. s.id # NoParent => DirAt(rows[i].parent, Dir(rows[i].path))'
      BY <3>1, <2>1, <1>1 DEF DirAt
    <3> QED BY <3>1, <3>2, <3>3, <1>1, WorkFixed DEF RowInv
  <2>5. \A i \in DOMAIN rows' :
          \/ rows'[i].parent # NoParent
          \/ Dir(rows'[i].path) = Root
          \/ i \in DOMAIN rows /\ rows'[i] = rows[i] /\ i \notin Ids(cl[c].frames)
    <3>1. Ids(s.frames) = {}
      BY <1>1, NoFrames
    <3> QED BY <3>1, <2>1, <1>1 DEF DirAt, RowsTyped, NoParent
  <2>6. cl'[c] = t /\ Ids(t.frames) = {}
    BY <1>2, <1>4, GoProps, NoFrames
  <2>7. ClientInv(c)'
    BY <2>6, <1>4, StoppedInv
  <2> QED BY <2>2, <2>3, <2>4, <2>5, <2>6, <2>7, <1>2, WriteStep
<1> QED BY <1>5, <1>6

\* Every statement of every client keeps the invariant.
LEMMA DStep ==
    ASSUME TypeInv, Disciplined, DInv, [Next]_vars
    PROVE  DInv'
<1>1. ASSUME NEW c \in Client, Step(c), work' = work
      PROVE  DInv'
  BY <1>1, StartStep, OpenStep, LookupStep, InsertStep, RelookupStep, LinkStep, FindStep,
     ChildrenStep, DeleteStep, SourceStep, NoMove, NewParentStep, UpdateStep, DieStep DEF Step
<1>2. CASE UNCHANGED vars
  <2> USE <1>2 DEF vars
  <2>1. Files' = Files /\ Dirs' = Dirs
    BY WorkFixed
  <2>2. RowsInv' = RowsInv /\ UnlinkedInv' = UnlinkedInv
    BY <2>1 DEF RowsInv, RowInv, DirAt, UnlinkedInv
  <2>3. \A c \in Client : FramesInv(c)' = FramesInv(c)
    BY <2>1 DEF FramesInv, FrameInv, Wanted, DirAt
  <2>4. \A c \in Client : MovingInv(c)' = MovingInv(c)
    BY <2>1 DEF MovingInv, Moving
  <2>5. \A c \in Client : PointInv(c)' = PointInv(c)
    BY <2>1 DEF PointInv, Wanted, DirAt
  <2> QED BY <2>2, <2>3, <2>4, <2>5 DEF DInv, ClientInv
<1> QED BY <1>1, <1>2 DEF Next

\* The table starts empty.
LEMMA DInit == Init => DInv
<1> SUFFICES ASSUME Init PROVE DInv
  OBVIOUS
<1>1. TypeInv /\ rows = <<>>
  BY InitTypes DEF Init
<1>2. DOMAIN rows = {}
  BY <1>1, EmptySeq DEF RowsTyped, TypeInv, Init
<1>3. \A c \in Client : cl[c].pc = "idle" /\ cl[c].frames = <<>>
  BY DEF Init, Idle
<1>4. Len(<<>>) = 0
  BY EmptySeq
<1>5. ASSUME NEW c \in Client PROVE ClientInv(c)
  <2>1. Len(cl[c].frames) = 0
    BY <1>3, <1>4
  <2>2. FramesInv(c)
    BY <2>1 DEF FramesInv
  <2> QED BY <2>2, <1>3 DEF ClientInv, MovingInv, Moving, PointInv
<1> QED BY <1>2, <1>5 DEF DInv, RowsInv, UnlinkedInv

\* The invariant holds in every state of a disciplined workload.
LEMMA DHolds == Spec => [](Disciplined => DInv)
<1>1. Init => (Disciplined => DInv)
  BY DInit
<1>2. TypeInv /\ (Disciplined => DInv) /\ [Next]_vars => (Disciplined => DInv)'
  <2> SUFFICES ASSUME TypeInv, Disciplined => DInv, [Next]_vars, Disciplined'
               PROVE  DInv'
    OBVIOUS
  <2>1. work' = work
    BY DEF Next, vars
  <2> QED BY <2>1, WorkFixed, DStep
<1> QED BY <1>1, <1>2, TypesHold, PTL DEF Spec

\* While paths are used as files or as directories, and directories are neither
\* renamed nor removed, the two ways into the tree, parentID and path, agree
\* after every statement of any number of processes, also when some of them die.
THEOREM LinkedToDirHolds == Spec => []LinkedToDir
<1>1. (Disciplined => DInv) => LinkedToDir
  BY DEF DInv, RowsInv, RowInv, DirAt, LinkedToDir
<1> QED BY <1>1, DHolds, PTL

\* A row that shows up in the wrong directory, the root, is one that a call is
\* still working on, or one that a failed call left behind.
THEOREM UnlinkedIsInProgressHolds == Spec => []UnlinkedIsInProgress
<1>1. (Disciplined => DInv) => UnlinkedIsInProgress
  BY DEF DInv, UnlinkedInv, UnlinkedIsInProgress
<1> QED BY <1>1, DHolds, PTL

-----------------------------------------------------------------------------
(***************************************************************************)
(* The invariant of one client that is alone: between its statements       *)
(* nothing happens, so what it has read stays true.  Parents are           *)
(* directories, so a file that is removed without a look at its children   *)
(* has none.                                                               *)
(***************************************************************************)
IsDir(i) == i \in DOMAIN rows /\ rows[i].dir

LoneRow(a, i) ==
    /\ rows[i].parent # NoParent => IsDir(rows[i].parent)
    /\ ~rows[i].dir => FilePlace(a, rows[i].path)

LoneFrame(a, k) ==
    /\ cl[a].frames[k].id \in DOMAIN rows
    /\ k # 1 \/ cl[a].op # "open" => rows[cl[a].frames[k].id].dir

LonePoint(a) ==
    LET s == cl[a]
    IN  /\ s.pc \in {"open", "lookup", "insert", "relookup"} /\ s.op = "open" /\ s.frames = <<>>
              => s.path \in work.creates[a]
        /\ s.pc \in {"open", "source", "find", "children", "delete"} => s.frames = <<>>
        /\ s.pc = "relookup" => (s.frames # <<>> \/ s.op = "rename") /\ IsDir(IdAt(s.path))
        /\ s.pc \in {"link", "update"} => s.id = NoParent \/ IsDir(s.id)
        /\ s.pc = "children" => s.id \in DOMAIN rows /\ s.isDir = rows[s.id].dir
        /\ s.pc = "delete" =>
              s.id \in DOMAIN rows /\ (rows[s.id].dir => ChildrenOf(s.id) = {})
        /\ s.pc \in {"kids", "move"} => s.op = "rename" /\ (s.src \in DOMAIN rows => rows[s.src].dir)
        /\ s.pc \in {"source", "newparent", "update"} => s.op = "rename"
        /\ s.op = "rename" /\ s.pc \notin {"idle", "dead"} =>
              \E r \in work.renames[a] : r[2] = s.to

LoneInv(a) ==
    /\ \A d \in Client \ {a} : cl[d].pc = "idle"
    /\ \A i \in DOMAIN rows : LoneRow(a, i)
    /\ \A k \in 1..Len(cl[a].frames) : LoneFrame(a, k)
    /\ LonePoint(a)

\* The workload does not change, nor do the places of its files.
LEMMA FilePlaceFixed ==
    ASSUME work' = work, NEW a, NEW p
    PROVE  FilePlace(a, p)' <=> FilePlace(a, p)
BY DEF FilePlace

\* Rows stay, and stay what they are.
RowsStay ==
    \A i \in DOMAIN rows : i \in DOMAIN rows' /\ rows'[i].dir = rows[i].dir

\* Rows that are as before keep their part of the invariant.
LEMMA LoneRowsKept ==
    ASSUME RowsStay, work' = work, NEW a, \A i \in DOMAIN rows : LoneRow(a, i),
           \A i \in DOMAIN rows' : LoneRow(a, i)' \/ (i \in DOMAIN rows /\ rows'[i] = rows[i])
    PROVE  \A i \in DOMAIN rows' : LoneRow(a, i)'
<1> SUFFICES ASSUME NEW i \in DOMAIN rows', i \in DOMAIN rows, rows'[i] = rows[i]
             PROVE  LoneRow(a, i)'
  OBVIOUS
<1>1. LoneRow(a, i)
  OBVIOUS
<1> QED BY <1>1, FilePlaceFixed DEF LoneRow, IsDir, RowsStay

\* Frames that are as before keep theirs.
LEMMA LoneFramesKept ==
    ASSUME RowsStay, NEW a, \A k \in 1..Len(cl[a].frames) : LoneFrame(a, k),
           cl'[a].op = cl[a].op,
           \A k \in 1..Len(cl'[a].frames) :
              k \in 1..Len(cl[a].frames) /\ cl'[a].frames[k] = cl[a].frames[k]
    PROVE  \A k \in 1..Len(cl'[a].frames) : LoneFrame(a, k)'
BY DEF LoneFrame, RowsStay

\* A statement of the lone client that only reads.
LEMMA LoneRead ==
    ASSUME TypeInv, NEW a \in Client, LoneInv(a), NEW t, Go(a, t),
           UNCHANGED <<rows, nextId, work>>,
           t.frames = <<>> \/ (t.frames = cl[a].frames /\ t.op = cl[a].op),
           t.pc \in {"idle", "dead"} \/ LonePoint(a)'
    PROVE  LoneInv(a)'
<1>1. cl'[a] = t /\ \A d \in Client \ {a} : cl'[d] = cl[d]
  BY GoProps
<1>2. \A d \in Client \ {a} : cl'[d].pc = "idle"
  BY <1>1 DEF LoneInv
<1>3. RowsStay
  BY DEF RowsStay
<1>4. \A i \in DOMAIN rows' : LoneRow(a, i)'
  BY <1>3, LoneRowsKept DEF LoneInv
<1>5. \A k \in 1..Len(cl'[a].frames) : LoneFrame(a, k)'
  <2>1. CASE t.frames = <<>>
    BY <2>1, <1>1, EmptySeq
  <2>2. CASE t.frames = cl[a].frames /\ t.op = cl[a].op
    BY <2>2, <1>1, <1>3, LoneFramesKept DEF LoneInv
  <2> QED BY <2>1, <2>2
<1>6. LonePoint(a)'
  <2>1. CASE t.pc \in {"idle", "dead"}
    BY <2>1, <1>1 DEF LonePoint
  <2> QED BY <2>1
<1> QED BY <1>2, <1>4, <1>5, <1>6 DEF LoneInv

\* Nobody else ever starts.
LEMMA LoneStep ==
    ASSUME TypeInv, NEW a \in Client, Lone(a), LoneInv(a), NEW c \in Client, Step(c)
    PROVE  c = a
<1> SUFFICES ASSUME c # a PROVE FALSE
  OBVIOUS
<1>1. cl[c].pc = "idle"
  BY DEF LoneInv
<1>2. /\ work.creates[c] = {} /\ work.mkdirs[c] = {} /\ work.removes[c] = {}
      /\ work.renames[c] = {}
  BY DEF Lone
<1>3. ~StartOpen(c) /\ ~StartMkdirAll(c) /\ ~StartRemove(c) /\ ~StartRename(c)
  BY <1>2 DEF StartOpen, StartMkdirAll, StartRemove, StartRename
<1>4. /\ ~Open(c) /\ ~Lookup(c) /\ ~Insert(c) /\ ~Relookup(c) /\ ~Link(c) /\ ~Find(c)
      /\ ~Children(c) /\ ~Delete(c) /\ ~Source(c) /\ ~Kids(c) /\ ~Move(c) /\ ~NewParent(c)
      /\ ~Update(c) /\ ~Die(c)
  BY <1>1 DEF Open, Lookup, Insert, Relookup, Link, Find, Children, Delete, Source, Kids, Move,
         NewParent, Update, Die
<1> QED BY <1>3, <1>4 DEF Step

\* The lone client starts a call.
LEMMA LoneStart ==
    ASSUME TypeInv, NEW a \in Client, LoneInv(a), work' = work,
           StartOpen(a) \/ StartMkdirAll(a) \/ StartRemove(a) \/ StartRename(a)
    PROVE  LoneInv(a)'
<1>1. ASSUME NEW t, Start(a, t), t.frames = <<>>, LonePoint(a)'
      PROVE  LoneInv(a)'
  BY <1>1, LoneRead DEF Start
<1>2. ASSUME NEW t, Start(a, t) PROVE cl'[a] = t
  BY <1>2, GoProps DEF Start
<1> DEFINE T(op, pc, p) == [Idle EXCEPT !.op = op, !.pc = pc, !.path = p]
<1>3. CASE StartOpen(a)
  <2>1. PICK p \in work.creates[a] : Start(a, T("open", "open", p))
    BY <1>3 DEF StartOpen
  <2> DEFINE t == T("open", "open", p)
  <2>2. t.op = "open" /\ t.pc = "open" /\ t.path = p /\ t.frames = <<>>
    BY DEF Idle
  <2>3. Start(a, t)
    BY <2>1
  <2> HIDE DEF t
  <2>4. LonePoint(a)'
    BY <2>2, <2>3, <1>2 DEF LonePoint
  <2> QED BY <2>2, <2>3, <2>4, <1>1
<1>4. CASE StartMkdirAll(a)
  <2>1. PICK p \in work.mkdirs[a] : Start(a, T("mkdir", "lookup", p))
    BY <1>4 DEF StartMkdirAll
  <2> DEFINE t == T("mkdir", "lookup", p)
  <2>2. t.op = "mkdir" /\ t.pc = "lookup" /\ t.frames = <<>>
    BY DEF Idle
  <2>3. Start(a, t)
    BY <2>1
  <2> HIDE DEF t
  <2>4. LonePoint(a)'
    BY <2>2, <2>3, <1>2 DEF LonePoint
  <2> QED BY <2>2, <2>3, <2>4, <1>1
<1>5. CASE StartRemove(a)
  <2>1. PICK p \in work.removes[a] : Start(a, T("remove", "find", p))
    BY <1>5 DEF StartRemove
  <2> DEFINE t == T("remove", "find", p)
  <2>2. t.op = "remove" /\ t.pc = "find" /\ t.frames = <<>>
    BY DEF Idle
  <2>3. Start(a, t)
    BY <2>1
  <2> HIDE DEF t
  <2>4. LonePoint(a)'
    BY <2>2, <2>3, <1>2 DEF LonePoint
  <2> QED BY <2>2, <2>3, <2>4, <1>1
<1>6. CASE StartRename(a)
  <2> DEFINE R(r) == [Idle EXCEPT !.op = "rename", !.pc = "source", !.path = r[1], !.to = r[2]]
  <2>1. PICK r \in work.renames[a] : Start(a, R(r))
    BY <1>6 DEF StartRename
  <2> DEFINE t == R(r)
  <2>2. t.op = "rename" /\ t.pc = "source" /\ t.to = r[2] /\ t.frames = <<>>
    BY DEF Idle
  <2>3. Start(a, t)
    BY <2>1
  <2> HIDE DEF t
  <2>4. LonePoint(a)'
    BY <2>2, <2>3, <1>2 DEF LonePoint
  <2> QED BY <2>2, <2>3, <2>4, <1>1
<1> QED BY <1>3, <1>4, <1>5, <1>6

\* NewFile and createParent, as far as they read.
LEMMA LoneLookups ==
    ASSUME TypeInv, NEW a \in Client, LoneInv(a), work' = work,
           Open(a) \/ Lookup(a) \/ Relookup(a) \/ Die(a)
    PROVE  LoneInv(a)'
<1> DEFINE s == cl[a]
           i == IdAt(s.path)
<1>1. s \in ClientState /\ RowsTyped /\ LonePoint(a)
  BY DEF TypeInv, LoneInv
<1>2. i \in Nat /\ (i # NoParent => i \in DOMAIN rows)
  BY <1>1, IdAtProps
<1>3. ASSUME NEW t, Go(a, t), UNCHANGED <<rows, nextId>>,
             t \in {Return(s, TRUE), Return(s, FALSE), Dead(s)}
      PROVE  LoneInv(a)'
  <2>1. ASSUME NEW ok \in BOOLEAN
        PROVE  /\ Return(s, ok).pc = "idle" /\ Return(s, ok).frames = <<>>
               /\ Dead(s).pc = "dead" /\ Dead(s).frames = <<>>
    BY <1>1, ReturnProps
  <2>2. TRUE \in BOOLEAN /\ FALSE \in BOOLEAN
    OBVIOUS
  <2>3. t.pc \in {"idle", "dead"} /\ t.frames = <<>>
    BY <2>1, <2>2, <1>3
  <2> QED BY <2>3, <1>3, LoneRead
<1>4. ASSUME NEW pc, Go(a, [s EXCEPT !.pc = pc]), UNCHANGED <<rows, nextId>>,
             s.pc \in {"open", "lookup"},
             pc \in {"lookup", "insert"}
               \/ (pc = "relookup" /\ IsDir(i) /\ (s.frames # <<>> \/ s.op = "rename"))
      PROVE  LoneInv(a)'
  <2> DEFINE t == [s EXCEPT !.pc = pc]
  <2>1. /\ t.pc = pc /\ t.op = s.op /\ t.frames = s.frames /\ t.to = s.to /\ t.path = s.path
    BY <1>1 DEF ClientState
  <2>2. Go(a, t)
    BY <1>4
  <2> HIDE DEF t
  <2>3. cl'[a] = t
    BY <2>2, GoProps
  <2>4. pc = "relookup" => IsDir(IdAt(cl[a].path))'
    BY <2>1, <2>3, <1>4 DEF IsDir, IdAt, At
  <2>5. LonePoint(a)'
    BY <2>1, <2>3, <2>4, <1>1, <1>4 DEF LonePoint
  <2> QED BY <2>1, <2>2, <2>5, <1>4, LoneRead
<1>5. CASE Open(a)
  <2>1. CASE i = NoParent
    BY <2>1, <1>4, <1>5 DEF Open
  <2>2. CASE i # NoParent
    <3>1. rows[i].dir \in BOOLEAN
      BY <2>2, <1>1, <1>2 DEF RowsTyped, Row
    <3>2. Go(a, Return(s, TRUE)) \/ Go(a, Return(s, FALSE))
      BY <2>2, <3>1, <1>5 DEF Open
    <3> QED BY <3>2, <1>3, <1>5 DEF Open
  <2> QED BY <2>1, <2>2
<1>6. CASE Lookup(a)
  <2>1. CASE i = NoParent
    BY <2>1, <1>4, <1>6 DEF Lookup
  <2>2. CASE i # NoParent /\ ~rows[i].dir
    BY <2>2, <1>3, <1>6 DEF Lookup, Finish
  <2>3. CASE i # NoParent /\ rows[i].dir
    <3>1. IsDir(i)
      BY <2>3, <1>2 DEF IsDir
    <3>2. CASE s.frames # <<>> \/ s.op = "rename"
      BY <2>3, <3>1, <3>2, <1>4, <1>6 DEF Lookup
    <3>3. CASE ~(s.frames # <<>> \/ s.op = "rename")
      <4>1. Go(a, Return(s, TRUE)) \/ Go(a, Dead(s))
        BY <2>3, <3>3, <1>6 DEF Lookup
      <4> QED BY <4>1, <1>3, <1>6 DEF Lookup
    <3> QED BY <3>2, <3>3
  <2> QED BY <2>1, <2>2, <2>3
<1>7. CASE Relookup(a)
  <2> DEFINE t == ParentReady(s, i)
  <2>1. IsDir(i) /\ s.pc = "relookup" /\ (s.frames # <<>> \/ s.op = "rename")
    BY <1>1, <1>7 DEF LonePoint, Relookup
  <2>2. i # NoParent
    BY <2>1, <1>1 DEF IsDir, RowsTyped, NoParent
  <2>3. Go(a, t) /\ UNCHANGED <<rows, nextId>>
    BY <2>2, <1>7 DEF Relookup
  <2>4. /\ t.op = s.op /\ t.frames = s.frames /\ t.to = s.to /\ t.id = i
        /\ t.pc = IF s.frames = <<>> THEN "update" ELSE "link"
    BY <1>1, <1>2, ParentReadyProps
  <2> HIDE DEF t, i
  <2>5. cl'[a] = t
    BY <2>3, GoProps
  <2>6. IsDir(cl[a].id)'
    BY <2>1, <2>3, <2>4, <2>5 DEF IsDir
  <2>7. LonePoint(a)'
    BY <2>1, <2>4, <2>5, <2>6, <1>1 DEF LonePoint
  <2> QED BY <2>7, <2>3, <2>4, LoneRead
<1>8. CASE Die(a)
  BY <1>3, <1>8 DEF Die, Finish
<1> QED BY <1>5, <1>6, <1>7, <1>8

\* RemoveFile and RenameFile, as far as they read.
LEMMA LoneReads ==
    ASSUME TypeInv, NEW a \in Client, Lone(a), LoneInv(a), work' = work,
           Find(a) \/ Children(a) \/ Source(a) \/ Kids(a) \/ NewParent(a)
    PROVE  LoneInv(a)'
<1> DEFINE s == cl[a]
           i == IdAt(s.path)
<1>1. s \in ClientState /\ RowsTyped /\ LonePoint(a) /\ UNCHANGED <<rows, nextId>>
  BY DEF TypeInv, LoneInv, Find, Children, Source, Kids, NewParent
<1>2. i \in Nat /\ (i # NoParent => i \in DOMAIN rows /\ rows[i].path = s.path)
  BY <1>1, IdAtProps
<1>3. ASSUME s.pc \in {"find", "children"}, Go(a, Removed(s, FALSE))
      PROVE  LoneInv(a)'
  <2> DEFINE t == Removed(s, FALSE)
  <2>1. \/ s.op # "rename" /\ t.pc = "idle" /\ t.frames = <<>>
        \/ /\ s.op = "rename" /\ t.op = s.op /\ t.pc = "newparent"
           /\ t.frames = s.frames /\ t.to = s.to
    BY <1>1, RemovedProps
  <2>2. Go(a, t)
    BY <1>3
  <2> HIDE DEF t
  <2>3. cl'[a] = t
    BY <2>2, GoProps
  <2>4. s.op = "rename" => LonePoint(a)'
    BY <2>1, <2>3, <1>1, <1>3 DEF LonePoint
  <2> QED BY <2>1, <2>2, <2>4, <1>1, LoneRead
<1>4. CASE Find(a)
  <2>1. CASE i = NoParent
    BY <2>1, <1>3, <1>4 DEF Find
  <2>2. CASE i # NoParent
    <3> DEFINE t == [s EXCEPT !.pc = "children", !.id = i, !.isDir = rows[i].dir]
    <3>1. Go(a, t) /\ s.pc = "find"
      BY <2>2, <1>4 DEF Find
    <3>2. /\ t.pc = "children" /\ t.op = s.op /\ t.frames = s.frames /\ t.to = s.to
          /\ t.id = i /\ t.isDir = rows[i].dir
      BY <1>1 DEF ClientState
    <3> HIDE DEF t, i
    <3>3. cl'[a] = t
      BY <3>1, GoProps
    <3>4. LonePoint(a)'
      BY <2>2, <3>1, <3>2, <3>3, <1>1, <1>2 DEF LonePoint
    <3> QED BY <3>1, <3>2, <3>4, <1>1, LoneRead
  <2> QED BY <2>1, <2>2
<1>5. CASE Children(a)
  <2>1. CASE s.isDir /\ ChildrenOf(s.id) # {}
    BY <2>1, <1>3, <1>5 DEF Children
  <2>2. CASE ~(s.isDir /\ ChildrenOf(s.id) # {})
    <3> DEFINE t == [s EXCEPT !.pc = "delete"]
    <3>1. Go(a, t) /\ s.pc = "children"
      BY <2>2, <1>5 DEF Children
    <3>2. /\ t.pc = "delete" /\ t.op = s.op /\ t.frames = s.frames /\ t.to = s.to /\ t.id = s.id
      BY <1>1 DEF ClientState
    <3> HIDE DEF t
    <3>3. cl'[a] = t
      BY <3>1, GoProps
    <3>4. s.id \in DOMAIN rows /\ (rows[s.id].dir => ChildrenOf(s.id) = {})
      BY <2>2, <3>1, <1>1 DEF LonePoint
    <3>5. (ChildrenOf(cl[a].id) = {})' <=> ChildrenOf(s.id) = {}
      BY <3>2, <3>3, <1>1 DEF ChildrenOf
    <3>6. LonePoint(a)'
      BY <3>1, <3>2, <3>3, <3>4, <3>5, <1>1 DEF LonePoint
    <3> QED BY <3>1, <3>2, <3>6, <1>1, LoneRead
  <2> QED BY <2>1, <2>2
<1>6. CASE Source(a)
  <2>1. CASE i = NoParent
    <3>1. Go(a, Return(s, FALSE))
      BY <2>1, <1>6 DEF Source
    <3>2. Return(s, FALSE).pc = "idle" /\ Return(s, FALSE).frames = <<>>
      BY <1>1, ReturnProps
    <3> QED BY <3>1, <3>2, <1>1, LoneRead
  <2>2. CASE i # NoParent /\ rows[i].dir
    <3> DEFINE t == [s EXCEPT !.pc = "kids", !.src = i]
    <3>1. Go(a, t) /\ s.pc = "source"
      BY <2>2, <1>6 DEF Source
    <3>2. /\ t.pc = "kids" /\ t.op = s.op /\ t.frames = s.frames /\ t.to = s.to /\ t.src = i
      BY <1>1 DEF ClientState
    <3> HIDE DEF t, i
    <3>3. cl'[a] = t
      BY <3>1, GoProps
    <3>4. LonePoint(a)'
      BY <2>2, <3>1, <3>2, <3>3, <1>1 DEF LonePoint
    <3> QED BY <3>1, <3>2, <3>4, <1>1, LoneRead
  <2>3. CASE i # NoParent /\ ~rows[i].dir
    <3> DEFINE t == [s EXCEPT !.pc = "find", !.src = i, !.path = s.to]
    <3>1. Go(a, t) /\ s.pc = "source"
      BY <2>3, <1>6 DEF Source
    <3>2. /\ t.pc = "find" /\ t.op = s.op /\ t.frames = s.frames /\ t.to = s.to
      BY <1>1 DEF ClientState
    <3> HIDE DEF t, i
    <3>3. cl'[a] = t
      BY <3>1, GoProps
    <3>4. LonePoint(a)'
      BY <3>1, <3>2, <3>3, <1>1 DEF LonePoint
    <3> QED BY <3>1, <3>2, <3>4, <1>1, LoneRead
  <2> QED BY <2>1, <2>2, <2>3
<1>7. CASE Kids(a)
  <2> DEFINE t == [s EXCEPT !.pc = "move", !.kids = ChildrenOf(s.src)]
  <2>1. Go(a, t) /\ s.pc = "kids"
    BY <1>7 DEF Kids
  <2>2. /\ t.pc = "move" /\ t.op = s.op /\ t.frames = s.frames /\ t.to = s.to /\ t.src = s.src
    BY <1>1 DEF ClientState
  <2> HIDE DEF t
  <2>3. cl'[a] = t
    BY <2>1, GoProps
  <2>4. LonePoint(a)'
    BY <2>1, <2>2, <2>3, <1>1 DEF LonePoint
  <2> QED BY <2>1, <2>2, <2>4, <1>1, LoneRead
<1>8. CASE NewParent(a)
  <2> DEFINE j == IdAt(Dir(s.to))
  <2>0. s.pc = "newparent" /\ s.op = "rename" /\ \E r \in work.renames[a] : r[2] = s.to
    BY <1>1, <1>8 DEF NewParent, LonePoint
  <2>1. CASE j # NoParent
    <3>1. j \in DOMAIN rows /\ rows[j].path = Dir(s.to)
      BY <2>1, <1>1, IdAtProps
    <3>2. ~FilePlace(a, Dir(s.to))
      BY <2>0 DEF Lone
    <3>3. IsDir(j)
      BY <3>1, <3>2 DEF LoneInv, LoneRow, IsDir
    <3> DEFINE t == [s EXCEPT !.pc = "update", !.id = j, !.loud = TRUE]
    <3>4. Go(a, t)
      BY <2>1, <1>8 DEF NewParent
    <3>5. /\ t.pc = "update" /\ t.op = s.op /\ t.frames = s.frames /\ t.to = s.to /\ t.id = j
      BY <1>1 DEF ClientState
    <3> HIDE DEF t, j
    <3>6. cl'[a] = t
      BY <3>4, GoProps
    <3>7. LonePoint(a)'
      BY <2>0, <3>3, <3>5, <3>6, <1>1 DEF LonePoint, IsDir
    <3> QED BY <3>4, <3>5, <3>7, <1>1, LoneRead
  <2>2. CASE j = NoParent /\ Dir(s.to) = Root
    <3> DEFINE t(id) == ParentReady(s, id)
    <3>1. Go(a, t(NoParent))
      BY <2>2, <1>8 DEF NewParent
    <3>2. ASSUME NEW id \in Nat
          PROVE  /\ t(id).pc \in {"update", "link"} /\ t(id).op = s.op
                 /\ t(id).frames = s.frames /\ t(id).to = s.to /\ t(id).id = id
      BY <1>1, ParentReadyProps
    <3>3. NoParent \in Nat
      BY DEF NoParent
    <3> HIDE DEF t, j
    <3>4. cl'[a] = t(NoParent)
      BY <3>1, GoProps
    <3>5. LonePoint(a)'
      BY <2>0, <3>2, <3>3, <3>4, <1>1 DEF LonePoint
    <3> QED BY <3>1, <3>2, <3>3, <3>5, <1>1, LoneRead
  <2>3. CASE j = NoParent /\ Dir(s.to) # Root
    <3> DEFINE t == CreateParent(s, s.to)
    <3>1. Go(a, t) /\ s.to \in Path
      BY <2>3, <1>1, <1>8 DEF NewParent, ClientState
    <3>2. t.pc = "lookup" /\ t.op = s.op /\ t.frames = s.frames /\ t.to = s.to
      BY <3>1, <1>1, CreateParentProps
    <3> HIDE DEF t, j
    <3>3. cl'[a] = t
      BY <3>1, GoProps
    <3>4. LonePoint(a)'
      BY <2>0, <3>2, <3>3, <1>1 DEF LonePoint
    <3> QED BY <3>1, <3>2, <3>4, <1>1, LoneRead
  <2> QED BY <2>1, <2>2, <2>3
<1> QED BY <1>4, <1>5, <1>6, <1>7, <1>8

\* A statement of the lone client that writes and takes no row away.
LEMMA LoneWrite ==
    ASSUME TypeInv, NEW a \in Client, LoneInv(a), NEW t, Go(a, t), work' = work, RowsStay,
           \A i \in DOMAIN rows' : LoneRow(a, i)' \/ (i \in DOMAIN rows /\ rows'[i] = rows[i]),
           \A k \in 1..Len(t.frames) : LoneFrame(a, k)',
           t.pc \in {"idle", "dead"} \/ LonePoint(a)'
    PROVE  LoneInv(a)'
<1>1. cl'[a] = t /\ \A d \in Client \ {a} : cl'[d] = cl[d]
  BY GoProps
<1>2. \A d \in Client \ {a} : cl'[d].pc = "idle"
  BY <1>1 DEF LoneInv
<1>3. \A i \in DOMAIN rows' : LoneRow(a, i)'
  BY LoneRowsKept DEF LoneInv
<1>4. LonePoint(a)'
  <2>1. CASE t.pc \in {"idle", "dead"}
    BY <2>1, <1>1 DEF LonePoint
  <2> QED BY <2>1
<1> QED BY <1>1, <1>2, <1>3, <1>4 DEF LoneInv

\* The row that NewFile inserts is a file only where OpenFile creates one.
LEMMA LoneInsert ==
    ASSUME TypeInv, NEW a \in Client, LoneInv(a), work' = work, Insert(a)
    PROVE  LoneInv(a)'
<1> DEFINE s == cl[a]
           n == Len(s.frames)
           f == [id |-> nextId, path |-> s.path]
           r == [s EXCEPT !.frames = Append(@, f)]
           d == s.op # "open" \/ s.frames # <<>>
<1>1. /\ s \in ClientState /\ RowsTyped /\ nextId \in Nat /\ s.pc = "insert" /\ s.path \in Path
      /\ s.frames \in Seq(Frame) /\ LonePoint(a)
  BY DEF TypeInv, RowsTyped, Insert, ClientState, LoneInv
<1>2. n \in Nat /\ (s.frames = <<>> <=> n = 0) /\ 1..(n + 1) = 1..n \cup {n + 1}
  BY <1>1, EmptySeq, LenProperties
<1>3. ~d => s.path \in work.creates[a]
  BY <1>1 DEF LonePoint
<1>4. s.op = "rename" => \E q \in work.renames[a] : q[2] = s.to
  BY <1>1 DEF LonePoint
<1>5. CASE At(s.path) # {}
  <2>1. Go(a, Return(s, FALSE)) /\ UNCHANGED <<rows, nextId>>
    BY <1>5 DEF Insert, Finish
  <2>2. Return(s, FALSE).pc = "idle" /\ Return(s, FALSE).frames = <<>>
    BY <1>1, ReturnProps
  <2> QED BY <2>1, <2>2, LoneRead
<1>6. CASE At(s.path) = {}
  <2>1. /\ InsertRow(s.path, d)
        /\ Go(a, IF Dir(s.path) = Root THEN Created(s, nextId) ELSE CreateParent(r, s.path))
    BY <1>6 DEF Insert
  <2>2. d \in BOOLEAN
    OBVIOUS
  <2>3. s.op # "open" \/ s.frames # <<>> <=> d
    OBVIOUS
  <2> HIDE DEF d
  <2>4. /\ DOMAIN rows' = DOMAIN rows \cup {nextId}
        /\ nextId \notin DOMAIN rows
        /\ \A i \in DOMAIN rows : rows'[i] = rows[i]
        /\ rows'[nextId].path = s.path
        /\ rows'[nextId].parent = NoParent
        /\ rows'[nextId].dir = d
    BY <2>1, <2>2, <1>1, InsertProps
  <2>5. RowsStay
    BY <2>4 DEF RowsStay
  <2>6. \A i \in DOMAIN rows' : LoneRow(a, i)' \/ (i \in DOMAIN rows /\ rows'[i] = rows[i])
    <3> SUFFICES ASSUME NEW i \in DOMAIN rows', i = nextId PROVE LoneRow(a, i)'
      BY <2>4
    <3>1. rows'[i].path = s.path /\ rows'[i].dir = d /\ rows'[i].parent = NoParent
      BY <2>4
    <3>2. ~rows'[i].dir => rows'[i].path \in work.creates[a]
      BY <3>1, <1>3
    <3>3. ~rows'[i].dir => FilePlace(a, rows[i].path)'
      BY <3>2 DEF FilePlace
    <3> QED BY <3>1, <3>3 DEF LoneRow
  <2>7. CASE Dir(s.path) = Root
    <3> DEFINE t == Created(s, nextId)
    <3>1. Go(a, t)
      BY <2>1, <2>7
    <3>2. \/ s.frames = <<>> /\ s.op # "rename" /\ t.pc = "idle" /\ t.frames = <<>>
          \/ /\ s.frames # <<>> \/ s.op = "rename"
             /\ t.op = s.op /\ t.frames = s.frames /\ t.to = s.to
             /\ t.id = nextId
             /\ t.pc = IF s.frames = <<>> THEN "update" ELSE "link"
      BY <1>1, CreatedProps
    <3> HIDE DEF t
    <3>3. cl'[a] = t
      BY <3>1, GoProps
    <3>4. \A k \in 1..Len(t.frames) : LoneFrame(a, k)'
      <4>1. CASE t.frames = <<>>
        BY <4>1, EmptySeq
      <4>2. CASE t.frames = s.frames /\ t.op = s.op
        BY <4>2, <3>3, <2>5, LoneFramesKept DEF LoneInv
      <4> QED BY <3>2, <4>1, <4>2
    <3>5. t.pc = "idle" \/ LonePoint(a)'
      <4> SUFFICES ASSUME t.pc # "idle" PROVE LonePoint(a)'
        OBVIOUS
      <4>1. (s.frames # <<>> \/ s.op = "rename") /\ d
        BY <3>2, <2>3
      <4>2. IsDir(cl[a].id)'
        BY <4>1, <3>2, <3>3, <2>4 DEF IsDir
      <4>3. s.frames = <<>> => s.op = "rename"
        BY <4>1
      <4> QED BY <4>2, <4>3, <3>2, <3>3, <1>4 DEF LonePoint
    <3> QED BY <3>1, <3>4, <3>5, <2>5, <2>6, LoneWrite
  <2>8. CASE Dir(s.path) # Root
    <3> DEFINE t == CreateParent(r, s.path)
    <3>1. Go(a, t)
      BY <2>1, <2>8
    <3>2. f \in Frame /\ f.id = nextId
      BY <1>1 DEF Frame
    <3> HIDE DEF f
    <3>3. r \in ClientState /\ r.op = s.op /\ r.to = s.to /\ r.frames = Append(s.frames, f)
      BY <3>2, <1>1, PushedProps
    <3> HIDE DEF r
    <3>4. t.op = s.op /\ t.to = s.to /\ t.frames = Append(s.frames, f) /\ t.pc = "lookup"
      BY <3>3, <1>1, CreateParentProps
    <3>5. /\ Len(t.frames) = n + 1
          /\ \A k \in 1..n : t.frames[k] = s.frames[k]
          /\ t.frames[n + 1] = f
          /\ t.frames # <<>>
      BY <3>2, <3>4, <1>1, PushProps
    <3> HIDE DEF t
    <3>6. cl'[a] = t
      BY <3>1, GoProps
    <3>7. ASSUME NEW k \in 1..(n + 1) PROVE LoneFrame(a, k)'
      <4>1. CASE k \in 1..n
        <5>1. LoneFrame(a, k)
          BY <4>1 DEF LoneInv
        <5> QED BY <5>1, <4>1, <3>4, <3>5, <3>6, <2>5 DEF LoneFrame, RowsStay
      <4>2. CASE k = n + 1
        <5>1. cl'[a].frames[k].id = nextId /\ (k # 1 => n # 0)
          BY <4>2, <3>2, <3>5, <3>6, <1>2
        <5>2. k # 1 \/ s.op # "open" => d
          BY <5>1, <2>3, <1>2
        <5> QED BY <5>1, <5>2, <3>4, <3>6, <2>4 DEF LoneFrame
      <4> QED BY <4>1, <4>2, <1>2
    <3>8. LonePoint(a)'
      BY <3>4, <3>5, <3>6, <1>4 DEF LonePoint
    <3> QED BY <3>1, <3>5, <3>7, <3>8, <2>5, <2>6, LoneWrite
  <2> QED BY <2>7, <2>8
<1> QED BY <1>5, <1>6

\* CreateParentAddToFile links to a directory.
LEMMA LoneLink ==
    ASSUME TypeInv, NEW a \in Client, LoneInv(a), work' = work, Link(a)
    PROVE  LoneInv(a)'
<1> DEFINE s == cl[a]
           n == Len(s.frames)
           f == Top(s.frames)
           r == [s EXCEPT !.frames = Pop(@)]
           t == Created(r, f.id)
<1>1. /\ s \in ClientState /\ RowsTyped /\ s.pc = "link" /\ s.id \in Nat
      /\ s.frames \in Seq(Frame) /\ s.frames # <<>> /\ LonePoint(a)
      /\ SetParent(f.id, s.id) /\ Go(a, t) /\ UNCHANGED nextId
  BY DEF TypeInv, Link, Linking, ClientState, LoneInv
<1>2. /\ n \in Nat \ {0} /\ f = s.frames[n] /\ f \in Frame
      /\ Len(Pop(s.frames)) = n - 1
      /\ \A k \in 1..n - 1 : Pop(s.frames)[k] = s.frames[k]
      /\ Pop(s.frames) \in Seq(Frame)
  BY <1>1, PopProps
<1>3. f.id \in Nat
  BY <1>2 DEF Frame
<1>4. r \in ClientState /\ r.op = s.op /\ r.to = s.to /\ r.frames = Pop(s.frames)
  BY <1>1, PoppedProps
<1> HIDE DEF r
<1>5. \/ r.frames = <<>> /\ r.op # "rename" /\ t.pc = "idle" /\ t.frames = <<>>
      \/ /\ r.frames # <<>> \/ r.op = "rename"
         /\ t.op = r.op /\ t.frames = r.frames /\ t.to = r.to
         /\ t.id = f.id
         /\ t.pc = IF r.frames = <<>> THEN "update" ELSE "link"
  BY <1>3, <1>4, CreatedProps
<1> HIDE DEF t
<1>6. cl'[a] = t
  BY <1>1, GoProps
<1>7. /\ DOMAIN rows' = DOMAIN rows
      /\ \A i \in DOMAIN rows : /\ i # f.id => rows'[i] = rows[i]
                                /\ rows'[i].path = rows[i].path
                                /\ rows'[i].dir = rows[i].dir
                                /\ i = f.id => rows'[i].parent = s.id
  BY <1>1, <1>3, SetParentProps
<1>8. RowsStay
  BY <1>7 DEF RowsStay
<1>9. LoneFrame(a, n) /\ (s.id = NoParent \/ IsDir(s.id))
  BY <1>1, <1>2 DEF LoneInv, LonePoint
<1>10. \A i \in DOMAIN rows' : LoneRow(a, i)' \/ (i \in DOMAIN rows /\ rows'[i] = rows[i])
  <2> SUFFICES ASSUME NEW i \in DOMAIN rows', i = f.id PROVE LoneRow(a, i)'
    BY <1>7
  <2>1. LoneRow(a, i) /\ i \in DOMAIN rows
    BY <1>7 DEF LoneInv
  <2>2. rows'[i].parent # NoParent => IsDir(rows[i].parent)'
    BY <2>1, <1>7, <1>9 DEF IsDir
  <2>3. ~rows'[i].dir => FilePlace(a, rows[i].path)'
    BY <2>1, <1>7 DEF LoneRow, FilePlace
  <2> QED BY <2>2, <2>3 DEF LoneRow
<1>11. n - 1 = 0 <=> r.frames = <<>>
  BY <1>2, <1>4, EmptySeq
<1>12. \A k \in 1..Len(t.frames) : LoneFrame(a, k)'
  <2>1. CASE t.frames = <<>>
    BY <2>1, EmptySeq
  <2>2. CASE t.frames = Pop(s.frames) /\ t.op = s.op
    <3>1. \A k \in 1..n - 1 : k \in 1..n
      BY <1>2
    <3> QED BY <3>1, <2>2, <1>2, <1>6, <1>8, LoneFramesKept DEF LoneInv
  <2> QED BY <2>1, <2>2, <1>4, <1>5
<1>13. t.pc = "idle" \/ LonePoint(a)'
  <2> SUFFICES ASSUME t.pc # "idle" PROVE LonePoint(a)'
    OBVIOUS
  <2>1. r.frames # <<>> \/ s.op = "rename"
    BY <1>4, <1>5
  <2>2. n # 1 \/ s.op # "open"
    BY <2>1, <1>2, <1>11
  <2>3. IsDir(f.id)
    BY <2>2, <1>2, <1>9 DEF LoneFrame, IsDir
  <2>4. IsDir(cl[a].id)'
    BY <2>3, <1>5, <1>6, <1>7 DEF IsDir
  <2>5. s.op = "rename" => \E q \in work.renames[a] : q[2] = s.to
    BY <1>1 DEF LonePoint
  <2> QED BY <2>1, <2>4, <2>5, <1>4, <1>5, <1>6 DEF LonePoint
<1> QED BY <1>1, <1>8, <1>10, <1>12, <1>13, LoneWrite

\* RemoveFile takes away a directory without children, or a file: nobody's
\* parent in both cases.
LEMMA LoneDelete ==
    ASSUME TypeInv, NEW a \in Client, LoneInv(a), work' = work, Delete(a)
    PROVE  LoneInv(a)'
<1> DEFINE s == cl[a]
           t == Removed(s, TRUE)
<1>1. /\ s \in ClientState /\ RowsTyped /\ s.pc = "delete" /\ s.frames = <<>>
      /\ LonePoint(a) /\ s.id \in DOMAIN rows /\ (rows[s.id].dir => ChildrenOf(s.id) = {})
      /\ DeleteRow(s.id) /\ Go(a, t) /\ UNCHANGED nextId
  BY DEF TypeInv, Delete, LoneInv, LonePoint
<1>2. \/ s.op # "rename" /\ t.pc = "idle" /\ t.frames = <<>>
      \/ /\ s.op = "rename" /\ t.op = s.op /\ t.pc = "newparent"
         /\ t.frames = s.frames /\ t.to = s.to
  BY <1>1, RemovedProps
<1> HIDE DEF t
<1>3. cl'[a] = t /\ \A d \in Client \ {a} : cl'[d] = cl[d]
  BY <1>1, GoProps
<1>4. DOMAIN rows' = DOMAIN rows \ {s.id} /\ \A i \in DOMAIN rows' : rows'[i] = rows[i]
  BY <1>1, DeleteProps
<1>5. ASSUME NEW i \in DOMAIN rows' PROVE LoneRow(a, i)'
  <2>1. i \in DOMAIN rows /\ rows'[i] = rows[i] /\ LoneRow(a, i)
    BY <1>4 DEF LoneInv
  <2>2. rows[i].parent # NoParent => IsDir(rows[i].parent) /\ rows[i].parent # s.id
    BY <2>1, <1>1 DEF LoneRow, ChildrenOf, IsDir
  <2>3. rows'[i].parent # NoParent => IsDir(rows[i].parent)'
    BY <2>1, <2>2, <1>4 DEF IsDir
  <2>4. ~rows'[i].dir => FilePlace(a, rows[i].path)'
    BY <2>1 DEF LoneRow, FilePlace
  <2> QED BY <2>3, <2>4 DEF LoneRow
<1>6. t.frames = <<>> /\ Len(t.frames) = 0
  BY <1>1, <1>2, EmptySeq
<1>7. LonePoint(a)'
  <2>1. s.op = "rename" => \E q \in work.renames[a] : q[2] = s.to
    BY <1>1 DEF LonePoint
  <2> QED BY <2>1, <1>1, <1>2, <1>3 DEF LonePoint
<1>8. \A d \in Client \ {a} : cl'[d].pc = "idle"
  BY <1>3 DEF LoneInv
<1> QED BY <1>3, <1>5, <1>6, <1>7, <1>8 DEF LoneInv

\* A path with a last component below a directory: Dir gives the directory back.
LEMMA JoinPlace ==
    ASSUME NEW a, NEW p \in Path, NEW q \in Path, \E r \in work.renames[a] : r[2] = p
    PROVE  FilePlace(a, Join(p, Base(q)))
<1>1. p \in {r[2] : r \in work.renames[a]}
  OBVIOUS
<1>2. CASE Join(p, Base(q)) = p
  BY <1>1, <1>2 DEF FilePlace
<1>3. CASE Join(p, Base(q)) # p
  <2>1. q # Root /\ Join(p, Base(q)) = Append(p, Base(q))
    BY <1>3 DEF Join, Base
  <2>2. Len(q) \in 1..Len(q)
    BY <2>1, EmptySeq DEF Path, Root
  <2>3. Base(q) \in STRING
    BY <2>1, <2>2, ElementOfSeq DEF Base, Path
  <2> DEFINE j == Append(p, Base(q))
  <2>4. /\ j \in Path /\ j # Root /\ Len(j) = Len(p) + 1
        /\ \A k \in 1..Len(p) : j[k] = p[k]
    BY <2>3, AppendProperties DEF Path, Root
  <2> HIDE DEF j
  <2>5. Len(p) \in Nat /\ Len(j) - 1 = Len(p)
    BY <2>4, LenProperties DEF Path
  <2>6. Dir(j) = SubSeq(j, 1, Len(p))
    BY <2>4, <2>5 DEF Dir
  <2>7. 1 \in Int /\ Len(p) \in Int /\ \A k \in 1..Len(p) : j[k] \in STRING
    BY <2>4, <2>5, ElementOfSeq DEF Path
  <2>8. /\ SubSeq(j, 1, Len(p)) \in Seq(STRING)
        /\ Len(SubSeq(j, 1, Len(p))) = IF 1 <= Len(p) THEN Len(p) - 1 + 1 ELSE 0
        /\ \A k \in 1..(Len(p) - 1 + 1) : SubSeq(j, 1, Len(p))[k] = j[1 + k - 1]
    BY <2>7, SubSeqProperties
  <2>9. Len(Dir(j)) = Len(p)
    BY <2>5, <2>6, <2>8
  <2>10. \A k \in 1..Len(p) : Dir(j)[k] = p[k]
    BY <2>4, <2>5, <2>6, <2>8
  <2>11. Dir(j) = p
    BY <2>6, <2>8, <2>9, <2>10, SeqEqual DEF Path
  <2> QED BY <2>1, <2>4, <2>11, <1>1 DEF FilePlace, j
<1> QED BY <1>2, <1>3

\* The renaming of a directory moves the files in it with it.
LEMMA LoneMove ==
    ASSUME TypeInv, NEW a \in Client, LoneInv(a), work' = work, Move(a)
    PROVE  LoneInv(a)'
<1> DEFINE s == cl[a]
<1>1. /\ s \in ClientState /\ RowsTyped /\ s.pc = "move" /\ LonePoint(a) /\ UNCHANGED nextId
      /\ s.op = "rename" /\ (s.src \in DOMAIN rows => rows[s.src].dir)
      /\ \E r \in work.renames[a] : r[2] = s.to
      /\ s.to \in Path
  BY DEF TypeInv, Move, LoneInv, LonePoint, ClientState
<1>2. /\ Return(s, TRUE).pc = "idle" /\ Return(s, TRUE).frames = <<>>
      /\ Dead(s).pc = "dead" /\ Dead(s).frames = <<>>
  <2>1. TRUE \in BOOLEAN
    OBVIOUS
  <2> QED BY <2>1, <1>1, ReturnProps
<1>3. CASE Collides(s)
  <2>1. Go(a, Dead(s)) /\ UNCHANGED rows
    BY <1>3 DEF Move
  <2> QED BY <2>1, <1>1, <1>2, LoneRead
<1>4. CASE ~Collides(s)
  <2>1. /\ rows' = [i \in DOMAIN rows |-> [rows[i] EXCEPT !.path = NewPath(s, i)]]
        /\ Go(a, Return(s, TRUE))
    BY <1>4 DEF Move
  <2>2. /\ DOMAIN rows' = DOMAIN rows
        /\ \A i \in DOMAIN rows : /\ rows'[i].path = NewPath(s, i)
                                  /\ rows'[i].dir = rows[i].dir
                                  /\ rows'[i].parent = rows[i].parent
    BY <2>1, <1>1, MoveProps
  <2>3. RowsStay
    BY <2>2 DEF RowsStay
  <2>4. ASSUME NEW i \in DOMAIN rows' PROVE LoneRow(a, i)'
    <3>1. i \in DOMAIN rows /\ LoneRow(a, i) /\ rows[i].path \in Path
      BY <2>2, <1>1 DEF LoneInv, RowsTyped, Row
    <3>2. rows'[i].parent # NoParent => IsDir(rows[i].parent)'
      BY <3>1, <2>2 DEF LoneRow, IsDir
    <3>3. ~rows[i].dir => FilePlace(a, NewPath(s, i))
      BY <3>1, <1>1, JoinPlace DEF NewPath, LoneRow
    <3>4. ~rows'[i].dir => FilePlace(a, rows[i].path)'
      BY <3>1, <3>3, <2>2 DEF FilePlace
    <3> QED BY <3>2, <3>4 DEF LoneRow
  <2> DEFINE t == Return(s, TRUE)
  <2>5. Go(a, t) /\ t.pc = "idle" /\ t.frames = <<>>
    BY <2>1, <1>2
  <2> HIDE DEF t
  <2>6. \A k \in 1..Len(t.frames) : LoneFrame(a, k)'
    BY <2>5, EmptySeq
  <2> QED BY <2>3, <2>4, <2>5, <2>6, LoneWrite
<1> QED BY <1>3, <1>4

\* RenameFile puts the file at the target, linked to a directory.
LEMMA LoneUpdate ==
    ASSUME TypeInv, NEW a \in Client, LoneInv(a), work' = work, Update(a)
    PROVE  LoneInv(a)'
<1> DEFINE s == cl[a]
           dup == Duplicate(s.src, s.to)
           ok == ~dup \/ ~s.loud
           t == Return(s, ok)
<1>1. /\ s \in ClientState /\ RowsTyped /\ s.pc = "update" /\ LonePoint(a)
      /\ s.src \in Nat /\ s.to \in Path /\ s.id \in Nat
      /\ s.id = NoParent \/ IsDir(s.id)
      /\ \E r \in work.renames[a] : r[2] = s.to
  BY DEF TypeInv, ClientState, Update, LoneInv, LonePoint
<1>2. /\ IF dup THEN rows' = rows ELSE SetPathAndParent(s.src, s.to, s.id)
      /\ Go(a, t) /\ UNCHANGED nextId
  BY DEF Update
<1>3. ok \in BOOLEAN
  OBVIOUS
<1> HIDE DEF ok
<1>4. t.pc = "idle" /\ t.frames = <<>>
  BY <1>1, <1>3, ReturnProps
<1> HIDE DEF t
<1>5. CASE dup
  BY <1>2, <1>4, <1>5, LoneRead
<1>6. CASE ~dup
  <2>1. /\ DOMAIN rows' = DOMAIN rows
        /\ \A i \in DOMAIN rows : /\ i # s.src => rows'[i] = rows[i]
                                  /\ rows'[i].dir = rows[i].dir
                                  /\ i = s.src => rows'[i].path = s.to /\ rows'[i].parent = s.id
    BY <1>1, <1>2, <1>6, SetPathAndParentProps
  <2>2. RowsStay
    BY <2>1 DEF RowsStay
  <2>3. \A i \in DOMAIN rows' : LoneRow(a, i)' \/ (i \in DOMAIN rows /\ rows'[i] = rows[i])
    <3> SUFFICES ASSUME NEW i \in DOMAIN rows', i = s.src PROVE LoneRow(a, i)'
      BY <2>1
    <3>1. rows'[i].path = s.to /\ rows'[i].parent = s.id
      BY <2>1
    <3>2. rows'[i].parent # NoParent => IsDir(rows[i].parent)'
      BY <3>1, <2>1, <1>1 DEF IsDir
    <3>3. rows'[i].path \in {r[2] : r \in work.renames[a]}
      BY <3>1, <1>1
    <3>4. FilePlace(a, rows[i].path)'
      BY <3>3 DEF FilePlace
    <3> QED BY <3>2, <3>4 DEF LoneRow
  <2>4. \A k \in 1..Len(t.frames) : LoneFrame(a, k)'
    BY <1>4, EmptySeq
  <2> QED BY <2>2, <2>3, <2>4, <1>2, <1>4, LoneWrite
<1> QED BY <1>5, <1>6

\* As long as one client is alone, every statement keeps its invariant.
LEMMA LoneHolds == Spec => [](\A a \in Client : Lone(a) => LoneInv(a))
<1> DEFINE Inv == \A a \in Client : Lone(a) => LoneInv(a)
<1>1. Init => Inv
  <2> SUFFICES ASSUME Init, NEW a \in Client PROVE LoneInv(a)
    OBVIOUS
  <2>1. rows = <<>> /\ DOMAIN rows = {} /\ \A d \in Client : cl[d] = Idle
    BY DEF Init
  <2>2. Idle.pc = "idle" /\ Idle.frames = <<>> /\ Len(<<>>) = 0
    BY EmptySeq DEF Idle
  <2> QED BY <2>1, <2>2 DEF LoneInv, LonePoint
<1>2. TypeInv /\ Inv /\ [Next]_vars => Inv'
  <2> SUFFICES ASSUME TypeInv, [Next]_vars, NEW a \in Client, Lone(a)', Lone(a) => LoneInv(a)
               PROVE  LoneInv(a)'
    OBVIOUS
  <2>1. work' = work
    BY DEF Next, vars
  <2>2. Lone(a) /\ LoneInv(a)
    BY <2>1 DEF Lone, FilePlace
  <2>3. CASE UNCHANGED vars
    BY <2>2, <2>3 DEF vars, LoneInv, LoneRow, LoneFrame, LonePoint, IsDir, FilePlace,
       IdAt, At, ChildrenOf
  <2>4. CASE Next
    <3>1. PICK c \in Client : Step(c)
      BY <2>4 DEF Next
    <3>2. Step(a)
      BY <3>1, <2>2, LoneStep
    <3> QED BY <3>2, <2>1, <2>2, LoneStart, LoneLookups, LoneReads, LoneInsert, LoneLink,
               LoneDelete, LoneMove, LoneUpdate DEF Step
  <2> QED BY <2>3, <2>4
<1> QED BY <1>1, <1>2, TypesHold, PTL DEF Spec

\* RemoveFile leaves no row behind that names a directory which is gone: neither
\* under the discipline of go-git, whatever the clients interleave, nor when one
\* client alone removes and renames directories as well.
THEOREM NothingDanglesHolds == Spec => []NothingDangles
<1>1. (Disciplined => DInv) /\ (\A a \in Client : Lone(a) => LoneInv(a)) => NothingDangles
  BY DEF NothingDangles, Alone, DInv, RowsInv, RowInv, DirAt, LoneInv, LoneRow, IsDir
<1> QED BY <1>1, DHolds, LoneHolds, PTL

=============================================================================
