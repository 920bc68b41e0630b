--------------------------- MODULE MysqlFileProofs ---------------------------
(***************************************************************************)
(* Proofs about the open files of mysqlfs, for any handles, paths, inputs  *)
(* and flags: what is stored is what an os file would hold, but for the    *)
(* excused rows, and a handle stores into its own row only.                *)
(***************************************************************************)
EXTENDS MysqlFile, TLAPS, SequenceTheorems

-----------------------------------------------------------------------------
(* Contents *)

\* Gaps and growth are filled with zeros.
LEMMA PadProps ==
    ASSUME NEW s \in Seq(Byte), NEW n \in Nat
    PROVE  /\ Pad(s, n) \in Seq(Byte)
           /\ n <= Len(s) => Pad(s, n) = s
           /\ Len(Pad(s, n)) >= n
<1>1. Len(s) \in Nat
  BY LenProperties
<1>2. CASE Len(s) < n
  <2> DEFINE m == n - Len(s)
  <2>1. m \in Nat
    BY <1>1, <1>2
  <2> DEFINE z == Zeros(m)
  <2>2. z = [i \in 1..m |-> 0] /\ z \in [1..m -> Byte]
    BY DEF Zeros, Byte
  <2> HIDE DEF m
  <2>3. z \in Seq(Byte) /\ Len(z) = m
    <3>1. z \in Seq(Byte)
      BY <2>1, <2>2, SeqDef
    <3>2. 1..Len(z) = 1..m /\ Len(z) \in Nat
      BY <2>2, <3>1, LenProperties
    <3>3. Len(z) = m
      BY <2>1, <3>2
    <3> QED BY <3>1, <3>3
  <2>4. Pad(s, n) = s \o z
    BY <1>2 DEF Pad, m
  <2> HIDE DEF z
  <2>5. m = n - Len(s)
    BY DEF m
  <2>6. s \o z \in Seq(Byte) /\ Len(s \o z) = Len(s) + Len(z)
    BY <2>3, ConcatProperties
  <2> QED BY <2>1, <2>3, <2>4, <2>5, <2>6, <1>1, <1>2
<1>3. CASE ~(Len(s) < n)
  BY <1>1, <1>3 DEF Pad
<1> QED BY <1>2, <1>3

\* WriteAt gives a content; at the end of a content it appends.
LEMMA WriteAtProps ==
    ASSUME NEW s \in Seq(Byte), NEW off \in Nat, NEW p \in Seq(Byte)
    PROVE  /\ WriteAt(s, off, p) \in Seq(Byte)
           /\ off = Len(s) => Len(WriteAt(s, off, p)) = Len(s) + Len(p)
<1> DEFINE q == Pad(s, off)
           x == SubSeq(q, 1, off)
           y == SubSeq(s, off + Len(p) + 1, Len(s))
<1>1. Len(s) \in Nat /\ Len(p) \in Nat
  BY LenProperties
<1>2. q \in Seq(Byte) /\ Len(q) >= off /\ Len(q) \in Nat
  BY PadProps, LenProperties
<1> HIDE DEF q
<1>3. 1 \in Int /\ off \in Int /\ \A i \in 1..off : q[i] \in Byte
  BY <1>2, ElementOfSeq
<1>4. x \in Seq(Byte) /\ Len(x) = IF 1 <= off THEN off - 1 + 1 ELSE 0
  BY <1>3, SubSeqProperties
<1>5. /\ off + Len(p) + 1 \in Int /\ Len(s) \in Int
      /\ \A i \in (off + Len(p) + 1)..Len(s) : s[i] \in Byte
  BY <1>1, ElementOfSeq
<1>6. y \in Seq(Byte)
      /\ Len(y) = IF off + Len(p) + 1 <= Len(s) THEN Len(s) - (off + Len(p) + 1) + 1 ELSE 0
  BY <1>5, SubSeqProperties
<1>7. WriteAt(s, off, p) = (x \o p) \o y
  BY DEF WriteAt, q
<1> HIDE DEF x, y
<1>8. x \o p \in Seq(Byte) /\ Len(x \o p) = Len(x) + Len(p)
  BY <1>4, ConcatProperties
<1>9. /\ (x \o p) \o y \in Seq(Byte)
      /\ Len((x \o p) \o y) = Len(x \o p) + Len(y)
  BY <1>6, <1>8, ConcatProperties
<1>10. Len(x) = off
  BY <1>4
<1>11. off = Len(s) => Len(y) = 0
  BY <1>1, <1>6
<1>12. off = Len(s) => Len((x \o p) \o y) = Len(s) + Len(p)
  BY <1>1, <1>8, <1>9, <1>10, <1>11
<1> QED BY <1>7, <1>9, <1>12

\* Truncate gives a content, the same when the size is its length.
LEMMA ResizeProps ==
    ASSUME NEW s \in Seq(Byte), NEW n \in Nat
    PROVE  /\ Resize(s, n) \in Seq(Byte)
           /\ n = Len(s) => Resize(s, n) = s
<1>1. Len(s) \in Nat
  BY LenProperties
<1>2. CASE n < Len(s)
  <2>1. 1 \in Int /\ n \in Int /\ \A i \in 1..n : s[i] \in Byte
    BY <1>1, <1>2, ElementOfSeq
  <2>2. SubSeq(s, 1, n) \in Seq(Byte)
    BY <2>1, SubSeqProperties
  <2> QED BY <2>2, <1>1, <1>2 DEF Resize
<1>3. CASE ~(n < Len(s))
  BY <1>1, <1>3, PadProps DEF Resize
<1> QED BY <1>2, <1>3

-----------------------------------------------------------------------------
(* The handle of a call, before and after it *)

\* The call of handle h leaves the other handles alone and makes x of this one.
Becomes(h, x) ==
    /\ handle'[h] = x
    /\ \A g \in Handle \ {h} : handle'[g] = handle[g]
    /\ handle' \in [Handle -> OpenFile \cup {Closed}]

\* A handle that was opened.
LEMMA OpenIsOpenFile ==
    ASSUME TypeOK, NEW h \in Handle, handle[h].state # "unused"
    PROVE  /\ handle[h] \in OpenFile
           /\ handle[h].id \in 1..MaxId /\ handle[h].path \in Path
           /\ handle[h].content \in Seq(Byte) /\ handle[h].pos \in Int
           /\ handle[h].flag \in Flags /\ handle[h].flag \in Flag
           /\ handle[h].ahead \in BOOLEAN
           /\ handle[h].state \in {"open", "closed"}
<1>1. handle[h] \in OpenFile \cup {Closed}
  BY DEF TypeOK
<1>2. Closed.state = "unused"
  BY DEF Closed
<1>3. handle[h] \in OpenFile
  BY <1>1, <1>2
<1> QED BY <1>3, FlagsAssumption DEF OpenFile

\* OpenFile hands out the content, or an empty copy of it.
LEMMA DuplicateProps ==
    ASSUME NEW id \in 1..MaxId, NEW p \in Path, NEW content \in Seq(Byte), NEW f \in Flags
    PROVE  LET x == Duplicate(id, p, content, f)
           IN  /\ x \in OpenFile
               /\ x.state = "open" /\ x.id = id /\ x.path = p /\ x.flag = f
               /\ x.content = IF f.trunc THEN <<>> ELSE content
               /\ x.pos = IF f.append THEN Len(content) ELSE 0
               /\ x.ahead <=> f.trunc /\ content # <<>>
<1>1. <<>> \in Seq(Byte) /\ Len(content) \in Int
  BY EmptySeq, LenProperties
<1>2. f \in Flag
  BY FlagsAssumption
<1>3. f.trunc \in BOOLEAN /\ f.append \in BOOLEAN
  BY <1>2 DEF Flag
<1> DEFINE c == IF f.trunc THEN <<>> ELSE content
           n == IF f.append THEN Len(content) ELSE 0
           b == f.trunc /\ content # <<>>
<1>4. c \in Seq(Byte) /\ n \in Int /\ b \in BOOLEAN
  BY <1>1, <1>3
<1>5. Duplicate(id, p, content, f) =
        [state |-> "open", id |-> id, path |-> p, content |-> c, pos |-> n, flag |-> f, ahead |-> b]
  BY DEF Duplicate
<1>6. c = (IF f.trunc THEN <<>> ELSE content) /\ n = (IF f.append THEN Len(content) ELSE 0)
      /\ (b <=> f.trunc /\ content # <<>>)
  OBVIOUS
<1> HIDE DEF c, n, b
<1> QED BY <1>4, <1>5, <1>6 DEF OpenFile

\* A method changes the state, the copy and the position of its handle.
LEMMA ChangedProps ==
    ASSUME NEW x \in OpenFile, NEW content \in Seq(Byte), NEW pos \in Int,
           NEW state \in {"open", "closed"}, NEW ahead \in BOOLEAN
    PROVE  [x EXCEPT !.state = state, !.ahead = ahead, !.content = content, !.pos = pos] \in OpenFile
BY DEF OpenFile

\* One handle becomes another open file.
LEMMA BecomesProps ==
    ASSUME TypeOK, NEW h \in Handle, NEW x \in OpenFile, handle' = [handle EXCEPT ![h] = x]
    PROVE  Becomes(h, x)
BY DEF TypeOK, Becomes

-----------------------------------------------------------------------------
(* The invariant *)

LiveId(i) == \E p \in Path : at[p] = i

(***************************************************************************)
(* An open handle is of a row that was inserted, and of no other path than *)
(* its own.  A second open handle excuses the row.  While the row is not   *)
(* excused and not removed, a handle that may write has in its copy what   *)
(* the file should hold, truncations included, and an appending one is at  *)
(* the end of it.                                                          *)
(***************************************************************************)
HandleInv(h) ==
    LET x == handle[h]
    IN  /\ x.state # "unused" => x.id \in Ids
        /\ x.state = "open" =>
             /\ \A p \in Path : at[p] = x.id => p = x.path
             /\ \A g \in Handle \ {h} :
                   handle[g].state = "open" /\ handle[g].id = x.id => x.id \in excused
             /\ CanWrite(x.flag) /\ LiveId(x.id) /\ x.id \notin excused =>
                   /\ x.content = want[x.id]
                   /\ x.flag.append => x.pos = Len(want[x.id])

OneName == \A p, q \in Path : at[p] = at[q] /\ at[p] # NoRow => p = q

FInv == /\ OneName
        /\ \A h \in Handle : HandleInv(h)
        /\ StoredAsWanted

\* The ids are the numbers of the rows.
LEMMA IdsProps ==
    ASSUME TypeOK
    PROVE  Len(stored) \in Nat /\ Ids = 1..Len(stored) /\ DOMAIN want = Ids /\ NoRow \notin Ids
BY LenProperties DEF TypeOK, Ids, NoRow

\* A method of handle h stores into its own row at most; the rest of the
\* invariant is about that row and the handle.
LEMMA MethodKeeps ==
    ASSUME TypeOK, FInv, NEW h \in Handle, NEW y, handle[h].state # "unused", Becomes(h, y),
           y.id = handle[h].id, y.path = handle[h].path, y.flag = handle[h].flag,
           y.state = "open" => handle[h].state = "open",
           at' = at, alive' \in BOOLEAN,
           stored' \in Seq(Seq(Byte)), want' \in Seq(Seq(Byte)),
           Len(stored') = Len(stored), Len(want') = Len(want),
           excused \subseteq excused', excused' \subseteq Ids,
           \A i \in Ids : i # handle[h].id => stored'[i] = stored[i] /\ want'[i] = want[i],
           handle[h].state = "closed" => stored' = stored /\ want' = want,
           handle[h].state = "open" /\ LiveId(y.id) /\ y.id \notin excused' =>
              /\ \/ stored'[y.id] = want'[y.id]
                 \/ y.state = "open" /\ y.ahead
              /\ y.state = "open" /\ CanWrite(y.flag) =>
                    /\ y.content = want'[y.id]
                    /\ y.flag.append => y.pos = Len(want'[y.id])
    PROVE  TypeOK' /\ FInv'
<1> DEFINE x == handle[h]
<1>1. /\ handle'[h] = y
      /\ \A g \in Handle \ {h} : handle'[g] = handle[g]
  BY DEF Becomes
<1>2. x.state \in {"open", "closed"} /\ y.id = x.id /\ y.path = x.path /\ y.flag = x.flag
  BY OpenIsOpenFile
<1>3. Ids' = Ids /\ DOMAIN want = Ids
  <2>1. /\ DOMAIN stored = 1..Len(stored) /\ DOMAIN stored' = 1..Len(stored')
        /\ DOMAIN want = 1..Len(want) /\ Len(want) = Len(stored)
    BY LenProperties DEF TypeOK
  <2> QED BY <2>1 DEF Ids
<1>4. TypeOK'
  <2>1. at' \in [Path -> 0..Len(stored')] /\ Len(stored') <= MaxId /\ Len(want') = Len(stored')
    BY DEF TypeOK
  <2>2. handle' \in [Handle -> OpenFile \cup {Closed}]
    BY DEF Becomes
  <2> QED BY <2>1, <2>2, <1>3 DEF TypeOK
<1>5. OneName'
  BY DEF FInv, OneName
<1>6. ASSUME NEW g \in Handle PROVE HandleInv(g)'
  <2>1. HandleInv(g)
    BY DEF FInv
  <2>2. (\A i : LiveId(i)' <=> LiveId(i))
    BY DEF LiveId
  <2>3. CASE g = h
    <3>0. x.id \in Ids
      BY <2>1, <2>3 DEF HandleInv
    <3> SUFFICES ASSUME y.state = "open" PROVE HandleInv(g)'
      BY <3>0, <2>3, <1>1, <1>2, <1>3 DEF HandleInv
    <3>1. x.state = "open"
      OBVIOUS
    <3>2. y.id \in Ids' /\ \A p \in Path : at'[p] = y.id => p = y.path
      BY <3>1, <2>1, <2>3, <1>2, <1>3 DEF HandleInv
    <3>3. \A e \in Handle \ {h} :
             handle'[e].state = "open" /\ handle'[e].id = y.id => y.id \in excused'
      BY <3>1, <2>1, <2>3, <1>1, <1>2 DEF HandleInv
    <3>4. CanWrite(y.flag) /\ LiveId(y.id) /\ y.id \notin excused' =>
            /\ y.content = want'[y.id]
            /\ y.flag.append => y.pos = Len(want'[y.id])
      BY <3>1
    <3> QED BY <3>2, <3>3, <3>4, <2>2, <2>3, <1>1 DEF HandleInv
  <2>4. CASE g # h
    <3> SUFFICES ASSUME handle[g].state = "open" PROVE HandleInv(g)'
      BY <2>1, <2>4, <1>1, <1>3 DEF HandleInv
    <3>1. handle'[g] = handle[g]
      BY <2>4, <1>1
    <3>2. /\ handle[g].id \in Ids'
          /\ \A p \in Path : at'[p] = handle[g].id => p = handle[g].path
      BY <2>1, <1>3 DEF HandleInv
    <3>3. \A e \in Handle \ {g} :
             handle'[e].state = "open" /\ handle'[e].id = handle[g].id => handle[g].id \in excused'
      <4>1. \A e \in Handle \ {g} :
               handle[e].state = "open" /\ handle[e].id = handle[g].id => handle[g].id \in excused
        BY <2>1 DEF HandleInv
      <4>2. y.state = "open" /\ y.id = handle[g].id => handle[g].id \in excused
        BY <4>1, <2>4, <1>2
      <4> QED BY <4>1, <4>2, <1>1
    <3>4. CASE x.state = "open" /\ handle[g].id = x.id
      <4>1. handle[g].id \in excused'
        BY <3>4, <2>1, <2>4 DEF HandleInv
      <4> QED BY <4>1, <3>1, <3>2, <3>3 DEF HandleInv
    <3>5. CASE ~(x.state = "open" /\ handle[g].id = x.id)
      <4>1. want'[handle[g].id] = want[handle[g].id]
        BY <3>2, <3>5, <1>2, <1>3
      <4>2. CanWrite(handle[g].flag) /\ LiveId(handle[g].id) /\ handle[g].id \notin excused' =>
              /\ handle[g].content = want'[handle[g].id]
              /\ handle[g].flag.append => handle[g].pos = Len(want'[handle[g].id])
        BY <4>1, <2>1 DEF HandleInv
      <4> QED BY <4>2, <3>1, <3>2, <3>3, <2>2 DEF HandleInv
    <3> QED BY <3>4, <3>5
  <2> QED BY <2>3, <2>4
<1>7. StoredAsWanted'
  <2> SUFFICES ASSUME NEW p \in Path, at[p] # NoRow, at[p] \notin excused'
               PROVE  \/ stored'[at[p]] = want'[at[p]]
                      \/ \E g \in Handle : handle'[g].state = "open" /\ handle'[g].id = at[p]
                                             /\ handle'[g].ahead
    BY DEF StoredAsWanted
  <2>1. \/ stored[at[p]] = want[at[p]]
        \/ \E g \in Handle : handle[g].state = "open" /\ handle[g].id = at[p] /\ handle[g].ahead
    BY DEF FInv, StoredAsWanted
  <2>2. CASE x.state = "open" /\ at[p] = x.id
    <3>1. LiveId(x.id)
      BY <2>2 DEF LiveId
    <3> QED BY <3>1, <2>2, <1>1, <1>2
  <2>3. CASE ~(x.state = "open" /\ at[p] = x.id)
    <3>1. at[p] \in Ids
      BY IdsProps, SMTT(30) DEF TypeOK, NoRow
    <3>2. stored'[at[p]] = stored[at[p]] /\ want'[at[p]] = want[at[p]]
      BY <3>1, <2>3, <1>2
    <3>3. \A g \in Handle : handle[g].state = "open" /\ handle[g].id = at[p] => handle'[g] = handle[g]
      BY <2>3, <1>1, <1>2
    <3> QED BY <3>2, <3>3, <2>1
  <2> QED BY <2>2, <2>3
<1> QED BY <1>4, <1>5, <1>6, <1>7 DEF FInv

-----------------------------------------------------------------------------
(* The methods *)

\* What the invariant says of the row of an open handle that is not excused.
LEMMA OwnRow ==
    ASSUME TypeOK, FInv, NEW h \in Handle, handle[h].state = "open"
    PROVE  LET x == handle[h]
           IN  /\ x.id \in Ids
               /\ want[x.id] \in Seq(Byte) /\ stored[x.id] \in Seq(Byte)
               /\ LiveId(x.id) /\ x.id \notin excused =>
                    /\ stored[x.id] = want[x.id] \/ x.ahead
                    /\ at[x.path] = x.id
                    /\ CanWrite(x.flag) =>
                         /\ x.content = want[x.id]
                         /\ x.flag.append => x.pos = Len(want[x.id])
<1> DEFINE x == handle[h]
<1>1. HandleInv(h) /\ StoredAsWanted
  BY DEF FInv
<1>2. x.id \in Ids
  BY <1>1 DEF HandleInv
<1>3. want[x.id] \in Seq(Byte) /\ stored[x.id] \in Seq(Byte)
  <2>1. x.id \in 1..Len(stored) /\ x.id \in 1..Len(want)
    BY <1>2, IdsProps DEF TypeOK
  <2> QED BY <2>1, ElementOfSeq DEF TypeOK
<1>4. ASSUME LiveId(x.id), x.id \notin excused
      PROVE  /\ stored[x.id] = want[x.id] \/ x.ahead
             /\ at[x.path] = x.id
             /\ CanWrite(x.flag) =>
                  /\ x.content = want[x.id]
                  /\ x.flag.append => x.pos = Len(want[x.id])
  <2>1. PICK p \in Path : at[p] = x.id
    BY <1>4 DEF LiveId
  <2>2. at[x.path] = x.id
    BY <2>1, <1>1 DEF HandleInv
  <2>3. at[p] \notin {NoRow} \cup excused
    BY <2>1, <1>2, <1>4, IdsProps
  <2>4. \/ stored[x.id] = want[x.id]
        \/ \E g \in Handle : handle[g].state = "open" /\ handle[g].id = x.id /\ handle[g].ahead
    BY <2>1, <2>3, <1>1 DEF StoredAsWanted
  <2>5. stored[x.id] = want[x.id] \/ x.ahead
    BY <2>4, <1>1, <1>4 DEF HandleInv
  <2> QED BY <2>2, <2>5, <1>1, <1>4 DEF HandleInv
<1> QED BY <1>2, <1>3, <1>4

\* Close drops a truncation of the copy, and then excuses the row.
LEMMA CloseKeeps ==
    ASSUME TypeOK, FInv, alive, NEW h \in Handle, Close(h)
    PROVE  TypeOK' /\ FInv'
<1> DEFINE x == handle[h]
           none == <<>>
           y == [x EXCEPT !.state = "closed", !.ahead = FALSE, !.content = none, !.pos = 0]
<1>1. x.state = "open" /\ x \in OpenFile /\ none \in Seq(Byte)
  BY OpenIsOpenFile, EmptySeq DEF Close
<1>2. /\ y \in OpenFile /\ y.state = "closed" /\ y.id = x.id /\ y.path = x.path /\ y.flag = x.flag
  <2>1. y.state = "closed" /\ y.id = x.id /\ y.path = x.path /\ y.flag = x.flag
    BY <1>1 DEF OpenFile
  <2>2. y \in OpenFile
    <3>1. "closed" \in {"open", "closed"} /\ 0 \in Int /\ FALSE \in BOOLEAN
      OBVIOUS
    <3> QED BY <3>1, <1>1, ChangedProps
  <2> QED BY <2>1, <2>2
<1>3. handle' = [handle EXCEPT ![h] = y]
  BY DEF Close, TypeOK
<1> HIDE DEF y
<1>4. Becomes(h, y)
  BY <1>2, <1>3, BecomesProps
<1>5. /\ excused \subseteq excused' /\ excused' \subseteq Ids
      /\ x.ahead => x.id \in excused'
      /\ at' = at /\ stored' = stored /\ want' = want /\ alive' = alive
  BY <1>1, OwnRow DEF Close, TypeOK
<1>6. LiveId(y.id) /\ y.id \notin excused' => stored'[y.id] = want'[y.id]
  BY <1>1, <1>2, <1>5, OwnRow
<1>7. alive' \in BOOLEAN /\ stored' \in Seq(Seq(Byte)) /\ want' \in Seq(Seq(Byte))
  BY <1>5 DEF TypeOK
<1> QED BY <1>1, <1>2, <1>4, <1>5, <1>6, <1>7, MethodKeeps

\* Seek moves a handle, an appending one away from the end.
LEMMA SeekKeeps ==
    ASSUME TypeOK, FInv, alive, NEW h \in Handle, NEW off \in Offsets, NEW w \in Whence,
           Seek(h, off, w)
    PROVE  TypeOK' /\ FInv'
<1> DEFINE x == handle[h]
           new == IF w = "start" THEN off
                  ELSE IF w = "current" THEN x.pos + off ELSE Len(x.content) + off
           y == [x EXCEPT !.pos = new]
<1>1. x.state = "open" /\ x \in OpenFile
  BY OpenIsOpenFile DEF Seek
<1>2. new \in Int
  BY InputsAssumption DEF Seek
<1>3. handle' = [handle EXCEPT ![h] = y]
  BY DEF Seek, TypeOK
<1> HIDE DEF new
<1>4. /\ y \in OpenFile /\ y.state = "open" /\ y.id = x.id /\ y.path = x.path /\ y.flag = x.flag
      /\ y.content = x.content /\ y.ahead = x.ahead
  BY <1>1, <1>2 DEF OpenFile
<1> HIDE DEF y
<1>5. Becomes(h, y)
  BY <1>3, <1>4, BecomesProps
<1>6. /\ excused \subseteq excused' /\ excused' \subseteq Ids
      /\ x.flag.append => x.id \in excused'
      /\ at' = at /\ stored' = stored /\ want' = want /\ alive' = alive
  BY <1>1, OwnRow DEF Seek, TypeOK
<1>7. LiveId(y.id) /\ y.id \notin excused' =>
        /\ stored'[y.id] = want'[y.id] \/ y.ahead
        /\ CanWrite(y.flag) => y.content = want'[y.id] /\ ~y.flag.append
  BY <1>1, <1>4, <1>6, OwnRow
<1>8. alive' \in BOOLEAN /\ stored' \in Seq(Seq(Byte)) /\ want' \in Seq(Seq(Byte))
  BY <1>6 DEF TypeOK
<1> QED BY <1>1, <1>4, <1>5, <1>6, <1>7, <1>8, MethodKeeps

\* Truncate changes the copy: what is stored is behind until the next Write.
LEMMA TruncateKeeps ==
    ASSUME TypeOK, FInv, alive, NEW h \in Handle, NEW n \in Sizes, Truncate(h, n)
    PROVE  TypeOK' /\ FInv'
<1> DEFINE x == handle[h]
           real == CanWrite(x.flag)
           c == Resize(x.content, n)
           b == x.ahead \/ (real /\ n # Len(x.content))
           y == [x EXCEPT !.content = c, !.ahead = b]
<1>1. x.state = "open" /\ x \in OpenFile /\ x.content \in Seq(Byte) /\ x.ahead \in BOOLEAN
  BY OpenIsOpenFile DEF Truncate
<1>2. n \in Nat
  BY InputsAssumption
<1>3. c \in Seq(Byte) /\ (n = Len(x.content) => c = x.content)
  BY <1>1, <1>2, ResizeProps
<1>4. real \in BOOLEAN
  BY DEF CanWrite
<1>5. handle' = [handle EXCEPT ![h] = y]
  BY <1>1 DEF Truncate, TypeOK, OpenFile
<1>6. /\ want' = IF real THEN [want EXCEPT ![x.id] = Resize(@, n)] ELSE want
      /\ excused' = IF real /\ x.flag.append THEN excused \cup {x.id} ELSE excused
      /\ at' = at /\ stored' = stored /\ alive' = alive
  BY DEF Truncate
<1>7. b \in BOOLEAN /\ (b <=> x.ahead \/ (real /\ n # Len(x.content)))
  BY <1>1, <1>4
<1> HIDE DEF b
<1>8. /\ y \in OpenFile /\ y.state = "open" /\ y.id = x.id /\ y.path = x.path /\ y.flag = x.flag
      /\ y.content = c /\ y.ahead = b
  BY <1>1, <1>3, <1>7 DEF OpenFile
<1> HIDE DEF y
<1>9. Becomes(h, y)
  BY <1>5, <1>8, BecomesProps
<1>10. /\ x.id \in 1..Len(want) /\ want \in Seq(Seq(Byte)) /\ want[x.id] \in Seq(Byte)
       /\ DOMAIN want = Ids
  BY <1>1, OwnRow, IdsProps DEF TypeOK
<1>11. /\ want' \in Seq(Seq(Byte)) /\ Len(want') = Len(want)
       /\ \A i \in 1..Len(want) : i # x.id => want'[i] = want[i]
       /\ real => want'[x.id] = Resize(want[x.id], n)
       /\ ~real => want' = want
  <2>1. Resize(want[x.id], n) \in Seq(Byte)
    BY <1>2, <1>10, ResizeProps
  <2> QED BY <2>1, <1>6, <1>10, ExceptSeq
<1>12. /\ excused \subseteq excused' /\ excused' \subseteq Ids
       /\ real /\ x.flag.append => x.id \in excused'
  BY <1>1, <1>6, OwnRow DEF TypeOK
<1>13. LiveId(y.id) /\ y.id \notin excused' =>
         /\ stored'[y.id] = want'[y.id] \/ y.ahead
         /\ CanWrite(y.flag) => y.content = want'[y.id] /\ ~y.flag.append
  <2> SUFFICES ASSUME LiveId(x.id), x.id \notin excused'
               PROVE  /\ stored'[x.id] = want'[x.id] \/ b
                      /\ real => c = want'[x.id] /\ ~x.flag.append
    BY <1>8
  <2>1. /\ stored[x.id] = want[x.id] \/ x.ahead
        /\ real => x.content = want[x.id]
    BY <1>1, <1>12, OwnRow
  <2>2. CASE real
    <3>1. ~x.flag.append /\ c = want'[x.id]
      BY <2>1, <2>2, <1>11, <1>12
    <3>2. ~b => stored'[x.id] = want'[x.id]
      BY <3>1, <2>1, <2>2, <1>3, <1>6, <1>7
    <3> QED BY <3>1, <3>2
  <2>3. CASE ~real
    BY <2>1, <2>3, <1>6, <1>7
  <2> QED BY <2>2, <2>3
<1>14. alive' \in BOOLEAN /\ stored' \in Seq(Seq(Byte)) /\ Len(stored') = Len(stored)
       /\ Ids = 1..Len(want)
  BY <1>6, IdsProps DEF TypeOK
<1> QED BY <1>1, <1>6, <1>8, <1>9, <1>11, <1>12, <1>13, <1>14, MethodKeeps

\* Write changes the copy and stores it: what an os file would hold, as the copy
\* is what the file should hold, and the position of an appending handle its end.
LEMMA WriteKeeps ==
    ASSUME TypeOK, FInv, alive, NEW h \in Handle, NEW p \in Data, Write(h, p)
    PROVE  TypeOK' /\ FInv'
<1> DEFINE x == handle[h]
           new == WriteAt(x.content, x.pos, p)
           live == \E q \in Path : at[q] = x.id
           end == IF x.flag.append THEN Len(want[x.id]) ELSE x.pos
           k == x.pos + Len(p)
           y == [x EXCEPT !.content = new, !.ahead = FALSE, !.pos = k]
<1>1. /\ x.state = "open" /\ x \in OpenFile /\ x.content \in Seq(Byte) /\ x.pos \in Int
      /\ CanWrite(x.flag)
  BY OpenIsOpenFile DEF Write
<1>2. p \in Seq(Byte) /\ Len(p) \in Nat
  BY InputsAssumption, LenProperties
<1>3. at' = at /\ excused' = excused
  BY DEF Write
<1>4. CASE x.pos < 0
  <2>1. alive' = FALSE /\ UNCHANGED <<at, stored, handle, want, excused>>
    BY <1>4 DEF Write
  <2> QED BY <2>1 DEF TypeOK, Ids, FInv, OneName, HandleInv, LiveId, StoredAsWanted
<1>5. CASE x.pos >= 0
  <2>0. ~(x.pos < 0)
    BY <1>1, <1>5
  <2>1. /\ stored' = IF live THEN [stored EXCEPT ![x.id] = new] ELSE stored
        /\ want' = IF live THEN [want EXCEPT ![x.id] = WriteAt(@, end, p)] ELSE want
        /\ alive' = alive
    BY <2>0, Zenon DEF Write
  <2>2. handle' = [handle EXCEPT ![h] = y]
    <3>1. handle' = [handle EXCEPT ![h].content = new, ![h].ahead = FALSE, ![h].pos = @ + Len(p)]
      BY <2>0, Zenon DEF Write
    <3> HIDE DEF new
    <3> QED BY <3>1, <1>1 DEF TypeOK, OpenFile
  <2>3. x.pos \in Nat
    BY <1>1, <1>5
  <2>4. new \in Seq(Byte)
    BY <2>3, <1>1, <1>2, WriteAtProps
  <2>5. live <=> LiveId(x.id)
    BY DEF LiveId
  <2>6. new = WriteAt(x.content, x.pos, p)
    OBVIOUS
  <2> HIDE DEF new, live
  <2>7. /\ y \in OpenFile /\ y.state = "open" /\ y.id = x.id /\ y.path = x.path /\ y.flag = x.flag
        /\ y.content = new /\ y.pos = x.pos + Len(p)
    <3>1. /\ y.state = "open" /\ y.id = x.id /\ y.path = x.path /\ y.flag = x.flag
          /\ y.content = new /\ y.pos = x.pos + Len(p)
      BY <1>1 DEF OpenFile
    <3>2. y \in OpenFile
      <4>1. k \in Int
        BY <1>1, <1>2
      <4> HIDE DEF k
      <4> QED BY <4>1, <2>4, <1>1 DEF OpenFile
    <3> QED BY <3>1, <3>2
  <2> HIDE DEF y
  <2>8. Becomes(h, y)
    BY <2>2, <2>7, BecomesProps
  <2>9. /\ x.id \in 1..Len(want) /\ want \in Seq(Seq(Byte)) /\ want[x.id] \in Seq(Byte)
        /\ x.id \in 1..Len(stored) /\ stored \in Seq(Seq(Byte))
        /\ Ids = 1..Len(want) /\ Len(want) = Len(stored)
    BY <1>1, OwnRow, IdsProps DEF TypeOK
  <2>10. end \in Nat
    BY <2>3, <2>9, LenProperties
  <2>11. WriteAt(want[x.id], end, p) \in Seq(Byte)
    BY <2>9, <2>10, <1>2, WriteAtProps
  <2>12. end = IF x.flag.append THEN Len(want[x.id]) ELSE x.pos
    OBVIOUS
  <2> HIDE DEF end
  <2>13. /\ want' \in Seq(Seq(Byte)) /\ Len(want') = Len(want)
         /\ \A i \in 1..Len(want) : i # x.id => want'[i] = want[i]
         /\ live => want'[x.id] = WriteAt(want[x.id], end, p)
    BY <2>1, <2>9, <2>11, ExceptSeq
  <2>14. /\ stored' \in Seq(Seq(Byte)) /\ Len(stored') = Len(stored)
         /\ \A i \in 1..Len(stored) : i # x.id => stored'[i] = stored[i]
         /\ live => stored'[x.id] = new
    BY <2>1, <2>4, <2>9, ExceptSeq
  <2>15. LiveId(y.id) /\ y.id \notin excused' =>
           /\ stored'[y.id] = want'[y.id]
           /\ y.content = want'[y.id]
           /\ y.flag.append => y.pos = Len(want'[y.id])
    <3> SUFFICES ASSUME LiveId(x.id), x.id \notin excused
                 PROVE  /\ stored'[x.id] = want'[x.id]
                        /\ new = want'[x.id]
                        /\ x.flag.append => x.pos + Len(p) = Len(want'[x.id])
      BY <2>7, <1>3
    <3>1. x.content = want[x.id] /\ (x.flag.append => x.pos = Len(want[x.id]))
      BY <1>1, OwnRow
    <3>2. end = x.pos
      BY <3>1, <2>12
    <3>3. new = want'[x.id] /\ stored'[x.id] = want'[x.id]
      BY <3>1, <3>2, <2>5, <2>6, <2>13, <2>14
    <3>4. x.flag.append => x.pos + Len(p) = Len(want'[x.id])
      <4> DEFINE w == want[x.id]
      <4>0. w \in Seq(Byte)
        BY <2>9
      <4>1. x.flag.append => Len(WriteAt(w, end, p)) = Len(w) + Len(p)
        <5>1. x.flag.append => end = Len(w)
          BY <3>1, <3>2
        <5> HIDE DEF w
        <5> QED BY <5>1, <4>0, <2>10, <1>2, WriteAtProps
      <4> QED BY <4>1, <3>1, <2>5, <2>13
    <3> QED BY <3>3, <3>4
  <2>16. alive' \in BOOLEAN /\ excused' \subseteq Ids
    BY <2>1, <1>3 DEF TypeOK
  <2> QED BY <2>7, <2>8, <2>9, <2>13, <2>14, <2>15, <2>16, <1>1, <1>3, MethodKeeps
<1> QED BY <1>1, <1>4, <1>5

\* A Write whose UPDATE fails moves the copy away from what is stored, and the row
\* is excused from then on.
LEMMA WriteFailsKeeps ==
    ASSUME TypeOK, FInv, alive, NEW h \in Handle, NEW p \in Data, WriteFails(h, p)
    PROVE  TypeOK' /\ FInv'
<1> DEFINE x == handle[h]
           new == WriteAt(x.content, x.pos, p)
           k == x.pos + Len(p)
           y == [x EXCEPT !.content = new, !.pos = k]
<1>1. /\ x.state = "open" /\ x \in OpenFile /\ x.content \in Seq(Byte) /\ x.pos \in Nat
      /\ CanWrite(x.flag)
  BY OpenIsOpenFile DEF WriteFails
<1>2. p \in Seq(Byte) /\ Len(p) \in Nat
  BY InputsAssumption, LenProperties
<1>3. at' = at /\ stored' = stored /\ want' = want /\ alive' = alive
      /\ excused' = excused \cup {x.id}
  BY DEF WriteFails
<1>4. new \in Seq(Byte)
  BY <1>1, <1>2, WriteAtProps
<1>5. handle' = [handle EXCEPT ![h].content = new, ![h].pos = @ + Len(p)]
  BY DEF WriteFails
<1> HIDE DEF new
<1>6. handle' = [handle EXCEPT ![h] = y]
  BY <1>5, <1>1 DEF TypeOK, OpenFile
<1>7. /\ y.state = "open" /\ y.id = x.id /\ y.path = x.path /\ y.flag = x.flag
      /\ y.content = new /\ y.pos = k
  BY <1>1 DEF OpenFile
<1>8. y \in OpenFile
  <2>1. k \in Int
    BY <1>1, <1>2
  <2> HIDE DEF k
  <2> QED BY <2>1, <1>4, <1>1 DEF OpenFile
<1> HIDE DEF y
<1>9. Becomes(h, y)
  BY <1>6, <1>7, <1>8, BecomesProps
<1>10. /\ x.id \in Ids /\ Ids = 1..Len(want) /\ want \in Seq(Seq(Byte))
       /\ stored \in Seq(Seq(Byte)) /\ excused \subseteq Ids /\ Len(want) = Len(stored)
  BY <1>1, OwnRow, IdsProps DEF TypeOK
<1>11. y.id \in excused' /\ excused' \subseteq Ids /\ alive' \in BOOLEAN
  BY <1>3, <1>7, <1>10 DEF TypeOK
<1> QED BY <1>1, <1>3, <1>7, <1>8, <1>9, <1>10, <1>11, MethodKeeps

\* Read replaces the copy by what is stored, and undoes a truncation.
LEMMA ReadKeeps ==
    ASSUME TypeOK, FInv, alive, NEW h \in Handle, NEW n \in 1..MaxLen, Read(h, n)
    PROVE  TypeOK' /\ FInv'
<1> DEFINE x == handle[h]
           now == stored[at[x.path]]
           left == Len(now) - x.pos
           fails == \/ at[x.path] = NoRow
                    \/ x.state = "open" /\ CanRead(x.flag) /\ x.pos < 0
           c == IF x.state = "open" THEN now ELSE x.content
           k == IF x.state = "open" /\ CanRead(x.flag) /\ left > 0
                THEN x.pos + (IF n < left THEN n ELSE left) ELSE x.pos
           y == [x EXCEPT !.content = c, !.ahead = FALSE, !.pos = k]
<1>1. /\ x \in OpenFile /\ x.content \in Seq(Byte) /\ x.pos \in Int /\ x.path \in Path
      /\ x.state \in {"open", "closed"} /\ x.state # "unused" /\ x.ahead \in BOOLEAN
  BY OpenIsOpenFile DEF Read
<1>2. at' = at /\ stored' = stored /\ want' = want /\ n \in Int
  BY InputsAssumption DEF Read
<1>3. CASE fails
  <2>1. alive' = FALSE /\ UNCHANGED <<at, stored, handle, want, excused>>
    BY <1>3 DEF Read
  <2> QED BY <2>1 DEF TypeOK, Ids, FInv, OneName, HandleInv, LiveId, StoredAsWanted
<1>4. CASE ~fails
  <2>1. /\ handle' = [handle EXCEPT ![h] = y]
        /\ excused' = IF x.ahead THEN excused \cup {x.id} ELSE excused
        /\ alive' = alive
    BY <1>1, <1>4 DEF Read, TypeOK, OpenFile
  <2>2. at[x.path] \in 1..Len(stored)
    BY <1>1, <1>4, IdsProps DEF TypeOK, NoRow
  <2>3. now \in Seq(Byte) /\ Len(now) \in Nat
    BY <2>2, ElementOfSeq, LenProperties DEF TypeOK
  <2>4. c \in Seq(Byte) /\ (x.state = "open" => c = stored[at[x.path]])
    BY <2>3, <1>1
  <2>5. k \in Int /\ (left <= 0 => k = x.pos) /\ left = Len(now) - x.pos
    BY <2>3, <1>1, <1>2
  <2> HIDE DEF c, k, left
  <2>6. /\ y \in OpenFile /\ y.state = x.state /\ y.id = x.id /\ y.path = x.path /\ y.flag = x.flag
        /\ y.content = c /\ y.pos = k
    BY <2>4, <2>5, <1>1 DEF OpenFile
  <2> HIDE DEF y
  <2>7. Becomes(h, y)
    BY <2>1, <2>6, BecomesProps
  <2>8. excused \subseteq excused' /\ (x.ahead => x.id \in excused')
    BY <2>1
  <2>9. ASSUME x.state = "open", LiveId(y.id), y.id \notin excused'
        PROVE  /\ stored'[y.id] = want'[y.id]
               /\ CanWrite(y.flag) =>
                     /\ y.content = want'[y.id]
                     /\ y.flag.append => y.pos = Len(want'[y.id])
    <3>1. /\ stored[x.id] = want[x.id] /\ at[x.path] = x.id
          /\ CanWrite(x.flag) /\ x.flag.append => x.pos = Len(want[x.id])
      BY <2>6, <2>8, <2>9, OwnRow
    <3>2. c = want[x.id] /\ now = want[x.id]
      BY <3>1, <2>4, <2>9
    <3>3. CanWrite(x.flag) /\ x.flag.append => k = Len(want[x.id])
      <4> SUFFICES ASSUME CanWrite(x.flag), x.flag.append PROVE k = Len(want[x.id])
        OBVIOUS
      <4>1. x.pos = Len(now)
        BY <3>1, <3>2
      <4> HIDE DEF now
      <4>2. k = x.pos
        BY <4>1, <2>3, <2>5
      <4> QED BY <4>1, <4>2, <3>2
    <3> QED BY <3>1, <3>2, <3>3, <2>6, <1>2
  <2>10. excused' \subseteq Ids
    <3>1. x.id \in Ids
      BY <1>1 DEF FInv, HandleInv
    <3> QED BY <3>1, <2>1, <1>1 DEF TypeOK
  <2>11. /\ alive' \in BOOLEAN /\ stored' \in Seq(Seq(Byte)) /\ want' \in Seq(Seq(Byte))
    BY <2>1, <1>2 DEF TypeOK
  <2> QED BY <2>6, <2>7, <2>8, <2>9, <2>10, <2>11, <1>1, <1>2, MethodKeeps
<1> QED BY <1>3, <1>4

-----------------------------------------------------------------------------
(* OpenFile and Remove *)

\* A handle that is opened on an existing file has the content of its row: what
\* the file should hold, unless another handle is ahead of it.
LEMMA OpenExistingKeeps ==
    ASSUME TypeOK, FInv, alive, NEW h \in Handle, NEW p \in Path, NEW f \in Flags,
           OpenExisting(h, p, f)
    PROVE  TypeOK' /\ FInv'
<1> DEFINE i == at[p]
           y == Duplicate(i, p, stored[i], f)
<1>1. /\ handle[h].state # "open" /\ i # NoRow
      /\ handle' = [handle EXCEPT ![h] = y]
      /\ want' = IF f.trunc THEN [want EXCEPT ![i] = <<>>] ELSE want
      /\ excused' = IF \/ \E g \in Handle : handle[g].state = "open" /\ handle[g].id = i
                       \/ f.append /\ f.trunc /\ stored[i] # <<>>
                    THEN excused \cup {i} ELSE excused
      /\ at' = at /\ stored' = stored /\ alive' = alive
  BY DEF OpenExisting
<1>2. /\ i \in 1..Len(stored) /\ i \in Ids /\ i \in 1..MaxId /\ i \in 1..Len(want)
      /\ Ids = 1..Len(want) /\ Len(want) = Len(stored)
      /\ stored \in Seq(Seq(Byte)) /\ want \in Seq(Seq(Byte))
  <2>1. /\ at \in [Path -> 0..Len(stored)] /\ Len(stored) <= MaxId /\ Len(want) = Len(stored)
        /\ stored \in Seq(Seq(Byte)) /\ want \in Seq(Seq(Byte))
    BY DEF TypeOK
  <2>2. i \in 0..Len(stored) /\ i # 0
    BY <1>1, <2>1 DEF NoRow
  <2> HIDE DEF i
  <2>3. i \in 1..Len(stored) /\ i \in 1..MaxId
    BY <2>1, <2>2, IdsProps, InputsAssumption
  <2> QED BY <2>1, <2>3, IdsProps
<1>3. stored[i] \in Seq(Byte) /\ want[i] \in Seq(Byte) /\ <<>> \in Seq(Byte) /\ Len(<<>>) = 0
  BY <1>2, ElementOfSeq, EmptySeq
<1> HIDE DEF i
<1>4. /\ y \in OpenFile
      /\ y.state = "open" /\ y.id = i /\ y.path = p /\ y.flag = f
      /\ y.content = IF f.trunc THEN <<>> ELSE stored[i]
      /\ y.pos = IF f.append THEN Len(stored[i]) ELSE 0
      /\ y.ahead <=> f.trunc /\ stored[i] # <<>>
  <2> DEFINE v == stored[i]
  <2>1. i \in 1..MaxId /\ v \in Seq(Byte) /\ y = Duplicate(i, p, v, f)
    BY <1>2, <1>3
  <2> HIDE DEF v, y
  <2>2. /\ y \in OpenFile
        /\ y.state = "open" /\ y.id = i /\ y.path = p /\ y.flag = f
        /\ y.content = IF f.trunc THEN <<>> ELSE v
        /\ y.pos = IF f.append THEN Len(v) ELSE 0
        /\ y.ahead <=> f.trunc /\ v # <<>>
    BY <2>1, DuplicateProps
  <2> QED BY <2>2 DEF v
<1> HIDE DEF y
<1>5. Becomes(h, y) /\ handle'[h] = y /\ \A g \in Handle \ {h} : handle'[g] = handle[g]
  BY <1>1, <1>4, BecomesProps DEF Becomes
<1>6. /\ want' \in Seq(Seq(Byte)) /\ Len(want') = Len(want)
      /\ \A j \in Ids : j # i => want'[j] = want[j]
      /\ want'[i] = IF f.trunc THEN <<>> ELSE want[i]
  BY <1>1, <1>2, <1>3, ExceptSeq
<1>7. excused \subseteq excused' /\ excused' \subseteq Ids /\ Ids' = Ids
  BY <1>1, <1>2 DEF TypeOK, Ids
<1>8. TypeOK'
  <2>1. handle' \in [Handle -> OpenFile \cup {Closed}]
    BY <1>5 DEF Becomes
  <2> QED BY <2>1, <1>1, <1>6, <1>7 DEF TypeOK
<1>9. OneName'
  BY <1>1 DEF FInv, OneName
<1>10. \A j : LiveId(j)' <=> LiveId(j)
  BY <1>1 DEF LiveId
<1>11. ASSUME i \notin excused'
       PROVE  /\ \A g \in Handle : ~(handle[g].state = "open" /\ handle[g].id = i)
              /\ stored[i] = want[i]
              /\ ~(f.append /\ f.trunc /\ stored[i] # <<>>)
  <2>1. /\ \A g \in Handle : ~(handle[g].state = "open" /\ handle[g].id = i)
        /\ ~(f.append /\ f.trunc /\ stored[i] # <<>>)
    BY <1>1, <1>11
  <2>2. i \notin {NoRow} \cup excused
    BY <1>1, <1>7, <1>11
  <2> QED BY <2>1, <2>2 DEF FInv, StoredAsWanted, i
<1>12. ASSUME NEW g \in Handle PROVE HandleInv(g)'
  <2>1. HandleInv(g)
    BY DEF FInv
  <2>2. CASE g = h
    <3>1. \A q \in Path : at'[q] = i => q = p
      BY <1>1 DEF FInv, OneName, i
    <3>2. \A e \in Handle \ {h} :
             handle'[e].state = "open" /\ handle'[e].id = i => i \in excused'
      BY <1>1, <1>5
    <3>3. i \notin excused' => y.content = want'[i] /\ (f.append => y.pos = Len(want'[i]))
      BY <1>3, <1>4, <1>6, <1>11
    <3> QED BY <3>1, <3>2, <3>3, <2>2, <1>2, <1>4, <1>5, <1>7 DEF HandleInv
  <2>3. CASE g # h
    <3>1. handle'[g] = handle[g]
      BY <2>3, <1>5
    <3>2. handle[g].state # "unused" => handle[g].id \in Ids'
      BY <2>1, <1>7 DEF HandleInv
    <3> SUFFICES ASSUME handle[g].state = "open" PROVE HandleInv(g)'
      BY <3>1, <3>2 DEF HandleInv
    <3>3. \A q \in Path : at'[q] = handle[g].id => q = handle[g].path
      BY <2>1, <1>1 DEF HandleInv
    <3>4. \A e \in Handle \ {g} :
             handle'[e].state = "open" /\ handle'[e].id = handle[g].id => handle[g].id \in excused'
      <4>1. \A e \in Handle \ {g} :
               handle[e].state = "open" /\ handle[e].id = handle[g].id => handle[g].id \in excused
        BY <2>1 DEF HandleInv
      <4>2. y.id = handle[g].id => handle[g].id \in excused'
        BY <1>4, <1>11
      <4> QED BY <4>1, <4>2, <1>5, <1>7
    <3>5. CanWrite(handle[g].flag) /\ LiveId(handle[g].id) /\ handle[g].id \notin excused' =>
            /\ handle[g].content = want'[handle[g].id]
            /\ handle[g].flag.append => handle[g].pos = Len(want'[handle[g].id])
      <4> SUFFICES ASSUME CanWrite(handle[g].flag), LiveId(handle[g].id),
                          handle[g].id \notin excused'
                   PROVE  /\ handle[g].content = want'[handle[g].id]
                          /\ handle[g].flag.append => handle[g].pos = Len(want'[handle[g].id])
        OBVIOUS
      <4>1. handle[g].id # i
        BY <1>11
      <4>2. want'[handle[g].id] = want[handle[g].id]
        BY <4>1, <3>2, <1>6, <1>7
      <4> QED BY <4>2, <2>1, <1>7 DEF HandleInv
    <3> QED BY <3>1, <3>2, <3>3, <3>4, <3>5, <1>10 DEF HandleInv
  <2> QED BY <2>2, <2>3
<1>13. StoredAsWanted'
  <2> SUFFICES ASSUME NEW q \in Path, at[q] # NoRow, at[q] \notin excused'
               PROVE  \/ stored'[at[q]] = want'[at[q]]
                      \/ \E g \in Handle : handle'[g].state = "open" /\ handle'[g].id = at[q]
                                             /\ handle'[g].ahead
    BY <1>1 DEF StoredAsWanted
  <2>1. CASE at[q] = i
    <3>1. stored[i] = want[i] /\ i \notin excused'
      BY <2>1, <1>11
    <3>2. CASE f.trunc /\ stored[i] # <<>>
      BY <3>2, <2>1, <1>4, <1>5
    <3>3. CASE ~(f.trunc /\ stored[i] # <<>>)
      <4>1. stored'[i] = want'[i]
        BY <3>1, <3>3, <1>1, <1>6
      <4> QED BY <4>1, <2>1
    <3> QED BY <3>2, <3>3
  <2>2. CASE at[q] # i
    <3>1. \/ stored[at[q]] = want[at[q]]
          \/ \E g \in Handle : handle[g].state = "open" /\ handle[g].id = at[q] /\ handle[g].ahead
      BY <1>7 DEF FInv, StoredAsWanted
    <3>2. at[q] \in Ids
      BY IdsProps DEF TypeOK, NoRow
    <3>3. stored'[at[q]] = stored[at[q]] /\ want'[at[q]] = want[at[q]]
      BY <3>2, <2>2, <1>1, <1>6
    <3>4. \A g \in Handle : handle[g].state = "open" => handle'[g] = handle[g]
      BY <1>1, <1>5
    <3> QED BY <3>1, <3>3, <3>4
  <2> QED BY <2>1, <2>2
<1> QED BY <1>8, <1>9, <1>12, <1>13 DEF FInv

\* NewFile inserts a row that no handle has seen.
LEMMA OpenNewKeeps ==
    ASSUME TypeOK, FInv, alive, NEW h \in Handle, NEW p \in Path, NEW f \in Flags,
           OpenNew(h, p, f)
    PROVE  TypeOK' /\ FInv'
<1> DEFINE i == Len(stored) + 1
           none == <<>>
           y == Duplicate(i, p, none, f)
<1>1. /\ handle[h].state # "open" /\ at[p] = NoRow /\ Len(stored) < MaxId
      /\ handle' = [handle EXCEPT ![h] = y]
      /\ stored' = Append(stored, none) /\ want' = Append(want, none)
      /\ at' = [at EXCEPT ![p] = i]
      /\ excused' = excused /\ alive' = alive
  BY DEF OpenNew
<1>2. /\ Len(stored) \in Nat /\ Ids = 1..Len(stored) /\ Len(want) = Len(stored)
      /\ stored \in Seq(Seq(Byte)) /\ want \in Seq(Seq(Byte)) /\ i \notin Ids
      /\ i \in 1..MaxId /\ i # NoRow
  BY <1>1, IdsProps, InputsAssumption DEF TypeOK, NoRow
<1>3. none \in Seq(Byte) /\ Len(none) = 0
  BY EmptySeq
<1>4. /\ y \in OpenFile
      /\ y.state = "open" /\ y.id = i /\ y.path = p /\ y.flag = f
      /\ y.content = none /\ y.pos = 0 /\ ~y.ahead
  <2>1. none = <<>>
    OBVIOUS
  <2>2. i \in 1..MaxId /\ none \in Seq(Byte)
    BY <1>2, <1>3
  <2> HIDE DEF none, i
  <2>3. /\ y \in OpenFile
        /\ y.state = "open" /\ y.id = i /\ y.path = p /\ y.flag = f
        /\ y.content = IF f.trunc THEN <<>> ELSE none
        /\ y.pos = IF f.append THEN Len(none) ELSE 0
        /\ y.ahead <=> f.trunc /\ none # <<>>
    BY <2>2, DuplicateProps
  <2> HIDE DEF y
  <2> QED BY <2>1, <2>3, <1>3
<1> HIDE DEF y, none
<1>5. /\ stored' \in Seq(Seq(Byte)) /\ Len(stored') = i
      /\ \A j \in 1..Len(stored) : stored'[j] = stored[j]
      /\ stored'[i] = none
      /\ want' \in Seq(Seq(Byte)) /\ Len(want') = i
      /\ \A j \in 1..Len(stored) : want'[j] = want[j]
      /\ want'[i] = none
  BY <1>1, <1>2, <1>3, AppendProperties
<1>6. Ids' = Ids \cup {i}
  <2>1. DOMAIN stored' = 1..Len(stored')
    BY <1>5, LenProperties
  <2> QED BY <2>1, <1>2, <1>5 DEF Ids
<1>7. Becomes(h, y) /\ handle'[h] = y /\ \A g \in Handle \ {h} : handle'[g] = handle[g]
  BY <1>1, <1>4, BecomesProps DEF Becomes
<1>8. /\ at'[p] = i
      /\ \A q \in Path : q # p => at'[q] = at[q]
      /\ \A q \in Path : at[q] \in 0..Len(stored)
      /\ at' \in [Path -> 0..Len(stored')]
  BY <1>1, <1>2, <1>5 DEF TypeOK
<1>9. TypeOK'
  <2>1. handle' \in [Handle -> OpenFile \cup {Closed}]
    BY <1>7 DEF Becomes
  <2>2. excused' \subseteq Ids' /\ alive' \in BOOLEAN /\ Len(stored') <= MaxId
    BY <1>1, <1>2, <1>5, <1>6 DEF TypeOK
  <2> QED BY <2>1, <2>2, <1>5, <1>8 DEF TypeOK
<1>10. \A q \in Path : at[q] # i
  BY <1>2, <1>8
<1>11. OneName'
  BY <1>8, <1>10 DEF FInv, OneName
<1>12. i \notin excused'
  BY <1>1, <1>2 DEF TypeOK
<1>13. ASSUME NEW g \in Handle, handle[g].state = "open"
       PROVE  handle[g].id \in Ids /\ handle[g].id # i /\ g # h /\ handle'[g] = handle[g]
  BY <1>1, <1>2, <1>7, <1>13 DEF FInv, HandleInv
<1>14. ASSUME NEW g \in Handle PROVE HandleInv(g)'
  <2>1. CASE g = h
    <3>1. \A q \in Path : at'[q] = i => q = p
      BY <1>8, <1>10
    <3>2. \A e \in Handle \ {h} : ~(handle'[e].state = "open" /\ handle'[e].id = i)
      BY <1>7, <1>13
    <3>3. y.content = want'[i] /\ y.pos = Len(want'[i])
      BY <1>3, <1>4, <1>5
    <3> QED BY <3>1, <3>2, <3>3, <2>1, <1>4, <1>6, <1>7 DEF HandleInv
  <2>2. CASE g # h
    <3>1. handle'[g] = handle[g] /\ HandleInv(g)
      BY <2>2, <1>7 DEF FInv
    <3>2. handle[g].state # "unused" => handle[g].id \in Ids'
      BY <3>1, <1>6 DEF HandleInv
    <3> SUFFICES ASSUME handle[g].state = "open" PROVE HandleInv(g)'
      BY <3>1, <3>2 DEF HandleInv
    <3>3. handle[g].id \in Ids /\ handle[g].id # i
      BY <1>13
    <3>4. \A q \in Path : at'[q] = handle[g].id => at[q] = handle[g].id
      BY <3>3, <1>8
    <3>5. \A q \in Path : at'[q] = handle[g].id => q = handle[g].path
      BY <3>1, <3>4 DEF HandleInv
    <3>6. \A e \in Handle \ {g} :
             handle'[e].state = "open" /\ handle'[e].id = handle[g].id => handle[g].id \in excused'
      <4>1. \A e \in Handle \ {g} :
               handle[e].state = "open" /\ handle[e].id = handle[g].id => handle[g].id \in excused
        BY <3>1 DEF HandleInv
      <4> QED BY <4>1, <3>3, <1>1, <1>4, <1>7
    <3>7. want'[handle[g].id] = want[handle[g].id]
      BY <3>3, <1>2, <1>5
    <3>8. LiveId(handle[g].id)' => LiveId(handle[g].id)
      BY <3>1, <3>4 DEF LiveId
    <3>9. CanWrite(handle'[g].flag) /\ LiveId(handle[g].id)' /\ handle'[g].id \notin excused' =>
            /\ handle'[g].content = want'[handle'[g].id]
            /\ handle'[g].flag.append => handle'[g].pos = Len(want'[handle'[g].id])
      BY <3>1, <3>7, <3>8, <1>1 DEF HandleInv
    <3> QED BY <3>1, <3>2, <3>5, <3>6, <3>9 DEF HandleInv
  <2> QED BY <2>1, <2>2
<1>15. StoredAsWanted'
  <2> SUFFICES ASSUME NEW q \in Path, at'[q] # NoRow, at'[q] \notin excused'
               PROVE  \/ stored'[at'[q]] = want'[at'[q]]
                      \/ \E g \in Handle : handle'[g].state = "open" /\ handle'[g].id = at'[q]
                                             /\ handle'[g].ahead
    BY DEF StoredAsWanted
  <2>1. CASE q = p
    BY <2>1, <1>5, <1>8
  <2>2. CASE q # p
    <3>1. at'[q] = at[q] /\ at[q] \in 1..Len(stored)
      BY <2>2, <1>8 DEF NoRow
    <3>2. \/ stored[at[q]] = want[at[q]]
          \/ \E g \in Handle : handle[g].state = "open" /\ handle[g].id = at[q] /\ handle[g].ahead
      BY <3>1, <1>1 DEF FInv, StoredAsWanted
    <3>3. stored'[at[q]] = stored[at[q]] /\ want'[at[q]] = want[at[q]]
      BY <3>1, <1>5
    <3> QED BY <3>1, <3>2, <3>3, <1>13
  <2> QED BY <2>1, <2>2
<1> QED BY <1>9, <1>11, <1>14, <1>15 DEF FInv

\* Remove takes the row away and leaves its handles open.
LEMMA RemoveKeeps ==
    ASSUME TypeOK, FInv, alive, NEW p \in Path, Remove(p)
    PROVE  TypeOK' /\ FInv'
<1>1. /\ at' = [at EXCEPT ![p] = NoRow]
      /\ UNCHANGED <<stored, handle, alive, want, excused>>
  BY DEF Remove
<1>2. /\ \A q \in Path : at'[q] = IF q = p THEN NoRow ELSE at[q]
      /\ at' \in [Path -> 0..Len(stored')]
  BY <1>1, IdsProps DEF TypeOK, NoRow
<1>3. Ids' = Ids
  BY <1>1 DEF Ids
<1>4. TypeOK'
  BY <1>1, <1>2, <1>3 DEF TypeOK
<1>5. OneName'
  BY <1>2 DEF FInv, OneName
<1>6. ASSUME NEW g \in Handle PROVE HandleInv(g)'
  <2>1. HandleInv(g)
    BY DEF FInv
  <2>2. handle[g].state # "unused" => handle[g].id # NoRow
    BY <2>1, IdsProps DEF HandleInv
  <2>3. handle[g].state # "unused" =>
          \A q \in Path : at'[q] = handle[g].id => at[q] = handle[g].id
    BY <2>2, <1>2
  <2> QED BY <2>1, <2>3, <1>1, <1>3 DEF HandleInv, LiveId
<1>7. StoredAsWanted'
  BY <1>1, <1>2 DEF FInv, StoredAsWanted
<1> QED BY <1>4, <1>5, <1>6, <1>7 DEF FInv

-----------------------------------------------------------------------------
(* The theorems *)

\* Every call keeps the invariant.
LEMMA CallKeeps == TypeOK /\ FInv /\ [Next]_vars => (TypeOK /\ FInv)'
<1> SUFFICES ASSUME TypeOK, FInv, [Next]_vars PROVE TypeOK' /\ FInv'
  OBVIOUS
<1>1. CASE UNCHANGED vars
  BY <1>1 DEF vars, TypeOK, Ids, FInv, OneName, HandleInv, LiveId, StoredAsWanted
<1>2. CASE Next
  BY <1>2, OpenExistingKeeps, OpenNewKeeps, ReadKeeps, WriteKeeps, WriteFailsKeeps, SeekKeeps,
     TruncateKeeps, CloseKeeps, RemoveKeeps DEF Next
<1> QED BY <1>1, <1>2

\* There are no rows and no open files at first.
LEMMA InitHolds == Init => TypeOK /\ FInv
<1> SUFFICES ASSUME Init PROVE TypeOK /\ FInv
  OBVIOUS
<1>1. <<>> \in Seq(Seq(Byte)) /\ Len(<<>>) = 0 /\ NoRow \in 0..0
  BY EmptySeq DEF NoRow
<1>2. Closed.state = "unused"
  BY DEF Closed
<1>3. TypeOK
  BY <1>1, InputsAssumption DEF Init, TypeOK
<1>4. FInv
  BY <1>2 DEF Init, FInv, OneName, HandleInv, StoredAsWanted
<1> QED BY <1>3, <1>4

\* The invariant holds in every state.
LEMMA FHolds == Spec => [](TypeOK /\ FInv)
BY InitHolds, CallKeeps, PTL DEF Spec

\* Whatever is opened, read, written, moved, truncated, closed and removed, the
\* handles and the rows keep their form.
THEOREM FileTypes == Spec => []TypeOK
BY FHolds, PTL

\* Write stores what an os file would hold, for any contents, offsets, sizes and
\* flags: the copy of the one handle on a file is what the file should hold, and
\* what is stored is behind it only between a truncation and the next Write.
THEOREM StoredAsWantedHolds == Spec => []StoredAsWanted
<1>1. FInv => StoredAsWanted
  BY DEF FInv
<1> QED BY <1>1, FHolds, PTL

\* What a row holds is changed through an open handle of that row, never through
\* one whose file was removed and made again under the same path.
THEOREM OnlyOwnRowHolds == Spec => OnlyOwnRow
<1> DEFINE Own == \A i \in Ids : stored'[i] # stored[i] =>
                    \E h \in Handle : handle[h].state = "open" /\ handle[h].id = i
<1>1. TypeOK /\ [Next]_vars => [Own]_vars
  <2> SUFFICES ASSUME TypeOK, Next, NEW i \in Ids, stored'[i] # stored[i]
               PROVE  \E h \in Handle : handle[h].state = "open" /\ handle[h].id = i
    OBVIOUS
  <2>1. i \in 1..Len(stored) /\ stored \in Seq(Seq(Byte))
    BY IdsProps DEF TypeOK
  <2>2. ASSUME NEW h \in Handle, NEW p \in Path, NEW f \in Flags, OpenNew(h, p, f)
        PROVE  FALSE
    <3>1. stored' = Append(stored, <<>>) /\ <<>> \in Seq(Byte)
      BY <2>2, EmptySeq DEF OpenNew
    <3> QED BY <3>1, <2>1, AppendProperties
  <2>3. ASSUME NEW h \in Handle, NEW p \in Data, Write(h, p)
        PROVE  handle[h].state = "open" /\ handle[h].id = i
    <3>1. stored' # stored => \E new : stored' = [stored EXCEPT ![handle[h].id] = new]
      BY <2>3 DEF Write
    <3> QED BY <3>1, <2>1, <2>3 DEF Write
  <2> QED BY <2>2, <2>3, ZenonT(30) DEF Next, OpenExisting, Read, WriteFails, Seek, Truncate, Close,
       Remove
<1> QED BY <1>1, FHolds, PTL DEF Spec, OnlyOwnRow

=============================================================================
