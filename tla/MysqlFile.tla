------------------------------ MODULE MysqlFile ------------------------------
(***************************************************************************)
(* Open files of mysqlfs: the methods of File in filesystem.go.            *)
(*                                                                         *)
(* A handle carries its own copy of the content.  Write changes the copy   *)
(* and stores it whole under the row's id; Read first replaces the copy by *)
(* what is stored under the handle's path; Truncate and O_TRUNC change     *)
(* only the copy.  The statements of OpenFile and of Remove are            *)
(* one step here: MysqlStorage has their interleavings.                    *)
(***************************************************************************)
EXTENDS Integers, Sequences

CONSTANTS Handle,     \* the handles of the process
          Path,       \* the files, all in the root directory
          Flags,      \* the flag combinations passed to OpenFile
          Data,       \* the byte strings passed to Write
          Offsets,    \* the offsets passed to Seek
          Sizes,      \* the sizes passed to Truncate
          MaxLen,     \* bound: the length of a content, and the position of a Seek
          MaxId       \* bound: the number of rows ever inserted

Flag == [acc : {"r", "w", "rw"}, create : BOOLEAN, append : BOOLEAN, trunc : BOOLEAN]

ASSUME FlagsAssumption == Flags \subseteq Flag

Byte == 0..255

ASSUME InputsAssumption ==
    /\ Data \subseteq Seq(Byte)
    /\ Offsets \subseteq Int
    /\ Sizes \subseteq Nat
    /\ MaxLen \in Nat
    /\ MaxId \in Nat

NoRow == 0

VARIABLES at,       \* the id of the row at each path, or NoRow
          stored,   \* the content of every row ever inserted
          handle,   \* the open files
          alive,    \* FALSE once a method has panicked
          want,     \* history variable: the content an os file would have
          excused   \* history variable: ids whose content may differ from it

vars == <<at, stored, handle, alive, want, excused>>

Closed == [state |-> "unused"]

OpenFile == [state : {"open", "closed"}, id : 1..MaxId, path : Path,
             content : Seq(Byte), pos : Int, flag : Flags,
             ahead : BOOLEAN]  \* history: a truncation is not stored yet

Ids == DOMAIN stored

TypeOK ==
    /\ at \in [Path -> 0..Len(stored)]
    /\ stored \in Seq(Seq(Byte)) /\ Len(stored) <= MaxId
    /\ handle \in [Handle -> OpenFile \cup {Closed}]
    /\ alive \in BOOLEAN
    /\ want \in Seq(Seq(Byte)) /\ Len(want) = Len(stored)
    /\ excused \subseteq Ids

Init ==
    /\ at = [p \in Path |-> NoRow]
    /\ stored = <<>>
    /\ handle = [h \in Handle |-> Closed]
    /\ alive = TRUE
    /\ want = <<>>
    /\ excused = {}

-----------------------------------------------------------------------------
Zeros(n) == [i \in 1..n |-> 0]

Pad(s, n) == IF Len(s) < n THEN s \o Zeros(n - Len(s)) ELSE s

\* WriteAt: overwrite s from the offset on; a gap is filled with zeros.
WriteAt(s, off, p) ==
    SubSeq(Pad(s, off), 1, off) \o p \o SubSeq(s, off + Len(p) + 1, Len(s))

\* Truncate
Resize(s, n) == IF n < Len(s) THEN SubSeq(s, 1, n) ELSE Pad(s, n)

\* isReadAndWrite(flag) || isReadOnly(flag): O_RDONLY counts only on its own.
CanRead(f) == \/ f.acc = "rw"
              \/ f.acc = "r" /\ ~f.create /\ ~f.append /\ ~f.trunc

CanWrite(f) == f.acc \in {"w", "rw"}

\* Slip: the position of an appending handle is the start.
DuplicateAtStart(id, p, content, f) ==
    [state |-> "open", id |-> id, path |-> p,
     content |-> IF f.trunc THEN <<>> ELSE content,
     pos |-> 0,
     flag |-> f, ahead |-> f.trunc /\ content # <<>>]

\* Duplicate: the position of an appending handle is the length before O_TRUNC
\* empties the copy.
Duplicate(id, p, content, f) ==
    [state |-> "open", id |-> id, path |-> p,
     content |-> IF f.trunc THEN <<>> ELSE content,
     pos |-> IF f.append THEN Len(content) ELSE 0,
     flag |-> f, ahead |-> f.trunc /\ content # <<>>]

-----------------------------------------------------------------------------
\* OpenFile of an existing file
OpenExisting(h, p, f) ==
    /\ handle[h].state # "open"
    /\ at[p] # NoRow
    /\ handle' = [handle EXCEPT ![h] = Duplicate(at[p], p, stored[at[p]], f)]
    /\ want' = IF f.trunc THEN [want EXCEPT ![at[p]] = <<>>] ELSE want
    /\ excused' = IF \/ \E g \in Handle : handle[g].state = "open" /\ handle[g].id = at[p]
                     \/ f.append /\ f.trunc /\ stored[at[p]] # <<>>
                  THEN excused \cup {at[p]} ELSE excused
    /\ UNCHANGED <<at, stored, alive>>

\* Slip: the id after the inserted one is taken for it.
OpenNextId(h, p, f) ==
    /\ handle[h].state # "open"
    /\ at[p] = NoRow
    /\ f.create
    /\ Len(stored) < MaxId
    /\ stored' = Append(stored, <<>>)
    /\ want' = Append(want, <<>>)
    /\ at' = [at EXCEPT ![p] = Len(stored) + 2]
    /\ handle' = [handle EXCEPT ![h] = Duplicate(Len(stored) + 1, p, <<>>, f)]
    /\ UNCHANGED <<alive, excused>>

\* OpenFile of a missing file with O_CREATE: NewFile inserts an empty row.
OpenNew(h, p, f) ==
    /\ handle[h].state # "open"
    /\ at[p] = NoRow
    /\ f.create
    /\ Len(stored) < MaxId
    /\ stored' = Append(stored, <<>>)
    /\ want' = Append(want, <<>>)
    /\ at' = [at EXCEPT ![p] = Len(stored) + 1]
    /\ handle' = [handle EXCEPT ![h] = Duplicate(Len(stored) + 1, p, <<>>, f)]
    /\ UNCHANGED <<alive, excused>>

\* Read: SELECT by path before anything is checked; a missing row is a nil
\* dereference, also when the handle is closed.  The copy is replaced even when
\* the handle may not read, and a truncation that was not stored is undone.  A
\* negative position panics.
Read(h, n) ==
    LET x == handle[h]
        now == stored[at[x.path]]
        left == Len(now) - x.pos
    IN  /\ x.state # "unused"
        /\ IF \/ at[x.path] = NoRow
              \/ x.state = "open" /\ CanRead(x.flag) /\ x.pos < 0
           THEN alive' = FALSE /\ UNCHANGED <<handle, excused>>
           ELSE /\ handle' = [handle EXCEPT
                      ![h].content = IF x.state = "open" THEN now ELSE @,
                      ![h].ahead = FALSE,
                      ![h].pos = IF x.state = "open" /\ CanRead(x.flag) /\ left > 0
                                 THEN @ + (IF n < left THEN n ELSE left) ELSE @]
                /\ excused' = IF x.ahead THEN excused \cup {x.id} ELSE excused
                /\ UNCHANGED alive
        /\ UNCHANGED <<at, stored, want>>

\* Slip: the UPDATE is made by path.
WriteByPath(h, p) ==
    LET x == handle[h]
        new == WriteAt(x.content, x.pos, p)
    IN  /\ x.state = "open"
        /\ CanWrite(x.flag)
        /\ x.pos >= 0
        /\ Len(new) <= MaxLen
        /\ handle' = [handle EXCEPT ![h].content = new, ![h].ahead = FALSE,
                                    ![h].pos = @ + Len(p)]
        /\ stored' = IF at[x.path] = NoRow THEN stored
                     ELSE [stored EXCEPT ![at[x.path]] = new]
        /\ want' = stored'
        /\ UNCHANGED <<at, alive, excused>>

\* Write: change the copy, then UPDATE the content of the row with the handle's
\* id; a row that was removed in between is not touched by the UPDATE.
Write(h, p) ==
    LET x == handle[h]
        new == WriteAt(x.content, x.pos, p)
        live == \E q \in Path : at[q] = x.id
        end == IF x.flag.append THEN Len(want[x.id]) ELSE x.pos
    IN  /\ x.state = "open"
        /\ CanWrite(x.flag)
        /\ IF x.pos < 0
           THEN alive' = FALSE /\ UNCHANGED <<stored, handle, want>>
           ELSE /\ Len(new) <= MaxLen
                /\ handle' = [handle EXCEPT ![h].content = new, ![h].ahead = FALSE,
                                            ![h].pos = @ + Len(p)]
                /\ stored' = IF live THEN [stored EXCEPT ![x.id] = new] ELSE stored
                /\ want' = IF live THEN [want EXCEPT ![x.id] = WriteAt(@, end, p)] ELSE want
                /\ UNCHANGED alive
        /\ UNCHANGED <<at, excused>>

\* Write whose UPDATE fails: the copy and the position have moved already, and
\* the caller gets an error.
WriteFails(h, p) ==
    LET x == handle[h]
        new == WriteAt(x.content, x.pos, p)
    IN  /\ x.state = "open"
        /\ CanWrite(x.flag)
        /\ x.pos >= 0
        /\ Len(new) <= MaxLen
        /\ handle' = [handle EXCEPT ![h].content = new, ![h].pos = @ + Len(p)]
        /\ excused' = excused \cup {x.id}
        /\ UNCHANGED <<at, stored, alive, want>>

\* Seek: any offset is accepted.  An os file opened with O_APPEND ignores the
\* position when it writes; this one does not.
Seek(h, off, whence) ==
    LET x == handle[h]
        new == IF whence = "start" THEN off
               ELSE IF whence = "current" THEN x.pos + off ELSE Len(x.content) + off
    IN  /\ x.state = "open"
        /\ new \in -MaxLen..MaxLen
        /\ handle' = [handle EXCEPT ![h].pos = new]
        /\ excused' = IF x.flag.append THEN excused \cup {x.id} ELSE excused
        /\ UNCHANGED <<at, stored, alive, want>>

\* Truncate: only the copy, whatever the flags of the handle (and its state, but
\* nobody looks at the copy of a closed handle again).
Truncate(h, n) ==
    LET x == handle[h]
        real == CanWrite(x.flag)
    IN  /\ x.state = "open"
        /\ handle' = [handle EXCEPT ![h].content = Resize(@, n),
                                    ![h].ahead = @ \/ (real /\ n # Len(x.content))]
        /\ want' = IF real THEN [want EXCEPT ![x.id] = Resize(@, n)] ELSE want
        /\ excused' = IF real /\ x.flag.append THEN excused \cup {x.id} ELSE excused
        /\ UNCHANGED <<at, stored, alive>>

\* Close: nothing is stored, a truncation of the copy is dropped.
Close(h) ==
    LET x == handle[h]
    IN  /\ x.state = "open"
        /\ handle' = [handle EXCEPT ![h].state = "closed", ![h].ahead = FALSE,
                                    ![h].content = <<>>, ![h].pos = 0]
        /\ excused' = IF x.ahead THEN excused \cup {x.id} ELSE excused
        /\ UNCHANGED <<at, stored, alive, want>>

\* Remove
Remove(p) ==
    /\ at[p] # NoRow
    /\ at' = [at EXCEPT ![p] = NoRow]
    /\ UNCHANGED <<stored, handle, alive, want, excused>>

Whence == {"start", "current", "end"}

Next ==
    /\ alive
    /\ \/ \E h \in Handle :
            \/ \E p \in Path, f \in Flags : OpenExisting(h, p, f) \/ OpenNew(h, p, f)
            \/ \E n \in 1..MaxLen : Read(h, n)
            \/ \E p \in Data : Write(h, p) \/ WriteFails(h, p)
            \/ \E off \in Offsets, w \in Whence : Seek(h, off, w)
            \/ \E n \in Sizes : Truncate(h, n)
            \/ Close(h)
       \/ \E p \in Path : Remove(p)

Spec == Init /\ [][Next]_vars

-----------------------------------------------------------------------------
(* Properties *)

\* While one handle at a time is used on a file, what is stored is what an os
\* file would hold, as soon as a truncation of the handle's copy has been
\* followed by a Write; so Create, Write, Close (util.WriteFile) replaces a
\* longer content by a shorter one.  Excused are a second handle that is opened
\* on the file, a truncation that is followed by a Read or by Close instead, a
\* Write whose UPDATE failed, and an appending handle after Seek, Truncate or
\* O_TRUNC, which writes at its position and not at the end.
StoredAsWanted ==
    \A p \in Path :
        LET i == at[p]
        IN  \/ i \in {NoRow} \cup excused
            \/ stored[i] = want[i]
            \/ \E h \in Handle : handle[h].state = "open" /\ handle[h].id = i /\ handle[h].ahead

\* A handle whose file was removed never changes the file that was created
\* under the same path later: only a handle of that very row does.
OnlyOwnRow ==
    [][\A i \in Ids : stored'[i] # stored[i] =>
          \E h \in Handle : handle[h].state = "open" /\ handle[h].id = i]_vars

=============================================================================
