---------------------------- MODULE MysqlStorage ----------------------------
(***************************************************************************)
(* The file tree that mysqlfs keeps in one MySQL table (storage.go), with  *)
(* the calls of filesystem.go that change it: OpenFile with O_CREATE,      *)
(* MkdirAll, Remove and Rename.                                            *)
(*                                                                         *)
(* Every SQL statement is one step; no call but the renaming of a          *)
(* directory uses a transaction, so the statements of several clients      *)
(* interleave freely, and a client may die between any two of them.  The   *)
(* database enforces UNIQUE(path) and numbers the rows (AUTO_INCREMENT).   *)
(*                                                                         *)
(* A path is the sequence of its components, the root "/" the empty one    *)
(* (chroot.New makes every path absolute, clean canonical).  The name      *)
(* column is always the last component of path and is left out; content    *)
(* is the subject of MysqlFile.                                            *)
(***************************************************************************)
EXTENDS Naturals, Sequences

CONSTANTS Client,    \* the processes that share the table
          Workloads, \* what the clients may call, one of these in a behaviour
          MayDie     \* whether clients die in the middle of a call

Path == Seq(STRING)

Root == <<>>

\* filepath.Dir, filepath.Base and filepath.Join; the base of the root is "/",
\* and joining it changes nothing.
Dir(p) == IF p = Root THEN Root ELSE SubSeq(p, 1, Len(p) - 1)
Base(p) == IF p = Root THEN "/" ELSE p[Len(p)]
Join(p, name) == IF name = "/" THEN p ELSE Append(p, name)

\* The path and the directories above it.
Upwards(p) == {SubSeq(p, 1, n) : n \in 0 .. Len(p)}

NoParent == 0   \* SQL NULL, and the id that fileDBtoFile reports for it

(***************************************************************************)
(* A workload: the paths that each client opens with O_CREATE, passes to   *)
(* MkdirAll and removes, the pairs <<oldpath, newpath>> that it renames,   *)
(* and the bound on the number of calls of all clients together.           *)
(***************************************************************************)
ASSUME WorkloadsAssumption ==
    /\ \A w \in Workloads :
          /\ DOMAIN w = {"creates", "mkdirs", "removes", "renames", "calls"}
          /\ \A f \in {w.creates, w.mkdirs, w.removes} :
                DOMAIN f = Client /\ \A c \in Client : f[c] \subseteq Path
          /\ DOMAIN w.renames = Client
          /\ \A c \in Client : w.renames[c] \subseteq Path \X Path
          /\ w.calls \in Nat
    /\ MayDie \in BOOLEAN

VARIABLES work,     \* the workload; it never changes
          rows,     \* the table: live id -> [path, parent, dir]
          nextId,   \* the next AUTO_INCREMENT value
          cl,       \* what each client is executing
          calls,    \* the number of calls started
          orphaned  \* history variable: ids of rows whose creation was given up

vars == <<work, rows, nextId, cl, calls, orphaned>>

Row == [path : Path, parent : Nat, dir : BOOLEAN]

\* A File under construction on the Go stack: NewFile has inserted its row and
\* waits for the File of its parent.
Frame == [id : Nat, path : Path]

PC == {"idle", "open", "lookup", "insert", "relookup", "link",
       "find", "children", "delete",
       "source", "kids", "move", "newparent", "update", "dead"}

Op == {"none", "open", "mkdir", "remove", "rename"}

(***************************************************************************)
(* A client: the operation and the next statement; the path that statement *)
(* is about; the frames of NewFile below the current one; the id of the    *)
(* parent to link to, or of the row to delete and whether that was read as *)
(* a directory; and for Rename the id of the source row, the target path,  *)
(* the children read, whether an error of the last UPDATE is returned      *)
(* (loud), and whether the call returned nil (ok).                         *)
(***************************************************************************)
ClientState == [op : Op, pc : PC, path : Path, frames : Seq(Frame),
                id : Nat, isDir : BOOLEAN, src : Nat, to : Path,
                kids : SUBSET Nat, loud : BOOLEAN, ok : BOOLEAN]

Idle == [op |-> "none", pc |-> "idle", path |-> Root, frames |-> <<>>,
         id |-> NoParent, isDir |-> FALSE, src |-> NoParent, to |-> Root,
         kids |-> {}, loud |-> FALSE, ok |-> FALSE]

TypeOK ==
    /\ \E ids \in SUBSET (1..(nextId - 1)) : rows \in [ids -> Row]
    /\ nextId \in Nat \ {0}
    /\ cl \in [Client -> ClientState]
    /\ calls \in 0..work.calls
    /\ work \in Workloads
    /\ orphaned \subseteq 1..(nextId - 1)

Init ==
    /\ work \in Workloads
    /\ rows = <<>>
    /\ nextId = 1
    /\ cl = [c \in Client |-> Idle]
    /\ calls = 0
    /\ orphaned = {}

-----------------------------------------------------------------------------
(* SQL statements *)

\* SELECT id FROM t WHERE path = p, as the set of answers (UNIQUE: at most one)
At(p) == {i \in DOMAIN rows : rows[i].path = p}

\* SELECT id FROM t WHERE parentID = i
ChildrenOf(i) == {j \in DOMAIN rows : rows[j].parent = i}

\* SELECT ... WHERE path = p when there is a row, or NoParent
IdAt(p) == IF At(p) = {} THEN NoParent ELSE CHOOSE i \in At(p) : TRUE

\* Slip: the id is used without being counted.
InsertSameId(p, isDir) ==
    /\ rows' = [i \in DOMAIN rows \cup {nextId} |->
                   IF i = nextId
                   THEN [path |-> p, parent |-> NoParent, dir |-> isDir]
                   ELSE rows[i]]
    /\ UNCHANGED nextId

\* INSERT INTO t(path, mode): parentID is left NULL.
InsertRow(p, isDir) ==
    /\ rows' = [i \in DOMAIN rows \cup {nextId} |->
                   IF i = nextId
                   THEN [path |-> p, parent |-> NoParent, dir |-> isDir]
                   ELSE rows[i]]
    /\ nextId' = nextId + 1

\* UPDATE t SET parentID = p WHERE id = i
SetParent(i, p) ==
    rows' = [j \in DOMAIN rows |->
                IF j = i THEN [rows[j] EXCEPT !.parent = p] ELSE rows[j]]

\* Slips: an UPDATE that leaves out one of the two columns.
SetParentOnly(i, p, q) ==
    rows' = [j \in DOMAIN rows |->
                IF j = i THEN [rows[j] EXCEPT !.parent = q] ELSE rows[j]]

SetPathOnly(i, p, q) ==
    rows' = [j \in DOMAIN rows |->
                IF j = i THEN [rows[j] EXCEPT !.path = p] ELSE rows[j]]

\* UPDATE t SET path = p, parentID = q WHERE id = i
SetPathAndParent(i, p, q) ==
    rows' = [j \in DOMAIN rows |->
                IF j = i THEN [rows[j] EXCEPT !.path = p, !.parent = q] ELSE rows[j]]

\* DELETE FROM t WHERE id = i
DeleteRow(i) == rows' = [j \in DOMAIN rows \ {i} |-> rows[j]]

\* UPDATE ... SET path = p WHERE id = i hits UNIQUE(path).
Duplicate(i, p) == i \in DOMAIN rows /\ At(p) \ {i} # {}

-----------------------------------------------------------------------------
(* Control flow of a client; s is its state. *)

Ids(frames) == {frames[k].id : k \in 1..Len(frames)}

Pop(frames) == SubSeq(frames, 1, Len(frames) - 1)

Top(frames) == frames[Len(frames)]

\* The call returns: an error leaves the rows of its frames behind as they are.
Return(s, ok) == [Idle EXCEPT !.op = s.op, !.src = s.src, !.to = s.to, !.ok = ok]

\* A panic, or the death of the process.
Dead(s) == [Idle EXCEPT !.pc = "dead"]

Go(c, s) == cl' = [cl EXCEPT ![c] = s]

\* The call of c returns ok or fails.  On failure nobody will link its frames.
Finish(c, s) ==
    /\ Go(c, s)
    /\ orphaned' = orphaned \cup Ids(cl[c].frames)

\* createParent has the File of the parent, with the given id (NoParent: nil).
\* With a frame below, CreateParentAddToFile links its row to the parent; for
\* RenameFile, the source is moved there with the error of UPDATE shadowed.
ParentReady(s, parent) ==
    IF s.frames = <<>>
    THEN [s EXCEPT !.pc = "update", !.id = parent, !.loud = FALSE]
    ELSE [s EXCEPT !.pc = "link", !.id = parent]

\* NewFile returns the File with the given id: to OpenFile or MkdirAll, or to
\* createParent one frame down.
Created(s, id) ==
    IF s.frames = <<>> /\ s.op # "rename" THEN Return(s, TRUE) ELSE ParentReady(s, id)

\* createParent for a path: the root needs no row, otherwise NewFile(Dir(path)).
CreateParent(s, path) == [s EXCEPT !.pc = "lookup", !.path = Dir(path)]

\* RemoveFile returns: Rename ignores its result and goes on.
Removed(s, ok) ==
    IF s.op = "rename" THEN [s EXCEPT !.pc = "newparent"] ELSE Return(s, ok)

-----------------------------------------------------------------------------
(* Starting a call *)

Start(c, s) ==
    /\ cl[c].pc = "idle"
    /\ calls < work.calls
    /\ calls' = calls + 1
    /\ Go(c, s)
    /\ UNCHANGED <<rows, nextId, orphaned>>

StartOpen(c) ==
    \E p \in work.creates[c] :
        Start(c, [Idle EXCEPT !.op = "open", !.pc = "open", !.path = p])

StartMkdirAll(c) ==
    \E p \in work.mkdirs[c] :
        Start(c, [Idle EXCEPT !.op = "mkdir", !.pc = "lookup", !.path = p])

StartRemove(c) ==
    \E p \in work.removes[c] :
        Start(c, [Idle EXCEPT !.op = "remove", !.pc = "find", !.path = p])

StartRename(c) ==
    \E r \in work.renames[c] :
        Start(c, [Idle EXCEPT !.op = "rename", !.pc = "source",
                              !.path = r[1], !.to = r[2]])

-----------------------------------------------------------------------------
(* OpenFile and NewFile *)

\* OpenFile: SELECT; an existing file is opened, a directory refused, and a
\* missing file created.
Open(c) ==
    LET s == cl[c]
        i == IdAt(s.path)
    IN  /\ s.pc = "open"
        /\ Go(c, IF i = NoParent THEN [s EXCEPT !.pc = "lookup"]
                                 ELSE Return(s, ~rows[i].dir))
        /\ UNCHANGED <<rows, nextId, calls, orphaned>>

\* NewFile: SELECT.  A directory that exists already is reported as nil, nil:
\* createParent then reads it, MkdirAll succeeds, and OpenFile (which saw no
\* row) dereferences the nil.
Lookup(c) ==
    LET s == cl[c]
        i == IdAt(s.path)
    IN  /\ s.pc = "lookup"
        /\ \/ /\ i = NoParent
              /\ Go(c, [s EXCEPT !.pc = "insert"])
              /\ UNCHANGED orphaned
           \/ /\ i # NoParent
              /\ ~rows[i].dir
              /\ Finish(c, Return(s, FALSE))
           \/ /\ i # NoParent
              /\ rows[i].dir
              /\ Go(c, IF s.frames # <<>> \/ s.op = "rename"
                       THEN [s EXCEPT !.pc = "relookup"]
                       ELSE IF s.op = "mkdir" THEN Return(s, TRUE) ELSE Dead(s))
              /\ UNCHANGED orphaned
        /\ UNCHANGED <<rows, nextId, calls>>

\* NewFile: INSERT, then the parent.  Only the outermost NewFile of OpenFile
\* makes a regular file.
Insert(c) ==
    LET s == cl[c]
    IN  /\ s.pc = "insert"
        /\ \/ /\ At(s.path) # {}
              /\ Finish(c, Return(s, FALSE))
              /\ UNCHANGED <<rows, nextId>>
           \/ /\ At(s.path) = {}
              /\ InsertRow(s.path, s.op # "open" \/ s.frames # <<>>)
              /\ Go(c, IF Dir(s.path) = Root
                       THEN Created(s, nextId)
                       ELSE CreateParent(
                              [s EXCEPT !.frames = Append(@, [id |-> nextId, path |-> s.path])],
                              s.path))
              /\ UNCHANGED orphaned
        /\ UNCHANGED calls

\* createParent: NewFile said nil, so SELECT the parent.  When it is gone again
\* the File below is returned without a parent.
Relookup(c) ==
    LET s == cl[c]
        i == IdAt(s.path)
    IN  /\ s.pc = "relookup"
        /\ \/ /\ i # NoParent \/ s.frames = <<>>
              /\ Go(c, ParentReady(s, i))
              /\ UNCHANGED orphaned
           \/ /\ i = NoParent /\ s.frames # <<>>
              /\ Go(c, Created([s EXCEPT !.frames = Pop(@)], Top(s.frames).id))
              /\ orphaned' = orphaned \cup {Top(s.frames).id}
        /\ UNCHANGED <<rows, nextId, calls>>

\* CreateParentAddToFile: UPDATE the row of the frame, whose NewFile returns.
Link(c) ==
    LET s == cl[c]
    IN  /\ s.pc = "link"
        /\ SetParent(Top(s.frames).id, s.id)
        /\ Go(c, Created([s EXCEPT !.frames = Pop(@)], Top(s.frames).id))
        /\ UNCHANGED <<nextId, calls, orphaned>>

-----------------------------------------------------------------------------
(* RemoveFile *)

Find(c) ==
    LET s == cl[c]
        i == IdAt(s.path)
    IN  /\ s.pc = "find"
        /\ Go(c, IF i = NoParent THEN Removed(s, FALSE)
                                 ELSE [s EXCEPT !.pc = "children", !.id = i,
                                                !.isDir = rows[i].dir])
        /\ UNCHANGED <<rows, nextId, calls, orphaned>>

\* Slip: a directory is deleted without a look at its children.
ChildrenIgnored(c) ==
    LET s == cl[c]
    IN  /\ s.pc = "children"
        /\ Go(c, [s EXCEPT !.pc = "delete"])
        /\ UNCHANGED <<rows, nextId, calls, orphaned>>

\* SELECT the children: a directory that has some is not removed.
Children(c) ==
    LET s == cl[c]
    IN  /\ s.pc = "children"
        /\ Go(c, IF s.isDir /\ ChildrenOf(s.id) # {} THEN Removed(s, FALSE)
                 ELSE [s EXCEPT !.pc = "delete"])
        /\ UNCHANGED <<rows, nextId, calls, orphaned>>

Delete(c) ==
    LET s == cl[c]
    IN  /\ s.pc = "delete"
        /\ DeleteRow(s.id)
        /\ Go(c, Removed(s, TRUE))
        /\ UNCHANGED <<nextId, calls, orphaned>>

-----------------------------------------------------------------------------
(* RenameFile *)

\* SELECT the source: for a file RemoveFile(to) comes first, for a directory
\* its children are read.
Source(c) ==
    LET s == cl[c]
        i == IdAt(s.path)
    IN  /\ s.pc = "source"
        /\ Go(c, IF i = NoParent THEN Return(s, FALSE)
                 ELSE IF rows[i].dir THEN [s EXCEPT !.pc = "kids", !.src = i]
                 ELSE [s EXCEPT !.pc = "find", !.src = i, !.path = s.to])
        /\ UNCHANGED <<rows, nextId, calls, orphaned>>

Kids(c) ==
    LET s == cl[c]
    IN  /\ s.pc = "kids"
        /\ Go(c, [s EXCEPT !.pc = "move", !.kids = ChildrenOf(s.src)])
        /\ UNCHANGED <<rows, nextId, calls, orphaned>>

\* The transaction that renames a directory: UPDATE the path of the directory,
\* then, by id, the paths of the children read before.  The name of a child is
\* what it is at the UPDATE; the code has the name it read with the children,
\* which is another one when the child was renamed in between, and then puts the
\* child back to its old path while its column name has the new one.
NewPath(s, i) ==
    IF i = s.src THEN s.to
    ELSE IF i \in s.kids THEN Join(s.to, Base(rows[i].path)) ELSE rows[i].path

\* The rows that were moved before the UPDATE of row i is executed.
MovedBefore(s, i) == IF i = s.src THEN {} ELSE {s.src} \cup {j \in s.kids : j < i}

\* One of the UPDATEs hits UNIQUE(path).
Collides(s) ==
    \E i \in ({s.src} \cup s.kids) \cap DOMAIN rows :
        \E j \in DOMAIN rows \ {i} :
            NewPath(s, i) = IF j \in MovedBefore(s, i) THEN NewPath(s, j) ELSE rows[j].path

\* MustExec panics on an error, and the transaction is rolled back.
Move(c) ==
    LET s == cl[c]
    IN  /\ s.pc = "move"
        /\ IF Collides(s)
           THEN /\ Go(c, Dead(s))
                /\ UNCHANGED rows
           ELSE /\ rows' = [i \in DOMAIN rows |-> [rows[i] EXCEPT !.path = NewPath(s, i)]]
                /\ Go(c, Return(s, TRUE))
        /\ UNCHANGED <<nextId, calls, orphaned>>

\* GetFileID(Dir(to)), then createParent when there is no such row.
NewParent(c) ==
    LET s == cl[c]
        i == IdAt(Dir(s.to))
    IN  /\ s.pc = "newparent"
        /\ Go(c, IF i # NoParent THEN [s EXCEPT !.pc = "update", !.id = i, !.loud = TRUE]
                 ELSE IF Dir(s.to) = Root THEN ParentReady(s, NoParent)
                 ELSE CreateParent(s, s.to))
        /\ UNCHANGED <<rows, nextId, calls, orphaned>>

\* UPDATE name, path and parentID of the source.  The error of a duplicate path
\* is returned (loud), or assigned to a shadowed err and lost.
Update(c) ==
    LET s == cl[c]
        dup == Duplicate(s.src, s.to)
    IN  /\ s.pc = "update"
        /\ IF dup THEN UNCHANGED rows ELSE SetPathAndParent(s.src, s.to, s.id)
        /\ Go(c, Return(s, ~dup \/ ~s.loud))
        /\ UNCHANGED <<nextId, calls, orphaned>>

-----------------------------------------------------------------------------
\* The process of c dies between two statements.
Die(c) ==
    /\ MayDie
    /\ cl[c].pc \notin {"idle", "dead"}
    /\ Finish(c, Dead(cl[c]))
    /\ UNCHANGED <<rows, nextId, calls>>

Step(c) ==
    \/ StartOpen(c) \/ StartMkdirAll(c) \/ StartRemove(c) \/ StartRename(c)
    \/ Open(c) \/ Lookup(c) \/ Insert(c) \/ Relookup(c) \/ Link(c)
    \/ Find(c) \/ Children(c) \/ Delete(c)
    \/ Source(c) \/ Kids(c) \/ Move(c) \/ NewParent(c) \/ Update(c)
    \/ Die(c)

Next == (\E c \in Client : Step(c)) /\ UNCHANGED work

Spec == Init /\ [][Next]_vars

-----------------------------------------------------------------------------
(* Properties *)

\* The paths that are used as files, and those that are used as directories:
\* MkdirAll makes its argument and, as a missing parent, everything above it.
Files == UNION {work.creates[c] \cup work.removes[c]
                  \cup {r[1] : r \in work.renames[c]}
                  \cup {r[2] : r \in work.renames[c]} : c \in Client}

Dirs == UNION ({Upwards(p) : p \in UNION {work.mkdirs[c] : c \in Client}}
                \cup {Upwards(Dir(p)) : p \in Files \ {Root}})

\* Client c may leave a regular file at p: it creates one there, renames one to
\* there, or renames the directory above.
FilePlace(c, p) ==
    LET targets == {r[2] : r \in work.renames[c]}
    IN  p \in work.creates[c] \cup targets \/ (p # Root /\ Dir(p) \in targets)

\* What go-git's storage does: a path is used as a file or as a directory, never
\* as both; directories are neither renamed nor removed; and only the client
\* that creates a file renames it (a temporary file moved to its final place).
Disciplined ==
    /\ Files \cap Dirs = {}
    /\ \A c \in Client : \A r \in work.renames[c] :
          /\ r[1] # r[2]
          /\ \A d \in Client \ {c} : r[1] \notin work.creates[d]

\* Only client c calls anything, and it never renames to below a path where
\* there may be a file: Rename links to the row at the Dir of the target without
\* a look at its mode, and RemoveFile deletes a file without a look at its
\* children.
Lone(c) ==
    /\ \A d \in Client \ {c} :
          work.creates[d] = {} /\ work.mkdirs[d] = {} /\ work.removes[d] = {}
            /\ work.renames[d] = {}
    /\ \A r \in work.renames[c] : ~FilePlace(c, Dir(r[2]))

Alone == \E c \in Client : Lone(c)

\* With that discipline parentID and path agree: a row that has a parent is
\* linked to the live directory whose path is the Dir of its own.  ReadDir
\* follows parentID and OpenFile follows path, so this is what makes them show
\* one tree.
LinkedToDir ==
    Disciplined => \A i \in DOMAIN rows :
        rows[i].parent # NoParent =>
            /\ rows[i].parent \in DOMAIN rows
            /\ rows[rows[i].parent].dir
            /\ rows[rows[i].parent].path = Dir(rows[i].path)

\* A row below the root that has no parent, and so shows up in the listing of
\* the root, belongs to a call in progress or to one that failed.
UnlinkedIsInProgress ==
    Disciplined => \A i \in DOMAIN rows :
        rows[i].parent = NoParent /\ Dir(rows[i].path) # Root =>
            i \in orphaned \cup UNION {Ids(cl[c].frames) : c \in Client}

\* RemoveFile refuses "dir: ... contains files": no row is left with a parentID
\* that names no row, also when one client alone removes and renames directories.
NothingDangles ==
    Disciplined \/ Alone => \A i \in DOMAIN rows :
        rows[i].parent # NoParent => rows[i].parent \in DOMAIN rows

=============================================================================
