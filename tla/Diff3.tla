-------------------------------- MODULE Diff3 --------------------------------
(***************************************************************************)
(* The three-way merge of one file, diff3.go: writeChunks cuts base, ours  *)
(* (a) and theirs (b) at the lines that both diffs leave alone, and        *)
(* writeChunk decides each chunk.  A step is one turn of the loop.         *)
(*                                                                         *)
(* A file is the sequence of lines that bufio.Scanner reads; the output is *)
(* the sequence of blocks written, which have the same lines for ours and  *)
(* theirs unless they are a conflict.                                      *)
(***************************************************************************)
EXTENDS Myers

CONSTANTS Line,     \* the lines
          MaxLines  \* bound: the number of lines of a file

ASSUME MaxLinesAssumption == MaxLines \in Nat

VARIABLES base, a, b,       \* the three files
          matchesA,         \* getMatches(diffA): pairs of line numbers
          matchesB,
          pos,              \* lineBase, lineA, lineB
          out,              \* what was written
          conflicts,
          phase,            \* "chunks", "done" or "panic"
          agreed            \* history variable: net lines of chunks that both
                            \* sides changed in the same way

vars == <<base, a, b, matchesA, matchesB, pos, out, conflicts, phase, agreed>>

Files == UNION {[1..n -> Line] : n \in 0..MaxLines}

Written == [ours : Files, theirs : Files]

Plain(lines) == [ours |-> lines, theirs |-> lines]

TypeOK ==
    /\ base \in Files /\ a \in Files /\ b \in Files
    /\ matchesA \subseteq (0..MaxLines) \X (0..MaxLines)
    /\ matchesB \subseteq (0..MaxLines) \X (0..MaxLines)
    /\ pos \in [base : 0..Len(base), a : 0..Len(a), b : 0..Len(b)]
    /\ out \in Seq(Written)
    /\ conflicts \in Nat
    /\ phase \in {"chunks", "done", "panic"}
    /\ agreed \in Int

\* Slip: the line numbers of the diff are taken for numbers counted from 1.
getMatchesFromOne(diff) ==
    {<<e.i - 1, e.j - 1>> : e \in {f \in ToSet(diff) : f.type = "eql"}}

getMatches(diff) == {<<e.i, e.j>> : e \in {f \in ToSet(diff) : f.type = "eql"}}

DiffLines(one, two) == IF DiffPanics(one, two) THEN {} ELSE getMatches(Diff(one, two))

\* setup has read the files and taken the diff of base with both sides.
Init ==
    /\ base \in Files /\ a \in Files /\ b \in Files
    /\ matchesA = DiffLines(base, a)
    /\ matchesB = DiffLines(base, b)
    /\ pos = [base |-> 0, a |-> 0, b |-> 0]
    /\ out = <<>>
    /\ conflicts = 0
    /\ phase = IF DiffPanics(base, a) \/ DiffPanics(base, b) THEN "panic" ELSE "chunks"
    /\ agreed = 0

-----------------------------------------------------------------------------
\* isMatch, i lines after the current position
Stable(i) ==
    /\ <<pos.base + i, pos.a + i>> \in matchesA
    /\ <<pos.base + i, pos.b + i>> \in matchesB

\* getNextMismatch: how many lines from here on are the same in all three.  The
\* bounds it tests besides always hold when the matches run out.
getNextMismatch ==
    CHOOSE i \in 0..MaxLines : ~Stable(i) /\ \A j \in 0..(i - 1) : Stable(j)

\* The line numbers of base that both sides match, from here on.
MatchedByBoth ==
    {n \in pos.base..(Len(base) - 1) :
        (\E m \in matchesA : m[1] = n) /\ (\E m \in matchesB : m[1] = n)}

Partner(matches, n) == (CHOOSE m \in matches : m[1] = n)[2]

\* getNextMatch
getNextMatch ==
    LET n == CHOOSE n \in MatchedByBoth : \A k \in MatchedByBoth : n <= k
    IN  [base |-> n, a |-> Partner(matchesA, n), b |-> Partner(matchesB, n)]

Block(file, from, to) == SubSeq(file, from + 1, to)

\* Slips: ours wins when it is the side that did not change; a conflict keeps
\* only ours; a change both sides made is written once for each.
writeChunkOurs(to) ==
    LET o == Block(base, pos.base, to.base)
        x == Block(a, pos.a, to.a)
        y == Block(b, pos.b, to.b)
        clash == x # o /\ y # o /\ x # y
    IN  /\ out' = Append(out, IF clash THEN [ours |-> x, theirs |-> y] ELSE Plain(x))
        /\ conflicts' = IF clash THEN conflicts + 1 ELSE conflicts
        /\ UNCHANGED agreed

writeChunkOneSided(to) ==
    LET o == Block(base, pos.base, to.base)
        x == Block(a, pos.a, to.a)
        y == Block(b, pos.b, to.b)
    IN  /\ out' = Append(out, Plain(IF x = o THEN y ELSE x))
        /\ conflicts' = IF x # o /\ y # o /\ x # y THEN conflicts + 1 ELSE conflicts
        /\ UNCHANGED agreed

\* writeChunk: a side that left the block alone gives way to the other; equal
\* changes are taken once; anything else is a conflict.
writeChunk(to) ==
    LET o == Block(base, pos.base, to.base)
        x == Block(a, pos.a, to.a)
        y == Block(b, pos.b, to.b)
    IN  \/ /\ x = o
           /\ out' = Append(out, Plain(y))
           /\ UNCHANGED <<conflicts, agreed>>
        \/ /\ x # o /\ y = o
           /\ out' = Append(out, Plain(x))
           /\ UNCHANGED <<conflicts, agreed>>
        \/ /\ x # o /\ y # o /\ x = y
           /\ out' = Append(out, Plain(x))
           /\ agreed' = agreed + Len(x) - Len(o)
           /\ UNCHANGED conflicts
        \/ /\ x # o /\ y # o /\ x # y
           /\ out' = Append(out, [ours |-> x, theirs |-> y])
           /\ conflicts' = conflicts + 1
           /\ UNCHANGED agreed

\* The end of the chunk: behind the lines that are the same in all three, or
\* before the next line that both sides match, or the end of the files.
AfterStable == [f \in {"base", "a", "b"} |-> pos[f] + getNextMismatch]

AtTheEnd == [base |-> Len(base), a |-> Len(a), b |-> Len(b)]

emitChunk(to) ==
    /\ writeChunk(to)
    /\ pos' = to
    /\ UNCHANGED <<base, a, b, matchesA, matchesB>>

\* The three bodies of the loop of writeChunks.
StableChunk ==
    /\ phase = "chunks"
    /\ getNextMismatch > 0
    /\ emitChunk(AfterStable)
    /\ UNCHANGED phase

ChangedChunk ==
    /\ phase = "chunks"
    /\ getNextMismatch = 0
    /\ MatchedByBoth # {}
    /\ emitChunk(getNextMatch)
    /\ UNCHANGED phase

\* Slip: the loop is left only when lines of base remain.
FinalChunkOfBase ==
    /\ phase = "chunks"
    /\ getNextMismatch = 0
    /\ MatchedByBoth = {}
    /\ pos.base < Len(base)
    /\ emitChunk(AtTheEnd)
    /\ phase' = "done"

FinalChunk ==
    /\ phase = "chunks"
    /\ getNextMismatch = 0
    /\ MatchedByBoth = {}
    /\ emitChunk(AtTheEnd)
    /\ phase' = "done"

Next == StableChunk \/ ChangedChunk \/ FinalChunk

Spec == Init /\ [][Next]_vars /\ WF_vars(Next)

-----------------------------------------------------------------------------
(* Properties *)

\* Diff of base with either side is an edit script that turns the one into the
\* other, and no shorter one exists (b is irrelevant, so one b is enough).
DiffsAreShortest ==
    out = <<>> /\ b = <<>> /\ ~DiffPanics(base, a) =>
        LET script == Diff(base, a)
        IN  Transforms(script, base, a) /\ Shortest(script, base, a)

\* The lines of the output, with every conflict resolved for one side.
Side(s) ==
    FlattenSeq([i \in 1..Len(out) |-> out[i][s]])

\* A side that changed nothing never causes a conflict and never masks the
\* other; two sides that made the same change agree.
CleanMerges ==
    phase = "done" =>
        /\ a = base => conflicts = 0 /\ Side("ours") = b
        /\ b = base => conflicts = 0 /\ Side("ours") = a
        /\ a = b => conflicts = 0 /\ Side("ours") = a

\* The lines of a file that its diff with base inserts.
Inserted(file, matches) == {j \in 1..Len(file) : \A m \in matches : m[2] # j - 1}

\* Lines of a file are in t, in their order.
KeptIn(t, file, lines) ==
    \E at \in [lines -> DOMAIN t] :
        /\ \A j \in lines : t[at[j]] = file[j]
        /\ \A j, k \in lines : j < k => at[j] < at[k]

\* No change is lost: the output, with every conflict resolved for one side,
\* contains the lines that side inserted, in their order; and no line is
\* duplicated or dropped by a merge without conflicts: what both sides added and
\* removed adds up.
EditsAreKept ==
    phase = "done" =>
        /\ KeptIn(Side("ours"), a, Inserted(a, matchesA))
        /\ KeptIn(Side("theirs"), b, Inserted(b, matchesB))
        /\ conflicts = 0 =>
            Len(Side("ours")) = Len(a) + Len(b) - Len(base) - agreed

\* writeChunks ends: every turn of its loop moves forward in some file.
Terminates == <>(phase \in {"done", "panic"})

=============================================================================
