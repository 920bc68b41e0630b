-------------------------------- MODULE Myers --------------------------------
(***************************************************************************)
(* The line diff of myers_differer.go: the greedy search for a shortest    *)
(* edit script, and the walk back along the recorded rounds.  Lines are    *)
(* numbered from 0, as in the code; line i of a is a[i + 1].               *)
(***************************************************************************)
EXTENDS Integers, Sequences, FiniteSets, SequencesExt

\* GetShortestPath writes v[1] in its first round, which two empty files do
\* not have: the process panics with an index out of range.
DiffPanics(a, b) == a = <<>> /\ b = <<>>

Start(a, b) == [k \in -(Len(a) + Len(b))..(Len(a) + Len(b)) |-> 0]

\* Slip: equal lines are not followed.
NoSnake(a, b, x, y) == 0

\* The number of equal lines from line x of a and line y of b on.
Snake(a, b, x, y) ==
    LET room == {0, Len(a) - x, Len(b) - y}
        most == IF x < Len(a) /\ y < Len(b)
                THEN CHOOSE r \in room \ {0} : \A q \in room \ {0} : r <= q ELSE 0
    IN  CHOOSE s \in 0..most :
          /\ \A i \in 1..s : a[x + i] = b[y + i]
          /\ s < most => a[x + s + 1] # b[y + s + 1]

\* Diagonal k is reached from diagonal k + 1 by an insertion, not from k - 1 by
\* a deletion.
Down(v, d, k) == k = -d \/ (k # d /\ v[k - 1] < v[k + 1])

\* Round d of the search.  It reads the diagonals of the other parity only.
Round(a, b, v, d) ==
    [k \in DOMAIN v |->
        IF k \in -d..d /\ (k + d) % 2 = 0
        THEN LET x == IF Down(v, d, k) THEN v[k + 1] ELSE v[k - 1] + 1
             IN  x + Snake(a, b, x, x - k)
        ELSE v[k]]

\* Some diagonal has come to the end of both files.
AtEnd(a, b, v, d) ==
    \E k \in {k \in -d..d : (k + d) % 2 = 0} : v[k] >= Len(a) /\ v[k] - k >= Len(b)

\* All rounds there can be; each goes on from the one before it.
Rounds(a, b) ==
    LET rounds[d \in 0..(Len(a) + Len(b))] ==
            Round(a, b, IF d = 0 THEN Start(a, b) ELSE rounds[d - 1], d)
    IN  rounds

\* The rounds up to the first that ends: round d is element d + 1.
GetShortestPath(a, b) ==
    LET rounds == Rounds(a, b)
        last == CHOOSE d \in DOMAIN rounds :
                    /\ AtEnd(a, b, rounds[d], d)
                    /\ \A c \in 0..(d - 1) : ~AtEnd(a, b, rounds[c], c)
    IN  [n \in 1..(last + 1) |-> rounds[n - 1]]

\* One entry of the script: an equal pair of lines, an insertion of line j of
\* b, or a deletion of line i of a.
Edit(x, y, prevX, prevY) ==
    [type |-> IF x = prevX THEN "ins" ELSE IF y = prevY THEN "del" ELSE "eql",
     i |-> prevX, j |-> prevY]

\* One round of Backtrack from the point p.x, p.y: back along the equal lines,
\* then the edit that led there (the first round has none).
StepBack(p, v, d) ==
    LET k == p.x - p.y
        prevK == IF Down(v, d, k) THEN k + 1 ELSE k - 1
        prevX == v[prevK]
        prevY == prevX - prevK
        eqls == IF p.x - prevX < p.y - prevY THEN p.x - prevX ELSE p.y - prevY
        diag == IF eqls > 0 THEN eqls ELSE 0
        back == [i \in 1..diag |-> Edit(p.x - i + 1, p.y - i + 1, p.x - i, p.y - i)]
        edit == IF d > 0 THEN <<Edit(p.x - diag, p.y - diag, prevX, prevY)>> ELSE <<>>
    IN  [x |-> prevX, y |-> prevY, script |-> p.script \o back \o edit]

\* From the ends of both files back through the rounds, the last one first.
Backtrack(a, b, trace) ==
    LET back[n \in 0..Len(trace)] ==
            IF n = 0 THEN [x |-> Len(a), y |-> Len(b), script |-> <<>>]
            ELSE StepBack(back[n - 1], trace[Len(trace) + 1 - n], Len(trace) - n)
    IN  back[Len(trace)]

\* Diff: the script, last edit first.
Diff(a, b) == Backtrack(a, b, GetShortestPath(a, b)).script

-----------------------------------------------------------------------------
(* Reference definitions *)

\* The position behind an edit, in both files.
Behind(e) ==
    <<IF e.type = "ins" THEN e.i ELSE e.i + 1, IF e.type = "del" THEN e.j ELSE e.j + 1>>

\* The script leads from the start of both files to their ends, and what it
\* takes for equal is equal.
Transforms(script, a, b) ==
    LET n == Len(script)
    IN  /\ n > 0
        /\ Behind(script[1]) = <<Len(a), Len(b)>>
        /\ \A m \in 1..(n - 1) : Behind(script[m + 1]) = <<script[m].i, script[m].j>>
        /\ script[n].i = 0 /\ script[n].j = 0
        /\ \A e \in ToSet(script) : e.type = "eql" => a[e.i + 1] = b[e.j + 1]

\* The ways to pair equal lines of both files without crossing pairs.
Matchings(a, b) ==
    {M \in SUBSET ((0..(Len(a) - 1)) \X (0..(Len(b) - 1))) :
        /\ \A m \in M : a[m[1] + 1] = b[m[2] + 1]
        /\ \A l, m \in M : l[1] < m[1] <=> l[2] < m[2]}

\* A longest common subsequence is what the script keeps.
Shortest(script, a, b) ==
    \A M \in Matchings(a, b) :
        Cardinality(M) <= Cardinality({n \in DOMAIN script : script[n].type = "eql"})

=============================================================================
