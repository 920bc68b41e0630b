----------------------------- MODULE MCMysqlFile -----------------------------
(***************************************************************************)
(* MysqlFile for TLC: the flags that callers combine, short contents.      *)
(***************************************************************************)
EXTENDS MysqlFile, TLC

CONSTANTS h1, h2

F(acc, create, append, trunc) ==
    [acc |-> acc, create |-> create, append |-> append, trunc |-> trunc]

MCFlags == {F("r", FALSE, FALSE, FALSE),    \* Open
            F("rw", TRUE, FALSE, TRUE),     \* Create
            F("w", TRUE, TRUE, FALSE),      \* append to a log
            F("w", TRUE, TRUE, TRUE),       \* start a log again
            F("rw", FALSE, FALSE, FALSE)}   \* update in place

MCOffsets == {-1, 1}

HandleSymmetry == Permutations(Handle)

\* Once a row is excused StoredAsWanted holds of it for good: such states are
\* checked and not explored further.  When there are two rows, short contents
\* tell them apart.
Thin(x) == Len(x.content) <= 1 /\ x.pos \in -1..1

Explored ==
    /\ excused = {}
    /\ Len(stored) > 1 => /\ \A i \in Ids : Len(stored[i]) <= 1
                          /\ \A h \in Handle : handle[h].state = "open" => Thin(handle[h])

MCData == {<<7>>, <<8, 9>>}

=============================================================================
