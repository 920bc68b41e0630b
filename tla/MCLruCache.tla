----------------------------- MODULE MCLruCache -----------------------------
(***************************************************************************)
(* LruCache with three objects: a is of a fixed size, m and n are          *)
(* MemoryObjects that start empty.  Filled to length 1, n is the object    *)
(* that a is; m and n have the same hash while they are empty.             *)
(***************************************************************************)
EXTENDS LruCache

MCItem == {"a", "m", "n"}

MCKey == {"none", "empty", "A", "M"}

MCHashOf(x, n) ==
    CASE n = 0 -> "empty"
      [] x = "a" \/ (x = "n" /\ n = 1) -> "A"
      [] OTHER -> "M"

MCSizeOf == [x \in MCItem |-> IF x = "a" THEN 1 ELSE 0]

\* The elements of a list differ in nothing but their places.
MCSymmetry == Permutations(Elem)

=============================================================================
