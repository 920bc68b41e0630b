---------------------------- MODULE Diff3Proofs ----------------------------
(***************************************************************************)
(* Proofs about the differ and the merge of three texts, for every set of  *)
(* lines and texts of any length.                                          *)
(***************************************************************************)
EXTENDS Diff3, TLAPS, FiniteSetTheorems, SequenceTheorems, WellFoundedInduction

-----------------------------------------------------------------------------
(* Smallest numbers *)

\* A set of numbers that is not empty has a smallest one.
LEMMA SmallestIn ==
    ASSUME NEW S, S \subseteq Nat, S # {}
    PROVE  \E n \in S : \A m \in S : n <= m
<1>1. PICK n \in S : \A m \in S : <<m, n>> \notin OpToRel(<, Nat)
  BY NatLessThanWellFounded, WFMin
<1>2. ASSUME NEW m \in S PROVE n <= m
  <2>1. <<m, n>> \in Nat \X Nat /\ <<m, n>>[1] = m /\ <<m, n>>[2] = n
    OBVIOUS
  <2>2. <<m, n>> \notin {p \in Nat \X Nat : p[1] < p[2]}
    BY <1>1, Zenon DEF OpToRel
  <2>3. ~(m < n)
    BY <2>1, <2>2
  <2> QED BY <2>3
<1> QED BY <1>2

-----------------------------------------------------------------------------
(* The rounds of the search *)

AreRounds(f, s, t, n) ==
    f = [d \in 0..n |-> Round(s, t, IF d = 0 THEN Start(s, t) ELSE f[d - 1], d)]

\* The rounds can be computed one after the other.
LEMMA RoundsExist ==
    ASSUME NEW s, NEW t, NEW k \in Nat
    PROVE  \E f : AreRounds(f, s, t, k)
<1> DEFINE Bad == {n \in Nat : ~\E f : AreRounds(f, s, t, n)}
<1>1. SUFFICES ASSUME Bad # {} PROVE FALSE
  OBVIOUS
<1>2. PICK n \in Bad : \A m \in Bad : n <= m
  BY <1>1, SmallestIn
<1>3. CASE n = 0
  <2> DEFINE f == [d \in 0..0 |-> Round(s, t, Start(s, t), 0)]
  <2>1. AreRounds(f, s, t, 0)
    BY DEF AreRounds
  <2> QED BY <2>1, <1>2, <1>3
<1>4. CASE n # 0
  <2>1. n - 1 \in Nat /\ n - 1 \notin Bad
    BY <1>2, <1>4
  <2>2. PICK f : AreRounds(f, s, t, n - 1)
    BY <2>1
  <2> DEFINE g == [d \in 0..n |-> IF d < n THEN f[d] ELSE Round(s, t, f[n - 1], n)]
  <2>3. ASSUME NEW d \in 0..n
        PROVE  g[d] = Round(s, t, IF d = 0 THEN Start(s, t) ELSE g[d - 1], d)
    <3>1. CASE d = n
      BY <3>1, <2>1, <1>4
    <3>2. CASE d # n
      BY <3>2, <2>2, <2>1 DEF AreRounds
    <3> QED BY <3>1, <3>2
  <2>4. AreRounds(g, s, t, n)
    BY <2>3 DEF AreRounds
  <2> QED BY <2>4, <1>2
<1> QED BY <1>3, <1>4

LEMMA RoundsUnfold ==
    ASSUME NEW L, NEW s \in Seq(L), NEW t \in Seq(L)
    PROVE  AreRounds(Rounds(s, t), s, t, Len(s) + Len(t))
<1>0. Len(s) + Len(t) \in Nat
  BY LenProperties
<1>1. PICK f : AreRounds(f, s, t, Len(s) + Len(t))
  BY <1>0, RoundsExist
<1>2. f = [d \in 0..(Len(s) + Len(t)) |->
                Round(s, t, IF d = 0 THEN Start(s, t) ELSE f[d - 1], d)]
  BY <1>1 DEF AreRounds
<1>3. \E g : g = [d \in 0..(Len(s) + Len(t)) |->
                Round(s, t, IF d = 0 THEN Start(s, t) ELSE g[d - 1], d)]
  BY <1>2, Zenon
<1> QED BY <1>3, Zenon DEF Rounds, AreRounds

-----------------------------------------------------------------------------
(* Equal lines *)

\* Where n equal lines after x and y end inside both files, the next two differ.
EndsAt(s, t, x, y, n) == x + n < Len(s) /\ y + n < Len(t) => s[x + n + 1] # t[y + n + 1]

\* Snake goes on as far as the lines are equal, and within both files.
LEMMA SnakeFacts ==
    ASSUME NEW L, NEW s \in Seq(L), NEW t \in Seq(L), NEW x \in Nat, NEW y \in Nat
    PROVE  LET n == Snake(s, t, x, y)
           IN  /\ n \in Nat
               /\ n = 0 \/ (x + n <= Len(s) /\ y + n <= Len(t))
               /\ \A i \in 1..n : s[x + i] = t[y + i]
               /\ EndsAt(s, t, x, y, n)
<1> DEFINE room == {0, Len(s) - x, Len(t) - y}
           most == IF x < Len(s) /\ y < Len(t)
                   THEN CHOOSE r \in room \ {0} : \A q \in room \ {0} : r <= q ELSE 0
           Long(r) == /\ \A i \in 1..r : s[x + i] = t[y + i]
                      /\ r < most => s[x + r + 1] # t[y + r + 1]
           n == Snake(s, t, x, y)
<1>0. Len(s) \in Nat /\ Len(t) \in Nat
  BY LenProperties
<1>1. /\ most \in Nat
      /\ most = 0 \/ (x + most <= Len(s) /\ y + most <= Len(t))
      /\ ~(x + most < Len(s) /\ y + most < Len(t))
  <2>1. CASE x < Len(s) /\ y < Len(t)
    <3> DEFINE Least(r) == \A q \in room \ {0} : r <= q
    <3>1. \E r \in room \ {0} : Least(r)
      <4>1. CASE Len(s) - x <= Len(t) - y
        <5>1. Len(s) - x \in room \ {0} /\ Least(Len(s) - x)
          BY <4>1, <2>1, <1>0
        <5> QED BY <5>1
      <4>2. CASE Len(t) - y <= Len(s) - x
        <5>1. Len(t) - y \in room \ {0} /\ Least(Len(t) - y)
          BY <4>2, <2>1, <1>0
        <5> QED BY <5>1
      <4> QED BY <4>1, <4>2, <1>0
    <3>2. most = CHOOSE r \in room \ {0} : Least(r)
      BY <2>1
    <3>3. most \in room \ {0} /\ Least(most)
      <4> HIDE DEF room, Least, most
      <4> QED BY <3>1, <3>2
    <3>4. (most = Len(s) - x \/ most = Len(t) - y) /\ most <= Len(s) - x /\ most <= Len(t) - y
      <4>1. Len(s) - x \in room \ {0} /\ Len(t) - y \in room \ {0}
        BY <2>1, <1>0
      <4>2. most <= Len(s) - x /\ most <= Len(t) - y
        <5> HIDE DEF room, most
        <5> QED BY <3>3, <4>1
      <4> HIDE DEF most
      <4> QED BY <3>3, <4>2
    <3> HIDE DEF most
    <3> QED BY <3>4, <2>1, <1>0
  <2>2. CASE ~(x < Len(s) /\ y < Len(t))
    <3>1. most = 0
      BY <2>2
    <3> QED BY <3>1, <2>2, <1>0
  <2> QED BY <2>1, <2>2
<1>2. n = CHOOSE r \in 0..most : Long(r)
  BY DEF Snake
<1>5. Snake(s, t, x, y) = n
  OBVIOUS
<1> HIDE DEF most, n
<1>3. \E r \in 0..most : Long(r)
  <2> DEFINE Stops == {r \in 0..most : r = most \/ s[x + r + 1] # t[y + r + 1]}
  <2>1. most \in Stops /\ Stops \subseteq Nat
    BY <1>1
  <2>2. PICK r \in Stops : \A q \in Stops : r <= q
    <3> HIDE DEF Stops
    <3> QED BY <2>1, SmallestIn
  <2>3. ASSUME NEW i \in 1..r PROVE s[x + i] = t[y + i]
    <3>1. i - 1 \in 0..most /\ i - 1 < r /\ i - 1 # most
      BY <2>2, <2>1, <1>1
    <3>2. i - 1 \notin Stops
      BY <3>1, <2>2, <2>1
    <3>3. s[x + (i - 1) + 1] = t[y + (i - 1) + 1]
      BY <3>1, <3>2
    <3>4. x + (i - 1) + 1 = x + i /\ y + (i - 1) + 1 = y + i
      OBVIOUS
    <3> QED BY <3>3, <3>4
  <2>4. r \in 0..most /\ Long(r)
    BY <2>2, <2>3, <1>1, SMTT(30)
  <2> HIDE DEF Long
  <2> QED BY <2>4
<1>4. n \in 0..most /\ Long(n)
  <2> HIDE DEF Long
  <2> QED BY <1>2, <1>3
<1>6. n \in Nat /\ n <= most
  BY <1>4, <1>1
<1>7. n = 0 \/ (x + n <= Len(s) /\ y + n <= Len(t))
  <2> HIDE DEF Long
  <2> QED BY <1>6, <1>1, <1>0
<1>8. x + n < Len(s) /\ y + n < Len(t) => n < most
  <2> HIDE DEF Long
  <2> QED BY <1>6, <1>1, <1>0
<1>9. (\A i \in 1..n : s[x + i] = t[y + i]) /\ (n < most => s[x + n + 1] # t[y + n + 1])
  BY <1>4
<1>10. EndsAt(s, t, x, y, n)
  BY <1>8, <1>9 DEF EndsAt
<1> QED BY <1>5, <1>6, <1>7, <1>9, <1>10

-----------------------------------------------------------------------------
(* The diagonals of a round *)

Diag(d) == {k \in -d..d : (k + d) % 2 = 0}

LEMMA DiagSteps ==
    ASSUME NEW d \in Nat, NEW k \in Diag(d)
    PROVE  /\ k \in Int /\ -d <= k /\ k <= d
           /\ k + 1 \in Diag(d + 1) /\ k - 1 \in Diag(d + 1)
           /\ k # d => d - 1 \in Nat /\ k + 1 \in Diag(d - 1)
           /\ k # -d => d - 1 \in Nat /\ k - 1 \in Diag(d - 1)
           /\ k + 1 \notin Diag(d) /\ k - 1 \notin Diag(d)
<1>1. k \in Int /\ -d <= k /\ k <= d /\ (k + d) % 2 = 0
  BY DEF Diag
<1>2. /\ (k + 1 + (d + 1)) % 2 = 0 /\ (k - 1 + (d + 1)) % 2 = 0
      /\ (k + 1 + (d - 1)) % 2 = 0 /\ (k - 1 + (d - 1)) % 2 = 0
      /\ (k + 1 + d) % 2 # 0 /\ (k - 1 + d) % 2 # 0
  BY <1>1
<1>3. k # d => k + 1 <= d - 1
  <2>1. k + 1 # d
    BY <1>1, <1>2
  <2> QED BY <2>1, <1>1
<1>4. k # -d => k - 1 >= -(d - 1)
  <2>1. k - 1 # -d
    BY <1>1, <1>2
  <2> QED BY <2>1, <1>1
<1> QED BY <1>1, <1>2, <1>3, <1>4 DEF Diag

LEMMA FirstDiag == Diag(0) = {0}
  BY DEF Diag

-----------------------------------------------------------------------------
(* How far a round comes *)

\* The line of the first file that round d comes to on diagonal k.
Far(s, t, d, k) == Rounds(s, t)[d][k]

\* Where it is there before it follows equal lines.
From(s, t, d, k) ==
    IF d = 0 THEN 0
    ELSE IF Down(Rounds(s, t)[d - 1], d, k) THEN Far(s, t, d - 1, k + 1)
    ELSE Far(s, t, d - 1, k - 1) + 1

LEMMA RoundOf ==
    ASSUME NEW L, NEW s \in Seq(L), NEW t \in Seq(L), NEW d \in 0..(Len(s) + Len(t))
    PROVE  Rounds(s, t)[d] =
                Round(s, t, IF d = 0 THEN Start(s, t) ELSE Rounds(s, t)[d - 1], d)
  BY RoundsUnfold DEF AreRounds

LEMMA RoundDomain ==
    ASSUME NEW L, NEW s \in Seq(L), NEW t \in Seq(L), NEW d \in 0..(Len(s) + Len(t))
    PROVE  DOMAIN Rounds(s, t)[d] = -(Len(s) + Len(t))..(Len(s) + Len(t))
<1> DEFINE T == Len(s) + Len(t)
           Bad == {e \in 0..T : DOMAIN Rounds(s, t)[e] # -T..T}
<1>0. T \in Nat
  BY LenProperties
<1>1. SUFFICES ASSUME Bad # {} PROVE FALSE
  OBVIOUS
<1>2. PICK e \in Bad : \A c \in Bad : e <= c
  <2>1. Bad \subseteq Nat
    BY <1>0
  <2> HIDE DEF Bad
  <2> QED BY <1>1, <2>1, SmallestIn
<1>3. DOMAIN Rounds(s, t)[e] = DOMAIN (IF e = 0 THEN Start(s, t) ELSE Rounds(s, t)[e - 1])
  <2>1. Rounds(s, t)[e] = Round(s, t, IF e = 0 THEN Start(s, t) ELSE Rounds(s, t)[e - 1], e)
    BY RoundOf
  <2>2. ASSUME NEW v PROVE DOMAIN Round(s, t, v, e) = DOMAIN v
    BY DEF Round
  <2> QED BY <2>1, <2>2
<1>4. CASE e = 0
  BY <1>2, <1>3, <1>4 DEF Start
<1>5. CASE e # 0
  <2>1. e - 1 \in 0..T /\ e - 1 \notin Bad
    BY <1>0, <1>2, <1>5
  <2> QED BY <2>1, <1>2, <1>3, <1>5
<1> QED BY <1>4, <1>5

\* A round leaves the diagonals of the other parity alone.
LEMMA RoundKeeps ==
    ASSUME NEW L, NEW s \in Seq(L), NEW t \in Seq(L), NEW d \in 1..(Len(s) + Len(t)),
           NEW k \in -(Len(s) + Len(t))..(Len(s) + Len(t)), k \notin Diag(d)
    PROVE  Rounds(s, t)[d][k] = Far(s, t, d - 1, k)
<1>0. Len(s) + Len(t) \in Nat /\ d \in 0..(Len(s) + Len(t)) /\ d - 1 \in 0..(Len(s) + Len(t)) /\ d # 0
  BY LenProperties
<1>1. Rounds(s, t)[d] = Round(s, t, Rounds(s, t)[d - 1], d)
  BY <1>0, RoundOf
<1>2. k \in DOMAIN Rounds(s, t)[d - 1]
  BY <1>0, RoundDomain
<1>3. ~(k \in -d..d /\ (k + d) % 2 = 0)
  BY DEF Diag
<1> QED BY <1>1, <1>2, <1>3 DEF Round, Far

\* What Backtrack reads of a round is what the round read of the one before.
LEMMA SameDown ==
    ASSUME NEW L, NEW s \in Seq(L), NEW t \in Seq(L), NEW d \in 1..(Len(s) + Len(t)),
           NEW k \in Diag(d)
    PROVE  Down(Rounds(s, t)[d], d, k) = Down(Rounds(s, t)[d - 1], d, k)
<1>0. Len(s) + Len(t) \in Nat /\ d \in Nat
  BY LenProperties
<1>1. CASE k = -d \/ k = d
  BY <1>1, <1>0 DEF Down
<1>2. CASE k # -d /\ k # d
  <2>1. /\ k + 1 \in -(Len(s) + Len(t))..(Len(s) + Len(t)) /\ k + 1 \notin Diag(d)
        /\ k - 1 \in -(Len(s) + Len(t))..(Len(s) + Len(t)) /\ k - 1 \notin Diag(d)
    <3>1. k \in Int /\ -d <= k /\ k <= d /\ k + 1 \notin Diag(d) /\ k - 1 \notin Diag(d)
      BY <1>0, DiagSteps
    <3>2. d <= Len(s) + Len(t)
      BY <1>0
    <3> QED BY <3>1, <3>2, <1>0, <1>2
  <2>2. /\ Rounds(s, t)[d][k + 1] = Rounds(s, t)[d - 1][k + 1]
        /\ Rounds(s, t)[d][k - 1] = Rounds(s, t)[d - 1][k - 1]
    BY <2>1, RoundKeeps DEF Far
  <2> QED BY <2>2 DEF Down
<1> QED BY <1>1, <1>2

LEMMA RoundStep ==
    ASSUME NEW L, NEW s \in Seq(L), NEW t \in Seq(L), Len(s) + Len(t) > 0,
           NEW d \in 0..(Len(s) + Len(t)), NEW k \in Diag(d)
    PROVE  Far(s, t, d, k) = From(s, t, d, k) + Snake(s, t, From(s, t, d, k), From(s, t, d, k) - k)
<1> DEFINE v == IF d = 0 THEN Start(s, t) ELSE Rounds(s, t)[d - 1]
           x == IF Down(v, d, k) THEN v[k + 1] ELSE v[k - 1] + 1
<1>0. Len(s) + Len(t) \in Nat /\ d \in Nat /\ k \in Int /\ -d <= k /\ k <= d
  BY LenProperties, DiagSteps
<1>5. d = 0 => k = -d
  <2>1. -d \in Int /\ (d = 0 => -d >= 0)
    BY <1>0
  <2> QED BY <2>1, <1>0
<1>1. k \in DOMAIN v
  <2>1. k \in -(Len(s) + Len(t))..(Len(s) + Len(t))
    BY <1>0
  <2>2. d # 0 => d - 1 \in 0..(Len(s) + Len(t))
    BY <1>0
  <2> QED BY <2>1, <2>2, RoundDomain DEF Start
<1>2. k \in -d..d /\ (k + d) % 2 = 0
  BY DEF Diag
<1>3. Far(s, t, d, k) = x + Snake(s, t, x, x - k)
  <2>1. Rounds(s, t)[d] = Round(s, t, v, d)
    BY RoundOf
  <2> HIDE DEF v
  <2> QED BY <2>1, <1>1, <1>2 DEF Round, Far
<1>4. x = From(s, t, d, k)
  <2>1. CASE d = 0
    <3>1. k = 0
      BY <2>1, <1>0
    <3>2. Down(v, d, k)
      <4>1. k = -d
        BY <1>5, <2>1
      <4> QED BY <4>1, Zenon DEF Down
    <3>3. 1 \in -(Len(s) + Len(t))..(Len(s) + Len(t))
      BY <1>0
    <3>4. Start(s, t)[1] = 0
      BY <3>3 DEF Start
    <3> QED BY <3>1, <3>2, <3>4, <2>1 DEF From
  <2>2. CASE d # 0
    BY <2>2 DEF From, Far
  <2> QED BY <2>1, <2>2
<1> QED BY <1>3, <1>4

\* A round comes to a line that is there or past the last one, in both files.
LEMMA FarType ==
    ASSUME NEW L, NEW s \in Seq(L), NEW t \in Seq(L), Len(s) + Len(t) > 0,
           NEW d \in 0..(Len(s) + Len(t)), NEW k \in Diag(d)
    PROVE  /\ From(s, t, d, k) \in Nat /\ From(s, t, d, k) - k \in Nat
           /\ Far(s, t, d, k) \in Nat /\ Far(s, t, d, k) - k \in Nat
           /\ Far(s, t, d, k) >= From(s, t, d, k)
<1> DEFINE T == Len(s) + Len(t)
           Good(e, j) == From(s, t, e, j) \in Nat /\ From(s, t, e, j) - j \in Nat
           Bad == {e \in 0..T : \E j \in Diag(e) : ~Good(e, j)}
<1>0. T \in Nat /\ T > 0
  BY LenProperties
<1>1. ASSUME NEW e \in 0..T, NEW j \in Diag(e), Good(e, j)
      PROVE  /\ Far(s, t, e, j) \in Nat /\ Far(s, t, e, j) - j \in Nat
             /\ Far(s, t, e, j) >= From(s, t, e, j)
  <2> DEFINE n == Snake(s, t, From(s, t, e, j), From(s, t, e, j) - j)
  <2>1. n \in Nat
    BY <1>1, SnakeFacts
  <2>2. Far(s, t, e, j) = From(s, t, e, j) + n
    BY RoundStep
  <2>3. j \in Int
    BY DEF Diag
  <2> HIDE DEF n
  <2> QED BY <2>1, <2>2, <2>3, <1>1
<1>2. Bad = {}
  <2>1. SUFFICES ASSUME Bad # {} PROVE FALSE
    OBVIOUS
  <2>2. PICK e \in Bad : \A c \in Bad : e <= c
    <3>1. Bad \subseteq Nat
      BY <1>0
    <3> HIDE DEF Bad
    <3> QED BY <2>1, <3>1, SmallestIn
  <2>3. PICK j \in Diag(e) : ~Good(e, j)
    BY <2>2
  <2>4. e \in Nat /\ e <= T /\ j \in Int /\ -e <= j /\ j <= e
    BY <2>2, <1>0, DiagSteps
  <2>5. CASE e = 0
    BY <2>3, <2>4, <2>5 DEF From
  <2>6. CASE e # 0
    <3>1. e - 1 \in 0..T /\ e - 1 \notin Bad
      BY <2>2, <2>4, <2>6
    <3>2. ASSUME NEW i \in Diag(e - 1)
          PROVE  Far(s, t, e - 1, i) \in Nat /\ Far(s, t, e - 1, i) - i \in Nat
      <4>1. Good(e - 1, i)
        BY <3>1
      <4> QED BY <4>1, <3>1, <1>1
    <3>3. CASE Down(Rounds(s, t)[e - 1], e, j)
      <4>1. j # e
        BY <3>3, <2>4, <2>6 DEF Down
      <4>2. j + 1 \in Diag(e - 1)
        BY <4>1, <2>4, DiagSteps
      <4>3. From(s, t, e, j) = Far(s, t, e - 1, j + 1)
        BY <3>3, <2>6 DEF From
      <4>4. Far(s, t, e - 1, j + 1) \in Nat /\ Far(s, t, e - 1, j + 1) - (j + 1) \in Nat
        BY <4>2, <3>2
      <4> QED BY <4>3, <4>4, <2>3, <2>4
    <3>4. CASE ~Down(Rounds(s, t)[e - 1], e, j)
      <4>1. j # -e
        BY <3>4 DEF Down
      <4>2. j - 1 \in Diag(e - 1)
        BY <4>1, <2>4, DiagSteps
      <4>3. From(s, t, e, j) = Far(s, t, e - 1, j - 1) + 1
        BY <3>4, <2>6 DEF From
      <4>4. Far(s, t, e - 1, j - 1) \in Nat /\ Far(s, t, e - 1, j - 1) - (j - 1) \in Nat
        BY <4>2, <3>2
      <4> QED BY <4>3, <4>4, <2>3, <2>4
    <3> QED BY <3>3, <3>4
  <2> QED BY <2>5, <2>6
<1>3. Good(d, k)
  BY <1>2
<1> QED BY <1>3, <1>1

\* The last edit of a round is an insertion or a deletion.
LEMMA FromCases ==
    ASSUME NEW L, NEW s \in Seq(L), NEW t \in Seq(L), Len(s) + Len(t) > 0,
           NEW d \in 1..(Len(s) + Len(t)), NEW k \in Diag(d)
    PROVE  \/ /\ Down(Rounds(s, t)[d - 1], d, k)
              /\ k + 1 \in Diag(d - 1)
              /\ From(s, t, d, k) = Far(s, t, d - 1, k + 1)
           \/ /\ ~Down(Rounds(s, t)[d - 1], d, k)
              /\ k - 1 \in Diag(d - 1)
              /\ From(s, t, d, k) = Far(s, t, d - 1, k - 1) + 1
<1>1. d \in Nat /\ d # 0 /\ k \in Int
  BY LenProperties, DiagSteps
<1>2. CASE Down(Rounds(s, t)[d - 1], d, k)
  <2>1. k # d
    BY <1>1, <1>2, DiagSteps DEF Down
  <2> QED BY <2>1, <1>1, <1>2, DiagSteps DEF From
<1>3. CASE ~Down(Rounds(s, t)[d - 1], d, k)
  <2>1. k # -d
    BY <1>3 DEF Down
  <2> QED BY <2>1, <1>1, <1>3, DiagSteps DEF From
<1> QED BY <1>2, <1>3

\* A round comes as far as an insertion or a deletion after the round before it.
LEMMA FarGrows ==
    ASSUME NEW L, NEW s \in Seq(L), NEW t \in Seq(L),
           NEW d \in 0..(Len(s) + Len(t) - 1), NEW k \in Diag(d)
    PROVE  /\ Far(s, t, d + 1, k + 1) >= Far(s, t, d, k) + 1
           /\ Far(s, t, d + 1, k - 1) >= Far(s, t, d, k)
<1> DEFINE T == Len(s) + Len(t)
<1>0. /\ T \in Nat /\ T > 0 /\ d \in Nat /\ d \in 0..T /\ d + 1 \in 0..T /\ d + 1 \in 1..T
      /\ d + 1 - 1 = d
  BY LenProperties
<1>1. /\ k \in Int /\ -d <= k /\ k <= d
      /\ k + 1 \in Diag(d + 1) /\ k - 1 \in Diag(d + 1)
      /\ k + 1 - 1 = k /\ k - 1 + 1 = k
  BY <1>0, DiagSteps
<1>2. Far(s, t, d, k) \in Nat
  BY <1>0, FarType
<1>3. Far(s, t, d + 1, k + 1) >= Far(s, t, d, k) + 1
  <2>1. Far(s, t, d + 1, k + 1) \in Nat /\ Far(s, t, d + 1, k + 1) >= From(s, t, d + 1, k + 1)
        /\ From(s, t, d + 1, k + 1) \in Nat
    BY <1>0, <1>1, FarType
  <2>2. CASE ~Down(Rounds(s, t)[d], d + 1, k + 1)
    <3>1. From(s, t, d + 1, k + 1) = Far(s, t, d, k) + 1
      <4> DEFINE e == d + 1
                 j == k + 1
      <4>1. e \in 1..T /\ j \in Diag(e) /\ e - 1 = d /\ j - 1 = k
        BY <1>0, <1>1
      <4>2. ~Down(Rounds(s, t)[e - 1], e, j)
        BY <2>2, <4>1
      <4> HIDE DEF e, j
      <4>3. From(s, t, e, j) = Far(s, t, e - 1, j - 1) + 1
        BY <4>1, <4>2, <1>0, FromCases
      <4> QED BY <4>1, <4>3 DEF e, j
    <3> QED BY <3>1, <2>1, <1>2
  <2>3. CASE Down(Rounds(s, t)[d], d + 1, k + 1)
    <3>1. k + 1 + 1 \in Diag(d) /\ From(s, t, d + 1, k + 1) = Far(s, t, d, k + 1 + 1)
      BY <2>3, <1>0, <1>1, FromCases
    <3>2. Far(s, t, d, k) < Far(s, t, d, k + 1 + 1)
      BY <2>3, <1>0, <1>1 DEF Down, Far
    <3>3. Far(s, t, d, k + 1 + 1) \in Nat
      BY <3>1, <1>0, FarType
    <3> QED BY <3>1, <3>2, <3>3, <2>1, <1>2
  <2> QED BY <2>2, <2>3
<1>4. Far(s, t, d + 1, k - 1) >= Far(s, t, d, k)
  <2>1. Far(s, t, d + 1, k - 1) \in Nat /\ Far(s, t, d + 1, k - 1) >= From(s, t, d + 1, k - 1)
        /\ From(s, t, d + 1, k - 1) \in Nat
    BY <1>0, <1>1, FarType
  <2>2. CASE Down(Rounds(s, t)[d], d + 1, k - 1)
    <3>1. From(s, t, d + 1, k - 1) = Far(s, t, d, k)
      <4> DEFINE e == d + 1
                 j == k - 1
      <4>1. e \in 1..T /\ j \in Diag(e) /\ e - 1 = d /\ j + 1 = k
        BY <1>0, <1>1
      <4>2. Down(Rounds(s, t)[e - 1], e, j)
        BY <2>2, <4>1
      <4> HIDE DEF e, j
      <4>3. From(s, t, e, j) = Far(s, t, e - 1, j + 1)
        BY <4>1, <4>2, <1>0, FromCases
      <4> QED BY <4>1, <4>3 DEF e, j
    <3> QED BY <3>1, <2>1, <1>2
  <2>3. CASE ~Down(Rounds(s, t)[d], d + 1, k - 1)
    <3>1. k - 1 - 1 \in Diag(d) /\ From(s, t, d + 1, k - 1) = Far(s, t, d, k - 1 - 1) + 1
      BY <2>3, <1>0, <1>1, FromCases
    <3>2. ~(Far(s, t, d, k - 1 - 1) < Far(s, t, d, k))
      BY <2>3, <1>0, <1>1 DEF Down, Far
    <3>3. Far(s, t, d, k - 1 - 1) \in Nat
      BY <3>1, <1>0, FarType
    <3> QED BY <3>1, <3>2, <3>3, <2>1, <1>2
  <2> QED BY <2>2, <2>3
<1> QED BY <1>3, <1>4

-----------------------------------------------------------------------------
(* The round that ends the search *)

\* Equal lines are followed within the files only.
LEMMA FarWithin ==
    ASSUME NEW L, NEW s \in Seq(L), NEW t \in Seq(L), Len(s) + Len(t) > 0,
           NEW d \in 0..(Len(s) + Len(t)), NEW k \in Diag(d)
    PROVE  Far(s, t, d, k) > Len(s) \/ Far(s, t, d, k) - k > Len(t)
                => Far(s, t, d, k) = From(s, t, d, k)
<1> DEFINE x == From(s, t, d, k)
           n == Snake(s, t, x, x - k)
<1>1. x \in Nat /\ x - k \in Nat /\ k \in Int
  BY FarType DEF Diag
<1>2. n \in Nat /\ (n = 0 \/ (x + n <= Len(s) /\ x - k + n <= Len(t)))
  BY <1>1, SnakeFacts
<1>3. Far(s, t, d, k) = x + n
  BY RoundStep
<1>4. Len(s) \in Nat /\ Len(t) \in Nat
  BY LenProperties
<1> HIDE DEF x, n
<1>5. Far(s, t, d, k) > Len(s) \/ Far(s, t, d, k) - k > Len(t) => Far(s, t, d, k) = x
  BY <1>1, <1>2, <1>3, <1>4
<1> QED BY <1>5 DEF x

\* A round that is past the end of the first file was there the round before.
LEMMA PastFirst ==
    ASSUME NEW L, NEW s \in Seq(L), NEW t \in Seq(L), Len(s) + Len(t) > 0,
           NEW d \in 0..(Len(s) + Len(t)), NEW k \in Diag(d), Far(s, t, d, k) > Len(s)
    PROVE  d # 0 /\ k - 1 \in Diag(d - 1) /\ Far(s, t, d - 1, k - 1) >= Far(s, t, d, k) - 1
<1> DEFINE T == Len(s) + Len(t)
           Good(e, j) == /\ e # 0
                         /\ j - 1 \in Diag(e - 1)
                         /\ Far(s, t, e - 1, j - 1) >= Far(s, t, e, j) - 1
           Bad == {e \in 0..T : \E j \in Diag(e) : Far(s, t, e, j) > Len(s) /\ ~Good(e, j)}
<1>0. T \in Nat /\ T > 0 /\ Len(s) \in Nat /\ Len(t) \in Nat
  BY LenProperties
<1>1. SUFFICES Bad = {}
  BY Zenon
<1>2. SUFFICES ASSUME Bad # {} PROVE FALSE
  OBVIOUS
<1>3. PICK e \in Bad : \A c \in Bad : e <= c
  <2>1. Bad \subseteq Nat
    BY <1>0
  <2> HIDE DEF Bad
  <2> QED BY <1>2, <2>1, SmallestIn
<1>4. PICK j \in Diag(e) : Far(s, t, e, j) > Len(s) /\ ~Good(e, j)
  BY <1>3
<1>5. e \in 0..T /\ e \in Nat /\ j \in Int
  BY <1>3, <1>0, DiagSteps
<1>6. Far(s, t, e, j) = From(s, t, e, j) /\ Far(s, t, e, j) \in Nat
  BY <1>0, <1>4, <1>5, FarWithin, FarType
<1>7. e # 0
  BY <1>0, <1>4, <1>6 DEF From
<1>8. e \in 1..T /\ e - 1 \in 0..T
  BY <1>5, <1>7
<1>9. CASE Down(Rounds(s, t)[e - 1], e, j)
  <2>1. j + 1 \in Diag(e - 1) /\ Far(s, t, e, j) = Far(s, t, e - 1, j + 1)
    BY <1>0, <1>6, <1>8, <1>9, FromCases
  <2>2. Good(e - 1, j + 1)
    <3>1. e - 1 \notin Bad
      BY <1>3, <1>5, <1>8
    <3> HIDE DEF Good
    <3> QED BY <3>1, <2>1, <1>4, <1>8
  <2>3. /\ e - 1 # 0 /\ j \in Diag(e - 1 - 1) /\ (e - 1 - 1) + 1 = e - 1
        /\ Far(s, t, e - 1 - 1, j) >= Far(s, t, e - 1, j + 1) - 1
    <3>1. j + 1 - 1 = j
      BY <1>5
    <3> QED BY <2>2, <3>1, <1>5
  <2>4. e - 1 - 1 \in 0..(Len(s) + Len(t) - 1) /\ e - 1 - 1 \in 0..(Len(s) + Len(t))
    BY <2>3, <1>0, <1>5, <1>7
  <2>5. Far(s, t, (e - 1 - 1) + 1, j - 1) >= Far(s, t, e - 1 - 1, j)
    BY <2>3, <2>4, FarGrows
  <2>6. j - 1 \in Diag((e - 1 - 1) + 1)
    BY <2>3, <2>4, <1>0, DiagSteps
  <2>7. Far(s, t, e - 1, j - 1) \in Nat /\ Far(s, t, e - 1 - 1, j) \in Nat
    <3>1. j - 1 \in Diag(e - 1)
      BY <2>3, <2>6
    <3>2. Far(s, t, e - 1, j - 1) \in Nat
      BY <3>1, <1>8, <1>0, FarType
    <3>3. Far(s, t, e - 1 - 1, j) \in Nat
      BY <2>3, <2>4, <1>0, FarType
    <3> QED BY <3>2, <3>3
  <2>8. Good(e, j)
    BY <2>1, <2>3, <2>5, <2>6, <2>7, <1>6, <1>7
  <2> QED BY <2>8, <1>4
<1>10. CASE ~Down(Rounds(s, t)[e - 1], e, j)
  <2>1. j - 1 \in Diag(e - 1) /\ Far(s, t, e, j) = Far(s, t, e - 1, j - 1) + 1
    BY <1>0, <1>6, <1>8, <1>10, FromCases
  <2>2. Far(s, t, e - 1, j - 1) \in Nat
    BY <2>1, <1>0, <1>8, FarType
  <2> QED BY <2>1, <2>2, <1>4, <1>7
<1> QED BY <1>9, <1>10

\* A round that is past the end of the second file was there the round before.
LEMMA PastSecond ==
    ASSUME NEW L, NEW s \in Seq(L), NEW t \in Seq(L), Len(s) + Len(t) > 0,
           NEW d \in 0..(Len(s) + Len(t)), NEW k \in Diag(d), Far(s, t, d, k) - k > Len(t)
    PROVE  d # 0 /\ k + 1 \in Diag(d - 1) /\ Far(s, t, d - 1, k + 1) >= Far(s, t, d, k)
<1> DEFINE T == Len(s) + Len(t)
           Good(e, j) == /\ e # 0
                         /\ j + 1 \in Diag(e - 1)
                         /\ Far(s, t, e - 1, j + 1) >= Far(s, t, e, j)
           Bad == {e \in 0..T : \E j \in Diag(e) : Far(s, t, e, j) - j > Len(t) /\ ~Good(e, j)}
<1>0. T \in Nat /\ T > 0 /\ Len(s) \in Nat /\ Len(t) \in Nat
  BY LenProperties
<1>1. SUFFICES Bad = {}
  BY Zenon
<1>2. SUFFICES ASSUME Bad # {} PROVE FALSE
  OBVIOUS
<1>3. PICK e \in Bad : \A c \in Bad : e <= c
  <2>1. Bad \subseteq Nat
    BY <1>0
  <2> HIDE DEF Bad
  <2> QED BY <1>2, <2>1, SmallestIn
<1>4. PICK j \in Diag(e) : Far(s, t, e, j) - j > Len(t) /\ ~Good(e, j)
  BY <1>3
<1>5. e \in 0..T /\ e \in Nat /\ j \in Int /\ -e <= j /\ j <= e
  BY <1>3, <1>0, DiagSteps
<1>6. Far(s, t, e, j) = From(s, t, e, j) /\ Far(s, t, e, j) \in Nat
  BY <1>0, <1>4, <1>5, FarWithin, FarType
<1>7. e # 0
  BY <1>0, <1>4, <1>5, <1>6 DEF From
<1>8. e \in 1..T /\ e - 1 \in 0..T
  BY <1>5, <1>7
<1>9. CASE Down(Rounds(s, t)[e - 1], e, j)
  <2>1. j + 1 \in Diag(e - 1) /\ Far(s, t, e, j) = Far(s, t, e - 1, j + 1)
    BY <1>0, <1>6, <1>8, <1>9, FromCases
  <2> QED BY <2>1, <1>4, <1>6, <1>7
<1>10. CASE ~Down(Rounds(s, t)[e - 1], e, j)
  <2>1. j - 1 \in Diag(e - 1) /\ Far(s, t, e, j) = Far(s, t, e - 1, j - 1) + 1
    BY <1>0, <1>6, <1>8, <1>10, FromCases
  <2>0. Far(s, t, e - 1, j - 1) \in Nat
    BY <2>1, <1>0, <1>8, FarType
  <2>2. Good(e - 1, j - 1)
    <3>1. e - 1 \notin Bad
      BY <1>3, <1>5, <1>8
    <3>2. Far(s, t, e - 1, j - 1) - (j - 1) > Len(t)
      BY <2>0, <2>1, <1>0, <1>4, <1>5
    <3> HIDE DEF Good
    <3> QED BY <3>1, <3>2, <2>1, <1>8
  <2>3. /\ e - 1 # 0 /\ j \in Diag(e - 1 - 1) /\ (e - 1 - 1) + 1 = e - 1
        /\ Far(s, t, e - 1 - 1, j) >= Far(s, t, e - 1, j - 1)
    <3>1. j - 1 + 1 = j
      BY <1>5
    <3> QED BY <2>2, <3>1, <1>5
  <2>4. e - 1 - 1 \in 0..(Len(s) + Len(t) - 1) /\ e - 1 - 1 \in 0..(Len(s) + Len(t))
    BY <2>3, <1>0, <1>5, <1>7
  <2>5. Far(s, t, (e - 1 - 1) + 1, j + 1) >= Far(s, t, e - 1 - 1, j) + 1
    BY <2>3, <2>4, FarGrows
  <2>6. j + 1 \in Diag((e - 1 - 1) + 1)
    BY <2>3, <2>4, <1>0, DiagSteps
  <2>7. Far(s, t, e - 1, j + 1) \in Nat /\ Far(s, t, e - 1 - 1, j) \in Nat
    <3>1. j + 1 \in Diag(e - 1)
      BY <2>3, <2>6
    <3>2. Far(s, t, e - 1, j + 1) \in Nat
      BY <3>1, <1>8, <1>0, FarType
    <3>3. Far(s, t, e - 1 - 1, j) \in Nat
      BY <2>3, <2>4, <1>0, FarType
    <3> QED BY <3>2, <3>3
  <2>8. Good(e, j)
    BY <2>0, <2>1, <2>3, <2>5, <2>6, <2>7, <1>6, <1>7
  <2> QED BY <2>8, <1>4
<1> QED BY <1>9, <1>10

\* The first round at the end of both files is there exactly.
LEMMA FirstEnd ==
    ASSUME NEW L, NEW s \in Seq(L), NEW t \in Seq(L), Len(s) + Len(t) > 0,
           NEW d \in 0..(Len(s) + Len(t)), AtEnd(s, t, Rounds(s, t)[d], d),
           \A c \in 0..(d - 1) : ~AtEnd(s, t, Rounds(s, t)[c], c)
    PROVE  Len(s) - Len(t) \in Diag(d) /\ Far(s, t, d, Len(s) - Len(t)) = Len(s)
<1>0. Len(s) \in Nat /\ Len(t) \in Nat /\ d \in Nat
  BY LenProperties
<1>1. PICK k \in Diag(d) : Far(s, t, d, k) >= Len(s) /\ Far(s, t, d, k) - k >= Len(t)
  BY DEF AtEnd, Diag, Far
<1>2. Far(s, t, d, k) \in Nat /\ k \in Int
  BY FarType DEF Diag
<1>3. ASSUME Far(s, t, d, k) > Len(s) PROVE FALSE
  <2>1. d # 0 /\ k - 1 \in Diag(d - 1) /\ Far(s, t, d - 1, k - 1) >= Far(s, t, d, k) - 1
    BY <1>3, PastFirst
  <2>2. Far(s, t, d - 1, k - 1) \in Nat
    <3>1. d - 1 \in 0..(Len(s) + Len(t))
      BY <2>1, <1>0
    <3> QED BY <2>1, <3>1, FarType
  <2>3. Far(s, t, d - 1, k - 1) >= Len(s) /\ Far(s, t, d - 1, k - 1) - (k - 1) >= Len(t)
    BY <2>1, <2>2, <1>0, <1>1, <1>2, <1>3
  <2>4. AtEnd(s, t, Rounds(s, t)[d - 1], d - 1)
    BY <2>1, <2>3 DEF AtEnd, Diag, Far
  <2> QED BY <2>1, <2>4, <1>0
<1>4. ASSUME Far(s, t, d, k) - k > Len(t) PROVE FALSE
  <2>1. d # 0 /\ k + 1 \in Diag(d - 1) /\ Far(s, t, d - 1, k + 1) >= Far(s, t, d, k)
    BY <1>4, PastSecond
  <2>2. Far(s, t, d - 1, k + 1) \in Nat
    <3>1. d - 1 \in 0..(Len(s) + Len(t))
      BY <2>1, <1>0
    <3> QED BY <2>1, <3>1, FarType
  <2>3. Far(s, t, d - 1, k + 1) >= Len(s) /\ Far(s, t, d - 1, k + 1) - (k + 1) >= Len(t)
    BY <2>1, <2>2, <1>0, <1>1, <1>2, <1>4
  <2>4. AtEnd(s, t, Rounds(s, t)[d - 1], d - 1)
    BY <2>1, <2>3 DEF AtEnd, Diag, Far
  <2> QED BY <2>1, <2>4, <1>0
<1>5. Far(s, t, d, k) = Len(s) /\ Far(s, t, d, k) - k = Len(t)
  BY <1>0, <1>1, <1>2, <1>3, <1>4
<1>6. k = Len(s) - Len(t)
  BY <1>0, <1>2, <1>5
<1> QED BY <1>1, <1>5, <1>6

-----------------------------------------------------------------------------
(* No pairing of equal lines is larger *)

LEMMA MatchingFacts ==
    ASSUME NEW L, NEW s \in Seq(L), NEW t \in Seq(L), NEW P \in Matchings(s, t)
    PROVE  /\ P \subseteq (0..(Len(s) - 1)) \X (0..(Len(t) - 1))
           /\ IsFiniteSet(P) /\ Cardinality(P) \in Nat
           /\ \A m \in P : /\ m = <<m[1], m[2]>>
                           /\ m[1] \in Nat /\ m[1] < Len(s)
                           /\ m[2] \in Nat /\ m[2] < Len(t)
                           /\ s[m[1] + 1] = t[m[2] + 1]
           /\ \A l, m \in P : /\ l[1] < m[1] <=> l[2] < m[2]
                              /\ l[1] = m[1] <=> l[2] = m[2]
           /\ \A Q \in SUBSET P : Q \in Matchings(s, t)
<1>0. Len(s) \in Nat /\ Len(t) \in Nat
  BY LenProperties
<1>1. /\ P \subseteq (0..(Len(s) - 1)) \X (0..(Len(t) - 1))
      /\ \A m \in P : s[m[1] + 1] = t[m[2] + 1]
      /\ \A l, m \in P : l[1] < m[1] <=> l[2] < m[2]
  BY DEF Matchings
<1>2. IsFiniteSet(P) /\ Cardinality(P) \in Nat
  <2>1. IsFiniteSet(0..(Len(s) - 1)) /\ IsFiniteSet(0..(Len(t) - 1))
    <3>1. 0 \in Int /\ Len(s) - 1 \in Int /\ Len(t) - 1 \in Int
      BY <1>0
    <3> QED BY <3>1, FS_Interval
  <2>2. IsFiniteSet((0..(Len(s) - 1)) \X (0..(Len(t) - 1)))
    BY <2>1, FS_Product
  <2> QED BY <2>2, <1>1, FS_Subset, FS_CardinalityType
<1>3. \A m \in P : /\ m = <<m[1], m[2]>>
                   /\ m[1] \in Nat /\ m[1] < Len(s)
                   /\ m[2] \in Nat /\ m[2] < Len(t)
  BY <1>0, <1>1
<1>4. \A l, m \in P : l[1] = m[1] <=> l[2] = m[2]
  BY <1>1, <1>3
<1>5. ASSUME NEW Q \in SUBSET P PROVE Q \in Matchings(s, t)
  BY <1>1 DEF Matchings
<1> QED BY <1>1, <1>2, <1>3, <1>4, <1>5

\* As many edits as a pairing of the first x and y lines leaves are enough for
\* the search to come to them.
LEMMA SearchReaches ==
    ASSUME NEW L, NEW s \in Seq(L), NEW t \in Seq(L), Len(s) + Len(t) > 0,
           NEW x \in 0..Len(s), NEW y \in 0..Len(t), NEW P \in Matchings(s, t),
           \A m \in P : m[1] < x /\ m[2] < y
    PROVE  LET d == x + y - 2 * Cardinality(P)
           IN  d \in Nat /\ x - y \in Diag(d) /\ Far(s, t, d, x - y) >= x
<1> DEFINE Reached(u, v, c) == /\ u + v - 2 * c \in Nat
                               /\ u - v \in Diag(u + v - 2 * c)
                               /\ Far(s, t, u + v - 2 * c, u - v) >= u
           Inside(Q, u, v) == \A m \in Q : m[1] < u /\ m[2] < v
           Good(u, v) == \A Q \in Matchings(s, t) :
                Inside(Q, u, v) => Reached(u, v, Cardinality(Q))
           Bad == {n \in Nat : \E u \in 0..Len(s), v \in 0..Len(t) : u + v = n /\ ~Good(u, v)}
<1>0. Len(s) \in Nat /\ Len(t) \in Nat /\ Len(s) + Len(t) \in Nat
  BY LenProperties
<1>1. SUFFICES Bad = {}
  <2>1. x + y \in Nat
    BY <1>0
  <2>2. Good(x, y)
    <3> HIDE DEF Good
    <3> QED BY <2>1, <1>1
  <2>3. Reached(x, y, Cardinality(P))
    <3> HIDE DEF Reached
    <3> QED BY <2>2
  <2> QED BY <2>3
<1>2. SUFFICES ASSUME Bad # {} PROVE FALSE
  OBVIOUS
<1>3. PICK n \in Bad : \A c \in Bad : n <= c
  <2>1. Bad \subseteq Nat
    OBVIOUS
  <2> HIDE DEF Bad
  <2> QED BY <1>2, <2>1, SmallestIn
<1>4. PICK u \in 0..Len(s), v \in 0..Len(t) : u + v = n /\ ~Good(u, v)
  BY <1>3
<1>5. PICK Q \in Matchings(s, t) : Inside(Q, u, v) /\ ~Reached(u, v, Cardinality(Q))
  BY <1>4
<1> DEFINE c == Cardinality(Q)
<1>15. ~Reached(u, v, c) /\ Inside(Q, u, v) /\ u + v = n
  BY <1>4, <1>5
<1>6. ASSUME NEW w \in 0..Len(s), NEW z \in 0..Len(t), w + z < u + v,
             NEW R \in Matchings(s, t), Inside(R, w, z)
      PROVE  Reached(w, z, Cardinality(R))
  <2>1. w + z \in Nat /\ w + z \notin Bad
    <3>1. w + z \in Nat /\ u + v \in Nat /\ ~(u + v <= w + z)
      BY <1>0, <1>6
    <3> HIDE DEF Bad
    <3> QED BY <3>1, <1>3, <1>15
  <2>2. Good(w, z)
    <3> HIDE DEF Good
    <3> QED BY <2>1
  <2> HIDE DEF Reached, Inside
  <2> QED BY <2>2, <1>6
<1>7. /\ c \in Nat
      /\ \A m \in Q : m = <<m[1], m[2]>> /\ m[1] \in Nat /\ m[2] \in Nat
      /\ \A l, m \in Q : /\ l[1] < m[1] <=> l[2] < m[2]
                         /\ l[1] = m[1] <=> l[2] = m[2]
  BY MatchingFacts, SMTT(30)
<1>16. u \in Nat /\ v \in Nat /\ u <= Len(s) /\ v <= Len(t)
  BY <1>0
<1> HIDE DEF Bad, c
<1>8. CASE u = 0 /\ v = 0
  <2>1. Q = {}
    BY <1>5, <1>15, <1>7, <1>8
  <2>2. c = 0
    BY <2>1, FS_EmptySet DEF c
  <2>3. 0 \in 0..(Len(s) + Len(t)) /\ 0 \in Diag(0)
    BY <1>0, FirstDiag
  <2>4. Far(s, t, 0, 0) \in Nat
    BY <2>3, FarType
  <2>5. u + v - 2 * c = 0 /\ u - v = 0
    BY <2>2, <1>8
  <2> QED BY <1>5, <1>15, <1>8, <2>3, <2>4, <2>5
<1>9. CASE u > 0 /\ v > 0 /\ <<u - 1, v - 1>> \in Q
  <2> DEFINE R == Q \ {<<u - 1, v - 1>>}
             d == (u - 1) + (v - 1) - 2 * (c - 1)
  <2>1. R \in Matchings(s, t) /\ Cardinality(R) = c - 1
    <3>1. R \in SUBSET Q /\ IsFiniteSet(Q)
      BY MatchingFacts
    <3>2. R \in Matchings(s, t)
      BY <3>1, MatchingFacts
    <3> QED BY <3>1, <3>2, <1>9, FS_RemoveElement, ZenonT(40) DEF c
  <2>2. Inside(R, u - 1, v - 1)
    <3> SUFFICES ASSUME NEW m \in R PROVE m[1] < u - 1 /\ m[2] < v - 1
      OBVIOUS
    <3>1. m \in Q /\ m[1] < u /\ m[2] < v /\ m # <<u - 1, v - 1>>
      BY <1>5, <1>15
    <3>2. m[1] = u - 1 <=> m[2] = v - 1
      <4> DEFINE l == <<u - 1, v - 1>>
      <4>1. l \in Q /\ l[1] = u - 1 /\ l[2] = v - 1
        BY <1>9
      <4> QED BY <3>1, <4>1, <1>7
    <3>3. ~(m[1] = u - 1 /\ m[2] = v - 1)
      BY <3>1, <1>7
    <3> QED BY <3>1, <3>2, <3>3, <1>7
  <2>3. u - 1 \in 0..Len(s) /\ v - 1 \in 0..Len(t) /\ (u - 1) + (v - 1) < u + v
    BY <1>9, <1>0
  <2>4. Reached(u - 1, v - 1, c - 1)
    <3> HIDE DEF R, Inside, Reached
    <3> QED BY <2>1, <2>2, <2>3, <1>6
  <2>5. d = u + v - 2 * c /\ (u - 1) - (v - 1) = u - v
    BY <1>7, <1>16
  <2>6. d \in Nat /\ u - v \in Diag(d) /\ Far(s, t, d, u - v) >= u - 1
    BY <2>4, <2>5
  <2>7. d \in 0..(Len(s) + Len(t))
    BY <2>5, <2>6, <1>7, <1>0, SMTT(30)
  <2>8. Far(s, t, d, u - v) # u - 1
    <3> SUFFICES ASSUME Far(s, t, d, u - v) = u - 1 PROVE FALSE
      OBVIOUS
    <3> DEFINE f == From(s, t, d, u - v)
               g == f - (u - v)
               q == Snake(s, t, f, g)
    <3>1. f \in Nat /\ g \in Nat /\ u - 1 = f + q
      BY <2>6, <2>7, FarType, RoundStep
    <3> HIDE DEF f
    <3>2. g = f - (u - v)
      OBVIOUS
    <3> HIDE DEF g
    <3>3. q \in Nat /\ EndsAt(s, t, f, g, q)
      BY <3>1, SnakeFacts
    <3> HIDE DEF q
    <3>4. f + q = u - 1 /\ g + q = v - 1
      BY <3>1, <3>2, <3>3, <1>16
    <3>5. s[(u - 1) + 1] # t[(v - 1) + 1]
      BY <3>3, <3>4, <1>0, <1>9, <1>16 DEF EndsAt
    <3> DEFINE m == <<u - 1, v - 1>>
    <3>6. m \in Q /\ m[1] = u - 1 /\ m[2] = v - 1
      BY <1>9
    <3>7. s[m[1] + 1] = t[m[2] + 1]
      <4> HIDE DEF m
      <4> QED BY <3>6, MatchingFacts
    <3> QED BY <3>5, <3>6, <3>7
  <2>9. Far(s, t, d, u - v) \in Nat
    BY <2>6, <2>7, FarType
  <2>10. Far(s, t, d, u - v) >= u
    BY <2>6, <2>8, <2>9, <1>0
  <2>11. Reached(u, v, c)
    BY <2>5, <2>6, <2>10
  <2> QED BY <2>11, <1>5, <1>15
<1>10. CASE u > 0 /\ \A m \in Q : m[1] # u - 1
  <2> DEFINE d == (u - 1) + v - 2 * c
  <2>1. Inside(Q, u - 1, v)
    BY <1>5, <1>15, <1>7, <1>10, SMTT(30)
  <2>2. u - 1 \in 0..Len(s) /\ (u - 1) + v < u + v
    BY <1>10, <1>0
  <2>3. Reached(u - 1, v, c)
    <3> HIDE DEF Inside, Reached
    <3> QED BY <2>1, <2>2, <1>6 DEF c
  <2>4. d + 1 = u + v - 2 * c /\ (u - 1 - v) + 1 = u - v /\ d \in 0..(Len(s) + Len(t) - 1)
    BY <2>3, <1>0, <1>7, <1>10, <1>16
  <2>5. u - 1 - v \in Diag(d) /\ Far(s, t, d, u - 1 - v) >= u - 1
    BY <2>3
  <2>6. Far(s, t, d + 1, (u - 1 - v) + 1) >= Far(s, t, d, u - 1 - v) + 1
    BY <2>4, <2>5, FarGrows
  <2>7. (u - 1 - v) + 1 \in Diag(d + 1)
    <3>1. d \in Nat
      BY <2>4, <1>0
    <3> HIDE DEF d
    <3> QED BY <3>1, <2>5, DiagSteps
  <2>8. Far(s, t, d, u - 1 - v) \in Nat /\ Far(s, t, d + 1, (u - 1 - v) + 1) \in Nat
    <3>1. d \in 0..(Len(s) + Len(t)) /\ d + 1 \in 0..(Len(s) + Len(t))
      BY <2>4, <1>0
    <3> HIDE DEF d
    <3> QED BY <3>1, <2>5, <2>7, FarType
  <2>9. d + 1 \in Nat
    BY <2>4, <1>0
  <2>10. Far(s, t, d + 1, (u - 1 - v) + 1) >= u
    BY <2>5, <2>6, <2>8, <1>0
  <2>11. Reached(u, v, c)
    BY <2>4, <2>7, <2>9, <2>10
  <2> QED BY <2>11, <1>5, <1>15
<1>11. CASE v > 0 /\ \A m \in Q : m[2] # v - 1
  <2> DEFINE d == u + (v - 1) - 2 * c
  <2>1. Inside(Q, u, v - 1)
    BY <1>5, <1>15, <1>7, <1>11, SMTT(30)
  <2>2. v - 1 \in 0..Len(t) /\ u + (v - 1) < u + v
    BY <1>11, <1>0
  <2>3. Reached(u, v - 1, c)
    <3> HIDE DEF Inside, Reached
    <3> QED BY <2>1, <2>2, <1>6 DEF c
  <2>4. d + 1 = u + v - 2 * c /\ (u - (v - 1)) - 1 = u - v /\ d \in 0..(Len(s) + Len(t) - 1)
    BY <2>3, <1>0, <1>7, <1>11, <1>16
  <2>5. u - (v - 1) \in Diag(d) /\ Far(s, t, d, u - (v - 1)) >= u
    BY <2>3
  <2>6. Far(s, t, d + 1, (u - (v - 1)) - 1) >= Far(s, t, d, u - (v - 1))
    BY <2>4, <2>5, FarGrows
  <2>7. (u - (v - 1)) - 1 \in Diag(d + 1)
    <3>1. d \in Nat
      BY <2>4, <1>0
    <3> HIDE DEF d
    <3> QED BY <3>1, <2>5, DiagSteps
  <2>8. Far(s, t, d, u - (v - 1)) \in Nat /\ Far(s, t, d + 1, (u - (v - 1)) - 1) \in Nat
    <3>1. d \in 0..(Len(s) + Len(t)) /\ d + 1 \in 0..(Len(s) + Len(t))
      BY <2>4, <1>0
    <3> HIDE DEF d
    <3> QED BY <3>1, <2>5, <2>7, FarType
  <2>9. d + 1 \in Nat
    BY <2>4, <1>0
  <2>10. Far(s, t, d + 1, (u - (v - 1)) - 1) >= u
    BY <2>5, <2>6, <2>8, <1>0
  <2>11. Reached(u, v, c)
    BY <2>4, <2>7, <2>9, <2>10
  <2> QED BY <2>11, <1>5, <1>15
<1>12. ASSUME u > 0 \/ v > 0,
              NEW l \in Q, l[1] = u - 1, NEW m \in Q, m[2] = v - 1
       PROVE  u > 0 /\ v > 0 /\ <<u - 1, v - 1>> \in Q
  <2>1. l[2] < v /\ m[1] < u
    BY <1>5, <1>15
  <2>2. l[2] = v - 1
    BY <2>1, <1>0, <1>7, <1>12
  <2>3. l = <<u - 1, v - 1>>
    BY <2>2, <1>7, <1>12
  <2>4. u - 1 \in Nat /\ v - 1 \in Nat
    BY <2>2, <1>7, <1>12
  <2> QED BY <2>3, <2>4, <1>16
<1>13. CASE ~(u = 0 /\ v = 0)
  <2>1. u > 0 \/ v > 0
    BY <1>0, <1>13
  <2>2. CASE u = 0 \/ v = 0
    <3>1. Q = {}
      BY <1>5, <1>15, <1>7, <2>2
    <3> QED BY <3>1, <2>1, <1>10, <1>11
  <2>3. CASE u > 0 /\ v > 0
    BY <2>1, <2>3, <1>9, <1>10, <1>11, <1>12
  <2> QED BY <2>1, <2>2, <2>3, <1>0
<1> QED BY <1>8, <1>13

-----------------------------------------------------------------------------
(* The rounds up to the first that ends *)

\* Round d is the first that comes to both ends, and no pairing saves more edits.
SearchEndsIn(s, t, d) ==
    /\ Len(s) - Len(t) \in Diag(d)
    /\ Far(s, t, d, Len(s) - Len(t)) = Len(s)
    /\ \A P \in Matchings(s, t) : Len(s) + Len(t) - 2 * Cardinality(P) >= d
    /\ GetShortestPath(s, t) = [n \in 1..(d + 1) |-> Rounds(s, t)[n - 1]]

\* The search ends, exactly at the end of both files, and no pairing of equal
\* lines leaves fewer edits.
LEMMA SearchEnds ==
    ASSUME NEW L, NEW s \in Seq(L), NEW t \in Seq(L), Len(s) + Len(t) > 0
    PROVE  \E d \in 0..(Len(s) + Len(t)) : SearchEndsIn(s, t, d)
<1> DEFINE T == Len(s) + Len(t)
           Ends(e) == AtEnd(s, t, Rounds(s, t)[e], e)
           First(e) == Ends(e) /\ \A c \in 0..(e - 1) : ~Ends(c)
<1>0. Len(s) \in Nat /\ Len(t) \in Nat /\ T \in Nat
  BY LenProperties
<1>1. ASSUME NEW P \in Matchings(s, t)
      PROVE  /\ T - 2 * Cardinality(P) \in 0..T
             /\ Ends(T - 2 * Cardinality(P))
  <2> DEFINE e == T - 2 * Cardinality(P)
             k == Len(s) - Len(t)
  <2>1. \A m \in P : m[1] < Len(s) /\ m[2] < Len(t)
    BY MatchingFacts
  <2>3. Cardinality(P) \in Nat
    BY MatchingFacts
  <2>2. e \in Nat /\ k \in Diag(e) /\ Far(s, t, e, k) >= Len(s)
    <3>1. Len(s) \in 0..Len(s) /\ Len(t) \in 0..Len(t)
      BY <1>0
    <3> DEFINE q == Len(s) + Len(t) - 2 * Cardinality(P)
    <3>2. q \in Nat /\ k \in Diag(q) /\ Far(s, t, q, k) >= Len(s)
      BY <2>1, <3>1, SearchReaches
    <3>3. q = e
      BY <1>0, <2>3
    <3> QED BY <3>2, <3>3
  <2>4. e \in 0..T
    BY <2>2, <2>3, <1>0
  <2>5. Far(s, t, e, k) \in Nat
    <3> HIDE DEF e
    <3> QED BY <2>2, <2>4, FarType
  <2>6. Far(s, t, e, k) - k >= Len(t)
    BY <2>2, <2>5, <1>0
  <2> HIDE DEF e, k
  <2>7. AtEnd(s, t, Rounds(s, t)[e], e)
    BY <2>2, <2>6 DEF AtEnd, Diag, Far
  <2> QED BY <2>4, <2>7 DEF e
<1>2. PICK d \in 0..T : First(d)
  <2> DEFINE S == {e \in 0..T : Ends(e)}
  <2>1. {} \in Matchings(s, t)
    BY DEF Matchings
  <2>2. S # {} /\ S \subseteq Nat
    <3> HIDE DEF Ends
    <3> QED BY <1>0, <1>1, <2>1
  <2>3. PICK e \in S : \A c \in S : e <= c
    <3> HIDE DEF S
    <3> QED BY <2>2, SmallestIn
  <2>4. ASSUME NEW c \in 0..(e - 1) PROVE ~Ends(c)
    <3>1. c \in 0..T /\ ~(e <= c)
      BY <2>2, <2>3, <1>0
    <3> HIDE DEF Ends
    <3> QED BY <3>1, <2>3
  <2> HIDE DEF Ends
  <2> QED BY <2>3, <2>4
<1>3. Len(s) - Len(t) \in Diag(d) /\ Far(s, t, d, Len(s) - Len(t)) = Len(s)
  BY <1>2, FirstEnd
<1>4. ASSUME NEW P \in Matchings(s, t)
      PROVE  Len(s) + Len(t) - 2 * Cardinality(P) >= d
  <2> DEFINE e == T - 2 * Cardinality(P)
  <2>1. e \in 0..T /\ Ends(e)
    BY <1>1
  <2> HIDE DEF Ends, e
  <2>2. e \notin 0..(d - 1)
    BY <2>1, <1>2
  <2>3. e >= d
    BY <2>1, <2>2, <1>0
  <2>4. Cardinality(P) \in Nat
    BY MatchingFacts
  <2> QED BY <2>3, <2>4, <1>0 DEF e
<1>5. GetShortestPath(s, t) = [n \in 1..(d + 1) |-> Rounds(s, t)[n - 1]]
  <2>1. DOMAIN Rounds(s, t) = 0..T
    BY RoundsUnfold DEF AreRounds
  <2> DEFINE last == CHOOSE e \in DOMAIN Rounds(s, t) : First(e)
  <2>2. last \in 0..T /\ First(last)
    <3> HIDE DEF First
    <3> QED BY <2>1, <1>2
  <2>3. GetShortestPath(s, t) = [n \in 1..(last + 1) |-> Rounds(s, t)[n - 1]]
    BY Zenon DEF GetShortestPath
  <2> HIDE DEF last, Ends
  <2>4. last = d
    BY <2>2, <1>2, <1>0
  <2> QED BY <2>3, <2>4
<1>6. SearchEndsIn(s, t, d)
  BY <1>3, <1>4, <1>5 DEF SearchEndsIn
<1> QED BY <1>6

-----------------------------------------------------------------------------
(* The script *)

EditSet == [type : {"ins", "del", "eql"}, i : Nat, j : Nat]

\* The script from position x, y to the ends of both files, with e edits.
IsScript(script, x, y, e, s, t) ==
    /\ script \in Seq(EditSet)
    /\ script = <<>> => x = Len(s) /\ y = Len(t)
    /\ script # <<>> => /\ Behind(script[1]) = <<Len(s), Len(t)>>
                        /\ script[Len(script)].i = x
                        /\ script[Len(script)].j = y
    /\ \A m \in 1..(Len(script) - 1) : Behind(script[m + 1]) = <<script[m].i, script[m].j>>
    /\ \A m \in 1..Len(script) :
        script[m].type = "eql" => s[script[m].i + 1] = t[script[m].j + 1]
    /\ getMatches(script) \in Matchings(s, t)
    /\ \A m \in getMatches(script) : m[1] >= x /\ m[2] >= y
    /\ Cardinality({m \in DOMAIN script : script[m].type = "eql"}) = Cardinality(getMatches(script))
    /\ 2 * Cardinality(getMatches(script)) = (Len(s) - x) + (Len(t) - y) - e

LEMMA EmptyScript ==
    ASSUME NEW L, NEW s \in Seq(L), NEW t \in Seq(L)
    PROVE  IsScript(<<>>, Len(s), Len(t), 0, s, t)
<1>0. Len(s) \in Nat /\ Len(t) \in Nat
  BY LenProperties
<1>1. <<>> \in Seq(EditSet) /\ Len(<<>>) = 0 /\ DOMAIN <<>> = {}
  BY EmptySeq
<1>2. getMatches(<<>>) = {}
  BY <1>1 DEF getMatches, ToSet
<1>3. {} \in Matchings(s, t)
  BY DEF Matchings
<1>4. {m \in DOMAIN <<>> : <<>>[m].type = "eql"} = {}
  BY <1>1
<1>5. Cardinality({}) = 0
  BY FS_EmptySet
<1> DEFINE script == <<>>
<1>6. /\ script = <<>> /\ script \in Seq(EditSet) /\ 1..Len(script) = {} /\ 1..(Len(script) - 1) = {}
      /\ getMatches(script) = {}
      /\ {m \in DOMAIN script : script[m].type = "eql"} = {}
  BY <1>1, <1>2, <1>4
<1>7. 2 * Cardinality({}) = (Len(s) - Len(s)) + (Len(t) - Len(t)) - 0
  BY <1>0, <1>5
<1> HIDE DEF script
<1>8. IsScript(script, Len(s), Len(t), 0, s, t)
  BY <1>3, <1>6, <1>7 DEF IsScript
<1> QED BY <1>6, <1>8

\* One edit more, that leads to where the script starts.
LEMMA AppendEdit ==
    ASSUME NEW L, NEW s \in Seq(L), NEW t \in Seq(L), NEW script,
           NEW x \in 0..Len(s), NEW y \in 0..Len(t), NEW e \in Nat,
           IsScript(script, x, y, e, s, t),
           NEW f \in EditSet, Behind(f) = <<x, y>>,
           f.type = "eql" => s[f.i + 1] = t[f.j + 1]
    PROVE  IsScript(Append(script, f), f.i, f.j, IF f.type = "eql" THEN e ELSE e + 1, s, t)
<1> DEFINE longer == Append(script, f)
           n == Len(script)
           old == getMatches(script)
           new == getMatches(longer)
           At(q) == {m \in DOMAIN q : q[m].type = "eql"}
<1>0. Len(s) \in Nat /\ Len(t) \in Nat
  BY LenProperties
<1>1. /\ script \in Seq(EditSet) /\ n \in Nat /\ DOMAIN script = 1..n
      /\ longer \in Seq(EditSet) /\ Len(longer) = n + 1 /\ DOMAIN longer = 1..(n + 1)
      /\ \A m \in 1..n : longer[m] = script[m]
      /\ longer[n + 1] = f
      /\ longer # <<>>
  <2>1. script \in Seq(EditSet)
    BY DEF IsScript
  <2>2. n \in Nat /\ DOMAIN script = 1..n
    BY <2>1, LenProperties
  <2>3. /\ longer \in Seq(EditSet) /\ Len(longer) = n + 1
        /\ \A m \in 1..n : longer[m] = script[m]
        /\ longer[n + 1] = f
    BY <2>1, AppendProperties
  <2>4. DOMAIN longer = 1..(n + 1) /\ longer # <<>>
    <3> HIDE DEF longer, n
    <3>1. DOMAIN longer = 1..(n + 1)
      BY <2>3, LenProperties
    <3>2. longer # <<>>
      BY <2>2, <2>3, EmptySeq
    <3> QED BY <3>1, <3>2
  <2> QED BY <2>1, <2>2, <2>3, <2>4
<1>2. /\ f.type \in {"ins", "del", "eql"} /\ f.i \in Nat /\ f.j \in Nat
      /\ x = IF f.type = "ins" THEN f.i ELSE f.i + 1
      /\ y = IF f.type = "del" THEN f.j ELSE f.j + 1
  BY DEF EditSet, Behind
<1>3. n = 0 <=> script = <<>>
  BY <1>1, EmptySeq
<1> HIDE DEF longer, n
<1>4. Behind(longer[1]) = <<Len(s), Len(t)>>
  <2>1. CASE n = 0
    BY <2>1, <1>1, <1>3 DEF IsScript
  <2>2. CASE n # 0
    <3>1. 1 \in 1..n
      BY <2>2, <1>1
    <3> QED BY <3>1, <2>2, <1>1, <1>3 DEF IsScript
  <2> QED BY <2>1, <2>2
<1>5. ASSUME NEW m \in 1..n PROVE Behind(longer[m + 1]) = <<longer[m].i, longer[m].j>>
  <2>1. CASE m = n
    BY <2>1, <1>1, <1>3 DEF IsScript, n
  <2>2. CASE m # n
    <3>1. m \in 1..(n - 1) /\ m + 1 \in 1..n
      BY <2>2, <1>1
    <3> QED BY <3>1, <1>1 DEF IsScript, n
  <2> QED BY <2>1, <2>2
<1>6. ASSUME NEW m \in 1..(n + 1), longer[m].type = "eql"
      PROVE  s[longer[m].i + 1] = t[longer[m].j + 1]
  <2>1. CASE m = n + 1
    BY <2>1, <1>1, <1>6
  <2>2. CASE m # n + 1
    <3>1. m \in 1..n
      BY <2>2, <1>1
    <3> QED BY <3>1, <1>1, <1>6 DEF IsScript, n
  <2> QED BY <2>1, <2>2
<1>7. new = old \cup (IF f.type = "eql" THEN {<<f.i, f.j>>} ELSE {})
  <2>1. ToSet(longer) = ToSet(script) \cup {f}
    <3>1. 1..(n + 1) = (1..n) \cup {n + 1}
      BY <1>1
    <3> QED BY <3>1, <1>1 DEF ToSet
  <2> QED BY <2>1 DEF getMatches
<1>8. At(longer) = At(script) \cup (IF f.type = "eql" THEN {n + 1} ELSE {})
  <2>1. 1..(n + 1) = (1..n) \cup {n + 1}
    BY <1>1
  <2> QED BY <2>1, <1>1
<1>9. /\ old \in Matchings(s, t)
      /\ \A m \in old : m[1] >= x /\ m[2] >= y
      /\ Cardinality(At(script)) = Cardinality(old)
      /\ 2 * Cardinality(old) = (Len(s) - x) + (Len(t) - y) - e
  BY DEF IsScript
<1>10. IsFiniteSet(old) /\ Cardinality(old) \in Nat
  BY <1>9, MatchingFacts
<1>11. IsFiniteSet(At(script)) /\ n + 1 \notin At(script)
  <2>1. IsFiniteSet(1..n)
    <3>1. 1 \in Int /\ n \in Int
      BY <1>1
    <3> QED BY <3>1, FS_Interval
  <2>2. At(script) \in SUBSET (1..n)
    BY <1>1
  <2> QED BY <1>1, <2>1, <2>2, FS_Subset
<1>14. ASSUME NEW g \in Nat, new \in Matchings(s, t),
              \A m \in new : m[1] >= f.i /\ m[2] >= f.j,
              Cardinality(At(longer)) = Cardinality(new),
              2 * Cardinality(new) = (Len(s) - f.i) + (Len(t) - f.j) - g
       PROVE  IsScript(longer, f.i, f.j, g, s, t)
  <2>1. Len(longer) = n + 1 /\ (n + 1) - 1 = n
    BY <1>1
  <2>2. longer # <<>> => /\ Behind(longer[1]) = <<Len(s), Len(t)>>
                         /\ longer[Len(longer)].i = f.i
                         /\ longer[Len(longer)].j = f.j
    BY <1>1, <1>4
  <2>3. \A m \in 1..(Len(longer) - 1) : Behind(longer[m + 1]) = <<longer[m].i, longer[m].j>>
    BY <2>1, <1>5
  <2>4. \A m \in 1..Len(longer) :
            longer[m].type = "eql" => s[longer[m].i + 1] = t[longer[m].j + 1]
    BY <2>1, <1>6
  <2> QED BY <2>2, <2>3, <2>4, <1>1, <1>14 DEF IsScript
<1>12. CASE f.type # "eql"
  <2>1. new = old /\ At(longer) = At(script)
    BY <1>7, <1>8, <1>12
  <2>2. \A m \in new : m[1] >= f.i /\ m[2] >= f.j
    <3> SUFFICES ASSUME NEW m \in old PROVE m[1] >= f.i /\ m[2] >= f.j
      BY <2>1
    <3>1. m[1] \in Nat /\ m[2] \in Nat /\ m[1] >= x /\ m[2] >= y
      BY <1>9, MatchingFacts
    <3> QED BY <3>1, <1>2
  <2>3. 2 * Cardinality(new) = (Len(s) - f.i) + (Len(t) - f.j) - (e + 1)
    <3>1. (Len(s) - x) + (Len(t) - y) - e = (Len(s) - f.i) + (Len(t) - f.j) - (e + 1)
      <4> DEFINE n1 == Len(s)
                 n2 == Len(t)
                 i == f.i
                 j == f.j
      <4>1. /\ n1 \in Int /\ n2 \in Int /\ i \in Int /\ j \in Int
            /\ (x = i /\ y = j + 1) \/ (x = i + 1 /\ y = j)
        BY <1>0, <1>2, <1>12
      <4> HIDE DEF n1, n2, i, j
      <4>2. (n1 - x) + (n2 - y) - e = (n1 - i) + (n2 - j) - (e + 1)
        BY <4>1
      <4> QED BY <4>2 DEF n1, n2, i, j
    <3> QED BY <3>1, <2>1, <1>9
  <2>4. IsScript(longer, f.i, f.j, e + 1, s, t)
    <3>1. e + 1 \in Nat
      OBVIOUS
    <3> HIDE DEF new, old, At
    <3> QED BY <3>1, <2>1, <2>2, <2>3, <1>9, <1>14
  <2> QED BY <2>4, <1>12 DEF longer
<1>13. CASE f.type = "eql"
  <2> DEFINE p == <<f.i, f.j>>
  <2>1. new = old \cup {p} /\ At(longer) = At(script) \cup {n + 1}
    BY <1>7, <1>8, <1>13
  <2>2. x = f.i + 1 /\ y = f.j + 1
    BY <1>2, <1>13
  <2>3. p \notin old /\ p[1] = f.i /\ p[2] = f.j
    BY <1>2, <1>9, <2>2
  <2>4. ASSUME NEW m \in old
        PROVE  /\ m[1] \in Nat /\ m[2] \in Nat
               /\ m[1] >= f.i + 1 /\ m[2] >= f.j + 1
    BY <1>9, <2>2, MatchingFacts
  <2>5. new \in Matchings(s, t)
    <3>1. p \in (0..(Len(s) - 1)) \X (0..(Len(t) - 1))
      BY <2>2, <1>0, <1>2
    <3>2. new \subseteq (0..(Len(s) - 1)) \X (0..(Len(t) - 1))
      BY <2>1, <3>1, <1>9 DEF Matchings
    <3>3. \A m \in new : s[m[1] + 1] = t[m[2] + 1]
      BY <2>1, <2>3, <1>9, <1>13 DEF Matchings
    <3>4. \A l, m \in new : l[1] < m[1] <=> l[2] < m[2]
      <4> HIDE DEF p, old, new
      <4>1. \A l, m \in old : l[1] < m[1] <=> l[2] < m[2]
        BY <1>9 DEF Matchings
      <4> QED BY <4>1, <2>1, <2>3, <2>4, <1>2
    <3> QED BY <3>2, <3>3, <3>4 DEF Matchings
  <2>6. \A m \in new : m[1] >= f.i /\ m[2] >= f.j
    BY <2>1, <2>3, <2>4, <1>2
  <2>7. Cardinality(new) = Cardinality(old) + 1
    <3> HIDE DEF p, old, new
    <3> QED BY <2>1, <2>3, <1>10, FS_AddElement
  <2>8. Cardinality(At(longer)) = Cardinality(At(script)) + 1
    BY <2>1, <1>11, FS_AddElement
  <2>9. 2 * Cardinality(new) = (Len(s) - f.i) + (Len(t) - f.j) - e
    <3>1. (Len(s) - x) + (Len(t) - y) - e + 2 = (Len(s) - f.i) + (Len(t) - f.j) - e
      <4> DEFINE n1 == Len(s)
                 n2 == Len(t)
                 i == f.i
                 j == f.j
      <4>1. /\ n1 \in Int /\ n2 \in Int /\ i \in Int /\ j \in Int
            /\ x = i + 1 /\ y = j + 1
        BY <1>0, <1>2, <2>2
      <4> HIDE DEF n1, n2, i, j
      <4>2. (n1 - x) + (n2 - y) - e + 2 = (n1 - i) + (n2 - j) - e
        BY <4>1
      <4> QED BY <4>2 DEF n1, n2, i, j
    <3>2. 2 * (Cardinality(old) + 1) = 2 * Cardinality(old) + 2
      BY <1>10
    <3> QED BY <3>1, <3>2, <2>7, <1>9
  <2>10. IsScript(longer, f.i, f.j, e, s, t)
    <3> HIDE DEF new, old, At
    <3> QED BY <2>5, <2>6, <2>7, <2>8, <2>9, <1>9, <1>14
  <2> QED BY <2>10, <1>13 DEF longer
<1> QED BY <1>12, <1>13

\* Where the walk back along n equal lines stands before its m-th step.
LEMMA PlaceOnRun ==
    ASSUME NEW l \in Nat, NEW x \in Nat, NEW n \in Nat, NEW m \in 1..n, x + n <= l
    PROVE  x + n - (m - 1) \in 0..l /\ x + n - (m - 1) = x + n - m + 1
OBVIOUS

\* Equal lines, one edit for each, the last one first.
LEMMA AppendEquals ==
    ASSUME NEW L, NEW s \in Seq(L), NEW t \in Seq(L), NEW script, NEW e \in Nat,
           NEW x \in Nat, NEW y \in Nat, NEW n \in Nat,
           x + n <= Len(s), y + n <= Len(t),
           \A i \in 1..n : s[x + i] = t[y + i],
           IsScript(script, x + n, y + n, e, s, t)
    PROVE  IsScript(script \o [i \in 1..n |->
                        Edit(x + n - i + 1, y + n - i + 1, x + n - i, y + n - i)], x, y, e, s, t)
<1> DEFINE E(i) == Edit(x + n - i + 1, y + n - i + 1, x + n - i, y + n - i)
           Part(m) == [i \in 1..m |-> E(i)]
           Fits(m) == IsScript(script \o Part(m), x + n - m, y + n - m, e, s, t)
           Bad == {m \in 0..n : ~Fits(m)}
<1>0. Len(s) \in Nat /\ Len(t) \in Nat
  BY LenProperties
<1>1. script \in Seq(EditSet)
  BY DEF IsScript
<1>2. ASSUME NEW i \in 1..n
      PROVE  E(i) \in EditSet /\ E(i) = [type |-> "eql", i |-> x + n - i, j |-> y + n - i]
  <2>1. x + n - i \in Nat /\ y + n - i \in Nat
    OBVIOUS
  <2>2. E(i) = [type |-> "eql", i |-> x + n - i, j |-> y + n - i]
    BY <2>1 DEF Edit
  <2> QED BY <2>1, <2>2 DEF EditSet
<1>3. ASSUME NEW m \in 0..n
      PROVE  Part(m) \in Seq(EditSet) /\ script \o Part(m) \in Seq(EditSet)
  <2>1. m \in Nat /\ \A i \in 1..m : E(i) \in EditSet
    <3>1. m \in Nat /\ \A i \in 1..m : i \in 1..n
      OBVIOUS
    <3> HIDE DEF E
    <3> QED BY <3>1, <1>2
  <2>2. Part(m) \in Seq(EditSet)
    <3> HIDE DEF E
    <3> QED BY <2>1, IsASeq
  <2> QED BY <1>1, <2>2, ConcatProperties
<1>4. Fits(0)
  <2>1. Part(0) = <<>>
    OBVIOUS
  <2>2. script \o <<>> = script
    BY <1>1, ConcatEmptySeq
  <2>3. x + n - 0 = x + n /\ y + n - 0 = y + n
    OBVIOUS
  <2> HIDE DEF Part
  <2> QED BY <2>1, <2>2, <2>3
<1>5. ASSUME NEW m \in 0..n, m # 0, Fits(m - 1)
      PROVE  Fits(m)
  <2> DEFINE f == E(m)
             w == x + n - (m - 1)
             z == y + n - (m - 1)
             so == script \o Part(m - 1)
  <2>1. m \in 1..n /\ m - 1 \in 0..n
    BY <1>5
  <2>2. f \in EditSet /\ f.type = "eql" /\ f.i = x + n - m /\ f.j = y + n - m
    <3>1. f \in EditSet /\ f = [type |-> "eql", i |-> x + n - m, j |-> y + n - m]
      BY <1>2, <2>1
    <3> HIDE DEF f
    <3> QED BY <3>1
  <2>3. w \in 0..Len(s) /\ z \in 0..Len(t) /\ w = x + n - m + 1 /\ z = y + n - m + 1
    <3>1. w \in 0..Len(s) /\ w = x + n - m + 1
      BY <1>0, <2>1, PlaceOnRun
    <3>2. z \in 0..Len(t) /\ z = y + n - m + 1
      BY <1>0, <2>1, PlaceOnRun
    <3> QED BY <3>1, <3>2
  <2>4. Behind(f) = <<w, z>>
    <3> HIDE DEF f, w, z
    <3> QED BY <2>2, <2>3 DEF Behind
  <2>5. s[f.i + 1] = t[f.j + 1]
    <3>1. n - m + 1 \in 1..n /\ x + n - m + 1 = x + (n - m + 1) /\ y + n - m + 1 = y + (n - m + 1)
      BY <2>1
    <3>2. s[x + (n - m + 1)] = t[y + (n - m + 1)]
      BY <3>1
    <3> HIDE DEF f
    <3> QED BY <2>2, <3>1, <3>2
  <2>6. IsScript(Append(so, f), f.i, f.j, e, s, t)
    <3>1. IsScript(so, w, z, e, s, t)
      BY <1>5
    <3> HIDE DEF f, w, z, so
    <3> QED BY <3>1, <2>2, <2>3, <2>4, <2>5, AppendEdit
  <2>7. Append(so, f) = script \o Part(m)
    <3>1. Part(m) = Append(Part(m - 1), f)
      <4>1. /\ Part(m - 1) \in Seq(EditSet) /\ Part(m) \in Seq(EditSet)
            /\ Len(Part(m - 1)) = m - 1 /\ Len(Part(m)) = m
        <5>1. Part(m - 1) \in Seq(EditSet) /\ Part(m) \in Seq(EditSet)
          <6> HIDE DEF Part
          <6> QED BY <1>3, <2>1
        <5>2. m \in Nat /\ m - 1 \in Nat
          BY <2>1
        <5>3. DOMAIN Part(m - 1) = 1..(m - 1) /\ DOMAIN Part(m) = 1..m
          OBVIOUS
        <5> HIDE DEF Part
        <5> QED BY <5>1, <5>2, <5>3, LenProperties
      <4>2. /\ Append(Part(m - 1), f) \in Seq(EditSet)
            /\ Len(Append(Part(m - 1), f)) = m - 1 + 1
            /\ \A i \in 1..(m - 1) : Append(Part(m - 1), f)[i] = Part(m - 1)[i]
            /\ Append(Part(m - 1), f)[m - 1 + 1] = f
        <5> HIDE DEF Part, f
        <5> QED BY <4>1, <2>2, AppendProperties
      <4>3. \A i \in 1..m : Append(Part(m - 1), f)[i] = Part(m)[i]
        <5> SUFFICES ASSUME NEW i \in 1..m PROVE Append(Part(m - 1), f)[i] = Part(m)[i]
          OBVIOUS
        <5>1. CASE i = m
          BY <5>1, <4>2, <2>1
        <5>2. CASE i # m
          <6>1. i \in 1..(m - 1) /\ i \in 1..m
            BY <5>2, <2>1
          <6> HIDE DEF f, E
          <6> QED BY <6>1, <4>2
        <5> QED BY <5>1, <5>2
      <4>4. m - 1 + 1 = m
        BY <2>1
      <4> HIDE DEF Part, f
      <4> QED BY <4>1, <4>2, <4>3, <4>4, SeqEqual
    <3>2. Part(m - 1) \in Seq(EditSet)
      BY <1>3, <2>1
    <3> HIDE DEF Part, f
    <3>3. <<f>> \in Seq(EditSet)
      BY <2>2
    <3>4. Part(m) = Part(m - 1) \o <<f>>
      BY <3>1, <3>2, <2>2, AppendIsConcat
    <3>5. so \in Seq(EditSet)
      BY <3>2, <1>1, ConcatProperties
    <3>6. Append(so, f) = so \o <<f>>
      <4> HIDE DEF so
      <4> QED BY <3>5, <2>2, AppendIsConcat
    <3>7. so \o <<f>> = script \o (Part(m - 1) \o <<f>>)
      <4> DEFINE part == Part(m - 1)
      <4>1. part \in Seq(EditSet)
        BY <3>2
      <4> HIDE DEF part
      <4>2. (script \o part) \o <<f>> = script \o (part \o <<f>>)
        BY <4>1, <3>3, <1>1, ConcatAssociative
      <4> QED BY <4>2 DEF part
    <3> QED BY <3>4, <3>6, <3>7
  <2> HIDE DEF f, so
  <2> QED BY <2>2, <2>6, <2>7
<1>6. Bad = {}
  <2>1. SUFFICES ASSUME Bad # {} PROVE FALSE
    OBVIOUS
  <2>2. PICK m \in Bad : \A c \in Bad : m <= c
    <3>1. Bad \subseteq Nat
      OBVIOUS
    <3> HIDE DEF Bad
    <3> QED BY <2>1, <3>1, SmallestIn
  <2> HIDE DEF Fits
  <2>3. m # 0
    BY <1>4, <2>2
  <2>4. m - 1 \in 0..n /\ m - 1 \notin Bad
    BY <2>2, <2>3
  <2> QED BY <2>2, <2>3, <2>4, <1>5
<1>7. Fits(n)
  <2> HIDE DEF Fits
  <2> QED BY <1>6
<1>8. x + n - n = x /\ y + n - n = y
  OBVIOUS
<1> QED BY <1>7, <1>8

\* Back along the equal lines of a round.
LEMMA BackAlong ==
    ASSUME NEW L, NEW s \in Seq(L), NEW t \in Seq(L), Len(s) + Len(t) > 0,
           NEW d \in 0..(Len(s) + Len(t)), NEW k \in Diag(d), NEW e \in Nat, NEW script,
           NEW x, NEW y, x = Far(s, t, d, k), y = x - k, x <= Len(s), y <= Len(t),
           IsScript(script, x, y, e, s, t)
    PROVE  LET w == From(s, t, d, k)
               n == Snake(s, t, w, w - k)
           IN  /\ n \in Nat /\ w \in Nat /\ w - k \in Nat /\ k \in Int
               /\ x = w + n /\ y = w - k + n
               /\ IsScript(script \o [i \in 1..n |-> Edit(x - i + 1, y - i + 1, x - i, y - i)],
                           w, w - k, e, s, t)
<1> DEFINE w == From(s, t, d, k)
           z == w - k
           n == Snake(s, t, w, z)
<1>0. Len(s) \in Nat /\ Len(t) \in Nat /\ d \in Nat /\ k \in Int
  BY LenProperties, DiagSteps
<1>1. w \in Nat /\ z \in Nat
  BY FarType
<1>2. x = w + n
  BY RoundStep
<1>3. n \in Nat /\ \A i \in 1..n : s[w + i] = t[z + i]
  <2> HIDE DEF w, z
  <2>1. n \in Nat
    BY <1>1, SnakeFacts
  <2>2. \A i \in 1..n : s[w + i] = t[z + i]
    BY <1>1, SnakeFacts
  <2> QED BY <2>1, <2>2
<1>4. y = z + n
  <2> HIDE DEF n
  <2>1. y = (w + n) - k
    BY <1>2
  <2> QED BY <2>1, <1>0, <1>1, <1>3
<1> HIDE DEF w, z, n
<1>5. IsScript(script \o [i \in 1..n |->
                Edit(w + n - i + 1, z + n - i + 1, w + n - i, z + n - i)], w, z, e, s, t)
  <2>1. w + n <= Len(s) /\ z + n <= Len(t) /\ IsScript(script, w + n, z + n, e, s, t)
    BY <1>2, <1>4
  <2> QED BY <2>1, <1>1, <1>3, AppendEquals
<1>6. IsScript(script \o [i \in 1..n |-> Edit(x - i + 1, y - i + 1, x - i, y - i)], w, z, e, s, t)
  <2> DEFINE x1 == w + n
             y1 == z + n
  <2>1. x = x1 /\ y = y1
    BY <1>2, <1>4
  <2>2. IsScript(script \o [i \in 1..n |-> Edit(x1 - i + 1, y1 - i + 1, x1 - i, y1 - i)], w, z, e, s, t)
    <3>1. ASSUME NEW i \in 1..n
          PROVE  /\ w + n - i = x1 - i /\ z + n - i = y1 - i
                 /\ w + n - i + 1 = x1 - i + 1 /\ z + n - i + 1 = y1 - i + 1
      BY <1>1, <1>3
    <3>2. [i \in 1..n |-> Edit(w + n - i + 1, z + n - i + 1, w + n - i, z + n - i)]
            = [i \in 1..n |-> Edit(x1 - i + 1, y1 - i + 1, x1 - i, y1 - i)]
      <4> HIDE DEF x1, y1
      <4> QED BY <3>1
    <3> HIDE DEF x1, y1
    <3> QED BY <3>2, <1>5
  <2> HIDE DEF x1, y1
  <2> QED BY <2>1, <2>2
<1> QED BY <1>0, <1>1, <1>2, <1>3, <1>4, <1>6 DEF w, z, n

\* A round of Backtrack adds the edit of that round; the first has none.
LEMMA StepBackFacts ==
    ASSUME NEW L, NEW s \in Seq(L), NEW t \in Seq(L), Len(s) + Len(t) > 0,
           NEW d \in 0..(Len(s) + Len(t)), NEW k \in Diag(d), NEW e \in Nat, NEW p,
           p.x = Far(s, t, d, k), p.y = p.x - k, p.x <= Len(s), p.y <= Len(t),
           IsScript(p.script, p.x, p.y, e, s, t)
    PROVE  LET q == StepBack(p, Rounds(s, t)[d], d)
           IN  /\ d = 0 => IsScript(q.script, 0, 0, e, s, t)
               /\ d # 0 => \E j \in Diag(d - 1) :
                               /\ q.x = Far(s, t, d - 1, j) /\ q.y = q.x - j
                               /\ q.x <= Len(s) /\ q.y <= Len(t)
                               /\ IsScript(q.script, q.x, q.y, e + 1, s, t)
<1> DEFINE v == Rounds(s, t)[d]
           w == From(s, t, d, k)
           z == w - k
           n == Snake(s, t, w, z)
           x == p.x
           y == p.y
           prevK == IF Down(v, d, k) THEN k + 1 ELSE k - 1
           prevX == v[prevK]
           prevY == prevX - prevK
           eqls == IF x - prevX < y - prevY THEN x - prevX ELSE y - prevY
           diag == IF eqls > 0 THEN eqls ELSE 0
           back == [i \in 1..diag |-> Edit(x - i + 1, y - i + 1, x - i, y - i)]
           edit == IF d > 0 THEN <<Edit(x - diag, y - diag, prevX, prevY)>> ELSE <<>>
           q == StepBack(p, v, d)
<1>0. Len(s) \in Nat /\ Len(t) \in Nat /\ d \in Nat /\ k \in Int /\ -d <= k /\ k <= d
  BY LenProperties, DiagSteps
<1>1. /\ n \in Nat /\ w \in Nat /\ z \in Nat
      /\ x = w + n /\ y = z + n
      /\ IsScript(p.script \o [i \in 1..n |-> Edit(x - i + 1, y - i + 1, x - i, y - i)],
                  w, z, e, s, t)
  BY BackAlong
<1>2. x - y = k
  BY <1>0, <1>1
<1>3. q = [x |-> prevX, y |-> prevY, script |-> p.script \o back \o edit]
  BY <1>2 DEF StepBack
<1>4. q.x = prevX /\ q.y = prevY /\ q.script = p.script \o back \o edit
  <2> HIDE DEF q, prevX, prevY, back, edit
  <2> QED BY <1>3
<1>5. diag = n => IsScript(p.script \o back, w, z, e, s, t)
  <2> HIDE DEF n, w, z, x, y, diag
  <2> QED BY <1>1
<1>6. CASE d = 0
  <2>1. k = 0 /\ k = -d /\ Diag(0) = {0}
    <3>1. -d \in Int /\ (d = 0 => -d >= 0)
      BY <1>0
    <3> QED BY <3>1, <1>0, <1>6, FirstDiag
  <2>2. w = 0 /\ z = 0
    BY <1>6, <2>1 DEF From
  <2>3. Down(v, d, k)
    BY <2>1, Zenon DEF Down
  <2>4. prevK = 1
    BY <2>1, <2>3
  <2>5. prevX = 0
    <3>1. 1 \in DOMAIN Start(s, t) /\ 1 \notin Diag(0) /\ Start(s, t)[1] = 0
      BY <1>0, <2>1 DEF Start
    <3>2. v = Round(s, t, Start(s, t), 0)
      BY <1>6, RoundOf
    <3>3. v[1] = 0
      BY <3>1, <3>2 DEF Round, Diag
    <3> QED BY <3>3, <2>4
  <2>6. prevY = -1
    BY <2>4, <2>5
  <2>7. diag = n
    <3> HIDE DEF prevX, prevY, n, w, z, x, y
    <3>1. x = n /\ y = n
      BY <1>1, <2>2
    <3> QED BY <3>1, <2>5, <2>6, <1>1
  <2>8. edit = <<>>
    BY <1>6
  <2>9. q.script = p.script \o back
    <3>1. p.script \o back \in Seq(EditSet)
      BY <1>5, <2>7 DEF IsScript
    <3> HIDE DEF back, edit, q
    <3> QED BY <3>1, <2>8, <1>4, ConcatEmptySeq
  <2> HIDE DEF q, w, z, back
  <2> QED BY <1>5, <1>6, <2>2, <2>7, <2>9 DEF q
<1>7. CASE d # 0
  <2>0. d \in 1..(Len(s) + Len(t)) /\ d - 1 \in 0..(Len(s) + Len(t)) /\ d > 0
    BY <1>0, <1>7
  <2>1. Down(v, d, k) <=> Down(Rounds(s, t)[d - 1], d, k)
    BY <2>0, SameDown
  <2>2. /\ prevK \in Diag(d - 1) /\ prevK \in -(Len(s) + Len(t))..(Len(s) + Len(t))
        /\ prevK \notin Diag(d)
    <3>1. d <= Len(s) + Len(t)
      BY <2>0
    <3>2. CASE Down(v, d, k)
      <4>1. k # d
        BY <3>2, <1>0, <2>0 DEF Down
      <4>2. k + 1 \in Diag(d - 1) /\ k + 1 \notin Diag(d)
        BY <4>1, <1>0, DiagSteps
      <4>3. k + 1 \in -(Len(s) + Len(t))..(Len(s) + Len(t))
        BY <4>1, <3>1, <1>0
      <4> QED BY <4>2, <4>3, <3>2
    <3>3. CASE ~Down(v, d, k)
      <4>1. k # -d
        BY <3>3, Zenon DEF Down
      <4>2. k - 1 \in Diag(d - 1) /\ k - 1 \notin Diag(d)
        BY <4>1, <1>0, DiagSteps
      <4>3. k - 1 \in -(Len(s) + Len(t))..(Len(s) + Len(t))
        BY <4>1, <3>1, <1>0
      <4> QED BY <4>2, <4>3, <3>3
    <3> QED BY <3>2, <3>3
  <2>3. prevX = Far(s, t, d - 1, prevK)
    <3> HIDE DEF prevK
    <3> QED BY <2>0, <2>2, RoundKeeps
  <2>4. prevX \in Nat /\ prevY \in Nat
    <3> HIDE DEF prevK
    <3> QED BY <2>0, <2>2, <2>3, FarType
  <2>5. \/ Down(v, d, k) /\ w = prevX /\ z = prevY + 1
        \/ ~Down(v, d, k) /\ w = prevX + 1 /\ z = prevY
    <3>1. w = IF Down(v, d, k) THEN Far(s, t, d - 1, k + 1) ELSE Far(s, t, d - 1, k - 1) + 1
      BY <1>7, <2>1 DEF From
    <3>2. CASE Down(v, d, k)
      <4>1. prevK = k + 1 /\ w = prevX
        BY <3>1, <3>2, <2>3
      <4>2. prevY = prevX - (k + 1) /\ z = prevX - k
        BY <4>1
      <4> HIDE DEF prevX, prevY, w, z
      <4> QED BY <4>1, <4>2, <3>2, <2>4, <1>0
    <3>3. CASE ~Down(v, d, k)
      <4>1. prevK = k - 1 /\ w = prevX + 1
        BY <3>1, <3>3, <2>3
      <4>2. prevY = prevX - (k - 1) /\ z = (prevX + 1) - k
        <5> HIDE DEF prevK, prevX, w
        <5> QED BY <4>1
      <4> HIDE DEF prevX, prevY, w, z
      <4>3. z = prevY
        BY <4>2, <2>4, <1>0
      <4> QED BY <4>1, <4>3, <3>3
    <3> QED BY <3>2, <3>3
  <2>6. diag = n
    <3>1. eqls = n
      <4>1. \/ w = prevX /\ z = prevY + 1
            \/ w = prevX + 1 /\ z = prevY
        BY <2>5
      <4> HIDE DEF prevX, prevY, n, w, z, x, y
      <4> QED BY <4>1, <2>4, <1>1
    <3> HIDE DEF eqls, n
    <3> QED BY <3>1, <1>1
  <2> DEFINE f == Edit(w, z, prevX, prevY)
  <2>7. /\ f \in EditSet /\ f.i = prevX /\ f.j = prevY /\ f.type # "eql"
        /\ Behind(f) = <<w, z>>
    <3>1. \/ w = prevX /\ z = prevY + 1
          \/ w = prevX + 1 /\ z = prevY
      BY <2>5
    <3> HIDE DEF prevX, prevY, w, z
    <3>2. f = [type |-> IF w = prevX THEN "ins" ELSE "del", i |-> prevX, j |-> prevY]
      BY <3>1, <2>4 DEF Edit
    <3>3. f \in EditSet
      BY <3>2, <2>4 DEF EditSet
    <3>4. f.i = prevX /\ f.j = prevY /\ f.type = IF w = prevX THEN "ins" ELSE "del"
      <4> HIDE DEF f
      <4> QED BY <3>2
    <3> HIDE DEF f
    <3>5. Behind(f) = <<w, z>>
      BY <3>1, <3>4, <2>4 DEF Behind
    <3> QED BY <3>3, <3>4, <3>5
  <2>8. edit = <<f>>
    <3>1. x - diag = w /\ y - diag = z
      <4> HIDE DEF x, y, diag, w, z, n
      <4> QED BY <2>6, <1>1
    <3> HIDE DEF x, y, diag, w, z, prevX, prevY
    <3> QED BY <3>1, <2>0
  <2>9. IsScript(p.script \o back, w, z, e, s, t)
    BY <1>5, <2>6
  <2>10. q.script = Append(p.script \o back, f)
    <3>1. p.script \o back \in Seq(EditSet)
      BY <2>9 DEF IsScript
    <3> HIDE DEF back, edit, q, f
    <3> QED BY <3>1, <2>7, <2>8, <1>4, AppendIsConcat
  <2>11. w \in 0..Len(s) /\ z \in 0..Len(t) /\ prevX <= Len(s) /\ prevY <= Len(t)
    <3>1. w + n <= Len(s) /\ z + n <= Len(t)
      BY <1>1
    <3>2. prevX <= w /\ prevY <= z
      <4> HIDE DEF prevX, prevY, w, z
      <4> QED BY <2>5, <2>4
    <3> HIDE DEF prevX, prevY, w, z, n
    <3> QED BY <3>1, <3>2, <1>0, <1>1, <2>4
  <2>12. IsScript(q.script, prevX, prevY, e + 1, s, t)
    <3> DEFINE so == p.script \o back
    <3>1. IsScript(so, w, z, e, s, t)
      BY <2>9
    <3> HIDE DEF so, f, w, z, prevX, prevY
    <3>2. IsScript(Append(so, f), f.i, f.j, e + 1, s, t)
      BY <3>1, <2>7, <2>11, AppendEdit
    <3> QED BY <3>2, <2>7, <2>10 DEF so
  <2>13. q.x = Far(s, t, d - 1, prevK) /\ q.y = q.x - prevK
    BY <1>4, <2>3
  <2> HIDE DEF q, prevX, prevY, prevK
  <2> QED BY <1>4, <1>7, <2>2, <2>11, <2>12, <2>13 DEF q
<1> QED BY <1>6, <1>7

-----------------------------------------------------------------------------
(* The walk back *)

AreBack(f, s, t, trace, m) ==
    f = [n \in 0..m |->
            IF n = 0 THEN [x |-> Len(s), y |-> Len(t), script |-> <<>>]
            ELSE StepBack(f[n - 1], trace[Len(trace) + 1 - n], Len(trace) - n)]

\* The steps back can be computed one after the other.
LEMMA BackExists ==
    ASSUME NEW s, NEW t, NEW trace, NEW k \in Nat
    PROVE  \E f : AreBack(f, s, t, trace, k)
<1> DEFINE Bad == {n \in Nat : ~\E f : AreBack(f, s, t, trace, n)}
           start == [x |-> Len(s), y |-> Len(t), script |-> <<>>]
           Step(p, n) == StepBack(p, trace[Len(trace) + 1 - n], Len(trace) - n)
<1>1. SUFFICES ASSUME Bad # {} PROVE FALSE
  OBVIOUS
<1>2. PICK n \in Bad : \A m \in Bad : n <= m
  BY <1>1, SmallestIn
<1>3. CASE n = 0
  <2> DEFINE f == [m \in 0..0 |-> start]
  <2>1. AreBack(f, s, t, trace, 0)
    <3>1. f = [m \in 0..0 |-> IF m = 0 THEN start ELSE Step(f[m - 1], m)]
      <4> HIDE DEF start, Step
      <4> QED OBVIOUS
    <3> QED BY <3>1 DEF AreBack
  <2> QED BY <2>1, <1>2, <1>3
<1>4. CASE n # 0
  <2>1. n - 1 \in Nat /\ n - 1 \notin Bad
    BY <1>2, <1>4
  <2>2. PICK f : AreBack(f, s, t, trace, n - 1)
    BY <2>1
  <2> DEFINE g == [m \in 0..n |-> IF m < n THEN f[m] ELSE Step(f[n - 1], n)]
  <2>5. f = [m \in 0..(n - 1) |-> IF m = 0 THEN start ELSE Step(f[m - 1], m)]
    BY <2>2 DEF AreBack
  <2>3. ASSUME NEW m \in 0..n
        PROVE  g[m] = IF m = 0 THEN start ELSE Step(g[m - 1], m)
    <3> HIDE DEF start, Step
    <3>1. CASE m = n
      BY <3>1, <2>1, <1>4
    <3>2. CASE m # n
      <4>1. m \in 0..(n - 1) /\ m < n /\ (m # 0 => m - 1 \in 0..n /\ m - 1 < n)
        BY <3>2, <2>1
      <4>2. f[m] = IF m = 0 THEN start ELSE Step(f[m - 1], m)
        BY <4>1, <2>5
      <4>3. g[m] = f[m] /\ (m # 0 => g[m - 1] = f[m - 1])
        BY <4>1
      <4> HIDE DEF g
      <4> QED BY <4>2, <4>3
    <3> QED BY <3>1, <3>2
  <2>4. AreBack(g, s, t, trace, n)
    <3>1. g = [m \in 0..n |-> IF m = 0 THEN start ELSE Step(g[m - 1], m)]
      <4> DEFINE h == [m \in 0..n |-> IF m = 0 THEN start ELSE Step(g[m - 1], m)]
      <4>1. \A m \in 0..n : g[m] = h[m]
        <5> HIDE DEF start, Step
        <5> QED BY <2>3
      <4>2. DOMAIN g = 0..n /\ DOMAIN h = 0..n /\ g = [m \in 0..n |-> g[m]] /\ h = [m \in 0..n |-> h[m]]
        <5> HIDE DEF start, Step
        <5> QED OBVIOUS
      <4> HIDE DEF g, h
      <4>3. g = h
        BY <4>1, <4>2
      <4> QED BY <4>3 DEF h
    <3> HIDE DEF g
    <3> QED BY <3>1 DEF AreBack
  <2> QED BY <2>4, <1>2
<1> QED BY <1>3, <1>4

LEMMA BackUnfold ==
    ASSUME NEW s, NEW t, NEW trace, Len(trace) \in Nat
    PROVE  \E f : AreBack(f, s, t, trace, Len(trace)) /\ Backtrack(s, t, trace) = f[Len(trace)]
<1>1. PICK f : AreBack(f, s, t, trace, Len(trace))
  BY BackExists
<1> DEFINE back == CHOOSE g :
                g = [n \in 0..Len(trace) |->
                        IF n = 0 THEN [x |-> Len(s), y |-> Len(t), script |-> <<>>]
                        ELSE StepBack(g[n - 1], trace[Len(trace) + 1 - n], Len(trace) - n)]
<1>2. AreBack(back, s, t, trace, Len(trace))
  BY <1>1, Zenon DEF AreBack
<1>3. Backtrack(s, t, trace) = back[Len(trace)]
  BY Zenon DEF Backtrack
<1> HIDE DEF back
<1> QED BY <1>2, <1>3

\* Diff leads from the start of both files to their ends, with the fewest edits.
LEMMA ScriptOfDiff ==
    ASSUME NEW L, NEW s \in Seq(L), NEW t \in Seq(L), Len(s) + Len(t) > 0
    PROVE  \E d \in 0..(Len(s) + Len(t)) :
                /\ IsScript(Diff(s, t), 0, 0, d, s, t)
                /\ \A P \in Matchings(s, t) : Len(s) + Len(t) - 2 * Cardinality(P) >= d
<1>0. Len(s) \in Nat /\ Len(t) \in Nat
  BY LenProperties
<1>11. PICK d \in 0..(Len(s) + Len(t)) : SearchEndsIn(s, t, d)
  BY SearchEnds
<1>1. /\ Len(s) - Len(t) \in Diag(d)
      /\ Far(s, t, d, Len(s) - Len(t)) = Len(s)
      /\ \A P \in Matchings(s, t) : Len(s) + Len(t) - 2 * Cardinality(P) >= d
      /\ GetShortestPath(s, t) = [n \in 1..(d + 1) |-> Rounds(s, t)[n - 1]]
  BY <1>11 DEF SearchEndsIn
<1> DEFINE trace == GetShortestPath(s, t)
<1>2. d \in Nat /\ Len(trace) = d + 1 /\ Len(trace) \in Nat
  BY <1>0, <1>1
<1>3. PICK f : AreBack(f, s, t, trace, Len(trace)) /\ Backtrack(s, t, trace) = f[Len(trace)]
  BY <1>2, BackUnfold
<1>4. ASSUME NEW n \in 1..(d + 1)
      PROVE  f[n] = StepBack(f[n - 1], Rounds(s, t)[d + 1 - n], d + 1 - n)
  <2>1. f = [m \in 0..(d + 1) |->
                IF m = 0 THEN [x |-> Len(s), y |-> Len(t), script |-> <<>>]
                ELSE StepBack(f[m - 1], trace[d + 1 + 1 - m], d + 1 - m)]
    <3> HIDE DEF trace
    <3> QED BY <1>2, <1>3 DEF AreBack
  <2>2. n \in 0..(d + 1) /\ n # 0
    BY <1>2
  <2>3. f[n] = StepBack(f[n - 1], trace[d + 1 + 1 - n], d + 1 - n)
    <3> HIDE DEF trace
    <3> QED BY <2>1, <2>2
  <2>4. trace[d + 1 + 1 - n] = Rounds(s, t)[d + 1 - n]
    <3> DEFINE m == d + 1 + 1 - n
    <3>1. m \in 1..(d + 1) /\ m - 1 = d + 1 - n
      BY <1>2
    <3> HIDE DEF m
    <3>2. trace[m] = Rounds(s, t)[m - 1]
      BY <3>1, <1>1
    <3> QED BY <3>1, <3>2 DEF m
  <2> QED BY <2>3, <2>4
<1>5. f[0] = [x |-> Len(s), y |-> Len(t), script |-> <<>>]
  <2> HIDE DEF trace
  <2> QED BY <1>2, <1>3 DEF AreBack
<1> DEFINE At(p, n) == \E k \in Diag(d - n) :
                          /\ p.x = Far(s, t, d - n, k) /\ p.y = p.x - k
                          /\ p.x <= Len(s) /\ p.y <= Len(t)
                          /\ IsScript(p.script, p.x, p.y, n, s, t)
           Bad == {n \in 0..d : ~At(f[n], n)}
<1>6. At(f[0], 0)
  <2> DEFINE k == Len(s) - Len(t)
             p == f[0]
  <2>1. d - 0 = d /\ Len(s) - k = Len(t)
    BY <1>0, <1>2
  <2>2. p.x = Len(s) /\ p.y = Len(t) /\ p.script = <<>>
    BY <1>5
  <2>3. k \in Diag(d) /\ p.x = Far(s, t, d, k)
    BY <1>1, <2>2
  <2>4. p.y = p.x - k /\ p.x <= Len(s) /\ p.y <= Len(t)
    <3> HIDE DEF p, k
    <3> QED BY <2>1, <2>2, <1>0
  <2>5. IsScript(p.script, p.x, p.y, 0, s, t)
    <3> HIDE DEF p
    <3> QED BY <2>2, EmptyScript
  <2>6. At(p, 0)
    <3> HIDE DEF p, k
    <3> QED BY <2>1, <2>3, <2>4, <2>5
  <2> HIDE DEF At
  <2> QED BY <2>6
<1>7. ASSUME NEW n \in 1..d, At(f[n - 1], n - 1)
      PROVE  At(f[n], n)
  <2> DEFINE c == d - (n - 1)
             e == n - 1
             p == f[n - 1]
  <2>1. /\ c \in 0..(Len(s) + Len(t)) /\ c # 0 /\ e \in Nat
        /\ c - 1 = d - n /\ e + 1 = n /\ d + 1 - n = c /\ n \in 1..(d + 1)
    BY <1>0, <1>2
  <2>2. PICK k \in Diag(c) : /\ p.x = Far(s, t, c, k) /\ p.y = p.x - k
                             /\ p.x <= Len(s) /\ p.y <= Len(t)
                             /\ IsScript(p.script, p.x, p.y, e, s, t)
    BY <1>7
  <2> DEFINE q == StepBack(p, Rounds(s, t)[c], c)
  <2>3. f[n] = q
    BY <2>1, <1>4
  <2>4. \E j \in Diag(c - 1) :
            /\ q.x = Far(s, t, c - 1, j) /\ q.y = q.x - j
            /\ q.x <= Len(s) /\ q.y <= Len(t)
            /\ IsScript(q.script, q.x, q.y, e + 1, s, t)
    <3> HIDE DEF c, e, p
    <3> QED BY <2>1, <2>2, StepBackFacts
  <2>5. \E j \in Diag(d - n) :
            /\ q.x = Far(s, t, d - n, j) /\ q.y = q.x - j
            /\ q.x <= Len(s) /\ q.y <= Len(t)
            /\ IsScript(q.script, q.x, q.y, n, s, t)
    <3> HIDE DEF q, c, e
    <3> QED BY <2>1, <2>4
  <2> HIDE DEF q
  <2> QED BY <2>3, <2>5
<1>8. At(f[d], d)
  <2>1. Bad = {}
    <3>1. SUFFICES ASSUME Bad # {} PROVE FALSE
      OBVIOUS
    <3>2. PICK m \in Bad : \A c \in Bad : m <= c
      <4>1. Bad \subseteq Nat
        OBVIOUS
      <4> HIDE DEF Bad
      <4> QED BY <3>1, <4>1, SmallestIn
    <3> HIDE DEF At
    <3>3. m # 0 /\ m \in 0..d /\ ~At(f[m], m)
      BY <1>6, <3>2
    <3>4. m - 1 \in 0..d /\ m \in 1..d /\ m - 1 \notin Bad
      BY <3>2, <3>3
    <3>5. At(f[m - 1], m - 1)
      BY <3>4
    <3> QED BY <3>3, <3>4, <3>5, <1>7
  <2> HIDE DEF At
  <2> QED BY <1>2, <2>1
<1>9. IsScript(f[d + 1].script, 0, 0, d, s, t)
  <2>1. d - d = 0 /\ d + 1 - (d + 1) = 0 /\ (d + 1) - 1 = d /\ d + 1 \in 1..(d + 1)
        /\ 0 \in 0..(Len(s) + Len(t))
    BY <1>0, <1>2
  <2>2. PICK k \in Diag(0) : /\ f[d].x = Far(s, t, 0, k) /\ f[d].y = f[d].x - k
                             /\ f[d].x <= Len(s) /\ f[d].y <= Len(t)
                             /\ IsScript(f[d].script, f[d].x, f[d].y, d, s, t)
    BY <2>1, <1>8
  <2>3. f[d + 1] = StepBack(f[d], Rounds(s, t)[0], 0)
    <3>1. f[d + 1] = StepBack(f[(d + 1) - 1], Rounds(s, t)[d + 1 - (d + 1)], d + 1 - (d + 1))
      BY <2>1, <1>4
    <3> QED BY <3>1, <2>1
  <2> DEFINE p == f[d]
             z == 0
  <2>4. /\ p.x = Far(s, t, z, k) /\ p.y = p.x - k
        /\ p.x <= Len(s) /\ p.y <= Len(t)
        /\ IsScript(p.script, p.x, p.y, d, s, t)
        /\ k \in Diag(z) /\ z \in 0..(Len(s) + Len(t)) /\ z = 0
    BY <2>1, <2>2
  <2> HIDE DEF p, z
  <2>5. IsScript(StepBack(p, Rounds(s, t)[z], z).script, 0, 0, d, s, t)
    BY <2>4, <1>2, StepBackFacts
  <2> QED BY <2>3, <2>5 DEF p, z
<1>10. Diff(s, t) = f[d + 1].script
  BY <1>2, <1>3 DEF Diff
<1> QED BY <1>1, <1>9, <1>10

-----------------------------------------------------------------------------
(* What the diff matches *)

\* A pairing of equal lines, and none is larger.
Best(M, s, t) ==
    /\ M \in Matchings(s, t)
    /\ \A P \in Matchings(s, t) : Cardinality(P) <= Cardinality(M)

LEMMA DiffFacts ==
    ASSUME NEW L, NEW s \in Seq(L), NEW t \in Seq(L), Len(s) + Len(t) > 0
    PROVE  /\ Transforms(Diff(s, t), s, t)
           /\ Shortest(Diff(s, t), s, t)
           /\ Best(getMatches(Diff(s, t)), s, t)
<1> DEFINE script == Diff(s, t)
           M == getMatches(script)
           At == {n \in DOMAIN script : script[n].type = "eql"}
<1>0. Len(s) \in Nat /\ Len(t) \in Nat
  BY LenProperties
<1>1. PICK d \in 0..(Len(s) + Len(t)) :
            /\ IsScript(script, 0, 0, d, s, t)
            /\ \A P \in Matchings(s, t) : Len(s) + Len(t) - 2 * Cardinality(P) >= d
  <2> HIDE DEF script
  <2> QED BY ScriptOfDiff DEF script
<1> HIDE DEF script
<1>2. /\ script \in Seq(EditSet)
      /\ script = <<>> => 0 = Len(s) /\ 0 = Len(t)
      /\ script # <<>> => /\ Behind(script[1]) = <<Len(s), Len(t)>>
                          /\ script[Len(script)].i = 0
                          /\ script[Len(script)].j = 0
      /\ \A m \in 1..(Len(script) - 1) : Behind(script[m + 1]) = <<script[m].i, script[m].j>>
      /\ \A m \in 1..Len(script) :
            script[m].type = "eql" => s[script[m].i + 1] = t[script[m].j + 1]
      /\ M \in Matchings(s, t)
      /\ Cardinality(At) = Cardinality(M)
      /\ 2 * Cardinality(M) = (Len(s) - 0) + (Len(t) - 0) - d
  BY <1>1 DEF IsScript
<1>3. script # <<>> /\ Len(script) \in Nat /\ Len(script) > 0 /\ DOMAIN script = 1..Len(script)
  <2>1. script # <<>>
    BY <1>0, <1>2
  <2>2. Len(script) \in Nat /\ DOMAIN script = 1..Len(script)
    BY <1>2, LenProperties
  <2> QED BY <2>1, <2>2, <1>2, EmptySeq
<1>4. Cardinality(M) \in Nat
  BY <1>2, MatchingFacts
<1>5. ASSUME NEW P \in Matchings(s, t) PROVE Cardinality(P) <= Cardinality(M)
  <2>1. Cardinality(P) \in Nat
    BY MatchingFacts
  <2> DEFINE c == Cardinality(P)
             m == Cardinality(M)
             n1 == Len(s)
             n2 == Len(t)
  <2>2. /\ c \in Nat /\ m \in Nat /\ n1 \in Nat /\ n2 \in Nat /\ d \in Nat
        /\ n1 + n2 - 2 * c >= d /\ 2 * m = (n1 - 0) + (n2 - 0) - d
    BY <2>1, <1>0, <1>1, <1>2, <1>4
  <2> HIDE DEF c, m, n1, n2
  <2>3. c <= m
    BY <2>2
  <2> QED BY <2>3 DEF c, m
<1>6. Best(M, s, t)
  BY <1>2, <1>5 DEF Best
<1>7. Shortest(script, s, t)
  BY <1>2, <1>5 DEF Shortest
<1>8. Transforms(script, s, t)
  <2>1. \A e \in ToSet(script) : e.type = "eql" => s[e.i + 1] = t[e.j + 1]
    BY <1>2, <1>3, SMTT(30) DEF ToSet
  <2> QED BY <2>1, <1>2, <1>3 DEF Transforms
<1> QED BY <1>6, <1>7, <1>8 DEF script

\* What the merge takes from a diff; two empty files have no lines to pair.
LEMMA DiffLinesAreBest ==
    ASSUME NEW L, NEW s \in Seq(L), NEW t \in Seq(L)
    PROVE  Best(DiffLines(s, t), s, t)
<1>0. Len(s) \in Nat /\ Len(t) \in Nat
  BY LenProperties
<1>1. CASE DiffPanics(s, t)
  <2>1. Len(s) = 0 /\ DiffLines(s, t) = {}
    BY <1>1, EmptySeq DEF DiffPanics, DiffLines
  <2>2. {} \in Matchings(s, t)
    BY DEF Matchings
  <2>3. ASSUME NEW P \in Matchings(s, t) PROVE P = {}
    <3>1. \A m \in P : m[1] \in Nat /\ m[1] < Len(s)
      BY MatchingFacts
    <3> QED BY <3>1, <2>1
  <2>4. Cardinality({}) = 0
    BY FS_EmptySet
  <2>5. \A P \in Matchings(s, t) : Cardinality(P) <= Cardinality({})
    <3> SUFFICES ASSUME NEW P \in Matchings(s, t) PROVE Cardinality(P) <= Cardinality({})
      OBVIOUS
    <3>1. P = {}
      BY <2>3
    <3> QED BY <3>1, <2>4
  <2> QED BY <2>1, <2>2, <2>5 DEF Best
<1>2. CASE ~DiffPanics(s, t)
  <2>1. Len(s) + Len(t) > 0
    BY <1>0, <1>2, EmptySeq DEF DiffPanics
  <2>2. Best(getMatches(Diff(s, t)), s, t)
    BY <2>1, DiffFacts
  <2> QED BY <2>2, <1>2 DEF DiffLines
<1> QED BY <1>1, <1>2

-----------------------------------------------------------------------------
(* The lines of the output *)

AreFlat(f, ss, n) ==
    f = [i \in 1..n |-> IF i = 1 THEN ss[i] ELSE f[i - 1] \o ss[i]]

LEMMA FlatExists ==
    ASSUME NEW ss, NEW k \in Nat
    PROVE  \E f : AreFlat(f, ss, k)
<1> DEFINE Bad == {n \in Nat : ~\E f : AreFlat(f, ss, n)}
<1>1. SUFFICES ASSUME Bad # {} PROVE FALSE
  OBVIOUS
<1>2. PICK n \in Bad : \A m \in Bad : n <= m
  BY <1>1, SmallestIn
<1>3. CASE n = 0
  <2> DEFINE f == [i \in 1..0 |-> ss[i]]
  <2>1. f = [i \in 1..0 |-> IF i = 1 THEN ss[i] ELSE f[i - 1] \o ss[i]]
    OBVIOUS
  <2>2. AreFlat(f, ss, 0)
    BY <2>1 DEF AreFlat
  <2> QED BY <2>2, <1>2, <1>3
<1>4. CASE n # 0
  <2>1. n - 1 \in Nat /\ n - 1 \notin Bad
    BY <1>2, <1>4
  <2>2. PICK f : AreFlat(f, ss, n - 1)
    BY <2>1
  <2>5. f = [i \in 1..(n - 1) |-> IF i = 1 THEN ss[i] ELSE f[i - 1] \o ss[i]]
    BY <2>2 DEF AreFlat
  <2> DEFINE g == [i \in 1..n |->
                    IF i < n THEN f[i] ELSE IF i = 1 THEN ss[i] ELSE f[i - 1] \o ss[i]]
  <2>3. ASSUME NEW i \in 1..n
        PROVE  g[i] = IF i = 1 THEN ss[i] ELSE g[i - 1] \o ss[i]
    <3>1. i # 1 => i - 1 \in 1..n /\ i - 1 < n /\ g[i - 1] = f[i - 1]
      BY <2>1
    <3>2. CASE i = n
      <4>1. g[i] = IF i = 1 THEN ss[i] ELSE f[i - 1] \o ss[i]
        BY <3>2
      <4> HIDE DEF g
      <4> QED BY <4>1, <3>1
    <3>3. CASE i # n
      <4>1. i < n /\ i \in 1..(n - 1) /\ g[i] = f[i]
        BY <3>3, <2>1
      <4> HIDE DEF g
      <4>2. f[i] = IF i = 1 THEN ss[i] ELSE f[i - 1] \o ss[i]
        BY <4>1, <2>5
      <4> QED BY <4>1, <4>2, <3>1
    <3> QED BY <3>2, <3>3
  <2>4. AreFlat(g, ss, n)
    <3> DEFINE h == [i \in 1..n |-> IF i = 1 THEN ss[i] ELSE g[i - 1] \o ss[i]]
    <3>1. \A i \in 1..n : g[i] = h[i]
      BY <2>3
    <3>2. g = [i \in 1..n |-> g[i]] /\ h = [i \in 1..n |-> h[i]]
      OBVIOUS
    <3>3. g = h
      <4> HIDE DEF g, h
      <4> QED BY <3>1, <3>2
    <3> HIDE DEF g
    <3> QED BY <3>3 DEF AreFlat
  <2> QED BY <2>4, <1>2
<1> QED BY <1>3, <1>4

LEMMA FlatUnfold ==
    ASSUME NEW ss, Len(ss) \in Nat, Len(ss) # 0
    PROVE  \E f : AreFlat(f, ss, Len(ss)) /\ FlattenSeq(ss) = f[Len(ss)]
<1>1. PICK f : AreFlat(f, ss, Len(ss))
  BY FlatExists
<1> DEFINE flatten == CHOOSE g :
                g = [i \in 1..Len(ss) |-> IF i = 1 THEN ss[i] ELSE g[i - 1] \o ss[i]]
<1>2. AreFlat(flatten, ss, Len(ss))
  BY <1>1, Zenon DEF AreFlat
<1>3. FlattenSeq(ss) = flatten[Len(ss)]
  BY Zenon DEF FlattenSeq
<1> HIDE DEF flatten
<1> QED BY <1>2, <1>3

\* One block more adds its lines at the end.
LEMMA FlattenAppend ==
    ASSUME NEW L, NEW ss \in Seq(Seq(L)), NEW w \in Seq(L), FlattenSeq(ss) \in Seq(L)
    PROVE  FlattenSeq(Append(ss, w)) = FlattenSeq(ss) \o w
<1> DEFINE n == Len(ss)
           more == Append(ss, w)
<1>1. /\ n \in Nat /\ more \in Seq(Seq(L)) /\ Len(more) = n + 1
      /\ \A i \in 1..n : more[i] = ss[i]
      /\ more[n + 1] = w
  BY LenProperties, AppendProperties
<1> HIDE DEF more
<1>2. PICK g : AreFlat(g, more, n + 1) /\ FlattenSeq(more) = g[n + 1]
  <2>1. Len(more) \in Nat /\ Len(more) # 0
    BY <1>1
  <2> QED BY <2>1, <1>1, FlatUnfold
<1>3. g = [i \in 1..(n + 1) |-> IF i = 1 THEN more[i] ELSE g[i - 1] \o more[i]]
  BY <1>2 DEF AreFlat
<1>4. CASE n = 0
  <2>1. ss = <<>> /\ FlattenSeq(ss) = <<>>
    <3>1. ss = <<>>
      BY <1>4, EmptySeq
    <3> QED BY <3>1, <1>4 DEF FlattenSeq
  <2>2. g[n + 1] = w
    BY <1>1, <1>3, <1>4
  <2>3. <<>> \o w = w
    BY ConcatEmptySeq
  <2> QED BY <1>2, <2>1, <2>2, <2>3 DEF more
<1>5. CASE n # 0
  <2>1. PICK f : AreFlat(f, ss, n) /\ FlattenSeq(ss) = f[n]
    BY <1>1, <1>5, FlatUnfold
  <2>2. f = [i \in 1..n |-> IF i = 1 THEN ss[i] ELSE f[i - 1] \o ss[i]]
    BY <2>1 DEF AreFlat
  <2> DEFINE Bad == {i \in 1..n : g[i] # f[i]}
  <2> HIDE DEF n
  <2>3. Bad = {}
    <3>1. SUFFICES ASSUME Bad # {} PROVE FALSE
      OBVIOUS
    <3>2. PICK i \in Bad : \A c \in Bad : i <= c
      <4>1. Bad \subseteq Nat
        OBVIOUS
      <4> HIDE DEF Bad
      <4> QED BY <3>1, <4>1, SmallestIn
    <3>3. i \in 1..n /\ i \in 1..(n + 1) /\ g[i] # f[i]
      BY <3>2, <1>1
    <3>4. f[i] = IF i = 1 THEN ss[i] ELSE f[i - 1] \o ss[i]
      BY <3>3, <2>2
    <3>5. g[i] = IF i = 1 THEN ss[i] ELSE g[i - 1] \o ss[i]
      BY <3>3, <1>1, <1>3
    <3>6. i # 1 => i - 1 \in 1..n /\ i - 1 \notin Bad
      <4>1. i \in Int /\ (i # 1 => i - 1 \in 1..n)
        BY <3>3, <1>1
      <4> HIDE DEF Bad
      <4> QED BY <4>1, <3>2
    <3>7. i # 1 => g[i - 1] = f[i - 1]
      BY <3>6
    <3> HIDE DEF Bad
    <3> QED BY <3>3, <3>4, <3>5, <3>7
  <2>4. g[n] = f[n]
    <3>1. n \in 1..n
      BY <1>1, <1>5
    <3> QED BY <3>1, <2>3
  <2>5. g[n + 1] = g[n] \o w
    <3>1. n + 1 \in 1..(n + 1) /\ n + 1 # 1 /\ (n + 1) - 1 = n
      BY <1>1, <1>5
    <3> QED BY <3>1, <1>1, <1>3
  <2> QED BY <1>2, <2>1, <2>4, <2>5 DEF more
<1> QED BY <1>4, <1>5

-----------------------------------------------------------------------------
(* Cuts through a pairing *)

\* The pairs lie before both lines or behind both.
Cut(M, x, y) == \A m \in M : m[1] < x <=> m[2] < y

\* The n lines from x and from y on are all in the pairing.
AllPaired(M, x, y, n) ==
    /\ \A i \in x..(x + n - 1) : \E m \in M : m[1] = i
    /\ \A j \in y..(y + n - 1) : \E m \in M : m[2] = j

\* Where blocks between two cuts are equal, a largest pairing pairs all their
\* lines: otherwise pairing them one by one would be larger.
LEMMA EqualBlock ==
    ASSUME NEW L, NEW s \in Seq(L), NEW t \in Seq(L), NEW M, Best(M, s, t),
           NEW x \in Nat, NEW y \in Nat, NEW n \in Nat,
           x + n <= Len(s), y + n <= Len(t), \A i \in 1..n : s[x + i] = t[y + i],
           Cut(M, x, y), Cut(M, x + n, y + n)
    PROVE  AllPaired(M, x, y, n)
<1> DEFINE In == {m \in M : m[1] >= x /\ m[1] < x + n}
           Out == M \ In
           D == {<<x + i - 1, y + i - 1>> : i \in 1..n}
           other == Out \cup D
<1>0. Len(s) \in Nat /\ Len(t) \in Nat
  BY LenProperties
<1>1. /\ M \in Matchings(s, t)
      /\ \A P \in Matchings(s, t) : Cardinality(P) <= Cardinality(M)
  BY DEF Best
<1>2. IsFiniteSet(M) /\ Cardinality(M) \in Nat
  BY <1>1, MatchingFacts
<1>3. ASSUME NEW m \in M
      PROVE  /\ m = <<m[1], m[2]>>
             /\ m[1] \in Nat /\ m[1] < Len(s)
             /\ m[2] \in Nat /\ m[2] < Len(t)
             /\ s[m[1] + 1] = t[m[2] + 1]
  BY <1>1, MatchingFacts
<1>4. ASSUME NEW l \in M, NEW m \in M
      PROVE  (l[1] < m[1] <=> l[2] < m[2]) /\ (l[1] = m[1] <=> l[2] = m[2])
  BY <1>1, MatchingFacts
<1>5. \A m \in In : /\ m \in M
                    /\ m[1] \in x..(x + n - 1) /\ m[2] \in y..(y + n - 1)
  <2> SUFFICES ASSUME NEW m \in In
               PROVE  m \in M /\ m[1] \in x..(x + n - 1) /\ m[2] \in y..(y + n - 1)
    OBVIOUS
  <2>1. m \in M /\ m[1] >= x /\ m[1] < x + n
    OBVIOUS
  <2>2. ~(m[2] < y) /\ m[2] < y + n /\ m[1] \in Nat /\ m[2] \in Nat
    BY <2>1, <1>3 DEF Cut
  <2> QED BY <2>1, <2>2
<1>6. \A m \in Out : /\ m \in M
                     /\ \/ m[1] < x /\ m[2] < y
                        \/ m[1] >= x + n /\ m[2] >= y + n
  <2> SUFFICES ASSUME NEW m \in Out
               PROVE  m \in M /\ ((m[1] < x /\ m[2] < y) \/ (m[1] >= x + n /\ m[2] >= y + n))
    OBVIOUS
  <2>1. m \in M /\ m[1] \in Nat /\ m[2] \in Nat /\ ~(m[1] >= x /\ m[1] < x + n)
    BY <1>3
  <2>2. (m[1] < x <=> m[2] < y) /\ (m[1] < x + n <=> m[2] < y + n)
    BY <2>1 DEF Cut
  <2> QED BY <2>1, <2>2
<1>7. \A p \in D : \E i \in 1..n :
            p[1] = x + i - 1 /\ p[2] = y + i - 1
  <2> SUFFICES ASSUME NEW p \in D
               PROVE  \E i \in 1..n : p[1] = x + i - 1 /\ p[2] = y + i - 1
    OBVIOUS
  <2>1. PICK i \in 1..n : p = <<x + i - 1, y + i - 1>>
    OBVIOUS
  <2> QED BY <2>1
<1>8. other \in Matchings(s, t)
  <2>1. other \subseteq (0..(Len(s) - 1)) \X (0..(Len(t) - 1))
    <3>1. D \subseteq (0..(Len(s) - 1)) \X (0..(Len(t) - 1))
      <4> SUFFICES ASSUME NEW i \in 1..n
                   PROVE  <<x + i - 1, y + i - 1>> \in (0..(Len(s) - 1)) \X (0..(Len(t) - 1))
        OBVIOUS
      <4>1. x + i - 1 \in 0..(Len(s) - 1) /\ y + i - 1 \in 0..(Len(t) - 1)
        BY <1>0
      <4> QED BY <4>1
    <3> QED BY <3>1, <1>1 DEF Matchings
  <2>2. ASSUME NEW m \in other PROVE s[m[1] + 1] = t[m[2] + 1]
    <3>1. CASE m \in Out
      BY <3>1, <1>3
    <3>2. CASE m \in D
      <4>1. PICK i \in 1..n : m[1] = x + i - 1 /\ m[2] = y + i - 1
        BY <3>2, <1>7
      <4>2. m[1] + 1 = x + i /\ m[2] + 1 = y + i
        BY <4>1
      <4>3. s[x + i] = t[y + i]
        OBVIOUS
      <4> QED BY <4>2, <4>3
    <3> QED BY <3>1, <3>2
  <2>3. ASSUME NEW l \in other, NEW m \in other
        PROVE  l[1] < m[1] <=> l[2] < m[2]
    <3> HIDE DEF Out, D
    <3>1. CASE l \in Out /\ m \in Out
      BY <3>1, <1>4, <1>6
    <3>2. CASE l \in Out /\ m \in D
      <4>1. PICK i \in 1..n : m[1] = x + i - 1 /\ m[2] = y + i - 1
        BY <3>2, <1>7
      <4>2. l[1] \in Nat /\ l[2] \in Nat
        BY <3>2, <1>6, <1>3
      <4>3. (l[1] < x /\ l[2] < y) \/ (l[1] >= x + n /\ l[2] >= y + n)
        BY <3>2, <1>6
      <4> QED BY <4>1, <4>2, <4>3
    <3>3. CASE l \in D /\ m \in Out
      <4>1. PICK i \in 1..n : l[1] = x + i - 1 /\ l[2] = y + i - 1
        BY <3>3, <1>7
      <4>2. m[1] \in Nat /\ m[2] \in Nat
        BY <3>3, <1>6, <1>3
      <4>3. (m[1] < x /\ m[2] < y) \/ (m[1] >= x + n /\ m[2] >= y + n)
        BY <3>3, <1>6
      <4> QED BY <4>1, <4>2, <4>3
    <3>4. CASE l \in D /\ m \in D
      <4>1. PICK i \in 1..n : m[1] = x + i - 1 /\ m[2] = y + i - 1
        BY <3>4, <1>7
      <4>2. PICK j \in 1..n : l[1] = x + j - 1 /\ l[2] = y + j - 1
        BY <3>4, <1>7
      <4> QED BY <4>1, <4>2
    <3> QED BY <3>1, <3>2, <3>3, <3>4
  <2> QED BY <2>1, <2>2, <2>3 DEF Matchings
<1>9. IsFiniteSet(D) /\ Cardinality(D) = n
  <2> DEFINE f == [i \in 1..n |-> <<x + i - 1, y + i - 1>>]
  <2>1. f \in Bijection(1..n, D)
    <3>1. \A i \in 1..n : f[i] = <<x + i - 1, y + i - 1>> /\ f[i] \in D
      OBVIOUS
    <3>2. \A i, j \in 1..n : f[i] = f[j] => i = j
      <4> SUFFICES ASSUME NEW i \in 1..n, NEW j \in 1..n, f[i] = f[j] PROVE i = j
        OBVIOUS
      <4>1. x + i - 1 = x + j - 1
        BY <3>1
      <4> QED BY <4>1
    <3>3. \A p \in D : \E i \in 1..n : f[i] = p
      BY <3>1
    <3>4. f \in [1..n -> D]
      BY <3>1
    <3> HIDE DEF f, D
    <3> QED BY <3>2, <3>3, <3>4 DEF Bijection, Injection, Surjection, IsInjective
  <2>2. ExistsBijection(1..n, D)
    BY <2>1 DEF ExistsBijection
  <2>3. IsFiniteSet(D)
    BY <2>2, FS_NatBijection
  <2> HIDE DEF D
  <2> QED BY <2>2, <2>3, FS_CountingElements
<1>10. IsFiniteSet(In) /\ IsFiniteSet(Out) /\ Cardinality(In) \in Nat /\ Cardinality(Out) \in Nat
  <2>1. In \in SUBSET M /\ Out \in SUBSET M
    OBVIOUS
  <2> HIDE DEF In, Out
  <2> QED BY <2>1, <1>2, FS_Subset, FS_CardinalityType
<1>11. Cardinality(M) = Cardinality(In) + Cardinality(Out)
  <2>1. M = In \cup Out /\ In \cap Out = {}
    OBVIOUS
  <2> HIDE DEF In, Out
  <2>2. Cardinality(In \cup Out) = Cardinality(In) + Cardinality(Out) - Cardinality(In \cap Out)
    BY <1>10, FS_Union
  <2>3. Cardinality(In \cap Out) = 0
    BY <2>1, FS_EmptySet
  <2> QED BY <2>1, <2>2, <2>3, <1>10
<1>12. Cardinality(other) = Cardinality(Out) + n
  <2>1. Out \cap D = {}
    <3> SUFFICES ASSUME NEW m \in Out, m \in D PROVE FALSE
      OBVIOUS
    <3>1. PICK i \in 1..n : m[1] = x + i - 1 /\ m[2] = y + i - 1
      BY <1>7
    <3>2. m[1] < x \/ m[1] >= x + n
      BY <1>6
    <3> QED BY <3>1, <3>2
  <2> HIDE DEF Out, D
  <2>2. Cardinality(Out \cup D) = Cardinality(Out) + Cardinality(D) - Cardinality(Out \cap D)
    BY <1>9, <1>10, FS_Union
  <2>3. Cardinality(Out \cap D) = 0
    BY <2>1, FS_EmptySet
  <2> QED BY <2>2, <2>3, <1>9, <1>10
<1>13. Cardinality(In) >= n
  <2>1. Cardinality(other) <= Cardinality(M)
    BY <1>1, <1>8
  <2> HIDE DEF other, In, Out
  <2> QED BY <2>1, <1>10, <1>11, <1>12
<1>14. ASSUME NEW z \in Nat, NEW g \in [In -> z..(z + n - 1)],
              \A l, m \in In : g[l] = g[m] => l = m
       PROVE  \A i \in z..(z + n - 1) : \E m \in In : g[m] = i
  <2> DEFINE R == z..(z + n - 1)
  <2>1. IsFiniteSet(R) /\ Cardinality(R) = n
    <3>1. z \in Int /\ z + n - 1 \in Int
      OBVIOUS
    <3>2. IsFiniteSet(R) /\ Cardinality(R) = IF z > z + n - 1 THEN 0 ELSE (z + n - 1) - z + 1
      <4> DEFINE h == z + n - 1
      <4>1. h \in Int
        BY <3>1
      <4> HIDE DEF h
      <4>2. IsFiniteSet(z..h) /\ Cardinality(z..h) = IF z > h THEN 0 ELSE h - z + 1
        BY <4>1, <3>1, FS_Interval
      <4> QED BY <4>2 DEF h
    <3> HIDE DEF R
    <3> QED BY <3>2
  <2> HIDE DEF In, R
  <2>2. g \in Injection(In, R)
    BY <1>14 DEF Injection, IsInjective, R
  <2>3. Cardinality(In) <= Cardinality(R) /\ (Cardinality(In) = Cardinality(R) <=> g \in Surjection(In, R))
    BY <2>1, <2>2, FS_Injection
  <2>4. g \in Surjection(In, R)
    BY <2>1, <2>3, <1>10, <1>13
  <2>5. \A i \in R : \E m \in In : g[m] = i
    BY <2>4 DEF Surjection
  <2> QED BY <2>5 DEF R
<1>15. \A l, m \in In : (l[1] = m[1] => l = m) /\ (l[2] = m[2] => l = m)
  <2> SUFFICES ASSUME NEW l \in In, NEW m \in In
               PROVE  (l[1] = m[1] => l = m) /\ (l[2] = m[2] => l = m)
    OBVIOUS
  <2>1. l \in M /\ m \in M
    OBVIOUS
  <2>2. (l[1] = m[1] <=> l[2] = m[2]) /\ l = <<l[1], l[2]>> /\ m = <<m[1], m[2]>>
    BY <2>1, <1>3, <1>4
  <2> HIDE DEF In
  <2> QED BY <2>2
<1> HIDE DEF In
<1>16. \A i \in x..(x + n - 1) : \E m \in In : m[1] = i
  <2> DEFINE g == [m \in In |-> m[1]]
  <2>1. g \in [In -> x..(x + n - 1)] /\ \A m \in In : g[m] = m[1]
    BY <1>5
  <2>2. \A l, m \in In : g[l] = g[m] => l = m
    BY <2>1, <1>15
  <2> HIDE DEF g
  <2>3. \A i \in x..(x + n - 1) : \E m \in In : g[m] = i
    BY <2>1, <2>2, <1>14
  <2> QED BY <2>1, <2>3
<1>17. \A j \in y..(y + n - 1) : \E m \in In : m[2] = j
  <2> DEFINE g == [m \in In |-> m[2]]
  <2>1. g \in [In -> y..(y + n - 1)] /\ \A m \in In : g[m] = m[2]
    BY <1>5
  <2>2. \A l, m \in In : g[l] = g[m] => l = m
    BY <2>1, <1>15
  <2> HIDE DEF g
  <2>3. \A i \in y..(y + n - 1) : \E m \in In : g[m] = i
    BY <2>1, <2>2, <1>14
  <2> QED BY <2>1, <2>3
<1> QED BY <1>5, <1>16, <1>17 DEF AllPaired

\* Of a file with itself it pairs every line with itself.
LEMMA SameFile ==
    ASSUME NEW L, NEW s \in Seq(L), NEW M, Best(M, s, s)
    PROVE  \A i \in 0..(Len(s) - 1) : <<i, i>> \in M
<1> DEFINE N == Len(s)
           Bad == {i \in 0..(N - 1) : <<i, i>> \notin M}
<1>0. N \in Nat
  BY LenProperties
<1>1. M \in Matchings(s, s)
  BY DEF Best
<1>2. ASSUME NEW m \in M
      PROVE  m = <<m[1], m[2]>> /\ m[1] \in Nat /\ m[1] < N /\ m[2] \in Nat /\ m[2] < N
  BY <1>1, MatchingFacts
<1>3. ASSUME NEW l \in M, NEW m \in M
      PROVE  (l[1] < m[1] <=> l[2] < m[2]) /\ (l[1] = m[1] <=> l[2] = m[2])
  BY <1>1, MatchingFacts
<1>4. /\ \A i \in 0..(N - 1) : \E m \in M : m[1] = i
      /\ \A j \in 0..(N - 1) : \E m \in M : m[2] = j
  <2> DEFINE z == 0
  <2>1. Cut(M, z, z) /\ Cut(M, z + N, z + N)
    <3>1. z + N = N
      BY <1>0
    <3> QED BY <3>1, <1>2 DEF Cut
  <2>2. z + N <= Len(s) /\ z + N - 1 = N - 1 /\ z \in Nat
    BY <1>0
  <2> DEFINE u == s
  <2>3. /\ u \in Seq(L) /\ Best(M, s, u) /\ z + N <= Len(u)
        /\ \A i \in 1..N : s[z + i] = u[z + i]
    BY <2>2
  <2> HIDE DEF N, z, u
  <2>4. AllPaired(M, z, z, N)
    BY <2>1, <2>2, <2>3, <1>0, EqualBlock
  <2> QED BY <2>2, <2>4 DEF z, AllPaired
<1>5. SUFFICES ASSUME Bad # {} PROVE FALSE
  OBVIOUS
<1>6. PICK i \in Bad : \A c \in Bad : i <= c
  <2>1. Bad \subseteq Nat
    OBVIOUS
  <2> HIDE DEF Bad
  <2> QED BY <1>5, <2>1, SmallestIn
<1>7. i \in 0..(N - 1) /\ i \in Nat /\ <<i, i>> \notin M
  BY <1>6
<1>8. ASSUME NEW c \in Nat, c < i PROVE <<c, c>> \in M
  <2>1. c \in 0..(N - 1)
    BY <1>0, <1>7, <1>8
  <2>2. c \notin Bad
    <3> HIDE DEF Bad
    <3> QED BY <1>6, <1>7, <1>8
  <2> QED BY <2>1, <2>2
<1> HIDE DEF Bad, N
<1>9. PICK m \in M : m[1] = i
  BY <1>4, <1>7
<1>10. PICK l \in M : l[2] = i
  BY <1>4, <1>7
<1>11. m[2] # i
  <2>1. m = <<m[1], m[2]>>
    BY <1>2
  <2> QED BY <2>1, <1>7, <1>9
<1>12. ~(m[2] < i)
  <2>1. SUFFICES ASSUME m[2] < i PROVE FALSE
    OBVIOUS
  <2> DEFINE p == <<m[2], m[2]>>
  <2>2. p \in M /\ p[1] = m[2] /\ p[2] = m[2]
    BY <2>1, <1>2, <1>8
  <2> HIDE DEF p
  <2>3. p[1] = m[1]
    BY <2>2, <1>3
  <2> QED BY <2>1, <2>2, <2>3, <1>7, <1>9
<1>13. l[1] # i
  <2>1. l = <<l[1], l[2]>>
    BY <1>2
  <2> QED BY <2>1, <1>7, <1>10
<1>14. ~(l[1] < i)
  <2>1. SUFFICES ASSUME l[1] < i PROVE FALSE
    OBVIOUS
  <2> DEFINE p == <<l[1], l[1]>>
  <2>2. p \in M /\ p[1] = l[1] /\ p[2] = l[1]
    BY <2>1, <1>2, <1>8
  <2> HIDE DEF p
  <2>3. p[2] = l[2]
    BY <2>2, <1>3
  <2> QED BY <2>1, <2>2, <2>3, <1>7, <1>10
<1>15. m[1] \in Nat /\ m[2] \in Nat /\ l[1] \in Nat /\ l[2] \in Nat
  BY <1>2
<1>16. m[1] < l[1] <=> m[2] < l[2]
  BY <1>3
<1> QED BY <1>7, <1>9, <1>10, <1>11, <1>12, <1>13, <1>14, <1>15, <1>16

-----------------------------------------------------------------------------
(* The turns of the loop *)

LEMMA FilesFacts ==
    /\ \A f \in Files : f \in Seq(Line) /\ Len(f) \in Nat /\ Len(f) <= MaxLines
    /\ \A f \in Seq(Line) : Len(f) <= MaxLines => f \in Files
<1>1. ASSUME NEW f \in Files PROVE f \in Seq(Line) /\ Len(f) \in Nat /\ Len(f) <= MaxLines
  <2>1. PICK n \in 0..MaxLines : f \in [1..n -> Line]
    BY DEF Files
  <2>2. f \in Seq(Line) /\ n \in Nat
    BY <2>1, MaxLinesAssumption
  <2>3. Len(f) = n
    BY <2>1, <2>2, LenProperties
  <2> QED BY <2>2, <2>3, <2>1, MaxLinesAssumption
<1>2. ASSUME NEW f \in Seq(Line), Len(f) <= MaxLines PROVE f \in Files
  <2>1. Len(f) \in 0..MaxLines /\ f \in [1..Len(f) -> Line]
    BY <1>2, LenProperties, MaxLinesAssumption
  <2> DEFINE n == Len(f)
  <2>2. n \in 0..MaxLines /\ f \in [1..n -> Line]
    BY <2>1
  <2> HIDE DEF n
  <2> QED BY <2>2 DEF Files
<1> QED BY <1>1, <1>2

LEMMA BlockFacts ==
    ASSUME NEW L, NEW file \in Seq(L), NEW from \in Nat, NEW to \in from..Len(file)
    PROVE  /\ Block(file, from, to) \in Seq(L)
           /\ Len(Block(file, from, to)) = to - from
           /\ \A i \in 1..(to - from) : Block(file, from, to)[i] = file[from + i]
           /\ SubSeq(file, 1, from) \o Block(file, from, to) = SubSeq(file, 1, to)
<1>0. Len(file) \in Nat /\ to \in Nat /\ from <= to /\ to <= Len(file)
  BY LenProperties
<1> DEFINE m == from + 1
<1>1. m \in Int /\ m \in 1..(Len(file) + 1) /\ to - m + 1 = to - from /\ m - 1 = from
  BY <1>0
<1>2. \A i \in m..to : file[i] \in L
  <2>1. \A i \in m..to : i \in 1..Len(file)
    BY <1>0, <1>1
  <2> QED BY <2>1, ElementOfSeq
<1> HIDE DEF m
<1>3. /\ SubSeq(file, m, to) \in Seq(L)
      /\ Len(SubSeq(file, m, to)) = IF m <= to THEN to - m + 1 ELSE 0
      /\ \A i \in 1..(to - m + 1) : SubSeq(file, m, to)[i] = file[m + i - 1]
  BY <1>0, <1>1, <1>2, SubSeqProperties
<1>4. (IF m <= to THEN to - m + 1 ELSE 0) = to - from
  BY <1>0, <1>1
<1>5. \A i \in 1..(to - from) : m + i - 1 = from + i
  BY <1>0, <1>1
<1>6. SubSeq(file, 1, from) \o SubSeq(file, m, to) = SubSeq(file, 1, to)
  <2>1. 1 \in 1..(Len(file) + 1) /\ from \in (1 - 1)..Len(file) /\ to \in from..Len(file)
    BY <1>0
  <2> QED BY <2>1, ConcatAdjacentSubSeq DEF m
<1>7. \A i \in 1..(to - from) : SubSeq(file, m, to)[i] = file[from + i]
  BY <1>1, <1>3, <1>5
<1> QED BY <1>3, <1>4, <1>6, <1>7 DEF Block, m

\* A pair cuts before it and behind it.
LEMMA CutAt ==
    ASSUME NEW L, NEW s \in Seq(L), NEW t \in Seq(L), NEW M \in Matchings(s, t), NEW l \in M
    PROVE  Cut(M, l[1], l[2]) /\ Cut(M, l[1] + 1, l[2] + 1)
<1>1. ASSUME NEW m \in M
      PROVE  (m[1] < l[1] <=> m[2] < l[2]) /\ (m[1] < l[1] + 1 <=> m[2] < l[2] + 1)
  <2>1. (m[1] < l[1] <=> m[2] < l[2]) /\ (m[1] = l[1] <=> m[2] = l[2])
    BY MatchingFacts
  <2>2. m[1] \in Nat /\ m[2] \in Nat /\ l[1] \in Nat /\ l[2] \in Nat
    BY MatchingFacts
  <2> QED BY <2>1, <2>2
<1> QED BY <1>1 DEF Cut

Positions == [base : 0..Len(base), a : 0..Len(a), b : 0..Len(b)]

Cuts(to) == Cut(matchesA, to.base, to.a) /\ Cut(matchesB, to.base, to.b)

\* What every turn of the loop starts from: the pairings are largest, they do
\* not cross the position, and equal sides are at the same position.
Aligned ==
    /\ TypeOK
    /\ Best(matchesA, base, a) /\ Best(matchesB, base, b)
    /\ Cuts(pos)
    /\ a = b => matchesA = matchesB /\ pos.a = pos.b
    /\ phase = "done" => pos = AtTheEnd

LEMMA AlignedFacts ==
    ASSUME Aligned
    PROVE  /\ base \in Seq(Line) /\ a \in Seq(Line) /\ b \in Seq(Line)
           /\ Len(base) \in Nat /\ Len(base) <= MaxLines
           /\ Len(a) \in Nat /\ Len(a) <= MaxLines
           /\ Len(b) \in Nat /\ Len(b) <= MaxLines
           /\ matchesA \in Matchings(base, a) /\ matchesB \in Matchings(base, b)
           /\ pos.base \in 0..Len(base) /\ pos.a \in 0..Len(a) /\ pos.b \in 0..Len(b)
           /\ pos.base \in Nat /\ pos.a \in Nat /\ pos.b \in Nat
<1>1. base \in Files /\ a \in Files /\ b \in Files
  BY DEF Aligned, TypeOK
<1>2. /\ base \in Seq(Line) /\ a \in Seq(Line) /\ b \in Seq(Line)
      /\ Len(base) \in Nat /\ Len(base) <= MaxLines
      /\ Len(a) \in Nat /\ Len(a) <= MaxLines
      /\ Len(b) \in Nat /\ Len(b) <= MaxLines
  BY <1>1, FilesFacts
<1>3. pos.base \in 0..Len(base) /\ pos.a \in 0..Len(a) /\ pos.b \in 0..Len(b)
  BY DEF Aligned, TypeOK
<1>4. pos.base \in Nat /\ pos.a \in Nat /\ pos.b \in Nat
  BY <1>2, <1>3
<1> QED BY <1>2, <1>3, <1>4 DEF Aligned, Best

\* Where a chunk may end.
Moves(to) ==
    /\ to \in Positions
    /\ to.base >= pos.base /\ to.a >= pos.a /\ to.b >= pos.b
    /\ Cuts(to)
    /\ a = b => to.a = to.b

LEMMA StableMoves ==
    ASSUME Aligned
    PROVE  Moves(AfterStable)
<1> DEFINE i == getNextMismatch
           Good(n) == ~Stable(n) /\ \A j \in 0..(n - 1) : Stable(j)
           to == AfterStable
<1>0. /\ base \in Seq(Line) /\ a \in Seq(Line) /\ b \in Seq(Line)
      /\ Len(base) \in Nat /\ Len(base) <= MaxLines
      /\ Len(a) \in Nat /\ Len(b) \in Nat
      /\ matchesA \in Matchings(base, a) /\ matchesB \in Matchings(base, b)
      /\ pos.base \in 0..Len(base) /\ pos.a \in 0..Len(a) /\ pos.b \in 0..Len(b)
      /\ pos.base \in Nat /\ pos.a \in Nat /\ pos.b \in Nat
      /\ MaxLines \in Nat
  BY AlignedFacts, MaxLinesAssumption
<1>1. ASSUME NEW n \in Nat, Stable(n)
      PROVE  /\ <<pos.base + n, pos.a + n>> \in matchesA
             /\ <<pos.base + n, pos.b + n>> \in matchesB
             /\ pos.base + n < Len(base) /\ pos.a + n < Len(a) /\ pos.b + n < Len(b)
  <2> DEFINE p == <<pos.base + n, pos.a + n>>
             q == <<pos.base + n, pos.b + n>>
  <2>1. p \in matchesA /\ q \in matchesB
    BY <1>1 DEF Stable
  <2>2. p[1] = pos.base + n /\ p[2] = pos.a + n /\ q[2] = pos.b + n
    OBVIOUS
  <2>3. p[1] < Len(base) /\ p[2] < Len(a) /\ q[2] < Len(b)
    <3> HIDE DEF p, q
    <3> QED BY <2>1, <1>0, MatchingFacts
  <2> QED BY <2>1, <2>2, <2>3
<1>2. i \in Nat /\ Good(i)
  <2> DEFINE Stops == {n \in 0..MaxLines : ~Stable(n)}
  <2>1. MaxLines \in Stops /\ Stops \subseteq Nat
    <3>1. ~Stable(MaxLines)
      <4>1. pos.base + MaxLines < Len(base) => FALSE
        BY <1>0
      <4> QED BY <4>1, <1>0, <1>1
    <3> QED BY <3>1, <1>0
  <2>2. PICK n \in Stops : \A m \in Stops : n <= m
    <3> HIDE DEF Stops
    <3> QED BY <2>1, SmallestIn
  <2>3. ASSUME NEW j \in 0..(n - 1) PROVE Stable(j)
    <3>1. j \in 0..MaxLines /\ j < n
      BY <2>2, <1>0
    <3>2. j \notin Stops
      <4> HIDE DEF Stops
      <4> QED BY <3>1, <2>1, <2>2
    <3> QED BY <3>1, <3>2
  <2>4. n \in 0..MaxLines /\ Good(n)
    BY <2>2, <2>3
  <2>5. i = CHOOSE m \in 0..MaxLines : Good(m)
    BY DEF getNextMismatch
  <2>6. i \in 0..MaxLines /\ Good(i)
    <3> HIDE DEF Good, i
    <3> QED BY <2>4, <2>5
  <2> QED BY <2>6, <1>0
<1>3. to.base = pos.base + i /\ to.a = pos.a + i /\ to.b = pos.b + i
      /\ to = [base |-> pos.base + i, a |-> pos.a + i, b |-> pos.b + i]
  BY DEF AfterStable
<1> HIDE DEF i, to
<1>4. CASE i = 0
  <2>1. to.base = pos.base /\ to.a = pos.a /\ to.b = pos.b
    BY <1>0, <1>3, <1>4
  <2>2. to \in Positions
    <3>1. to = [base |-> pos.base, a |-> pos.a, b |-> pos.b]
      BY <1>0, <1>3, <1>4
    <3> QED BY <3>1, <1>0 DEF Positions
  <2>3. Cuts(to)
    BY <2>1 DEF Aligned, Cuts
  <2> QED BY <2>1, <2>2, <2>3, <1>0 DEF Moves, Aligned, to
<1>5. CASE i # 0
  <2> DEFINE n == i - 1
             p == <<pos.base + n, pos.a + n>>
             q == <<pos.base + n, pos.b + n>>
  <2>1. n \in Nat /\ n \in 0..(i - 1) /\ n + 1 = i /\ i \in Nat
    BY <1>2, <1>5
  <2>9. ASSUME NEW c \in Nat, NEW w \in Nat
        PROVE  c + n + 1 = c + i /\ (c + n < w => c + i \in 0..w)
    <3> HIDE DEF n
    <3> QED BY <2>1
  <2>2. Stable(n)
    BY <1>2, <2>1
  <2>3. /\ p \in matchesA /\ q \in matchesB
        /\ pos.base + n < Len(base) /\ pos.a + n < Len(a) /\ pos.b + n < Len(b)
    <3> HIDE DEF n
    <3> QED BY <1>1, <2>1, <2>2
  <2>4. /\ p[1] + 1 = to.base /\ p[2] + 1 = to.a
        /\ q[1] + 1 = to.base /\ q[2] + 1 = to.b
    <3>1. p[1] = pos.base + n /\ p[2] = pos.a + n /\ q[1] = pos.base + n /\ q[2] = pos.b + n
      OBVIOUS
    <3> HIDE DEF p, q, n
    <3> QED BY <3>1, <2>9, <1>0, <1>3
  <2>5. Cuts(to)
    <3>1. Cut(matchesA, p[1] + 1, p[2] + 1) /\ Cut(matchesB, q[1] + 1, q[2] + 1)
      <4> HIDE DEF p, q
      <4> QED BY <2>3, <1>0, CutAt
    <3> HIDE DEF p, q
    <3> QED BY <3>1, <2>4 DEF Cuts
  <2>6. to \in Positions
    <3>1. pos.base + i \in 0..Len(base) /\ pos.a + i \in 0..Len(a) /\ pos.b + i \in 0..Len(b)
      <4> HIDE DEF n
      <4> QED BY <2>3, <2>9, <1>0
    <3> QED BY <3>1, <1>3 DEF Positions
  <2>7. to.base >= pos.base /\ to.a >= pos.a /\ to.b >= pos.b
    BY <1>0, <1>2, <1>3
  <2>8. a = b => to.a = to.b
    BY <1>3 DEF Aligned
  <2> QED BY <2>5, <2>6, <2>7, <2>8 DEF Moves, to
<1> QED BY <1>4, <1>5

LEMMA MatchMoves ==
    ASSUME Aligned, MatchedByBoth # {}
    PROVE  Moves(getNextMatch)
<1> DEFINE to == getNextMatch
           n == CHOOSE n \in MatchedByBoth : \A k \in MatchedByBoth : n <= k
           p == CHOOSE m \in matchesA : m[1] = n
           q == CHOOSE m \in matchesB : m[1] = n
<1>0. /\ base \in Seq(Line) /\ a \in Seq(Line) /\ b \in Seq(Line)
      /\ Len(base) \in Nat
      /\ Len(a) \in Nat /\ Len(b) \in Nat
      /\ matchesA \in Matchings(base, a) /\ matchesB \in Matchings(base, b)
      /\ pos.base \in Nat /\ pos.a \in Nat /\ pos.b \in Nat
  BY AlignedFacts
<1>1. n \in MatchedByBoth
  <2>1. MatchedByBoth \subseteq Nat
    BY <1>0 DEF MatchedByBoth
  <2>2. \E k \in MatchedByBoth : \A m \in MatchedByBoth : k <= m
    BY <2>1, SmallestIn
  <2> QED BY <2>2
<1>2. to = [base |-> n, a |-> p[2], b |-> q[2]]
  BY DEF getNextMatch, Partner
<1>3. a = b => p = q
  BY DEF Aligned
<1> HIDE DEF n
<1>4. n \in pos.base..(Len(base) - 1) /\ (\E m \in matchesA : m[1] = n) /\ (\E m \in matchesB : m[1] = n)
  BY <1>1 DEF MatchedByBoth
<1>5. p \in matchesA /\ p[1] = n /\ q \in matchesB /\ q[1] = n
  BY <1>4
<1> HIDE DEF p, q, to
<1>6. /\ p[2] \in Nat /\ p[2] < Len(a) /\ q[2] \in Nat /\ q[2] < Len(b)
      /\ n \in Nat /\ n < Len(base) /\ n >= pos.base
  <2>1. p[2] \in Nat /\ p[2] < Len(a)
    BY <1>0, <1>5, MatchingFacts
  <2>2. q[2] \in Nat /\ q[2] < Len(b)
    BY <1>0, <1>5, MatchingFacts
  <2> QED BY <2>1, <2>2, <1>0, <1>4
<1>7. to.base = n /\ to.a = p[2] /\ to.b = q[2]
  BY <1>2
<1>8. to \in Positions
  BY <1>0, <1>2, <1>6 DEF Positions
<1>9. p[2] >= pos.a /\ q[2] >= pos.b
  <2>1. ~(p[1] < pos.base) /\ ~(q[1] < pos.base)
    BY <1>0, <1>5, <1>6
  <2>2. ~(p[2] < pos.a) /\ ~(q[2] < pos.b)
    BY <2>1, <1>5 DEF Aligned, Cuts, Cut
  <2> QED BY <2>2, <1>0, <1>6
<1>10. Cuts(to)
  <2>1. Cut(matchesA, p[1], p[2]) /\ Cut(matchesB, q[1], q[2])
    BY <1>0, <1>5, CutAt
  <2> QED BY <2>1, <1>5, <1>7 DEF Cuts
<1> QED BY <1>3, <1>6, <1>7, <1>8, <1>9, <1>10 DEF Moves, to

LEMMA EndMoves ==
    ASSUME Aligned
    PROVE  Moves(AtTheEnd)
<1> DEFINE to == AtTheEnd
<1>0. /\ base \in Seq(Line) /\ a \in Seq(Line) /\ b \in Seq(Line)
      /\ Len(base) \in Nat /\ Len(a) \in Nat /\ Len(b) \in Nat
      /\ matchesA \in Matchings(base, a) /\ matchesB \in Matchings(base, b)
      /\ pos.base \in 0..Len(base) /\ pos.a \in 0..Len(a) /\ pos.b \in 0..Len(b)
  BY AlignedFacts
<1>1. to.base = Len(base) /\ to.a = Len(a) /\ to.b = Len(b) /\ to \in Positions
  BY <1>0 DEF AtTheEnd, Positions
<1> HIDE DEF to
<1>2. Cuts(to)
  <2>1. \A m \in matchesA : m[1] < Len(base) /\ m[2] < Len(a)
    BY <1>0, MatchingFacts
  <2>2. \A m \in matchesB : m[1] < Len(base) /\ m[2] < Len(b)
    BY <1>0, MatchingFacts
  <2> QED BY <2>1, <2>2, <1>1 DEF Cuts, Cut
<1>3. to.base >= pos.base /\ to.a >= pos.a /\ to.b >= pos.b
  BY <1>0, <1>1
<1>4. a = b => to.a = to.b
  BY <1>1
<1> QED BY <1>1, <1>2, <1>3, <1>4 DEF Moves, to

\* Every turn writes a chunk and moves behind it.
LEMMA StepMoves ==
    ASSUME Aligned, Next
    PROVE  \E to : /\ Moves(to) /\ emitChunk(to)
                   /\ phase = "chunks"
                   /\ phase' \in {"chunks", "done"}
                   /\ phase' = "done" => to = AtTheEnd
<1>1. CASE StableChunk
  BY <1>1, StableMoves DEF StableChunk
<1>2. CASE ChangedChunk
  BY <1>2, MatchMoves DEF ChangedChunk
<1>3. CASE FinalChunk
  BY <1>3, EndMoves DEF FinalChunk
<1> QED BY <1>1, <1>2, <1>3 DEF Next

\* The three blocks of a chunk.
LEMMA ChunkFacts ==
    ASSUME Aligned, NEW to, Moves(to)
    PROVE  /\ to.base \in Nat /\ to.base \in pos.base..Len(base)
           /\ to.a \in Nat /\ to.a \in pos.a..Len(a)
           /\ to.b \in Nat /\ to.b \in pos.b..Len(b)
           /\ Block(base, pos.base, to.base) \in Files
           /\ Block(a, pos.a, to.a) \in Files
           /\ Block(b, pos.b, to.b) \in Files
<1>0. /\ base \in Seq(Line) /\ a \in Seq(Line) /\ b \in Seq(Line)
      /\ Len(base) \in Nat /\ Len(base) <= MaxLines
      /\ Len(a) \in Nat /\ Len(a) <= MaxLines
      /\ Len(b) \in Nat /\ Len(b) <= MaxLines
      /\ pos.base \in Nat /\ pos.a \in Nat /\ pos.b \in Nat
      /\ MaxLines \in Nat
  BY AlignedFacts, MaxLinesAssumption
<1>1. to.base \in 0..Len(base) /\ to.a \in 0..Len(a) /\ to.b \in 0..Len(b)
  BY DEF Moves, Positions
<1>2. to.base >= pos.base /\ to.a >= pos.a /\ to.b >= pos.b
  BY DEF Moves
<1>3. /\ to.base \in Nat /\ to.base \in pos.base..Len(base)
      /\ to.a \in Nat /\ to.a \in pos.a..Len(a)
      /\ to.b \in Nat /\ to.b \in pos.b..Len(b)
  BY <1>0, <1>1, <1>2
<1>4. ASSUME NEW f \in Seq(Line), Len(f) \in Nat, Len(f) <= MaxLines,
             NEW m \in Nat, NEW n \in m..Len(f)
      PROVE  Block(f, m, n) \in Files
  <2>1. Block(f, m, n) \in Seq(Line) /\ Len(Block(f, m, n)) = n - m
    BY BlockFacts
  <2>2. n - m <= MaxLines
    BY <1>0, <1>4
  <2> QED BY <2>1, <2>2, FilesFacts
<1> QED BY <1>0, <1>3, <1>4

\* What a chunk writes, by what its sides did to the block of base.
LEMMA ChunkWrites ==
    ASSUME Aligned, NEW to, Moves(to), emitChunk(to)
    PROVE  LET o == Block(base, pos.base, to.base)
               x == Block(a, pos.a, to.a)
               y == Block(b, pos.b, to.b)
           IN  \E w \in Written :
                 /\ out' = Append(out, w)
                 /\ \/ /\ x = o /\ w.ours = y /\ w.theirs = y
                       /\ conflicts' = conflicts /\ agreed' = agreed
                    \/ /\ x # o /\ y = o /\ w.ours = x /\ w.theirs = x
                       /\ conflicts' = conflicts /\ agreed' = agreed
                    \/ /\ x # o /\ y # o /\ x = y /\ w.ours = x /\ w.theirs = x
                       /\ conflicts' = conflicts /\ agreed' = agreed + Len(x) - Len(o)
                    \/ /\ x # o /\ y # o /\ x # y /\ w.ours = x /\ w.theirs = y
                       /\ conflicts' = conflicts + 1 /\ agreed' = agreed
<1> DEFINE o == Block(base, pos.base, to.base)
           x == Block(a, pos.a, to.a)
           y == Block(b, pos.b, to.b)
           Does(w) ==
                    \/ /\ x = o /\ w.ours = y /\ w.theirs = y
                       /\ conflicts' = conflicts /\ agreed' = agreed
                    \/ /\ x # o /\ y = o /\ w.ours = x /\ w.theirs = x
                       /\ conflicts' = conflicts /\ agreed' = agreed
                    \/ /\ x # o /\ y # o /\ x = y /\ w.ours = x /\ w.theirs = x
                       /\ conflicts' = conflicts /\ agreed' = agreed + Len(x) - Len(o)
                    \/ /\ x # o /\ y # o /\ x # y /\ w.ours = x /\ w.theirs = y
                       /\ conflicts' = conflicts + 1 /\ agreed' = agreed
<1>1. o \in Files /\ x \in Files /\ y \in Files
  BY ChunkFacts
<1>2. \/ x = o /\ out' = Append(out, Plain(y)) /\ UNCHANGED <<conflicts, agreed>>
      \/ x # o /\ y = o /\ out' = Append(out, Plain(x)) /\ UNCHANGED <<conflicts, agreed>>
      \/ /\ x # o /\ y # o /\ x = y /\ out' = Append(out, Plain(x))
         /\ agreed' = agreed + Len(x) - Len(o) /\ UNCHANGED conflicts
      \/ /\ x # o /\ y # o /\ x # y /\ out' = Append(out, [ours |-> x, theirs |-> y])
         /\ conflicts' = conflicts + 1 /\ UNCHANGED agreed
  BY Zenon DEF emitChunk, writeChunk
<1> HIDE DEF o, x, y
<1>3. /\ Plain(y) \in Written /\ Plain(y).ours = y /\ Plain(y).theirs = y
      /\ Plain(x) \in Written /\ Plain(x).ours = x /\ Plain(x).theirs = x
  BY <1>1 DEF Plain, Written
<1> DEFINE z == [ours |-> x, theirs |-> y]
<1>4. z \in Written /\ z.ours = x /\ z.theirs = y
  BY <1>1 DEF Written
<1>5. \/ out' = Append(out, Plain(y)) /\ Does(Plain(y))
      \/ out' = Append(out, Plain(x)) /\ Does(Plain(x))
      \/ out' = Append(out, z) /\ Does(z)
  BY <1>2, <1>3, <1>4
<1>6. \E w \in Written : out' = Append(out, w) /\ Does(w)
  <2> HIDE DEF Does, z
  <2> QED BY <1>3, <1>4, <1>5
<1> QED BY <1>6 DEF o, x, y

-----------------------------------------------------------------------------
(* Type correctness, and the diffs *)

LEMMA AlignedInit == Init => Aligned
<1> SUFFICES ASSUME Init PROVE Aligned
  OBVIOUS
<1>1. base \in Files /\ a \in Files /\ b \in Files
  BY DEF Init
<1>2. /\ base \in Seq(Line) /\ Len(base) \in Nat /\ Len(base) <= MaxLines
      /\ a \in Seq(Line) /\ Len(a) \in Nat /\ Len(a) <= MaxLines
      /\ b \in Seq(Line) /\ Len(b) \in Nat /\ Len(b) <= MaxLines
  BY <1>1, FilesFacts
<1>3. Best(matchesA, base, a) /\ Best(matchesB, base, b)
  BY <1>2, DiffLinesAreBest DEF Init
<1>4. ASSUME NEW f \in Seq(Line), Len(f) <= MaxLines, NEW M \in Matchings(base, f)
      PROVE  M \subseteq (0..MaxLines) \X (0..MaxLines) /\ Cut(M, 0, 0)
  <2>1. ASSUME NEW m \in M
        PROVE  /\ m = <<m[1], m[2]>> /\ m[1] \in 0..MaxLines /\ m[2] \in 0..MaxLines
               /\ ~(m[1] < 0) /\ ~(m[2] < 0)
    <3>1. /\ m = <<m[1], m[2]>> /\ m[1] \in Nat /\ m[2] \in Nat
          /\ m[1] < Len(base) /\ m[2] < Len(f)
      BY <1>2, MatchingFacts
    <3> QED BY <3>1, <1>2, <1>4, MaxLinesAssumption, LenProperties
  <2> QED BY <2>1 DEF Cut
<1>5. /\ matchesA \subseteq (0..MaxLines) \X (0..MaxLines) /\ Cut(matchesA, 0, 0)
      /\ matchesB \subseteq (0..MaxLines) \X (0..MaxLines) /\ Cut(matchesB, 0, 0)
  BY <1>2, <1>3, <1>4 DEF Best
<1>6. pos.base = 0 /\ pos.a = 0 /\ pos.b = 0 /\ pos \in Positions
  BY <1>2 DEF Init, Positions
<1>7. TypeOK
  <2>1. out \in Seq(Written)
    BY EmptySeq DEF Init
  <2>2. conflicts \in Nat /\ phase \in {"chunks", "done", "panic"} /\ phase # "done" /\ agreed \in Int
    BY DEF Init
  <2> QED BY <2>1, <2>2, <1>1, <1>5, <1>6 DEF TypeOK, Positions
<1>8. Cuts(pos)
  BY <1>5, <1>6 DEF Cuts
<1>9. a = b => matchesA = matchesB /\ pos.a = pos.b
  BY <1>6 DEF Init
<1>10. phase # "done"
  BY DEF Init
<1> QED BY <1>3, <1>7, <1>8, <1>9, <1>10 DEF Aligned

LEMMA AlignedStep == Aligned /\ [Next]_vars => Aligned'
<1> SUFFICES ASSUME Aligned, [Next]_vars PROVE Aligned'
  OBVIOUS
<1>1. CASE Next
  <2>1. PICK to : /\ Moves(to) /\ emitChunk(to)
                  /\ phase = "chunks"
                  /\ phase' \in {"chunks", "done"}
                  /\ phase' = "done" => to = AtTheEnd
    BY <1>1, StepMoves
  <2>2. /\ pos' = to /\ base' = base /\ a' = a /\ b' = b
        /\ matchesA' = matchesA /\ matchesB' = matchesB
    BY <2>1 DEF emitChunk
  <2> DEFINE o == Block(base, pos.base, to.base)
             x == Block(a, pos.a, to.a)
  <2>3. PICK w \in Written :
            /\ out' = Append(out, w)
            /\ conflicts' = conflicts \/ conflicts' = conflicts + 1
            /\ agreed' = agreed \/ agreed' = agreed + Len(x) - Len(o)
    <3> HIDE DEF o, x
    <3> QED BY <2>1, ChunkWrites DEF o, x
  <2>4. Len(o) \in Nat /\ Len(x) \in Nat
    <3>1. o \in Files /\ x \in Files
      BY <2>1, ChunkFacts
    <3> HIDE DEF o, x
    <3> QED BY <3>1, FilesFacts
  <2>5. TypeOK'
    <3>1. out' \in Seq(Written)
      BY <2>3, AppendProperties DEF Aligned, TypeOK
    <3>2. conflicts' \in Nat
      BY <2>3 DEF Aligned, TypeOK
    <3>3. agreed' \in Int
      <4>1. agreed \in Int
        BY DEF Aligned, TypeOK
      <4> HIDE DEF o, x
      <4> QED BY <4>1, <2>3, <2>4
    <3>4. pos' \in [base : 0..Len(base), a : 0..Len(a), b : 0..Len(b)]
      BY <2>1, <2>2 DEF Moves, Positions
    <3>5. /\ base \in Files /\ a \in Files /\ b \in Files
          /\ matchesA \subseteq (0..MaxLines) \X (0..MaxLines)
          /\ matchesB \subseteq (0..MaxLines) \X (0..MaxLines)
      BY DEF Aligned, TypeOK
    <3>6. phase' \in {"chunks", "done", "panic"}
      BY <2>1
    <3> QED BY <3>1, <3>2, <3>3, <3>4, <3>5, <3>6, <2>2 DEF TypeOK
  <2>6. Best(matchesA, base, a)' /\ Best(matchesB, base, b)'
    BY <2>2 DEF Aligned
  <2>7. Cuts(pos)'
    BY <2>1, <2>2 DEF Moves, Cuts
  <2>8. (a = b => matchesA = matchesB /\ pos.a = pos.b)'
    BY <2>1, <2>2 DEF Aligned, Moves
  <2>9. (phase = "done" => pos = AtTheEnd)'
    BY <2>1, <2>2 DEF AtTheEnd
  <2> QED BY <2>5, <2>6, <2>7, <2>8, <2>9 DEF Aligned
<1>2. CASE UNCHANGED vars
  <2>1. /\ base' = base /\ a' = a /\ b' = b /\ matchesA' = matchesA /\ matchesB' = matchesB
        /\ pos' = pos /\ out' = out /\ conflicts' = conflicts /\ phase' = phase
        /\ agreed' = agreed
    BY <1>2 DEF vars
  <2>2. TypeOK'
    BY <2>1 DEF Aligned, TypeOK
  <2>3. Best(matchesA, base, a)' /\ Best(matchesB, base, b)' /\ Cuts(pos)'
    BY <2>1 DEF Aligned, Cuts
  <2>4. AtTheEnd' = AtTheEnd
    BY <2>1 DEF AtTheEnd
  <2> QED BY <2>1, <2>2, <2>3, <2>4 DEF Aligned
<1> QED BY <1>1, <1>2

LEMMA AlignedAlways == Spec => []Aligned
  BY AlignedInit, AlignedStep, PTL DEF Spec

\* Every position of writeChunks stays within its file: the loop over the
\* chunks never indexes past the lines that setup has read (diff3.go).
THEOREM TypeOKThm == Spec => []TypeOK
<1>1. Aligned => TypeOK
  BY DEF Aligned
<1> QED BY <1>1, AlignedAlways, PTL

\* For texts of any length: Diff is an edit script from the one to the other,
\* and none is shorter, because no pairing of equal lines is larger
\* (GetShortestPath and Backtrack of myers_differer.go).
THEOREM DiffsAreShortestThm == Spec => []DiffsAreShortest
<1>1. Aligned => DiffsAreShortest
  <2> SUFFICES ASSUME Aligned, ~DiffPanics(base, a)
               PROVE  Transforms(Diff(base, a), base, a) /\ Shortest(Diff(base, a), base, a)
    BY DEF DiffsAreShortest
  <2>1. /\ base \in Seq(Line) /\ a \in Seq(Line) /\ Len(base) \in Nat /\ Len(a) \in Nat
    BY AlignedFacts
  <2>2. Len(base) + Len(a) > 0
    BY <2>1, EmptySeq DEF DiffPanics
  <2> QED BY <2>1, <2>2, DiffFacts
<1> QED BY <1>1, AlignedAlways, PTL

-----------------------------------------------------------------------------
(* Lines that are kept *)

LEMMA KeptGrows ==
    ASSUME NEW L, NEW t \in Seq(L), NEW w \in Seq(L), NEW file, NEW lines,
           KeptIn(t, file, lines)
    PROVE  KeptIn(t \o w, file, lines)
<1>1. PICK at \in [lines -> DOMAIN t] :
            /\ \A j \in lines : t[at[j]] = file[j]
            /\ \A j, k \in lines : j < k => at[j] < at[k]
  BY DEF KeptIn
<1>2. /\ t \o w \in Seq(L) /\ Len(t) \in Nat /\ Len(w) \in Nat
      /\ Len(t \o w) = Len(t) + Len(w)
      /\ \A i \in 1..Len(t) : (t \o w)[i] = t[i]
  BY ConcatProperties, LenProperties
<1>3. /\ DOMAIN t = 1..Len(t) /\ DOMAIN (t \o w) = 1..(Len(t) + Len(w))
  BY <1>2, LenProperties
<1> DEFINE u == t \o w
<1>4. DOMAIN t \subseteq DOMAIN u /\ \A i \in DOMAIN t : u[i] = t[i]
  BY <1>2, <1>3
<1> HIDE DEF u
<1>5. at \in [lines -> DOMAIN u] /\ \A j \in lines : u[at[j]] = file[j]
  BY <1>1, <1>4
<1>6. KeptIn(u, file, lines)
  BY <1>1, <1>5 DEF KeptIn
<1> QED BY <1>6 DEF u

LEMMA KeptAppends ==
    ASSUME NEW L, NEW t \in Seq(L), NEW file \in Seq(L), NEW from \in Nat,
           NEW to \in from..Len(file), NEW lines,
           KeptIn(t, file, lines \cap (1..from))
    PROVE  KeptIn(t \o Block(file, from, to), file, lines \cap (1..to))
<1> DEFINE w == Block(file, from, to)
           u == t \o w
           before == lines \cap (1..from)
           after == lines \cap (1..to)
           n == Len(t)
<1>0. Len(file) \in Nat /\ to \in Nat /\ from <= to /\ n \in Nat /\ DOMAIN t = 1..n
  BY LenProperties
<1>1. PICK at \in [before -> DOMAIN t] :
            /\ \A j \in before : t[at[j]] = file[j]
            /\ \A j, k \in before : j < k => at[j] < at[k]
  BY DEF KeptIn
<1>2. /\ w \in Seq(L) /\ Len(w) = to - from
      /\ \A i \in 1..(to - from) : w[i] = file[from + i]
  BY BlockFacts
<1> HIDE DEF w
<1>3. /\ u \in Seq(L) /\ Len(u) = n + (to - from) /\ DOMAIN u = 1..(n + (to - from))
      /\ \A i \in 1..n : u[i] = t[i]
      /\ \A i \in 1..(to - from) : u[n + i] = w[i]
  <2>1. u \in Seq(L) /\ Len(u) = n + Len(w) /\ \A i \in 1..(n + Len(w)) :
            u[i] = IF i <= n THEN t[i] ELSE w[i - n]
    BY <1>2, ConcatProperties
  <2> HIDE DEF u, n
  <2>2. DOMAIN u = 1..(n + (to - from))
    BY <2>1, <1>2, LenProperties
  <2>3. \A i \in 1..n : u[i] = t[i]
    BY <2>1, <1>0, <1>2
  <2>4. \A i \in 1..(to - from) : u[n + i] = w[i]
    <3> SUFFICES ASSUME NEW i \in 1..(to - from) PROVE u[n + i] = w[i]
      OBVIOUS
    <3> DEFINE k == n + i
    <3>1. k \in 1..(n + (to - from)) /\ ~(k <= n) /\ k - n = i
      BY <1>0
    <3> HIDE DEF k
    <3>2. u[k] = w[k - n]
      BY <3>1, <2>1, <1>2
    <3> QED BY <3>1, <3>2 DEF k
  <2> QED BY <2>1, <2>2, <2>3, <2>4, <1>2
<1> HIDE DEF u, n
<1> DEFINE new == [j \in after |-> IF j <= from THEN at[j] ELSE n + (j - from)]
<1>4. ASSUME NEW j \in after
      PROVE  \/ j <= from /\ j \in before /\ new[j] = at[j] /\ new[j] \in 1..n /\ j \in Nat
             \/ j > from /\ j - from \in 1..(to - from) /\ new[j] = n + (j - from) /\ j \in Nat
  <2>1. j \in 1..to /\ j \in lines
    OBVIOUS
  <2>2. CASE j <= from
    <3>1. j \in before
      BY <2>1, <2>2, <1>0
    <3>2. at[j] \in 1..n
      <4> HIDE DEF before
      <4> QED BY <3>1, <1>0, <1>1
    <3>3. new[j] = at[j]
      BY <2>2
    <3> QED BY <2>1, <2>2, <3>1, <3>2, <3>3
  <2>3. CASE ~(j <= from)
    BY <2>1, <2>3, <1>0
  <2> QED BY <2>2, <2>3
<1>5. new \in [after -> DOMAIN u]
  <2>1. DOMAIN new = after /\ new = [j \in after |-> new[j]]
    OBVIOUS
  <2>2. ASSUME NEW j \in after PROVE new[j] \in DOMAIN u
    <3> HIDE DEF new, after, before
    <3>1. new[j] \in 1..n \/ (j - from \in 1..(to - from) /\ new[j] = n + (j - from))
      BY <1>4
    <3> QED BY <3>1, <1>0, <1>3
  <2> HIDE DEF new, after
  <2> QED BY <2>1, <2>2
<1>6. ASSUME NEW j \in after PROVE u[new[j]] = file[j]
  <2>1. CASE j <= from /\ j \in before /\ new[j] = at[j] /\ new[j] \in 1..n
    <3> HIDE DEF new, before, after
    <3> QED BY <2>1, <1>1, <1>3
  <2>2. CASE j > from /\ j - from \in 1..(to - from) /\ new[j] = n + (j - from) /\ j \in Nat
    <3> DEFINE i == j - from
    <3>1. i \in 1..(to - from) /\ from + i = j /\ new[j] = n + i
      BY <2>2
    <3> HIDE DEF i, new, after
    <3>2. u[n + i] = w[i] /\ w[i] = file[from + i]
      BY <3>1, <1>2, <1>3
    <3> QED BY <3>1, <3>2
  <2> HIDE DEF new, after, before
  <2> QED BY <2>1, <2>2, <1>4
<1>7. ASSUME NEW j \in after, NEW k \in after, j < k PROVE new[j] < new[k]
  <2> HIDE DEF new, after
  <2>1. CASE k <= from
    <3>1. j \in before /\ k \in before /\ new[j] = at[j] /\ new[k] = at[k]
      BY <2>1, <1>4, <1>7
    <3> HIDE DEF before
    <3> QED BY <3>1, <1>1, <1>7
  <2>2. CASE k > from
    <3> HIDE DEF before
    <3>1. new[k] = n + (k - from) /\ k - from \in 1..(to - from) /\ k \in Nat
      BY <2>2, <1>4
    <3>2. new[j] \in 1..n \/ (new[j] = n + (j - from) /\ j - from \in 1..(to - from) /\ j \in Nat)
      BY <1>4
    <3> QED BY <3>1, <3>2, <1>0, <1>7
  <2>3. k \in Nat
    BY <1>4
  <2> QED BY <2>1, <2>2, <2>3
<1>8. KeptIn(u, file, after)
  <2> HIDE DEF new, after
  <2> QED BY <1>5, <1>6, <1>7 DEF KeptIn
<1> QED BY <1>8 DEF u, w

\* A side that left a block alone inserted nothing there.
LEMMA UnchangedBlock ==
    ASSUME NEW L, NEW s \in Seq(L), NEW t \in Seq(L), NEW M, Best(M, s, t),
           NEW x \in Nat, NEW to \in x..Len(s), NEW y \in Nat, NEW till \in y..Len(t),
           Cut(M, x, y), Cut(M, to, till), Block(t, y, till) = Block(s, x, to)
    PROVE  Inserted(t, M) \cap (1..till) = Inserted(t, M) \cap (1..y)
<1> DEFINE n == to - x
<1>0. Len(s) \in Nat /\ Len(t) \in Nat
  BY LenProperties
<1>1. /\ Len(Block(s, x, to)) = to - x /\ Len(Block(t, y, till)) = till - y
      /\ \A i \in 1..(to - x) : Block(s, x, to)[i] = s[x + i]
      /\ \A i \in 1..(till - y) : Block(t, y, till)[i] = t[y + i]
  BY BlockFacts
<1>2. /\ n \in Nat /\ x + n = to /\ y + n = till /\ x + n <= Len(s) /\ y + n <= Len(t)
      /\ \A i \in 1..n : s[x + i] = t[y + i]
  <2>1. /\ n = to - x /\ n = till - y
        /\ to \in Nat /\ x <= to /\ to <= Len(s)
        /\ till \in Nat /\ y <= till /\ till <= Len(t)
    BY <1>0, <1>1
  <2>2. ASSUME NEW i \in 1..n PROVE s[x + i] = t[y + i]
    <3> DEFINE w == Block(s, x, to)
    <3>1. w[i] = s[x + i]
      BY <1>1
    <3>2. w[i] = t[y + i]
      <4>1. i \in 1..(till - y)
        BY <2>1
      <4> QED BY <4>1, <1>1
    <3> HIDE DEF w
    <3> QED BY <3>1, <3>2
  <2> HIDE DEF n
  <2>3. n \in Nat /\ x + n = to /\ y + n = till
    BY <2>1
  <2> QED BY <2>1, <2>2, <2>3
<1> HIDE DEF n
<1>3. AllPaired(M, x, y, n)
  <2>1. Cut(M, x + n, y + n)
    BY <1>2
  <2> QED BY <2>1, <1>2, EqualBlock
<1>4. ASSUME NEW j \in Inserted(t, M), j \in 1..till PROVE j \in 1..y
  <2>1. SUFFICES ASSUME j \notin 1..y PROVE FALSE
    OBVIOUS
  <2> DEFINE i == j - 1
  <2>2. i \in y..(y + n - 1)
    BY <2>1, <1>2, <1>4
  <2>3. \E m \in M : m[2] = i
    <3> HIDE DEF i
    <3> QED BY <2>2, <1>3 DEF AllPaired
  <2>4. \A m \in M : m[2] # i
    BY DEF Inserted
  <2> QED BY <2>3, <2>4
<1>5. 1..y \subseteq 1..till
  BY <1>0
<1> QED BY <1>4, <1>5

\* Equal files are at the same line.
LEMMA SamePlace ==
    ASSUME NEW L, NEW s \in Seq(L), NEW M, Best(M, s, s),
           NEW x \in 0..Len(s), NEW y \in 0..Len(s), Cut(M, x, y)
    PROVE  x = y
<1>0. Len(s) \in Nat /\ x \in Nat /\ y \in Nat
  BY LenProperties
<1>1. ASSUME NEW i \in 0..(Len(s) - 1) PROVE i < x <=> i < y
  <2> DEFINE p == <<i, i>>
  <2>1. p \in M /\ p[1] = i /\ p[2] = i
    BY SameFile
  <2> HIDE DEF p
  <2> QED BY <2>1 DEF Cut
<1>2. ~(x < y)
  <2>1. SUFFICES ASSUME x < y PROVE FALSE
    OBVIOUS
  <2>2. x \in 0..(Len(s) - 1)
    BY <2>1, <1>0
  <2> QED BY <2>1, <2>2, <1>0, <1>1
<1>3. ~(y < x)
  <2>1. SUFFICES ASSUME y < x PROVE FALSE
    OBVIOUS
  <2>2. y \in 0..(Len(s) - 1)
    BY <2>1, <1>0
  <2> QED BY <2>1, <2>2, <1>0, <1>1
<1> QED BY <1>0, <1>2, <1>3

\* The lines of a list of written blocks, for one side.
Lines(q, r) == FlattenSeq([i \in 1..Len(q) |-> q[i][r]])

LEMMA LinesAppend ==
    ASSUME NEW q \in Seq(Written), NEW w \in Written, NEW r \in {"ours", "theirs"},
           Lines(q, r) \in Seq(Line)
    PROVE  Lines(Append(q, w), r) = Lines(q, r) \o w[r] /\ w[r] \in Seq(Line)
<1> DEFINE ss == [i \in 1..Len(q) |-> q[i][r]]
           more == Append(q, w)
           longer == [i \in 1..Len(more) |-> more[i][r]]
           n == Len(q)
<1>0. n \in Nat
  BY LenProperties
<1>1. ASSUME NEW v \in Written PROVE v[r] \in Seq(Line)
  <2>1. v[r] \in Files
    BY DEF Written
  <2> QED BY <2>1, FilesFacts
<1>2. /\ Len(more) = n + 1 /\ more[n + 1] = w
      /\ \A i \in 1..n : more[i] = q[i] /\ q[i] \in Written
  <2>1. Len(more) = n + 1 /\ more[n + 1] = w /\ \A i \in 1..n : more[i] = q[i]
    BY AppendProperties
  <2>2. \A i \in 1..n : q[i] \in Written
    BY ElementOfSeq
  <2> QED BY <2>1, <2>2
<1> HIDE DEF n, more
<1>3. ss \in Seq(Seq(Line)) /\ Len(ss) = n /\ \A i \in 1..n : ss[i] = q[i][r]
  <2>1. \A i \in 1..n : q[i][r] \in Seq(Line)
    BY <1>1, <1>2
  <2>2. ss = [i \in 1..n |-> q[i][r]]
    BY DEF n
  <2>3. ss \in Seq(Seq(Line))
    <3> HIDE DEF ss
    <3> QED BY <2>1, <2>2, <1>0, IsASeq
  <2>4. DOMAIN ss = 1..n /\ \A i \in 1..n : ss[i] = q[i][r]
    BY <2>2
  <2> HIDE DEF ss
  <2>5. Len(ss) = n
    BY <2>3, <2>4, <1>0, LenProperties
  <2> QED BY <2>3, <2>4, <2>5
<1>4. longer = Append(ss, w[r])
  <2> DEFINE app == Append(ss, w[r])
  <2>1. w[r] \in Seq(Line)
    BY <1>1
  <2> HIDE DEF ss
  <2>2. /\ app \in Seq(Seq(Line)) /\ Len(app) = n + 1
        /\ \A i \in 1..n : app[i] = ss[i]
        /\ app[n + 1] = w[r]
    BY <2>1, <1>3, AppendProperties
  <2>3. DOMAIN app = 1..(n + 1) /\ app = [i \in 1..(n + 1) |-> app[i]]
    <3> HIDE DEF app
    <3>1. DOMAIN app = 1..(n + 1)
      BY <2>2, <1>0, LenProperties
    <3>2. app \in [1..(n + 1) -> Seq(Line)]
      BY <2>2, LenProperties
    <3> QED BY <3>1, <3>2
  <2>4. longer = [i \in 1..(n + 1) |-> more[i][r]]
    BY <1>2
  <2>5. \A i \in 1..(n + 1) : app[i] = more[i][r]
    <3> SUFFICES ASSUME NEW i \in 1..(n + 1) PROVE app[i] = more[i][r]
      OBVIOUS
    <3> HIDE DEF app
    <3>1. CASE i = n + 1
      BY <3>1, <2>2, <1>2
    <3>2. CASE i # n + 1
      <4>1. i \in 1..n
        BY <3>2, <1>0
      <4> QED BY <4>1, <2>2, <1>2, <1>3
    <3> QED BY <3>1, <3>2
  <2> HIDE DEF app, longer
  <2> QED BY <2>3, <2>4, <2>5 DEF app
<1>5. w[r] \in Seq(Line)
  BY <1>1
<1>6. FlattenSeq(ss) \in Seq(Line)
  BY DEF Lines, n
<1> HIDE DEF ss, longer
<1>7. FlattenSeq(longer) = FlattenSeq(ss) \o w[r]
  BY <1>3, <1>4, <1>5, <1>6, FlattenAppend
<1>8. Lines(more, r) = FlattenSeq(longer) /\ Lines(q, r) = FlattenSeq(ss)
  BY DEF Lines, ss, longer
<1> QED BY <1>5, <1>7, <1>8 DEF more

-----------------------------------------------------------------------------
(* The output so far *)

\* The output holds what the sides inserted up to the position, its length is
\* what they added and removed, and where a side is base, or both are equal, it
\* is a side.
Produced ==
    /\ Side("ours") \in Seq(Line) /\ Side("theirs") \in Seq(Line)
    /\ KeptIn(Side("ours"), a, Inserted(a, matchesA) \cap (1..pos.a))
    /\ KeptIn(Side("theirs"), b, Inserted(b, matchesB) \cap (1..pos.b))
    /\ conflicts = 0 => Len(Side("ours")) = pos.a + pos.b - pos.base - agreed
    /\ a = base => conflicts = 0 /\ Side("ours") = SubSeq(b, 1, pos.b)
    /\ b = base => conflicts = 0 /\ Side("ours") = SubSeq(a, 1, pos.a)
    /\ a = b => conflicts = 0 /\ Side("ours") = SubSeq(a, 1, pos.a)

LEMMA ProducedInit == Init => Produced
<1> SUFFICES ASSUME Init PROVE Produced
  OBVIOUS
<1>1. out = <<>> /\ pos.base = 0 /\ pos.a = 0 /\ pos.b = 0 /\ conflicts = 0 /\ agreed = 0
  BY DEF Init
<1>2. Side("ours") = <<>> /\ Side("theirs") = <<>> /\ <<>> \in Seq(Line) /\ Len(<<>>) = 0
  <2> DEFINE ss == [i \in 1..Len(out) |-> out[i]["ours"]]
             ts == [i \in 1..Len(out) |-> out[i]["theirs"]]
  <2>1. ss = <<>> /\ ts = <<>>
    BY <1>1
  <2> HIDE DEF ss, ts
  <2>2. FlattenSeq(ss) = <<>> /\ FlattenSeq(ts) = <<>>
    BY <2>1 DEF FlattenSeq
  <2> QED BY <2>2, EmptySeq DEF Side, ss, ts
<1>3. ASSUME NEW file, NEW lines
      PROVE  KeptIn(<<>>, file, lines \cap (1..0)) /\ SubSeq(file, 1, 0) = <<>>
  <2>1. lines \cap (1..0) = {}
    OBVIOUS
  <2> DEFINE at == [j \in {} |-> j]
  <2>2. at \in [{} -> DOMAIN <<>>]
    OBVIOUS
  <2>3. KeptIn(<<>>, file, {})
    <3> HIDE DEF at
    <3> QED BY <2>2 DEF KeptIn
  <2>4. SubSeq(file, 1, 0) = <<>>
    <3>1. 1 \in Int /\ 0 \in Int /\ 0 < 1
      OBVIOUS
    <3> QED BY <3>1, SubSeqEmpty
  <2> QED BY <2>1, <2>3, <2>4
<1>4. /\ KeptIn(Side("ours"), a, Inserted(a, matchesA) \cap (1..pos.a))
      /\ KeptIn(Side("theirs"), b, Inserted(b, matchesB) \cap (1..pos.b))
  <2>1. /\ KeptIn(<<>>, a, Inserted(a, matchesA) \cap (1..0))
        /\ KeptIn(<<>>, b, Inserted(b, matchesB) \cap (1..0))
    BY <1>3
  <2> QED BY <2>1, <1>1, <1>2
<1>5. SubSeq(a, 1, pos.a) = <<>> /\ SubSeq(b, 1, pos.b) = <<>>
  <2>1. SubSeq(a, 1, 0) = <<>> /\ SubSeq(b, 1, 0) = <<>>
    BY <1>3
  <2> QED BY <2>1, <1>1
<1>6. Len(Side("ours")) = pos.a + pos.b - pos.base - agreed
  <2>1. Len(Side("ours")) = 0
    BY <1>2
  <2>2. pos.a + pos.b - pos.base - agreed = 0
    BY <1>1
  <2> QED BY <2>1, <2>2
<1> QED BY <1>1, <1>2, <1>4, <1>5, <1>6 DEF Produced

LEMMA ProducedStep == Aligned /\ Produced /\ [Next]_vars => Produced'
<1> SUFFICES ASSUME Aligned, Produced, [Next]_vars PROVE Produced'
  OBVIOUS
<1>1. CASE Next
  <2>1. PICK to : Moves(to) /\ emitChunk(to)
    BY <1>1, StepMoves
  <2>2. /\ pos' = to /\ base' = base /\ a' = a /\ b' = b
        /\ matchesA' = matchesA /\ matchesB' = matchesB
    BY <2>1 DEF emitChunk
  <2> DEFINE o == Block(base, pos.base, to.base)
             x == Block(a, pos.a, to.a)
             y == Block(b, pos.b, to.b)
             ours == Side("ours")
             theirs == Side("theirs")
  <2>3. PICK w \in Written :
            /\ out' = Append(out, w)
            /\ \/ /\ x = o /\ w.ours = y /\ w.theirs = y
                  /\ conflicts' = conflicts /\ agreed' = agreed
               \/ /\ x # o /\ y = o /\ w.ours = x /\ w.theirs = x
                  /\ conflicts' = conflicts /\ agreed' = agreed
               \/ /\ x # o /\ y # o /\ x = y /\ w.ours = x /\ w.theirs = x
                  /\ conflicts' = conflicts /\ agreed' = agreed + Len(x) - Len(o)
               \/ /\ x # o /\ y # o /\ x # y /\ w.ours = x /\ w.theirs = y
                  /\ conflicts' = conflicts + 1 /\ agreed' = agreed
    <3> HIDE DEF o, x, y
    <3> QED BY <2>1, ChunkWrites DEF o, x, y
  <2>4. /\ base \in Seq(Line) /\ a \in Seq(Line) /\ b \in Seq(Line)
        /\ Best(matchesA, base, a) /\ Best(matchesB, base, b)
        /\ pos.base \in Nat /\ pos.a \in Nat /\ pos.b \in Nat
        /\ pos.base \in 0..Len(base) /\ pos.a \in 0..Len(a) /\ pos.b \in 0..Len(b)
        /\ conflicts \in Nat /\ agreed \in Int /\ out \in Seq(Written)
    BY AlignedFacts DEF Aligned, TypeOK
  <2>5. /\ to.base \in Nat /\ to.base \in pos.base..Len(base)
        /\ to.a \in Nat /\ to.a \in pos.a..Len(a)
        /\ to.b \in Nat /\ to.b \in pos.b..Len(b)
        /\ to.base \in 0..Len(base) /\ to.a \in 0..Len(a) /\ to.b \in 0..Len(b)
    BY <2>1, ChunkFacts DEF Moves, Positions
  <2>6. /\ o \in Seq(Line) /\ Len(o) = to.base - pos.base
        /\ x \in Seq(Line) /\ Len(x) = to.a - pos.a
        /\ y \in Seq(Line) /\ Len(y) = to.b - pos.b
        /\ SubSeq(a, 1, pos.a) \o x = SubSeq(a, 1, to.a)
        /\ SubSeq(b, 1, pos.b) \o y = SubSeq(b, 1, to.b)
    <3>1. o \in Seq(Line) /\ Len(o) = to.base - pos.base
      BY <2>4, <2>5, BlockFacts, ZenonT(40)
    <3>2. x \in Seq(Line) /\ Len(x) = to.a - pos.a /\ SubSeq(a, 1, pos.a) \o x = SubSeq(a, 1, to.a)
      BY <2>4, <2>5, BlockFacts, ZenonT(40)
    <3>3. y \in Seq(Line) /\ Len(y) = to.b - pos.b /\ SubSeq(b, 1, pos.b) \o y = SubSeq(b, 1, to.b)
      BY <2>4, <2>5, BlockFacts, ZenonT(40)
    <3> HIDE DEF o, x, y
    <3> QED BY <3>1, <3>2, <3>3
  <2>7. ours \in Seq(Line) /\ theirs \in Seq(Line)
    BY DEF Produced
  <2>8. /\ ours' = ours \o w.ours /\ theirs' = theirs \o w.theirs
        /\ w.ours \in Seq(Line) /\ w.theirs \in Seq(Line)
    <3>1. /\ ours = Lines(out, "ours") /\ theirs = Lines(out, "theirs")
          /\ ours' = Lines(out', "ours") /\ theirs' = Lines(out', "theirs")
      BY DEF Side, Lines
    <3>2. /\ Lines(Append(out, w), "ours") = Lines(out, "ours") \o w["ours"]
          /\ w["ours"] \in Seq(Line)
      <4> HIDE DEF ours, theirs
      <4> QED BY <2>4, <2>7, <3>1, LinesAppend
    <3>3. /\ Lines(Append(out, w), "theirs") = Lines(out, "theirs") \o w["theirs"]
          /\ w["theirs"] \in Seq(Line)
      <4> HIDE DEF ours, theirs
      <4> QED BY <2>4, <2>7, <3>1, LinesAppend
    <3> HIDE DEF ours, theirs
    <3> QED BY <3>1, <3>2, <3>3, <2>3
  <2>9. ours' \in Seq(Line) /\ theirs' \in Seq(Line)
    <3> HIDE DEF ours, theirs
    <3> QED BY <2>7, <2>8, ConcatProperties
  <2>10. Cut(matchesA, pos.base, pos.a) /\ Cut(matchesB, pos.base, pos.b)
         /\ Cut(matchesA, to.base, to.a) /\ Cut(matchesB, to.base, to.b)
    BY <2>1 DEF Aligned, Moves, Cuts
  <2>11. /\ KeptIn(ours, a, Inserted(a, matchesA) \cap (1..pos.a))
         /\ KeptIn(theirs, b, Inserted(b, matchesB) \cap (1..pos.b))
    BY DEF Produced
  <2>12. KeptIn(ours', a, Inserted(a, matchesA) \cap (1..to.a))
    <3>1. CASE w.ours = x
      <4>1. KeptIn(ours \o x, a, Inserted(a, matchesA) \cap (1..to.a))
        <5> HIDE DEF ours
        <5> QED BY <2>4, <2>5, <2>7, <2>11, KeptAppends
      <4> HIDE DEF ours, x
      <4> QED BY <4>1, <3>1, <2>8
    <3>2. CASE x = o
      <4>1. Inserted(a, matchesA) \cap (1..to.a) = Inserted(a, matchesA) \cap (1..pos.a)
        BY <3>2, <2>4, <2>5, <2>10, UnchangedBlock
      <4> DEFINE v == w.ours
      <4>2. v \in Seq(Line)
        BY <2>8
      <4> HIDE DEF ours, v
      <4>3. KeptIn(ours \o v, a, Inserted(a, matchesA) \cap (1..pos.a))
        BY <4>2, <2>7, <2>11, KeptGrows
      <4> QED BY <4>1, <4>3, <2>8 DEF v
    <3> HIDE DEF x, o, y
    <3> QED BY <3>1, <3>2, <2>3
  <2>13. KeptIn(theirs', b, Inserted(b, matchesB) \cap (1..to.b))
    <3>1. CASE w.theirs = y
      <4>1. KeptIn(theirs \o y, b, Inserted(b, matchesB) \cap (1..to.b))
        <5> HIDE DEF theirs
        <5> QED BY <2>4, <2>5, <2>7, <2>11, KeptAppends
      <4> HIDE DEF theirs, y
      <4> QED BY <4>1, <3>1, <2>8
    <3>2. CASE y = o
      <4>1. Inserted(b, matchesB) \cap (1..to.b) = Inserted(b, matchesB) \cap (1..pos.b)
        BY <3>2, <2>4, <2>5, <2>10, UnchangedBlock
      <4> DEFINE v == w.theirs
      <4>2. v \in Seq(Line)
        BY <2>8
      <4> HIDE DEF theirs, v
      <4>3. KeptIn(theirs \o v, b, Inserted(b, matchesB) \cap (1..pos.b))
        BY <4>2, <2>7, <2>11, KeptGrows
      <4> QED BY <4>1, <4>3, <2>8 DEF v
    <3> HIDE DEF x, o, y
    <3> QED BY <3>1, <3>2, <2>3
  <2>14. conflicts' = 0 => Len(ours') = to.a + to.b - to.base - agreed'
    <3>1. Len(ours') = Len(ours) + Len(w.ours) /\ Len(ours) \in Nat
      <4> DEFINE v == w.ours
      <4>1. v \in Seq(Line) /\ ours' = ours \o v
        BY <2>8
      <4> HIDE DEF ours, v
      <4>2. Len(ours \o v) = Len(ours) + Len(v) /\ Len(ours) \in Nat
        BY <4>1, <2>7, ConcatProperties, LenProperties
      <4> QED BY <4>1, <4>2 DEF v
    <3>2. SUFFICES ASSUME conflicts' = 0
                   PROVE  Len(ours') = to.a + to.b - to.base - agreed'
      OBVIOUS
    <3>3. conflicts = 0 /\ conflicts' = conflicts
      BY <3>2, <2>3, <2>4
    <3>4. Len(ours) = pos.a + pos.b - pos.base - agreed
      BY <3>3 DEF Produced
    <3> DEFINE n == Len(ours)
               k == Len(w.ours)
               lo == Len(o)
               lx == Len(x)
               ly == Len(y)
    <3>5. \/ lx = lo /\ k = ly /\ agreed' = agreed
          \/ ly = lo /\ k = lx /\ agreed' = agreed
          \/ lx = ly /\ k = lx /\ agreed' = agreed + lx - lo
      <4>1. conflicts' # conflicts + 1
        BY <3>3
      <4> HIDE DEF o, x, y
      <4> QED BY <4>1, <2>3
    <3>6. lo = to.base - pos.base /\ lx = to.a - pos.a /\ ly = to.b - pos.b
      BY <2>6
    <3>7. n = pos.a + pos.b - pos.base - agreed /\ n \in Nat
      BY <3>1, <3>4
    <3> HIDE DEF n, k, lo, lx, ly
    <3> DEFINE p1 == pos.base
               p2 == pos.a
               p3 == pos.b
               t1 == to.base
               t2 == to.a
               t3 == to.b
    <3>8. /\ p1 \in Int /\ p2 \in Int /\ p3 \in Int /\ t1 \in Int /\ t2 \in Int /\ t3 \in Int
          /\ lo = t1 - p1 /\ lx = t2 - p2 /\ ly = t3 - p3
          /\ n = p2 + p3 - p1 - agreed /\ agreed \in Int
      <4>1. /\ p1 \in Int /\ p2 \in Int /\ p3 \in Int /\ t1 \in Int /\ t2 \in Int /\ t3 \in Int
            /\ agreed \in Int
        BY <2>4, <2>5
      <4>2. lo = t1 - p1 /\ lx = t2 - p2 /\ ly = t3 - p3 /\ n = p2 + p3 - p1 - agreed
        BY <3>6, <3>7
      <4> HIDE DEF p1, p2, p3, t1, t2, t3
      <4> QED BY <4>1, <4>2
    <3> HIDE DEF p1, p2, p3, t1, t2, t3
    <3>9. n + k = t2 + t3 - t1 - agreed'
      BY <3>5, <3>8
    <3> QED BY <3>1, <3>9 DEF n, k, t1, t2, t3
  <2>15. a = base => conflicts' = 0 /\ ours' = SubSeq(b, 1, to.b)
    <3>1. SUFFICES ASSUME a = base PROVE conflicts' = 0 /\ ours' = SubSeq(b, 1, to.b)
      OBVIOUS
    <3>2. pos.a = pos.base /\ to.a = to.base
      <4>1. /\ Best(matchesA, base, base)
            /\ pos.a \in 0..Len(base) /\ to.a \in 0..Len(base)
        BY <3>1, <2>4, <2>5
      <4> DEFINE p1 == pos.base
                 p2 == pos.a
                 t1 == to.base
                 t2 == to.a
      <4>2. /\ p1 \in 0..Len(base) /\ p2 \in 0..Len(base) /\ Cut(matchesA, p1, p2)
            /\ t1 \in 0..Len(base) /\ t2 \in 0..Len(base) /\ Cut(matchesA, t1, t2)
        BY <4>1, <2>4, <2>5, <2>10
      <4> HIDE DEF p1, p2, t1, t2
      <4>3. p1 = p2 /\ t1 = t2
        BY <4>1, <4>2, <2>4, SamePlace
      <4> QED BY <4>3 DEF p1, p2, t1, t2
    <3>3. x = o
      BY <3>1, <3>2
    <3>4. conflicts = 0 /\ ours = SubSeq(b, 1, pos.b)
      BY <3>1 DEF Produced
    <3>5. w.ours = y /\ conflicts' = conflicts
      <4> HIDE DEF x, o, y
      <4> QED BY <3>3, <2>3
    <3> HIDE DEF y, ours
    <3> QED BY <3>4, <3>5, <2>6, <2>8
  <2>16. b = base => conflicts' = 0 /\ ours' = SubSeq(a, 1, to.a)
    <3>1. SUFFICES ASSUME b = base PROVE conflicts' = 0 /\ ours' = SubSeq(a, 1, to.a)
      OBVIOUS
    <3>2. pos.b = pos.base /\ to.b = to.base
      <4>1. /\ Best(matchesB, base, base)
            /\ pos.b \in 0..Len(base) /\ to.b \in 0..Len(base)
        BY <3>1, <2>4, <2>5
      <4> DEFINE p1 == pos.base
                 p2 == pos.b
                 t1 == to.base
                 t2 == to.b
      <4>2. /\ p1 \in 0..Len(base) /\ p2 \in 0..Len(base) /\ Cut(matchesB, p1, p2)
            /\ t1 \in 0..Len(base) /\ t2 \in 0..Len(base) /\ Cut(matchesB, t1, t2)
        BY <4>1, <2>4, <2>5, <2>10
      <4> HIDE DEF p1, p2, t1, t2
      <4>3. p1 = p2 /\ t1 = t2
        BY <4>1, <4>2, <2>4, SamePlace
      <4> QED BY <4>3 DEF p1, p2, t1, t2
    <3>3. y = o
      BY <3>1, <3>2
    <3>4. conflicts = 0 /\ ours = SubSeq(a, 1, pos.a)
      BY <3>1 DEF Produced
    <3>5. w.ours = x /\ conflicts' = conflicts
      <4> HIDE DEF x, o, y
      <4> QED BY <3>3, <2>3
    <3> HIDE DEF x, ours
    <3> QED BY <3>4, <3>5, <2>6, <2>8
  <2>17. a = b => conflicts' = 0 /\ ours' = SubSeq(a, 1, to.a)
    <3>1. SUFFICES ASSUME a = b PROVE conflicts' = 0 /\ ours' = SubSeq(a, 1, to.a)
      OBVIOUS
    <3>2. pos.a = pos.b /\ to.a = to.b
      BY <3>1, <2>1 DEF Aligned, Moves
    <3>3. y = x
      BY <3>1, <3>2
    <3>4. conflicts = 0 /\ ours = SubSeq(a, 1, pos.a)
      BY <3>1 DEF Produced
    <3>5. w.ours = x /\ conflicts' = conflicts
      <4> HIDE DEF x, o, y
      <4> QED BY <3>3, <2>3
    <3> HIDE DEF x, ours
    <3> QED BY <3>4, <3>5, <2>6, <2>8
  <2> QED BY <2>2, <2>9, <2>12, <2>13, <2>14, <2>15, <2>16, <2>17 DEF Produced
<1>2. CASE UNCHANGED vars
  <2>1. /\ base' = base /\ a' = a /\ b' = b /\ matchesA' = matchesA /\ matchesB' = matchesB
        /\ pos' = pos /\ conflicts' = conflicts /\ agreed' = agreed
        /\ Side("ours")' = Side("ours") /\ Side("theirs")' = Side("theirs")
    BY <1>2 DEF vars, Side
  <2> QED BY <2>1 DEF Produced
<1> QED BY <1>1, <1>2

LEMMA ProducedAlways == Spec => []Produced
  BY AlignedAlways, ProducedInit, ProducedStep, PTL DEF Spec

\* A side that changed nothing causes no conflict and does not hide the other,
\* and equal sides agree: writeChunk tests whether a side left the block alone,
\* and the matches of an unchanged side are those of base with itself (diff3.go).
THEOREM CleanMergesThm == Spec => []CleanMerges
<1>1. Aligned /\ Produced => CleanMerges
  <2> SUFFICES ASSUME Aligned, Produced, phase = "done"
               PROVE  /\ a = base => conflicts = 0 /\ Side("ours") = b
                      /\ b = base => conflicts = 0 /\ Side("ours") = a
                      /\ a = b => conflicts = 0 /\ Side("ours") = a
    BY DEF CleanMerges
  <2>1. pos.a = Len(a) /\ pos.b = Len(b)
    BY DEF Aligned, AtTheEnd
  <2>2. SubSeq(a, 1, Len(a)) = a /\ SubSeq(b, 1, Len(b)) = b
    BY AlignedFacts, SubSeqFull
  <2> QED BY <2>1, <2>2 DEF Produced
<1> QED BY <1>1, AlignedAlways, ProducedAlways, PTL

\* The lines that a side inserted are in the output, in their order, and the
\* output of a merge without conflicts is as long as both changes make it: a
\* chunk that is taken from the other side holds no inserted line, or the diff
\* would not have been a shortest one (writeChunks and writeChunk of diff3.go).
THEOREM EditsAreKeptThm == Spec => []EditsAreKept
<1>1. Aligned /\ Produced => EditsAreKept
  <2> SUFFICES ASSUME Aligned, Produced, phase = "done"
               PROVE  /\ KeptIn(Side("ours"), a, Inserted(a, matchesA))
                      /\ KeptIn(Side("theirs"), b, Inserted(b, matchesB))
                      /\ conflicts = 0 =>
                            Len(Side("ours")) = Len(a) + Len(b) - Len(base) - agreed
    BY DEF EditsAreKept
  <2>1. pos.base = Len(base) /\ pos.a = Len(a) /\ pos.b = Len(b)
    BY DEF Aligned, AtTheEnd
  <2>2. /\ Inserted(a, matchesA) \cap (1..Len(a)) = Inserted(a, matchesA)
        /\ Inserted(b, matchesB) \cap (1..Len(b)) = Inserted(b, matchesB)
    BY DEF Inserted
  <2> QED BY <2>1, <2>2 DEF Produced
<1> QED BY <1>1, AlignedAlways, ProducedAlways, PTL

=============================================================================
