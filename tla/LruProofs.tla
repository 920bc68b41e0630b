----------------------------- MODULE LruProofs ------------------------------
(***************************************************************************)
(* Proofs about the caches, for every set of items, keys, sizes and bound, *)
(* and for every way in which hashes follow from contents.                 *)
(*                                                                         *)
(* For the order of eviction it does not matter what the sizes add up to,  *)
(* nor what the keys are: wherever the loop of Put stops, it has dropped   *)
(* the end of the list.  For the bound the sums of the beginnings of the   *)
(* list do, and for the map that a call of Hash changes no Hash.           *)
(***************************************************************************)
EXTENDS LruCache, TLAPS, SequenceTheorems, WellFoundedInduction

-----------------------------------------------------------------------------
(* Lists of distinct elements *)

Elems(s) == {s[i] : i \in 1..Len(s)}

Distinct(s) == \A i, j \in 1..Len(s) : s[i] = s[j] => i = j

\* The elements of list s appear in the order of their last use, l.
Ordered(s, l) ==
    \A i, j \in 1..Len(s) : i < j => <<s[i], s[j]>> \in l

\* A set of numbers has a smallest one.
LEMMA SmallestNat ==
    ASSUME NEW T, T \subseteq Nat, T # {}
    PROVE  \E n \in T : \A m \in T : n <= m
<1>1. PICK n \in T : \A m \in T : <<m, n>> \notin OpToRel(<, Nat)
  BY NatLessThanWellFounded, WFMin
<1>2. ASSUME NEW m \in T PROVE n <= m
  <2>1. <<m, n>> \in Nat \X Nat /\ <<m, n>>[1] = m /\ <<m, n>>[2] = n
    OBVIOUS
  <2>2. <<m, n>> \notin {p \in Nat \X Nat : p[1] < p[2]}
    BY <1>1, Zenon DEF OpToRel
  <2>3. ~(m < n)
    BY <2>1, <2>2
  <2> QED BY <2>3
<1> QED BY <1>2

\* The loop of Put keeps a beginning of the list, one that fits if any does.
LEMMA KeptIsLength ==
    ASSUME NEW s \in Seq(Elem), NEW n, NEW w
    PROVE  /\ Kept(s, n, w) \in 0..Len(s)
           /\ \A k \in 0..Len(s) : Fits(s, n, w, k) => Fits(s, n, w, Kept(s, n, w))
<1> DEFINE fitting == {kept \in 0..Len(s) : Fits(s, n, w, kept)}
<1>1. CASE fitting = {}
  BY <1>1, LenProperties DEF Kept
<1>2. CASE fitting # {}
  <2> DEFINE dropped == {Len(s) - kept : kept \in fitting}
  <2>0. Len(s) \in Nat /\ fitting \subseteq 0..Len(s)
    BY LenProperties
  <2>1. dropped \subseteq Nat /\ dropped # {}
    BY <1>2, <2>0
  <2>2. PICK d \in dropped : \A e \in dropped : d <= e
    <3> HIDE DEF dropped
    <3> QED BY <2>1, SmallestNat
  <2>3. PICK kept \in fitting : d = Len(s) - kept
    OBVIOUS
  <2>4. \A k \in fitting : k <= kept
    <3> SUFFICES ASSUME NEW k \in fitting PROVE k <= kept
      OBVIOUS
    <3>1. Len(s) - kept <= Len(s) - k
      BY <2>2, <2>3
    <3> HIDE DEF fitting
    <3> QED BY <3>1, <2>0
  <2>5. Kept(s, n, w) = CHOOSE k \in fitting : \A j \in fitting : j <= k
    BY <1>2 DEF Kept
  <2>6. Kept(s, n, w) \in fitting
    <3> HIDE DEF fitting
    <3> QED BY <2>4, <2>5
  <2> QED BY <2>6
<1> QED BY <1>1, <1>2

\* A beginning and the rest of a list.
LEMMA SplitAt ==
    ASSUME NEW s \in Seq(Elem), NEW n \in 0..Len(s)
    PROVE  /\ SubSeq(s, 1, n) \in Seq(Elem)
           /\ Len(SubSeq(s, 1, n)) = n
           /\ \A i \in 1..n : SubSeq(s, 1, n)[i] = s[i]
           /\ SubSeq(s, n + 1, Len(s)) \in Seq(Elem)
           /\ Len(SubSeq(s, n + 1, Len(s))) = Len(s) - n
           /\ \A i \in 1..(Len(s) - n) : SubSeq(s, n + 1, Len(s))[i] = s[n + i]
<1>1. Len(s) \in Nat /\ \A i \in 1..Len(s) : s[i] \in Elem
  BY LenProperties, ElementOfSeq
<1>2. n \in Int /\ n + 1 \in Int /\ Len(s) \in Int /\ 1 \in Int
  BY <1>1
<1>3. /\ \A i \in 1..n : s[i] \in Elem
      /\ \A i \in (n + 1)..Len(s) : s[i] \in Elem
  BY <1>1
<1>4. /\ SubSeq(s, 1, n) \in Seq(Elem)
      /\ Len(SubSeq(s, 1, n)) = IF 1 <= n THEN n - 1 + 1 ELSE 0
      /\ \A i \in 1..(n - 1 + 1) : SubSeq(s, 1, n)[i] = s[1 + i - 1]
  BY <1>2, <1>3, SubSeqProperties
<1>5. /\ SubSeq(s, n + 1, Len(s)) \in Seq(Elem)
      /\ Len(SubSeq(s, n + 1, Len(s))) = IF n + 1 <= Len(s) THEN Len(s) - (n + 1) + 1 ELSE 0
      /\ \A i \in 1..(Len(s) - (n + 1) + 1) :
            SubSeq(s, n + 1, Len(s))[i] = s[n + 1 + i - 1]
  BY <1>2, <1>3, SubSeqProperties
<1>6. Len(SubSeq(s, 1, n)) = n /\ Len(SubSeq(s, n + 1, Len(s))) = Len(s) - n
  BY <1>1, <1>4, <1>5
<1>7. ASSUME NEW i \in 1..n PROVE SubSeq(s, 1, n)[i] = s[i]
  <2>1. i \in 1..(n - 1 + 1) /\ 1 + i - 1 = i
    BY <1>2
  <2> QED BY <1>4, <2>1
<1>8. ASSUME NEW i \in 1..(Len(s) - n) PROVE SubSeq(s, n + 1, Len(s))[i] = s[n + i]
  <2>1. i \in 1..(Len(s) - (n + 1) + 1) /\ n + 1 + i - 1 = n + i
    BY <1>1
  <2> QED BY <1>5, <2>1
<1> QED BY <1>4, <1>5, <1>6, <1>7, <1>8

\* An element put in front.
LEMMA PutInFront ==
    ASSUME NEW s \in Seq(Elem), NEW x \in Elem
    PROVE  /\ <<x>> \o s \in Seq(Elem)
           /\ Len(<<x>> \o s) = Len(s) + 1
           /\ (<<x>> \o s)[1] = x
           /\ \A i \in 1..Len(s) : (<<x>> \o s)[i + 1] = s[i]
<1>1. <<x>> \in Seq(Elem) /\ Len(<<x>>) = 1 /\ <<x>>[1] = x /\ Len(s) \in Nat
  BY LenProperties
<1>2. /\ <<x>> \o s \in Seq(Elem)
      /\ Len(<<x>> \o s) = Len(<<x>>) + Len(s)
      /\ \A i \in 1..(Len(<<x>>) + Len(s)) :
            (<<x>> \o s)[i] = IF i <= Len(<<x>>) THEN <<x>>[i] ELSE s[i - Len(<<x>>)]
  BY <1>1, ConcatProperties
<1>3. (<<x>> \o s)[1] = x
  BY <1>1, <1>2
<1>4. ASSUME NEW i \in 1..Len(s)
      PROVE  (<<x>> \o s)[i + 1] = s[i]
  <2>1. i + 1 \in 1..(Len(<<x>>) + Len(s)) /\ ~(i + 1 <= Len(<<x>>)) /\ i + 1 - Len(<<x>>) = i
    BY <1>1
  <2> QED BY <1>2, <2>1
<1> QED BY <1>1, <1>2, <1>3, <1>4

\* A list without its element p.
LEMMA WithoutElement ==
    ASSUME NEW s \in Seq(Elem), NEW p \in 1..Len(s)
    PROVE  /\ RemoveAt(s, p) \in Seq(Elem)
           /\ Len(RemoveAt(s, p)) = Len(s) - 1
           /\ \A i \in 1..(Len(s) - 1) :
                 RemoveAt(s, p)[i] = s[IF i < p THEN i ELSE i + 1]
<1> DEFINE a == SubSeq(s, 1, p - 1)
           b == SubSeq(s, p + 1, Len(s))
<1>0. Len(s) \in Nat /\ p - 1 \in 0..Len(s) /\ p \in 0..Len(s)
  BY LenProperties
<1>1. /\ a \in Seq(Elem)
      /\ Len(a) = p - 1
      /\ \A i \in 1..(p - 1) : a[i] = s[i]
  BY <1>0, SplitAt
<1>2. /\ b \in Seq(Elem)
      /\ Len(b) = Len(s) - p
      /\ \A i \in 1..(Len(s) - p) : b[i] = s[p + i]
  BY <1>0, SplitAt
<1>3. RemoveAt(s, p) = a \o b
  BY DEF RemoveAt
<1> HIDE DEF a, b
<1>4. /\ a \o b \in Seq(Elem)
      /\ Len(a \o b) = Len(a) + Len(b)
      /\ \A i \in 1..(Len(a) + Len(b)) :
            (a \o b)[i] = IF i <= Len(a) THEN a[i] ELSE b[i - Len(a)]
  BY <1>1, <1>2, ConcatProperties
<1>5. Len(a) + Len(b) = Len(s) - 1
  BY <1>0, <1>1, <1>2
<1>6. ASSUME NEW i \in 1..(Len(s) - 1)
      PROVE  (a \o b)[i] = s[IF i < p THEN i ELSE i + 1]
  <2>1. i \in 1..(Len(a) + Len(b)) /\ i \in Int
    BY <1>5
  <2>2. CASE i < p
    <3>1. i <= Len(a) /\ i \in 1..(p - 1)
      BY <2>2, <2>1, <1>0, <1>1
    <3> QED BY <3>1, <2>1, <2>2, <1>1, <1>4
  <2>3. CASE ~(i < p)
    <3>1. ~(i <= Len(a)) /\ i - Len(a) \in 1..(Len(s) - p) /\ p + (i - Len(a)) = i + 1
      BY <2>3, <2>1, <1>0, <1>1
    <3> QED BY <3>1, <2>1, <2>3, <1>2, <1>4
  <2> QED BY <2>2, <2>3
<1> QED BY <1>3, <1>4, <1>5, <1>6

\* It keeps distinct elements and their order, and loses one element.
LEMMA WithoutOne ==
    ASSUME NEW s \in Seq(Elem), NEW p \in 1..Len(s), NEW l,
           Distinct(s), Ordered(s, l)
    PROVE  /\ Distinct(RemoveAt(s, p))
           /\ Ordered(RemoveAt(s, p), l)
           /\ Elems(RemoveAt(s, p)) = Elems(s) \ {s[p]}
<1> DEFINE r == RemoveAt(s, p)
           old(i) == IF i < p THEN i ELSE i + 1
<1>0. Len(s) \in Nat /\ p \in Int
  BY LenProperties
<1>1. Len(r) = Len(s) - 1 /\ \A i \in 1..(Len(s) - 1) : r[i] = s[old(i)]
  BY WithoutElement
<1>2. \A i \in 1..(Len(s) - 1) : old(i) \in 1..Len(s) /\ old(i) # p
  BY <1>0
<1>3. \A i, j \in 1..(Len(s) - 1) : (old(i) = old(j) => i = j) /\ (i < j => old(i) < old(j))
  BY <1>0
<1>4. \A j \in 1..Len(s) : j # p => \E i \in 1..(Len(s) - 1) : old(i) = j
  <2> SUFFICES ASSUME NEW j \in 1..Len(s), j # p
               PROVE  \E i \in 1..(Len(s) - 1) : old(i) = j
    OBVIOUS
  <2>1. CASE j < p
    <3>1. j \in 1..(Len(s) - 1) /\ old(j) = j
      BY <2>1, <1>0
    <3> QED BY <3>1
  <2>2. CASE ~(j < p)
    <3>1. j - 1 \in 1..(Len(s) - 1) /\ old(j - 1) = j
      BY <2>2, <1>0
    <3> QED BY <3>1
  <2> QED BY <2>1, <2>2
<1> HIDE DEF r, old
<1>5. Distinct(r)
  BY <1>1, <1>2, <1>3 DEF Distinct
<1>6. Ordered(r, l)
  <2> SUFFICES ASSUME NEW i \in 1..Len(r), NEW j \in 1..Len(r), i < j
               PROVE  <<r[i], r[j]>> \in l
    BY DEF Ordered
  <2>1. old(i) \in 1..Len(s) /\ old(j) \in 1..Len(s) /\ old(i) < old(j)
    BY <1>1, <1>2, <1>3
  <2>2. <<s[old(i)], s[old(j)]>> \in l
    BY <2>1 DEF Ordered
  <2>3. r[i] = s[old(i)] /\ r[j] = s[old(j)]
    BY <1>1
  <2> QED BY <2>2, <2>3
<1>7. Elems(r) \subseteq Elems(s) \ {s[p]}
  BY <1>1, <1>2 DEF Elems, Distinct
<1>8. Elems(s) \ {s[p]} \subseteq Elems(r)
  <2> SUFFICES ASSUME NEW j \in 1..Len(s), s[j] # s[p]
               PROVE  s[j] \in Elems(r)
    BY DEF Elems
  <2>1. PICK i \in 1..(Len(s) - 1) : old(i) = j
    BY <1>4
  <2>2. i \in 1..Len(r) /\ r[i] = s[j]
    BY <2>1, <1>1
  <2> QED BY <2>2 DEF Elems
<1> QED BY <1>5, <1>6, <1>7, <1>8 DEF r

\* A new element in front is the one used last.
LEMMA FrontElement ==
    ASSUME NEW s \in Seq(Elem), NEW x \in Elem,
           Distinct(s), Ordered(s, later), x \notin Elems(s), Use(x),
           Elems(s) \subseteq DOMAIN value
    PROVE  /\ Distinct(<<x>> \o s)
           /\ Ordered(<<x>> \o s, later')
           /\ Elems(<<x>> \o s) = Elems(s) \cup {x}
<1> DEFINE t == <<x>> \o s
           others == DOMAIN value \ {x}
<1>0. Len(s) \in Nat /\ \A i \in 1..Len(s) : s[i] \in others
  BY LenProperties DEF Elems
<1>u. later' = ({x} \X others) \cup (later \cap (others \X others))
  BY DEF Use
<1>1. Len(t) = Len(s) + 1 /\ t[1] = x /\ \A i \in 1..Len(s) : t[i + 1] = s[i]
  BY PutInFront
<1>2. \A i \in 1..Len(t) : i = 1 \/ (i - 1 \in 1..Len(s) /\ t[i] = s[i - 1])
  BY <1>0, <1>1
<1>3. \A i \in 1..Len(s) : i + 1 \in 1..Len(t)
  BY <1>0, <1>1
<1>4. 1 \in 1..Len(t)
  BY <1>0, <1>1
<1> HIDE DEF t, others
<1>5. Distinct(t)
  <2> SUFFICES ASSUME NEW i \in 1..Len(t), NEW j \in 1..Len(t), t[i] = t[j]
               PROVE  i = j
    BY DEF Distinct
  <2>1. CASE i = 1 \/ j = 1
    BY <2>1, <1>1, <1>2, SMTT(30) DEF Elems
  <2>2. CASE i # 1 /\ j # 1
    <3>1. i - 1 = j - 1
      BY <2>2, <1>2, SMTT(30) DEF Distinct
    <3> QED BY <3>1
  <2> QED BY <2>1, <2>2
<1>6. Ordered(t, later')
  <2> SUFFICES ASSUME NEW i \in 1..Len(t), NEW j \in 1..Len(t), i < j
               PROVE  <<t[i], t[j]>> \in later'
    BY DEF Ordered
  <2>1. j # 1 /\ j - 1 \in 1..Len(s) /\ t[j] = s[j - 1]
    BY <1>2
  <2>2. t[j] \in others
    BY <2>1, <1>0
  <2>3. CASE i = 1
    BY <2>3, <2>2, <1>1, <1>u
  <2>4. CASE i # 1
    <3>1. i - 1 \in 1..Len(s) /\ t[i] = s[i - 1] /\ i - 1 < j - 1
      BY <2>4, <1>2
    <3>2. t[i] \in others
      BY <3>1, <1>0
    <3>3. <<t[i], t[j]>> \in later
      BY <2>1, <3>1 DEF Ordered
    <3> QED BY <2>2, <3>2, <3>3, <1>u
  <2> QED BY <2>3, <2>4
<1>7. Elems(t) = Elems(s) \cup {x}
  <2>1. Elems(t) \subseteq Elems(s) \cup {x}
    BY <1>1, <1>2 DEF Elems
  <2>2. Elems(s) \subseteq Elems(t)
    BY <1>1, <1>3 DEF Elems
  <2>3. x \in Elems(t)
    BY <1>1, <1>4 DEF Elems
  <2> QED BY <2>1, <2>2, <2>3
<1> QED BY <1>5, <1>6, <1>7 DEF t

-----------------------------------------------------------------------------
(* Sums *)

\* The equation that the recursive function of SumOf satisfies.
IsSums(g, s, sz) == g = [i \in 0..Len(s) |-> IF i = 0 THEN 0 ELSE g[i - 1] + sz[s[i]]]

\* What Sums computes step by step exists.
LEMMA SumsExist ==
    ASSUME NEW s \in Seq(Elem), NEW sz \in [Elem -> Nat]
    PROVE  \E g : IsSums(g, s, sz)
<1> DEFINE To(g, n) == /\ g \in [0..n -> Nat] /\ g[0] = 0
                       /\ \A i \in 1..n : g[i] = g[i - 1] + sz[s[i]]
           Missing == {n \in 0..Len(s) : ~\E g : To(g, n)}
<1>0. Len(s) \in Nat /\ \A i \in 1..Len(s) : s[i] \in Elem /\ sz[s[i]] \in Nat
  BY LenProperties, ElementOfSeq
<1>1. ASSUME Missing # {} PROVE FALSE
  <2>1. Missing \subseteq Nat
    BY <1>0
  <2>2. PICK n \in Missing : \A m \in Missing : n <= m
    <3> HIDE DEF Missing
    <3> QED BY <2>1, <1>1, SmallestNat
  <2>3. n \in 0..Len(s) /\ ~\E g : To(g, n)
    OBVIOUS
  <2>4. CASE n = 0
    <3>1. To([i \in 0..0 |-> 0], 0)
      OBVIOUS
    <3> QED BY <2>3, <2>4, <3>1
  <2>5. CASE n # 0
    <3>1. n - 1 \in 0..Len(s) /\ n - 1 \notin Missing
      <4>1. n \in Nat /\ n - 1 \in 0..Len(s) /\ ~(n <= n - 1)
        BY <2>3, <2>5, <1>0
      <4> HIDE DEF Missing
      <4> QED BY <4>1, <2>2
    <3>2. PICK g : To(g, n - 1)
      BY <3>1
    <3> DEFINE h == [i \in 0..n |-> IF i = n THEN g[n - 1] + sz[s[n]] ELSE g[i]]
    <3>3. n \in 1..Len(s) /\ n - 1 \in 0..(n - 1) /\ sz[s[n]] \in Nat /\ g[n - 1] \in Nat
      BY <3>2, <2>3, <2>5, <1>0
    <3>4. \A i \in 0..n : i # n => i \in 0..(n - 1) /\ h[i] = g[i] /\ g[i] \in Nat
      BY <3>2, <3>3
    <3>5. h \in [0..n -> Nat]
      BY <3>3, <3>4
    <3>6. h[0] = 0
      BY <3>2, <3>3, <3>4
    <3>7. ASSUME NEW i \in 1..n PROVE h[i] = h[i - 1] + sz[s[i]]
      <4>1. i - 1 \in 0..n /\ i - 1 # n /\ h[i - 1] = g[i - 1]
        BY <3>3, <3>4
      <4>2. CASE i = n
        BY <4>1, <4>2
      <4>3. CASE i # n
        BY <4>1, <4>3, <3>2, <3>3, <3>4
      <4> QED BY <4>2, <4>3
    <3> HIDE DEF h
    <3>8. To(h, n)
      BY <3>5, <3>6, <3>7
    <3> QED BY <3>8, <2>3
  <2> QED BY <2>4, <2>5
<1>2. Len(s) \notin Missing
  BY <1>1
<1>3. PICK g : To(g, Len(s))
  BY <1>0, <1>2
<1>4. IsSums(g, s, sz)
  BY <1>0, <1>3 DEF IsSums
<1> QED BY <1>4

\* The sums of the beginnings of a list.
LEMMA SumsProps ==
    ASSUME NEW s \in Seq(Elem), NEW sz \in [Elem -> Nat]
    PROVE  /\ Sums(s, sz) \in [0..Len(s) -> Nat]
           /\ Sums(s, sz)[0] = 0
           /\ \A i \in 1..Len(s) : Sums(s, sz)[i] = Sums(s, sz)[i - 1] + sz[s[i]]
<1> DEFINE g == Sums(s, sz)
<1>0. Len(s) \in Nat /\ \A i \in 1..Len(s) : s[i] \in Elem /\ sz[s[i]] \in Nat
  BY LenProperties, ElementOfSeq
<1>1. g = CHOOSE f : IsSums(f, s, sz)
  BY DEF Sums, IsSums
<1>2. IsSums(g, s, sz)
  BY <1>1, SumsExist
<1> HIDE DEF g
<1>3. /\ g = [i \in 0..Len(s) |-> IF i = 0 THEN 0 ELSE g[i - 1] + sz[s[i]]]
      /\ \A i \in 0..Len(s) : g[i] = IF i = 0 THEN 0 ELSE g[i - 1] + sz[s[i]]
  BY <1>2, Zenon DEF IsSums
<1>4. g[0] = 0 /\ \A i \in 1..Len(s) : g[i] = g[i - 1] + sz[s[i]]
  BY <1>0, <1>3
<1> DEFINE Not == {i \in 0..Len(s) : g[i] \notin Nat}
<1>5. ASSUME Not # {} PROVE FALSE
  <2>1. Not \subseteq Nat
    BY <1>0
  <2>2. PICK n \in Not : \A m \in Not : n <= m
    <3> HIDE DEF Not
    <3> QED BY <2>1, <1>5, SmallestNat
  <2>3. n \in 1..Len(s)
    BY <2>2, <1>0, <1>4
  <2>4. g[n - 1] \in Nat
    BY <2>2, <2>3, <1>0
  <2> QED BY <2>2, <2>3, <2>4, <1>0, <1>4
<1>6. g \in [0..Len(s) -> Nat]
  BY <1>3, <1>5
<1> QED BY <1>4, <1>6 DEF g

\* A function to numbers has numbers for its values.
LEMMA ValuesAreNat ==
    ASSUME NEW n \in Nat, NEW g \in [0..n -> Nat]
    PROVE  /\ \A i \in 0..n : g[i] \in Nat
           /\ g[n] \in Nat
  OBVIOUS

\* Every sum is a number, and the first is none.
LEMMA SumsAreNat ==
    ASSUME NEW s \in Seq(Elem), NEW sz \in [Elem -> Nat]
    PROVE  /\ Sums(s, sz)[0] = 0
           /\ SumOf(s, sz) \in Nat
           /\ \A i \in 0..Len(s) : Sums(s, sz)[i] \in Nat
<1> DEFINE g == Sums(s, sz)
           n == Len(s)
<1>1. n \in Nat /\ g \in [0..n -> Nat] /\ g[0] = 0
  BY LenProperties, SumsProps
<1> HIDE DEF g, n
<1>2. g[n] \in Nat /\ \A i \in 0..n : g[i] \in Nat
  BY <1>1, ValuesAreNat
<1> QED BY <1>1, <1>2 DEF g, n, SumOf

\* Two functions with the same differences between neighbours.
LEMMA SameDifferences ==
    ASSUME NEW n \in Nat, NEW g \in [0..n -> Int], NEW h \in [0..n -> Int],
           \A i \in 1..n : g[i] - g[i - 1] = h[i] - h[i - 1]
    PROVE  \A i \in 0..n : g[i] - g[0] = h[i] - h[0]
<1> DEFINE Off == {i \in 0..n : g[i] - g[0] # h[i] - h[0]}
<1>1. ASSUME Off # {} PROVE FALSE
  <2>1. Off \subseteq Nat
    OBVIOUS
  <2>2. PICK k \in Off : \A m \in Off : k <= m
    <3> HIDE DEF Off
    <3> QED BY <2>1, <1>1, SmallestNat
  <2>3. 0 \in 0..n /\ g[0] \in Int /\ h[0] \in Int
    OBVIOUS
  <2>4. k \in 1..n
    BY <2>2, <2>3
  <2>5. k - 1 \in 0..n /\ k - 1 \notin Off
    BY <2>2, <2>4
  <2>6. g[k - 1] - g[0] = h[k - 1] - h[0] /\ g[k] - g[k - 1] = h[k] - h[k - 1]
    BY <2>4, <2>5
  <2>7. g[k] \in Int /\ h[k] \in Int /\ g[k - 1] \in Int /\ h[k - 1] \in Int
    BY <2>4, <2>5
  <2> QED BY SMTT(30), <2>2, <2>3, <2>6, <2>7
<1> QED BY <1>1

\* What follows position j of list s is, in weights, what follows position k of t.
SameWeights(s, sz, j, t, tz, k) ==
    /\ Len(s) - j <= Len(t) - k
    /\ \A i \in 1..(Len(s) - j) : sz[s[j + i]] = tz[t[k + i]]

\* Pieces of lists with the same weights add up to the same.
LEMMA SumOfPiece ==
    ASSUME NEW s \in Seq(Elem), NEW sz \in [Elem -> Nat], NEW j \in 0..Len(s),
           NEW t \in Seq(Elem), NEW tz \in [Elem -> Nat], NEW k \in 0..Len(t),
           SameWeights(s, sz, j, t, tz, k)
    PROVE  SumOf(s, sz) - Sums(s, sz)[j] = Sums(t, tz)[k + Len(s) - j] - Sums(t, tz)[k]
<1> DEFINE n == Len(s) - j
           g == [i \in 0..n |-> Sums(s, sz)[j + i]]
           h == [i \in 0..n |-> Sums(t, tz)[k + i]]
<1>1. Len(s) \in Nat /\ Len(t) \in Nat /\ n \in Nat /\ n <= Len(t) - k
  BY LenProperties DEF SameWeights
<1>2. /\ \A i \in 0..Len(s) : Sums(s, sz)[i] \in Nat
      /\ \A i \in 0..Len(t) : Sums(t, tz)[i] \in Nat
  BY SumsAreNat
<1>3. /\ \A i \in 1..Len(s) : Sums(s, sz)[i] = Sums(s, sz)[i - 1] + sz[s[i]]
      /\ \A i \in 1..Len(t) : Sums(t, tz)[i] = Sums(t, tz)[i - 1] + tz[t[i]]
  BY SumsProps
<1>4. \A i \in 0..n : j + i \in 0..Len(s) /\ k + i \in 0..Len(t)
  BY <1>1
<1>5. g \in [0..n -> Int] /\ h \in [0..n -> Int]
  <2>1. ASSUME NEW i \in 0..n
        PROVE  Sums(s, sz)[j + i] \in Int /\ Sums(t, tz)[k + i] \in Int
    <3>1. j + i \in 0..Len(s) /\ k + i \in 0..Len(t)
      BY <1>4
    <3>2. Sums(s, sz)[j + i] \in Nat /\ Sums(t, tz)[k + i] \in Nat
      BY <3>1, <1>2
    <3> QED BY <3>2
  <2> QED BY <2>1
<1>6. ASSUME NEW i \in 1..n PROVE g[i] - g[i - 1] = h[i] - h[i - 1]
  <2> DEFINE a == j + i
             b == k + i
             v == sz[s[a]]
  <2>1. /\ a \in 1..Len(s) /\ b \in 1..Len(t) /\ i - 1 \in 0..n /\ i \in 0..n
        /\ a - 1 = j + (i - 1) /\ b - 1 = k + (i - 1)
    BY <1>1
  <2>2. s[a] \in Elem /\ t[b] \in Elem
    BY <2>1, ElementOfSeq
  <2>3. v \in Nat /\ v = sz[s[a]] /\ v = tz[t[b]]
    BY <2>2 DEF SameWeights
  <2>4. g[i] = Sums(s, sz)[a] /\ h[i] = Sums(t, tz)[b]
    BY <2>1
  <2>5. g[i - 1] = Sums(s, sz)[a - 1] /\ h[i - 1] = Sums(t, tz)[b - 1]
    BY <2>1
  <2> HIDE DEF a, b, v, g, h
  <2>6. g[i] = g[i - 1] + v /\ h[i] = h[i - 1] + v
    BY <1>3, <2>1, <2>3, <2>4, <2>5
  <2>7. g[i - 1] \in Int /\ h[i - 1] \in Int
    BY <2>1, <1>5
  <2> DEFINE p == g[i - 1]
             q == h[i - 1]
  <2>8. p \in Int /\ q \in Int /\ g[i] = p + v /\ h[i] = q + v
    BY <2>6, <2>7
  <2> HIDE DEF p, q
  <2>9. g[i] - p = h[i] - q
    BY SMTT(30), <2>3, <2>8
  <2> QED BY <2>9 DEF p, q
<1>7. \A i \in 0..n : g[i] - g[0] = h[i] - h[0]
  <2> HIDE DEF g, h, n
  <2> QED BY <1>1, <1>5, <1>6, SameDifferences
<1>8. n \in 0..n /\ 0 \in 0..n
  BY <1>1
<1>9. g[n] - g[0] = h[n] - h[0]
  BY <1>7, <1>8
<1>10. /\ g[n] = Sums(s, sz)[j + n] /\ g[0] = Sums(s, sz)[j + 0]
      /\ h[n] = Sums(t, tz)[k + n] /\ h[0] = Sums(t, tz)[k + 0]
  BY <1>8
<1>11. j + n = Len(s) /\ j + 0 = j /\ k + 0 = k /\ k + n = k + Len(s) - j
  BY <1>1
<1> HIDE DEF g, h, n
<1> QED BY <1>9, <1>10, <1>11 DEF SumOf

\* The sums of the two parts of a list.
LEMMA SumOfParts ==
    ASSUME NEW s \in Seq(Elem), NEW sz \in [Elem -> Nat], NEW m \in 0..Len(s)
    PROVE  /\ SumOf(SubSeq(s, 1, m), sz) = Sums(s, sz)[m]
           /\ SumOf(SubSeq(s, m + 1, Len(s)), sz) = SumOf(s, sz) - Sums(s, sz)[m]
           /\ SumOf(s, sz) \in Nat /\ Sums(s, sz)[m] \in Nat
<1> DEFINE in == SubSeq(s, 1, m)
           out == SubSeq(s, m + 1, Len(s))
<1>0. Len(s) \in Nat /\ m \in Nat /\ m <= Len(s)
  BY LenProperties
<1>1. /\ in \in Seq(Elem) /\ Len(in) = m
      /\ \A i \in 1..m : in[i] = s[i]
      /\ out \in Seq(Elem) /\ Len(out) = Len(s) - m
      /\ \A i \in 1..(Len(s) - m) : out[i] = s[m + i]
  BY SplitAt
<1> HIDE DEF in, out
<1>2. Sums(s, sz)[0] = 0 /\ SumOf(s, sz) \in Nat /\ Sums(s, sz)[m] \in Nat
  BY SumsAreNat
<1>3. Sums(in, sz)[0] = 0 /\ SumOf(in, sz) \in Nat
  BY <1>1, SumsAreNat
<1>4. Sums(out, sz)[0] = 0 /\ SumOf(out, sz) \in Nat
  BY <1>1, SumsAreNat
<1>5. SameWeights(in, sz, 0, s, sz, 0)
  BY <1>0, <1>1 DEF SameWeights
<1>6. SumOf(in, sz) - Sums(in, sz)[0] = Sums(s, sz)[0 + Len(in) - 0] - Sums(s, sz)[0]
  <2>1. 0 \in 0..Len(in) /\ 0 \in 0..Len(s)
    BY <1>0, <1>1
  <2> QED BY <1>1, <1>5, <2>1, SumOfPiece, ZenonT(30)
<1>7. SameWeights(out, sz, 0, s, sz, m)
  BY <1>0, <1>1 DEF SameWeights
<1>8. SumOf(out, sz) - Sums(out, sz)[0] = Sums(s, sz)[m + Len(out) - 0] - Sums(s, sz)[m]
  <2>1. 0 \in 0..Len(out) /\ m \in 0..Len(s)
    BY <1>0, <1>1
  <2> QED BY <1>1, <1>7, <2>1, SumOfPiece, ZenonT(30)
<1>9. 0 + Len(in) - 0 = m /\ m + Len(out) - 0 = Len(s)
  BY <1>0, <1>1
<1>10. SumOf(in, sz) = Sums(s, sz)[m]
  BY <1>2, <1>3, <1>6, <1>9
<1>11. SumOf(out, sz) = Sums(s, sz)[Len(s)] - Sums(s, sz)[m]
  BY <1>2, <1>4, <1>8, <1>9
<1> QED BY <1>2, <1>10, <1>11 DEF SumOf, in, out

\* An element in front adds its weight.
LEMMA SumWithFront ==
    ASSUME NEW s \in Seq(Elem), NEW sz \in [Elem -> Nat], NEW x \in Elem
    PROVE  SumOf(<<x>> \o s, sz) = sz[x] + SumOf(s, sz)
<1> DEFINE r == <<x>> \o s
<1>1. /\ r \in Seq(Elem) /\ Len(r) = Len(s) + 1 /\ r[1] = x
      /\ \A i \in 1..Len(s) : r[i + 1] = s[i]
  BY PutInFront
<1>2. Len(s) \in Nat /\ sz[x] \in Nat
  BY LenProperties
<1> HIDE DEF r
<1>3. Sums(s, sz)[0] = 0 /\ SumOf(s, sz) \in Nat
  BY SumsAreNat
<1>4. Sums(r, sz)[1] = sz[x] /\ SumOf(r, sz) \in Nat
  <2>1. /\ Sums(r, sz) \in [0..Len(r) -> Nat]
        /\ Sums(r, sz)[0] = 0
        /\ \A i \in 1..Len(r) : Sums(r, sz)[i] = Sums(r, sz)[i - 1] + sz[r[i]]
    BY <1>1, SumsProps
  <2>2. 1 \in 1..Len(r) /\ 1 - 1 = 0 /\ Len(r) \in 0..Len(r)
    BY <1>1, <1>2
  <2>3. Sums(r, sz)[1] = Sums(r, sz)[0] + sz[x]
    BY <2>1, <2>2, <1>1
  <2> QED BY <2>1, <2>2, <2>3, <1>2 DEF SumOf
<1>5. SameWeights(r, sz, 1, s, sz, 0)
  <2>1. Len(r) - 1 = Len(s) /\ \A i \in 1..Len(s) : 1 + i = i + 1 /\ 0 + i = i
    BY <1>1, <1>2
  <2> QED BY <2>1, <1>1, <1>2 DEF SameWeights
<1>6. SumOf(r, sz) - Sums(r, sz)[1] = Sums(s, sz)[0 + Len(r) - 1] - Sums(s, sz)[0]
  <2>1. 1 \in 0..Len(r) /\ 0 \in 0..Len(s)
    BY <1>1, <1>2
  <2> QED BY <1>1, <1>5, <2>1, SumOfPiece, ZenonT(30)
<1>7. 0 + Len(r) - 1 = Len(s)
  BY <1>1, <1>2
<1>8. SumOf(r, sz) - sz[x] = SumOf(s, sz) - 0
  BY <1>3, <1>4, <1>6, <1>7 DEF SumOf
<1>9. SumOf(r, sz) = sz[x] + SumOf(s, sz)
  BY <1>2, <1>3, <1>4, <1>8
<1> QED BY <1>9 DEF r

\* A list without its element p has the weight of that element less.
LEMMA SumWithout ==
    ASSUME NEW s \in Seq(Elem), NEW sz \in [Elem -> Nat], NEW p \in 1..Len(s)
    PROVE  SumOf(RemoveAt(s, p), sz) = SumOf(s, sz) - sz[s[p]]
<1> DEFINE r == RemoveAt(s, p)
           a == SubSeq(s, 1, p - 1)
<1>0. Len(s) \in Nat /\ p \in Nat /\ 1 <= p /\ p <= Len(s) /\ p - 1 \in 0..Len(s)
  BY LenProperties
<1>1. /\ r \in Seq(Elem) /\ Len(r) = Len(s) - 1
      /\ \A i \in 1..(Len(s) - 1) : r[i] = s[IF i < p THEN i ELSE i + 1]
  BY WithoutElement
<1>2. a \in Seq(Elem) /\ Len(a) = p - 1 /\ \A i \in 1..(p - 1) : a[i] = s[i]
  BY <1>0, SplitAt
<1>3. SumOf(a, sz) = Sums(s, sz)[p - 1]
  BY <1>0, SumOfParts
<1>4. /\ Sums(s, sz)[p] = Sums(s, sz)[p - 1] + sz[s[p]]
      /\ Sums(s, sz)[p - 1] \in Nat /\ Sums(s, sz)[p] \in Nat /\ SumOf(s, sz) \in Nat
  <2>1. p \in 0..Len(s)
    BY <1>0
  <2>2. Sums(s, sz)[p] = Sums(s, sz)[p - 1] + sz[s[p]]
    BY SumsProps
  <2> QED BY <2>1, <2>2, <1>0, SumsAreNat
<1>5. sz[s[p]] \in Nat
  BY ElementOfSeq
<1> HIDE DEF r, a
<1>6. /\ Sums(r, sz)[0] = 0 /\ Sums(a, sz)[0] = 0
      /\ SumOf(r, sz) \in Nat /\ SumOf(a, sz) \in Nat /\ Sums(r, sz)[p - 1] \in Nat
  <2>1. p - 1 \in 0..Len(r)
    BY <1>0, <1>1
  <2> QED BY <2>1, <1>1, <1>2, SumsAreNat
<1>7. SumOf(a, sz) = Sums(r, sz)[p - 1]
  <2>1. SameWeights(a, sz, 0, r, sz, 0)
    <3>1. Len(a) - 0 = p - 1 /\ Len(r) - 0 = Len(s) - 1 /\ p - 1 <= Len(s) - 1
      BY <1>0, <1>1, <1>2
    <3>2. ASSUME NEW i \in 1..(p - 1) PROVE a[0 + i] = r[0 + i]
      <4>1. 0 + i = i /\ i < p /\ i \in 1..(Len(s) - 1)
        BY <1>0
      <4> QED BY <4>1, <1>1, <1>2
    <3> QED BY <3>1, <3>2 DEF SameWeights
  <2>2. 0 \in 0..Len(a) /\ 0 \in 0..Len(r) /\ 0 + Len(a) - 0 = p - 1
    BY <1>0, <1>1, <1>2
  <2>3. SumOf(a, sz) - Sums(a, sz)[0] = Sums(r, sz)[0 + Len(a) - 0] - Sums(r, sz)[0]
    BY <1>1, <1>2, <2>1, <2>2, SumOfPiece, ZenonT(30)
  <2> QED BY <2>2, <2>3, <1>6
<1>8. SumOf(r, sz) - Sums(r, sz)[p - 1] = SumOf(s, sz) - Sums(s, sz)[p]
  <2>1. SameWeights(r, sz, p - 1, s, sz, p)
    <3>1. Len(r) - (p - 1) = Len(s) - p
      BY <1>0, <1>1
    <3>2. ASSUME NEW i \in 1..(Len(s) - p) PROVE r[p - 1 + i] = s[p + i]
      <4>1. ~(p - 1 + i < p) /\ p - 1 + i \in 1..(Len(s) - 1) /\ p - 1 + i + 1 = p + i
        BY <1>0
      <4> QED BY <4>1, <1>1
    <3>3. Len(s) - p <= Len(s) - p
      BY <1>0
    <3> QED BY <3>1, <3>2, <3>3 DEF SameWeights
  <2>2. p - 1 \in 0..Len(r) /\ p \in 0..Len(s) /\ p + Len(r) - (p - 1) = Len(s)
    BY <1>0, <1>1
  <2>3. SumOf(r, sz) - Sums(r, sz)[p - 1]
          = Sums(s, sz)[p + Len(r) - (p - 1)] - Sums(s, sz)[p]
    BY <1>1, <2>1, <2>2, SumOfPiece, ZenonT(30)
  <2> QED BY <2>2, <2>3 DEF SumOf
<1>9. SumOf(r, sz) = SumOf(s, sz) - sz[s[p]]
  <2> DEFINE v == sz[s[p]]
             u == SumOf(r, sz)
             w == SumOf(s, sz)
             b == Sums(s, sz)[p - 1]
             c == Sums(s, sz)[p]
  <2>1. v \in Nat /\ u \in Nat /\ w \in Nat /\ b \in Nat /\ c = b + v /\ u - b = w - c
    BY <1>3, <1>4, <1>5, <1>6, <1>7, <1>8
  <2> HIDE DEF u, v, w, b, c
  <2>2. u = w - v
    BY <2>1
  <2> QED BY <2>2 DEF u, v, w
<1> QED BY <1>9 DEF r

\* The sum depends on the weights of the elements of the list alone.
LEMMA SumOfOthers ==
    ASSUME NEW s \in Seq(Elem), NEW sz \in [Elem -> Nat], NEW tz \in [Elem -> Nat],
           \A i \in 1..Len(s) : sz[s[i]] = tz[s[i]]
    PROVE  SumOf(s, sz) = SumOf(s, tz)
<1>0. Len(s) \in Nat
  BY LenProperties
<1>1. SameWeights(s, sz, 0, s, tz, 0)
  BY <1>0 DEF SameWeights
<1>2. 0 \in 0..Len(s) /\ 0 + Len(s) - 0 = Len(s)
  BY <1>0
<1>3. SumOf(s, sz) - Sums(s, sz)[0] = Sums(s, tz)[0 + Len(s) - 0] - Sums(s, tz)[0]
  BY <1>1, <1>2, SumOfPiece
<1>4. /\ Sums(s, sz)[0] = 0 /\ Sums(s, tz)[0] = 0
      /\ SumOf(s, sz) \in Nat /\ SumOf(s, tz) \in Nat
  BY <1>0, SumsProps DEF SumOf
<1> QED BY <1>2, <1>3, <1>4 DEF SumOf

-----------------------------------------------------------------------------
(* Hashes *)

\* The types of the items' state
ItemTypes == size \in [Item -> Sizes] /\ cont \in [Item -> Sizes] /\ hash \in [Item -> Key]

\* Calls of Hash change no Hash; an item asked has its Hash kept from then on.
LEMMA HashStays ==
    ASSUME ItemTypes, UNCHANGED items, NEW xs, Hashed(xs)
    PROVE  /\ hash' \in [Item -> Key]
           /\ \A y \in Item : /\ Hash(y) \in Key /\ Hash(y)' = Hash(y)
                              /\ y \in xs => hash'[y] = Hash(y)
                              /\ hash[y] # ZeroHash => hash'[y] = hash[y]
<1>1. /\ hash' = [x \in Item |-> IF x \in xs THEN Hash(x) ELSE hash[x]]
      /\ size' = size /\ cont' = cont
  BY DEF Hashed, items
<1>2. ASSUME NEW y \in Item
      PROVE  /\ Hash(y) \in Key /\ Hash(y)' = Hash(y)
             /\ y \in xs => hash'[y] = Hash(y)
             /\ hash[y] # ZeroHash => hash'[y] = hash[y]
  <2>1. hash[y] \in Key /\ cont[y] \in Sizes /\ HashOf(y, cont[y]) \in Key \ {ZeroHash}
    BY ItemsAssumption DEF ItemTypes
  <2>2. hash'[y] = IF y \in xs THEN Hash(y) ELSE hash[y]
    BY <1>1
  <2>3. Hash(y)' = IF hash'[y] = ZeroHash /\ cont[y] = size[y] THEN HashOf(y, cont[y]) ELSE hash'[y]
    BY <1>1 DEF Hash
  <2> QED BY <2>1, <2>2, <2>3 DEF Hash
<1>3. hash' \in [Item -> Key]
  <2>1. \A y \in Item : Hash(y) \in Key /\ hash[y] \in Key
    BY <1>2 DEF ItemTypes
  <2> HIDE DEF Hash
  <2> QED BY <1>1, <2>1
<1> QED BY <1>2, <1>3, Zenon

-----------------------------------------------------------------------------
(* The loop of Put *)

\* The elements of list s are those of map m, under the Hash of their values v.
Matches(s, m, v) ==
    /\ \A e \in Elems(s) : Hash(v[e]) \in DOMAIN m /\ m[Hash(v[e])] = e
    /\ \A k \in DOMAIN m : m[k] \in Elems(s) /\ Hash(v[m[k]]) = k

\* What Put hands to its loop: a list, a map and values of their elements.
Handed(s, m, v) ==
    /\ s \in Seq(Elem) /\ Distinct(s)
    /\ DOMAIN m \subseteq Key /\ m \in [DOMAIN m -> DOMAIN v]
    /\ DOMAIN v \subseteq Elem /\ v \in [DOMAIN v -> Item]
    /\ Elems(s) \subseteq DOMAIN v

\* An element of a list is in the part kept or in the part dropped.
LEMMA ElemsOfParts ==
    ASSUME NEW s \in Seq(Elem), Distinct(s), NEW n \in 0..Len(s), NEW l, Ordered(s, l)
    PROVE  LET in == SubSeq(s, 1, n)
               out == SubSeq(s, n + 1, Len(s))
           IN  /\ in \in Seq(Elem) /\ Distinct(in) /\ Ordered(in, l)
               /\ ToSet(out) = Elems(s) \ Elems(in)
               /\ Elems(in) \subseteq Elems(s)
               /\ \A e \in Elems(s) \ Elems(in), f \in Elems(in) : <<f, e>> \in l
<1> DEFINE in == SubSeq(s, 1, n)
           out == SubSeq(s, n + 1, Len(s))
<1>1. /\ in \in Seq(Elem) /\ Len(in) = n
      /\ \A i \in 1..n : in[i] = s[i]
      /\ out \in Seq(Elem) /\ Len(out) = Len(s) - n
      /\ \A i \in 1..(Len(s) - n) : out[i] = s[n + i]
      /\ Len(s) \in Nat
  BY SplitAt, LenProperties
<1>2. ToSet(out) = Elems(out)
  <2>1. DOMAIN out = 1..Len(out)
    BY <1>1, LenProperties
  <2> QED BY <2>1 DEF ToSet, Elems
<1> HIDE DEF in, out
<1>3. ASSUME NEW i \in 1..Len(s)
      PROVE  (s[i] \in Elems(in) <=> i <= n) /\ (s[i] \in Elems(out) <=> ~(i <= n))
  <2>1. ASSUME i <= n PROVE s[i] \in Elems(in)
    <3>1. i \in 1..Len(in) /\ in[i] = s[i]
      BY <1>1, <2>1
    <3> QED BY <3>1 DEF Elems
  <2>2. ASSUME ~(i <= n) PROVE s[i] \in Elems(out)
    <3>1. i - n \in 1..Len(out) /\ n + (i - n) = i
      BY <1>1, <2>2
    <3>2. out[i - n] = s[i]
      BY <1>1, <3>1
    <3> QED BY <3>1, <3>2 DEF Elems
  <2>3. ASSUME s[i] \in Elems(in) PROVE i <= n
    <3>1. PICK j \in 1..Len(in) : in[j] = s[i]
      BY <2>3 DEF Elems
    <3>2. j \in 1..Len(s) /\ j <= n /\ s[j] = s[i]
      BY <1>1, <3>1
    <3>3. i = j
      BY <3>2 DEF Distinct
    <3> QED BY <3>2, <3>3
  <2>4. ASSUME s[i] \in Elems(out) PROVE ~(i <= n)
    <3>1. PICK j \in 1..Len(out) : out[j] = s[i]
      BY <2>4 DEF Elems
    <3>2. n + j \in 1..Len(s) /\ ~(n + j <= n) /\ s[n + j] = s[i]
      BY <1>1, <3>1
    <3>3. i = n + j
      BY <3>2 DEF Distinct
    <3> QED BY <3>2, <3>3
  <2> QED BY <2>1, <2>2, <2>3, <2>4
<1>4. \A i \in 1..Len(in) : i \in 1..Len(s) /\ in[i] = s[i]
  BY <1>1
<1>5. \A i \in 1..Len(out) : n + i \in 1..Len(s) /\ out[i] = s[n + i]
  BY <1>1
<1>6. Distinct(in) /\ Ordered(in, l) /\ Elems(in) \subseteq Elems(s)
  BY <1>4 DEF Distinct, Ordered, Elems
<1>7. Elems(out) = Elems(s) \ Elems(in)
  <2>1. Elems(out) \subseteq Elems(s) \ Elems(in)
    <3> SUFFICES ASSUME NEW i \in 1..Len(out) PROVE out[i] \in Elems(s) \ Elems(in)
      BY DEF Elems
    <3>1. n + i \in 1..Len(s) /\ out[i] = s[n + i] /\ ~(n + i <= n)
      BY <1>1, <1>5
    <3>2. s[n + i] \in Elems(s) /\ s[n + i] \notin Elems(in)
      BY <3>1, <1>3 DEF Elems
    <3> QED BY <3>1, <3>2
  <2>2. Elems(s) \ Elems(in) \subseteq Elems(out)
    <3> SUFFICES ASSUME NEW i \in 1..Len(s), s[i] \notin Elems(in) PROVE s[i] \in Elems(out)
      BY DEF Elems
    <3> QED BY <1>3
  <2> QED BY <2>1, <2>2
<1>8. ASSUME NEW e \in Elems(s) \ Elems(in), NEW f \in Elems(in) PROVE <<f, e>> \in l
  <2>1. PICK j \in 1..Len(s) : e = s[j]
    BY DEF Elems
  <2>2. PICK i \in 1..Len(s) : f = s[i] /\ i <= n
    <3>1. PICK i \in 1..Len(in) : f = in[i]
      BY DEF Elems
    <3> QED BY <3>1, <1>1, <1>4
  <2>3. ~(j <= n)
    BY <2>1, <1>3
  <2>4. i < j
    BY <2>2, <2>3, <1>1
  <2> QED BY <2>1, <2>2, <2>4 DEF Ordered
<1> QED BY <1>1, <1>2, <1>6, <1>7, <1>8 DEF in, out

\* The part of a list that the loop keeps, and the items it evicts
KeptPart(s, n, v) == SubSeq(s, 1, Kept(s, n, Weights(v, size)))

Gone(s, n, v) == {v[e] : e \in Elems(s) \ Elems(KeptPart(s, n, v))}

\* The loop keeps the beginning in of list s, and what map m and values v have
\* for it; it evicts the items gone.
LoopLeaves(x, s, m, v, in, gone) ==
    /\ ll' = in /\ in \in Seq(Elem) /\ Distinct(in) /\ Ordered(in, later')
    /\ Elems(in) \subseteq Elems(s)
    /\ \A e \in Elems(s) \ Elems(in), f \in Elems(in) : <<f, e>> \in later'
    /\ gone = {v[e] : e \in Elems(s) \ Elems(in)} /\ gone \subseteq Item
    /\ cache' = [k \in DOMAIN m \ {Hash(y) : y \in gone} |-> m[k]]
    /\ Listed' = Elems(in)
    /\ value' = [e \in Listed' \cup Mapped' |-> v[e]]
    /\ Listed' \cup Mapped' \subseteq DOMAIN v
    /\ Hashed({x} \cup gone)

LEMMA LoopOfPut ==
    ASSUME NEW x \in Item, NEW s, NEW n \in Int, NEW m, NEW v, ItemTypes, UNCHANGED items,
           Handed(s, m, v), Evict(x, s, n, m, v), Ordered(s, later')
    PROVE  LoopLeaves(x, s, m, v, KeptPart(s, n, v), Gone(s, n, v))
<1> DEFINE kept == Kept(s, n, Weights(v, size))
           in == SubSeq(s, 1, kept)
           out == SubSeq(s, kept + 1, Len(s))
           gone == {v[e] : e \in Elems(s) \ Elems(in)}
<1>1. s \in Seq(Elem) /\ Distinct(s) /\ Elems(s) \subseteq DOMAIN v
  BY DEF Handed
<1>2. kept \in 0..Len(s)
  BY <1>1, KeptIsLength
<1>3. /\ ll' = in
      /\ cache' = Without(m, {Hash(y) : y \in {v[e] : e \in ToSet(out)}})
      /\ value' = [e \in Listed' \cup Mapped' |-> v[e]]
      /\ Hashed({x} \cup {v[e] : e \in ToSet(out)})
  BY DEF Evict
<1> HIDE DEF kept
<1>4. /\ in \in Seq(Elem) /\ Distinct(in) /\ Ordered(in, later')
      /\ ToSet(out) = Elems(s) \ Elems(in)
      /\ Elems(in) \subseteq Elems(s)
      /\ \A e \in Elems(s) \ Elems(in), f \in Elems(in) : <<f, e>> \in later'
  BY <1>1, <1>2, ElemsOfParts
<1> HIDE DEF in, out
<1>5. gone = {v[e] : e \in ToSet(out)}
  BY <1>4
<1>6. cache' = [k \in DOMAIN m \ {Hash(y) : y \in gone} |-> m[k]]
  BY <1>3, <1>5, Zenon DEF Without
<1>7. Hashed({x} \cup gone)
  BY <1>3, <1>5, Zenon
<1>8. Listed' = Elems(in)
  BY <1>3 DEF Listed, Elems
<1>9. gone \subseteq Item
  BY <1>1 DEF Handed
<1>10. Listed' \cup Mapped' \subseteq DOMAIN v
  <2>1. Mapped' = {cache'[k] : k \in DOMAIN cache'}
    BY DEF Mapped
  <2>2. \A k \in DOMAIN cache' : cache'[k] \in DOMAIN v
    <3> HIDE DEF gone
    <3> QED BY <1>6 DEF Handed
  <2>3. Mapped' \subseteq DOMAIN v
    BY <2>1, <2>2
  <2> QED BY <2>3, <1>1, <1>4, <1>8
<1>11. in = KeptPart(s, n, v) /\ gone = Gone(s, n, v)
  BY DEF kept, in, gone, KeptPart, Gone
<1>12. LoopLeaves(x, s, m, v, in, gone)
  <2>1. gone = {v[e] : e \in Elems(s) \ Elems(in)}
    BY DEF gone
  <2> HIDE DEF gone
  <2> QED BY <2>1, <1>3, <1>4, <1>6, <1>7, <1>8, <1>9, <1>10, Zenon DEF LoopLeaves
<1> HIDE DEF gone, in
<1> QED BY <1>11, <1>12

\* The loop keeps types, distinct elements and the order of use.
LEMMA EvictTypes ==
    ASSUME NEW x \in Item, NEW s, NEW n \in Int, NEW m, NEW v, ItemTypes, UNCHANGED items,
           Handed(s, m, v), Evict(x, s, n, m, v), Ordered(s, later')
    PROVE  /\ DOMAIN value' \subseteq Elem /\ value' \in [DOMAIN value' -> Item]
           /\ DOMAIN value' = Listed' \cup Mapped'
           /\ ll' \in Seq(Elem) /\ Distinct(ll') /\ Ordered(ll', later')
           /\ DOMAIN cache' \subseteq Key /\ cache' \in [DOMAIN cache' -> Elem]
           /\ hash' \in [Item -> Key]
           /\ \A e \in Elems(s) \ Listed', f \in Listed' : <<f, e>> \in later'
<1>0. PICK in, gone : LoopLeaves(x, s, m, v, in, gone)
  BY LoopOfPut, Zenon
<1>1. /\ ll' = in /\ in \in Seq(Elem) /\ Distinct(in) /\ Ordered(in, later')
      /\ \A e \in Elems(s) \ Elems(in), f \in Elems(in) : <<f, e>> \in later'
      /\ cache' = [k \in DOMAIN m \ {Hash(y) : y \in gone} |-> m[k]]
      /\ Listed' = Elems(in)
      /\ value' = [e \in Listed' \cup Mapped' |-> v[e]]
      /\ Listed' \cup Mapped' \subseteq DOMAIN v
      /\ Hashed({x} \cup gone)
  BY <1>0, Zenon DEF LoopLeaves
<1>2. hash' \in [Item -> Key]
  BY <1>1, HashStays
<1>3. DOMAIN v \subseteq Elem /\ v \in [DOMAIN v -> Item]
      /\ DOMAIN m \subseteq Key /\ m \in [DOMAIN m -> DOMAIN v]
  BY DEF Handed
<1>4. DOMAIN value' = Listed' \cup Mapped'
  BY <1>1, Zenon
<1>5. value' \in [DOMAIN value' -> Item]
  <2>1. \A e \in Listed' \cup Mapped' : v[e] \in Item
    BY <1>1, <1>3
  <2> QED BY <2>1, <1>1
<1>6. DOMAIN cache' \subseteq Key /\ cache' \in [DOMAIN cache' -> Elem]
  BY <1>1, <1>3
<1> QED BY <1>1, <1>2, <1>3, <1>4, <1>5, <1>6

\* An entry of the map stays the one for the Hash of its item.
LEMMA EvictMatches ==
    ASSUME NEW x \in Item, NEW s, NEW n \in Int, NEW m, NEW v, ItemTypes, UNCHANGED items,
           Handed(s, m, v), Evict(x, s, n, m, v), Ordered(s, later'),
           Matches(s, m, v)
    PROVE  Matches(ll, cache, value)'
<1>0. PICK in, gone : LoopLeaves(x, s, m, v, in, gone)
  BY LoopOfPut, Zenon
<1> DEFINE hs == {Hash(y) : y \in gone}
<1>1. /\ ll' = in
      /\ Elems(in) \subseteq Elems(s)
      /\ cache' = [k \in DOMAIN m \ hs |-> m[k]]
      /\ Listed' = Elems(in)
      /\ value' = [e \in Listed' \cup Mapped' |-> v[e]]
      /\ Hashed({x} \cup gone)
  BY <1>0, Zenon DEF LoopLeaves
<1>g. hs = {Hash(v[e]) : e \in Elems(s) \ Elems(in)}
  <2>1. gone = {v[e] : e \in Elems(s) \ Elems(in)}
    BY <1>0, Zenon DEF LoopLeaves
  <2> QED BY <2>1
<1> HIDE DEF hs
<1>2. \A e \in Elems(in) : value'[e] = v[e]
  BY <1>1
<1>3. \A e \in Elems(s) : v[e] \in Item
  BY DEF Handed
<1>4. \A y \in Item : Hash(y)' = Hash(y)
  <2> QED BY <1>1, HashStays
<1>h. ASSUME NEW e \in Elems(in) PROVE Hash(value[e])' = Hash(v[e])
  <2>1. value'[e] = v[e] /\ v[e] \in Item
    BY <1>1, <1>2, <1>3
  <2>2. Hash(v[e]) = IF hash'[v[e]] = ZeroHash /\ cont'[v[e]] = size'[v[e]]
                       THEN HashOf(v[e], cont'[v[e]]) ELSE hash'[v[e]]
    BY <2>1, <1>4 DEF Hash
  <2> QED BY <2>1, <2>2 DEF Hash
<1>5. ASSUME NEW e \in Elems(in) PROVE Hash(v[e]) \notin hs
  <2> SUFFICES ASSUME NEW f \in Elems(s) \ Elems(in), Hash(v[f]) = Hash(v[e]) PROVE FALSE
    BY <1>g
  <2>1. m[Hash(v[e])] = e /\ m[Hash(v[f])] = f
    BY <1>1 DEF Matches
  <2> QED BY <2>1
<1>6. ASSUME NEW k \in DOMAIN m \ hs PROVE m[k] \in Elems(in)
  <2>1. m[k] \in Elems(s) /\ Hash(v[m[k]]) = k
    BY DEF Matches
  <2> QED BY <2>1, <1>g
<1>7. ASSUME NEW e \in Elems(in)
      PROVE  Hash(v[e]) \in DOMAIN cache' /\ cache'[Hash(v[e])] = e
  <2>1. Hash(v[e]) \in DOMAIN m /\ m[Hash(v[e])] = e
    BY <1>1 DEF Matches
  <2> HIDE DEF Hash
  <2> QED BY <2>1, <1>1, <1>5
<1>8. ASSUME NEW k \in DOMAIN cache'
      PROVE  cache'[k] \in Elems(in) /\ Hash(v[cache'[k]]) = k
  <2>1. k \in DOMAIN m \ hs /\ cache'[k] = m[k]
    BY <1>1
  <2>2. Hash(v[m[k]]) = k
    BY <2>1 DEF Matches
  <2> QED BY <2>1, <2>2, <1>6
<1>9. Elems(ll)' = Elems(in)
  BY <1>1 DEF Elems
<1>10. \A e \in Elems(in) : Hash(value[e])' \in DOMAIN cache' /\ cache'[Hash(value[e])'] = e
  <2> HIDE DEF Hash
  <2> QED BY <1>7, <1>h, Zenon
<1>11. \A k \in DOMAIN cache' : cache'[k] \in Elems(in) /\ Hash(value[cache[k]])' = k
  <2> SUFFICES ASSUME NEW k \in DOMAIN cache'
               PROVE  cache'[k] \in Elems(in) /\ Hash(value[cache[k]])' = k
    OBVIOUS
  <2>1. cache'[k] \in Elems(in) /\ Hash(v[cache'[k]]) = k
    BY <1>8
  <2>2. ASSUME NEW e \in Elems(in), e = cache'[k] PROVE Hash(value[cache[k]])' = Hash(v[e])
    <3>1. Hash(value[e])' = Hash(value[cache[k]])'
      BY <2>2 DEF Hash
    <3> QED BY <3>1, <1>h
  <2> QED BY <2>1, <2>2
<1> QED BY <1>9, <1>10, <1>11 DEF Matches

\* The map m leads from every hash to an item that keeps this hash.
KeepTheirs(m, v, h) == \A k \in DOMAIN m \ {ZeroHash} : h[v[m[k]]] = k

Injective(m) == \A j, k \in DOMAIN m : m[j] = m[k] => j = k

\* What the loop leaves of a map is a part of it, and an item that has a hash
\* keeps it.
LEMMA EvictHits ==
    ASSUME NEW x \in Item, NEW s, NEW n \in Int, NEW m, NEW v, ItemTypes, UNCHANGED items,
           Handed(s, m, v), Evict(x, s, n, m, v), Ordered(s, later'),
           Injective(m),
           \A k \in DOMAIN m \ {ZeroHash} :
              hash[v[m[k]]] = k \/ (v[m[k]] = x /\ Hash(x) = k)
    PROVE  Injective(cache') /\ KeepTheirs(cache', value', hash')
<1>0. PICK in, gone : LoopLeaves(x, s, m, v, in, gone)
  BY LoopOfPut, Zenon
<1>1. /\ cache' = [k \in DOMAIN m \ {Hash(y) : y \in gone} |-> m[k]]
      /\ value' = [e \in Listed' \cup Mapped' |-> v[e]]
      /\ Hashed({x} \cup gone)
  BY <1>0, Zenon DEF LoopLeaves
<1>2. \A k \in DOMAIN cache' : k \in DOMAIN m /\ cache'[k] = m[k]
  BY <1>1
<1>3. \A k \in DOMAIN cache' : value'[cache'[k]] = v[m[k]]
  <2> SUFFICES ASSUME NEW k \in DOMAIN cache' PROVE value'[cache'[k]] = v[m[k]]
    OBVIOUS
  <2>1. cache'[k] \in Mapped'
    BY DEF Mapped
  <2> QED BY <2>1, <1>1, <1>2
<1>4. Injective(cache')
  BY <1>2 DEF Injective
<1>5. ASSUME NEW k \in DOMAIN cache' \ {ZeroHash} PROVE hash'[value'[cache'[k]]] = k
  <2>1. k \in DOMAIN m \ {ZeroHash} /\ value'[cache'[k]] = v[m[k]]
    BY <1>2, <1>3
  <2>2. v[m[k]] \in Item
    BY <2>1 DEF Handed
  <2>3. /\ x \in {x} \cup gone => hash'[x] = Hash(x)
        /\ hash[v[m[k]]] # ZeroHash => hash'[v[m[k]]] = hash[v[m[k]]]
    BY <1>1, <2>2, HashStays
  <2> QED BY <2>1, <2>3
<1> QED BY <1>4, <1>5 DEF KeepTheirs

\* When the account that Put hands to its loop is the sum of the list, the loop
\* ends within the bound, and with the sum of what it keeps.
LEMMA EvictFits ==
    ASSUME NEW x \in Item, NEW s, NEW n \in Int, NEW m, NEW v, ItemTypes, UNCHANGED items,
           Handed(s, m, v), Evict(x, s, n, m, v), Ordered(s, later'),
           n = SumOf(s, Weights(v, size))
    PROVE  actualSize' = Sum(ll)' /\ Sum(ll)' <= MaxSize
<1> DEFINE w == Weights(v, size)
           u == Weights(value', size)
           kept == Kept(s, n, w)
           in == SubSeq(s, 1, kept)
           out == SubSeq(s, kept + 1, Len(s))
<1>0. s \in Seq(Elem) /\ MaxSize \in Nat /\ size' = size
  BY ItemsAssumption DEF Handed, items
<1>1. kept \in 0..Len(s) /\ 0 \in 0..Len(s)
  BY <1>0, KeptIsLength, LenProperties
<1>2. w \in [Elem -> Nat]
  <2>1. \A e \in DOMAIN v : v[e] \in Item /\ size[v[e]] \in Nat
    BY ItemsAssumption DEF Handed, ItemTypes
  <2> QED BY <2>1 DEF Weights
<1>3. ll' = in /\ actualSize' = IF Fits(s, n, w, kept) THEN n - SumOf(out, w) ELSE 0
  BY DEF Evict
<1>4. value' = [e \in Listed' \cup Mapped' |-> v[e]] /\ Listed' \cup Mapped' \subseteq DOMAIN v
  <2>1. PICK i, g : LoopLeaves(x, s, m, v, i, g)
    BY LoopOfPut, Zenon
  <2> QED BY <2>1, Zenon DEF LoopLeaves
<1> HIDE DEF w
<1>5. Fits(s, n, w, 0)
  <2>1. SumOf(SubSeq(s, 0 + 1, Len(s)), w) = SumOf(s, w) - Sums(s, w)[0]
    BY <1>0, <1>1, <1>2, SumOfParts
  <2>2. Sums(s, w)[0] = 0 /\ SumOf(s, w) \in Nat
    BY <1>0, <1>2, SumsAreNat
  <2>3. n = SumOf(s, w)
    BY DEF w
  <2> QED BY <1>0, <2>1, <2>2, <2>3 DEF Fits
<1>6. Fits(s, n, w, kept)
  BY <1>0, <1>1, <1>5, KeptIsLength
<1> HIDE DEF kept
<1>7. /\ SumOf(in, w) = Sums(s, w)[kept] /\ SumOf(out, w) = SumOf(s, w) - Sums(s, w)[kept]
      /\ SumOf(s, w) \in Nat /\ Sums(s, w)[kept] \in Nat
  BY <1>0, <1>1, <1>2, SumOfParts
<1>8. n - SumOf(out, w) <= MaxSize
  BY <1>6 DEF Fits
<1>9. in \in Seq(Elem)
  BY <1>0, <1>1, SplitAt
<1>10. SumOf(in, u) = SumOf(in, w)
  <2>1. \A e \in Listed' : e \in DOMAIN value' /\ e \in DOMAIN v /\ value'[e] = v[e]
    BY <1>4
  <2>2. \A i \in 1..Len(in) : in[i] \in Listed' /\ in[i] \in Elem
    BY <1>3, <1>9, ElementOfSeq DEF Listed
  <2> HIDE DEF in
  <2>3. \A i \in 1..Len(in) : u[in[i]] = w[in[i]]
    BY <2>1, <2>2 DEF w, Weights
  <2>4. u \in [Elem -> Nat]
    <3>1. \A e \in DOMAIN value' : value'[e] \in Item
      BY <1>4 DEF Handed
    <3>2. \A e \in DOMAIN value' : size[value'[e]] \in Nat
      BY <3>1, ItemsAssumption DEF ItemTypes
    <3> QED BY <3>2 DEF Weights
  <2> HIDE DEF u
  <2> QED BY <2>3, <2>4, <1>2, <1>9, SumOfOthers
<1>11. Sum(ll)' = SumOf(in, u)
  BY <1>0, <1>3 DEF Sum
<1>12. n = SumOf(s, w)
  BY DEF w
<1> HIDE DEF in, out, u
<1>13. n - SumOf(out, w) = SumOf(in, w)
  BY <1>7, <1>12
<1> QED BY <1>3, <1>6, <1>8, <1>10, <1>11, <1>13

-----------------------------------------------------------------------------
(* The invariant *)

\* The list is in the order of use and without repetitions, an element is under
\* one key, and a hash leads to an item that keeps it.  The list and the map
\* match until a write changes the Hash of a cached item, and the account is
\* the sum until a cached item is written to at all.
Inv ==
    /\ TypeOK
    /\ Distinct(ll) /\ Ordered(ll, later)
    /\ Injective(cache) /\ KeepTheirs(cache, value, hash)
    /\ rekeyed => written
    /\ ~rekeyed => Matches(ll, cache, value)
    /\ NeverExceeded

\* What the step evicts was used before what it keeps.
OldestGo == \A e \in Listed \ Listed', f \in Listed' : <<f, e>> \in later'

\* What TypeOK and the invariant say, in the terms of the lemmas
LEMMA InvFacts ==
    ASSUME Inv
    PROVE  /\ ItemTypes /\ Listed = Elems(ll)
           /\ Handed(ll, cache, value)
           /\ Listed \subseteq DOMAIN value /\ Mapped \subseteq DOMAIN value
           /\ Weights(value, size) \in [Elem -> Nat]
           /\ later \subseteq Elem \X Elem /\ actualSize \in Int
<1>1. Listed = Elems(ll)
  BY DEF Listed, Elems
<1>2. TypeOK /\ Distinct(ll)
  BY DEF Inv
<1>3. ItemTypes /\ later \subseteq Elem \X Elem /\ actualSize \in Int
  BY <1>2 DEF TypeOK, ItemTypes
<1>4. Listed \subseteq DOMAIN value /\ Mapped \subseteq DOMAIN value
  BY <1>2 DEF TypeOK
<1>5. Handed(ll, cache, value)
  <2>1. \A k \in DOMAIN cache : cache[k] \in DOMAIN value
    BY <1>4 DEF Mapped
  <2>2. cache \in [DOMAIN cache -> DOMAIN value]
    BY <2>1, <1>2 DEF TypeOK
  <2> QED BY <2>2, <1>1, <1>2, <1>4 DEF TypeOK, Handed
<1>6. Weights(value, size) \in [Elem -> Nat]
  <2>1. \A e \in DOMAIN value : value[e] \in Item /\ size[value[e]] \in Nat
    BY <1>3, <1>5, ItemsAssumption DEF Handed, ItemTypes
  <2> QED BY <2>1 DEF Weights
<1> QED BY <1>1, <1>3, <1>4, <1>5, <1>6

\* What ends in the loop of Put keeps the invariant.
LEMMA PutKeeps ==
    ASSUME Inv, NEW x \in Item, NEW s, NEW n \in Int, NEW m, NEW v,
           Handed(s, m, v), Evict(x, s, n, m, v), Ordered(s, later'),
           later' \subseteq Elem \X Elem,
           UNCHANGED <<items, written, rekeyed>>,
           Listed \subseteq Elems(s),
           Injective(m),
           \A k \in DOMAIN m \ {ZeroHash} :
              hash[v[m[k]]] = k \/ (v[m[k]] = x /\ Hash(x) = k),
           ~rekeyed => Matches(s, m, v),
           ~written => n = SumOf(s, Weights(v, size))
    PROVE  Inv' /\ OldestGo
<1>0. ItemTypes /\ UNCHANGED items /\ written' = written /\ rekeyed' = rekeyed
  BY InvFacts
<1>1. /\ DOMAIN value' \subseteq Elem /\ value' \in [DOMAIN value' -> Item]
      /\ DOMAIN value' = Listed' \cup Mapped'
      /\ ll' \in Seq(Elem) /\ Distinct(ll') /\ Ordered(ll', later')
      /\ DOMAIN cache' \subseteq Key /\ cache' \in [DOMAIN cache' -> Elem]
      /\ hash' \in [Item -> Key]
      /\ \A e \in Elems(s) \ Listed', f \in Listed' : <<f, e>> \in later'
  BY <1>0, EvictTypes, Zenon
<1>2. Injective(cache') /\ KeepTheirs(cache', value', hash')
  BY <1>0, EvictHits, Zenon
<1>3. ASSUME ~rekeyed' PROVE Matches(ll, cache, value)'
  <2>1. Matches(s, m, v)
    BY <1>0, <1>3
  <2> QED BY <2>1, <1>0, EvictMatches
<1>4. ASSUME ~written' PROVE actualSize' = Sum(ll)' /\ Sum(ll)' <= MaxSize
  <2>1. n = SumOf(s, Weights(v, size))
    BY <1>0, <1>4
  <2> QED BY <2>1, <1>0, EvictFits, Zenon
<1>5. actualSize' \in Int
  <2>1. s \in Seq(Elem)
    BY DEF Handed
  <2> DEFINE w == Weights(v, size)
             out == SubSeq(s, Kept(s, n, w) + 1, Len(s))
  <2>2. w \in [Elem -> Nat]
    <3>1. \A e \in DOMAIN v : v[e] \in Item /\ size[v[e]] \in Nat
      BY <1>0, ItemsAssumption DEF Handed, ItemTypes
    <3> QED BY <3>1 DEF Weights
  <2>3. actualSize' = n - SumOf(out, w) \/ actualSize' = 0
    BY DEF Evict
  <2> HIDE DEF w
  <2>4. out \in Seq(Elem)
    <3>1. Kept(s, n, w) \in 0..Len(s)
      BY <2>1, KeptIsLength
    <3> QED BY <2>1, <3>1, SplitAt
  <2> HIDE DEF out
  <2>5. SumOf(out, w) \in Nat
    BY <2>2, <2>4, SumsAreNat
  <2> QED BY <2>3, <2>5
<1>6. TypeOK'
  <2>1. size' \in [Item -> Sizes] /\ cont' \in [Item -> Sizes]
    BY <1>0 DEF ItemTypes, items
  <2>2. written' \in BOOLEAN /\ rekeyed' \in BOOLEAN
    BY <1>0 DEF Inv, TypeOK
  <2> QED BY <2>1, <2>2, <1>1, <1>5, Zenon DEF TypeOK
<1>7. NeverExceeded'
  BY <1>4 DEF NeverExceeded
<1>8. rekeyed' => written'
  BY <1>0 DEF Inv
<1>9. Inv'
  BY <1>1, <1>2, <1>3, <1>6, <1>7, <1>8, Zenon DEF Inv
<1>10. OldestGo
  BY <1>1 DEF OldestGo
<1> QED BY <1>9, <1>10

\* MoveToFront makes an element the one used last, and does nothing to the list
\* when the element was evicted from it.
LEMMA ToFrontFacts ==
    ASSUME Inv, NEW e \in DOMAIN value, Use(e)
    PROVE  /\ ToFront(e) \in Seq(Elem)
           /\ Distinct(ToFront(e)) /\ Ordered(ToFront(e), later')
           /\ Elems(ToFront(e)) = Listed
           /\ later' \subseteq Elem \X Elem
<1>0. /\ ll \in Seq(Elem) /\ Distinct(ll) /\ Ordered(ll, later)
      /\ Listed = Elems(ll) /\ Listed \subseteq DOMAIN value /\ DOMAIN value \subseteq Elem
      /\ later \subseteq Elem \X Elem
  BY InvFacts, Zenon DEF Inv, Handed
<1>1. later' = ({e} \X (DOMAIN value \ {e}))
                 \cup (later \cap ((DOMAIN value \ {e}) \X (DOMAIN value \ {e})))
  BY DEF Use
<1>2. later' \subseteq Elem \X Elem
  BY <1>0, <1>1
<1>3. CASE e \notin Listed
  <2>1. ToFront(e) = ll
    BY <1>3 DEF ToFront
  <2>2. Ordered(ll, later')
    <3> SUFFICES ASSUME NEW i \in 1..Len(ll), NEW j \in 1..Len(ll), i < j
                 PROVE  <<ll[i], ll[j]>> \in later'
      BY DEF Ordered
    <3>1. ll[i] \in Listed /\ ll[j] \in Listed
      BY DEF Listed
    <3>2. <<ll[i], ll[j]>> \in later
      BY <1>0 DEF Ordered
    <3>3. ll[i] \in DOMAIN value \ {e} /\ ll[j] \in DOMAIN value \ {e}
      BY <3>1, <1>0, <1>3
    <3> QED BY <3>2, <3>3, <1>1
  <2> QED BY <2>1, <2>2, <1>0, <1>2
<1>4. CASE e \in Listed
  <2> DEFINE p == Place(e)
             r == RemoveAt(ll, p)
  <2>1. p \in 1..Len(ll) /\ ll[p] = e
    <3>1. \E i \in 1..Len(ll) : ll[i] = e
      BY <1>4 DEF Listed
    <3> QED BY <3>1, Zenon DEF Place
  <2>2. ToFront(e) = <<e>> \o r
    BY <1>4 DEF ToFront
  <2> HIDE DEF p
  <2>3. r \in Seq(Elem)
    BY <1>0, <2>1, WithoutElement
  <2>4. Distinct(r) /\ Ordered(r, later) /\ Elems(r) = Elems(ll) \ {e}
    BY <1>0, <2>1, WithoutOne
  <2> HIDE DEF r
  <2>5. e \in Elem /\ e \notin Elems(r) /\ Elems(r) \subseteq DOMAIN value
    BY <1>0, <2>4
  <2>6. <<e>> \o r \in Seq(Elem)
    BY <2>3, <2>5, PutInFront
  <2>7. /\ Distinct(<<e>> \o r) /\ Ordered(<<e>> \o r, later')
        /\ Elems(<<e>> \o r) = Elems(r) \cup {e}
    BY <2>3, <2>4, <2>5, FrontElement
  <2>8. Elems(r) \cup {e} = Listed
    BY <2>4, <1>0, <1>4
  <2> QED BY <2>2, <2>6, <2>7, <2>8, <1>2
<1> QED BY <1>3, <1>4

\* MoveToFront with another weight for the element changes the sum by the
\* difference.
LEMMA ToFrontSum ==
    ASSUME Inv, NEW e \in Listed, NEW u \in [Elem -> Nat], NEW w \in [Elem -> Nat],
           \A f \in Elem \ {e} : w[f] = u[f]
    PROVE  SumOf(ToFront(e), w) = SumOf(ll, u) + w[e] - u[e]
<1> DEFINE p == Place(e)
           r == RemoveAt(ll, p)
<1>0. /\ ll \in Seq(Elem) /\ Distinct(ll) /\ Ordered(ll, later) /\ Listed = Elems(ll)
      /\ e \in Elem
  <2>1. Listed \subseteq DOMAIN value /\ DOMAIN value \subseteq Elem
    BY InvFacts DEF Handed
  <2> QED BY <2>1, InvFacts, Zenon DEF Inv, Handed
<1>1. p \in 1..Len(ll) /\ ll[p] = e
  <2>1. \E i \in 1..Len(ll) : ll[i] = e
    BY DEF Listed
  <2> QED BY <2>1, Zenon DEF Place
<1>2. ToFront(e) = <<e>> \o r
  BY DEF ToFront
<1> HIDE DEF p
<1>3. r \in Seq(Elem)
  BY <1>0, <1>1, WithoutElement
<1>4. Elems(r) = Elems(ll) \ {e}
  BY <1>0, <1>1, WithoutOne
<1>5. SumOf(r, u) = SumOf(ll, u) - u[e]
  BY <1>0, <1>1, SumWithout
<1> HIDE DEF r
<1>6. SumOf(r, w) = SumOf(r, u)
  <2>1. ASSUME NEW i \in 1..Len(r) PROVE r[i] \in Elem \ {e}
    <3>1. r[i] \in Elems(r) /\ r[i] \in Elem
      BY <1>3, ElementOfSeq DEF Elems
    <3> QED BY <3>1, <1>4
  <2>2. \A i \in 1..Len(r) : w[r[i]] = u[r[i]]
    BY <2>1
  <2> QED BY <2>2, <1>3, SumOfOthers
<1>7. SumOf(<<e>> \o r, w) = w[e] + SumOf(r, w)
  BY <1>0, <1>3, SumWithFront
<1>8. SumOf(ll, u) \in Nat /\ u[e] \in Nat /\ w[e] \in Nat
  BY <1>0, SumsAreNat
<1> QED BY <1>2, <1>5, <1>6, <1>7, <1>8

-----------------------------------------------------------------------------
(* The methods *)

\* v are the values with x for the value of e, and u their weights.
IsWith(e, x, v, u) ==
    /\ DOMAIN v = DOMAIN value \cup {e} /\ v \in [DOMAIN v -> Item] /\ v[e] = x
    /\ \A f \in DOMAIN value \ {e} : v[f] = value[f]
    /\ u \in [Elem -> Nat] /\ u[e] = size[x]
    /\ \A f \in Elem \ {e} : u[f] = Weights(value, size)[f]

LEMMA WithValue ==
    ASSUME NEW e \in Elem, NEW x \in Item, ItemTypes,
           DOMAIN value \subseteq Elem, value \in [DOMAIN value -> Item]
    PROVE  IsWith(e, x, With(value, e, x), Weights(With(value, e, x), size))
<1> DEFINE v == With(value, e, x)
<1>1. /\ DOMAIN v = DOMAIN value \cup {e} /\ v[e] = x
      /\ \A f \in DOMAIN value \ {e} : v[f] = value[f]
      /\ v \in [DOMAIN v -> Item]
  BY DEF With
<1> HIDE DEF v
<1>2. /\ Weights(v, size) \in [Elem -> Nat] /\ Weights(v, size)[e] = size[x]
      /\ \A f \in Elem \ {e} : Weights(v, size)[f] = Weights(value, size)[f]
  <2>1. \A f \in DOMAIN v : v[f] \in Item /\ size[v[f]] \in Nat
    BY <1>1, ItemsAssumption DEF ItemTypes
  <2> QED BY <1>1, <2>1 DEF Weights
<1>3. IsWith(e, x, v, Weights(v, size))
  BY <1>1, <1>2, Zenon DEF IsWith
<1> QED BY <1>3 DEF v

\* Put of an item whose Hash the map has
LEMMA PutAgainKeeps ==
    ASSUME Inv, NEW x \in Item, PutAgain(x)
    PROVE  Inv' /\ OldestGo
<1> DEFINE k == Hash(x)
           e == cache[k]
           s == ToFront(e)
           v == With(value, e, x)
           n == actualSize + size[x] - size[value[e]]
           w == Weights(value, size)
           u == Weights(v, size)
<1>1. /\ k \in DOMAIN cache /\ Evict(x, s, n, cache, v) /\ Use(e)
      /\ UNCHANGED <<items, written, rekeyed>>
  BY DEF PutAgain
<1>2. /\ ItemTypes /\ Listed = Elems(ll) /\ Handed(ll, cache, value)
      /\ Listed \subseteq DOMAIN value /\ Mapped \subseteq DOMAIN value
      /\ w \in [Elem -> Nat] /\ actualSize \in Int
  BY InvFacts
<1>3. e \in DOMAIN value /\ e \in Elem /\ value[e] \in Item
  BY <1>1, <1>2 DEF Mapped, Handed
<1>4. size[x] \in Nat /\ size[value[e]] \in Nat
  BY <1>2, <1>3, ItemsAssumption DEF ItemTypes
<1>5. n \in Int
  BY <1>2, <1>4
<1> HIDE DEF k
<1>6. /\ s \in Seq(Elem) /\ Distinct(s) /\ Ordered(s, later')
      /\ Elems(s) = Listed /\ later' \subseteq Elem \X Elem
  BY <1>1, <1>3, ToFrontFacts
<1> HIDE DEF e
<1>7. /\ DOMAIN v = DOMAIN value /\ v \in [DOMAIN v -> Item] /\ v[e] = x
      /\ \A f \in DOMAIN value \ {e} : v[f] = value[f]
      /\ u \in [Elem -> Nat] /\ u[e] = size[x]
      /\ \A f \in Elem \ {e} : u[f] = w[f]
  <2>1. IsWith(e, x, v, u)
    <3>1. DOMAIN value \subseteq Elem /\ value \in [DOMAIN value -> Item]
      BY <1>2 DEF Handed
    <3> QED BY <3>1, <1>2, <1>3, WithValue
  <2>2. DOMAIN value \cup {e} = DOMAIN value
    BY <1>3
  <2> HIDE DEF v, u
  <2> QED BY <2>1, <2>2, Zenon DEF IsWith
<1>8. w[e] = size[value[e]]
  BY <1>3 DEF Weights
<1> HIDE DEF v, u, w, s
<1>9. Handed(s, cache, v)
  BY <1>2, <1>6, <1>7 DEF Handed
<1>10. Injective(cache) /\ KeepTheirs(cache, value, hash)
  BY DEF Inv
<1>11. ASSUME NEW j \in DOMAIN cache, cache[j] = e PROVE j = k
  BY <1>1, <1>10, <1>11 DEF Injective, e
<1>12. \A j \in DOMAIN cache : cache[j] \in DOMAIN value
  BY <1>2 DEF Mapped
<1>13. ASSUME NEW j \in DOMAIN cache \ {ZeroHash}
       PROVE  hash[v[cache[j]]] = j \/ (v[cache[j]] = x /\ Hash(x) = j)
  <2>1. CASE cache[j] = e
    <3>1. j = Hash(x)
      BY <1>11, <2>1 DEF k
    <3> QED BY <3>1, <2>1, <1>7
  <2>2. CASE cache[j] # e
    <3>1. v[cache[j]] = value[cache[j]]
      BY <2>2, <1>7, <1>12
    <3> QED BY <3>1, <1>10 DEF KeepTheirs
  <2> QED BY <2>1, <2>2
<1>14. ASSUME ~rekeyed PROVE Matches(s, cache, v)
  <2>1. Matches(ll, cache, value)
    BY <1>14 DEF Inv
  <2>2. ASSUME NEW f \in Elems(s) PROVE Hash(v[f]) \in DOMAIN cache /\ cache[Hash(v[f])] = f
    <3>1. CASE f = e
      BY <3>1, <1>1, <1>7 DEF k, e
    <3>2. CASE f # e
      <4>1. v[f] = value[f] /\ f \in Elems(ll)
        BY <3>2, <1>2, <1>6, <1>7
      <4> QED BY <4>1, <2>1 DEF Matches
    <3> QED BY <3>1, <3>2
  <2>3. ASSUME NEW j \in DOMAIN cache PROVE cache[j] \in Elems(s) /\ Hash(v[cache[j]]) = j
    <3>1. cache[j] \in Elems(s) /\ Hash(value[cache[j]]) = j
      BY <2>1, <1>2, <1>6 DEF Matches
    <3>2. CASE cache[j] = e
      BY <3>1, <3>2, <1>7, <1>11 DEF k
    <3>3. CASE cache[j] # e
      <4>1. v[cache[j]] = value[cache[j]]
        BY <3>3, <1>7, <1>12
      <4> QED BY <4>1, <3>1
    <3> QED BY <3>2, <3>3, <3>1
  <2> QED BY <2>2, <2>3 DEF Matches
<1>15. ASSUME ~written PROVE n = SumOf(s, u)
  <2>1. actualSize = SumOf(ll, w) /\ ~rekeyed
    BY <1>15 DEF Inv, NeverExceeded, Sum, w
  <2>2. e \in Listed
    BY <2>1, <1>1, <1>2 DEF Inv, Matches, e
  <2>3. SumOf(s, u) = SumOf(ll, w) + u[e] - w[e]
    BY <2>2, <1>2, <1>7, ToFrontSum DEF s
  <2> QED BY <2>1, <2>3, <1>7, <1>8
<1> HIDE DEF n
<1>16. ~written => n = SumOf(s, Weights(v, size))
  BY <1>15 DEF u
<1>17. ~rekeyed => Matches(s, cache, v)
  BY <1>14
<1> QED
  BY <1>1, <1>5, <1>6, <1>9, <1>10, <1>13, <1>16, <1>17, PutKeeps

\* Put of an item whose Hash the map does not have
LEMMA PutNewKeeps ==
    ASSUME Inv, NEW x \in Item, PutNew(x)
    PROVE  Inv' /\ OldestGo
<1>1. PICK e \in Elem \ DOMAIN value :
         /\ Evict(x, <<e>> \o ll, actualSize + size[x], With(cache, Hash(x), e), With(value, e, x))
         /\ Use(e)
  BY DEF PutNew
<1> DEFINE k == Hash(x)
           s == <<e>> \o ll
           m == With(cache, k, e)
           v == With(value, e, x)
           n == actualSize + size[x]
           w == Weights(value, size)
           u == Weights(v, size)
<1>2. Hash(x) \notin DOMAIN cache /\ UNCHANGED <<items, written, rekeyed>>
  BY DEF PutNew
<1>3. /\ ItemTypes /\ Listed = Elems(ll) /\ Handed(ll, cache, value)
      /\ Listed \subseteq DOMAIN value /\ Mapped \subseteq DOMAIN value
      /\ w \in [Elem -> Nat] /\ later \subseteq Elem \X Elem /\ actualSize \in Int
  BY InvFacts
<1>4. size[x] \in Nat /\ n \in Int /\ Hash(x) \in Key
  <2>1. size[x] \in Nat
    BY <1>3, ItemsAssumption DEF ItemTypes
  <2>2. Hash(x) \in Key
    <3>1. hash[x] \in Key /\ cont[x] \in Sizes /\ HashOf(x, cont[x]) \in Key
      BY <1>3, ItemsAssumption DEF ItemTypes
    <3> QED BY <3>1 DEF Hash
  <2> QED BY <2>1, <2>2, <1>3
<1>5. /\ ll \in Seq(Elem) /\ Distinct(ll) /\ Ordered(ll, later)
      /\ DOMAIN value \subseteq Elem /\ value \in [DOMAIN value -> Item]
      /\ DOMAIN cache \subseteq Key /\ cache \in [DOMAIN cache -> DOMAIN value]
  BY <1>3, Zenon DEF Handed, Inv
<1>6. s \in Seq(Elem)
  BY <1>5, PutInFront
<1>7. Distinct(s) /\ Ordered(s, later') /\ Elems(s) = Elems(ll) \cup {e}
  BY <1>1, <1>3, <1>5, FrontElement
<1>8. later' \subseteq Elem \X Elem
  BY <1>1, <1>3, <1>5 DEF Use
<1>9. /\ DOMAIN v = DOMAIN value \cup {e} /\ v \in [DOMAIN v -> Item] /\ v[e] = x
      /\ \A f \in DOMAIN value : v[f] = value[f]
      /\ u \in [Elem -> Nat] /\ u[e] = size[x]
      /\ \A f \in Elem \ {e} : u[f] = w[f]
  <2>1. IsWith(e, x, v, u)
    <3>1. e \in Elem
      BY <1>1
    <3> QED BY <3>1, <1>3, <1>5, WithValue
  <2>2. e \notin DOMAIN value
    BY <1>1
  <2> HIDE DEF v, u
  <2>3. \A f \in DOMAIN value : v[f] = value[f]
    BY <2>1, <2>2 DEF IsWith
  <2> QED BY <2>1, <2>3, Zenon DEF IsWith
<1> HIDE DEF k
<1>10. /\ DOMAIN m = DOMAIN cache \cup {k} /\ m[k] = e
       /\ \A j \in DOMAIN cache : m[j] = cache[j] /\ cache[j] \in DOMAIN value /\ j # k
  BY <1>2, <1>5 DEF With, k
<1>11. m \in [DOMAIN m -> DOMAIN v] /\ DOMAIN m \subseteq Key
  <2>1. \A j \in DOMAIN m : m[j] \in DOMAIN v
    <3> HIDE DEF v, m
    <3> QED BY <1>9, <1>10
  <2>2. m = [j \in DOMAIN m |-> m[j]]
    BY DEF With
  <2> HIDE DEF m, v
  <2> QED BY <2>1, <2>2, <1>4, <1>5, <1>10 DEF k
<1>12. SumOf(s, u) = u[e] + SumOf(ll, w)
  <2> HIDE DEF u, w, v
  <2>1. SumOf(s, u) = u[e] + SumOf(ll, u)
    BY <1>1, <1>5, <1>9, SumWithFront
  <2>2. \A i \in 1..Len(ll) : ll[i] \in Elem \ {e}
    <3> SUFFICES ASSUME NEW i \in 1..Len(ll) PROVE ll[i] \in Elem \ {e}
      OBVIOUS
    <3>1. ll[i] \in Listed
      BY DEF Listed
    <3> QED BY <3>1, <1>1, <1>3, <1>5
  <2>3. \A i \in 1..Len(ll) : u[ll[i]] = w[ll[i]]
    BY <2>2, <1>9
  <2>4. SumOf(ll, u) = SumOf(ll, w)
    BY <2>3, <1>3, <1>5, <1>9, SumOfOthers
  <2> QED BY <2>1, <2>4
<1> HIDE DEF v, u, w, s, m
<1>13. Handed(s, m, v)
  BY <1>3, <1>5, <1>6, <1>7, <1>9, <1>11 DEF Handed
<1>14. Listed \subseteq Elems(s)
  BY <1>3, <1>7
<1>15. Injective(cache) /\ KeepTheirs(cache, value, hash)
  BY DEF Inv
<1>16. Injective(m)
  BY <1>1, <1>10, <1>15 DEF Injective
<1>17. ASSUME NEW j \in DOMAIN m \ {ZeroHash}
       PROVE  hash[v[m[j]]] = j \/ (v[m[j]] = x /\ Hash(x) = j)
  <2>1. CASE j = k
    BY <2>1, <1>9, <1>10 DEF k
  <2>2. CASE j # k
    <3>1. j \in DOMAIN cache \ {ZeroHash} /\ v[m[j]] = value[cache[j]]
      BY <2>2, <1>9, <1>10
    <3> QED BY <3>1, <1>15 DEF KeepTheirs
  <2> QED BY <2>1, <2>2
<1>18. ASSUME ~rekeyed PROVE Matches(s, m, v)
  <2>1. Matches(ll, cache, value)
    BY <1>18 DEF Inv
  <2>2. ASSUME NEW f \in Elems(s) PROVE Hash(v[f]) \in DOMAIN m /\ m[Hash(v[f])] = f
    <3>1. CASE f = e
      BY <3>1, <1>9, <1>10 DEF k
    <3>2. CASE f # e
      <4>1. v[f] = value[f] /\ f \in Elems(ll)
        BY <3>2, <1>3, <1>7, <1>9
      <4>2. Hash(value[f]) \in DOMAIN cache /\ cache[Hash(value[f])] = f
        BY <4>1, <2>1 DEF Matches
      <4> QED BY <4>1, <4>2, <1>10
    <3> QED BY <3>1, <3>2
  <2>3. ASSUME NEW j \in DOMAIN m PROVE m[j] \in Elems(s) /\ Hash(v[m[j]]) = j
    <3>1. CASE j = k
      BY <3>1, <1>7, <1>9, <1>10 DEF k
    <3>2. CASE j # k
      <4>1. j \in DOMAIN cache /\ m[j] = cache[j] /\ v[m[j]] = value[cache[j]]
        BY <3>2, <1>9, <1>10
      <4>2. cache[j] \in Elems(ll) /\ Hash(value[cache[j]]) = j
        BY <4>1, <2>1 DEF Matches
      <4> QED BY <4>1, <4>2, <1>7
    <3> QED BY <3>1, <3>2
  <2> QED BY <2>2, <2>3 DEF Matches
<1>19. ASSUME ~written PROVE n = SumOf(s, Weights(v, size))
  <2>1. actualSize = SumOf(ll, w)
    BY <1>19 DEF Inv, NeverExceeded, Sum, w
  <2>2. SumOf(ll, w) \in Nat
    BY <1>3, <1>5, SumsAreNat
  <2> QED BY <2>1, <2>2, <1>4, <1>9, <1>12 DEF u
<1>20. Evict(x, s, n, m, v)
  BY <1>1 DEF s, m, v, k
<1> HIDE DEF n
<1>21. ~rekeyed => Matches(s, m, v)
  BY <1>18
<1>22. ~written => n = SumOf(s, Weights(v, size))
  BY <1>19
<1> QED
  BY <1>2, <1>4, <1>7, <1>8, <1>13, <1>14, <1>16, <1>17, <1>20, <1>21, <1>22, PutKeeps

\* Put of an object that is too large has its Hash computed, and changes none.
LEMMA PutTooLargeKeeps ==
    ASSUME Inv, NEW x \in Item, PutTooLarge(x)
    PROVE  Inv' /\ Listed' = Listed
<1>1. /\ Hashed({x}) /\ UNCHANGED items
      /\ ll' = ll /\ cache' = cache /\ value' = value /\ actualSize' = actualSize
      /\ size' = size /\ cont' = cont /\ later' = later /\ written' = written /\ rekeyed' = rekeyed
  BY DEF PutTooLarge, items
<1>2. ItemTypes /\ Listed = Elems(ll) /\ Handed(ll, cache, value)
  BY InvFacts
<1>3. /\ hash' \in [Item -> Key]
      /\ \A y \in Item : /\ Hash(y)' = Hash(y)
                         /\ hash[y] # ZeroHash => hash'[y] = hash[y]
  BY <1>1, <1>2, HashStays
<1>4. Listed' = Listed /\ Mapped' = Mapped
  BY <1>1 DEF Listed, Mapped
<1>5. \A k \in DOMAIN cache : value[cache[k]] \in Item
  BY <1>2 DEF Handed
<1>6. \A e \in Elems(ll) : value[e] \in Item
  BY <1>2 DEF Handed
<1>7. TypeOK'
  BY <1>1, <1>3, <1>4, Zenon DEF Inv, TypeOK
<1>8. KeepTheirs(cache', value', hash')
  <2> SUFFICES ASSUME NEW k \in DOMAIN cache \ {ZeroHash} PROVE hash'[value[cache[k]]] = k
    BY <1>1 DEF KeepTheirs
  <2>1. hash[value[cache[k]]] = k
    BY DEF Inv, KeepTheirs
  <2> QED BY <2>1, <1>3, <1>5
<1>9. ASSUME ~rekeyed' PROVE Matches(ll, cache, value)'
  <2>1. Matches(ll, cache, value)
    BY <1>1, <1>9 DEF Inv
  <2>2. \A e \in Elems(ll) : Hash(value[e])' = Hash(value[e])
    <3> SUFFICES ASSUME NEW e \in Elems(ll) PROVE Hash(value[e])' = Hash(value[e])
      OBVIOUS
    <3>1. \A y \in Item : y = value[e] => Hash(value[e])' = Hash(y)
      BY <1>1, <1>3 DEF Hash
    <3> QED BY <3>1, <1>6
  <2>3. \A k \in DOMAIN cache : cache[k] \in Elems(ll) /\ Hash(value[cache[k]])' = k
    <3> SUFFICES ASSUME NEW k \in DOMAIN cache
                 PROVE  cache[k] \in Elems(ll) /\ Hash(value[cache[k]])' = k
      OBVIOUS
    <3>1. cache[k] \in Elems(ll) /\ Hash(value[cache[k]]) = k
      BY <2>1 DEF Matches
    <3>2. \A y \in Item : y = value[cache[k]] => Hash(value[cache[k]])' = Hash(y)
      BY <1>1, <1>3 DEF Hash
    <3> QED BY <3>1, <3>2, <1>5
  <2>4. \A e \in Elems(ll) : Hash(value[e])' \in DOMAIN cache /\ cache[Hash(value[e])'] = e
    <3> HIDE DEF Hash
    <3> QED BY <2>1, <2>2 DEF Matches
  <2>5. Elems(ll)' = Elems(ll)
    BY <1>1 DEF Elems
  <2> QED BY <2>3, <2>4, <2>5, <1>1 DEF Matches
<1>10. NeverExceeded'
  <2>1. Sum(ll)' = Sum(ll)
    BY <1>1 DEF Sum
  <2> QED BY <2>1, <1>1 DEF Inv, NeverExceeded
<1>11. /\ Distinct(ll') /\ Ordered(ll', later') /\ Injective(cache')
       /\ rekeyed' => written'
  BY <1>1, Zenon DEF Inv
<1> QED BY <1>4, <1>7, <1>8, <1>9, <1>10, <1>11, Zenon DEF Inv

\* Get changes the order alone, and only of an element in the list.
LEMMA GetKeeps ==
    ASSUME Inv, NEW k \in Key, Get(k)
    PROVE  Inv' /\ Listed' = Listed
<1> DEFINE e == cache[k]
           s == ToFront(e)
           w == Weights(value, size)
<1>1. /\ k \in DOMAIN cache /\ ll' = s /\ Use(e)
      /\ cache' = cache /\ value' = value /\ actualSize' = actualSize
      /\ size' = size /\ cont' = cont /\ hash' = hash
      /\ written' = written /\ rekeyed' = rekeyed
  BY DEF Get, items
<1>2. /\ Listed = Elems(ll) /\ Handed(ll, cache, value) /\ Mapped \subseteq DOMAIN value
      /\ w \in [Elem -> Nat]
  BY InvFacts
<1>3. e \in DOMAIN value
  BY <1>1, <1>2 DEF Mapped
<1>4. /\ s \in Seq(Elem) /\ Distinct(s) /\ Ordered(s, later')
      /\ Elems(s) = Listed /\ later' \subseteq Elem \X Elem
  BY <1>1, <1>3, ToFrontFacts
<1>5. SumOf(s, w) = SumOf(ll, w)
  <2>1. CASE e \in Listed
    <3> HIDE DEF e, w
    <3>1. SumOf(ToFront(e), w) = SumOf(ll, w) + w[e] - w[e]
      BY <2>1, <1>2, ToFrontSum
    <3>2. SumOf(ll, w) \in Nat /\ w[e] \in Nat
      <4>1. ll \in Seq(Elem) /\ e \in Elem
        BY <1>2, <1>3 DEF Handed
      <4> QED BY <4>1, <1>2, SumsAreNat
    <3> QED BY <3>1, <3>2
  <2>2. CASE e \notin Listed
    BY <2>2 DEF ToFront
  <2> QED BY <2>1, <2>2
<1> HIDE DEF s, e
<1>6. Elems(ll)' = Elems(ll) /\ Listed' = Listed /\ Mapped' = Mapped
  <2>1. Elems(ll)' = Elems(s) /\ Listed' = Elems(s)
    BY <1>1 DEF Elems, Listed
  <2>2. Mapped' = Mapped
    BY <1>1 DEF Mapped
  <2> QED BY <2>1, <2>2, <1>2, <1>4
<1>7. TypeOK'
  BY <1>1, <1>4, <1>6, Zenon DEF Inv, TypeOK
<1>8. Injective(cache') /\ KeepTheirs(cache', value', hash') /\ (rekeyed' => written')
  BY <1>1, Zenon DEF Inv
<1>9. ASSUME ~rekeyed' PROVE Matches(ll, cache, value)'
  <2>1. Matches(ll, cache, value)
    BY <1>1, <1>9 DEF Inv
  <2>2. \A f : Hash(value[f])' = Hash(value[f])
    BY <1>1 DEF Hash
  <2>3. \A j : Hash(value[cache[j]])' = Hash(value[cache[j]])
    BY <1>1 DEF Hash
  <2> QED BY <2>1, <2>2, <2>3, <1>1, <1>6 DEF Matches
<1>10. NeverExceeded'
  <2>1. Sum(ll)' = SumOf(s, w)
    BY <1>1 DEF Sum, w
  <2>2. Sum(ll) = SumOf(ll, w)
    BY DEF Sum
  <2> HIDE DEF w
  <2> QED BY <2>1, <2>2, <1>1, <1>5 DEF Inv, NeverExceeded
<1>11. Distinct(ll') /\ Ordered(ll', later')
  BY <1>1, <1>4
<1> QED BY <1>6, <1>7, <1>8, <1>9, <1>10, <1>11, Zenon DEF Inv

\* A cache without a list and a map
Empty ==
    /\ ll = <<>> /\ cache = <<>> /\ value = <<>> /\ actualSize = 0
    /\ later = {} /\ written = FALSE /\ rekeyed = FALSE

LEMMA EmptyInv == Empty /\ ItemTypes => Inv /\ Listed = {}
<1> SUFFICES ASSUME Empty, ItemTypes PROVE Inv /\ Listed = {}
  OBVIOUS
<1>1. /\ ll \in Seq(Elem) /\ Len(ll) = 0 /\ DOMAIN cache = {} /\ DOMAIN value = {}
  BY EmptySeq, LenProperties DEF Empty
<1>2. Listed = {} /\ Elems(ll) = {} /\ Mapped = {}
  BY <1>1 DEF Listed, Elems, Mapped
<1>3. actualSize = 0 /\ later = {} /\ written = FALSE /\ rekeyed = FALSE
  BY DEF Empty
<1>4. cache \in [{} -> Elem] /\ value \in [{} -> Item]
  BY <1>1 DEF Empty
<1>5. TypeOK
  <2>1. DOMAIN value \subseteq Elem /\ DOMAIN cache \subseteq Key /\ DOMAIN value = Listed \cup Mapped
    BY <1>1, <1>2
  <2>2. value \in [DOMAIN value -> Item] /\ cache \in [DOMAIN cache -> Elem]
    BY <1>1, <1>4
  <2>3. actualSize \in Int /\ later \subseteq Elem \X Elem
    BY <1>3
  <2>4. written \in BOOLEAN /\ rekeyed \in BOOLEAN
    BY <1>3, Zenon
  <2> QED BY <2>1, <2>2, <2>3, <2>4, <1>1, Zenon DEF TypeOK, ItemTypes
<1>6. Distinct(ll) /\ Ordered(ll, later)
  BY <1>1 DEF Distinct, Ordered
<1>7. Injective(cache) /\ KeepTheirs(cache, value, hash)
  BY <1>1 DEF Injective, KeepTheirs
<1>8. Matches(ll, cache, value)
  BY <1>1, <1>2 DEF Matches
<1>9. NeverExceeded
  <2>1. Weights(value, size) \in [Elem -> Nat]
    BY <1>1 DEF Weights
  <2>2. SumOf(ll, Weights(value, size)) = 0
    BY <2>1, <1>1, SumsAreNat DEF SumOf
  <2>3. Sum(ll) = 0 /\ MaxSize \in Nat
    BY <2>2, ItemsAssumption DEF Sum
  <2> QED BY <2>3, <1>3 DEF NeverExceeded
<1> QED BY <1>2, <1>3, <1>5, <1>6, <1>7, <1>8, <1>9, Zenon DEF Inv

LEMMA InitInv == Init => Inv
<1> SUFFICES ASSUME Init PROVE Inv
  OBVIOUS
<1>1. Empty
  BY Zenon DEF Init, Empty
<1>2. ItemTypes
  <2>1. size = SizeOf /\ cont = SizeOf /\ hash = [x \in Item |-> ZeroHash]
    BY DEF Init
  <2> QED BY <2>1, ItemsAssumption DEF ItemTypes
<1> QED BY <1>1, <1>2, EmptyInv

LEMMA ClearKeeps ==
    ASSUME Inv, Clear
    PROVE  Inv' /\ Listed' = {}
<1>1. /\ ll' = <<>> /\ cache' = <<>> /\ value' = <<>> /\ actualSize' = 0
      /\ later' = {} /\ written' = FALSE /\ rekeyed' = FALSE
      /\ size' = size /\ cont' = cont /\ hash' = hash
  BY DEF Clear, items
<1>2. Empty'
  BY <1>1, Zenon DEF Empty
<1>3. ItemTypes'
  <2>1. ItemTypes
    BY InvFacts
  <2> QED BY <2>1, <1>1 DEF ItemTypes
<1>4. Empty' /\ ItemTypes' => Inv' /\ (Listed = {})'
  BY EmptyInv, PTL
<1> QED BY <1>2, <1>3, <1>4

\* A write to an item that is not cached disturbs nothing; one to a cached item
\* leaves the hashes that are kept, and is remembered.
LEMMA ResizeKeeps ==
    ASSUME Inv, NEW x \in Item, NEW c \in Sizes, NEW n \in Sizes, Resize(x, c, n)
    PROVE  Inv' /\ Listed' = Listed
<1> DEFINE inside == x \in {value[e] : e \in Listed}
           w == Weights(value, size)
           u == Weights(value, size')
<1>1. /\ ll' = ll /\ cache' = cache /\ value' = value /\ actualSize' = actualSize
      /\ hash' = hash /\ later' = later
      /\ cont' = [cont EXCEPT ![x] = c] /\ size' = [size EXCEPT ![x] = n]
      /\ written' = (written \/ inside)
      /\ rekeyed' = (rekeyed \/ (inside /\ Hash(x)' # Hash(x)))
  BY DEF Resize
<1>2. ItemTypes /\ Listed = Elems(ll) /\ Handed(ll, cache, value) /\ w \in [Elem -> Nat]
  BY InvFacts
<1>3. /\ size' \in [Item -> Sizes] /\ cont' \in [Item -> Sizes]
      /\ \A y \in Item \ {x} : size'[y] = size[y] /\ cont'[y] = cont[y]
  BY <1>1, <1>2 DEF ItemTypes
<1>4. Listed' = Listed /\ Mapped' = Mapped /\ Elems(ll)' = Elems(ll)
  BY <1>1 DEF Listed, Mapped, Elems
<1>5. written' \in BOOLEAN /\ rekeyed' \in BOOLEAN /\ (rekeyed' => written')
  <2>1. written \in BOOLEAN /\ rekeyed \in BOOLEAN /\ (rekeyed => written)
    BY DEF Inv, TypeOK
  <2> HIDE DEF inside
  <2> QED BY <2>1, <1>1, Zenon
<1>6. TypeOK'
  BY <1>1, <1>3, <1>4, <1>5, Zenon DEF Inv, TypeOK
<1>7. /\ Distinct(ll') /\ Ordered(ll', later')
      /\ Injective(cache') /\ KeepTheirs(cache', value', hash')
  BY <1>1, Zenon DEF Inv
<1>8. \A e \in Elems(ll) : value[e] \in Item
  BY <1>2 DEF Handed
<1>9. ASSUME ~rekeyed' PROVE Matches(ll, cache, value)'
  <2>1. Matches(ll, cache, value) /\ (inside => Hash(x)' = Hash(x))
    BY <1>1, <1>9 DEF Inv
  <2>2. ASSUME NEW e \in Elems(ll) PROVE Hash(value[e])' = Hash(value[e])
    <3>1. CASE value[e] = x
      <4>1. inside
        BY <3>1, <1>2
      <4>2. Hash(value[e])' = Hash(x)' /\ Hash(value[e]) = Hash(x)
        BY <3>1, <1>1 DEF Hash
      <4> QED BY <4>1, <4>2, <2>1
    <3>2. CASE value[e] # x
      <4>1. size'[value[e]] = size[value[e]] /\ cont'[value[e]] = cont[value[e]]
        BY <3>2, <1>3, <1>8
      <4> QED BY <4>1, <1>1 DEF Hash
    <3> QED BY <3>1, <3>2
  <2>3. ASSUME NEW k \in DOMAIN cache
        PROVE  cache[k] \in Elems(ll) /\ Hash(value[cache[k]])' = k
    <3>1. cache[k] \in Elems(ll) /\ Hash(value[cache[k]]) = k
      BY <2>1 DEF Matches
    <3>2. \A e \in Elems(ll) : e = cache[k] => Hash(value[cache[k]])' = Hash(value[e])'
      BY <1>1 DEF Hash
    <3>3. \A e \in Elems(ll) : e = cache[k] => Hash(value[e])' = Hash(value[e])
      BY <2>2
    <3> HIDE DEF Hash
    <3> QED BY <3>1, <3>2, <3>3
  <2>4. \A e \in Elems(ll) : Hash(value[e])' \in DOMAIN cache /\ cache[Hash(value[e])'] = e
    <3> HIDE DEF Hash
    <3> QED BY <2>1, <2>2 DEF Matches
  <2> QED BY <2>3, <2>4, <1>1, <1>4 DEF Matches
<1>10. NeverExceeded'
  <2> SUFFICES ASSUME ~written' PROVE actualSize' = Sum(ll)' /\ Sum(ll)' <= MaxSize
    BY DEF NeverExceeded
  <2>1. ~written /\ ~inside
    BY <1>1
  <2>2. ASSUME NEW i \in 1..Len(ll) PROVE w[ll[i]] = u[ll[i]]
    <3>1. ll[i] \in Listed /\ ll[i] \in Elem /\ ll[i] \in DOMAIN value
      <4>1. ll[i] \in Listed
        BY DEF Listed
      <4> QED BY <4>1, <1>2 DEF Handed
    <3>2. value[ll[i]] \in Item \ {x}
      BY <3>1, <2>1, <1>2, <1>8
    <3>3. size'[value[ll[i]]] = size[value[ll[i]]]
      BY <3>2, <1>3
    <3> QED BY <3>1, <3>3 DEF Weights
  <2>3. u \in [Elem -> Nat]
    <3>1. \A e \in DOMAIN value : value[e] \in Item
      BY <1>2 DEF Handed
    <3>2. \A e \in DOMAIN value : size'[value[e]] \in Nat
      BY <3>1, <1>3, ItemsAssumption
    <3> QED BY <3>2 DEF Weights
  <2>4. Sum(ll)' = SumOf(ll, u) /\ Sum(ll) = SumOf(ll, w)
    BY <1>1 DEF Sum
  <2>5. ll \in Seq(Elem)
    BY <1>2 DEF Handed
  <2> HIDE DEF u, w
  <2>6. SumOf(ll, w) = SumOf(ll, u)
    BY <2>2, <2>3, <2>5, <1>2, SumOfOthers
  <2> QED BY <2>1, <2>4, <2>6, <1>1 DEF Inv, NeverExceeded
<1> QED BY <1>4, <1>5, <1>6, <1>7, <1>9, <1>10, Zenon DEF Inv

\* One case per method, and the writes that the cache is not told of
LEMMA StepKeeps ==
    ASSUME Inv, [Next]_vars
    PROVE  Inv' /\ OldestGo
<1>1. ASSUME NEW x \in Item, PutAgain(x) PROVE Inv' /\ OldestGo
  BY <1>1, PutAgainKeeps
<1>2. ASSUME NEW x \in Item, PutNew(x) PROVE Inv' /\ OldestGo
  BY <1>2, PutNewKeeps
<1>3. ASSUME Listed' = Listed \/ Listed' = {} PROVE OldestGo
  BY <1>3 DEF OldestGo
<1>4. ASSUME NEW x \in Item, PutTooLarge(x) PROVE Inv' /\ OldestGo
  BY <1>3, <1>4, PutTooLargeKeeps
<1>5. ASSUME NEW k \in Key, Get(k) PROVE Inv' /\ OldestGo
  BY <1>3, <1>5, GetKeeps
<1>6. ASSUME Clear PROVE Inv' /\ OldestGo
  BY <1>3, <1>6, ClearKeeps
<1>7. ASSUME NEW x \in Memory, Write(x) \/ SetSize(x) PROVE Inv' /\ OldestGo
  <2>1. x \in Item /\ ItemTypes
    BY ItemsAssumption, InvFacts
  <2>2. \E c \in Sizes, n \in Sizes : Resize(x, c, n)
    <3>1. cont[x] \in Sizes
      BY <2>1 DEF ItemTypes
    <3> QED BY <3>1, <1>7 DEF Write, SetSize
  <2> QED BY <2>1, <2>2, <1>3, ResizeKeeps
<1>8. CASE UNCHANGED vars
  <2>1. /\ ll' = ll /\ cache' = cache /\ value' = value /\ actualSize' = actualSize
        /\ size' = size /\ cont' = cont /\ hash' = hash /\ later' = later
        /\ written' = written /\ rekeyed' = rekeyed
    BY <1>8 DEF vars
  <2>2. Listed' = Listed /\ Mapped' = Mapped /\ Sum(ll)' = Sum(ll)
    BY <2>1 DEF Listed, Mapped, Sum
  <2>3. TypeOK' /\ NeverExceeded'
    BY <2>1, <2>2, Zenon DEF Inv, TypeOK, NeverExceeded
  <2>4. ~rekeyed' => Matches(ll, cache, value)'
    <3>1. ~rekeyed => Matches(ll, cache, value)
      BY DEF Inv
    <3> QED BY <3>1, <2>1 DEF Matches, Elems, Hash
  <2>5. Inv'
    BY <2>1, <2>3, <2>4, Zenon DEF Inv
  <2> QED BY <2>2, <2>5, <1>3
<1> QED BY <1>1, <1>2, <1>4, <1>5, <1>6, <1>7, <1>8, Zenon DEF Next

-----------------------------------------------------------------------------
(* Theorems *)

\* The inductive invariant holds of every cache.
LEMMA Invariant == Spec => []Inv
<1>1. Inv /\ [Next]_vars => Inv'
  BY StepKeeps
<1> QED BY <1>1, InitInv, PTL DEF Spec

\* The list, the map and the account keep their types, and no element is kept
\* that neither the list nor the map has.
THEOREM CacheTypes == Spec => []TypeOK
<1>1. Inv => TypeOK
  BY DEF Inv
<1> QED BY <1>1, Invariant, PTL

\* List and map of a cache agree after every method, and every entry is under
\* the Hash of its object, whatever is put in, got, or written to, as long as no
\* write changes the Hash that MemoryObject.Hash has for an object that is
\* cached.  Objects that have their Hash may be written to.
\* With no such condition, a Get hits an object of the hash it was asked for.
THEOREM ListMatchesMapThm == Spec => []ListMatchesMap
<1>1. Inv => HitsHaveTheirHash
  BY DEF Inv, KeepTheirs, HitsHaveTheirHash, Hash
<1>2. Inv => ListMatchesMap
  BY <1>1, InvFacts DEF Inv, Matches, ListMatchesMap
<1> QED BY <1>2, Invariant, PTL

\* A Get never returns an object of another hash than it was asked for, with no
\* exception for what is written to cached objects, filled late ones included.
THEOREM HitsHaveTheirHashThm == Spec => []HitsHaveTheirHash
<1>1. Inv => HitsHaveTheirHash
  BY DEF Inv, KeepTheirs, HitsHaveTheirHash, Hash
<1> QED BY <1>1, Invariant, PTL

\* What a Put evicts was used before all that it keeps: the loop at the end of
\* Put takes the least recently used first, whatever has become of the keys.
THEOREM EvictsOldestThm == Spec => EvictsOldest
<1>1. Inv /\ [Next]_vars =>
        [\A e \in Listed \ Listed', f \in Listed' : <<f, e>> \in later']_vars
  BY StepKeeps DEF OldestGo
<1> QED BY <1>1, Invariant, PTL DEF Spec, EvictsOldest

\* "The maximum size will never be exceeded": after every Put, of a new key or
\* of a cached one with another size, what ObjectLRU and BufferLRU hold adds up
\* to their account and is within MaxSize, unless an object was written to
\* while it was cached.
THEOREM NeverExceededThm == Spec => []NeverExceeded
<1>1. Inv => NeverExceeded
  BY DEF Inv
<1> QED BY <1>1, Invariant, PTL

=============================================================================
