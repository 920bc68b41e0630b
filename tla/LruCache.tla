------------------------------ MODULE LruCache ------------------------------
(***************************************************************************)
(* The caches of objects (object_lru.go) and of buffers (buffer_lru.go):   *)
(* least-recently-used eviction under a bound on the summed sizes.  The    *)
(* mutex makes every method one step.                                      *)
(*                                                                         *)
(* An item is an EncodedObject, with its Hash as the key, or the pair of a *)
(* key and a slice.  A slice stays as it is.  A MemoryObject may be written*)
(* to at any time, and has ZeroHash for its Hash until it is asked for one *)
(* while its content is of its size (memory.go); that Hash it keeps.       *)
(***************************************************************************)
EXTENDS Integers, Sequences, SequencesExt

CONSTANTS Item,          \* the objects or buffers
          Memory,        \* those that are MemoryObjects; {} for buffers
          Key,           \* the hashes, or the keys of buffers
          ZeroHash,      \* the hash of an object that has none yet
          HashOf(_, _),  \* the hash of an item with a content of some length
          SizeOf,        \* the sizes and lengths that the items start with
          Sizes,         \* the sizes and lengths there are
          Elem,          \* the elements of lists
          MaxSize,       \* the bound of the cache
          MaxDrift       \* bound: how far writes may take the account from the sum

ASSUME ItemsAssumption ==
    /\ Memory \subseteq Item
    /\ ZeroHash \in Key
    /\ \A x \in Item, n \in Sizes : HashOf(x, n) \in Key \ {ZeroHash}
    /\ SizeOf \in [Item -> Sizes]
    /\ Sizes \subseteq Nat
    /\ MaxSize \in Nat

VARIABLES ll,          \* the list, most recently used first
          cache,       \* the map, from keys to elements of the list or evicted from it
          value,       \* the items of the elements that ll or cache still has
          actualSize,
          size,        \* sz of every item
          cont,        \* the length of the content of every item
          hash,        \* h of every item
          later,       \* history variable: pairs of elements, the first used later
          written,     \* history variable: an item was written to while it was cached
          rekeyed      \* history variable: a write changed the Hash of a cached item

vars == <<ll, cache, value, actualSize, size, cont, hash, later, written, rekeyed>>

items == <<size, cont>>

\* The sums of the beginnings of a list, by their lengths, and of the list.
Sums(s, weight) ==
    LET upTo[i \in 0..Len(s)] == IF i = 0 THEN 0 ELSE upTo[i - 1] + weight[s[i]]
    IN  upTo

SumOf(s, weight) == Sums(s, weight)[Len(s)]

Weights(v, sz) == [e \in Elem |-> IF e \in DOMAIN v THEN sz[v[e]] ELSE 0]

Sum(s) == SumOf(s, Weights(value, size))

Listed == {ll[i] : i \in 1..Len(ll)}

Mapped == {cache[k] : k \in DOMAIN cache}

TypeOK ==
    /\ DOMAIN value \subseteq Elem /\ value \in [DOMAIN value -> Item]
    /\ DOMAIN value = Listed \cup Mapped
    /\ ll \in Seq(Elem)
    /\ DOMAIN cache \subseteq Key /\ cache \in [DOMAIN cache -> Elem]
    /\ actualSize \in Int
    /\ size \in [Item -> Sizes] /\ cont \in [Item -> Sizes] /\ hash \in [Item -> Key]
    /\ later \subseteq Elem \X Elem
    /\ written \in BOOLEAN /\ rekeyed \in BOOLEAN

Init ==
    /\ ll = <<>>
    /\ cache = <<>>
    /\ value = <<>>
    /\ actualSize = 0
    /\ size = SizeOf
    /\ cont = SizeOf
    /\ hash = [x \in Item |-> ZeroHash]
    /\ later = {}
    /\ written = FALSE
    /\ rekeyed = FALSE

-----------------------------------------------------------------------------
\* MemoryObject.Hash
Hash(x) ==
    IF hash[x] = ZeroHash /\ cont[x] = size[x] THEN HashOf(x, cont[x]) ELSE hash[x]

\* The calls of Hash on the items xs, and on no other
Hashed(xs) == hash' = [x \in Item |-> IF x \in xs THEN Hash(x) ELSE hash[x]]

\* The list after MoveToFront(e), which ignores an element that is not in it
Place(e) == CHOOSE i \in 1..Len(ll) : ll[i] = e

ToFront(e) == IF e \in Listed THEN <<e>> \o RemoveAt(ll, Place(e)) ELSE ll

\* The map m after m[k] = e
With(m, k, e) == [j \in DOMAIN m \cup {k} |-> IF j = k THEN e ELSE m[j]]

Without(m, ks) == [k \in DOMAIN m \ ks |-> m[k]]

\* The loop of Put over a list s, with weights w, that accounts for n: drop the
\* last elements until the account is within the bound.
Fits(s, n, w, kept) == n - SumOf(SubSeq(s, kept + 1, Len(s)), w) <= MaxSize

Kept(s, n, w) ==
    LET fitting == {kept \in 0..Len(s) : Fits(s, n, w, kept)}
    IN  IF fitting = {} THEN 0 ELSE CHOOSE kept \in fitting : \A k \in fitting : k <= kept

\* Put of x up to its loop left the list s, the account n, the map m and the
\* values v; the loop deletes the keys that the evicted items have now, and an
\* exhausted list resets the account.
\* Slips: the evicted keys stay in the map; the map gets items for elements.
EvictFromList(x, s, n, m, v) ==
    LET w == Weights(v, size)
        kept == Kept(s, n, w)
        out == SubSeq(s, kept + 1, Len(s))
    IN  /\ ll' = SubSeq(s, 1, kept)
        /\ cache' = m
        /\ value' = [e \in ToSet(ll') \cup {m[k] : k \in DOMAIN m} |-> v[e]]
        /\ actualSize' = IF Fits(s, n, w, kept) THEN n - SumOf(out, w) ELSE 0
        /\ Hashed({x} \cup {v[e] : e \in ToSet(out)})

EvictByItem(x, s, n, m, v) ==
    LET w == Weights(v, size)
        kept == Kept(s, n, w)
        out == SubSeq(s, kept + 1, Len(s))
    IN  /\ ll' = SubSeq(s, 1, kept)
        /\ cache' = Without([k \in DOMAIN m |-> v[m[k]]], {Hash(v[e]) : e \in ToSet(out)})
        /\ value' = v
        /\ actualSize' = IF Fits(s, n, w, kept) THEN n - SumOf(out, w) ELSE 0
        /\ Hashed({x} \cup {v[e] : e \in ToSet(out)})

Evict(x, s, n, m, v) ==
    LET w == Weights(v, size)
        kept == Kept(s, n, w)
        out == SubSeq(s, kept + 1, Len(s))
        gone == {v[e] : e \in ToSet(out)}
    IN  /\ ll' = SubSeq(s, 1, kept)
        /\ cache' = Without(m, {Hash(y) : y \in gone})
        /\ value' = [e \in Listed' \cup Mapped' |-> v[e]]
        /\ actualSize' = IF Fits(s, n, w, kept) THEN n - SumOf(out, w) ELSE 0
        /\ Hashed({x} \cup gone)

\* Get and Put make e the element used last.
Use(e) ==
    LET others == DOMAIN value \ {e}
    IN  later' = ({e} \X others) \cup (later \cap (others \X others))

\* Slip: a replaced item is not weighed against the bound.
PutAgainUnbounded(x) ==
    /\ Hash(x) \in DOMAIN cache
    /\ LET e == cache[Hash(x)]
       IN  /\ ll' = ToFront(e)
           /\ value' = [value EXCEPT ![e] = x]
           /\ actualSize' = actualSize + size[x] - size[value[e]]
           /\ Use(e)
    /\ Hashed({x})
    /\ UNCHANGED <<cache, items, written, rekeyed>>

\* Put of an item whose key is cached: it takes the place of the cached one.
PutAgain(x) ==
    /\ Hash(x) \in DOMAIN cache
    /\ LET e == cache[Hash(x)]
       IN  /\ Evict(x, ToFront(e), actualSize + size[x] - size[value[e]],
                    cache, With(value, e, x))
           /\ Use(e)
    /\ UNCHANGED <<items, written, rekeyed>>

PutNew(x) ==
    /\ Hash(x) \notin DOMAIN cache
    /\ size[x] <= MaxSize
    /\ \E e \in Elem \ DOMAIN value :
           /\ Evict(x, <<e>> \o ll, actualSize + size[x],
                    With(cache, Hash(x), e), With(value, e, x))
           /\ Use(e)
    /\ UNCHANGED <<items, written, rekeyed>>

PutTooLarge(x) ==
    /\ Hash(x) \notin DOMAIN cache
    /\ size[x] > MaxSize
    /\ Hashed({x})
    /\ UNCHANGED <<ll, cache, value, actualSize, items, later, written, rekeyed>>

\* Slip: MoveToFront is forgotten.
GetInPlace(k) ==
    /\ k \in DOMAIN cache
    /\ Use(cache[k])
    /\ UNCHANGED <<ll, cache, value, actualSize, items, hash, written, rekeyed>>

\* Get of a cached key
Get(k) ==
    /\ k \in DOMAIN cache
    /\ ll' = ToFront(cache[k])
    /\ Use(cache[k])
    /\ UNCHANGED <<cache, value, actualSize, items, hash, written, rekeyed>>

Clear ==
    /\ ll' = <<>>
    /\ cache' = <<>>
    /\ value' = <<>>
    /\ actualSize' = 0
    /\ later' = {}
    /\ written' = FALSE
    /\ rekeyed' = FALSE
    /\ UNCHANGED <<items, hash>>

\* x gets a content of length c and the size n; the cache is not told.
Resize(x, c, n) ==
    /\ UNCHANGED <<ll, cache, value, actualSize, hash, later>>
    /\ cont' = [cont EXCEPT ![x] = c]
    /\ size' = [size EXCEPT ![x] = n]
    /\ actualSize - SumOf(ll, Weights(value, size')) \in -MaxDrift..MaxDrift
    /\ LET inside == x \in {value[e] : e \in Listed}
       IN  /\ written' = (written \/ inside)
           /\ rekeyed' = (rekeyed \/ (inside /\ Hash(x)' # Hash(x)))

Write(x) == \E n \in Sizes : n >= cont[x] /\ Resize(x, n, n)

SetSize(x) == \E n \in Sizes : Resize(x, cont[x], n)

Next ==
    \/ \E x \in Item : PutAgain(x) \/ PutNew(x) \/ PutTooLarge(x)
    \/ \E k \in Key : Get(k)
    \/ Clear
    \/ \E x \in Memory : Write(x) \/ SetSize(x)

Spec == Init /\ [][Next]_vars

-----------------------------------------------------------------------------
(* Properties *)

\* A Get never hits an object of another hash, whatever was written to objects
\* while they were cached: an entry left behind by an eviction is a leak, and
\* not a wrong answer.
HitsHaveTheirHash ==
    \A k \in DOMAIN cache \ {ZeroHash} : Hash(value[cache[k]]) = k

\* The list and the map have the same elements, each under the Hash of its item:
\* no entry points to an element that was evicted from the list.  This needs
\* that no object was put before it was filled and filled while it was cached:
\* the entry under ZeroHash is not the one that eviction deletes then.  Hits
\* have their hash all the same.
ListMatchesMap ==
    /\ HitsHaveTheirHash
    /\ ~rekeyed =>
        /\ \A e \in Listed : Hash(value[e]) \in DOMAIN cache /\ cache[Hash(value[e])] = e
        /\ \A k \in DOMAIN cache : cache[k] \in Listed /\ Hash(value[cache[k]]) = k

\* "The maximum size will never be exceeded", also when a key is put again
\* with another size, as long as nothing is written to while it is cached; and
\* so long the account is the sum of what is cached.  A Clear makes it exact
\* again whatever was written before.
NeverExceeded ==
    ~written => actualSize = Sum(ll) /\ Sum(ll) <= MaxSize

\* Eviction is least-recently-used: an element that stays in the list was used
\* later than every element a step evicts, also when keys have changed.
EvictsOldest ==
    [][\A e \in Listed \ Listed', f \in Listed' : <<f, e>> \in later']_vars

=============================================================================
