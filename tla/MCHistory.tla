------------------------------ MODULE MCHistory ------------------------------
(***************************************************************************)
(* Three plans: a commit of several files, in every order, with names that *)
(* sort to either side of a directory; three commits in a line, with texts *)
(* of up to three lines over two different ones, of up to two over three,  *)
(* and some in which edits slide; and the merge of a branch of one commit  *)
(* and one of two, with equal dates or others. The file may be missing.    *)
(***************************************************************************)
EXTENDS History

CONSTANTS x, y, z

Dot == 1
A == 3
Name == {<<A>>, <<A, Dot>>, <<A, A>>}
BlamedPath == <<<<A>>, <<A>>>>

Path == {<<n>> : n \in Name} \cup {BlamedPath, <<<<A>>, <<A, Dot>>>>, <<<<A, Dot>>, <<A>>>>}

TextsOf(lines, n) == UNION {[1 .. k -> lines] : k \in 0 .. n}

\* Two edits in a row that slide to the same patch.
Sliding == {<<z, y, y>>, <<x, z, y>>, <<x, x, z>>}

Linear3 == TextsOf({x, y}, 3) \cup TextsOf({x, y, z}, 2) \cup Sliding

Several ==
    {[i \in DOMAIN ps |-> [path |-> ps[i], hash |-> <<x>>]] :
        ps \in UNION {SetToAllKPermutations(P) : P \in {Q \in SUBSET Path : Cardinality(Q) = 4}}}

One(texts) ==
    {<<[path |-> BlamedPath, hash |-> text]>> : text \in texts}
        \cup {<<[path |-> <<<<A, A>>>>, hash |-> <<x>>]>>}

Of(indexes, parents, dates) ==
    [indexes |-> indexes, parents |-> parents, dates |-> dates]

Short == One({<<>>, <<x>>, <<x, y>>, <<y, x>>, <<x, x>>})

MCPlans ==
    <<  <<Of(Several, {<<>>}, {1})>>,
        <<Of(One(Linear3), {<<>>}, {1}), Of(One(Linear3), {<<1>>}, {2}),
          Of(One(Linear3), {<<2>>}, {3})>>,
        <<Of(Short, {<<>>}, {1}), Of(Short, {<<1>>}, {2}), Of(Short, {<<1>>}, {2, 3}),
          Of(Short, {<<3>>}, {2, 3}), Of(Short, {<<2, 4>>, <<4, 2>>}, {4})>>  >>
=============================================================================
