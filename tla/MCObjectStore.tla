---------------------------- MODULE MCObjectStore ----------------------------
(***************************************************************************)
(* Two commits to make, one after the other, on a first one.  The second   *)
(* has a tree that is in the storage already, old and named by nobody.  A  *)
(* pack holds the tree of the first commit and an object nobody names.     *)
(***************************************************************************)
EXTENDS ObjectStore, TLC

CONSTANTS blob1, blob2, tree1, tree2, commit1, commit2, commit3, stray, dropped

MCObject == {blob1, blob2, tree1, tree2, commit1, commit2, commit3, stray, dropped}

MCPoints ==
    (blob1 :> {}) @@ (blob2 :> {}) @@ (stray :> {blob1}) @@ (dropped :> {})
    @@ (tree1 :> {blob1}) @@ (tree2 :> {blob1, blob2})
    @@ (commit1 :> {tree1}) @@ (commit2 :> {tree2, commit1})
    @@ (commit3 :> {stray, commit2})

MCPacked == {{tree1, dropped}}
MCGarbage == {stray}
MCChanges == {<<blob2, tree2, commit2>>, <<stray, commit3>>}
=============================================================================
