--------------------------- MODULE MCMysqlStorage ---------------------------
(***************************************************************************)
(* Workloads for MysqlStorage.                                             *)
(***************************************************************************)
EXTENDS MysqlStorage, TLC

CONSTANTS c1, c2

Only(set) == (c1 :> set) @@ (c2 :> {})

\* Two processes that keep to the discipline of go-git's storage: c1 moves a
\* temporary file to where c2 creates files, c2 removes some.
Shared ==
    [creates |-> (c1 :> {<<"t">>, <<"d", "x">>}) @@ (c2 :> {<<"d", "x">>, <<"d", "e", "y">>}),
     mkdirs  |-> (c1 :> {<<"d", "e">>}) @@ (c2 :> {<<"d">>}),
     removes |-> (c1 :> {}) @@ (c2 :> {<<"d", "x">>, <<"t">>}),
     renames |-> Only({<<<<"t">>, <<"d", "x">>>>, <<<<"t">>, <<"d", "e", "y">>>>}),
     calls   |-> 5]

\* One process that also removes and renames directories, and uses a path now
\* as a file and now as a directory.
Single ==
    [creates |-> Only({<<"a">>, <<"a", "b", "f">>}),
     mkdirs  |-> Only({<<"a">>, <<"b">>, Root}),
     removes |-> Only({<<"a">>, <<"a", "b">>, <<"b">>}),
     renames |-> Only({<<<<"a">>, <<"b">>>>, <<<<"b">>, <<"a">>>>, <<<<"a", "b">>, <<"c", "b">>>>}),
     calls   |-> 7]

MCWorkloads == {Shared, Single}
=============================================================================
