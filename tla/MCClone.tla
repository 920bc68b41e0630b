------------------------------- MODULE MCClone -------------------------------
(***************************************************************************)
(* A repository with the submodules "a" and "b"; its second commit has no  *)
(* "b" any more and moves "a" on to a commit that adds a submodule "a" of  *)
(* its own, which is a clone of the project that "b" was one of.           *)
(***************************************************************************)
EXTENDS Clone

CONSTANTS a, b, t1, t2, s1, s2, u1, u2, master, dev

Names == {a, b}
Repos == {<<>>, <<a>>, <<a, a>>, <<b>>}
Commits == {t1, t2, s1, s2, u1, u2}
Branches == {master, dev}

Modules ==
    [c \in Commits |->
        CASE c = t1 -> a :> s1 @@ b :> u1
          [] c = t2 -> a :> s2
          [] c = s2 -> a :> u2
          [] OTHER  -> <<>>]

Ancestors == [c \in Commits |-> IF c = t2 THEN {t1, t2} ELSE {c}]

Projects == [r \in Repos |-> CASE r = <<>>  -> {t1, t2}
                               [] r = <<a>> -> {s1, s2}
                               [] OTHER     -> {u1, u2}]

(***************************************************************************)
(* HEAD of the remote is on master, which is all there is, or on another   *)
(* branch beside master; the tag is of a commit or of a blob.              *)
(***************************************************************************)
MCRemotes ==
    LET both == [x \in Branches |-> t1]
    IN  {[head |-> master, at |-> [both EXCEPT ![dev] = None], tag |-> t1],
         [head |-> dev, at |-> both, tag |-> Blob]}

O(ref, single, noCheckout, init, recurse) ==
    [ref |-> ref, single |-> single, noCheckout |-> noCheckout,
     init |-> init, recurse |-> recurse]

MCOptions ==
    "clone" :> {O("HEAD", FALSE, FALSE, TRUE, 1), O("HEAD", TRUE, FALSE, TRUE, 0),
                O(dev, TRUE, TRUE, TRUE, 0), O("tag", FALSE, FALSE, TRUE, 0)}
    @@ "update" :> {O("HEAD", FALSE, FALSE, TRUE, 1), O("HEAD", FALSE, FALSE, FALSE, 0)}
    @@ "init" :> {O("HEAD", FALSE, FALSE, TRUE, 0)}
    @@ "pull" :> {O(dev, FALSE, FALSE, TRUE, 0), O("HEAD", FALSE, FALSE, TRUE, 1),
                  O("tag", FALSE, FALSE, TRUE, 0)}
=============================================================================
