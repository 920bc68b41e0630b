--------------------------- MODULE MCWorktreeMerge ---------------------------
(***************************************************************************)
(* Repositories for TLC.  In the fork, "master" and "topic" each add one   *)
(* commit to a common one; every path goes through one of the Cases: what  *)
(* the common commit, master and topic have.  In the cross, each of the    *)
(* two branches has merged the other's first commit, so that two commits   *)
(* are merged into a virtual base; in the tower these two have a virtual   *)
(* base themselves.                                                        *)
(***************************************************************************)
EXTENDS WorktreeMerge

CONSTANTS p, q, a, b, c, master, topic, fresh

Cases == {<<a, a, a>>, <<a, b, a>>, <<a, a, b>>, <<a, b, b>>, <<a, b, c>>,
          <<a, Absent, a>>, <<a, a, Absent>>, <<a, b, Absent>>, <<a, Absent, b>>,
          <<a, Absent, Absent>>,
          <<Absent, a, Absent>>, <<Absent, Absent, a>>, <<Absent, a, b>>}

Master(m, t) == [r \in Branch |-> IF r = master THEN m ELSE IF r = topic THEN t ELSE None]

\* Commits with the parents ps, in which a path has the contents f[path].
Repo(ps, f, m, t) ==
    [commits |-> [n \in DOMAIN ps |-> [tree |-> [r \in Path |-> f[r][n]], parents |-> ps[n]]],
     branch  |-> Master(m, t),
     at      |-> master]

Fork(f) == Repo(<<{}, {1}, {1}>>, f, 2, 3)
Cross(f) == Repo(<<{}, {1}, {1}, {2, 3}, {3, 2}>>, f, 4, 5)

Forks == {Fork(f) : f \in [Path -> Cases]}

\* The cases in which both sides change a path, and the plainest others.
SomeCases == {<<a, a, b>>, <<a, b, c>>, <<a, b, Absent>>, <<a, Absent, b>>, <<Absent, a, b>>}
SomeForks == {Fork(f) : f \in [Path -> SomeCases]}

\* Crosses in which one path is the same everywhere; and those in which the two
\* sides disagree on every path at every step.
CrossCases ==
    {<<a, v, w, x, y>> : v \in {a, b, Absent}, w \in {a, c, Absent},
                         x \in {a, b, Absent}, y \in {a, b, c, Absent}}
Crosses == {Cross([r \in Path |-> IF r = p THEN f ELSE <<a, a, a, a, a>>]) : f \in CrossCases}
FewCrossCases == {<<a, b, c, x, y>> : x \in {b, Absent}, y \in {a, c}}
FewCrosses == {Cross(f) : f \in [Path -> FewCrossCases]}

\* A cross over a cross; a cross over two roots; and three common parents, of
\* which two are a cross and their base is not above the third.
Tower(f) == Repo(<<{}, {1}, {1}, {2, 3}, {2, 3}, {4, 5}, {4, 5}>>, f, 6, 7)
TwoRoots(f) == Repo(<<{}, {}, {1, 2}, {1, 2}>>, f, 3, 4)
Octopus(f) == Repo(<<{}, {1}, {2}, {2}, {1}, {3, 4}, {3, 4}, {5, 6, 7}, {5, 6, 7}>>, f, 8, 9)

Towers == {Tower(f) : f \in [Path -> {<<a, b, c, w, x, y, a>> : w \in {b, Absent},
                                          x \in {c, Absent}, y \in {a, b, Absent}}]}
Roots == {TwoRoots(f) : f \in [Path -> {<<a, b, a, b>>, <<a, Absent, Absent, a>>}]}
Octopuses == {Octopus(f) : f \in [Path -> {<<Absent, a, b, w, b, x, x, x, a>> :
                                               w \in {c, Absent}, x \in {b, Absent}}]}

Used(hs, ops, shared, dies, n) ==
    {[commits |-> h.commits, branch |-> h.branch, at |-> h.at,
      ops |-> ops, shared |-> shared, dies |-> dies, calls |-> n] : h \in hs}

\* A storage in memory, and one that copies the index.
MCLife ==
    Used(Forks \cup FewCrosses, {"merge", "commit", "abort", "edit", "reset"}, TRUE, FALSE, 3)
    \cup Used(Crosses, {"merge", "commit", "abort", "edit"}, FALSE, FALSE, 3)
    \cup UNION {Used(Towers \cup Roots \cup Octopuses, {"merge", "abort"}, shared, FALSE, 2) :
                  shared \in BOOLEAN}

\* A process that may die: with every call, and with those of one merge alone,
\* of which there may be more.  One that does not, over a criss-cross history.
MCDies ==
    Used(Forks, Op, FALSE, TRUE, 4)
    \cup Used(Forks, {"merge", "pull", "abort", "edit"}, FALSE, TRUE, 6)
    \cup UNION {Used(Crosses \cup Towers \cup Roots \cup Octopuses,
                      {"merge", "abort", "edit"}, shared, FALSE, 3) : shared \in BOOLEAN}

MCLostAdd == Used(SomeForks, {"merge"}, FALSE, FALSE, 1)

Paths == {p}
TwoPaths == {p, q}
Versions == {a, b, c, Joined, Marked, Edited}
Branches == {master, topic}
ThreeBranches == {master, topic, fresh}
=============================================================================
