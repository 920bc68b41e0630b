----------------------------- MODULE MCMergeBase -----------------------------
(***************************************************************************)
(* MergeBase on small histories: every commit graph of N commits, numbered *)
(* so that parents have smaller numbers (every acyclic graph can be).      *)
(***************************************************************************)
EXTENDS MergeBase

CONSTANTS N,        \* the number of commits
          MaxDate,  \* the latest author date
          MaxSkew   \* the latest author date where dates are arbitrary

MCCommit == 1..N

Graphs == {g \in [MCCommit -> SUBSET MCCommit] :
              \A c \in MCCommit : g[c] \subseteq 1..(c - 1)}

\* Histories with the dates a linear workflow produces, and commit N (the
\* latest) merged with N - 1.
DatedHistories ==
    {h \in [parents : Graphs, when : [MCCommit -> 0..MaxDate],
            ours : {N}, theirs : {N - 1}] :
        \A c \in MCCommit : \A p \in h.parents[c] : h.when[p] < h.when[c]}

\* Histories with any dates, of one commit less: commit N is on its own.  The
\* two commits before it are the branch tips; each may be below the other.
UndatedHistories ==
    [parents : {g \in Graphs : g[N] = {}},
     when : {w \in [MCCommit -> 0..MaxSkew] : w[N] = 0},
     ours : {N - 1, N - 2}, theirs : {N - 1, N - 2}]

AllHistories == DatedHistories \cup UndatedHistories

\* Diverged branches (no fast-forward either way) whose author dates are all
\* different (no tie for the heap's layout to break) but need not follow the
\* history.
SkewedHistories ==
    {h \in [parents : Graphs, when : [MCCommit -> 0..MaxDate],
            ours : {N}, theirs : {N - 1}] :
        /\ N - 1 \notin h.parents[N]
        /\ \A c, d \in MCCommit : h.when[c] = h.when[d] => c = d}

=============================================================================
