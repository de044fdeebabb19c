---------------------------- MODULE MC_ConnWrite ----------------------------
(* Instances of ConnWrite for TLC: two writers, one or two calls of Close, *)
(* small sequence limits.                                                  *)
EXTENDS ConnWrite, TLC

CONSTANTS w1, w2, u1, u2

MCWriters == {w1, w2}
MCClosers == {u1, u2}
OneCloser == {u1}

\* The writers are interchangeable, and so are the calls of Close.
WriterSymmetry ==
  {p @@ q : p \in Permutations(MCWriters), q \in Permutations(MCClosers)}

=============================================================================
