--------------------------- MODULE MCUpdateClient ---------------------------
(* Small instances of UpdateClient for TLC.                                 *)
EXTENDS UpdateClient, TLC

CONSTANTS c1, c2

MCClient == {c1, c2}

\* Nothing tells the clients apart.
ClientSymmetry == Permutations(MCClient)
=============================================================================
