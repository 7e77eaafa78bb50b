--------------------------- MODULE MCLocalSession ---------------------------
(* A small instance of LocalSession for TLC.                                 *)
EXTENDS LocalSession, TLC

Symmetry == Permutations(Processes \ Ephemeral)
=============================================================================
