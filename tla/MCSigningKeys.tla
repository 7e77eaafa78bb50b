--------------------------- MODULE MCSigningKeys ---------------------------
(* A small instance of SigningKeys for TLC; liveness is checked, so no set    *)
(* is symmetric.                                                            *)
EXTENDS SigningKeys
=============================================================================
