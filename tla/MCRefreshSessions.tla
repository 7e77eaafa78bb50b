------------------------- MODULE MCRefreshSessions -------------------------
(* Small instances of RefreshSessions for TLC. *)
EXTENDS RefreshInvariants, TLC

Symmetry ==
    Permutations(Sessions) \cup Permutations(Clients) \cup Permutations(Users)
        \cup Permutations(Requests) \cup Permutations(Deployments)
=============================================================================
