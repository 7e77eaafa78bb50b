----------------------- MODULE MCAuthorizationServer -----------------------
(* Small instances of AuthorizationServer for TLC. *)
EXTENDS AuthorizationInvariants, TLC

Symmetry ==
    Permutations(Sessions) \cup Permutations(Requests) \cup Permutations(Users)
        \cup Permutations(Deployments) \cup Permutations(Authorizations)
        \cup Permutations(Callbacks) \cup Permutations(Exchanges)
=============================================================================
