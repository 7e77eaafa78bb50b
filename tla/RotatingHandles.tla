-------------------------- MODULE RotatingHandles --------------------------
(***************************************************************************)
(* What refresh-token rotation promises to the outside, with no table, no   *)
(* clock and no request in flight: every family has at most one handle that *)
(* works, a handle works from the moment it is minted until it is used or   *)
(* its family is closed, and it never works again.                          *)
(***************************************************************************)
CONSTANTS Families, Handles, None

VARIABLES
    opened,    \* families that were ever opened
    current,   \* the working handle of each family, None if it has none
    spent      \* handles that stopped working

vars == <<opened, current, spent>>

Init ==
    /\ opened = {}
    /\ current = [f \in Families |-> None]
    /\ spent = {}

Working == {current[f] : f \in Families} \ {None}

Fresh(h) == h \notin spent /\ h \notin Working

Closed(D) == {current[f] : f \in D} \ {None}

(* One transaction may close other families on its way (rows it reclaims). *)
Open(f, h, D) ==
    /\ f \notin opened
    /\ Fresh(h)
    /\ opened' = opened \cup {f}
    /\ current' = [g \in Families |->
                      IF g = f THEN h ELSE IF g \in D THEN None ELSE current[g]]
    /\ spent' = spent \cup Closed(D)

Use(f, h, D) ==
    /\ current[f] # None
    /\ Fresh(h)
    /\ current' = [g \in Families |->
                      IF g = f THEN h ELSE IF g \in D THEN None ELSE current[g]]
    /\ spent' = spent \cup {current[f]} \cup Closed(D)
    /\ UNCHANGED opened

Close(D) ==
    /\ current' = [g \in Families |-> IF g \in D THEN None ELSE current[g]]
    /\ spent' = spent \cup Closed(D)
    /\ UNCHANGED opened

Next ==
    \E D \in SUBSET Families :
        \/ Close(D)
        \/ \E f \in Families \ D, h \in Handles : Open(f, h, D) \/ Use(f, h, D)

Spec == Init /\ [][Next]_vars
=============================================================================
