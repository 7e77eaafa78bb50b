-------------------------- MODULE ConsentedSessions --------------------------
(***************************************************************************)
(* What the authorization server promises, with no tables, no coroutines and *)
(* no clock: a client asks once, a user consents to that request at most     *)
(* once, the client that asked redeems the consent at most once, and at most *)
(* one session is opened for it, under the settings that were consented to.  *)
(* From then on a session keeps its owner until it is gone for good.         *)
(***************************************************************************)
CONSTANTS Clients, Users, Deployments, Asks, Codes, Redeemers, Sessions, None

VARIABLES
    deployment,    \* the settings the server runs under
    asker,         \* the client of each request, None before it asks
    consents,      \* what a user consented to, for each request, as a set
    redemptions,   \* who redeemed the consent, as a set
    opened,        \* the session opened for it, as a set
    owner          \* of the sessions that still exist

vars == <<deployment, asker, consents, redemptions, opened, owner>>

Init ==
    /\ deployment \in Deployments
    /\ asker = [a \in Asks |-> None]
    /\ consents = [a \in Asks |-> {}]
    /\ redemptions = [a \in Asks |-> {}]
    /\ opened = [a \in Asks |-> {}]
    /\ owner = [s \in Sessions |-> None]

\* some sessions end: they expired or were revoked
Without(gone) == [s \in Sessions |-> IF s \in gone THEN None ELSE owner[s]]

SomeEnd == \E gone \in SUBSET Sessions : owner' = Without(gone)

Ask(a, client) ==
    /\ asker[a] = None
    /\ asker' = [asker EXCEPT ![a] = client]
    /\ UNCHANGED <<deployment, consents, redemptions, opened, owner>>

\* the settings are those of the moment the request was taken up
Consent(a, code, user, settings) ==
    /\ asker[a] # None
    /\ consents[a] = {}
    /\ consents' = [consents EXCEPT ![a] =
          {[code |-> code, user |-> user, deployment |-> settings]}]
    /\ SomeEnd
    /\ UNCHANGED <<deployment, asker, redemptions, opened>>

Redeem(a, e) ==
    /\ consents[a] # {}
    /\ redemptions[a] = {}
    /\ redemptions' = [redemptions EXCEPT ![a] = {[by |-> e, client |-> asker[a]]}]
    /\ UNCHANGED <<deployment, asker, consents, opened, owner>>

Open(a, s) ==
    /\ redemptions[a] # {}
    /\ opened[a] = {}
    /\ \A b \in Asks : s \notin opened[b]
    /\ opened' = [opened EXCEPT ![a] = {s}]
    /\ \E consent \in consents[a], gone \in SUBSET Sessions :
          /\ consent.deployment = deployment
          /\ owner' = [Without(gone) EXCEPT ![s] =
                [client |-> asker[a], user |-> consent.user, deployment |-> deployment]]
    /\ UNCHANGED <<deployment, asker, consents, redemptions>>

\* time passes; a restart may bring other settings
Lapse ==
    /\ deployment' \in Deployments
    /\ SomeEnd
    /\ UNCHANGED <<asker, consents, redemptions, opened>>

Next ==
    \/ Lapse
    \/ \E a \in Asks :
          \/ \E client \in Clients : Ask(a, client)
          \/ \E code \in Codes, user \in Users, settings \in Deployments :
                Consent(a, code, user, settings)
          \/ \E e \in Redeemers : Redeem(a, e)
          \/ \E s \in Sessions : Open(a, s)

Spec == Init /\ [][Next]_vars
=============================================================================
