------------------------- MODULE RefreshInvariants -------------------------
(***************************************************************************)
(* The inductive invariant behind the safety properties of RefreshSessions. *)
(* MCRefreshSessions checks it on small instances; RefreshProofs proves it. *)
(***************************************************************************)
EXTENDS RefreshSessions

Rejecting == {"replayFind", "replayRevoke"}

\* A request works on a minted handle, and its snapshot is of that family.
RequestsKnowTheirFamily ==
    \A r \in Requests :
        LET q == requests[r]
        IN  /\ q.pc # "unsent" => q.handle \in minted /\ q.client \in Clients
            /\ q.pc = "unsent" => q.answer = "none" /\ q.handle = None
            /\ q.pc \in HasSnapshot => q.session \in minted /\ q.session = FamilyOf(q.handle)
            /\ q.pc = "rotate" => q.token = q.user
            /\ q.pc \in RunningPcs => q.answer = "none"

\* A request has minted its handle exactly when it was answered with a token;
\* then the handle it spent is no longer the one in the row.
MintedByRotation ==
    \A r \in Requests :
        /\ r \in minted <=> requests[r].answer = "token"
        /\ r \in minted =>
              LET s == requests[r].session
              IN  /\ s \in Sessions /\ s \in minted /\ s = FamilyOf(requests[r].handle)
                  /\ Present(s) => sessions[s].handle # requests[r].handle

\* The row of a session holds one of the handles minted for it.
RowsHoldMinted ==
    \A s \in Sessions : Present(s) =>
        /\ s \in minted
        /\ sessions[s].handle \in minted
        /\ FamilyOf(sessions[s].handle) = s

\* The handle determines the rest of the row: whoever still sees the handle of
\* its snapshot sees the count and the identity of its snapshot.
SnapshotsAreCurrent ==
    \A r \in Requests :
        LET q == requests[r]
        IN  q.pc \in HasSnapshot /\ Present(q.session) =>
                /\ sessions[q.session].user = q.user
                /\ sessions[q.session].handle = q.handle =>
                      sessions[q.session].rotations = q.rotations

\* A request about to look for a replay does not hold a working handle.
RejectingHandlesAreSpent ==
    \A r \in Requests, s \in Sessions :
        requests[r].pc \in Rejecting /\ Live(s, requests[r].at)
            /\ sessions[s].client = requests[r].client
            => sessions[s].handle # requests[r].handle

IInv ==
    /\ TypeOK
    /\ RequestsKnowTheirFamily
    /\ MintedByRotation
    /\ RowsHoldMinted
    /\ HistoryIsComplete
    /\ SnapshotsAreCurrent
    /\ SealMatchesRow
    /\ CacheOfOwner
    /\ RejectingHandlesAreSpent
    /\ RejectionClosesFamily

-----------------------------------------------------------------------------
\* What fairness is worth: a running request always has a step it can take
\* (whatever the tables hold, one of the alternatives of its pc applies).
Unfinished(r) == requests[r].pc \in RunningPcs
CanStep(r) == Unfinished(r) => ENABLED <<RequestStep(r)>>_vars
NeverStuck == \A r \in Requests : CanStep(r)
=============================================================================
