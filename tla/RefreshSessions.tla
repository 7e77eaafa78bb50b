-------------------------- MODULE RefreshSessions --------------------------
(***************************************************************************)
(* Refresh sessions of the OAuth authorization server:                      *)
(* OAuthSessionService (oauth/sessions.py) over the session and history     *)
(* tables of SQLiteOAuthStore (oauth/store.py).                             *)
(*                                                                         *)
(* Every store operation is one short SQLite transaction run on a worker    *)
(* thread, so it is one atomic action here; between two of them, and while  *)
(* Microsoft Entra or the token validator is awaited, any other request,    *)
(* the reclaiming of rows by another writer, the clock, or a restart of the *)
(* process may interleave.  A request reads the clock ONCE, when it starts, *)
(* and uses that reading in every later statement.                          *)
(*                                                                         *)
(* A refresh handle is a fresh 256-bit random value, named here for the     *)
(* operation that mints it: the session it was issued with, or the refresh  *)
(* request that rotated to it (a request mints one handle at most).  Id and *)
(* rotation family of a session are created together and never change, so   *)
(* one name stands for both.  The issuer is fixed.                          *)
(***************************************************************************)
EXTENDS Integers, FiniteSets

CONSTANTS
    Sessions,      \* session ids (and rotation families)
    Requests,      \* refresh requests, each sent once
    Clients,       \* registered public clients
    Users,         \* Microsoft identities (tenant id, user id)
    Deployments,   \* settings read at start: public URL and required scopes
    MaxRotations,  \* settings.oauth_refresh_max_rotations
    SessionTtl,    \* settings.oauth_refresh_token_ttl_days
    Retention,     \* _REVOKED_SESSION_RETENTION_SECONDS
    MaxTime,       \* bound on the clock
    None           \* Python's None and SQL's "no such row"

VARIABLES
    clock,        \* int(time())
    deployment,   \* settings of the running process
    sessions,     \* table oauth_sessions, by id
    history,      \* table oauth_refresh_token_history: spent handles
    minted,       \* handles generated so far, live or not (history variable)
    requests      \* the refresh() coroutines

vars == <<clock, deployment, sessions, history, minted, requests>>

NotRevoked == -1

Handles == Sessions \cup Requests

(***************************************************************************)
(* The authenticated context of the sealed MSAL cache: the columns that     *)
(* change; the others are written once by the INSERT and stay equal.        *)
(***************************************************************************)
Context == [session : Sessions, handle : Handles, rotations : Nat]

SessionRow ==
    [client : Clients, user : Users, deployment : Deployments,
     handle : Handles, seal : Context, cacheUser : Users,
     expiresAt : Nat, revokedAt : Nat \cup {NotRevoked}, rotations : Nat]

StorePcs == {"lookup", "rotate", "revoke", "replayFind", "replayRevoke"}
RunningPcs == StorePcs \cup {"entra", "validate"}
Answers == {"none", "token", "invalid_grant", "invalid_scope", "unavailable", "lost"}
Causes == {"InvalidSessionBinding", "RotationLimitReached", "TokenProtectionError",
           "MicrosoftRevocation", "AuthenticationError", "IdentityMismatch"}

Request ==
    [pc : RunningPcs \cup {"unsent", "done"},
     at : Nat,                          \* now, read once
     client : Clients \cup {None}, handle : Handles \cup {None},
     session : Sessions \cup {None},    \* the row get_refresh_session returned:
     rotations : Nat,                   \*   its rotation_count
     user : Users \cup {None},          \*   and its identity
     token : Users \cup {None},         \* identity of the refreshed Token A
     cause : Causes \cup {"none"},      \* error_type passed to _revoke
     answer : Answers]

\* a coroutine past the lookup has its row, one past Entra its token
HasSnapshot == {"entra", "validate", "rotate", "revoke"}
Assigned(q) ==
    /\ q.pc \in HasSnapshot => q.session \in Sessions
    /\ q.pc \in {"validate", "rotate"} => q.token \in Users

ASSUME ParametersAssumption ==
    /\ MaxRotations \in Nat \ {0}
    /\ SessionTtl \in Nat \ {0}
    /\ Retention \in Nat \ {0}
    /\ MaxTime \in Nat
ASSUME NamesAssumption ==
    /\ Sessions \cap Requests = {}
    /\ None \notin SessionRow
    /\ None \notin Sessions \cup Requests \cup Clients \cup Users

TypeOK ==
    /\ clock \in Nat
    /\ deployment \in Deployments
    /\ sessions \in [Sessions -> SessionRow \cup {None}]
    /\ history \subseteq [handle : Handles, session : Sessions]
    /\ minted \subseteq Handles
    /\ requests \in [Requests -> Request]
    /\ \A r \in Requests : Assigned(requests[r])

-----------------------------------------------------------------------------
(* The tables *)

Present(s) == sessions[s] # None

\* Mutant: a WHERE clause without revoked_at IS NULL.
UsableThoughRevoked(s, handle, client, at) ==
    /\ Present(s)
    /\ sessions[s].handle = handle
    /\ sessions[s].client = client
    /\ sessions[s].expiresAt > at

\* WHERE of get_refresh_session and of the compare-and-swap in rotate
Usable(s, handle, client, at) ==
    /\ Present(s)
    /\ sessions[s].handle = handle
    /\ sessions[s].client = client
    /\ sessions[s].revokedAt = NotRevoked
    /\ sessions[s].expiresAt > at

\* WHERE of revoke_refresh_session: expiry is not asked for
Revocable(s, handle, client) ==
    /\ Present(s)
    /\ sessions[s].handle = handle
    /\ sessions[s].client = client
    /\ sessions[s].revokedAt = NotRevoked

\* Mutant: the JOIN forgets client_id.
ReplayedByAnyClient(s, handle, client, at) ==
    /\ [handle |-> handle, session |-> s] \in history
    /\ Present(s)
    /\ sessions[s].revokedAt = NotRevoked
    /\ sessions[s].expiresAt > at

\* the JOIN of _find_refresh_session_by_replay
Replayed(s, handle, client, at) ==
    /\ [handle |-> handle, session |-> s] \in history
    /\ Present(s)
    /\ sessions[s].client = client
    /\ sessions[s].revokedAt = NotRevoked
    /\ sessions[s].expiresAt > at

\* Mutant: the retention is granted to expired rows, on the wrong side.
TerminalEarly(row, at) ==
    \/ row.expiresAt - Retention <= at
    \/ row.revokedAt # NotRevoked /\ row.revokedAt <= at - Retention

Terminal(row, at) ==
    \/ row.expiresAt <= at
    \/ row.revokedAt # NotRevoked /\ row.revokedAt <= at - Retention

Reclaimed(table, at) ==
    [s \in Sessions |->
        IF table[s] # None /\ Terminal(table[s], at) THEN None ELSE table[s]]

\* Mutant: PRAGMA foreign_keys stays off.
CascadeOff(spent, table) == spent

\* ON DELETE CASCADE
Cascade(spent, table) == {e \in spent : table[e.session] # None}

\* Mutant: the INSERT INTO oauth_refresh_token_history is lost.
SpentUnrecorded(spent, handle, s) == spent

\* the transaction records the handle it replaces
Spent(spent, handle, s) == spent \cup {[handle |-> handle, session |-> s]}

ContextOf(s, handle, rotations) ==
    [session |-> s, handle |-> handle, rotations |-> rotations]

\* Mutant: sealed for the snapshot instead of replace(session, ...).
SealOfSnapshot(r) ==
    ContextOf(requests[r].session, requests[r].handle, requests[r].rotations)

\* refresh() seals the new cache for the row as it expects to leave it
NewSeal(r) == ContextOf(requests[r].session, r, requests[r].rotations + 1)

\* TokenProtector.open authenticates the context before it decrypts
Opens(s) == sessions[s].seal = ContextOf(s, sessions[s].handle, sessions[s].rotations)

-----------------------------------------------------------------------------
Unsent ==
    [pc |-> "unsent", at |-> 0, client |-> None, handle |-> None,
     session |-> None, rotations |-> 0, user |-> None, token |-> None,
     cause |-> "none", answer |-> "none"]

Init ==
    /\ clock = 0
    /\ deployment \in Deployments
    /\ sessions = [s \in Sessions |-> None]
    /\ history = {}
    /\ minted = {}
    /\ requests = [r \in Requests |-> Unsent]

At(r, pc) == requests[r].pc = pc

Goto(r, pc) == requests' = [requests EXCEPT ![r] = [@ EXCEPT !.pc = pc]]

\* the coroutine returns or raises; its locals are gone
Finish(r, answer) ==
    requests' = [requests EXCEPT ![r] = [@ EXCEPT
        !.pc = "done", !.answer = answer, !.rotations = 0, !.user = None, !.token = None]]

GoRevoke(r, cause) ==
    requests' = [requests EXCEPT ![r] = [@ EXCEPT !.pc = "revoke", !.cause = cause]]

StoreUnchanged == UNCHANGED <<clock, deployment, sessions, history, minted>>

\* issue(): the handle of a new session; `at` was read by exchange() earlier
IssueSession(s, client, user, settings, at) ==
    /\ s \notin minted
    /\ sessions' = [Reclaimed(sessions, at) EXCEPT ![s] =
          [client |-> client, user |-> user, deployment |-> settings,
           handle |-> s, seal |-> ContextOf(s, s, 0), cacheUser |-> user,
           expiresAt |-> at + SessionTtl, revokedAt |-> NotRevoked, rotations |-> 0]]
    /\ history' = Cascade(history, sessions')
    /\ minted' = minted \cup {s}
    /\ UNCHANGED <<clock, deployment, requests>>

\* refresh() starts: the handle has the shape of one, and now is read
Start(r, handle, client) ==
    /\ At(r, "unsent")
    /\ requests' = [requests EXCEPT ![r] = [@ EXCEPT
          !.pc = "lookup", !.at = clock, !.client = client, !.handle = handle]]
    /\ StoreUnchanged

\* Mutant: an unknown handle is rejected at once, with no search for a replay.
LookupMissesRejects(r) ==
    /\ At(r, "lookup")
    /\ \A s \in Sessions :
          ~ Usable(s, requests[r].handle, requests[r].client, requests[r].at)
    /\ Finish(r, "invalid_grant")
    /\ StoreUnchanged

LookupMisses(r) ==
    /\ At(r, "lookup")
    /\ \A s \in Sessions :
          ~ Usable(s, requests[r].handle, requests[r].client, requests[r].at)
    /\ Goto(r, "replayFind")
    /\ StoreUnchanged

\* the checks made on the row before Entra is called, in their order
Refusal(s) ==
    CASE sessions[s].deployment # deployment      -> "InvalidSessionBinding"
      [] sessions[s].rotations >= MaxRotations    -> "RotationLimitReached"
      [] ~ Opens(s)                               -> "TokenProtectionError"
      [] OTHER                                    -> "none"

Snapshot(r, s, pc, cause) ==
    requests' = [requests EXCEPT ![r] = [@ EXCEPT
        !.pc = pc, !.cause = cause, !.session = s,
        !.rotations = sessions[s].rotations, !.user = sessions[s].user]]

LookupAccepts(r, s) ==
    /\ At(r, "lookup")
    /\ Usable(s, requests[r].handle, requests[r].client, requests[r].at)
    /\ Refusal(s) = "none"
    /\ Snapshot(r, s, "entra", "none")
    /\ StoreUnchanged

LookupRefuses(r, s) ==
    /\ At(r, "lookup")
    /\ Usable(s, requests[r].handle, requests[r].client, requests[r].at)
    /\ Refusal(s) # "none"
    /\ Snapshot(r, s, "revoke", Refusal(s))
    /\ StoreUnchanged

\* the request names another scope: refused, and nothing is revoked
LookupWrongScope(r, s) ==
    /\ At(r, "lookup")
    /\ Usable(s, requests[r].handle, requests[r].client, requests[r].at)
    /\ Refusal(s) # "InvalidSessionBinding"
    /\ Finish(r, "invalid_scope")
    /\ StoreUnchanged

\* await entra_client.refresh(serialized_cache)
EntraRefresh(r) ==
    /\ At(r, "entra")
    /\ \/ \E user \in Users :
             requests' = [requests EXCEPT ![r] = [@ EXCEPT !.pc = "validate", !.token = user]]
       \/ GoRevoke(r, "MicrosoftRevocation")
       \/ Finish(r, "unavailable")
    /\ StoreUnchanged

SameIdentity(r) == requests[r].token = requests[r].user

\* await token_validator.validate(access_token), then the identity comparison
Validate(r) ==
    /\ At(r, "validate")
    /\ \/ SameIdentity(r) /\ Goto(r, "rotate")
       \/ ~ SameIdentity(r) /\ GoRevoke(r, "IdentityMismatch")
       \/ GoRevoke(r, "AuthenticationError")
       \/ Finish(r, "unavailable")
    /\ StoreUnchanged

SetRevoked(s, at) == sessions' = [sessions EXCEPT ![s] = [@ EXCEPT !.revokedAt = at]]

\* rotate_refresh_session: one transaction, compare-and-swap on the handle
Rotate(r) ==
    LET q == requests[r]
        s == q.session
        row == [sessions[s] EXCEPT !.handle = r, !.seal = NewSeal(r),
                                   !.cacheUser = q.token, !.rotations = @ + 1]
    IN  /\ At(r, "rotate")
        /\ Usable(s, q.handle, q.client, q.at)
        /\ IF sessions[s].rotations >= MaxRotations
           THEN /\ SetRevoked(s, q.at)
                /\ Finish(r, "invalid_grant")
                /\ UNCHANGED <<history, minted>>
           ELSE /\ sessions' = Reclaimed([sessions EXCEPT ![s] = row], q.at)
                /\ history' = Cascade(Spent(history, q.handle, s), sessions')
                /\ minted' = minted \cup {r}
                /\ Finish(r, "token")
        /\ UNCHANGED <<clock, deployment>>

RotateConflicts(r) ==
    /\ At(r, "rotate")
    /\ ~ Usable(requests[r].session, requests[r].handle, requests[r].client, requests[r].at)
    /\ Goto(r, "replayFind")
    /\ StoreUnchanged

\* Mutant: _revoke takes "no row matched" for "already revoked".
RevokeWithoutFallback(r) ==
    LET q == requests[r]
    IN  /\ At(r, "revoke")
        /\ IF Revocable(q.session, q.handle, q.client)
           THEN SetRevoked(q.session, q.at)
           ELSE UNCHANGED sessions
        /\ Finish(r, "invalid_grant")
        /\ UNCHANGED <<clock, deployment, history, minted>>

\* _revoke: by the current handle; if that matches no row, as a replay
Revoke(r) ==
    LET q == requests[r]
    IN  /\ At(r, "revoke")
        /\ IF Revocable(q.session, q.handle, q.client)
           THEN SetRevoked(q.session, q.at) /\ Finish(r, "invalid_grant")
           ELSE UNCHANGED sessions /\ Goto(r, "replayFind")
        /\ UNCHANGED <<clock, deployment, history, minted>>

\* revoke_refresh_session_by_replay: the read-only search ...
ReplayFind(r) ==
    LET q == requests[r]
    IN  /\ At(r, "replayFind")
        /\ IF \E s \in Sessions : Replayed(s, q.handle, q.client, q.at)
           THEN Goto(r, "replayRevoke")
           ELSE Finish(r, "invalid_grant")
        /\ StoreUnchanged

\* ... and the write transaction, which searches again
ReplayRevoke(r) ==
    LET q == requests[r]
    IN  /\ At(r, "replayRevoke")
        /\ \/ \E s \in Sessions :
                 Replayed(s, q.handle, q.client, q.at) /\ SetRevoked(s, q.at)
           \/ /\ \A s \in Sessions : ~ Replayed(s, q.handle, q.client, q.at)
              /\ UNCHANGED sessions
        /\ Finish(r, "invalid_grant")
        /\ UNCHANGED <<clock, deployment, history, minted>>

\* OAuthStoreError in any store operation: nothing is written, 503
StoreFails(r) ==
    /\ requests[r].pc \in StorePcs
    /\ Finish(r, "unavailable")
    /\ StoreUnchanged

\* create_transaction or create_authorization_code of another flow, whose
\* clock reading may be old, reclaims terminal rows
OtherWriter(at) ==
    /\ sessions' = Reclaimed(sessions, at)
    /\ history' = Cascade(history, sessions')
    /\ UNCHANGED <<clock, deployment, minted, requests>>

\* the process dies, its requests are never answered, and initialize() runs
\* under settings that may differ
Restart ==
    /\ deployment' \in Deployments
    /\ sessions' = Reclaimed(sessions, clock)
    /\ history' = Cascade(history, sessions')
    /\ requests' = [r \in Requests |->
          IF requests[r].pc \in RunningPcs
          THEN [requests[r] EXCEPT !.pc = "done", !.answer = "lost",
                                   !.rotations = 0, !.user = None, !.token = None]
          ELSE requests[r]]
    /\ UNCHANGED <<clock, minted>>

Tick ==
    /\ clock < MaxTime
    /\ clock' = clock + 1
    /\ UNCHANGED <<deployment, sessions, history, minted, requests>>

RequestStep(r) ==
    \/ LookupMisses(r)
    \/ \E s \in Sessions : LookupAccepts(r, s) \/ LookupRefuses(r, s) \/ LookupWrongScope(r, s)
    \/ EntraRefresh(r)
    \/ Validate(r)
    \/ Rotate(r)
    \/ RotateConflicts(r)
    \/ Revoke(r)
    \/ ReplayFind(r)
    \/ ReplayRevoke(r)
    \/ StoreFails(r)

Next ==
    \/ \E s \in Sessions, c \in Clients, u \in Users, d \in Deployments, at \in 0..clock :
          IssueSession(s, c, u, d, at)
    \/ \E r \in Requests, h \in minted, c \in Clients : Start(r, h, c)
    \/ \E r \in Requests : RequestStep(r)
    \/ \E at \in 0..clock : OtherWriter(at)
    \/ Restart
    \/ Tick

Spec == Init /\ [][Next]_vars

(* A coroutine that can run does: the event loop is fair, SQLite waits five  *)
(* seconds at most (busy_timeout), and Entra calls end with an answer or a   *)
(* transport error.                                                         *)
Runs(r) == WF_vars(RequestStep(r))

Fairness == \A r \in Requests : Runs(r)

FairSpec == Spec /\ Fairness

-----------------------------------------------------------------------------
(* Properties *)

\* the session a handle belongs to (or belonged to, if the row is gone)
FamilyOf(h) == IF h \in Sessions THEN h ELSE requests[h].session

Live(s, at) ==
    Present(s) /\ sessions[s].revokedAt = NotRevoked /\ sessions[s].expiresAt > at

(* A handle is rotated at most once, however many requests present it at the *)
(* same time, before or after restarts and reclaiming: the compare-and-swap  *)
(* of rotate_refresh_session is what decides.                                *)
OneRotationPerHandle ==
    \A r1, r2 \in Requests :
        /\ requests[r1].answer = "token" /\ requests[r2].answer = "token"
        /\ requests[r1].handle = requests[r2].handle
        => r1 = r2

(* While a session is stored, the history table knows exactly its spent      *)
(* handles: everything minted for it except the handle in the row.  Without  *)
(* this a replay would be answered but not detected.  And history holds no   *)
(* row of a session that is gone.                                           *)
HistoryIsComplete ==
    /\ \A s \in Sessions, h \in Handles : Present(s) =>
          ([handle |-> h, session |-> s] \in history
              <=> h \in minted /\ FamilyOf(h) = s /\ h # sessions[s].handle)
    /\ \A e \in history : Present(e.session)

(* One session keeps at most oauth_refresh_max_rotations history rows, one   *)
(* for each rotation counted in its row.                                    *)
HistoryIsBounded ==
    \A s \in Sessions : Present(s) =>
        /\ Cardinality({e \in history : e.session = s}) = sessions[s].rotations
        /\ sessions[s].rotations <= MaxRotations

(* The stored ciphertext opens under the context rebuilt from its row: what  *)
(* the request sealed from its old snapshot (count + 1) is what the UPDATE   *)
(* (rotation_count = rotation_count + 1) wrote, whatever happened between.   *)
SealMatchesRow == \A s \in Sessions : Present(s) => Opens(s)

(* A session only ever holds the MSAL cache of the identity it was issued    *)
(* for, though Entra may return a token of another one.                      *)
CacheOfOwner ==
    \A s \in Sessions : Present(s) => sessions[s].cacheUser = sessions[s].user

(* A client told invalid_grant for a handle of its own may drop it: at that  *)
(* moment, and from then on, the family is revoked, gone, or was expired     *)
(* when the request read the clock.  No interleaving of the searches and     *)
(* updates lets a rotated successor slip through.                            *)
RejectionClosesFamily ==
    \A r \in Requests : \A s \in Sessions :
        /\ requests[r].answer = "invalid_grant"
        /\ FamilyOf(requests[r].handle) = s
        /\ Present(s) => sessions[s].client = requests[r].client
        => ~ Live(s, requests[r].at)

(* A family is revoked only for a cause: a request of its client was refused *)
(* by the settings, the limit, Microsoft, the validator or the identity      *)
(* check, or one of its handles was presented twice.  A transient failure,   *)
(* a store error, a lost answer, a restart or a foreign client never is one. *)
RevokedForCause ==
    \A s \in Sessions :
        Present(s) /\ sessions[s].revokedAt # NotRevoked =>
            LET own == {r \in Requests : /\ requests[r].handle # None
                                         /\ FamilyOf(requests[r].handle) = s
                                         /\ requests[r].client = sessions[s].client}
            IN  \/ \E r \in own : requests[r].cause \notin {"none", "TokenProtectionError"}
                \/ \E r1, r2 \in own : r1 # r2 /\ requests[r1].handle = requests[r2].handle

(* A handle that works keeps working until it is used up: it stops in the    *)
(* very step in which a request of its own client is answered, with the      *)
(* token and the handle that works from then on, or with invalid_grant for   *)
(* this handle or an older one of its family.  An outage after the lookup    *)
(* (sessions.py:163, 173, 212), a request of another client, a restart, or    *)
(* another flow that reclaims rows with an old reading of the clock takes no *)
(* handle from anybody.                                                      *)
HandlesWorkUntilUsed ==
    [][\A s \in Sessions : Live(s, clock') =>
          \/ Live(s, clock)' /\ sessions'[s].handle = sessions[s].handle
          \/ \E r \in Requests :
                /\ requests[r].pc \in RunningPcs
                /\ requests[r].client = sessions[s].client
                /\ \/ /\ requests'[r].answer = "token"
                      /\ requests[r].handle = sessions[s].handle
                      /\ Live(s, clock)' /\ sessions'[s].handle = r
                   \/ /\ requests'[r].answer = "invalid_grant"
                      /\ FamilyOf(requests[r].handle) = s]_vars

(* Revocation and reclaiming are final: no step rotates, re-dates or revives *)
(* a revoked row, and a deleted session never comes back.                    *)
RevocationIsFinal ==
    [][\A s \in Sessions :
          /\ Present(s) /\ sessions[s].revokedAt # NotRevoked =>
                sessions'[s] \in {sessions[s], None}
          /\ ~ Present(s) /\ s \in minted => sessions'[s] = None]_vars

(* Whoever presents a spent handle of a live family sees the family closed,  *)
(* unless the request itself is cut short by a failure (503, a restart) or   *)
(* refused for its scope.                                                    *)
SpentHandlePresented(r, s) ==
    /\ requests[r].pc \in RunningPcs
    /\ Present(s)
    /\ requests[r].client = sessions[s].client
    /\ [handle |-> requests[r].handle, session |-> s] \in history

ReplayIsPunished ==
    \A r \in Requests, s \in Sessions :
        SpentHandlePresented(r, s) ~>
            \/ ~ Live(s, requests[r].at)
            \/ requests[r].answer \in {"unavailable", "invalid_scope", "lost"}

(* The tables implement the abstract rotation: the handle in an unrevoked row *)
(* is the one that works, every other minted handle is spent.                *)
CurrentHandle ==
    [s \in Sessions |->
        IF Present(s) /\ sessions[s].revokedAt = NotRevoked
        THEN sessions[s].handle ELSE None]

Rotation == INSTANCE RotatingHandles WITH
    Families <- Sessions,
    opened   <- minted \cap Sessions,
    current  <- CurrentHandle,
    spent    <- minted \ {CurrentHandle[s] : s \in Sessions}

ImplementsRotation == Rotation!Spec

(* docs/security.md:182: "Concurrent or replayed use of any old handle        *)
(* returns invalid_grant and atomically revokes the active family".  A request *)
(* that found its handle at the lookup, and is answered after another request *)
(* of the same client has rotated that handle, leaves the family closed.      *)
ConcurrentUseClosesFamily ==
    [][\A r1, r2 \in Requests :
          /\ requests[r1].answer = "token"
          /\ requests[r1].handle = requests[r2].handle
          /\ requests[r1].client = requests[r2].client
          /\ requests[r2].pc \in RunningPcs
          /\ requests[r2].session # None
          /\ requests'[r2].answer \notin {"none", "lost"}
          => ~ Live(FamilyOf(requests[r2].handle), requests[r2].at)']_vars
=============================================================================
