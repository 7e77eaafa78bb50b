--------------------------- MODULE RefreshProofs ---------------------------
(***************************************************************************)
(* Proofs about RefreshSessions, for every set of sessions, requests,       *)
(* clients, identities and settings and every value of the limits.          *)
(***************************************************************************)
EXTENDS RefreshInvariants, FiniteSetTheorems, TLAPS

LEMMA RowFacts ==
    ASSUME NEW row \in SessionRow
    PROVE  /\ row # None
           /\ row.client \in Clients /\ row.user \in Users /\ row.deployment \in Deployments
           /\ row.handle \in Handles /\ row.seal \in Context /\ row.cacheUser \in Users
           /\ row.expiresAt \in Nat /\ row.revokedAt \in Nat \cup {NotRevoked}
           /\ row.rotations \in Nat
  BY NamesAssumption DEF SessionRow

LEMMA ReclaimedType ==
    ASSUME NEW table \in [Sessions -> SessionRow \cup {None}], NEW at
    PROVE  /\ Reclaimed(table, at) \in [Sessions -> SessionRow \cup {None}]
           /\ \A s \in Sessions : Reclaimed(table, at)[s] \in {table[s], None}
  BY DEF Reclaimed

LEMMA CascadeType ==
    ASSUME NEW spent, NEW table
    PROVE  /\ Cascade(spent, table) \subseteq spent
           /\ \A e \in Cascade(spent, table) : table[e.session] # None
           /\ \A e \in spent : table[e.session] # None => e \in Cascade(spent, table)
  BY DEF Cascade

LEMMA RequestFacts ==
    ASSUME NEW q \in Request
    PROVE  /\ q.pc \in RunningPcs \cup {"unsent", "done"} /\ q.at \in Nat
           /\ q.client \in Clients \cup {None} /\ q.handle \in Handles \cup {None}
           /\ q.session \in Sessions \cup {None} /\ q.rotations \in Nat
           /\ q.user \in Users \cup {None} /\ q.token \in Users \cup {None}
           /\ q.cause \in Causes \cup {"none"} /\ q.answer \in Answers
  BY DEF Request

\* One coroutine moves: its new locals have their types, the others keep theirs.
Moves(r, q) == requests' = [requests EXCEPT ![r] = q]
WellTyped(q) == q \in Request /\ Assigned(q)

LEMMA MovesType ==
    ASSUME TypeOK, NEW r \in Requests, NEW q, WellTyped(q), Moves(r, q)
    PROVE  /\ requests' \in [Requests -> Request]
           /\ \A x \in Requests : Assigned(requests'[x])
           /\ requests'[r] = q
           /\ \A x \in Requests \ {r} : requests'[x] = requests[x]
  BY DEF TypeOK, Moves, WellTyped

\* the four ways in which a coroutine moves without new data
LEMMA FinishMoves ==
    ASSUME TypeOK, NEW r \in Requests, NEW a \in Answers, Finish(r, a)
    PROVE  \E q : /\ Moves(r, q) /\ WellTyped(q)
                  /\ q.pc = "done" /\ q.answer = a /\ q.token = None
                  /\ q.at = requests[r].at /\ q.client = requests[r].client
                  /\ q.handle = requests[r].handle /\ q.session = requests[r].session
                  /\ q.cause = requests[r].cause
  <1> DEFINE q == [requests[r] EXCEPT !.pc = "done", !.answer = a, !.rotations = 0,
                                      !.user = None, !.token = None]
  <1>1. requests[r] \in Request
    BY DEF TypeOK
  <1>2. WellTyped(q)
    BY <1>1 DEF WellTyped, Request, Assigned, HasSnapshot
  <1>3. Moves(r, q)
    BY DEF Moves, Finish
  <1>4. /\ q.pc = "done" /\ q.answer = a /\ q.token = None
        /\ q.at = requests[r].at /\ q.client = requests[r].client
        /\ q.handle = requests[r].handle /\ q.session = requests[r].session
        /\ q.cause = requests[r].cause
    BY <1>1 DEF Request
  <1>5. QED
    BY <1>2, <1>3, <1>4

LEMMA GotoMoves ==
    ASSUME TypeOK, NEW r \in Requests, NEW pc \in RunningPcs, Goto(r, pc),
           Assigned([requests[r] EXCEPT !.pc = pc])
    PROVE  /\ Moves(r, [requests[r] EXCEPT !.pc = pc])
           /\ WellTyped([requests[r] EXCEPT !.pc = pc])
  BY DEF TypeOK, Moves, WellTyped, Goto, Request

LEMMA RetypedPc ==
    ASSUME NEW q \in Request, NEW pc \in {"replayFind", "replayRevoke"}
    PROVE  Assigned([q EXCEPT !.pc = pc])
  BY DEF Assigned, Request, HasSnapshot

LEMMA GoRevokeMoves ==
    ASSUME TypeOK, NEW r \in Requests, NEW cause \in Causes, GoRevoke(r, cause),
           requests[r].session \in Sessions
    PROVE  /\ Moves(r, [requests[r] EXCEPT !.pc = "revoke", !.cause = cause])
           /\ WellTyped([requests[r] EXCEPT !.pc = "revoke", !.cause = cause])
  <1> DEFINE q == [requests[r] EXCEPT !.pc = "revoke", !.cause = cause]
  <1>1. requests[r] \in Request /\ "revoke" \in RunningPcs
    BY DEF TypeOK, RunningPcs, StorePcs
  <1>2. q \in Request /\ q.pc = "revoke" /\ q.session = requests[r].session
    BY <1>1 DEF Request
  <1>3. Moves(r, q)
    BY DEF Moves, GoRevoke
  <1> HIDE DEF q
  <1>4. WellTyped(q)
    BY <1>2 DEF WellTyped, Assigned
  <1>5. QED
    BY <1>3, <1>4 DEF q

LEMMA StartTyped ==
    ASSUME NEW q \in Request, NEW at \in Nat, NEW c \in Clients, NEW h \in Handles
    PROVE  WellTyped([q EXCEPT !.pc = "lookup", !.at = at, !.client = c, !.handle = h])
  <1> DEFINE new == [q EXCEPT !.pc = "lookup", !.at = at, !.client = c, !.handle = h]
  <1>1. "lookup" \in RunningPcs
    BY DEF RunningPcs, StorePcs
  <1>2. new \in Request /\ new.pc = "lookup"
    BY <1>1 DEF Request
  <1> HIDE DEF new
  <1>3. WellTyped(new)
    BY <1>2 DEF WellTyped, Assigned, HasSnapshot
  <1>4. QED
    BY <1>3 DEF new

LEMMA ValidateTyped ==
    ASSUME NEW q \in Request, NEW user \in Users, q.session \in Sessions
    PROVE  WellTyped([q EXCEPT !.pc = "validate", !.token = user])
  <1> DEFINE new == [q EXCEPT !.pc = "validate", !.token = user]
  <1>1. "validate" \in RunningPcs
    BY DEF RunningPcs
  <1>2. new \in Request /\ new.session = q.session /\ new.token = user
    BY <1>1 DEF Request
  <1> HIDE DEF new
  <1>3. WellTyped(new)
    BY <1>2 DEF WellTyped, Assigned
  <1>4. QED
    BY <1>3 DEF new

LEMMA LostTyped ==
    ASSUME NEW q \in Request
    PROVE  WellTyped([q EXCEPT !.pc = "done", !.answer = "lost",
                               !.rotations = 0, !.user = None, !.token = None])
  <1> DEFINE new == [q EXCEPT !.pc = "done", !.answer = "lost",
                              !.rotations = 0, !.user = None, !.token = None]
  <1>1. "lost" \in Answers
    BY DEF Answers
  <1>2. new \in Request /\ new.pc = "done"
    BY <1>1 DEF Request
  <1> HIDE DEF new
  <1>3. WellTyped(new)
    BY <1>2 DEF WellTyped, Assigned, HasSnapshot
  <1>4. QED
    BY <1>3 DEF new

LEMMA RefusalType ==
    ASSUME NEW s \in Sessions
    PROVE  Refusal(s) \in Causes \cup {"none"}
  BY DEF Refusal, Causes

-----------------------------------------------------------------------------
(* Type correctness *)

LEMMA QuietType ==
    ASSUME TypeOK, StoreUnchanged, NEW r \in Requests, NEW q, Moves(r, q), WellTyped(q)
    PROVE  TypeOK'
  BY MovesType DEF TypeOK, StoreUnchanged

LEMMA FinishType ==
    ASSUME TypeOK, StoreUnchanged, NEW r \in Requests, NEW a \in Answers, Finish(r, a)
    PROVE  TypeOK'
  BY FinishMoves, QuietType

LEMMA GotoType ==
    ASSUME TypeOK, StoreUnchanged, NEW r \in Requests, NEW pc \in RunningPcs, Goto(r, pc),
           Assigned([requests[r] EXCEPT !.pc = pc])
    PROVE  TypeOK'
  BY GotoMoves, QuietType

LEMMA GoRevokeType ==
    ASSUME TypeOK, StoreUnchanged, NEW r \in Requests, NEW cause \in Causes, GoRevoke(r, cause),
           requests[r].session \in Sessions
    PROVE  TypeOK'
  BY GoRevokeMoves, QuietType

LEMMA SetRevokedType ==
    ASSUME TypeOK, NEW s \in Sessions, Present(s), NEW at \in Nat, SetRevoked(s, at)
    PROVE  sessions' \in [Sessions -> SessionRow \cup {None}]
  <1>1. [sessions[s] EXCEPT !.revokedAt = at] \in SessionRow
    BY DEF TypeOK, Present, SessionRow
  <1>2. QED
    BY <1>1 DEF TypeOK, SetRevoked

LEMMA SnapshotMoves ==
    ASSUME TypeOK, NEW r \in Requests, NEW s \in Sessions, Present(s),
           NEW pc \in {"entra", "revoke"}, NEW cause \in Causes \cup {"none"},
           Snapshot(r, s, pc, cause)
    PROVE  \E q : /\ Moves(r, q) /\ WellTyped(q)
                  /\ q.pc = pc /\ q.session = s /\ q.cause = cause
                  /\ q.rotations = sessions[s].rotations /\ q.user = sessions[s].user
                  /\ q.at = requests[r].at /\ q.client = requests[r].client
                  /\ q.handle = requests[r].handle /\ q.answer = requests[r].answer
  <1> DEFINE q == [requests[r] EXCEPT !.pc = pc, !.cause = cause, !.session = s,
                       !.rotations = sessions[s].rotations, !.user = sessions[s].user]
  <1>1. requests[r] \in Request /\ sessions[s] \in SessionRow
    BY DEF TypeOK, Present
  <1>2. WellTyped(q)
    <2>1. pc \in RunningPcs /\ pc \notin {"validate", "rotate"}
      BY DEF RunningPcs, StorePcs
    <2>2. sessions[s].rotations \in Nat /\ sessions[s].user \in Users
      BY <1>1, RowFacts
    <2>3. q \in Request /\ q.pc = pc /\ q.session = s
      BY <1>1, <2>1, <2>2 DEF Request
    <2> HIDE DEF q
    <2>4. QED
      BY <2>1, <2>3 DEF WellTyped, Assigned
  <1>3. Moves(r, q)
    BY DEF Moves, Snapshot
  <1>4. /\ q.pc = pc /\ q.session = s /\ q.cause = cause
        /\ q.rotations = sessions[s].rotations /\ q.user = sessions[s].user
        /\ q.at = requests[r].at /\ q.client = requests[r].client
        /\ q.handle = requests[r].handle /\ q.answer = requests[r].answer
    BY <1>1 DEF Request
  <1>5. QED
    BY <1>2, <1>3, <1>4

LEMMA IssueType ==
    ASSUME TypeOK, NEW s \in Sessions, NEW c \in Clients, NEW u \in Users,
           NEW d \in Deployments, NEW at \in 0..clock, IssueSession(s, c, u, d, at)
    PROVE  TypeOK'
  <1> DEFINE row == [client |-> c, user |-> u, deployment |-> d,
                     handle |-> s, seal |-> ContextOf(s, s, 0), cacheUser |-> u,
                     expiresAt |-> at + SessionTtl, revokedAt |-> NotRevoked, rotations |-> 0]
  <1>1. row \in SessionRow
    BY ParametersAssumption DEF TypeOK, SessionRow, ContextOf, Context, Handles
  <1>2. sessions' = [Reclaimed(sessions, at) EXCEPT ![s] = row]
    BY DEF IssueSession
  <1>3. sessions' \in [Sessions -> SessionRow \cup {None}]
    <2> HIDE DEF row
    <2>1. QED BY <1>1, <1>2, ReclaimedType DEF TypeOK
  <1>4. history' \subseteq history /\ minted' \subseteq Handles
    BY CascadeType DEF TypeOK, IssueSession, Handles
  <1>5. QED
    BY <1>3, <1>4 DEF TypeOK, IssueSession

LEMMA RotatedRow ==
    ASSUME NEW old \in SessionRow, NEW h \in Handles, NEW seal \in Context, NEW u \in Users
    PROVE  [old EXCEPT !.handle = h, !.seal = seal, !.cacheUser = u, !.rotations = @ + 1]
              \in SessionRow
  <1>1. ASSUME NEW n \in Nat
        PROVE  [old EXCEPT !.handle = h, !.seal = seal, !.cacheUser = u, !.rotations = n]
                  \in SessionRow
    BY DEF SessionRow
  <1>2. old.rotations + 1 \in Nat
    BY DEF SessionRow
  <1>3. QED BY <1>1, <1>2

LEMMA RotateType ==
    ASSUME TypeOK, NEW r \in Requests, Rotate(r)
    PROVE  TypeOK'
  <1> DEFINE q == requests[r]
             s == q.session
  <1>1. s \in Sessions /\ sessions[s] \in SessionRow
    <2>1. s \in Sessions
      BY DEF Rotate, At, TypeOK, Assigned, HasSnapshot
    <2>2. QED BY <2>1 DEF Rotate, Usable, Present, TypeOK
  <1>2. q.at \in Nat /\ q.rotations \in Nat /\ q.token \in Users /\ q.handle \in Handles
    <2>1. q.pc = "rotate" /\ sessions[s].handle = q.handle
      BY DEF Rotate, At, Usable
    <2>2. QED BY <1>1, <2>1, RequestFacts, RowFacts DEF TypeOK, Assigned
  <1>3. CASE sessions[s].rotations >= MaxRotations
    <2>1. sessions' \in [Sessions -> SessionRow \cup {None}]
      BY <1>1, <1>2, <1>3, SetRevokedType DEF Rotate, Usable
    <2>2. Finish(r, "invalid_grant") /\ UNCHANGED <<clock, deployment, history, minted>>
      BY <1>3 DEF Rotate
    <2>3. QED BY <2>1, <2>2, FinishMoves, MovesType DEF TypeOK, Answers
  <1>4. CASE ~ (sessions[s].rotations >= MaxRotations)
    <2> DEFINE row == [sessions[s] EXCEPT !.handle = r, !.seal = NewSeal(r),
                           !.cacheUser = q.token, !.rotations = @ + 1]
    <2>1. row \in SessionRow
      <3>1. NewSeal(r) \in Context
        BY <1>1, <1>2 DEF NewSeal, ContextOf, Context, Handles
      <3>2. QED BY <1>1, <1>2, <3>1, RotatedRow DEF Handles
    <2>2. /\ sessions' = Reclaimed([sessions EXCEPT ![s] = row], q.at)
          /\ history' = Cascade(Spent(history, q.handle, s), sessions')
          /\ minted' = minted \cup {r} /\ Finish(r, "token")
          /\ UNCHANGED <<clock, deployment>>
      BY <1>4 DEF Rotate
    <2>3. sessions' \in [Sessions -> SessionRow \cup {None}]
      <3> HIDE DEF row
      <3>1. [sessions EXCEPT ![s] = row] \in [Sessions -> SessionRow \cup {None}]
        BY <2>1 DEF TypeOK
      <3>2. QED BY <2>2, <3>1, ReclaimedType
    <2>4. history' \subseteq [handle : Handles, session : Sessions]
      <3>1. history' \subseteq Spent(history, q.handle, s)
        BY <2>2, CascadeType
      <3>2. QED BY <1>1, <1>2, <3>1 DEF TypeOK, Spent
    <2>5. /\ requests' \in [Requests -> Request]
          /\ \A x \in Requests : Assigned(requests'[x])
      <3>1. "token" \in Answers
        BY DEF Answers
      <3>2. QED BY <2>2, <3>1, FinishMoves, MovesType
    <2>6. minted' \subseteq Handles
      BY <2>2 DEF TypeOK, Handles
    <2>7. QED BY <2>2, <2>3, <2>4, <2>5, <2>6 DEF TypeOK
  <1>5. QED BY <1>3, <1>4

LEMMA RequestStepType ==
    ASSUME TypeOK, NEW r \in Requests, RequestStep(r)
    PROVE  TypeOK'
  <1>1. CASE LookupMisses(r)
    BY <1>1, GotoType, RetypedPc DEF LookupMisses, RunningPcs, StorePcs, TypeOK
  <1>2. ASSUME NEW s \in Sessions, LookupAccepts(r, s)
        PROVE  TypeOK'
    BY <1>2, SnapshotMoves, QuietType DEF LookupAccepts, Usable
  <1>3. ASSUME NEW s \in Sessions, LookupRefuses(r, s)
        PROVE  TypeOK'
    BY <1>3, SnapshotMoves, RefusalType, QuietType DEF LookupRefuses, Usable
  <1>4. ASSUME NEW s \in Sessions, LookupWrongScope(r, s)
        PROVE  TypeOK'
    BY <1>4, FinishType DEF LookupWrongScope, Answers
  <1>5. CASE EntraRefresh(r)
    <2>1. StoreUnchanged /\ requests[r].session \in Sessions
      BY <1>5 DEF EntraRefresh, At, TypeOK, Assigned, HasSnapshot
    <2>2. ASSUME NEW user \in Users,
                 Moves(r, [requests[r] EXCEPT !.pc = "validate", !.token = user])
          PROVE  TypeOK'
      <3>1. WellTyped([requests[r] EXCEPT !.pc = "validate", !.token = user])
        BY <2>1, ValidateTyped DEF TypeOK
      <3>2. QED BY <2>1, <2>2, <3>1, QuietType
    <2>3. QED
      BY <1>5, <2>1, <2>2, GoRevokeType, FinishType DEF EntraRefresh, Answers, Causes, Moves
  <1>6. CASE Validate(r)
    <2>1. requests[r].token \in Users /\ requests[r].session \in Sessions
      BY <1>6 DEF Validate, At, TypeOK, Assigned, HasSnapshot
    <2>2. Assigned([requests[r] EXCEPT !.pc = "rotate"])
      BY <2>1 DEF TypeOK, Request, Assigned
    <2>3. QED
      BY <1>6, <2>1, <2>2, GotoType, GoRevokeType, FinishType
         DEF Validate, Answers, Causes, RunningPcs, StorePcs
  <1>7. CASE Rotate(r)
    BY <1>7, RotateType
  <1>8. CASE RotateConflicts(r)
    BY <1>8, GotoType, RetypedPc DEF RotateConflicts, RunningPcs, StorePcs, TypeOK
  <1>9. CASE Revoke(r)
    <2> DEFINE q == requests[r]
    <2>1. CASE Revocable(q.session, q.handle, q.client)
      <3>1. q.session \in Sessions /\ q.at \in Nat /\ Present(q.session)
        BY <1>9, <2>1, RequestFacts
           DEF Revoke, At, TypeOK, Assigned, HasSnapshot, Revocable
      <3>2. SetRevoked(q.session, q.at) /\ Finish(r, "invalid_grant")
            /\ UNCHANGED <<clock, deployment, history, minted>>
        BY <1>9, <2>1 DEF Revoke
      <3>3. QED
        BY <3>1, <3>2, SetRevokedType, FinishMoves, MovesType DEF TypeOK, Answers
    <2>2. CASE ~ Revocable(q.session, q.handle, q.client)
      <3>1. StoreUnchanged /\ Goto(r, "replayFind")
        BY <1>9, <2>2 DEF Revoke, StoreUnchanged
      <3>2. QED BY <3>1, GotoType, RetypedPc DEF RunningPcs, StorePcs, TypeOK
    <2>3. QED BY <2>1, <2>2
  <1>10. CASE ReplayFind(r)
    BY <1>10, GotoType, RetypedPc, FinishType
       DEF ReplayFind, Answers, RunningPcs, StorePcs, TypeOK
  <1>11. CASE ReplayRevoke(r)
    <2> DEFINE q == requests[r]
    <2>1. q.at \in Nat
      BY RequestFacts DEF TypeOK
    <2>2. sessions' \in [Sessions -> SessionRow \cup {None}]
      BY <1>11, <2>1, SetRevokedType DEF ReplayRevoke, Replayed, TypeOK
    <2>3. Finish(r, "invalid_grant") /\ UNCHANGED <<clock, deployment, history, minted>>
      BY <1>11 DEF ReplayRevoke
    <2>4. QED BY <2>2, <2>3, FinishMoves, MovesType DEF TypeOK, Answers
  <1>12. CASE StoreFails(r)
    BY <1>12, FinishType DEF StoreFails, Answers
  <1>13. QED
    BY <1>1, <1>2, <1>3, <1>4, <1>5, <1>6, <1>7, <1>8, <1>9, <1>10, <1>11, <1>12
       DEF RequestStep

LEMMA TypeInit == Init => TypeOK
  <1> SUFFICES ASSUME Init PROVE TypeOK
    OBVIOUS
  <1>1. Unsent \in Request /\ Assigned(Unsent)
    BY DEF Unsent, Request, Answers, Assigned, HasSnapshot
  <1>2. QED BY <1>1 DEF Init, TypeOK

LEMMA TypeStep == TypeOK /\ [Next]_vars => TypeOK'
  <1> SUFFICES ASSUME TypeOK, [Next]_vars PROVE TypeOK'
    OBVIOUS
  <1>1. ASSUME NEW s \in Sessions, NEW c \in Clients, NEW u \in Users,
               NEW d \in Deployments, NEW at \in 0..clock, IssueSession(s, c, u, d, at)
        PROVE  TypeOK'
    BY <1>1, IssueType
  <1>2. ASSUME NEW r \in Requests, NEW h \in minted, NEW c \in Clients, Start(r, h, c)
        PROVE  TypeOK'
    <2> DEFINE q == [requests[r] EXCEPT !.pc = "lookup", !.at = clock,
                                        !.client = c, !.handle = h]
    <2>1. WellTyped(q)
      BY StartTyped DEF TypeOK
    <2>2. Moves(r, q) /\ StoreUnchanged
      BY <1>2 DEF Start, Moves
    <2>3. QED BY <2>1, <2>2, QuietType
  <1>3. ASSUME NEW r \in Requests, RequestStep(r)
        PROVE  TypeOK'
    BY <1>3, RequestStepType
  <1>4. ASSUME NEW at \in 0..clock, OtherWriter(at)
        PROVE  TypeOK'
    BY <1>4, ReclaimedType, CascadeType DEF OtherWriter, TypeOK
  <1>5. CASE Restart
    <2>1. ASSUME NEW q \in Request
          PROVE  WellTyped([q EXCEPT !.pc = "done", !.answer = "lost",
                                     !.rotations = 0, !.user = None, !.token = None])
      BY LostTyped
    <2>2. \A r \in Requests : WellTyped(requests[r])
      BY DEF TypeOK, WellTyped
    <2>3. requests' \in [Requests -> Request] /\ \A r \in Requests : Assigned(requests'[r])
      BY <1>5, <2>1, <2>2 DEF Restart, TypeOK, WellTyped
    <2>4. QED BY <1>5, <2>3, ReclaimedType, CascadeType DEF Restart, TypeOK
  <1>6. CASE Tick
    BY <1>6 DEF Tick, TypeOK
  <1>7. CASE UNCHANGED vars
    BY <1>7 DEF vars, TypeOK
  <1>8. QED
    BY <1>1, <1>2, <1>3, <1>4, <1>5, <1>6, <1>7 DEF Next

THEOREM TypeCorrect == Spec => []TypeOK
  <1>1. QED BY TypeInit, TypeStep, PTL DEF Spec

-----------------------------------------------------------------------------
(* What a step may do to the store *)

Kept(s) == sessions'[s] = sessions[s]
Deleted(s) == sessions'[s] = None
MarkedRevoked(s) ==
    /\ Present(s) /\ sessions[s].revokedAt = NotRevoked
    /\ \E at \in Nat : sessions'[s] = [sessions[s] EXCEPT !.revokedAt = at]
OnlyFade(S) == \A s \in S : Kept(s) \/ Deleted(s) \/ MarkedRevoked(s)

\* history loses the rows of deleted sessions and nothing else
Cascades(spent) == \A e : e \in history' <=> e \in spent /\ sessions'[e.session] # None

Fading == OnlyFade(Sessions) /\ minted' = minted /\ Cascades(history)

Issuing(s) ==
    /\ s \notin minted
    /\ sessions'[s] \in SessionRow
    /\ sessions'[s].handle = s /\ sessions'[s].seal = ContextOf(s, s, 0)
    /\ sessions'[s].rotations = 0 /\ sessions'[s].cacheUser = sessions'[s].user
    /\ sessions'[s].revokedAt = NotRevoked
    /\ OnlyFade(Sessions \ {s})
    /\ minted' = minted \cup {s}
    /\ Cascades(history)
    /\ requests' = requests

Rotating(r, s) ==
    LET q == requests[r]
    IN  /\ q.pc = "rotate" /\ s = q.session /\ s \in Sessions
        /\ Usable(s, q.handle, q.client, q.at)
        /\ ~ (sessions[s].rotations >= MaxRotations)
        /\ sessions'[s] = [sessions[s] EXCEPT !.handle = r, !.seal = NewSeal(r),
                                              !.cacheUser = q.token, !.rotations = @ + 1]
        /\ OnlyFade(Sessions \ {s})
        /\ minted' = minted \cup {r}
        /\ Cascades(history \cup {[handle |-> q.handle, session |-> s]})
        /\ Finish(r, "token")

LEMMA FadesByReclaiming ==
    ASSUME NEW table, NEW at, sessions' = Reclaimed(table, at),
           NEW S \in SUBSET Sessions, \A s \in S : table[s] = sessions[s]
    PROVE  OnlyFade(S)
  BY DEF OnlyFade, Kept, Deleted, Reclaimed

LEMMA QuietFades ==
    ASSUME TypeOK, HistoryIsComplete, sessions' = sessions, history' = history, minted' = minted
    PROVE  Fading
  BY DEF Fading, OnlyFade, Kept, Cascades, HistoryIsComplete, Present

LEMMA RevokeFades ==
    ASSUME TypeOK, HistoryIsComplete, NEW s \in Sessions, NEW at \in Nat,
           Present(s), sessions[s].revokedAt = NotRevoked, SetRevoked(s, at),
           history' = history, minted' = minted
    PROVE  Fading
  <1>1. sessions'[s] = [sessions[s] EXCEPT !.revokedAt = at]
        /\ \A t \in Sessions \ {s} : sessions'[t] = sessions[t]
    BY DEF SetRevoked, TypeOK
  <1>2. sessions'[s] \in SessionRow
    BY <1>1 DEF TypeOK, Present, SessionRow
  <1>3. OnlyFade(Sessions)
    BY <1>1 DEF OnlyFade, Kept, MarkedRevoked
  <1>4. \A t \in Sessions : Present(t) => sessions'[t] # None
    BY <1>1, <1>2, RowFacts DEF Present
  <1>5. Cascades(history)
    BY <1>4 DEF Cascades, HistoryIsComplete, TypeOK
  <1>6. QED BY <1>3, <1>5 DEF Fading

LEMMA RotateStep ==
    ASSUME TypeOK, HistoryIsComplete, NEW r \in Requests, Rotate(r)
    PROVE  Fading \/ Rotating(r, requests[r].session)
  <1> DEFINE q == requests[r]
             s == q.session
  <1>1. s \in Sessions /\ q.at \in Nat /\ q.pc = "rotate"
    BY RequestFacts DEF Rotate, At, TypeOK, Assigned, HasSnapshot
  <1>2. Usable(s, q.handle, q.client, q.at)
    BY DEF Rotate
  <1>3. CASE sessions[s].rotations >= MaxRotations
    BY <1>1, <1>2, <1>3, RevokeFades DEF Rotate, Usable
  <1>4. CASE ~ (sessions[s].rotations >= MaxRotations)
    <2> DEFINE row == [sessions[s] EXCEPT !.handle = r, !.seal = NewSeal(r),
                           !.cacheUser = q.token, !.rotations = @ + 1]
               table == [sessions EXCEPT ![s] = row]
    <2>1. /\ sessions' = Reclaimed(table, q.at)
          /\ history' = Cascade(Spent(history, q.handle, s), sessions')
          /\ minted' = minted \cup {r} /\ Finish(r, "token")
      BY <1>4 DEF Rotate
    <2>2. table[s] = row /\ \A t \in Sessions \ {s} : table[t] = sessions[t]
      BY <1>1 DEF TypeOK
    <2>3. sessions'[s] = row
      <3>1. sessions[s] \in SessionRow
        BY <1>1, <1>2 DEF TypeOK, Usable, Present
      <3>2. /\ row.revokedAt = sessions[s].revokedAt
            /\ row.expiresAt = sessions[s].expiresAt
        BY <3>1 DEF SessionRow
      <3>3. sessions[s].expiresAt \in Nat
        BY <3>1, RowFacts
      <3>4. ~ Terminal(row, q.at)
        BY <1>1, <1>2, <3>2, <3>3 DEF Terminal, Usable
      <3> HIDE DEF row
      <3>5. QED BY <1>1, <2>1, <2>2, <3>4 DEF Reclaimed
    <2>4. OnlyFade(Sessions \ {s})
      BY <2>1, <2>2, FadesByReclaiming
    <2>5. Cascades(history \cup {[handle |-> q.handle, session |-> s]})
      BY <2>1 DEF Cascades, Cascade, Spent
    <2>6. QED BY <1>1, <1>2, <1>4, <2>1, <2>3, <2>4, <2>5 DEF Rotating
  <1>5. QED BY <1>3, <1>4

LEMMA StoreStep ==
    ASSUME TypeOK, HistoryIsComplete, [Next]_vars
    PROVE  \/ Fading
           \/ \E s \in Sessions : Issuing(s)
           \/ \E r \in Requests : Rotating(r, requests[r].session)
  <1>1. ASSUME NEW s \in Sessions, NEW c \in Clients, NEW u \in Users,
               NEW d \in Deployments, NEW at \in 0..clock, IssueSession(s, c, u, d, at)
        PROVE  Issuing(s)
    <2> DEFINE row == [client |-> c, user |-> u, deployment |-> d,
                       handle |-> s, seal |-> ContextOf(s, s, 0), cacheUser |-> u,
                       expiresAt |-> at + SessionTtl, revokedAt |-> NotRevoked, rotations |-> 0]
    <2>1. sessions' = [Reclaimed(sessions, at) EXCEPT ![s] = row]
      BY <1>1 DEF IssueSession
    <2>2. sessions'[s] = row
      BY <2>1 DEF Reclaimed
    <2>3. \A t \in Sessions \ {s} : sessions'[t] = Reclaimed(sessions, at)[t]
      BY <2>1 DEF Reclaimed
    <2>4. OnlyFade(Sessions \ {s})
      BY <2>3 DEF OnlyFade, Kept, Deleted, Reclaimed
    <2>5. Cascades(history)
      BY <1>1 DEF IssueSession, Cascades, Cascade
    <2>6. row \in SessionRow
      BY ParametersAssumption DEF TypeOK, SessionRow, ContextOf, Context, Handles
    <2>7. QED BY <1>1, <2>2, <2>4, <2>5, <2>6 DEF IssueSession, Issuing
  <1>2. ASSUME NEW r \in Requests, NEW h \in minted, NEW c \in Clients, Start(r, h, c)
        PROVE  Fading
    BY <1>2, QuietFades DEF Start, StoreUnchanged
  <1>3. ASSUME NEW r \in Requests, RequestStep(r)
        PROVE  Fading \/ Rotating(r, requests[r].session)
    <2>1. CASE StoreUnchanged
      BY <2>1, QuietFades DEF StoreUnchanged
    <2>2. CASE Rotate(r)
      BY <2>2, RotateStep
    <2>3. CASE Revoke(r)
      <3>1. requests[r].session \in Sessions /\ requests[r].at \in Nat
        BY <2>3, RequestFacts DEF Revoke, At, TypeOK, Assigned, HasSnapshot
      <3>2. QED
        BY <2>3, <3>1, RevokeFades, QuietFades DEF Revoke, Revocable
    <2>4. CASE ReplayRevoke(r)
      <3>1. requests[r].at \in Nat
        BY RequestFacts DEF TypeOK
      <3>2. QED
        BY <2>4, <3>1, RevokeFades, QuietFades DEF ReplayRevoke, Replayed
    <2>5. QED
      BY <1>3, <2>1, <2>2, <2>3, <2>4
         DEF RequestStep, LookupMisses, LookupAccepts, LookupRefuses, LookupWrongScope,
             EntraRefresh, Validate, RotateConflicts, ReplayFind, StoreFails
  <1>4. ASSUME NEW at \in 0..clock, OtherWriter(at)
        PROVE  Fading
    BY <1>4, FadesByReclaiming DEF OtherWriter, Fading, Cascades, Cascade
  <1>5. CASE Restart
    BY <1>5, FadesByReclaiming DEF Restart, Fading, Cascades, Cascade
  <1>6. CASE Tick
    BY <1>6, QuietFades DEF Tick
  <1>7. CASE UNCHANGED vars
    BY <1>7, QuietFades DEF vars
  <1>8. QED
    BY <1>1, <1>2, <1>3, <1>4, <1>5, <1>6, <1>7 DEF Next

-----------------------------------------------------------------------------
(* What a step may do to one request *)

Same(r) == requests'[r] = requests[r]

Started(r) ==
    /\ requests[r].pc = "unsent" /\ requests'[r].pc = "lookup"
    /\ requests'[r].handle \in minted /\ requests'[r].client \in Clients
    /\ requests'[r].answer = requests[r].answer /\ requests'[r].at = clock
    /\ StoreUnchanged

Carried(r) ==
    /\ requests'[r].handle = requests[r].handle
    /\ requests'[r].client = requests[r].client
    /\ requests'[r].at = requests[r].at

Snapped(r, s) ==
    /\ requests[r].pc = "lookup" /\ requests'[r].pc \in {"entra", "revoke"}
    /\ Usable(s, requests[r].handle, requests[r].client, requests[r].at)
    /\ requests'[r].session = s
    /\ requests'[r].rotations = sessions[s].rotations
    /\ requests'[r].user = sessions[s].user
    /\ requests'[r].answer = requests[r].answer
    /\ Carried(r)
    /\ StoreUnchanged

\* no live row shows the handle of the request to its client
Spoiled(r) ==
    \A s \in Sessions :
        Live(s, requests[r].at) /\ sessions[s].client = requests[r].client
            => sessions[s].handle # requests[r].handle

LiveNext(s, at) ==
    sessions'[s] # None /\ sessions'[s].revokedAt = NotRevoked /\ sessions'[s].expiresAt > at

ClosedNext(r) ==
    \A s \in Sessions :
        FamilyOf(requests[r].handle) = s
            /\ (sessions'[s] # None => sessions'[s].client = requests[r].client)
            => ~ LiveNext(s, requests[r].at)

Advanced(r) ==
    /\ requests[r].pc \in RunningPcs
    /\ Carried(r) /\ requests'[r].session = requests[r].session
    /\ requests'[r].pc \in RunningPcs => requests'[r].answer = "none"
    /\ requests'[r].pc \notin {"unsent", "lookup"}
    /\ requests'[r].pc \in HasSnapshot =>
          /\ requests[r].pc \in HasSnapshot
          /\ requests'[r].rotations = requests[r].rotations
          /\ requests'[r].user = requests[r].user
    /\ requests'[r].pc = "rotate" => requests'[r].token = requests'[r].user
    /\ requests'[r].pc \in Rejecting =>
          sessions' = sessions /\ (requests[r].pc \in Rejecting \/ Spoiled(r))
    /\ requests'[r].answer = "token" <=> Rotating(r, requests[r].session)
    /\ requests'[r].answer = "invalid_grant" => ClosedNext(r)

Moved(r) == Started(r) \/ (\E s \in Sessions : Snapped(r, s)) \/ Advanced(r)

LEMMA FinishAdvances ==
    ASSUME IInv, NEW r \in Requests, requests[r].pc \in RunningPcs,
           NEW a \in Answers \ {"none", "token", "invalid_grant"},
           Finish(r, a), StoreUnchanged
    PROVE  Advanced(r) /\ \A x \in Requests \ {r} : Same(x)
  <1>1. ~ Rotating(r, requests[r].session)
    BY DEF Rotating, StoreUnchanged, IInv, MintedByRotation, RequestsKnowTheirFamily
  <1>2. QED
    BY <1>1, FinishMoves, MovesType
       DEF IInv, Advanced, Carried, Same, RunningPcs, StorePcs, HasSnapshot, Rejecting, Answers

LEMMA Unrotated ==
    ASSUME IInv, NEW r \in Requests, requests[r].pc \in RunningPcs, minted' = minted
    PROVE  ~ Rotating(r, requests[r].session)
  BY DEF Rotating, IInv, MintedByRotation, RequestsKnowTheirFamily

LEMMA GotoAdvances ==
    ASSUME IInv, NEW r \in Requests, requests[r].pc \in RunningPcs, StoreUnchanged,
           NEW pc \in Rejecting, Goto(r, pc), requests[r].pc \in Rejecting \/ Spoiled(r)
    PROVE  Advanced(r) /\ \A x \in Requests \ {r} : Same(x)
  <1>1. ~ Rotating(r, requests[r].session)
    BY Unrotated DEF StoreUnchanged
  <1>2. /\ Moves(r, [requests[r] EXCEPT !.pc = pc])
        /\ WellTyped([requests[r] EXCEPT !.pc = pc])
    BY GotoMoves, RetypedPc DEF IInv, TypeOK, Rejecting, RunningPcs, StorePcs
  <1>3. /\ requests'[r] = [requests[r] EXCEPT !.pc = pc]
        /\ \A x \in Requests \ {r} : requests'[x] = requests[x]
    BY <1>2, MovesType DEF IInv
  <1>4. /\ requests'[r].pc = pc
        /\ requests'[r].answer = requests[r].answer
        /\ requests'[r].session = requests[r].session
        /\ Carried(r)
    BY <1>3 DEF IInv, TypeOK, Request, Carried
  <1>5. requests[r].answer = "none"
    BY DEF IInv, RequestsKnowTheirFamily
  <1>6. QED
    BY <1>1, <1>3, <1>4, <1>5
       DEF Advanced, Same, Rejecting, HasSnapshot, StoreUnchanged

LEMMA GoRevokeAdvances ==
    ASSUME IInv, NEW r \in Requests, requests[r].pc \in HasSnapshot, StoreUnchanged,
           NEW cause \in Causes, GoRevoke(r, cause)
    PROVE  Advanced(r) /\ \A x \in Requests \ {r} : Same(x)
  <1>1. requests[r].session \in Sessions /\ requests[r].pc \in RunningPcs
    BY DEF IInv, TypeOK, Assigned, HasSnapshot, RunningPcs, StorePcs
  <1>2. ~ Rotating(r, requests[r].session)
    BY <1>1, Unrotated DEF StoreUnchanged
  <1>3. /\ requests'[r] = [requests[r] EXCEPT !.pc = "revoke", !.cause = cause]
        /\ \A x \in Requests \ {r} : requests'[x] = requests[x]
    BY <1>1, GoRevokeMoves, MovesType DEF IInv
  <1>4. /\ requests'[r].pc = "revoke"
        /\ requests'[r].answer = requests[r].answer
        /\ requests'[r].session = requests[r].session
        /\ requests'[r].rotations = requests[r].rotations
        /\ requests'[r].user = requests[r].user
        /\ Carried(r)
    BY <1>3 DEF IInv, TypeOK, Request, Carried
  <1>5. requests[r].answer = "none"
    BY <1>1 DEF IInv, RequestsKnowTheirFamily
  <1>6. QED
    BY <1>1, <1>2, <1>3, <1>4, <1>5 DEF Advanced, Same, Rejecting, HasSnapshot

LEMMA RejectAdvances ==
    ASSUME IInv, NEW r \in Requests, requests[r].pc \in RunningPcs, minted' = minted,
           Finish(r, "invalid_grant"), ClosedNext(r)
    PROVE  Advanced(r) /\ \A x \in Requests \ {r} : Same(x)
  <1>1. ~ Rotating(r, requests[r].session)
    BY Unrotated
  <1>2. QED
    BY <1>1, FinishMoves, MovesType
       DEF IInv, Advanced, Carried, Same, RunningPcs, StorePcs, HasSnapshot, Rejecting, Answers

\* An unusable handle is in no live row of the client.
LEMMA UnusableIsSpoiled ==
    ASSUME NEW r \in Requests,
           \A s \in Sessions :
              ~ Usable(s, requests[r].handle, requests[r].client, requests[r].at)
    PROVE  Spoiled(r)
  BY DEF Spoiled, Usable, Live

\* The row of the snapshot is the only one that can show the handle.
LEMMA SnapshotIsSpoiled ==
    ASSUME IInv, NEW r \in Requests, requests[r].pc \in HasSnapshot,
           ~ Usable(requests[r].session, requests[r].handle, requests[r].client,
                    requests[r].at)
    PROVE  Spoiled(r)
  BY DEF IInv, RowsHoldMinted, RequestsKnowTheirFamily, Spoiled, Usable, Live, Present

LEMMA UnrevocableIsSpoiled ==
    ASSUME IInv, NEW r \in Requests, requests[r].pc \in HasSnapshot,
           ~ Revocable(requests[r].session, requests[r].handle, requests[r].client)
    PROVE  Spoiled(r)
  BY DEF IInv, RowsHoldMinted, RequestsKnowTheirFamily, Spoiled, Revocable, Live, Present

\* A search that finds nothing has seen that the family is closed already.
LEMMA NotReplayedIsClosed ==
    ASSUME IInv, NEW r \in Requests, requests[r].pc \in Rejecting, sessions' = sessions,
           \A s \in Sessions :
              ~ Replayed(s, requests[r].handle, requests[r].client, requests[r].at)
    PROVE  ClosedNext(r)
  <1> DEFINE q == requests[r]
  <1> SUFFICES ASSUME NEW s \in Sessions, FamilyOf(q.handle) = s,
                      Live(s, q.at), sessions[s].client = q.client
               PROVE  FALSE
    BY DEF ClosedNext, LiveNext, Live, Present
  <1>1. q.handle \in minted /\ q.handle \in Handles
    BY DEF IInv, TypeOK, RequestsKnowTheirFamily, Rejecting
  <1>2. sessions[s].handle # q.handle
    BY DEF IInv, RejectingHandlesAreSpent
  <1>3. [handle |-> q.handle, session |-> s] \in history
    BY <1>1, <1>2 DEF IInv, HistoryIsComplete, Live
  <1>4. QED BY <1>3 DEF Replayed, Live

\* A row that has just been revoked is closed.
LEMMA RevokedIsClosed ==
    ASSUME IInv, NEW r \in Requests, NEW s \in Sessions, Present(s),
           SetRevoked(s, requests[r].at), FamilyOf(requests[r].handle) = s
    PROVE  ClosedNext(r)
  <1>1. sessions'[s] = [sessions[s] EXCEPT !.revokedAt = requests[r].at]
        /\ requests[r].at \in Nat
    BY RequestFacts DEF SetRevoked, IInv, TypeOK
  <1>2. sessions'[s].revokedAt = requests[r].at
    BY <1>1 DEF IInv, TypeOK, Present, SessionRow
  <1>3. ~ LiveNext(s, requests[r].at)
    BY <1>1, <1>2 DEF LiveNext, NotRevoked
  <1>4. QED BY <1>3 DEF ClosedNext


LEMMA StepAdvances ==
    ASSUME IInv, NEW r \in Requests, RequestStep(r)
    PROVE  Moved(r) /\ \A x \in Requests \ {r} : Same(x)
  <1> DEFINE q == requests[r]
             Others == \A x \in Requests \ {r} : Same(x)
  <1>0. TypeOK /\ HistoryIsComplete
    BY DEF IInv
  <1>1. CASE LookupMisses(r)
    <2>1. Spoiled(r) /\ q.pc \in RunningPcs
      BY <1>1, UnusableIsSpoiled DEF LookupMisses, At, RunningPcs, StorePcs
    <2>2. QED
      BY <1>1, <2>1, GotoAdvances DEF LookupMisses, Moved, Rejecting
  <1>2. ASSUME NEW s \in Sessions, NEW pc \in {"entra", "revoke"},
               NEW cause \in Causes \cup {"none"}, At(r, "lookup"),
               Usable(s, q.handle, q.client, q.at), Snapshot(r, s, pc, cause), StoreUnchanged
        PROVE  Snapped(r, s) /\ Others
    BY <1>0, <1>2, SnapshotMoves, MovesType DEF Usable, Snapped, At, Carried, Same
  <1>3. ASSUME NEW s \in Sessions, LookupAccepts(r, s) \/ LookupRefuses(r, s)
        PROVE  Moved(r) /\ Others
    BY <1>2, <1>3, RefusalType DEF LookupAccepts, LookupRefuses, Moved
  <1>4. ASSUME NEW s \in Sessions, LookupWrongScope(r, s)
        PROVE  Moved(r) /\ Others
    BY <1>4, FinishAdvances DEF LookupWrongScope, At, RunningPcs, StorePcs, Answers, Moved
  <1>5. CASE EntraRefresh(r)
    <2>1. q.pc \in HasSnapshot /\ q.pc \in RunningPcs /\ StoreUnchanged
      BY <1>5 DEF EntraRefresh, At, HasSnapshot, RunningPcs
    <2>2. ASSUME NEW user \in Users,
                 Moves(r, [q EXCEPT !.pc = "validate", !.token = user])
          PROVE  Advanced(r) /\ Others
      <3>1. WellTyped([q EXCEPT !.pc = "validate", !.token = user])
        BY <1>0, <2>1, ValidateTyped DEF TypeOK, Assigned
      <3>2. requests'[r] = [q EXCEPT !.pc = "validate", !.token = user] /\ Others
        BY <1>0, <2>2, <3>1, MovesType DEF Same
      <3>3. /\ requests'[r].pc = "validate" /\ requests'[r].answer = q.answer
            /\ requests'[r].session = q.session /\ requests'[r].rotations = q.rotations
            /\ requests'[r].user = q.user /\ Carried(r)
        BY <1>0, <3>2 DEF TypeOK, Request, Carried
      <3>4. ~ Rotating(r, q.session) /\ q.answer = "none"
        BY <2>1, Unrotated DEF StoreUnchanged, IInv, RequestsKnowTheirFamily
      <3>5. QED BY <2>1, <3>2, <3>3, <3>4 DEF Advanced, Rejecting
    <2>3. QED
      BY <1>5, <2>1, <2>2, GoRevokeAdvances, FinishAdvances
         DEF EntraRefresh, Moved, Moves, Causes, Answers
  <1>6. CASE Validate(r)
    <2>1. q.pc = "validate" /\ q.pc \in HasSnapshot /\ q.pc \in RunningPcs /\ StoreUnchanged
      BY <1>6 DEF Validate, At, HasSnapshot, RunningPcs
    <2>2. ASSUME SameIdentity(r), Goto(r, "rotate")
          PROVE  Advanced(r) /\ Others
      <3>1. /\ Moves(r, [q EXCEPT !.pc = "rotate"])
            /\ WellTyped([q EXCEPT !.pc = "rotate"])
        <4>1. Assigned([q EXCEPT !.pc = "rotate"])
          BY <1>0, <2>1 DEF TypeOK, Request, Assigned, HasSnapshot
        <4>2. QED BY <1>0, <2>2, <4>1, GotoMoves DEF RunningPcs, StorePcs
      <3>2. requests'[r] = [q EXCEPT !.pc = "rotate"] /\ Others
        BY <1>0, <3>1, MovesType DEF Same
      <3>3. /\ requests'[r].pc = "rotate" /\ requests'[r].answer = q.answer
            /\ requests'[r].session = q.session /\ requests'[r].rotations = q.rotations
            /\ requests'[r].user = q.user /\ requests'[r].token = q.token /\ Carried(r)
        BY <1>0, <3>2 DEF TypeOK, Request, Carried
      <3>4. ~ Rotating(r, q.session) /\ q.answer = "none"
        BY <2>1, Unrotated DEF StoreUnchanged, IInv, RequestsKnowTheirFamily
      <3>5. QED BY <2>1, <2>2, <3>2, <3>3, <3>4 DEF Advanced, Rejecting, SameIdentity
    <2>3. QED
      BY <1>6, <2>1, <2>2, GoRevokeAdvances, FinishAdvances
         DEF Validate, Moved, Causes, Answers
  <1>7. CASE Rotate(r)
    <2>1. q.pc = "rotate" /\ q.pc \in HasSnapshot /\ q.pc \in RunningPcs
      BY <1>7 DEF Rotate, At, HasSnapshot, RunningPcs, StorePcs
    <2>2. CASE sessions[q.session].rotations >= MaxRotations
      <3>1. /\ Present(q.session) /\ SetRevoked(q.session, q.at)
            /\ Finish(r, "invalid_grant") /\ minted' = minted
        BY <1>7, <2>2 DEF Rotate, Usable
      <3>2. ClosedNext(r)
        BY <1>0, <2>1, <3>1, RevokedIsClosed
           DEF IInv, RequestsKnowTheirFamily, TypeOK, Assigned
      <3>3. QED BY <2>1, <3>1, <3>2, RejectAdvances DEF Moved
    <2>3. CASE ~ (sessions[q.session].rotations >= MaxRotations)
      <3>1. Finish(r, "token") /\ minted' = minted \cup {r}
        BY <1>7, <2>3 DEF Rotate
      <3>2. Rotating(r, q.session)
        <4>1. r \notin minted
          BY <2>1 DEF IInv, MintedByRotation, RequestsKnowTheirFamily
        <4>2. ~ Fading
          BY <3>1, <4>1 DEF Fading
        <4>3. QED BY <1>0, <1>7, <4>2, RotateStep
      <3>3. QED
        BY <1>0, <2>1, <3>1, <3>2, FinishMoves, MovesType
           DEF Moved, Advanced, Carried, Same, RunningPcs, StorePcs, HasSnapshot,
               Rejecting, Answers
    <2>4. QED BY <2>2, <2>3
  <1>8. CASE RotateConflicts(r)
    <2>1. q.pc \in HasSnapshot /\ q.pc \in RunningPcs
      BY <1>8 DEF RotateConflicts, At, HasSnapshot, RunningPcs, StorePcs
    <2>2. Spoiled(r)
      BY <1>8, <2>1, SnapshotIsSpoiled DEF RotateConflicts
    <2>3. QED
      BY <1>8, <2>1, <2>2, GotoAdvances DEF RotateConflicts, Moved, Rejecting
  <1>9. CASE Revoke(r)
    <2>1. q.pc \in HasSnapshot /\ q.pc \in RunningPcs
      BY <1>9 DEF Revoke, At, HasSnapshot, RunningPcs, StorePcs
    <2>2. CASE Revocable(q.session, q.handle, q.client)
      <3>1. /\ Present(q.session) /\ SetRevoked(q.session, q.at)
            /\ Finish(r, "invalid_grant") /\ minted' = minted
        BY <1>9, <2>2 DEF Revoke, Revocable
      <3>2. ClosedNext(r)
        BY <1>0, <2>1, <3>1, RevokedIsClosed
           DEF IInv, RequestsKnowTheirFamily, TypeOK, Assigned
      <3>3. QED BY <2>1, <3>1, <3>2, RejectAdvances DEF Moved
    <2>3. CASE ~ Revocable(q.session, q.handle, q.client)
      <3>1. StoreUnchanged /\ Goto(r, "replayFind")
        BY <1>9, <2>3 DEF Revoke, StoreUnchanged
      <3>2. QED
        BY <2>1, <2>3, <3>1, UnrevocableIsSpoiled, GotoAdvances DEF Moved, Rejecting
    <2>4. QED BY <2>2, <2>3
  <1>10. CASE ReplayFind(r)
    <2>1. q.pc \in Rejecting /\ q.pc \in RunningPcs /\ StoreUnchanged
      BY <1>10 DEF ReplayFind, At, Rejecting, RunningPcs, StorePcs
    <2>2. QED
      BY <1>10, <2>1, GotoAdvances, RejectAdvances, NotReplayedIsClosed
         DEF ReplayFind, Moved, Rejecting, StoreUnchanged
  <1>11. CASE ReplayRevoke(r)
    <2>1. /\ q.pc \in Rejecting /\ q.pc \in RunningPcs
          /\ minted' = minted /\ Finish(r, "invalid_grant")
      BY <1>11 DEF ReplayRevoke, At, Rejecting, RunningPcs, StorePcs
    <2>2. ASSUME NEW s \in Sessions, Replayed(s, q.handle, q.client, q.at),
                 SetRevoked(s, q.at)
          PROVE  ClosedNext(r)
      <3>1. Present(s) /\ FamilyOf(q.handle) = s
        BY <1>0, <2>1, <2>2
           DEF Replayed, HistoryIsComplete, IInv, TypeOK, RequestsKnowTheirFamily, Rejecting
      <3>2. QED BY <2>2, <3>1, RevokedIsClosed
    <2>3. QED
      BY <1>11, <2>1, <2>2, RejectAdvances, NotReplayedIsClosed DEF ReplayRevoke, Moved
  <1>12. CASE StoreFails(r)
    BY <1>12, FinishAdvances DEF StoreFails, Moved, Answers, RunningPcs
  <1>13. QED
    BY <1>1, <1>3, <1>4, <1>5, <1>6, <1>7, <1>8, <1>9, <1>10, <1>11, <1>12
       DEF RequestStep

LEMMA RequestsStep ==
    ASSUME IInv, [Next]_vars, NEW r \in Requests
    PROVE  Same(r) \/ Moved(r)
  <1>0. TypeOK
    BY DEF IInv
  <1>1. ASSUME NEW x \in Requests, NEW h \in minted, NEW c \in Clients, Start(x, h, c)
        PROVE  Same(r) \/ Moved(r)
    <2> DEFINE q == [requests[x] EXCEPT !.pc = "lookup", !.at = clock,
                                        !.client = c, !.handle = h]
    <2>1. WellTyped(q)
      BY <1>0, StartTyped DEF TypeOK
    <2>2. Moves(x, q) /\ StoreUnchanged /\ requests[x].pc = "unsent"
      BY <1>1 DEF Start, Moves, At
    <2>3. requests'[x] = q /\ \A y \in Requests \ {x} : Same(y)
      BY <1>0, <2>1, <2>2, MovesType DEF Same
    <2>4. /\ q.pc = "lookup" /\ q.handle = h /\ q.client = c
          /\ q.answer = requests[x].answer /\ q.at = clock
      BY <1>0 DEF TypeOK, Request
    <2>5. Started(x)
      BY <2>2, <2>3, <2>4 DEF Started
    <2>6. QED BY <2>3, <2>5 DEF Moved
  <1>2. ASSUME NEW x \in Requests, RequestStep(x)
        PROVE  Same(r) \/ Moved(r)
    BY <1>2, StepAdvances
  <1>3. CASE Restart
    <2>1. CASE requests[r].pc \in RunningPcs
      <3>1. requests'[r] = [requests[r] EXCEPT !.pc = "done", !.answer = "lost",
                               !.rotations = 0, !.user = None, !.token = None]
        BY <1>3, <2>1 DEF Restart
      <3>2. /\ requests'[r].pc = "done" /\ requests'[r].answer = "lost"
            /\ requests'[r].session = requests[r].session /\ Carried(r)
        BY <1>0, <3>1 DEF TypeOK, Request, Carried
      <3>3. ~ Rotating(r, requests[r].session)
        BY <1>3, <2>1, Unrotated DEF Restart
      <3>4. QED
        BY <2>1, <3>2, <3>3
           DEF Moved, Advanced, RunningPcs, StorePcs, HasSnapshot, Rejecting
    <2>2. CASE requests[r].pc \notin RunningPcs
      BY <1>3, <2>2 DEF Restart, Same
    <2>3. QED BY <2>1, <2>2
  <1>4. QED
    BY <1>1, <1>2, <1>3 DEF Next, IssueSession, OtherWriter, Tick, vars, Same

-----------------------------------------------------------------------------
(* The families of minted handles never change *)

NextFamilyOf(h) == IF h \in Sessions THEN h ELSE requests'[h].session

LEMMA FamilyFrame ==
    ASSUME IInv, [Next]_vars, NEW h \in minted
    PROVE  NextFamilyOf(h) = FamilyOf(h) /\ FamilyOf(h) \in minted /\ FamilyOf(h) \in Sessions
  <1>1. CASE h \in Sessions
    BY <1>1 DEF FamilyOf, NextFamilyOf
  <1>2. CASE h \notin Sessions
    <2>1. h \in Requests
      BY <1>2 DEF IInv, TypeOK, Handles
    <2>2. requests[h].answer = "token" /\ requests[h].pc \notin RunningPcs
      BY <2>1 DEF IInv, MintedByRotation, RequestsKnowTheirFamily
    <2>3. requests[h].pc # "unsent" /\ requests[h].pc # "lookup"
      BY <2>1, <2>2 DEF IInv, RequestsKnowTheirFamily, RunningPcs, StorePcs
    <2>4. Same(h)
      BY <2>1, <2>2, <2>3, RequestsStep DEF Moved, Started, Snapped, Advanced
    <2>5. QED
      BY <1>2, <2>1, <2>4 DEF Same, FamilyOf, NextFamilyOf, IInv, MintedByRotation
  <1>3. QED BY <1>1, <1>2

LEMMA MintedGrows ==
    ASSUME IInv, [Next]_vars
    PROVE  minted \subseteq minted'
  BY StoreStep DEF IInv, Fading, Issuing, Rotating

-----------------------------------------------------------------------------
(* Each part of the inductive invariant is preserved *)

\* RequestsKnowTheirFamily' for one request
KnowsItsFamilyNext(r) ==
    /\ requests'[r].pc # "unsent" =>
          requests'[r].handle \in minted' /\ requests'[r].client \in Clients
    /\ requests'[r].pc = "unsent" =>
          requests'[r].answer = "none" /\ requests'[r].handle = None
    /\ requests'[r].pc \in HasSnapshot =>
          /\ requests'[r].session \in minted'
          /\ requests'[r].session = NextFamilyOf(requests'[r].handle)
    /\ requests'[r].pc = "rotate" => requests'[r].token = requests'[r].user
    /\ requests'[r].pc \in RunningPcs => requests'[r].answer = "none"

LEMMA FamilyStep ==
    ASSUME IInv, [Next]_vars
    PROVE  RequestsKnowTheirFamily'
  <1> SUFFICES ASSUME NEW r \in Requests
               PROVE  KnowsItsFamilyNext(r)
    BY DEF RequestsKnowTheirFamily, KnowsItsFamilyNext, FamilyOf, NextFamilyOf
  <1>2. minted \subseteq minted'
    BY MintedGrows
  <1>3. CASE Same(r)
    <2>1. requests[r].pc \in HasSnapshot => requests[r].handle \in minted
      BY DEF IInv, RequestsKnowTheirFamily, HasSnapshot
    <2>2. QED
      BY <1>2, <1>3, <2>1, FamilyFrame DEF KnowsItsFamilyNext, Same, IInv, RequestsKnowTheirFamily
  <1>4. CASE Started(r)
    BY <1>2, <1>4 DEF KnowsItsFamilyNext, Started, HasSnapshot, IInv, RequestsKnowTheirFamily
  <1>5. ASSUME NEW s \in Sessions, Snapped(r, s)
        PROVE  KnowsItsFamilyNext(r)
    <2>1. /\ requests'[r].pc \in {"entra", "revoke"}
          /\ requests'[r].handle = requests[r].handle
          /\ requests'[r].client = requests[r].client
          /\ requests'[r].answer = requests[r].answer
          /\ requests'[r].session = s
          /\ requests[r].pc = "lookup"
      BY <1>5 DEF Snapped, Carried
    <2>2. requests[r].handle \in minted /\ requests[r].client \in Clients
          /\ requests[r].answer = "none"
      BY <2>1 DEF IInv, RequestsKnowTheirFamily, RunningPcs, StorePcs
    <2>3. FamilyOf(requests[r].handle) = s
      BY <1>5 DEF Snapped, Usable, IInv, RowsHoldMinted
    <2>4. NextFamilyOf(requests'[r].handle) = s /\ s \in minted
      BY <2>1, <2>2, <2>3, FamilyFrame
    <2>5. QED BY <1>2, <2>1, <2>2, <2>4 DEF KnowsItsFamilyNext
  <1>6. CASE Advanced(r)
    <2>1. /\ requests[r].pc # "unsent" /\ requests'[r].pc # "unsent"
          /\ requests'[r].handle = requests[r].handle
          /\ requests'[r].client = requests[r].client
          /\ requests'[r].session = requests[r].session
          /\ requests'[r].pc \in HasSnapshot => requests[r].pc \in HasSnapshot
          /\ requests'[r].pc = "rotate" => requests'[r].token = requests'[r].user
          /\ requests'[r].pc \in RunningPcs => requests'[r].answer = "none"
      BY <1>6 DEF Advanced, Carried, RunningPcs, StorePcs
    <2>2. QED
      BY <1>2, <2>1, FamilyFrame DEF KnowsItsFamilyNext, IInv, RequestsKnowTheirFamily
  <1>7. QED BY <1>3, <1>4, <1>5, <1>6, RequestsStep DEF Moved

\* A row that survives without a new handle changes in revoked_at only.
Faded(s) ==
    /\ Present(s)
    /\ sessions'[s].client = sessions[s].client
    /\ sessions'[s].user = sessions[s].user
    /\ sessions'[s].deployment = sessions[s].deployment
    /\ sessions'[s].handle = sessions[s].handle
    /\ sessions'[s].seal = sessions[s].seal
    /\ sessions'[s].cacheUser = sessions[s].cacheUser
    /\ sessions'[s].expiresAt = sessions[s].expiresAt
    /\ sessions'[s].rotations = sessions[s].rotations
    /\ \/ sessions'[s].revokedAt = sessions[s].revokedAt
       \/ sessions[s].revokedAt = NotRevoked /\ sessions'[s].revokedAt # NotRevoked

LEMMA FadedRow ==
    ASSUME TypeOK, NEW s \in Sessions, Kept(s) \/ Deleted(s) \/ MarkedRevoked(s),
           sessions'[s] # None
    PROVE  Faded(s)
  <1>1. CASE Kept(s)
    BY <1>1 DEF Kept, Faded, Present
  <1>2. CASE MarkedRevoked(s)
    <2>1. PICK at \in Nat : sessions'[s] = [sessions[s] EXCEPT !.revokedAt = at]
      BY <1>2 DEF MarkedRevoked
    <2>2. sessions[s] \in SessionRow
      BY <1>2 DEF MarkedRevoked, Present, TypeOK
    <2>3. at # NotRevoked
      BY DEF NotRevoked
    <2>4. QED
      BY <1>2, <2>1, <2>2, <2>3 DEF Faded, MarkedRevoked, SessionRow
  <1>3. QED BY <1>1, <1>2 DEF Deleted

\* Whoever rotates still sees its snapshot, and mints a handle nobody has.
LEMMA RotatingFacts ==
    ASSUME IInv, NEW r \in Requests, NEW s \in Sessions, Rotating(r, s)
    PROVE  /\ requests[r].pc = "rotate" /\ s = requests[r].session
           /\ s \in minted /\ r \notin minted /\ requests[r].handle \in minted
           /\ FamilyOf(requests[r].handle) = s
           /\ Usable(s, requests[r].handle, requests[r].client, requests[r].at)
           /\ sessions'[s] # None
           /\ sessions'[s].client = sessions[s].client
           /\ sessions'[s].user = sessions[s].user
           /\ sessions'[s].handle = r
           /\ sessions'[s].seal = ContextOf(s, r, sessions[s].rotations + 1)
           /\ sessions'[s].cacheUser = sessions[s].user
           /\ sessions'[s].rotations = sessions[s].rotations + 1
           /\ sessions'[s].expiresAt = sessions[s].expiresAt
           /\ sessions'[s].revokedAt = sessions[s].revokedAt
           /\ minted' = minted \cup {r}
           /\ Cascades(history \cup {[handle |-> requests[r].handle, session |-> s]})
  <1> DEFINE q == requests[r]
             row == [sessions[s] EXCEPT !.handle = r, !.seal = NewSeal(r),
                                        !.cacheUser = q.token, !.rotations = @ + 1]
  <1>1. /\ q.pc = "rotate" /\ s = q.session /\ sessions'[s] = row
        /\ Usable(s, q.handle, q.client, q.at)
        /\ minted' = minted \cup {r}
        /\ Cascades(history \cup {[handle |-> q.handle, session |-> s]})
    BY DEF Rotating
  <1>2. sessions[s] \in SessionRow /\ q.token \in Users /\ q.rotations \in Nat
    BY <1>1, RequestFacts DEF Usable, Present, IInv, TypeOK, Assigned
  <1>3. /\ s \in minted /\ r \notin minted /\ q.handle \in minted
        /\ FamilyOf(q.handle) = s /\ q.token = q.user
    BY <1>1 DEF IInv, MintedByRotation, RequestsKnowTheirFamily, HasSnapshot,
                RunningPcs, StorePcs
  <1>4. sessions[s].rotations = q.rotations /\ sessions[s].user = q.user
    BY <1>1 DEF IInv, SnapshotsAreCurrent, HasSnapshot, Usable
  <1>5. NewSeal(r) = ContextOf(s, r, sessions[s].rotations + 1)
    BY <1>1, <1>4 DEF NewSeal
  <1>6. row \in SessionRow
    <2>1. NewSeal(r) \in Context
      BY <1>1, <1>2 DEF NewSeal, ContextOf, Context, Handles
    <2>2. QED BY <1>2, <2>1, RotatedRow DEF Handles
  <1>7. /\ row.client = sessions[s].client /\ row.user = sessions[s].user
        /\ row.handle = r /\ row.seal = NewSeal(r) /\ row.cacheUser = q.token
        /\ row.rotations = sessions[s].rotations + 1
        /\ row.expiresAt = sessions[s].expiresAt
        /\ row.revokedAt = sessions[s].revokedAt
    BY <1>2 DEF SessionRow
  <1>8. row # None
    BY <1>6, RowFacts
  <1> HIDE DEF row
  <1>9. QED BY <1>1, <1>3, <1>4, <1>5, <1>7, <1>8

LEMMA RotatingKeeps ==
    ASSUME IInv, NEW r \in Requests, NEW s \in Sessions, Rotating(r, s)
    PROVE  /\ sessions'[s].client = sessions[s].client
           /\ sessions'[s].expiresAt = sessions[s].expiresAt
           /\ sessions'[s].revokedAt = sessions[s].revokedAt
  <1>1. sessions[s] \in SessionRow
    BY DEF Rotating, Usable, Present, IInv, TypeOK
  <1>2. sessions'[s] = [sessions[s] EXCEPT !.handle = r, !.seal = NewSeal(r),
                            !.cacheUser = requests[r].token, !.rotations = @ + 1]
    BY DEF Rotating
  <1>3. QED BY <1>1, <1>2 DEF SessionRow

LEMMA RotatingMints ==
    ASSUME IInv, NEW r \in Requests, NEW s \in Sessions, Rotating(r, s)
    PROVE  /\ s \in minted /\ r \notin minted /\ minted' = minted \cup {r}
           /\ s = requests[r].session
           /\ requests[r].handle \in minted /\ FamilyOf(requests[r].handle) = s
           /\ sessions'[s] # None /\ sessions'[s].handle = r
  <1>1. /\ s \in minted /\ r \notin minted
        /\ requests[r].handle \in minted /\ FamilyOf(requests[r].handle) = s
    BY DEF Rotating, IInv, MintedByRotation, RequestsKnowTheirFamily, HasSnapshot,
           RunningPcs, StorePcs
  <1>2. sessions'[s] # None
    BY RotatingFacts
  <1>3. sessions'[s].handle = r
    BY RotatingFacts
  <1>4. s = requests[r].session /\ minted' = minted \cup {r}
    BY DEF Rotating
  <1>5. QED BY <1>1, <1>2, <1>3, <1>4

\* How one row got to where it is after a step.
LEMMA RowsStep ==
    ASSUME IInv, [Next]_vars, NEW s \in Sessions, sessions'[s] # None
    PROVE  Faded(s) \/ Issuing(s) \/ \E r \in Requests : Rotating(r, s)
  <1>1. CASE Fading
    BY <1>1, FadedRow DEF Fading, OnlyFade, IInv
  <1>2. ASSUME NEW t \in Sessions, Issuing(t)
        PROVE  Faded(s) \/ Issuing(s)
    BY <1>2, FadedRow DEF Issuing, OnlyFade, IInv
  <1>3. ASSUME NEW r \in Requests, Rotating(r, requests[r].session)
        PROVE  Faded(s) \/ Rotating(r, s)
    BY <1>3, FadedRow DEF Rotating, OnlyFade, IInv
  <1>4. QED BY <1>1, <1>2, <1>3, StoreStep DEF IInv

\* How a handle got minted.
LEMMA MintStep ==
    ASSUME IInv, [Next]_vars, NEW h \in Handles, h \in minted'
    PROVE  \/ h \in minted
           \/ h \in Sessions /\ Issuing(h)
           \/ h \in Requests /\ Rotating(h, requests[h].session)
  BY StoreStep DEF IInv, Fading, Issuing, Rotating

\* A request that minted its handle is at rest.
LEMMA MintedRests ==
    ASSUME IInv, [Next]_vars, NEW r \in Requests, r \in minted
    PROVE  Same(r) /\ requests[r].pc \notin RunningPcs /\ requests[r].pc # "unsent"
  <1>1. requests[r].answer = "token"
    BY DEF IInv, MintedByRotation
  <1>2. requests[r].pc \notin RunningPcs /\ requests[r].pc # "unsent"
    BY <1>1 DEF IInv, RequestsKnowTheirFamily
  <1>3. QED
    BY <1>2, RequestsStep DEF Moved, Started, Snapped, Advanced, RunningPcs, StorePcs

LEMMA RotatingFinishes ==
    ASSUME IInv, NEW r \in Requests, NEW s \in Sessions, Rotating(r, s)
    PROVE  /\ requests'[r].pc = "done" /\ requests'[r].answer = "token"
           /\ requests'[r].handle = requests[r].handle
           /\ requests'[r].session = requests[r].session
           /\ \A x \in Requests \ {r} : Same(x)
  BY FinishMoves, MovesType DEF Rotating, IInv, Answers, Same

LEMMA MintedStep ==
    ASSUME IInv, [Next]_vars
    PROVE  MintedByRotation'
  <1> DEFINE Minting(r) ==
        LET s == requests'[r].session
        IN  /\ s \in Sessions /\ s \in minted'
            /\ s = NextFamilyOf(requests'[r].handle)
            /\ sessions'[s] # None => sessions'[s].handle # requests'[r].handle
  <1> SUFFICES ASSUME NEW r \in Requests
               PROVE  /\ r \in minted' <=> requests'[r].answer = "token"
                      /\ r \in minted' => Minting(r)
    BY DEF MintedByRotation, FamilyOf, NextFamilyOf, Present
  <1>1. CASE r \in minted
    <2> DEFINE s == requests[r].session
    <2>1. Same(r) /\ r \in minted' /\ requests[r].answer = "token"
      BY <1>1, MintedRests, MintedGrows DEF IInv, MintedByRotation
    <2>2. /\ s \in Sessions /\ s \in minted /\ s = FamilyOf(requests[r].handle)
          /\ Present(s) => sessions[s].handle # requests[r].handle
          /\ requests[r].handle \in minted
      BY <1>1, MintedRests DEF IInv, MintedByRotation, RequestsKnowTheirFamily
    <2>3. s \in minted' /\ s = NextFamilyOf(requests[r].handle)
      BY <2>2, FamilyFrame, MintedGrows
    <2>4. sessions'[s] # None => sessions'[s].handle # requests[r].handle
      <3>1. CASE Faded(s)
        BY <2>2, <3>1 DEF Faded
      <3>2. CASE Issuing(s)
        BY <2>2, <3>2 DEF Issuing
      <3>3. ASSUME NEW x \in Requests, Rotating(x, s)
            PROVE  sessions'[s].handle # requests[r].handle
        <4>1. s \in Sessions
          BY <2>2
        <4>2. sessions'[s].handle = x /\ x \notin minted
          BY <3>3, <4>1, RotatingFacts
        <4>3. QED BY <2>2, <4>2
      <3>4. QED BY <2>2, <3>1, <3>2, <3>3, RowsStep
    <2>5. QED BY <2>1, <2>2, <2>3, <2>4 DEF Same
  <1>2. CASE r \notin minted /\ r \in minted'
    <2> DEFINE s == requests[r].session
    <2>1. Rotating(r, s) /\ s \in Sessions
      BY <1>2, MintStep, NamesAssumption DEF Handles, Rotating
    <2>2. /\ requests'[r].answer = "token" /\ requests'[r].session = s
          /\ requests'[r].handle = requests[r].handle
      BY <2>1, RotatingFinishes
    <2>3. /\ s \in minted /\ FamilyOf(requests[r].handle) = s
          /\ requests[r].handle \in minted /\ sessions'[s].handle = r
      BY <2>1, RotatingFacts
    <2>4. NextFamilyOf(requests[r].handle) = s /\ s \in minted'
      BY <2>3, FamilyFrame, MintedGrows
    <2>5. QED BY <1>2, <2>1, <2>2, <2>3, <2>4
  <1>3. CASE r \notin minted'
    <2>1. r \notin minted /\ requests[r].answer # "token"
      BY <1>3, MintedGrows DEF IInv, MintedByRotation
    <2>2. ~ Rotating(r, requests[r].session)
      BY <1>3 DEF Rotating
    <2>3. QED
      BY <1>3, <2>1, <2>2, RequestsStep DEF Same, Moved, Started, Snapped, Advanced
  <1>4. QED BY <1>1, <1>2, <1>3

LEMMA RowsHoldStep ==
    ASSUME IInv, [Next]_vars
    PROVE  RowsHoldMinted'
  <1> SUFFICES ASSUME NEW s \in Sessions, sessions'[s] # None
               PROVE  /\ s \in minted' /\ sessions'[s].handle \in minted'
                      /\ NextFamilyOf(sessions'[s].handle) = s
    BY DEF RowsHoldMinted, FamilyOf, NextFamilyOf, Present
  <1>1. CASE Faded(s)
    BY <1>1, MintedGrows, FamilyFrame DEF Faded, IInv, RowsHoldMinted
  <1>2. CASE Issuing(s)
    BY <1>2 DEF Issuing, NextFamilyOf
  <1>3. ASSUME NEW r \in Requests, Rotating(r, s)
        PROVE  /\ s \in minted' /\ sessions'[s].handle \in minted'
               /\ NextFamilyOf(sessions'[s].handle) = s
    <2>1. s \in minted /\ s = requests[r].session /\ sessions'[s].handle = r
          /\ minted' = minted \cup {r}
      BY <1>3, RotatingMints
    <2>2. requests'[r].session = requests[r].session
      BY <1>3, RotatingFinishes
    <2>3. NextFamilyOf(r) = requests'[r].session
      BY NamesAssumption DEF NextFamilyOf
    <2>4. QED BY <2>1, <2>2, <2>3
  <1>4. QED BY <1>1, <1>2, <1>3, RowsStep

LEMMA SnapshotsStep ==
    ASSUME IInv, [Next]_vars
    PROVE  SnapshotsAreCurrent'
  <1> SUFFICES ASSUME NEW r \in Requests, requests'[r].pc \in HasSnapshot,
                      sessions'[requests'[r].session] # None
               PROVE  LET s == requests'[r].session
                      IN  /\ sessions'[s].user = requests'[r].user
                          /\ sessions'[s].handle = requests'[r].handle =>
                                sessions'[s].rotations = requests'[r].rotations
    BY DEF SnapshotsAreCurrent, Present
  <1> DEFINE s == requests'[r].session
  <1>1. CASE \E t \in Sessions : Snapped(r, t)
    BY <1>1 DEF Snapped, StoreUnchanged, Carried
  <1>2. CASE Same(r) \/ Advanced(r)
    <2>1. /\ requests[r].pc \in HasSnapshot /\ s = requests[r].session
          /\ requests'[r].user = requests[r].user
          /\ requests'[r].rotations = requests[r].rotations
          /\ requests'[r].handle = requests[r].handle
      BY <1>2 DEF Same, Advanced, Carried
    <2>2. /\ s \in Sessions /\ s \in minted /\ requests[r].handle \in minted
      BY <2>1 DEF IInv, RequestsKnowTheirFamily, TypeOK, Assigned, HasSnapshot
    <2> HIDE DEF s
    <2>3. ASSUME Faded(s)
          PROVE  /\ sessions'[s].user = requests[r].user
                 /\ sessions'[s].handle = requests[r].handle =>
                       sessions'[s].rotations = requests[r].rotations
      BY <2>1, <2>3 DEF Faded, IInv, SnapshotsAreCurrent
    <2>4. ASSUME NEW x \in Requests, Rotating(x, s)
          PROVE  /\ sessions'[s].user = requests[r].user
                 /\ sessions'[s].handle # requests[r].handle
      <3>1. /\ sessions'[s].user = sessions[s].user /\ sessions'[s].handle = x
            /\ x \notin minted /\ Present(s)
        BY <2>2, <2>4, RotatingFacts DEF Usable
      <3>2. QED BY <2>1, <2>2, <3>1 DEF IInv, SnapshotsAreCurrent
    <2>5. ~ Issuing(s)
      BY <2>2 DEF Issuing
    <2>6. sessions'[s] # None
      BY DEF s
    <2>7. QED BY <2>1, <2>2, <2>3, <2>4, <2>5, <2>6, RowsStep DEF s
  <1>3. ~ Started(r)
    BY DEF Started, HasSnapshot
  <1>4. QED BY <1>1, <1>2, <1>3, RequestsStep DEF Moved

LEMMA SealStep ==
    ASSUME IInv, [Next]_vars
    PROVE  SealMatchesRow'
  <1> SUFFICES ASSUME NEW s \in Sessions, sessions'[s] # None
               PROVE  sessions'[s].seal =
                        ContextOf(s, sessions'[s].handle, sessions'[s].rotations)
    BY DEF SealMatchesRow, Opens, ContextOf, Present
  <1>1. CASE Faded(s)
    BY <1>1 DEF Faded, IInv, SealMatchesRow, Opens
  <1>2. CASE Issuing(s)
    BY <1>2 DEF Issuing
  <1>3. ASSUME NEW r \in Requests, Rotating(r, s)
        PROVE  sessions'[s].seal =
                 ContextOf(s, sessions'[s].handle, sessions'[s].rotations)
    <2>1. /\ sessions'[s].handle = r
          /\ sessions'[s].seal = ContextOf(s, r, sessions[s].rotations + 1)
          /\ sessions'[s].rotations = sessions[s].rotations + 1
      BY <1>3, RotatingFacts
    <2>2. QED BY <2>1
  <1>4. QED BY <1>1, <1>2, <1>3, RowsStep

LEMMA CacheStep ==
    ASSUME IInv, [Next]_vars
    PROVE  CacheOfOwner'
  <1> SUFFICES ASSUME NEW s \in Sessions, sessions'[s] # None
               PROVE  sessions'[s].cacheUser = sessions'[s].user
    BY DEF CacheOfOwner, Present
  <1>1. CASE Faded(s)
    BY <1>1 DEF Faded, IInv, CacheOfOwner
  <1>2. CASE Issuing(s)
    BY <1>2 DEF Issuing
  <1>3. ASSUME NEW r \in Requests, Rotating(r, s)
        PROVE  sessions'[s].cacheUser = sessions'[s].user
    <2>1. sessions'[s].cacheUser = sessions[s].user
      BY <1>3, RotatingFacts
    <2>2. sessions'[s].user = sessions[s].user
      BY <1>3, RotatingFacts
    <2>3. QED BY <2>1, <2>2
  <1>4. QED BY <1>1, <1>2, <1>3, RowsStep

LEMMA HistoryStep ==
    ASSUME IInv, [Next]_vars
    PROVE  HistoryIsComplete'
  <1>1. \A e \in history' : sessions'[e.session] # None
    BY StoreStep DEF IInv, Fading, Issuing, Rotating, Cascades
  <1>2. ASSUME NEW s \in Sessions, NEW h \in Handles, sessions'[s] # None
        PROVE  [handle |-> h, session |-> s] \in history'
                 <=> h \in minted' /\ NextFamilyOf(h) = s /\ h # sessions'[s].handle
    <2> DEFINE e == [handle |-> h, session |-> s]
    <2>1. CASE Faded(s)
      <3>1. Present(s) /\ sessions'[s].handle = sessions[s].handle
            /\ s \in minted /\ sessions[s].handle \in minted
        BY <2>1 DEF Faded, IInv, RowsHoldMinted
      <3>2. ASSUME NEW x \in Requests, Rotating(x, s)
            PROVE  FALSE
        <4>1. sessions'[s].handle = x /\ x \notin minted
          BY <3>2, RotatingFacts
        <4>2. QED BY <3>1, <4>1
      <3>3. e \in history' <=> e \in history
        <4>1. CASE Cascades(history)
          BY <1>2, <4>1 DEF Cascades
        <4>2. ASSUME NEW x \in Requests, Rotating(x, requests[x].session)
              PROVE  e \in history' <=> e \in history
          <5>1. requests[x].session # s
            BY <3>2, <4>2
          <5>2. QED BY <1>2, <4>2, <5>1 DEF Cascades, Rotating
        <4>3. QED BY <4>1, <4>2, StoreStep DEF IInv, Fading, Issuing
      <3>4. e \in history <=> h \in minted /\ FamilyOf(h) = s /\ h # sessions[s].handle
        BY <3>1 DEF IInv, HistoryIsComplete
      <3>5. h \in minted => NextFamilyOf(h) = FamilyOf(h) /\ h \in minted'
        BY FamilyFrame, MintedGrows
      <3>6. ASSUME h \in minted', h \notin minted, NextFamilyOf(h) = s
            PROVE  h = sessions'[s].handle
        <4>1. CASE h \in Sessions /\ Issuing(h)
          BY <3>1, <3>6, <4>1 DEF NextFamilyOf, Issuing
        <4>2. CASE h \in Requests /\ Rotating(h, requests[h].session)
          <5>1. h \notin Sessions /\ requests[h].session \in Sessions
            BY <4>2, NamesAssumption DEF Rotating
          <5>2. s = requests[h].session
            BY <3>6, <4>2, <5>1, RotatingFinishes DEF NextFamilyOf
          <5>3. QED BY <3>2, <4>2, <5>2
        <4>3. QED BY <3>6, <4>1, <4>2, MintStep
      <3>7. QED BY <3>1, <3>3, <3>4, <3>5, <3>6
    <2>2. CASE Issuing(s)
      <3>1. s \notin minted /\ minted' = minted \cup {s} /\ Cascades(history)
            /\ sessions'[s].handle = s
        BY <2>2 DEF Issuing
      <3>2. e \notin history
        BY <3>1 DEF IInv, HistoryIsComplete, RowsHoldMinted
      <3>3. h \in minted => NextFamilyOf(h) # s
        BY <3>1, FamilyFrame
      <3>4. QED BY <3>1, <3>2, <3>3 DEF Cascades
    <2>3. ASSUME NEW r \in Requests, Rotating(r, s)
          PROVE  e \in history'
                   <=> h \in minted' /\ NextFamilyOf(h) = s /\ h # sessions'[s].handle
      <3> DEFINE old == requests[r].handle
      <3>1. /\ minted' = minted \cup {r} /\ r \notin minted /\ sessions'[s].handle = r
            /\ old \in minted /\ FamilyOf(old) = s
            /\ Cascades(history \cup {[handle |-> old, session |-> s]})
            /\ Present(s) /\ sessions[s].handle = old
        <4>1. old \in minted /\ FamilyOf(old) = s
          BY <2>3, RotatingMints
        <4>2. /\ Cascades(history \cup {[handle |-> old, session |-> s]})
              /\ Present(s) /\ sessions[s].handle = old
          BY <2>3 DEF Rotating, Usable
        <4>3. QED BY <2>3, <4>1, <4>2, RotatingMints
      <3>2. e \in history' <=> e \in history \/ h = old
        BY <1>2, <3>1 DEF Cascades
      <3>3. e \in history <=> h \in minted /\ FamilyOf(h) = s /\ h # old
        BY <3>1 DEF IInv, HistoryIsComplete
      <3>4. h \in minted => NextFamilyOf(h) = FamilyOf(h)
        BY FamilyFrame
      <3>5. QED BY <3>1, <3>2, <3>3, <3>4
    <2>4. QED BY <1>2, <2>1, <2>2, <2>3, RowsStep
  <1>3. QED
    BY <1>1, <1>2 DEF HistoryIsComplete, FamilyOf, NextFamilyOf, Present

LEMMA RejectingStep ==
    ASSUME IInv, [Next]_vars
    PROVE  RejectingHandlesAreSpent'
  <1> SUFFICES ASSUME NEW r \in Requests, NEW s \in Sessions,
                      requests'[r].pc \in Rejecting, LiveNext(s, requests'[r].at),
                      sessions'[s].client = requests'[r].client
               PROVE  sessions'[s].handle # requests'[r].handle
    BY DEF RejectingHandlesAreSpent, Live, LiveNext, Present
  <1>1. CASE Same(r)
    <2>1. requests[r].pc \in Rejecting /\ requests[r].handle \in minted
      BY <1>1 DEF Same, IInv, RequestsKnowTheirFamily, Rejecting
    <2>2. CASE Faded(s)
      <3>1. Live(s, requests[r].at) /\ sessions[s].client = requests[r].client
        BY <1>1, <2>2 DEF Same, Faded, Live, LiveNext
      <3>2. sessions[s].handle # requests[r].handle
        BY <2>1, <3>1 DEF IInv, RejectingHandlesAreSpent
      <3>3. QED BY <1>1, <2>2, <3>2 DEF Same, Faded
    <2>3. CASE Issuing(s)
      BY <1>1, <2>1, <2>3 DEF Same, Issuing
    <2>4. ASSUME NEW x \in Requests, Rotating(x, s)
          PROVE  sessions'[s].handle # requests'[r].handle
      <3>1. sessions'[s].handle = x /\ x \notin minted
        BY <2>4, RotatingFacts
      <3>2. QED BY <1>1, <2>1, <3>1 DEF Same
    <2>5. QED BY <2>2, <2>3, <2>4, RowsStep DEF LiveNext
  <1>2. CASE Advanced(r)
    <2>1. Carried(r) /\ sessions' = sessions /\ (requests[r].pc \in Rejecting \/ Spoiled(r))
      BY <1>2 DEF Advanced
    <2>2. Live(s, requests[r].at) /\ sessions[s].client = requests[r].client
      BY <2>1 DEF Carried, Live, LiveNext, Present
    <2>3. sessions[s].handle # requests[r].handle
      BY <2>1, <2>2 DEF IInv, RejectingHandlesAreSpent, Spoiled
    <2>4. QED BY <2>1, <2>3 DEF Carried
  <1>3. QED
    BY <1>1, <1>2, RequestsStep DEF Moved, Started, Snapped, Rejecting

LEMMA RejectionStep ==
    ASSUME IInv, [Next]_vars
    PROVE  RejectionClosesFamily'
  <1> SUFFICES ASSUME NEW r \in Requests, NEW s \in Sessions,
                      requests'[r].answer = "invalid_grant",
                      NextFamilyOf(requests'[r].handle) = s,
                      LiveNext(s, requests'[r].at),
                      sessions'[s].client = requests'[r].client
               PROVE  FALSE
    BY DEF RejectionClosesFamily, FamilyOf, NextFamilyOf, Live, LiveNext, Present
  <1>1. CASE Same(r)
    <2>1. requests[r].answer = "invalid_grant" /\ requests[r].handle \in minted
      BY <1>1 DEF Same, IInv, RequestsKnowTheirFamily
    <2>2. FamilyOf(requests[r].handle) = s /\ s \in minted
      BY <1>1, <2>1, FamilyFrame DEF Same
    <2>3. ~ Live(s, requests[r].at) \/ sessions[s].client # requests[r].client
      BY <2>1, <2>2 DEF IInv, RejectionClosesFamily
    <2>4. CASE Faded(s)
      BY <1>1, <2>3, <2>4 DEF Same, Faded, Live, LiveNext
    <2>5. CASE Issuing(s)
      BY <2>2, <2>5 DEF Issuing
    <2>6. ASSUME NEW x \in Requests, Rotating(x, s)
          PROVE  FALSE
      <3>1. /\ Present(s) /\ sessions'[s].client = sessions[s].client
            /\ sessions'[s].expiresAt = sessions[s].expiresAt
            /\ sessions'[s].revokedAt = sessions[s].revokedAt
        <4>1. Present(s)
          BY <2>6 DEF Rotating, Usable
        <4>2. QED BY <2>6, <4>1, RotatingKeeps
      <3>2. QED BY <1>1, <2>3, <3>1 DEF Same, Live, LiveNext
    <2>7. QED BY <2>4, <2>5, <2>6, RowsStep DEF LiveNext
  <1>2. CASE Advanced(r)
    <2>1. Carried(r) /\ ClosedNext(r) /\ requests[r].handle \in minted
      BY <1>2 DEF Advanced, IInv, RequestsKnowTheirFamily, RunningPcs, StorePcs
    <2>2. FamilyOf(requests[r].handle) = s
      BY <2>1, FamilyFrame DEF Carried
    <2>3. QED BY <2>1, <2>2 DEF Carried, ClosedNext
  <1>3. CASE Started(r) \/ \E t \in Sessions : Snapped(r, t)
    BY <1>3 DEF Started, Snapped, IInv, RequestsKnowTheirFamily, RunningPcs, StorePcs
  <1>4. QED BY <1>1, <1>2, <1>3, RequestsStep DEF Moved

-----------------------------------------------------------------------------
(* The inductive invariant *)

LEMMA InvariantInit == Init => IInv
  <1> SUFFICES ASSUME Init PROVE IInv
    OBVIOUS
  <1>1. /\ \A s \in Sessions : ~ Present(s)
        /\ \A r \in Requests : requests[r] = Unsent
        /\ minted = {} /\ history = {}
    BY DEF Init, Present
  <1>2. QED
    BY <1>1, TypeInit
       DEF IInv, RequestsKnowTheirFamily, MintedByRotation, RowsHoldMinted,
           HistoryIsComplete, SnapshotsAreCurrent, SealMatchesRow, CacheOfOwner,
           RejectingHandlesAreSpent, RejectionClosesFamily, Unsent, HasSnapshot,
           RunningPcs, StorePcs, Rejecting

LEMMA InvariantStep == IInv /\ [Next]_vars => IInv'
  <1> SUFFICES ASSUME IInv, [Next]_vars PROVE IInv'
    OBVIOUS
  <1>1. TypeOK'
    BY TypeStep DEF IInv
  <1>2. QED
    BY <1>1, FamilyStep, MintedStep, RowsHoldStep, HistoryStep, SnapshotsStep, SealStep,
       CacheStep, RejectingStep, RejectionStep DEF IInv

(* The inductive invariant holds in every reachable state, for every number   *)
(* of sessions and concurrent refresh requests.                              *)
THEOREM Invariant == Spec => []IInv
  <1>1. QED BY InvariantInit, InvariantStep, PTL DEF Spec

(* The stored ciphertext always opens under the context of its row           *)
(* (NewSeal in refresh() against the UPDATE of rotate_refresh_session).       *)
THEOREM SealCorrect == Spec => []SealMatchesRow
  <1>1. IInv => SealMatchesRow
    BY DEF IInv
  <1>2. QED BY <1>1, Invariant, PTL

(* The history of a stored session knows exactly its spent handles.           *)
THEOREM HistoryCorrect == Spec => []HistoryIsComplete
  <1>1. IInv => HistoryIsComplete
    BY DEF IInv
  <1>2. QED BY <1>1, Invariant, PTL

(* A client answered invalid_grant for its own handle leaves no live family.  *)
THEOREM RejectionCorrect == Spec => []RejectionClosesFamily
  <1>1. IInv => RejectionClosesFamily
    BY DEF IInv
  <1>2. QED BY <1>1, Invariant, PTL

-----------------------------------------------------------------------------
(* Single use *)

LEMMA SingleUseStep ==
    ASSUME IInv, OneRotationPerHandle, [Next]_vars
    PROVE  OneRotationPerHandle'
  <1>0. ASSUME NEW r \in Requests, requests'[r].answer = "token"
        PROVE  \/ Same(r) /\ r \in minted
               \/ /\ Rotating(r, requests[r].session) /\ requests[r].session \in Sessions
                  /\ requests'[r].handle = requests[r].handle
    <2>1. r \in minted'
      BY <1>0, MintedStep DEF MintedByRotation
    <2>2. CASE r \in minted
      BY <2>2, MintedRests
    <2>3. CASE r \notin minted
      <3>1. Rotating(r, requests[r].session) /\ requests[r].session \in Sessions
        BY <2>1, <2>3, MintStep, NamesAssumption DEF Handles, Rotating
      <3>2. QED BY <3>1, RotatingFinishes
    <2>4. QED BY <2>2, <2>3
  <1>1. ASSUME NEW r \in Requests, NEW x \in Requests, x \in minted,
               Rotating(r, requests[r].session), requests[r].session \in Sessions
        PROVE  requests[x].handle # requests[r].handle
    <2> DEFINE s == requests[r].session
    <2>1. FamilyOf(requests[r].handle) = s /\ Present(s)
          /\ sessions[s].handle = requests[r].handle
      <3>1. Present(s) /\ sessions[s].handle = requests[r].handle
        BY <1>1 DEF Rotating, Usable
      <3>2. QED BY <1>1, <3>1, RotatingFacts
    <2>2. /\ requests[x].session = FamilyOf(requests[x].handle)
          /\ Present(requests[x].session) =>
                sessions[requests[x].session].handle # requests[x].handle
      BY <1>1 DEF IInv, MintedByRotation
    <2>3. QED BY <2>1, <2>2
  <1> SUFFICES ASSUME NEW r1 \in Requests, NEW r2 \in Requests,
                      requests'[r1].answer = "token", requests'[r2].answer = "token",
                      requests'[r1].handle = requests'[r2].handle
               PROVE  r1 = r2
    BY DEF OneRotationPerHandle
  <1>2. CASE Same(r1) /\ r1 \in minted /\ Same(r2) /\ r2 \in minted
    BY <1>2 DEF Same, OneRotationPerHandle
  <1>3. CASE Rotating(r1, requests[r1].session) /\ Rotating(r2, requests[r2].session)
    <2>1. requests[r1].session \in Sessions /\ requests[r2].session \in Sessions
      BY <1>3 DEF Rotating
    <2>2. r1 \notin minted /\ minted' = minted \cup {r1}
      BY <1>3, <2>1, RotatingMints
    <2>3. minted' = minted \cup {r2}
      BY <1>3, <2>1, RotatingMints
    <2>4. QED BY <2>2, <2>3
  <1>4. QED BY <1>0, <1>1, <1>2, <1>3 DEF Same

(* A handle is rotated at most once, for any number of concurrent requests,    *)
(* restarts and reclaiming writers.                                          *)
THEOREM SingleUse == Spec => []OneRotationPerHandle
  <1>1. Init => OneRotationPerHandle
    BY DEF Init, OneRotationPerHandle, Unsent
  <1>2. IInv /\ OneRotationPerHandle /\ [Next]_vars => OneRotationPerHandle'
    BY SingleUseStep
  <1>3. QED BY <1>1, <1>2, Invariant, PTL DEF Spec

-----------------------------------------------------------------------------
(* Revocation *)

(* No step rotates, re-dates or revives a revoked row, or brings a deleted    *)
(* session back.                                                             *)
THEOREM RevocationCorrect == Spec => RevocationIsFinal
  <1>1. ASSUME IInv, [Next]_vars, NEW s \in Sessions
        PROVE  /\ Present(s) /\ sessions[s].revokedAt # NotRevoked =>
                     sessions'[s] \in {sessions[s], None}
               /\ ~ Present(s) /\ s \in minted => sessions'[s] = None
    <2>1. CASE Kept(s) \/ Deleted(s) \/ MarkedRevoked(s)
      BY <2>1 DEF Kept, Deleted, MarkedRevoked, Present
    <2>2. CASE Issuing(s)
      BY <1>1, <2>2 DEF Issuing, IInv, RowsHoldMinted
    <2>3. ASSUME NEW r \in Requests, Rotating(r, s)
          PROVE  Present(s) /\ sessions[s].revokedAt = NotRevoked
      BY <2>3 DEF Rotating, Usable
    <2>4. \/ Kept(s) \/ Deleted(s) \/ MarkedRevoked(s)
          \/ Issuing(s)
          \/ \E r \in Requests : Rotating(r, s)
      <3>1. CASE Fading
        BY <3>1 DEF Fading, OnlyFade
      <3>2. ASSUME NEW t \in Sessions, Issuing(t)
            PROVE  Kept(s) \/ Deleted(s) \/ MarkedRevoked(s) \/ Issuing(s)
        BY <3>2 DEF Issuing, OnlyFade
      <3>3. ASSUME NEW r \in Requests, Rotating(r, requests[r].session)
            PROVE  Kept(s) \/ Deleted(s) \/ MarkedRevoked(s) \/ Rotating(r, s)
        BY <3>3 DEF Rotating, OnlyFade
      <3>4. QED BY <1>1, <3>1, <3>2, <3>3, StoreStep DEF IInv
    <2>5. QED BY <2>1, <2>2, <2>3, <2>4
  <1>2. IInv /\ [Next]_vars =>
          [\A s \in Sessions :
              /\ Present(s) /\ sessions[s].revokedAt # NotRevoked =>
                    sessions'[s] \in {sessions[s], None}
              /\ ~ Present(s) /\ s \in minted => sessions'[s] = None]_vars
    BY <1>1
  <1>3. QED BY <1>2, Invariant, PTL DEF Spec, RevocationIsFinal
-----------------------------------------------------------------------------
(* A working handle works until it is used *)

\* No request has read the clock in the future.
ReadingsArePast == \A r \in Requests : requests[r].at <= clock

\* the row of s is as usable as before
Untouched(s) == sessions'[s] = sessions[s]

UsedUp(s) ==
    \E r \in Requests :
        /\ requests[r].pc \in RunningPcs
        /\ requests[r].client = sessions[s].client
        /\ \/ /\ requests'[r].answer = "token"
              /\ requests[r].handle = sessions[s].handle
              /\ Live(s, clock)' /\ sessions'[s].handle = r
           \/ /\ requests'[r].answer = "invalid_grant"
              /\ FamilyOf(requests[r].handle) = s

LEMMA ClockAdvances ==
    ASSUME TypeOK, [Next]_vars
    PROVE  clock \in Nat /\ clock' \in Nat /\ clock <= clock'
  <1>1. ASSUME NEW r \in Requests, RequestStep(r)
        PROVE  clock' = clock
    <2>1. StoreUnchanged \/ Rotate(r) \/ Revoke(r) \/ ReplayRevoke(r)
      BY <1>1 DEF RequestStep, LookupMisses, LookupAccepts, LookupRefuses, LookupWrongScope,
                  EntraRefresh, Validate, RotateConflicts, ReplayFind, StoreFails
    <2>2. Rotate(r) => UNCHANGED clock
      BY DEF Rotate
    <2>3. QED BY <2>1, <2>2 DEF StoreUnchanged, Revoke, ReplayRevoke
  <1>2. ASSUME NEW r \in Requests, NEW h, NEW c, Start(r, h, c)
        PROVE  clock' = clock
    BY <1>2 DEF Start, StoreUnchanged
  <1>3. ASSUME NEW at, OtherWriter(at)
        PROVE  clock' = clock
    BY <1>3 DEF OtherWriter
  <1>4. ASSUME NEW s, NEW c, NEW u, NEW d, NEW at, IssueSession(s, c, u, d, at)
        PROVE  clock' = clock
    BY <1>4 DEF IssueSession
  <1>5. Restart \/ UNCHANGED vars => clock' = clock
    BY DEF Restart, vars
  <1>6. clock' = clock \/ clock' = clock + 1
    BY <1>1, <1>2, <1>3, <1>4, <1>5 DEF Next, Tick
  <1>7. QED BY <1>6 DEF TypeOK

LEMMA ReadingsStep ==
    ASSUME IInv, ReadingsArePast, [Next]_vars
    PROVE  ReadingsArePast'
  <1>1. TypeOK /\ TypeOK'
    BY TypeStep DEF IInv
  <1>2. clock \in Nat /\ clock' \in Nat /\ clock <= clock'
    BY <1>1, ClockAdvances DEF TypeOK
  <1>3. ASSUME NEW r \in Requests
        PROVE  requests'[r].at <= clock'
    <2>1. requests'[r].at = requests[r].at \/ requests'[r].at = clock
      BY RequestsStep DEF Same, Moved, Started, Snapped, Advanced, Carried
    <2>2. requests[r].at \in Nat /\ requests[r].at <= clock
      BY <1>1, RequestFacts DEF TypeOK, ReadingsArePast
    <2>3. QED BY <1>2, <2>1, <2>2
  <1>4. QED BY <1>3 DEF ReadingsArePast

\* No writer reclaims a row that is live at the clock.
LEMMA LiveRowsStay ==
    ASSUME TypeOK, NEW s \in Sessions, NEW now \in Nat, Live(s, now),
           NEW at \in Nat, at <= now,
           NEW table, table[s] = sessions[s], sessions'[s] = Reclaimed(table, at)[s]
    PROVE  Untouched(s)
  <1>1. sessions[s] # None /\ sessions[s].expiresAt \in Nat
    BY RowFacts DEF Live, Present, TypeOK
  <1>2. ~ Terminal(sessions[s], at)
    BY <1>1 DEF Live, Terminal
  <1>3. QED BY <1>1, <1>2 DEF Reclaimed, Untouched

LEMMA RevokingUsesUp ==
    ASSUME TypeOK, NEW s \in Sessions, NEW r \in Requests, NEW t \in Sessions, NEW at,
           SetRevoked(t, at), Finish(r, "invalid_grant"),
           requests[r].pc \in RunningPcs, requests[r].client = sessions[t].client,
           FamilyOf(requests[r].handle) = t
    PROVE  Untouched(s) \/ UsedUp(s)
  <1>1. CASE s = t
    <2>1. requests'[r].answer = "invalid_grant"
      BY FinishMoves, MovesType DEF Answers
    <2>2. QED BY <1>1, <2>1 DEF UsedUp
  <1>2. CASE s # t
    BY <1>2 DEF SetRevoked, TypeOK, Untouched
  <1>3. QED BY <1>1, <1>2

LEMMA RotateUses ==
    ASSUME IInv, ReadingsArePast, NEW r \in Requests, Rotate(r),
           NEW s \in Sessions, Live(s, clock)
    PROVE  Untouched(s) \/ UsedUp(s)
  <1> DEFINE q == requests[r]
             t == q.session
  <1>0. TypeOK /\ HistoryIsComplete /\ clock \in Nat
    BY DEF IInv, TypeOK
  <1>1. /\ q.pc = "rotate" /\ t \in Sessions /\ q.at \in Nat /\ q.at <= clock
        /\ Usable(t, q.handle, q.client, q.at) /\ FamilyOf(q.handle) = t
    BY <1>0, RequestFacts
       DEF Rotate, At, TypeOK, Assigned, HasSnapshot, IInv, RequestsKnowTheirFamily,
           ReadingsArePast
  <1>2. q.pc \in RunningPcs /\ q.client = sessions[t].client
        /\ q.handle = sessions[t].handle
    BY <1>1 DEF RunningPcs, StorePcs, Usable
  <1>3. CASE sessions[t].rotations >= MaxRotations
    <2>1. SetRevoked(t, q.at) /\ Finish(r, "invalid_grant")
      BY <1>3 DEF Rotate
    <2>2. QED BY <1>0, <1>1, <1>2, <2>1, RevokingUsesUp
  <1>4. CASE ~ (sessions[t].rotations >= MaxRotations)
    <2> DEFINE row == [sessions[t] EXCEPT !.handle = r, !.seal = NewSeal(r),
                           !.cacheUser = q.token, !.rotations = @ + 1]
               table == [sessions EXCEPT ![t] = row]
    <2>1. /\ sessions' = Reclaimed(table, q.at) /\ minted' = minted \cup {r}
          /\ Finish(r, "token") /\ clock' = clock
      BY <1>4 DEF Rotate
    <2>2. CASE s # t
      <3>1. table[s] = sessions[s]
        BY <1>0, <2>2 DEF TypeOK
      <3>2. sessions'[s] = Reclaimed(table, q.at)[s]
        BY <2>1
      <3> HIDE DEF table
      <3>3. QED BY <1>0, <1>1, <3>1, <3>2, LiveRowsStay
    <2>3. CASE s = t
      <3>1. Rotating(r, t)
        <4>1. r \notin minted
          BY <1>1 DEF IInv, MintedByRotation, RequestsKnowTheirFamily, RunningPcs, StorePcs
        <4>2. ~ Fading
          BY <2>1, <4>1 DEF Fading
        <4>3. QED BY <1>0, <4>2, RotateStep
      <3>2. /\ sessions'[s] # None /\ sessions'[s].handle = r
            /\ sessions'[s].revokedAt = sessions[s].revokedAt
            /\ sessions'[s].expiresAt = sessions[s].expiresAt
        BY <2>3, <3>1, RotatingFacts
      <3>3. clock' = clock
        BY <2>1
      <3>4. Live(s, clock)'
        BY <3>2, <3>3 DEF Live, Present
      <3>5. requests'[r].answer = "token"
        BY <1>0, <2>1, FinishMoves, MovesType DEF Answers
      <3>6. QED BY <1>2, <2>3, <3>2, <3>4, <3>5 DEF UsedUp
    <2>4. QED BY <2>2, <2>3
  <1>5. QED BY <1>3, <1>4

LEMMA HandlesStep ==
    ASSUME IInv, ReadingsArePast, [Next]_vars, NEW s \in Sessions, Live(s, clock')
    PROVE  Untouched(s) \/ UsedUp(s)
  <1>0. TypeOK /\ HistoryIsComplete /\ clock \in Nat
    BY DEF IInv, TypeOK
  <1>1. Live(s, clock)
    <2>1. clock' \in Nat /\ clock <= clock'
      BY <1>0, ClockAdvances
    <2>2. sessions[s].expiresAt \in Nat
      BY <1>0, RowFacts DEF Live, Present, TypeOK
    <2>3. QED BY <1>0, <2>1, <2>2 DEF Live
  <1>2. ASSUME NEW r \in Requests, RequestStep(r)
        PROVE  Untouched(s) \/ UsedUp(s)
    <2>1. CASE StoreUnchanged
      BY <2>1 DEF StoreUnchanged, Untouched
    <2>2. CASE Rotate(r)
      BY <1>1, <2>2, RotateUses
    <2>3. CASE Revoke(r)
      <3> DEFINE q == requests[r]
      <3>1. q.pc = "revoke" /\ q.session \in Sessions /\ FamilyOf(q.handle) = q.session
        BY <1>0, <2>3 DEF Revoke, At, TypeOK, Assigned, HasSnapshot, IInv,
                          RequestsKnowTheirFamily
      <3>2. CASE Revocable(q.session, q.handle, q.client)
        <4>1. SetRevoked(q.session, q.at) /\ Finish(r, "invalid_grant")
          BY <2>3, <3>2 DEF Revoke
        <4>2. q.client = sessions[q.session].client /\ q.pc \in RunningPcs
          BY <3>1, <3>2 DEF Revocable, RunningPcs, StorePcs
        <4>3. QED BY <1>0, <3>1, <4>1, <4>2, RevokingUsesUp
      <3>3. CASE ~ Revocable(q.session, q.handle, q.client)
        BY <2>3, <3>3 DEF Revoke, Untouched
      <3>4. QED BY <3>2, <3>3
    <2>4. CASE ReplayRevoke(r)
      <3> DEFINE q == requests[r]
      <3>1. q.pc \in RunningPcs /\ Finish(r, "invalid_grant")
        BY <2>4 DEF ReplayRevoke, At, RunningPcs, StorePcs
      <3>2. ASSUME NEW t \in Sessions, Replayed(t, q.handle, q.client, q.at),
                   SetRevoked(t, q.at)
            PROVE  Untouched(s) \/ UsedUp(s)
        <4>1. q.client = sessions[t].client /\ q.handle \in Handles
              /\ FamilyOf(q.handle) = t
          BY <1>0, <3>2 DEF Replayed, HistoryIsComplete, TypeOK
        <4>2. QED BY <1>0, <3>1, <3>2, <4>1, RevokingUsesUp
      <3>3. QED BY <2>4, <3>2 DEF ReplayRevoke, Untouched
    <2>5. QED
      BY <1>2, <2>1, <2>2, <2>3, <2>4
         DEF RequestStep, LookupMisses, LookupAccepts, LookupRefuses, LookupWrongScope,
             EntraRefresh, Validate, RotateConflicts, ReplayFind, StoreFails
  <1>3. ASSUME NEW t \in Sessions, NEW c \in Clients, NEW u \in Users,
               NEW d \in Deployments, NEW at \in 0..clock, IssueSession(t, c, u, d, at)
        PROVE  Untouched(s)
    <2>1. t # s
      BY <1>1, <1>3 DEF IssueSession, IInv, RowsHoldMinted, Live
    <2>2. sessions'[s] = Reclaimed(sessions, at)[s]
      BY <1>3, <2>1 DEF IssueSession, Reclaimed
    <2>3. QED BY <1>0, <1>1, <2>2, LiveRowsStay
  <1>4. ASSUME NEW at \in 0..clock, sessions' = Reclaimed(sessions, at)
        PROVE  Untouched(s)
    BY <1>0, <1>1, <1>4, LiveRowsStay
  <1>5. CASE Restart
    <2>1. sessions' = Reclaimed(sessions, clock)
      BY <1>5 DEF Restart
    <2>2. clock <= clock
      BY <1>0
    <2>3. QED BY <1>0, <1>1, <2>1, <2>2, LiveRowsStay
  <1>6. ASSUME NEW r \in Requests, NEW h, NEW c, Start(r, h, c)
        PROVE  Untouched(s)
    BY <1>6 DEF Start, StoreUnchanged, Untouched
  <1>7. ASSUME NEW at \in 0..clock, OtherWriter(at)
        PROVE  Untouched(s)
    BY <1>4, <1>7 DEF OtherWriter
  <1>8. Tick \/ UNCHANGED vars => Untouched(s)
    BY DEF Tick, vars, Untouched
  <1>9. QED BY <1>2, <1>3, <1>5, <1>6, <1>7, <1>8 DEF Next

(* A live handle stops working only in the step that answers a request of its *)
(* own client with a token, and then the new handle works, or with            *)
(* invalid_grant: no outage, foreign client, restart or reclaiming writer     *)
(* takes it (OAuthSessionService.refresh, SQLiteOAuthStore).                  *)
THEOREM HandlesWork == Spec => HandlesWorkUntilUsed
  <1>2. Init => ReadingsArePast
    BY DEF Init, ReadingsArePast, Unsent
  <1>3. IInv /\ ReadingsArePast /\ [Next]_vars => ReadingsArePast'
    BY ReadingsStep
  <1>4. ASSUME IInv, ReadingsArePast, [Next]_vars, NEW s \in Sessions, Live(s, clock')
        PROVE  \/ Live(s, clock)' /\ sessions'[s].handle = sessions[s].handle
               \/ UsedUp(s)
    BY <1>4, HandlesStep DEF Untouched, Live, Present
  <1>5. IInv /\ ReadingsArePast /\ [Next]_vars =>
          [\A s \in Sessions : Live(s, clock') =>
              \/ Live(s, clock)' /\ sessions'[s].handle = sessions[s].handle
              \/ \E r \in Requests :
                    /\ requests[r].pc \in RunningPcs
                    /\ requests[r].client = sessions[s].client
                    /\ \/ /\ requests'[r].answer = "token"
                          /\ requests[r].handle = sessions[s].handle
                          /\ Live(s, clock)' /\ sessions'[s].handle = r
                       \/ /\ requests'[r].answer = "invalid_grant"
                          /\ FamilyOf(requests[r].handle) = s]_vars
    BY <1>4 DEF UsedUp
  <1>6. QED
    BY <1>2, <1>3, <1>5, Invariant, PTL DEF Spec, HandlesWorkUntilUsed

-----------------------------------------------------------------------------
(* The history of a session is as long as its row says *)

SpentOf(s) == {e \in history : e.session = s}

HistoryIsCounted ==
    \A s \in Sessions : Present(s) =>
        /\ IsFiniteSet(SpentOf(s))
        /\ Cardinality(SpentOf(s)) = sessions[s].rotations
        /\ sessions[s].rotations <= MaxRotations

LEMMA FadedHistory ==
    ASSUME IInv, [Next]_vars, NEW s \in Sessions, sessions'[s] # None, Faded(s)
    PROVE  SpentOf(s)' = SpentOf(s)
  <1>1. \A e : e \in history' /\ e.session = s <=> e \in history /\ e.session = s
    <2>1. CASE Cascades(history)
      BY <2>1 DEF Cascades
    <2>2. ASSUME NEW x \in Requests, Rotating(x, requests[x].session)
          PROVE  \A e : e \in history' /\ e.session = s <=> e \in history /\ e.session = s
      <3>1. requests[x].session # s
        <4>1. ASSUME requests[x].session = s PROVE FALSE
          <5>1. sessions'[s].handle = x /\ x \notin minted
            BY <2>2, <4>1, RotatingFacts
          <5>2. QED BY <5>1 DEF Faded, IInv, RowsHoldMinted
        <4>2. QED BY <4>1
      <3>2. \A h : [handle |-> h, session |-> requests[x].session].session # s
        BY <3>1
      <3>3. QED BY <2>2, <3>2 DEF Cascades, Rotating
    <2>3. QED BY <2>1, <2>2, StoreStep DEF IInv, Fading, Issuing
  <1>2. QED BY <1>1 DEF SpentOf

LEMMA IssuedHistory ==
    ASSUME IInv, NEW s \in Sessions, Issuing(s)
    PROVE  SpentOf(s)' = {} /\ sessions'[s].rotations = 0
  <1>1. ~ Present(s)
    BY DEF Issuing, IInv, RowsHoldMinted
  <1>2. \A e \in history : e.session # s
    BY <1>1 DEF IInv, HistoryIsComplete
  <1>3. \A e \in history' : e.session # s
    BY <1>2 DEF Issuing, Cascades
  <1>4. QED BY <1>3 DEF SpentOf, Issuing

LEMMA RotatedHistory ==
    ASSUME IInv, NEW r \in Requests, NEW s \in Sessions, Rotating(r, s)
    PROVE  LET e == [handle |-> requests[r].handle, session |-> s]
           IN  SpentOf(s)' = SpentOf(s) \cup {e} /\ e \notin SpentOf(s)
  <1> DEFINE e == [handle |-> requests[r].handle, session |-> s]
  <1>1. /\ Cascades(history \cup {e}) /\ sessions'[s] # None
        /\ Present(s) /\ sessions[s].handle = requests[r].handle
        /\ requests[r].handle \in minted
    BY RotatingFacts DEF Usable
  <1>2. e \notin history
    BY <1>1 DEF IInv, HistoryIsComplete, TypeOK
  <1>3. e.session = s
    OBVIOUS
  <1> HIDE DEF e
  <1>4. \A x : x \in history' /\ x.session = s <=> (x \in history \/ x = e) /\ x.session = s
    BY <1>1 DEF Cascades
  <1>5. QED BY <1>2, <1>3, <1>4 DEF SpentOf, e

LEMMA CountedStep == IInv /\ HistoryIsCounted /\ [Next]_vars => HistoryIsCounted'
  <1> SUFFICES ASSUME IInv, HistoryIsCounted, [Next]_vars,
                      NEW s \in Sessions, sessions'[s] # None
               PROVE  /\ IsFiniteSet(SpentOf(s)')
                      /\ Cardinality(SpentOf(s)') = sessions'[s].rotations
                      /\ sessions'[s].rotations <= MaxRotations
    BY DEF HistoryIsCounted, Present, SpentOf
  <1>1. CASE Faded(s)
    BY <1>1, FadedHistory DEF Faded, HistoryIsCounted
  <1>2. CASE Issuing(s)
    BY <1>2, IssuedHistory, FS_EmptySet, ParametersAssumption
  <1>3. ASSUME NEW r \in Requests, Rotating(r, s)
        PROVE  /\ IsFiniteSet(SpentOf(s)')
               /\ Cardinality(SpentOf(s)') = sessions'[s].rotations
               /\ sessions'[s].rotations <= MaxRotations
    <2> DEFINE e == [handle |-> requests[r].handle, session |-> s]
    <2>1. SpentOf(s)' = SpentOf(s) \cup {e} /\ e \notin SpentOf(s)
      BY <1>3, RotatedHistory
    <2>2. /\ IsFiniteSet(SpentOf(s))
          /\ Cardinality(SpentOf(s)) = sessions[s].rotations
      BY <1>3 DEF HistoryIsCounted, Rotating, Usable
    <2> HIDE DEF e
    <2>3. /\ IsFiniteSet(SpentOf(s) \cup {e})
          /\ Cardinality(SpentOf(s) \cup {e}) = Cardinality(SpentOf(s)) + 1
      BY <2>1, <2>2, FS_AddElement
    <2>4. sessions[s].rotations \in Nat /\ ~ (sessions[s].rotations >= MaxRotations)
      BY <1>3 DEF Rotating, Usable, Present, IInv, TypeOK, SessionRow
    <2>5. sessions'[s].rotations = sessions[s].rotations + 1
      BY <1>3, RotatingFacts
    <2>6. QED BY <2>1, <2>2, <2>3, <2>4, <2>5, ParametersAssumption
  <1>4. QED BY <1>1, <1>2, <1>3, RowsStep

(* A session keeps one history row for each rotation counted in its row, and  *)
(* not more than oauth_refresh_max_rotations of them.                        *)
THEOREM HistoryStaysBounded == Spec => []HistoryIsBounded
  <1>1. Init => HistoryIsCounted
    BY DEF Init, HistoryIsCounted, Present
  <1>2. HistoryIsCounted => HistoryIsBounded
    BY DEF HistoryIsCounted, HistoryIsBounded, SpentOf
  <1>3. QED BY <1>1, <1>2, CountedStep, Invariant, PTL DEF Spec
-----------------------------------------------------------------------------
(* Refinement: the tables implement RotatingHandles *)

Current(s) ==
    IF Present(s) /\ sessions[s].revokedAt = NotRevoked THEN sessions[s].handle ELSE None

CurrentNext(s) ==
    IF sessions'[s] # None /\ sessions'[s].revokedAt = NotRevoked
    THEN sessions'[s].handle ELSE None

\* the families, but for s, whose handle stops working in this step
Closing(s) == {t \in Sessions \ {s} : CurrentNext(t) # Current(t)}

LEMMA CurrentFacts ==
    ASSUME IInv
    PROVE  /\ \A s \in Sessions : Current(s) # None =>
                 Current(s) \in minted /\ FamilyOf(Current(s)) = s
           /\ \A s, t \in Sessions : Current(s) # None /\ Current(s) = Current(t) => s = t
           /\ None \notin minted
  <1>1. \A s \in Sessions : Current(s) # None =>
           Current(s) \in minted /\ FamilyOf(Current(s)) = s
    BY DEF IInv, RowsHoldMinted, Current
  <1>2. None \notin minted
    BY NamesAssumption DEF IInv, TypeOK, Handles
  <1> HIDE DEF Current
  <1>3. QED BY <1>1, <1>2

LEMMA FadesToNone ==
    ASSUME IInv, NEW s \in Sessions, Kept(s) \/ Deleted(s) \/ MarkedRevoked(s)
    PROVE  CurrentNext(s) = Current(s) \/ CurrentNext(s) = None
  <1>1. CASE Kept(s)
    BY <1>1 DEF Kept, Current, CurrentNext, Present
  <1>2. CASE Deleted(s)
    BY <1>2 DEF Deleted, CurrentNext
  <1>3. CASE MarkedRevoked(s)
    <2>1. PICK at \in Nat : sessions'[s] = [sessions[s] EXCEPT !.revokedAt = at]
      BY <1>3 DEF MarkedRevoked
    <2>2. sessions'[s].revokedAt = at
      BY <1>3, <2>1 DEF MarkedRevoked, Present, IInv, TypeOK, SessionRow
    <2>3. QED BY <2>2 DEF CurrentNext, NotRevoked
  <1>4. QED BY <1>1, <1>2, <1>3

\* The mapping, without the comprehensions of the INSTANCE
Mapped ==
    /\ CurrentHandle = [s \in Sessions |-> Current(s)]
    /\ CurrentHandle' = [s \in Sessions |-> CurrentNext(s)]

LEMMA MappedAlways == Mapped
  BY DEF Mapped, CurrentHandle, Current, CurrentNext, Present

\* A step that closes the families of D and mints what is in N.
LEMMA SpentGrows ==
    ASSUME NEW M, NEW N, NEW c, NEW d, NEW D \in SUBSET Sessions,
           \A s \in Sessions : c[s] # None => c[s] \in M,
           \A s, t \in Sessions : c[s] # None /\ c[s] = c[t] => s = t,
           \A s \in Sessions \ D : d[s] = c[s],
           \A s \in D : d[s] = None \/ d[s] \in N,
           \A h \in N : h \notin M /\ \E s \in D : d[s] = h,
           None \notin M, None \notin N
    PROVE  (M \cup N) \ {d[s] : s \in Sessions}
             = (M \ {c[s] : s \in Sessions}) \cup ({c[s] : s \in D} \ {None})
  <1>1. ASSUME NEW h \in M, h \notin {d[s] : s \in Sessions}
        PROVE  h \in (M \ {c[s] : s \in Sessions}) \cup ({c[s] : s \in D} \ {None})
    BY <1>1
  <1>2. ASSUME NEW h \in M, h \notin {c[s] : s \in Sessions}
        PROVE  h \in (M \cup N) \ {d[s] : s \in Sessions}
    BY <1>2
  <1>3. ASSUME NEW s \in D, c[s] # None
        PROVE  c[s] \in (M \cup N) \ {d[t] : t \in Sessions}
    BY <1>3
  <1>4. QED BY <1>1, <1>2, <1>3

LEMMA FadingCloses ==
    ASSUME IInv, Fading
    PROVE  Rotation!Next
  <1> DEFINE D == {t \in Sessions : CurrentHandle'[t] # CurrentHandle[t]}
  <1>1. /\ CurrentHandle = [s \in Sessions |-> Current(s)]
        /\ CurrentHandle' = [s \in Sessions |-> CurrentNext(s)]
    BY MappedAlways DEF Mapped
  <1>2. \A s \in D : CurrentHandle'[s] = None
    BY <1>1, FadesToNone DEF Fading, OnlyFade
  <1>3. /\ \A s \in Sessions : CurrentHandle[s] # None => CurrentHandle[s] \in minted
        /\ \A s, t \in Sessions :
              CurrentHandle[s] # None /\ CurrentHandle[s] = CurrentHandle[t] => s = t
        /\ None \notin minted
    BY <1>1, CurrentFacts
  <1>4. D \subseteq Sessions /\ \A s \in Sessions \ D : CurrentHandle'[s] = CurrentHandle[s]
    OBVIOUS
  <1>5. minted' = minted
    BY DEF Fading
  <1> HIDE DEF D
  <1>6. CurrentHandle' = [s \in Sessions |-> IF s \in D THEN None ELSE CurrentHandle[s]]
    BY <1>1, <1>2, <1>4
  <1>7. (minted \cup {}) \ {CurrentHandle'[s] : s \in Sessions}
          = (minted \ {CurrentHandle[s] : s \in Sessions})
              \cup ({CurrentHandle[s] : s \in D} \ {None})
    BY <1>2, <1>3, <1>4, SpentGrows
  <1>8. Rotation!Close(D)
    BY <1>5, <1>6, <1>7 DEF Rotation!Close, Rotation!Closed
  <1>9. D \in SUBSET Sessions
    BY <1>4
  <1>10. QED BY <1>8, <1>9 DEF Rotation!Next, Rotation!Close

\* the mapped step of a transaction that gives family s the handle h
Replacing(s, h) ==
    /\ CurrentNext(s) = h /\ h \in Handles /\ h \notin minted
    /\ minted' = minted \cup {h}
    /\ OnlyFade(Sessions \ {s})

LEMMA ReplacingMaps ==
    ASSUME IInv, NEW s \in Sessions, NEW h, Replacing(s, h)
    PROVE  LET D == Closing(s)
           IN  /\ D \in SUBSET Sessions /\ s \notin D
               /\ Rotation!Fresh(h)
               /\ CurrentHandle' = [t \in Sessions |->
                     IF t = s THEN h ELSE IF t \in D THEN None ELSE CurrentHandle[t]]
               /\ minted' \ {CurrentHandle'[t] : t \in Sessions}
                     = (minted \ {CurrentHandle[t] : t \in Sessions})
                         \cup ({CurrentHandle[s]} \ {None}) \cup Rotation!Closed(D)
  <1> DEFINE D == Closing(s)
             E == D \cup {s}
  <1>1. /\ CurrentHandle = [t \in Sessions |-> Current(t)]
        /\ CurrentHandle' = [t \in Sessions |-> CurrentNext(t)]
    BY MappedAlways DEF Mapped
  <1>2. /\ D \subseteq Sessions /\ s \notin D
        /\ \A t \in Sessions \ E : CurrentHandle'[t] = CurrentHandle[t]
    BY <1>1 DEF Closing
  <1>3. \A t \in D : CurrentHandle'[t] = None
    BY <1>1, FadesToNone DEF Closing, Replacing, OnlyFade
  <1>4. /\ \A t \in Sessions : CurrentHandle[t] # None => CurrentHandle[t] \in minted
        /\ \A t, u \in Sessions :
              CurrentHandle[t] # None /\ CurrentHandle[t] = CurrentHandle[u] => t = u
        /\ None \notin minted
    BY <1>1, CurrentFacts
  <1>5. CurrentHandle'[s] = h /\ h \notin minted /\ h # None /\ minted' = minted \cup {h}
    BY <1>1, NamesAssumption DEF Replacing, Handles
  <1>6. E \subseteq Sessions /\ s \in E
    BY <1>2
  <1>7. \A t \in E : CurrentHandle'[t] = None \/ CurrentHandle'[t] \in {h}
    BY <1>3, <1>5
  <1> HIDE DEF D
  <1>8. Rotation!Fresh(h)
    BY <1>4, <1>5 DEF Rotation!Fresh, Rotation!Working
  <1>9. CurrentHandle' = [t \in Sessions |->
            IF t = s THEN h ELSE IF t \in D THEN None ELSE CurrentHandle[t]]
    BY <1>1, <1>2, <1>3, <1>5
  <1>10. \A t \in Sessions \ E : CurrentHandle'[t] = CurrentHandle[t]
    BY <1>2
  <1>11. {CurrentHandle[t] : t \in E} \ {None}
            = ({CurrentHandle[s]} \ {None}) \cup ({CurrentHandle[t] : t \in D} \ {None})
    OBVIOUS
  <1> HIDE DEF E
  <1>12. (minted \cup {h}) \ {CurrentHandle'[t] : t \in Sessions}
          = (minted \ {CurrentHandle[t] : t \in Sessions})
              \cup ({CurrentHandle[t] : t \in E} \ {None})
    BY <1>4, <1>5, <1>6, <1>7, <1>10, SpentGrows
  <1>13. QED
    BY <1>2, <1>5, <1>8, <1>9, <1>11, <1>12 DEF Rotation!Closed, D

LEMMA IssuingOpens ==
    ASSUME IInv, NEW s \in Sessions, Issuing(s)
    PROVE  Rotation!Next
  <1>1. Replacing(s, s)
    BY RowFacts DEF Issuing, Replacing, CurrentNext, Handles
  <1>2. CurrentHandle[s] = None /\ s \notin minted /\ minted' = minted \cup {s}
    BY MappedAlways DEF Issuing, Mapped, Current, IInv, RowsHoldMinted
  <1>3. Rotation!Open(s, s, Closing(s))
    BY <1>1, <1>2, ReplacingMaps DEF Rotation!Open
  <1>4. Closing(s) \in SUBSET Sessions /\ s \in Sessions \ Closing(s) /\ s \in Handles
    BY <1>1, ReplacingMaps DEF Handles
  <1>5. QED BY <1>3, <1>4 DEF Rotation!Next, Rotation!Open

LEMMA RotatingUses ==
    ASSUME IInv, NEW r \in Requests, NEW s \in Sessions, Rotating(r, s)
    PROVE  Rotation!Next
  <1>1. /\ r \notin minted /\ minted' = minted \cup {r} /\ sessions'[s] # None
        /\ sessions'[s].handle = r /\ sessions'[s].revokedAt = NotRevoked
        /\ Present(s) /\ sessions[s].revokedAt = NotRevoked
        /\ OnlyFade(Sessions \ {s})
    <2>1. /\ Present(s) /\ sessions[s].revokedAt = NotRevoked
          /\ OnlyFade(Sessions \ {s})
      BY DEF Rotating, Usable
    <2>2. sessions'[s].revokedAt = sessions[s].revokedAt
      BY RotatingKeeps
    <2>3. QED BY <2>1, <2>2, RotatingMints
  <1>2. Replacing(s, r) /\ r \in Handles
    BY <1>1 DEF Replacing, CurrentNext, Handles
  <1>3. CurrentHandle[s] # None
    <2>1. CurrentHandle[s] = sessions[s].handle
      BY <1>1, MappedAlways DEF Mapped, Current
    <2>2. sessions[s].handle \in minted
      BY <1>1 DEF IInv, RowsHoldMinted
    <2>3. QED BY <2>1, <2>2, CurrentFacts
  <1>4. minted' \cap Sessions = minted \cap Sessions
    BY <1>1, NamesAssumption
  <1>5. {CurrentHandle[s]} \ {None} = {CurrentHandle[s]}
    BY <1>3
  <1>6. Rotation!Use(s, r, Closing(s))
    BY <1>2, <1>3, <1>4, <1>5, ReplacingMaps DEF Rotation!Use
  <1>7. Closing(s) \in SUBSET Sessions /\ s \in Sessions \ Closing(s)
    BY <1>2, ReplacingMaps
  <1>8. QED BY <1>2, <1>6, <1>7 DEF Rotation!Next, Rotation!Use

(* Every family has one handle that works, until it is used or the family is  *)
(* closed, and it never works again: what the session and history tables, the *)
(* clock and all concurrent requests add up to for a client.                 *)
THEOREM RotationImplemented == Spec => ImplementsRotation
  <1>1. Init => Rotation!Init
    BY NamesAssumption DEF Init, Rotation!Init, CurrentHandle, Present
  <1>2. IInv /\ [Next]_vars => [Rotation!Next]_(Rotation!vars)
    BY StoreStep, FadingCloses, IssuingOpens, RotatingUses DEF IInv, Rotating
  <1>3. QED BY <1>1, <1>2, Invariant, PTL DEF Spec, ImplementsRotation, Rotation!Spec
-----------------------------------------------------------------------------
(* Why a family is revoked *)

Blamed(q) == q.cause \notin {"none", "TokenProtectionError"}

\* A request is blamed when it goes to revoke and not before; one that is on its
\* way to the rotation has seen a count below the limit.
Reasoned(q) ==
    /\ q.pc \in {"unsent", "lookup", "entra", "validate", "rotate"} => q.cause = "none"
    /\ q.pc = "revoke" => Blamed(q)
    /\ q.pc \in {"entra", "validate", "rotate"} => q.rotations < MaxRotations

\* Every handle in the history was rotated by a request of the family's client.
HistoryIsAnswered ==
    \A e \in history : \E x \in Requests :
        /\ requests[x].answer = "token" /\ requests[x].handle = e.handle
        /\ requests[x].client = sessions[e.session].client

RevocationsExplained ==
    /\ \A r \in Requests : Reasoned(requests[r])
    /\ HistoryIsAnswered
    /\ RevokedForCause

ReasonedNext(r) ==
    Reasoned(requests'[r]) /\ (Blamed(requests[r]) => Blamed(requests'[r]))

LEMMA FinishReasons ==
    ASSUME TypeOK, NEW r \in Requests, NEW a \in Answers, Finish(r, a)
    PROVE  ReasonedNext(r)
  BY FinishMoves, MovesType DEF ReasonedNext, Reasoned, Blamed

LEMMA GotoReasons ==
    ASSUME TypeOK, NEW r \in Requests, NEW pc \in Rejecting, Goto(r, pc)
    PROVE  ReasonedNext(r)
  <1>1. requests'[r] = [requests[r] EXCEPT !.pc = pc]
    BY DEF Goto, TypeOK
  <1>2. requests'[r].pc = pc /\ requests'[r].cause = requests[r].cause
    BY <1>1 DEF TypeOK, Request
  <1>3. QED BY <1>2 DEF ReasonedNext, Reasoned, Blamed, Rejecting

LEMMA GoRevokeReasons ==
    ASSUME TypeOK, NEW r \in Requests, NEW cause \in Causes \ {"TokenProtectionError"},
           GoRevoke(r, cause)
    PROVE  ReasonedNext(r)
  <1>1. requests'[r] = [requests[r] EXCEPT !.pc = "revoke", !.cause = cause]
    BY DEF GoRevoke, TypeOK
  <1>2. requests'[r].pc = "revoke" /\ requests'[r].cause = cause
    BY <1>1 DEF TypeOK, Request
  <1>3. QED BY <1>2 DEF ReasonedNext, Reasoned, Blamed, Causes

LEMMA LookupReasons ==
    ASSUME IInv, NEW r \in Requests, Reasoned(requests[r]), NEW s \in Sessions,
           LookupAccepts(r, s) \/ LookupRefuses(r, s)
    PROVE  ReasonedNext(r)
  <1>1. Present(s) /\ Opens(s) /\ requests[r].cause = "none"
    BY DEF LookupAccepts, LookupRefuses, Usable, At, Reasoned, IInv, SealMatchesRow
  <1>2. TypeOK /\ Refusal(s) \in Causes \cup {"none"}
    BY RefusalType DEF IInv
  <1>3. CASE LookupAccepts(r, s)
    <2>1. Refusal(s) = "none" /\ Snapshot(r, s, "entra", "none")
      BY <1>3 DEF LookupAccepts
    <2>2. ~ (sessions[s].rotations >= MaxRotations)
      BY <2>1 DEF Refusal
    <2>3. /\ requests'[r].pc = "entra" /\ requests'[r].cause = "none"
          /\ requests'[r].rotations = sessions[s].rotations
      BY <1>1, <1>2, <2>1, SnapshotMoves, MovesType
    <2>4. sessions[s].rotations \in Nat
      BY <1>1 DEF IInv, TypeOK, Present, SessionRow
    <2>5. QED BY <1>1, <2>2, <2>3, <2>4, ParametersAssumption DEF ReasonedNext, Reasoned, Blamed
  <1>4. CASE LookupRefuses(r, s)
    <2>1. Refusal(s) # "none" /\ Snapshot(r, s, "revoke", Refusal(s))
      BY <1>4 DEF LookupRefuses
    <2>2. Refusal(s) # "TokenProtectionError"
      BY <1>1 DEF Refusal
    <2>3. requests'[r].pc = "revoke" /\ requests'[r].cause = Refusal(s)
      BY <1>1, <1>2, <2>1, SnapshotMoves, MovesType
    <2>4. QED BY <2>1, <2>2, <2>3 DEF ReasonedNext, Reasoned, Blamed
  <1>5. QED BY <1>3, <1>4

LEMMA StepReasons ==
    ASSUME IInv, NEW r \in Requests, Reasoned(requests[r]), RequestStep(r)
    PROVE  ReasonedNext(r)
  <1> DEFINE q == requests[r]
  <1>0. TypeOK /\ q \in Request
    BY DEF IInv, TypeOK
  <1>1. CASE EntraRefresh(r)
    <2>1. q.pc = "entra" /\ q.cause = "none" /\ q.rotations < MaxRotations
      BY <1>1 DEF EntraRefresh, At, Reasoned
    <2>2. ASSUME NEW user \in Users,
                 requests' = [requests EXCEPT ![r] = [@ EXCEPT !.pc = "validate", !.token = user]]
          PROVE  ReasonedNext(r)
      <3>1. requests'[r] = [q EXCEPT !.pc = "validate", !.token = user]
        BY <1>0, <2>2 DEF TypeOK
      <3>2. requests'[r].pc = "validate" /\ requests'[r].cause = q.cause
            /\ requests'[r].rotations = q.rotations
        BY <1>0, <3>1 DEF Request
      <3>3. QED BY <2>1, <3>2 DEF ReasonedNext, Reasoned, Blamed
    <2>3. QED
      BY <1>0, <1>1, <2>2, GoRevokeReasons, FinishReasons DEF EntraRefresh, Causes, Answers
  <1>2. CASE Validate(r)
    <2>1. q.pc = "validate" /\ q.cause = "none" /\ q.rotations < MaxRotations
      BY <1>2 DEF Validate, At, Reasoned
    <2>2. ASSUME Goto(r, "rotate") PROVE ReasonedNext(r)
      <3>1. requests'[r] = [q EXCEPT !.pc = "rotate"]
        BY <1>0, <2>2 DEF TypeOK, Goto
      <3>2. requests'[r].pc = "rotate" /\ requests'[r].cause = q.cause
            /\ requests'[r].rotations = q.rotations
        BY <1>0, <3>1 DEF Request
      <3>3. QED BY <2>1, <3>2 DEF ReasonedNext, Reasoned, Blamed
    <2>3. QED
      BY <1>0, <1>2, <2>2, GoRevokeReasons, FinishReasons DEF Validate, Causes, Answers
  <1>3. CASE \E s \in Sessions :
                LookupAccepts(r, s) \/ LookupRefuses(r, s) \/ LookupWrongScope(r, s)
    BY <1>0, <1>3, LookupReasons, FinishReasons DEF LookupWrongScope, Answers
  <1>4. CASE LookupMisses(r) \/ RotateConflicts(r) \/ ReplayFind(r) \/ Revoke(r)
    BY <1>0, <1>4, GotoReasons, FinishReasons
       DEF LookupMisses, RotateConflicts, ReplayFind, Revoke, Rejecting, Answers
  <1>5. CASE Rotate(r) \/ ReplayRevoke(r) \/ StoreFails(r)
    BY <1>0, <1>5, FinishReasons DEF Rotate, ReplayRevoke, StoreFails, Answers
  <1>6. QED BY <1>1, <1>2, <1>3, <1>4, <1>5 DEF RequestStep

LEMMA ReasonsStep ==
    ASSUME IInv, [Next]_vars, NEW r \in Requests, Reasoned(requests[r])
    PROVE  ReasonedNext(r)
  <1>0. TypeOK
    BY DEF IInv
  <1>1. CASE Same(r)
    BY <1>1 DEF Same, ReasonedNext
  <1>2. ASSUME NEW x \in Requests, RequestStep(x)
        PROVE  ReasonedNext(r)
    BY <1>1, <1>2, StepAdvances, StepReasons
  <1>3. ASSUME NEW x \in Requests, NEW h \in minted, NEW c \in Clients, Start(x, h, c)
        PROVE  ReasonedNext(r)
    <2>1. CASE x = r
      <3>1. requests'[r] = [requests[r] EXCEPT !.pc = "lookup", !.at = clock,
                                               !.client = c, !.handle = h]
        BY <1>0, <1>3, <2>1 DEF TypeOK, Start
      <3>2. requests'[r].pc = "lookup" /\ requests'[r].cause = requests[r].cause
        BY <1>0, <3>1 DEF TypeOK, Request
      <3>3. requests[r].cause = "none"
        BY <1>3, <2>1 DEF Start, At, Reasoned
      <3>4. QED BY <3>2, <3>3 DEF ReasonedNext, Reasoned, Blamed
    <2>2. CASE x # r
      BY <1>0, <1>1, <1>3, <2>2 DEF TypeOK, Start, Same
    <2>3. QED BY <2>1, <2>2
  <1>4. CASE Restart
    <2>1. CASE requests[r].pc \in RunningPcs
      <3>1. requests'[r] = [requests[r] EXCEPT !.pc = "done", !.answer = "lost",
                               !.rotations = 0, !.user = None, !.token = None]
        BY <1>4, <2>1 DEF Restart
      <3>2. requests'[r].pc = "done" /\ requests'[r].cause = requests[r].cause
        BY <1>0, <3>1 DEF TypeOK, Request
      <3>3. QED BY <3>2 DEF ReasonedNext, Reasoned, Blamed
    <2>2. CASE requests[r].pc \notin RunningPcs
      BY <1>1, <1>4, <2>2 DEF Restart, Same
    <2>3. QED BY <2>1, <2>2
  <1>5. QED
    BY <1>1, <1>2, <1>3, <1>4 DEF Next, IssueSession, OtherWriter, Tick, vars, Same

\* request r presents a handle of family s, as the client of its row
Presents(r, s) ==
    /\ requests[r].handle # None /\ FamilyOf(requests[r].handle) = s
    /\ requests[r].client = sessions[s].client

Presented(r, s) ==
    /\ requests'[r].handle # None /\ NextFamilyOf(requests'[r].handle) = s
    /\ requests'[r].client = sessions'[s].client

\* what RevokedForCause asks for
Guilty(s) ==
    \/ \E r \in Requests : Presents(r, s) /\ Blamed(requests[r])
    \/ \E r, x \in Requests : /\ Presents(r, s) /\ Presents(x, s) /\ r # x
                               /\ requests[r].handle = requests[x].handle

GuiltyNext(s) ==
    \/ \E r \in Requests : Presented(r, s) /\ Blamed(requests'[r])
    \/ \E r, x \in Requests : /\ Presented(r, s) /\ Presented(x, s) /\ r # x
                               /\ requests'[r].handle = requests'[x].handle

LEMMA CausesOfGuilt ==
    /\ RevokedForCause <=>
          \A s \in Sessions : Present(s) /\ sessions[s].revokedAt # NotRevoked => Guilty(s)
    /\ RevokedForCause' <=>
          \A s \in Sessions :
              sessions'[s] # None /\ sessions'[s].revokedAt # NotRevoked => GuiltyNext(s)
  <1>1. RevokedForCause <=>
          \A s \in Sessions : Present(s) /\ sessions[s].revokedAt # NotRevoked => Guilty(s)
    BY DEF RevokedForCause, Guilty, Presents, Blamed
  <1>2. RevokedForCause' <=>
          \A s \in Sessions :
              sessions'[s] # None /\ sessions'[s].revokedAt # NotRevoked => GuiltyNext(s)
    BY DEF RevokedForCause, GuiltyNext, Presented, Blamed, Present, FamilyOf, NextFamilyOf
  <1>3. QED BY <1>1, <1>2

\* A request keeps the handle it presented, and its client.
LEMMA PresentsStill ==
    ASSUME IInv, [Next]_vars, NEW r \in Requests, NEW s \in Sessions, Presents(r, s),
           sessions'[s].client = sessions[s].client
    PROVE  Presented(r, s) /\ requests'[r].handle = requests[r].handle
  <1>1. requests[r].pc # "unsent" /\ requests[r].handle \in minted
    BY DEF Presents, IInv, RequestsKnowTheirFamily
  <1>2. requests'[r].handle = requests[r].handle /\ requests'[r].client = requests[r].client
    BY <1>1, RequestsStep DEF Same, Moved, Started, Snapped, Advanced, Carried
  <1>3. NextFamilyOf(requests[r].handle) = s
    BY <1>1, FamilyFrame DEF Presents
  <1>4. QED BY <1>2, <1>3 DEF Presents, Presented

LEMMA GuiltyStill ==
    ASSUME IInv, \A r \in Requests : Reasoned(requests[r]), [Next]_vars,
           NEW s \in Sessions, Guilty(s), sessions'[s].client = sessions[s].client
    PROVE  GuiltyNext(s)
  <1>1. ASSUME NEW r \in Requests, Presents(r, s), Blamed(requests[r])
        PROVE  Presented(r, s) /\ Blamed(requests'[r])
    BY <1>1, PresentsStill, ReasonsStep DEF ReasonedNext
  <1>2. ASSUME NEW r \in Requests, NEW x \in Requests, Presents(r, s), Presents(x, s),
               requests[r].handle = requests[x].handle
        PROVE  /\ Presented(r, s) /\ Presented(x, s)
               /\ requests'[r].handle = requests'[x].handle
    BY <1>2, PresentsStill
  <1>3. QED BY <1>1, <1>2 DEF Guilty, GuiltyNext

\* who revokes family s in a step
Revoking(r, s) ==
    LET q == requests[r]
    IN  \/ q.pc = "revoke" /\ s = q.session /\ Revocable(s, q.handle, q.client)
        \/ /\ q.pc = "rotate" /\ s = q.session /\ Usable(s, q.handle, q.client, q.at)
           /\ sessions[s].rotations >= MaxRotations
        \/ q.pc = "replayRevoke" /\ Replayed(s, q.handle, q.client, q.at)

LEMMA NewlyRevoked ==
    ASSUME IInv, [Next]_vars, NEW s \in Sessions, Present(s),
           sessions[s].revokedAt = NotRevoked,
           sessions'[s] # None, sessions'[s].revokedAt # NotRevoked
    PROVE  \E r \in Requests : Revoking(r, s)
  <1>0. TypeOK /\ HistoryIsComplete
    BY DEF IInv
  <1>1. sessions'[s] # sessions[s]
    OBVIOUS
  <1>2. ASSUME NEW t \in Sessions, NEW at, SetRevoked(t, at)
        PROVE  s = t
    BY <1>0, <1>1, <1>2 DEF SetRevoked, TypeOK
  <1>3. ASSUME NEW r \in Requests, RequestStep(r)
        PROVE  Revoking(r, s)
    <2>1. CASE StoreUnchanged
      BY <1>1, <2>1 DEF StoreUnchanged
    <2>2. CASE Rotate(r)
      <3>1. requests[r].pc = "rotate" /\ requests[r].session \in Sessions
        BY <1>0, <2>2 DEF Rotate, At, TypeOK, Assigned, HasSnapshot
      <3>2. CASE sessions[requests[r].session].rotations >= MaxRotations
        BY <1>2, <2>2, <3>1, <3>2 DEF Rotate, Revoking
      <3>3. CASE ~ (sessions[requests[r].session].rotations >= MaxRotations)
        <4>1. Rotating(r, requests[r].session)
          <5>1. minted' = minted \cup {r} /\ r \notin minted
            BY <2>2, <3>1, <3>3 DEF Rotate, IInv, MintedByRotation,
                                    RequestsKnowTheirFamily, RunningPcs, StorePcs
          <5>2. ~ Fading
            BY <5>1 DEF Fading
          <5>3. QED BY <1>0, <2>2, <5>2, RotateStep
        <4>2. requests[r].session # s
          <5>1. ASSUME requests[r].session = s PROVE FALSE
            BY <4>1, <5>1, RotatingKeeps
          <5>2. QED BY <5>1
        <4>3. MarkedRevoked(s)
          BY <1>1, <4>1, <4>2 DEF Rotating, OnlyFade, Kept, Deleted
        <4>4. sessions'[s] = Reclaimed([sessions EXCEPT ![requests[r].session] =
                  [sessions[requests[r].session] EXCEPT !.handle = r, !.seal = NewSeal(r),
                      !.cacheUser = requests[r].token, !.rotations = @ + 1]], requests[r].at)[s]
          BY <2>2, <3>3 DEF Rotate
        <4>5. sessions'[s] \in {None, sessions[s]}
          BY <1>0, <4>2, <4>4 DEF Reclaimed, TypeOK
        <4>6. QED BY <1>1, <4>5
      <3>4. QED BY <3>2, <3>3
    <2>3. CASE Revoke(r)
      BY <1>1, <1>2, <2>3 DEF Revoke, Revoking, At, Revocable, IInv, TypeOK, Assigned, HasSnapshot
    <2>4. CASE ReplayRevoke(r)
      <3>1. PICK t \in Sessions :
                Replayed(t, requests[r].handle, requests[r].client, requests[r].at)
                /\ SetRevoked(t, requests[r].at)
        BY <1>1, <2>4 DEF ReplayRevoke
      <3>2. QED BY <1>2, <2>4, <3>1 DEF ReplayRevoke, At, Revoking
    <2>5. QED
      BY <1>3, <2>1, <2>2, <2>3, <2>4
         DEF RequestStep, LookupMisses, LookupAccepts, LookupRefuses, LookupWrongScope,
             EntraRefresh, Validate, RotateConflicts, ReplayFind, StoreFails
  <1>4. ASSUME NEW t \in Sessions, NEW c \in Clients, NEW u \in Users,
               NEW d \in Deployments, NEW at \in 0..clock, IssueSession(t, c, u, d, at)
        PROVE  FALSE
    <2>1. t # s
      BY <1>4 DEF IssueSession, IInv, RowsHoldMinted
    <2>2. sessions'[s] = Reclaimed(sessions, at)[s]
      BY <1>4, <2>1 DEF IssueSession, Reclaimed
    <2>3. QED BY <1>1, <2>2 DEF Reclaimed
  <1>5. ASSUME NEW at, sessions' = Reclaimed(sessions, at)
        PROVE  FALSE
    BY <1>1, <1>5 DEF Reclaimed
  <1>6. QED
    BY <1>1, <1>3, <1>4, <1>5 DEF Next, Start, StoreUnchanged, OtherWriter, Restart, Tick, vars

\* Whoever revokes a family has a cause, or is the second to present the handle.
LEMMA RevokingIsGuilty ==
    ASSUME IInv, HistoryIsAnswered, \A r \in Requests : Reasoned(requests[r]),
           NEW r \in Requests, NEW s \in Sessions, Revoking(r, s)
    PROVE  Guilty(s)
  <1> DEFINE q == requests[r]
  <1>1. CASE q.pc = "revoke"
    <2>1. Revocable(s, q.handle, q.client) /\ s = q.session
      BY <1>1 DEF Revoking
    <2>2. Presents(r, s)
      BY <1>1, <2>1, NamesAssumption
         DEF Revocable, Presents, IInv, RequestsKnowTheirFamily, HasSnapshot, TypeOK, Handles
    <2>3. QED BY <1>1, <2>2 DEF Reasoned, Guilty
  <1>2. CASE q.pc = "rotate"
    <2>1. /\ s = q.session /\ Usable(s, q.handle, q.client, q.at)
          /\ sessions[s].rotations >= MaxRotations
      BY <1>2 DEF Revoking
    <2>2. sessions[s].rotations = q.rotations
      BY <1>2, <2>1 DEF IInv, SnapshotsAreCurrent, Usable, HasSnapshot
    <2>3. q.rotations < MaxRotations /\ q.rotations \in Nat
      BY <1>2 DEF Reasoned, IInv, TypeOK, Request
    <2>4. QED BY <2>1, <2>2, <2>3, ParametersAssumption
  <1>3. CASE q.pc = "replayRevoke"
    <2>1. Replayed(s, q.handle, q.client, q.at)
      BY <1>3 DEF Revoking
    <2>2. /\ q.answer = "none" /\ q.handle \in minted /\ q.handle \in Handles
          /\ q.handle # None
      BY <1>3, NamesAssumption
         DEF IInv, RequestsKnowTheirFamily, RunningPcs, StorePcs, TypeOK, Handles
    <2>3. Presents(r, s)
      BY <2>1, <2>2 DEF Replayed, Presents, IInv, HistoryIsComplete
    <2>4. PICK x \in Requests : /\ requests[x].answer = "token"
                                /\ requests[x].handle = q.handle
                                /\ requests[x].client = sessions[s].client
      BY <2>1 DEF Replayed, HistoryIsAnswered
    <2>5. x # r /\ Presents(x, s)
      BY <2>2, <2>3, <2>4 DEF Presents
    <2>6. QED BY <2>3, <2>4, <2>5 DEF Guilty
  <1>4. QED BY <1>1, <1>2, <1>3 DEF Revoking

LEMMA RevokedForCauseStep ==
    ASSUME IInv, RevocationsExplained, [Next]_vars
    PROVE  RevokedForCause'
  <1> SUFFICES ASSUME NEW s \in Sessions, sessions'[s] # None,
                      sessions'[s].revokedAt # NotRevoked
               PROVE  GuiltyNext(s)
    BY CausesOfGuilt
  <1>1. Present(s) /\ sessions'[s].client = sessions[s].client
    <2>1. CASE Faded(s)
      BY <2>1 DEF Faded
    <2>2. CASE Issuing(s)
      BY <2>2 DEF Issuing
    <2>3. ASSUME NEW r \in Requests, Rotating(r, s)
          PROVE  Present(s) /\ sessions'[s].client = sessions[s].client
      BY <2>3, RotatingKeeps DEF Rotating, Usable
    <2>4. QED BY <2>1, <2>2, <2>3, RowsStep
  <1>2. Guilty(s)
    <2>1. CASE sessions[s].revokedAt # NotRevoked
      BY <1>1, <2>1, CausesOfGuilt DEF RevocationsExplained
    <2>2. CASE sessions[s].revokedAt = NotRevoked
      BY <1>1, <2>2, NewlyRevoked, RevokingIsGuilty DEF RevocationsExplained
    <2>3. QED BY <2>1, <2>2
  <1>3. QED BY <1>1, <1>2, GuiltyStill DEF RevocationsExplained

LEMMA AnsweredStep ==
    ASSUME IInv, HistoryIsAnswered, [Next]_vars
    PROVE  HistoryIsAnswered'
  <1> SUFFICES ASSUME NEW e \in history'
               PROVE  \E x \in Requests :
                         /\ requests'[x].answer = "token" /\ requests'[x].handle = e.handle
                         /\ requests'[x].client = sessions'[e.session].client
    BY DEF HistoryIsAnswered
  <1> DEFINE s == e.session
  <1>1. s \in Sessions /\ sessions'[s] # None
    BY TypeStep, HistoryStep DEF IInv, TypeOK, HistoryIsComplete, Present
  <1>2. CASE e \in history
    <2>1. PICK x \in Requests : /\ requests[x].answer = "token"
                                /\ requests[x].handle = e.handle
                                /\ requests[x].client = sessions[s].client
      BY <1>2 DEF HistoryIsAnswered
    <2>2. Same(x)
      BY <2>1, MintedRests DEF IInv, MintedByRotation
    <2>3. Present(s)
      BY <1>2 DEF IInv, HistoryIsComplete
    <2>4. sessions'[s].client = sessions[s].client
      <3>1. ~ Issuing(s)
        BY <1>1, <2>3 DEF Issuing, IInv, RowsHoldMinted
      <3>2. QED BY <1>1, <3>1, RowsStep, RotatingKeeps DEF Faded
    <2>5. QED BY <2>1, <2>2, <2>4 DEF Same
  <1>3. CASE e \notin history
    <2>1. PICK r \in Requests : Rotating(r, requests[r].session)
      BY <1>3, StoreStep DEF IInv, Fading, Issuing, Cascades
    <2> DEFINE t == requests[r].session
    <2>2. e = [handle |-> requests[r].handle, session |-> t] /\ t \in Sessions
      BY <1>3, <2>1 DEF Rotating, Cascades
    <2>3. /\ requests'[r].answer = "token"
          /\ requests'[r].handle = requests[r].handle
      BY <2>1, <2>2, RotatingFinishes
    <2>4. requests'[r].client = requests[r].client
      BY <2>1, FinishMoves, MovesType DEF Rotating, IInv, Answers
    <2>5. sessions'[t].client = sessions[t].client /\ sessions[t].client = requests[r].client
      BY <2>1, <2>2, RotatingKeeps DEF Rotating, Usable
    <2>6. QED BY <2>2, <2>3, <2>4, <2>5
  <1>4. QED BY <1>2, <1>3

(* A family is revoked only because a request of its client was refused for a *)
(* cause, or because two requests presented one handle; never for a failure   *)
(* of Entra, of the metadata or of the store, nor for a restart.              *)
THEOREM RevocationHasCause == Spec => []RevokedForCause
  <1>1. Init => RevocationsExplained
    BY DEF Init, RevocationsExplained, Reasoned, Unsent, HistoryIsAnswered, RevokedForCause, Present
  <1>2. IInv /\ RevocationsExplained /\ [Next]_vars => RevocationsExplained'
    <2> SUFFICES ASSUME IInv, RevocationsExplained, [Next]_vars
                 PROVE  RevocationsExplained'
      OBVIOUS
    <2>1. \A r \in Requests : Reasoned(requests'[r])
      BY ReasonsStep DEF RevocationsExplained, ReasonedNext
    <2>2. HistoryIsAnswered' /\ RevokedForCause'
      BY AnsweredStep, RevokedForCauseStep DEF RevocationsExplained
    <2>3. QED BY <2>1, <2>2 DEF RevocationsExplained, Reasoned, Blamed
  <1>3. RevocationsExplained => RevokedForCause
    BY DEF RevocationsExplained
  <1>4. QED BY <1>1, <1>2, <1>3, Invariant, PTL DEF Spec

-----------------------------------------------------------------------------
(* Liveness: what a running refresh comes to                                *)
(*                                                                         *)
(* The prover knows nothing of ENABLED.  FairSpec says WF of RequestStep;    *)
(* the theorems below add that a running request has a step to take          *)
(* (CanStep), and the proofs use what follows from the two: the request      *)
(* stops running again and again, or steps again and again (StepsOrRests).   *)

StepsOrRests(r) == []<>(~ Unfinished(r)) \/ []<><<RequestStep(r)>>_vars

LEMMA FairRequest ==
    ASSUME NEW r \in Requests
    PROVE  FairSpec /\ []NeverStuck => StepsOrRests(r)
  <1>1. NeverStuck => CanStep(r)
    BY DEF NeverStuck
  <1>2. Fairness => Runs(r)
    BY DEF Fairness
  <1>3. Runs(r) /\ []CanStep(r) => StepsOrRests(r)
    BY PTL DEF Runs, CanStep, StepsOrRests
  <1>4. QED BY <1>1, <1>2, <1>3, PTL DEF FairSpec

\* How far refresh() has come; every await is passed at most once.
Stage ==
    [unsent |-> 0, lookup |-> 1, entra |-> 2, validate |-> 3, rotate |-> 4, revoke |-> 4,
     replayFind |-> 5, replayRevoke |-> 6, done |-> 7]

LEMMA StageFacts ==
    /\ \A pc \in RunningPcs \cup {"unsent", "done"} : Stage[pc] \in 0..7
    /\ \A pc \in RunningPcs : Stage[pc] \in 1..6
    /\ \A pc \in RunningPcs \cup {"unsent", "done"} :
          /\ Stage[pc] = 7 => pc = "done"
          /\ Stage[pc] >= 1 /\ Stage[pc] < 7 => pc \in RunningPcs
  BY DEF Stage, RunningPcs, StorePcs

\* A coroutine that moves comes further, and one that returns has an answer.
LEMMA StepProgresses ==
    ASSUME IInv, NEW r \in Requests, RequestStep(r)
    PROVE  /\ Stage[requests'[r].pc] > Stage[requests[r].pc]
           /\ requests'[r].pc = "done" => requests'[r].answer # "none"
  <1> DEFINE q == requests[r]
             Progress == /\ Stage[requests'[r].pc] > Stage[q.pc]
                         /\ requests'[r].pc = "done" => requests'[r].answer # "none"
  <1>0. q \in Request /\ requests \in [Requests -> Request]
    BY DEF IInv, TypeOK
  <1>1. ASSUME NEW a \in Answers \ {"none"}, Finish(r, a), q.pc \in RunningPcs
        PROVE  Progress
    <2>1. requests'[r].pc = "done" /\ requests'[r].answer = a
      BY <1>0, <1>1 DEF Finish, Request
    <2>2. QED BY <1>1, <2>1 DEF Stage, RunningPcs, StorePcs
  <1>2. ASSUME NEW pc, Goto(r, pc)
        PROVE  requests'[r].pc = pc
    BY <1>0, <1>2 DEF Goto, Request
  <1>3. ASSUME NEW cause, GoRevoke(r, cause)
        PROVE  requests'[r].pc = "revoke"
    BY <1>0, <1>3 DEF GoRevoke, Request
  <1>4. CASE LookupMisses(r) \/ RotateConflicts(r)
    BY <1>2, <1>4 DEF LookupMisses, RotateConflicts, At, Stage
  <1>5. ASSUME NEW s \in Sessions, LookupAccepts(r, s) \/ LookupRefuses(r, s)
        PROVE  Progress
    <2>1. ASSUME NEW pc, NEW cause, Snapshot(r, s, pc, cause)
          PROVE  requests'[r].pc = pc
      BY <1>0, <2>1 DEF Snapshot, Request
    <2>2. q.pc = "lookup" /\ requests'[r].pc \in {"entra", "revoke"}
      BY <1>5, <2>1 DEF LookupAccepts, LookupRefuses, At
    <2>3. QED BY <2>2 DEF Stage
  <1>6. ASSUME NEW s \in Sessions, LookupWrongScope(r, s)
        PROVE  Progress
    BY <1>1, <1>6 DEF LookupWrongScope, At, RunningPcs, StorePcs, Answers
  <1>7. CASE EntraRefresh(r)
    <2>1. q.pc = "entra" /\ q.pc \in RunningPcs
      BY <1>7 DEF EntraRefresh, At, RunningPcs
    <2>2. \/ requests'[r].pc \in {"validate", "revoke"}
          \/ Finish(r, "unavailable")
      <3>1. ASSUME NEW user, Moves(r, [q EXCEPT !.pc = "validate", !.token = user])
            PROVE  requests'[r].pc = "validate"
        BY <1>0, <3>1 DEF Moves, Request
      <3>2. QED BY <1>3, <1>7, <3>1 DEF EntraRefresh, Moves
    <2>3. QED BY <1>1, <2>1, <2>2 DEF Stage, Answers
  <1>8. CASE Validate(r)
    <2>1. q.pc = "validate" /\ q.pc \in RunningPcs
      BY <1>8 DEF Validate, At, RunningPcs
    <2>2. \/ requests'[r].pc \in {"rotate", "revoke"}
          \/ Finish(r, "unavailable")
      BY <1>2, <1>3, <1>8 DEF Validate
    <2>3. QED BY <1>1, <2>1, <2>2 DEF Stage, Answers
  <1>9. CASE Rotate(r)
    <2>1. q.pc \in RunningPcs /\ (Finish(r, "invalid_grant") \/ Finish(r, "token"))
      BY <1>9 DEF Rotate, At, RunningPcs, StorePcs
    <2>2. QED BY <1>1, <2>1 DEF Answers
  <1>10. CASE Revoke(r)
    <2>1. q.pc = "revoke" /\ (Finish(r, "invalid_grant") \/ Goto(r, "replayFind"))
      BY <1>10 DEF Revoke, At
    <2>2. QED BY <1>1, <1>2, <2>1 DEF Answers, Stage, RunningPcs, StorePcs
  <1>11. CASE ReplayFind(r)
    <2>1. q.pc = "replayFind" /\ (Finish(r, "invalid_grant") \/ Goto(r, "replayRevoke"))
      BY <1>11 DEF ReplayFind, At
    <2>2. QED BY <1>1, <1>2, <2>1 DEF Answers, Stage, RunningPcs, StorePcs
  <1>12. CASE ReplayRevoke(r)
    BY <1>1, <1>12 DEF ReplayRevoke, At, Answers, RunningPcs, StorePcs
  <1>13. CASE StoreFails(r)
    BY <1>1, <1>13 DEF StoreFails, Answers, RunningPcs
  <1>14. QED
    BY <1>4, <1>5, <1>6, <1>7, <1>8, <1>9, <1>10, <1>11, <1>12, <1>13 DEF RequestStep

\* Nothing sets a coroutine back, not even a restart.
LEMMA StageGrows ==
    ASSUME IInv, NEW r \in Requests, [Next]_vars
    PROVE  /\ Stage[requests'[r].pc] >= Stage[requests[r].pc]
           /\ requests[r].pc \in RunningPcs /\ requests'[r].pc = "done"
                => requests'[r].answer # "none"
  <1>0. requests \in [Requests -> Request] /\ Stage[requests[r].pc] \in 0..7
    <2>1. requests \in [Requests -> Request]
      BY DEF IInv, TypeOK
    <2>2. requests[r].pc \in RunningPcs \cup {"unsent", "done"}
      BY <2>1 DEF Request
    <2>3. QED BY <2>1, <2>2, StageFacts
  <1>1. CASE Same(r)
    BY <1>0, <1>1 DEF Same, RunningPcs, StorePcs
  <1>2. ASSUME NEW x \in Requests, NEW h \in minted, NEW c \in Clients, Start(x, h, c)
        PROVE  Same(r) \/ (requests[r].pc = "unsent" /\ requests'[r].pc = "lookup")
    BY <1>0, <1>2 DEF Start, At, Same, Request
  <1>3. ASSUME NEW x \in Requests, RequestStep(x)
        PROVE  \/ Same(r)
               \/ /\ Stage[requests'[r].pc] > Stage[requests[r].pc]
                  /\ requests'[r].pc = "done" => requests'[r].answer # "none"
    BY <1>3, StepAdvances, StepProgresses
  <1>4. CASE Restart
    <2>1. \/ Same(r)
          \/ requests'[r].pc = "done" /\ requests'[r].answer = "lost"
      <3>1. CASE requests[r].pc \notin RunningPcs
        BY <1>4, <3>1 DEF Restart, Same
      <3>2. CASE requests[r].pc \in RunningPcs
        <4>1. requests'[r] = [requests[r] EXCEPT !.pc = "done", !.answer = "lost",
                                  !.rotations = 0, !.user = None, !.token = None]
          BY <1>4, <3>2 DEF Restart
        <4>2. QED BY <1>0, <4>1 DEF Request
      <3>3. QED BY <3>1, <3>2
    <2>2. Stage["done"] = 7
      BY DEF Stage
    <2>3. QED BY <1>0, <1>1, <2>1, <2>2
  <1>5. \A s \in Sessions, c \in Clients, u \in Users, d \in Deployments, at \in 0..clock :
           IssueSession(s, c, u, d, at) => Same(r)
    BY DEF IssueSession, Same
  <1>6. (\E at \in 0..clock : OtherWriter(at)) \/ Tick \/ UNCHANGED vars => Same(r)
    BY DEF OtherWriter, Tick, vars, Same
  <1>7. requests[r].pc = "unsent" /\ requests'[r].pc = "lookup"
          => /\ Stage[requests'[r].pc] >= Stage[requests[r].pc]
             /\ requests[r].pc \notin RunningPcs
    BY DEF Stage, RunningPcs, StorePcs
  <1>8. Stage[requests'[r].pc] > Stage[requests[r].pc]
          => Stage[requests'[r].pc] >= Stage[requests[r].pc]
    <2>1. requests' \in [Requests -> Request]
      BY InvariantStep DEF IInv, TypeOK
    <2>2. requests'[r].pc \in RunningPcs \cup {"unsent", "done"}
      BY <2>1 DEF Request
    <2>3. Stage[requests'[r].pc] \in 0..7
      BY <2>2, StageFacts
    <2>4. QED BY <1>0, <2>3
  <1>9. QED BY <1>1, <1>2, <1>3, <1>4, <1>5, <1>6, <1>7, <1>8 DEF Next

AtLeast(r, n) == Stage[requests[r].pc] >= n

\* from one stage to the next
Reaches(r, n, m) == AtLeast(r, n) ~> AtLeast(r, m)

LEMMA StageReached ==
    ASSUME NEW r \in Requests, NEW n \in 1..6, NEW m \in 1..7, m = n + 1
    PROVE  FairSpec /\ []NeverStuck => Reaches(r, n, m)
  <1>1. IInv /\ AtLeast(r, n) /\ [Next]_vars => AtLeast(r, n)'
    <2> SUFFICES ASSUME IInv, AtLeast(r, n), [Next]_vars
                 PROVE  AtLeast(r, n)'
      OBVIOUS
    <2>1. Stage[requests[r].pc] \in 0..7 /\ Stage[requests'[r].pc] \in 0..7
      <3>1. requests[r] \in Request /\ requests'[r] \in Request
        BY InvariantStep DEF IInv, TypeOK
      <3>2. /\ requests[r].pc \in RunningPcs \cup {"unsent", "done"}
            /\ requests'[r].pc \in RunningPcs \cup {"unsent", "done"}
        BY <3>1, RequestFacts
      <3>3. QED BY <3>2, StageFacts
    <2>2. QED BY <2>1, StageGrows DEF AtLeast
  <1>2. IInv /\ AtLeast(r, n) /\ <<RequestStep(r)>>_vars => AtLeast(r, m)'
    <2> SUFFICES ASSUME IInv, AtLeast(r, n), RequestStep(r)
                 PROVE  AtLeast(r, m)'
      OBVIOUS
    <2>0. [Next]_vars
      BY DEF Next
    <2>1. Stage[requests[r].pc] \in 0..7 /\ Stage[requests'[r].pc] \in 0..7
      <3>1. requests[r] \in Request /\ requests'[r] \in Request
        BY <2>0, InvariantStep DEF IInv, TypeOK
      <3>2. /\ requests[r].pc \in RunningPcs \cup {"unsent", "done"}
            /\ requests'[r].pc \in RunningPcs \cup {"unsent", "done"}
        BY <3>1, RequestFacts
      <3>3. QED BY <3>2, StageFacts
    <2>2. QED BY <2>1, StepProgresses DEF AtLeast
  <1>3. IInv /\ AtLeast(r, n) /\ ~ Unfinished(r) => AtLeast(r, m)
    <2> SUFFICES ASSUME IInv, AtLeast(r, n), ~ Unfinished(r)
                 PROVE  AtLeast(r, m)
      OBVIOUS
    <2>1. requests[r].pc \in RunningPcs \cup {"unsent", "done"}
      BY RequestFacts DEF IInv, TypeOK
    <2>2. requests[r].pc \in {"unsent", "done"}
      BY <2>1 DEF Unfinished
    <2>3. QED BY <2>2 DEF AtLeast, Stage
  <1>4. FairSpec => Spec
    BY DEF FairSpec
  <1>5. QED
    BY <1>1, <1>2, <1>3, <1>4, FairRequest, Invariant, PTL
       DEF StepsOrRests, Spec, Reaches

Ended(r) == requests[r].pc = "done"

(* Every refresh that is running returns: no interleaving of other requests,  *)
(* of other writers, of the clock or of restarts keeps it in one of its steps *)
(* for ever, and its chain of fallbacks (conflict, revoke, search, revoke by   *)
(* replay) never leads back.                                                *)
RefreshesEnd == \A r \in Requests : Unfinished(r) ~> Ended(r)

LEMMA RefreshEnds ==
    ASSUME NEW r \in Requests
    PROVE  FairSpec /\ []NeverStuck => (Unfinished(r) ~> Ended(r))
  <1>1. IInv /\ Unfinished(r) => AtLeast(r, 1)
    BY StageFacts DEF Unfinished, AtLeast
  <1>2. IInv /\ AtLeast(r, 7) => Ended(r)
    <2> SUFFICES ASSUME IInv, AtLeast(r, 7) PROVE Ended(r)
      OBVIOUS
    <2>1. requests[r].pc \in RunningPcs \cup {"unsent", "done"}
      BY RequestFacts DEF IInv, TypeOK
    <2>2. Stage[requests[r].pc] = 7
      BY <2>1, StageFacts DEF AtLeast
    <2>3. QED BY <2>1, <2>2, StageFacts DEF Ended
  <1>3. /\ FairSpec /\ []NeverStuck => Reaches(r, 1, 2)
        /\ FairSpec /\ []NeverStuck => Reaches(r, 2, 3)
        /\ FairSpec /\ []NeverStuck => Reaches(r, 3, 4)
        /\ FairSpec /\ []NeverStuck => Reaches(r, 4, 5)
        /\ FairSpec /\ []NeverStuck => Reaches(r, 5, 6)
        /\ FairSpec /\ []NeverStuck => Reaches(r, 6, 7)
    BY StageReached
  <1>4. FairSpec => []IInv
    <2>1. FairSpec => Spec
      BY DEF FairSpec
    <2>2. QED BY <2>1, Invariant, PTL
  <1>5. QED BY <1>1, <1>2, <1>3, <1>4, PTL DEF Reaches

(* Every running refresh returns, for any number of sessions and requests.    *)
THEOREM RefreshTerminates == FairSpec /\ []NeverStuck => RefreshesEnd
  <1> SUFFICES ASSUME NEW r \in Requests
               PROVE  FairSpec /\ []NeverStuck => (Unfinished(r) ~> Ended(r))
    BY DEF RefreshesEnd
  <1>1. QED BY RefreshEnds

Punished(r, s) ==
    \/ ~ Live(s, requests[r].at)
    \/ requests[r].answer \in {"unavailable", "invalid_scope", "lost"}

\* A handle recorded as spent stays so while its session is stored, and it is
\* never the handle in the row.
LEMMA SpentStays ==
    ASSUME IInv, [Next]_vars, NEW s \in Sessions, NEW h \in Handles,
           [handle |-> h, session |-> s] \in history, sessions'[s] # None
    PROVE  /\ [handle |-> h, session |-> s] \in history'
           /\ Present(s) /\ FamilyOf(h) = s /\ h \in minted /\ sessions[s].handle # h
           /\ sessions'[s].client = sessions[s].client
  <1> DEFINE e == [handle |-> h, session |-> s]
  <1>1. Present(s)
    BY DEF IInv, HistoryIsComplete
  <1>2. FamilyOf(h) = s /\ h \in minted /\ sessions[s].handle # h /\ s \in minted
    BY <1>1 DEF IInv, HistoryIsComplete, RowsHoldMinted
  <1>3. e \in history'
    BY StoreStep DEF IInv, Fading, Issuing, Rotating, Cascades
  <1>4. sessions'[s].client = sessions[s].client
    <2>1. ~ Issuing(s)
      BY <1>2 DEF Issuing
    <2>2. QED BY <2>1, RowsStep, RotatingKeeps DEF Faded
  <1>5. QED BY <1>1, <1>2, <1>3, <1>4

\* As long as the request runs, the handle it presents is a spent one of s;
\* when it returns, the family is closed or the answer says what happened.
LEMMA PresentationStep ==
    ASSUME IInv, [Next]_vars, NEW r \in Requests, NEW s \in Sessions, SpentHandlePresented(r, s)
    PROVE  SpentHandlePresented(r, s)' \/ Punished(r, s)'
  <1> DEFINE h == requests[r].handle
  <1>0. /\ requests[r].pc \in RunningPcs /\ Present(s)
        /\ requests[r].client = sessions[s].client
        /\ [handle |-> h, session |-> s] \in history
    BY DEF SpentHandlePresented
  <1>1. h \in Handles
    BY <1>0 DEF IInv, TypeOK, RequestsKnowTheirFamily, RunningPcs, StorePcs
  <1>2. CASE sessions'[s] = None
    BY <1>2 DEF Punished, Live, Present
  <1>3. CASE sessions'[s] # None
    <2>1. /\ [handle |-> h, session |-> s] \in history'
          /\ FamilyOf(h) = s /\ h \in minted /\ sessions[s].handle # h
          /\ sessions'[s].client = sessions[s].client
      BY <1>0, <1>1, <1>3, SpentStays
    <2>2. requests'[r].handle = h /\ requests'[r].client = requests[r].client
      BY <1>0, RequestsStep
         DEF Same, Moved, Started, Snapped, Advanced, Carried, RunningPcs, StorePcs
    <2>3. CASE requests'[r].pc \in RunningPcs
      BY <1>0, <1>3, <2>1, <2>2, <2>3 DEF SpentHandlePresented, Present
    <2>4. CASE requests'[r].pc \notin RunningPcs
      <3>1. /\ Advanced(r) /\ requests'[r].pc = "done" /\ requests'[r].answer \in Answers
            /\ requests'[r].pc # "unsent"
        <4>1. Advanced(r)
          BY <1>0, <2>4, RequestsStep
             DEF Same, Moved, Started, Snapped, RunningPcs, StorePcs
        <4>2. requests'[r] \in Request
          BY InvariantStep DEF IInv, TypeOK
        <4>3. /\ requests'[r].pc \in RunningPcs \cup {"unsent", "done"}
              /\ requests'[r].answer \in Answers
          BY <4>2, RequestFacts
        <4>4. QED BY <2>4, <4>1, <4>3 DEF Advanced
      <3>2. requests'[r].answer # "none"
        BY <1>0, <3>1, StageGrows
      <3>3. requests'[r].answer # "token"
        <4>1. SUFFICES ASSUME Rotating(r, requests[r].session)
                       PROVE  FALSE
          BY <3>1 DEF Advanced
        <4>2. requests[r].session \in Sessions
          BY <4>1 DEF Rotating
        <4>3. requests[r].session = s
          BY <2>1, <4>1, <4>2, RotatingFacts
        <4>4. QED BY <2>1, <4>1, <4>3 DEF Rotating, Usable
      <3>4. CASE requests'[r].answer = "invalid_grant"
        <4>1. NextFamilyOf(h) = s
          BY <2>1, FamilyFrame
        <4>2. RejectionClosesFamily'
          BY InvariantStep DEF IInv
        <4>3. ~ LiveNext(s, requests'[r].at)
          BY <1>0, <2>1, <2>2, <3>4, <4>1, <4>2
             DEF RejectionClosesFamily, FamilyOf, NextFamilyOf, Live, LiveNext, Present
        <4>4. QED BY <4>3 DEF Punished, Live, LiveNext, Present
      <3>5. QED BY <3>1, <3>2, <3>3, <3>4 DEF Punished, Answers
    <2>5. QED BY <2>3, <2>4
  <1>4. QED BY <1>2, <1>3

(* Whoever presents a spent handle of a live family sees the family closed,   *)
(* unless the request is cut short by a failure or refused for its scope: it  *)
(* runs to its end, and on its way no step turns the spent handle into a      *)
(* working one or the answer into one that leaves the family open.           *)
THEOREM ReplayPunished == FairSpec /\ []NeverStuck => ReplayIsPunished
  <1> SUFFICES ASSUME NEW r \in Requests, NEW s \in Sessions
               PROVE  FairSpec /\ []NeverStuck
                        => (SpentHandlePresented(r, s) ~> Punished(r, s))
    BY DEF ReplayIsPunished, Punished
  <1>1. IInv /\ SpentHandlePresented(r, s) /\ [Next]_vars
          => SpentHandlePresented(r, s)' \/ Punished(r, s)'
    BY PresentationStep
  <1>2. SpentHandlePresented(r, s) => Unfinished(r)
    BY DEF SpentHandlePresented, Unfinished
  <1>3. Ended(r) => ~ SpentHandlePresented(r, s)
    BY DEF Ended, SpentHandlePresented, RunningPcs, StorePcs
  <1>4. FairSpec => Spec
    BY DEF FairSpec
  <1>5. QED BY <1>1, <1>2, <1>3, <1>4, RefreshEnds, Invariant, PTL DEF Spec
=============================================================================
