--------------------- MODULE AuthorizationServerProofs ---------------------
(***************************************************************************)
(* The authorization server implements RefreshSessions, so what             *)
(* RefreshProofs establishes holds in the server too; one authorization is  *)
(* worth one token; its session belongs to who asked, signed in and         *)
(* redeemed; and nobody is refused without a reason.  What clients and users *)
(* see of it all is ConsentedSessions.                                      *)
(***************************************************************************)
EXTENDS AuthorizationInvariants, RefreshProofs

-----------------------------------------------------------------------------
(* Refinement: every step of the server is one of RefreshSessions, or none  *)

LEMMA QuietTables == ASSUME TablesUnchanged PROVE UNCHANGED vars
  BY DEF TablesUnchanged, StoreUnchanged, vars

LEMMA AuthorizeImplements ==
    ASSUME TypeOK, ServerTypeOK, NEW a \in Authorizations, AuthorizeStep(a)
    PROVE  [Next]_vars
  <1>1. ASSUME NEW client \in Clients, Authorize(a, client) PROVE [Next]_vars
    BY <1>1, QuietTables DEF Authorize
  <1>2. CASE BeginUpstream(a)
    BY <1>2, QuietTables DEF BeginUpstream
  <1>3. CASE CreateTransaction(a)
    <2>1. authorizations[a].at \in 0..clock
      BY DEF ServerTypeOK, AuthorizationState, TypeOK
    <2>2. OtherWriter(authorizations[a].at) \/ UNCHANGED vars
      BY <1>3, QuietTables DEF CreateTransaction
    <2>3. QED
      BY <2>1, <2>2 DEF Next
  <1>4. QED
    BY <1>1, <1>2, <1>3 DEF AuthorizeStep

LEMMA CallbackImplements ==
    ASSUME TypeOK, ServerTypeOK, NEW c \in Callbacks, CallbackStep(c)
    PROVE  [Next]_vars
  <1>1. CASE CreateCode(c)
    <2>1. callbacks[c].at \in 0..clock
      BY DEF ServerTypeOK, CallbackState, TypeOK
    <2>2. OtherWriter(callbacks[c].at)
      BY <1>1 DEF CreateCode
    <2>3. QED
      BY <2>1, <2>2 DEF Next
  <1>2. CASE ConsumeTransaction(c)
    BY <1>2 DEF ConsumeTransaction, StoreUnchanged, vars
  <1>3. CASE ~ CreateCode(c) /\ ~ ConsumeTransaction(c)
    <2>1. TablesUnchanged
      BY <1>3 DEF CallbackStep, ReturnFromMicrosoft, TransactionRefused, EntraComplete,
                  ValidateTokenA, CallbackStoreFails
    <2>2. QED
      BY <2>1, QuietTables
  <1>4. QED
    BY <1>1, <1>2, <1>3

LEMMA ExchangeImplements ==
    ASSUME TypeOK, ServerTypeOK, NEW e \in Exchanges, ExchangeStep(e)
    PROVE  [Next]_vars
  <1>1. ASSUME NEW s \in Sessions, Issue(e, s) PROVE [Next]_vars
    <2> DEFINE x == exchanges[e]
    <2>1. x.at \in 0..clock
      BY DEF ServerTypeOK, ExchangeState, TypeOK
    <2>2. x.row \in CodeRow
      BY <1>1 DEF Issue, ServerTypeOK
    <2>3. x.row.client \in Clients /\ x.row.user \in Users /\ x.row.deployment \in Deployments
      BY <2>2 DEF CodeRow
    <2>4. IssueSession(s, x.row.client, x.row.user, x.row.deployment, x.at)
      BY <1>1 DEF Issue
    <2> HIDE DEF x
    <2>5. QED
      BY <2>1, <2>3, <2>4 DEF Next
  <1>2. CASE Redeem(e)
    BY <1>2 DEF Redeem, StoreUnchanged, vars
  <1>3. CASE ~ Redeem(e) /\ \A s \in Sessions : ~ Issue(e, s)
    <2>1. TablesUnchanged
      BY <1>3 DEF ExchangeStep, PresentCode, CodeRefused, CheckBundle, ExchangeStoreFails
    <2>2. QED
      BY <2>1, QuietTables
  <1>4. QED
    BY <1>1, <1>2, <1>3

LEMMA ServerStepImplements ==
    TypeOK /\ ServerTypeOK /\ [ServerNext]_serverVars => [Next]_vars
  <1> SUFFICES ASSUME TypeOK, ServerTypeOK, [ServerNext]_serverVars PROVE [Next]_vars
    OBVIOUS
  <1>1. ASSUME NEW r \in Requests, NEW h \in minted, NEW client \in Clients,
               Refresh(r, h, client)
        PROVE  [Next]_vars
    BY <1>1 DEF Refresh, Next
  <1>2. ASSUME NEW r \in Requests, RefreshStep(r) PROVE [Next]_vars
    BY <1>2 DEF RefreshStep, Next
  <1>3. CASE ServerRestart
    BY <1>3 DEF ServerRestart, Next
  <1>4. CASE ServerTick
    BY <1>4 DEF ServerTick, Next
  <1>5. CASE UNCHANGED serverVars
    BY <1>5 DEF serverVars
  <1>6. QED
    BY <1>1, <1>2, <1>3, <1>4, <1>5, AuthorizeImplements, CallbackImplements,
       ExchangeImplements DEF ServerNext

-----------------------------------------------------------------------------
(* Type correctness of the flow: one predicate for each kind of coroutine   *)

AuthorizationOK(q, now) ==
    /\ q \in AuthorizationState
    /\ q.at <= now
    /\ q.pc # "unsent" => q.client \in Clients

CallbackOK(q, now) ==
    /\ q \in CallbackState
    /\ q.at <= now
    /\ q.pc # "unsent" => q.state \in Authorizations
    /\ q.pc \in {"entra", "validate", "create"} =>
          q.client \in Clients /\ q.deployment \in Deployments
    /\ q.pc \in {"validate", "create"} => q.user \in Users

ExchangeOK(q, now) ==
    /\ q \in ExchangeState
    /\ q.at <= now
    /\ q.pc # "unsent" => q.code \in Callbacks
    /\ q.pc \in {"registry", "issue"} => q.row \in CodeRow

TablesOK ==
    /\ transactions \in [Authorizations -> TransactionRow \cup {None}]
    /\ codes \in [Callbacks -> CodeRow \cup {None}]

\* functions over the three sets of names, and every coroutine well-formed
CoroutinesOK ==
    /\ authorizations = [a \in Authorizations |-> authorizations[a]]
    /\ callbacks = [c \in Callbacks |-> callbacks[c]]
    /\ exchanges = [e \in Exchanges |-> exchanges[e]]
    /\ \A a \in Authorizations : AuthorizationOK(authorizations[a], clock)
    /\ \A c \in Callbacks : CallbackOK(callbacks[c], clock)
    /\ \A e \in Exchanges : ExchangeOK(exchanges[e], clock)

LEMMA ServerTypeParts == ServerTypeOK <=> TablesOK /\ CoroutinesOK
  <1>1. ServerTypeOK => TablesOK /\ CoroutinesOK
    BY DEF ServerTypeOK, TablesOK, CoroutinesOK, AuthorizationOK, CallbackOK, ExchangeOK
  <1>2. TablesOK /\ CoroutinesOK => ServerTypeOK
    BY DEF ServerTypeOK, TablesOK, CoroutinesOK, AuthorizationOK, CallbackOK, ExchangeOK
  <1>3. QED
    BY <1>1, <1>2

LEMMA LiveTables ==
    ASSUME TablesOK, NEW at
    PROVE  /\ LiveTransactions(at) \in [Authorizations -> TransactionRow \cup {None}]
           /\ LiveCodes(at) \in [Callbacks -> CodeRow \cup {None}]
           /\ \A a \in Authorizations : LiveTransactions(at)[a] \in {transactions[a], None}
           /\ \A c \in Callbacks : LiveCodes(at)[c] \in {codes[c], None}
  BY DEF TablesOK, LiveTransactions, LiveCodes

\* what a callback and an exchange that return leave of themselves
CallbackAnswers == {"code", "invalid_request", "access_denied", "server_error", "unavailable", "lost"}

LEMMA CallbackLeftFacts ==
    ASSUME NEW q \in CallbackState, NEW answer \in CallbackAnswers
    PROVE  /\ CallbackLeft(q, answer) \in CallbackState
           /\ CallbackLeft(q, answer).pc = "done" /\ CallbackLeft(q, answer).answer = answer
           /\ CallbackLeft(q, answer).state = q.state /\ CallbackLeft(q, answer).client = q.client
           /\ CallbackLeft(q, answer).at = 0
  BY DEF CallbackLeft, CallbackState, CallbackAnswers

ExchangeAnswers == {"token", "invalid_grant", "unavailable", "lost"}

LEMMA ExchangeLeftFacts ==
    ASSUME NEW x \in ExchangeState, NEW answer \in ExchangeAnswers
    PROVE  /\ ExchangeLeft(x, answer) \in ExchangeState
           /\ ExchangeLeft(x, answer).pc = "done" /\ ExchangeLeft(x, answer).answer = answer
           /\ ExchangeLeft(x, answer).code = x.code /\ ExchangeLeft(x, answer).row = x.row
           /\ ExchangeLeft(x, answer).session = x.session
           /\ ExchangeLeft(x, answer).at \in {x.at, 0}
           /\ x.row # None => /\ ExchangeLeft(x, answer).client = x.client
                              /\ ExchangeLeft(x, answer).verifier = x.verifier
  <1>1. CASE x.row = None
    <2> DEFINE new == [x EXCEPT !.pc = "done", !.answer = answer,
                                !.at = 0, !.client = None, !.verifier = None]
    <2>1. new \in ExchangeState
      BY DEF ExchangeState, ExchangeAnswers
    <2>2. /\ new.pc = "done" /\ new.answer = answer /\ new.at = 0
          /\ new.code = x.code /\ new.row = x.row /\ new.session = x.session
      BY DEF ExchangeState
    <2>3. ExchangeLeft(x, answer) = new
      BY <1>1 DEF ExchangeLeft
    <2> HIDE DEF new
    <2>4. QED
      BY <1>1, <2>1, <2>2, <2>3
  <1>2. CASE x.row # None
    BY <1>2 DEF ExchangeLeft, ExchangeState, ExchangeAnswers
  <1>3. QED
    BY <1>1, <1>2

\* an exchange that has redeemed a code returns with all it has
LEMMA CheckBundleEnds ==
    ASSUME NEW e, exchanges[e].row # None, CheckBundle(e)
    PROVE  \/ /\ exchanges[e].row.tokenExpiresAt <= exchanges[e].at
              /\ ExchangeEnds(e, "invalid_grant")
           \/ ExchangeEnds(e, "token")
           \/ exchanges' = [exchanges EXCEPT ![e] = [@ EXCEPT !.pc = "issue"]]
  BY DEF CheckBundle, ExchangeEnds, ExchangeLeft

\* a coroutine that is well-formed stays so as the clock advances (ClockAdvances)
LEMMA AuthorizationMoves ==
    ASSUME CoroutinesOK, NEW a \in Authorizations, NEW q, AuthorizationOK(q, clock),
           authorizations' = [authorizations EXCEPT ![a] = q],
           UNCHANGED <<clock, callbacks, exchanges>>
    PROVE  CoroutinesOK'
  BY DEF CoroutinesOK

LEMMA CallbackMoves ==
    ASSUME CoroutinesOK, NEW c \in Callbacks, NEW q, CallbackOK(q, clock),
           callbacks' = [callbacks EXCEPT ![c] = q],
           UNCHANGED <<clock, authorizations, exchanges>>
    PROVE  CoroutinesOK'
  BY DEF CoroutinesOK

LEMMA ExchangeMoves ==
    ASSUME CoroutinesOK, NEW e \in Exchanges, NEW q, ExchangeOK(q, clock),
           exchanges' = [exchanges EXCEPT ![e] = q],
           UNCHANGED <<clock, authorizations, callbacks>>
    PROVE  CoroutinesOK'
  BY DEF CoroutinesOK

LEMMA QuietTablesOK == TablesOK /\ TablesUnchanged => TablesOK' /\ clock' = clock
  BY DEF TablesOK, TablesUnchanged, StoreUnchanged, tables

LEMMA AuthorizeType ==
    ASSUME TypeOK, TablesOK, CoroutinesOK, NEW a \in Authorizations, AuthorizeStep(a)
    PROVE  TablesOK' /\ CoroutinesOK'
  <1> DEFINE q == authorizations[a]
  <1>1. AuthorizationOK(q, clock) /\ clock \in Nat
    BY DEF CoroutinesOK, TypeOK
  <1>2. ASSUME NEW client \in Clients, Authorize(a, client)
        PROVE  TablesOK' /\ CoroutinesOK'
    <2> DEFINE new == [q EXCEPT !.pc = "begin", !.client = client]
    <2>1. AuthorizationOK(new, clock)
      BY <1>1 DEF AuthorizationOK, AuthorizationState
    <2>2. authorizations' = [authorizations EXCEPT ![a] = new]
      BY <1>2 DEF Authorize
    <2> HIDE DEF new
    <2>3. QED
      BY <1>2, <2>1, <2>2, QuietTablesOK, AuthorizationMoves DEF Authorize
  <1>3. ASSUME NEW pc \in {"create", "done"}, NEW at \in Nat, at <= clock,
               NEW answer \in {"none", "redirect", "unavailable"}, q.pc # "unsent",
               AuthorizeGoto(a, pc, at, answer), UNCHANGED <<clock, callbacks, exchanges>>
        PROVE  CoroutinesOK'
    <2> DEFINE new == [q EXCEPT !.pc = pc, !.at = at, !.answer = answer]
    <2>1. AuthorizationOK(new, clock)
      BY <1>1, <1>3 DEF AuthorizationOK, AuthorizationState
    <2>2. authorizations' = [authorizations EXCEPT ![a] = new]
      BY <1>3 DEF AuthorizeGoto
    <2> HIDE DEF new
    <2>3. QED
      BY <1>3, <2>1, <2>2, AuthorizationMoves
  <1>4. CASE BeginUpstream(a)
    <2>1. TablesOK' /\ clock' = clock /\ q.pc # "unsent" /\ UNCHANGED <<callbacks, exchanges>>
      BY <1>4, QuietTablesOK DEF BeginUpstream
    <2>2. CASE AuthorizeGoto(a, "create", clock, "none")
      BY <1>1, <1>3, <2>1, <2>2
    <2>3. CASE AuthorizeGoto(a, "done", 0, "unavailable")
      BY <1>1, <1>3, <2>1, <2>3
    <2>4. QED
      BY <1>4, <2>2, <2>3, <2>1 DEF BeginUpstream
  <1>5. CASE CreateTransaction(a)
    <2>1. q.at \in Nat /\ q.at <= clock /\ q.client \in Clients /\ q.pc # "unsent"
      BY <1>1, <1>5 DEF CreateTransaction, AuthorizationOK, AuthorizationState
    <2>2. clock' = clock /\ UNCHANGED <<callbacks, exchanges>>
      BY <1>5, QuietTablesOK DEF CreateTransaction, OtherWriter
    <2>3. \/ AuthorizeGoto(a, "done", q.at, "redirect")
          \/ AuthorizeGoto(a, "done", 0, "unavailable")
      BY <1>5 DEF CreateTransaction
    <2>4. CoroutinesOK'
      BY <1>1, <1>3, <2>1, <2>2, <2>3
    <2>5. TablesOK'
      <3> DEFINE row == [client |-> q.client, deployment |-> deployment,
                         expiresAt |-> q.at + TransactionTtl, completed |-> FALSE]
      <3>1. row \in TransactionRow
        BY <2>1, ServerAssumption DEF TypeOK, TransactionRow
      <3>2. \/ /\ transactions' = [LiveTransactions(q.at) EXCEPT ![a] = row]
               /\ codes' = LiveCodes(q.at)
            \/ TablesUnchanged
        BY <1>5 DEF CreateTransaction
      <3> HIDE DEF row
      <3>3. QED
        BY <3>1, <3>2, LiveTables, QuietTablesOK DEF TablesOK
    <2>6. QED
      BY <2>4, <2>5
  <1>6. QED
    BY <1>2, <1>4, <1>5 DEF AuthorizeStep

LEMMA CallbackType ==
    ASSUME TypeOK, TablesOK, CoroutinesOK, NEW c \in Callbacks, CallbackStep(c)
    PROVE  TablesOK' /\ CoroutinesOK'
  <1> DEFINE q == callbacks[c]
  <1>1. CallbackOK(q, clock) /\ clock \in Nat /\ TokenLife \in Nat /\ CodeTtl \in Nat
    BY ServerAssumption DEF CoroutinesOK, TypeOK
  <1>2. ASSUME NEW new, CallbackOK(new, clock), callbacks' = [callbacks EXCEPT ![c] = new],
               UNCHANGED <<clock, authorizations, exchanges>>
        PROVE  CoroutinesOK'
    BY <1>2, CallbackMoves
  <1>3. ASSUME NEW answer \in {"invalid_request", "access_denied", "server_error", "unavailable"},
               q.pc # "unsent", CallbackEnds(c, answer),
               UNCHANGED <<clock, authorizations, exchanges>>
        PROVE  CoroutinesOK'
    <2> DEFINE new == CallbackLeft(q, answer)
    <2>1. CallbackOK(new, clock)
      BY <1>1, <1>3, CallbackLeftFacts DEF CallbackOK, CallbackAnswers
    <2>2. callbacks' = [callbacks EXCEPT ![c] = new]
      BY <1>3 DEF CallbackEnds
    <2> HIDE DEF new
    <2>3. QED
      BY <1>2, <1>3, <2>1, <2>2
  <1>4. ASSUME NEW a \in Authorizations, ReturnFromMicrosoft(c, a)
        PROVE  TablesOK' /\ CoroutinesOK'
    <2> DEFINE new == [q EXCEPT !.pc = "consume", !.at = clock, !.state = a]
    <2>1. CallbackOK(new, clock)
      <3>1. q \in CallbackState
        BY <1>1 DEF CallbackOK
      <3>2. new \in CallbackState
        BY <1>1, <3>1 DEF CallbackState
      <3>3. new.pc = "consume" /\ new.at = clock /\ new.state = a
        BY <3>1 DEF CallbackState
      <3> HIDE DEF new
      <3>4. QED
        BY <1>1, <3>2, <3>3 DEF CallbackOK
    <2>2. callbacks' = [callbacks EXCEPT ![c] = new]
      BY <1>4 DEF ReturnFromMicrosoft
    <2> HIDE DEF new
    <2>3. QED
      BY <1>2, <1>4, <2>1, <2>2, QuietTablesOK DEF ReturnFromMicrosoft
  <1>5. CASE ConsumeTransaction(c)
    <2> DEFINE a == q.state
               row == transactions[a]
    <2>1. clock' = clock /\ UNCHANGED <<codes, authorizations, exchanges>> /\ q.pc = "consume"
      BY <1>5 DEF ConsumeTransaction, StoreUnchanged
    <2>2. row # None
      BY <1>5 DEF ConsumeTransaction, TransactionUsable
    <2>3. a \in Authorizations => row \in TransactionRow
      BY <2>2 DEF TablesOK
    <2>4. a \in Authorizations
      BY <1>1, <2>1 DEF CallbackOK
    <2>5. TablesOK'
      <3>1. [row EXCEPT !.completed = TRUE] \in TransactionRow
        BY <2>3, <2>4 DEF TransactionRow
      <3>2. transactions' = [transactions EXCEPT ![a] = [row EXCEPT !.completed = TRUE]]
        BY <1>5 DEF ConsumeTransaction
      <3>3. QED
        BY <2>1, <2>4, <3>1, <3>2 DEF TablesOK
    <2>6. CASE CallbackEnds(c, "access_denied")
      BY <1>3, <2>1, <2>5, <2>6
    <2>7. CASE callbacks' = [callbacks EXCEPT ![c] =
                 [@ EXCEPT !.pc = "entra", !.client = row.client, !.deployment = row.deployment]]
      <3> DEFINE new == [q EXCEPT !.pc = "entra", !.client = row.client,
                                  !.deployment = row.deployment]
      <3>1. row.client \in Clients /\ row.deployment \in Deployments
        BY <2>3, <2>4 DEF TransactionRow
      <3>2. CallbackOK(new, clock)
        BY <1>1, <2>4, <3>1 DEF CallbackOK, CallbackState
      <3>3. callbacks' = [callbacks EXCEPT ![c] = new]
        BY <2>7
      <3> HIDE DEF new
      <3>4. QED
        BY <1>2, <2>1, <2>5, <3>2, <3>3
    <2>8. QED
      BY <1>5, <2>6, <2>7 DEF ConsumeTransaction
  <1>6. CASE TransactionRefused(c)
    BY <1>3, <1>6, QuietTablesOK DEF TransactionRefused
  <1>7. CASE EntraComplete(c)
    <2>1. TablesOK' /\ clock' = clock /\ UNCHANGED <<authorizations, exchanges>> /\ q.pc = "entra"
      BY <1>7, QuietTablesOK DEF EntraComplete
    <2>2. ASSUME NEW user \in Users, NEW life \in 1..TokenLife,
                 callbacks' = [callbacks EXCEPT ![c] =
                     [@ EXCEPT !.pc = "validate", !.user = user, !.tokenExpiresAt = clock + life]]
          PROVE  CoroutinesOK'
      <3> DEFINE expiry == clock + life
                 new == [q EXCEPT !.pc = "validate", !.user = user, !.tokenExpiresAt = expiry]
      <3>0. expiry \in Nat
        BY <1>1
      <3> HIDE DEF expiry
      <3>1. CallbackOK(new, clock)
        <4>1. q \in CallbackState
          BY <1>1 DEF CallbackOK
        <4>2. new \in CallbackState
          BY <3>0, <4>1 DEF CallbackState
        <4>3. /\ new.pc = "validate" /\ new.at = q.at /\ new.state = q.state
              /\ new.client = q.client /\ new.deployment = q.deployment /\ new.user = user
          BY <4>1 DEF CallbackState
        <4> HIDE DEF new
        <4>4. QED
          BY <1>1, <4>2, <4>3, <2>1 DEF CallbackOK
      <3>2. callbacks' = [callbacks EXCEPT ![c] = new]
        BY <2>2 DEF expiry
      <3> HIDE DEF new
      <3>3. QED
        BY <1>2, <2>1, <3>1, <3>2
    <2>3. QED
      BY <1>3, <1>7, <2>1, <2>2 DEF EntraComplete
  <1>8. CASE ValidateTokenA(c)
    <2>1. TablesOK' /\ clock' = clock /\ UNCHANGED <<authorizations, exchanges>> /\ q.pc = "validate"
      BY <1>8, QuietTablesOK DEF ValidateTokenA
    <2>2. CASE callbacks' = [callbacks EXCEPT ![c] = [@ EXCEPT !.pc = "create", !.at = clock]]
      <3> DEFINE new == [q EXCEPT !.pc = "create", !.at = clock]
      <3>1. CallbackOK(new, clock)
        <4>1. q \in CallbackState
          BY <1>1 DEF CallbackOK
        <4>2. new \in CallbackState
          BY <1>1, <4>1, <2>1 DEF CallbackState
        <4>3. /\ new.pc = "create" /\ new.at = clock /\ new.state = q.state
              /\ new.client = q.client /\ new.deployment = q.deployment /\ new.user = q.user
          BY <4>1 DEF CallbackState
        <4> HIDE DEF new
        <4>4. QED
          BY <1>1, <4>2, <4>3, <2>1 DEF CallbackOK
      <3>2. callbacks' = [callbacks EXCEPT ![c] = new]
        BY <2>2
      <3> HIDE DEF new
      <3>3. QED
        BY <1>2, <2>1, <3>1, <3>2
    <2>3. QED
      BY <1>3, <1>8, <2>1, <2>2 DEF ValidateTokenA
  <1>9. CASE CreateCode(c)
    <2>1. clock' = clock /\ UNCHANGED <<authorizations, exchanges>> /\ q.pc = "create"
      BY <1>9 DEF CreateCode, OtherWriter
    <2>2. CodeOf(c) \in CodeRow
      BY <1>1, <2>1 DEF CodeOf, CodeRow, CallbackOK, CallbackState
    <2>3. /\ transactions' = LiveTransactions(q.at)
          /\ codes' = [LiveCodes(q.at) EXCEPT ![c] = CodeOf(c)]
      BY <1>9 DEF CreateCode
    <2>4. TablesOK'
      BY <2>2, <2>3, LiveTables DEF TablesOK
    <2>5. CoroutinesOK'
      <3> DEFINE new == [q EXCEPT !.pc = "done", !.answer = "code"]
      <3>1. CallbackOK(new, clock)
        BY <1>1, <2>1 DEF CallbackOK, CallbackState
      <3>2. callbacks' = [callbacks EXCEPT ![c] = new]
        BY <1>9 DEF CreateCode
      <3> HIDE DEF new
      <3>3. QED
        BY <1>2, <2>1, <3>1, <3>2
    <2>6. QED
      BY <2>4, <2>5
  <1>10. CASE CallbackStoreFails(c)
    BY <1>3, <1>10, QuietTablesOK DEF CallbackStoreFails
  <1>11. QED
    BY <1>4, <1>5, <1>6, <1>7, <1>8, <1>9, <1>10 DEF CallbackStep

LEMMA ExchangeType ==
    ASSUME TypeOK, TablesOK, CoroutinesOK, NEW e \in Exchanges, ExchangeStep(e)
    PROVE  TablesOK' /\ CoroutinesOK'
  <1> DEFINE q == exchanges[e]
  <1>1. ExchangeOK(q, clock) /\ clock \in Nat
    BY DEF CoroutinesOK, TypeOK
  <1>2. ASSUME NEW new, ExchangeOK(new, clock), exchanges' = [exchanges EXCEPT ![e] = new],
               UNCHANGED <<clock, authorizations, callbacks>>
        PROVE  CoroutinesOK'
    BY <1>2, ExchangeMoves
  <1>3. ASSUME NEW answer \in {"token", "invalid_grant", "unavailable"}, q.pc # "unsent",
               ExchangeEnds(e, answer), UNCHANGED <<clock, authorizations, callbacks>>
        PROVE  CoroutinesOK'
    <2> DEFINE new == ExchangeLeft(q, answer)
    <2>1. ExchangeOK(new, clock)
      BY <1>1, <1>3, ExchangeLeftFacts DEF ExchangeOK, ExchangeAnswers
    <2>2. exchanges' = [exchanges EXCEPT ![e] = new]
      BY <1>3 DEF ExchangeEnds
    <2> HIDE DEF new
    <2>3. QED
      BY <1>2, <1>3, <2>1, <2>2
  <1>4. ASSUME NEW c \in Callbacks, NEW client \in Clients, NEW a \in Authorizations,
               PresentCode(e, c, client, a)
        PROVE  TablesOK' /\ CoroutinesOK'
    <2> DEFINE new == [q EXCEPT !.pc = "redeem", !.at = clock, !.code = c, !.client = client,
                                !.verifier = a]
    <2>1. ExchangeOK(new, clock)
      <3>1. q \in ExchangeState
        BY <1>1 DEF ExchangeOK
      <3>2. new \in ExchangeState
        BY <1>1, <3>1 DEF ExchangeState
      <3>3. new.pc = "redeem" /\ new.at = clock /\ new.code = c
        BY <3>1 DEF ExchangeState
      <3> HIDE DEF new
      <3>4. QED
        BY <1>1, <3>2, <3>3 DEF ExchangeOK
    <2>2. exchanges' = [exchanges EXCEPT ![e] = new]
      BY <1>4 DEF PresentCode
    <2> HIDE DEF new
    <2>3. QED
      BY <1>2, <1>4, <2>1, <2>2, QuietTablesOK DEF PresentCode
  <1>5. CASE Redeem(e)
    <2> DEFINE row == codes[q.code]
    <2>1. clock' = clock /\ UNCHANGED <<transactions, authorizations, callbacks>> /\ q.pc = "redeem"
      BY <1>5 DEF Redeem, StoreUnchanged
    <2>2. q.code \in Callbacks
      BY <1>1, <2>1 DEF ExchangeOK
    <2>3. row \in CodeRow
      BY <1>5, <2>2 DEF Redeem, CodeUsable, TablesOK
    <2>4. TablesOK'
      <3>1. [row EXCEPT !.used = TRUE] \in CodeRow
        BY <2>3 DEF CodeRow
      <3>2. codes' = [codes EXCEPT ![q.code] = [row EXCEPT !.used = TRUE]]
        BY <1>5 DEF Redeem
      <3>3. QED
        BY <2>1, <2>2, <3>1, <3>2 DEF TablesOK
    <2>5. ASSUME NEW new,
                 \/ new = [q EXCEPT !.pc = "registry", !.row = row]
                 \/ new = [q EXCEPT !.pc = "done", !.row = row, !.answer = "invalid_grant"]
          PROVE  ExchangeOK(new, clock)
      BY <1>1, <2>1, <2>2, <2>3, <2>5 DEF ExchangeOK, ExchangeState
    <2>6. CASE CodeBindingIsValid(row)
      <3>1. exchanges' = [exchanges EXCEPT ![e] = [q EXCEPT !.pc = "registry", !.row = row]]
        BY <1>5, <2>6 DEF Redeem
      <3>2. QED
        BY <1>2, <2>1, <2>4, <2>5, <3>1
    <2>7. CASE ~ CodeBindingIsValid(row)
      <3>1. exchanges' = [exchanges EXCEPT ![e] =
               [q EXCEPT !.pc = "done", !.row = row, !.answer = "invalid_grant"]]
        BY <1>5, <2>7 DEF Redeem
      <3>2. QED
        BY <1>2, <2>1, <2>4, <2>5, <3>1
    <2>8. QED
      BY <2>6, <2>7
  <1>6. CASE CodeRefused(e)
    BY <1>3, <1>6, QuietTablesOK DEF CodeRefused
  <1>7. CASE CheckBundle(e)
    <2>1. TablesOK' /\ clock' = clock /\ UNCHANGED <<authorizations, callbacks>> /\ q.pc = "registry"
      BY <1>7, QuietTablesOK DEF CheckBundle
    <2>2. \/ ExchangeEnds(e, "token") \/ ExchangeEnds(e, "invalid_grant")
          \/ exchanges' = [exchanges EXCEPT ![e] = [@ EXCEPT !.pc = "issue"]]
      BY <1>1, <1>7, <2>1, CheckBundleEnds, RowsAssumption DEF ExchangeOK
    <2>3. ExchangeOK([q EXCEPT !.pc = "issue"], clock)
      BY <1>1, <2>1 DEF ExchangeOK, ExchangeState
    <2>4. QED
      BY <1>2, <1>3, <2>1, <2>2, <2>3
  <1>8. ASSUME NEW s \in Sessions, Issue(e, s)
        PROVE  TablesOK' /\ CoroutinesOK'
    <2> DEFINE new == [q EXCEPT !.pc = "done", !.session = s, !.answer = "token"]
    <2>1. clock' = clock /\ UNCHANGED <<authorizations, callbacks>> /\ q.pc = "issue"
      BY <1>8 DEF Issue, IssueSession
    <2>2. ExchangeOK(new, clock)
      BY <1>1, <2>1 DEF ExchangeOK, ExchangeState
    <2>3. exchanges' = [exchanges EXCEPT ![e] = new]
      BY <1>8 DEF Issue
    <2>4. TablesOK'
      BY <1>8, LiveTables DEF Issue, TablesOK
    <2> HIDE DEF new
    <2>5. QED
      BY <1>2, <2>1, <2>2, <2>3, <2>4
  <1>9. CASE ExchangeStoreFails(e)
    <2>1. q.pc # "unsent"
      BY <1>9 DEF ExchangeStoreFails
    <2>2. QED
      BY <1>3, <1>9, <2>1, QuietTablesOK DEF ExchangeStoreFails
  <1>10. QED
    BY <1>4, <1>5, <1>6, <1>7, <1>8, <1>9 DEF ExchangeStep

LEMMA ReclaimsTables == ASSUME TablesOK, NEW at,
                               transactions' = LiveTransactions(at), codes' = LiveCodes(at)
                        PROVE  TablesOK'
  BY LiveTables DEF TablesOK

\* a restart ends every coroutine where it stands
LEMMA RestartType ==
    ASSUME TypeOK, TablesOK, CoroutinesOK, ServerRestart
    PROVE  TablesOK' /\ CoroutinesOK'
  <1>1. TablesOK' /\ clock' = clock
    BY ReclaimsTables DEF ServerRestart, Restart
  <1>2. \A a \in Authorizations : AuthorizationOK(authorizations'[a], clock)
    <2> SUFFICES ASSUME NEW a \in Authorizations
                 PROVE  AuthorizationOK(authorizations'[a], clock)
      OBVIOUS
    <2>1. AuthorizationOK(authorizations[a], clock)
      BY DEF CoroutinesOK
    <2>2. authorizations[a].pc # "unsent" =>
             AuthorizationOK([authorizations[a] EXCEPT !.pc = "done", !.at = 0,
                                                       !.answer = "lost"], clock)
      <3> DEFINE new == [authorizations[a] EXCEPT !.pc = "done", !.at = 0, !.answer = "lost"]
      <3>1. /\ new \in AuthorizationState /\ new.at = 0
            /\ new.client = authorizations[a].client
        BY <2>1 DEF AuthorizationOK, AuthorizationState
      <3> HIDE DEF new
      <3>2. AuthorizationOK(new, clock) \/ authorizations[a].pc = "unsent"
        BY <2>1, <3>1 DEF AuthorizationOK, TypeOK
      <3>3. QED
        BY <3>2 DEF new
    <2>3. QED
      BY <2>1, <2>2 DEF ServerRestart
  <1>3. \A c \in Callbacks : CallbackOK(callbacks'[c], clock)
    <2> SUFFICES ASSUME NEW c \in Callbacks PROVE CallbackOK(callbacks'[c], clock)
      OBVIOUS
    <2>1. CallbackOK(callbacks[c], clock)
      BY DEF CoroutinesOK
    <2>2. callbacks[c].pc # "unsent" =>
             CallbackOK(CallbackLeft(callbacks[c], "lost"), clock)
      BY <2>1, CallbackLeftFacts DEF CallbackOK, CallbackAnswers, TypeOK
    <2>3. QED
      BY <2>1, <2>2 DEF ServerRestart
  <1>4. \A e \in Exchanges : ExchangeOK(exchanges'[e], clock)
    <2> SUFFICES ASSUME NEW e \in Exchanges PROVE ExchangeOK(exchanges'[e], clock)
      OBVIOUS
    <2>1. ExchangeOK(exchanges[e], clock)
      BY DEF CoroutinesOK
    <2>2. exchanges[e].pc # "unsent" =>
             ExchangeOK(ExchangeLeft(exchanges[e], "lost"), clock)
      BY <2>1, ExchangeLeftFacts DEF ExchangeOK, ExchangeAnswers, TypeOK
    <2>3. QED
      BY <2>1, <2>2 DEF ServerRestart
  <1>5. CoroutinesOK'
    BY <1>1, <1>2, <1>3, <1>4 DEF CoroutinesOK, ServerRestart
  <1>6. QED
    BY <1>1, <1>5

LEMMA CoroutinesWait ==
    ASSUME TypeOK, TypeOK', [Next]_vars, CoroutinesOK, UNCHANGED coroutines
    PROVE  CoroutinesOK'
  <1>1. clock \in Nat /\ clock' \in Nat /\ clock <= clock'
    BY ClockAdvances
  <1>2. UNCHANGED <<authorizations, callbacks, exchanges>>
    BY DEF coroutines
  <1>3. \A q : AuthorizationOK(q, clock) => AuthorizationOK(q, clock')
    BY <1>1 DEF AuthorizationOK, AuthorizationState
  <1>4. \A q : CallbackOK(q, clock) => CallbackOK(q, clock')
    BY <1>1 DEF CallbackOK, CallbackState
  <1>5. \A q : ExchangeOK(q, clock) => ExchangeOK(q, clock')
    BY <1>1 DEF ExchangeOK, ExchangeState
  <1>6. QED
    BY <1>2, <1>3, <1>4, <1>5 DEF CoroutinesOK

LEMMA ServerTypeStep ==
    ASSUME TypeOK, TypeOK', ServerTypeOK, [ServerNext]_serverVars
    PROVE  ServerTypeOK'
  <1> SUFFICES TablesOK' /\ CoroutinesOK'
    BY DEF ServerTypeOK, TablesOK, CoroutinesOK, AuthorizationOK, CallbackOK, ExchangeOK
  <1>1. TablesOK /\ CoroutinesOK
    BY ServerTypeParts
  <1>2. [Next]_vars
    BY ServerStepImplements
  <1>3. CASE \/ \E a \in Authorizations : AuthorizeStep(a)
             \/ \E c \in Callbacks : CallbackStep(c)
             \/ \E e \in Exchanges : ExchangeStep(e)
             \/ ServerRestart
    BY <1>1, <1>3, AuthorizeType, CallbackType, ExchangeType, RestartType
  <1>4. ASSUME NEW r \in Requests, NEW h, NEW client, Refresh(r, h, client)
        PROVE  TablesOK' /\ CoroutinesOK'
    BY <1>1, <1>2, <1>4, CoroutinesWait DEF Refresh, TablesOK, tables
  <1>5. ASSUME NEW r \in Requests, RefreshStep(r)
        PROVE  TablesOK' /\ CoroutinesOK'
    <2>1. UNCHANGED coroutines
      BY <1>5 DEF RefreshStep
    <2>2. TablesOK'
      <3>1. CASE UNCHANGED tables
        BY <1>1, <3>1 DEF TablesOK, tables
      <3>2. CASE /\ transactions' = LiveTransactions(requests[r].at)
                 /\ codes' = LiveCodes(requests[r].at)
        BY <1>1, <3>2, ReclaimsTables
      <3>3. QED
        BY <1>5, <3>1, <3>2 DEF RefreshStep
    <2>3. QED
      BY <1>1, <1>2, <2>1, <2>2, CoroutinesWait
  <1>6. CASE ServerTick \/ UNCHANGED serverVars
    <2>1. UNCHANGED <<tables, coroutines>>
      BY <1>6 DEF ServerTick, serverVars
    <2>2. QED
      BY <1>1, <1>2, <2>1, CoroutinesWait DEF TablesOK, tables
  <1>7. QED
    BY <1>3, <1>4, <1>5, <1>6 DEF ServerNext

LEMMA ServerTypeInit == ServerInit => ServerTypeOK
  BY TypeInit DEF ServerInit, ServerTypeOK, Init, TypeOK, AuthorizationState, CallbackState,
                  ExchangeState

-----------------------------------------------------------------------------
(* The theorems *)

LEMMA ServerStep ==
    TypeOK /\ ServerTypeOK /\ [ServerNext]_serverVars =>
        TypeOK' /\ ServerTypeOK' /\ [Next]_vars
  BY ServerStepImplements, TypeStep, ServerTypeStep

LEMMA ServerTypes == ServerSpec => [](TypeOK /\ ServerTypeOK)
  <1>1. ServerInit => TypeOK /\ ServerTypeOK
    BY TypeInit, ServerTypeInit DEF ServerInit
  <1>2. QED
    BY <1>1, ServerStep, PTL DEF ServerSpec

(* Type correctness of the tables and coroutines of the server.             *)
THEOREM ServerTypeCorrect == ServerSpec => []ServerTypeOK
  BY ServerTypes, PTL

(* The refresh sessions behave inside the server (oauth/authorization.py     *)
(* exchange and refresh over the shared tables) as RefreshSessions assumes:  *)
(* every step of the server is a step of theirs or leaves them alone.        *)
THEOREM ServerRefinement == ServerSpec => ImplementsRefreshSessions
  <1>1. ServerInit => Init
    BY DEF ServerInit
  <1>2. QED
    BY <1>1, ServerStepImplements, ServerTypes, PTL DEF ServerSpec, ImplementsRefreshSessions, Spec

(* So the whole server rotates a handle at most once ...                     *)
THEOREM ServerSingleUse == ServerSpec => []OneRotationPerHandle
  BY ServerRefinement, SingleUse, PTL DEF ImplementsRefreshSessions

(* ... and a client of the server told invalid_grant may drop its session.   *)
THEOREM ServerRejection == ServerSpec => []RejectionClosesFamily
  BY ServerRefinement, RejectionCorrect, PTL DEF ImplementsRefreshSessions

-----------------------------------------------------------------------------
(* One authorization is worth one token: FlowInv is preserved by every step  *)
(* of the server, and implies OneTokenPerAuthorization.                      *)

FlowOK == TypeOK /\ TablesOK /\ CoroutinesOK /\ FlowInv

LEMMA CallbackFacts ==
    ASSUME FlowOK, NEW c \in Callbacks
    PROVE  /\ callbacks[c] \in CallbackState
           /\ callbacks[c].pc # "unsent" =>
                 /\ callbacks[c].state \in Authorizations
                 /\ authorizations[callbacks[c].state].answer = "redirect"
           /\ callbacks[c].pc \in {"entra", "validate", "create"} => callbacks[c].client # None
           /\ callbacks[c].pc # "done" => callbacks[c].answer = "none"
           /\ callbacks[c].pc \in {"unsent", "consume"} => ~ Consumed(c)
           /\ callbacks[c].answer = "code" => Consumed(c)
  <1>1. CallbackOK(callbacks[c], clock)
    BY DEF FlowOK, CoroutinesOK
  <1>2. None \notin Clients
    BY NamesAssumption
  <1>3. QED
    BY <1>1, <1>2 DEF CallbackOK, FlowOK, FlowInv, TransactionsFollowRedirects,
                      ConsumedAtMostOnce, CodesFollowCallbacks, Consumed

LEMMA ExchangeFacts ==
    ASSUME FlowOK, NEW e \in Exchanges
    PROVE  /\ exchanges[e] \in ExchangeState
           /\ exchanges[e].pc # "unsent" =>
                 /\ exchanges[e].code \in Callbacks
                 /\ callbacks[exchanges[e].code].answer = "code"
           /\ Redeemed(e) => exchanges[e].pc \notin {"unsent", "redeem"}
  <1>1. ExchangeOK(exchanges[e], clock)
    BY DEF FlowOK, CoroutinesOK
  <1>2. QED
    BY <1>1 DEF ExchangeOK, FlowOK, FlowInv, RedeemedAtMostOnce

LEMMA BundleRow ==
    ASSUME FlowOK, NEW e \in Exchanges, exchanges[e].pc = "registry"
    PROVE  exchanges[e].row # None
  <1>1. ExchangeOK(exchanges[e], clock)
    BY DEF FlowOK, CoroutinesOK
  <1>2. QED
    BY <1>1, RowsAssumption DEF ExchangeOK

\* Reclaiming takes rows, and completes or frees nothing.
LEMMA FlowReclaims ==
    ASSUME FlowOK, NEW at,
           transactions' = LiveTransactions(at) \/ UNCHANGED transactions,
           codes' = LiveCodes(at) \/ UNCHANGED codes,
           UNCHANGED coroutines
    PROVE  FlowInv'
  <1>0. UNCHANGED <<authorizations, callbacks, exchanges>>
    BY DEF coroutines
  <1>1. \A a \in Authorizations : transactions'[a] \in {transactions[a], None}
    BY LiveTables DEF FlowOK
  <1>2. \A c \in Callbacks : codes'[c] \in {codes[c], None}
    BY LiveTables DEF FlowOK
  <1>3. TransactionsFollowRedirects'
    BY <1>0, <1>1 DEF FlowOK, FlowInv, TransactionsFollowRedirects
  <1>4. ConsumedAtMostOnce'
    <2>1. \A c \in Callbacks : Consumed(c)' <=> Consumed(c)
      BY <1>0 DEF Consumed
    <2>2. ASSUME NEW c \in Callbacks, Consumed(c)
          PROVE  \/ transactions'[callbacks[c].state] = None
                 \/ transactions'[callbacks[c].state].completed
      <3>1. callbacks[c].state \in Authorizations
        BY <2>2, CallbackFacts DEF CallbackState
      <3>2. QED
        BY <1>1, <2>2, <3>1 DEF FlowOK, FlowInv, ConsumedAtMostOnce
    <2>3. QED
      BY <1>0, <2>1, <2>2 DEF FlowOK, FlowInv, ConsumedAtMostOnce
  <1>5. CodesFollowCallbacks'
    BY <1>0, <1>2 DEF FlowOK, FlowInv, CodesFollowCallbacks
  <1>6. RedeemedAtMostOnce'
    <2>1. \A e \in Exchanges : Redeemed(e)' <=> Redeemed(e)
      BY <1>0 DEF Redeemed
    <2>2. ASSUME NEW e \in Exchanges, Redeemed(e)
          PROVE  codes'[exchanges[e].code] = None \/ codes'[exchanges[e].code].used
      <3>1. exchanges[e].code \in Callbacks
        BY <2>2, ExchangeFacts
      <3>2. QED
        BY <1>2, <2>2, <3>1 DEF FlowOK, FlowInv, RedeemedAtMostOnce
    <2>3. QED
      BY <1>0, <2>1, <2>2 DEF FlowOK, FlowInv, RedeemedAtMostOnce
  <1>7. QED
    BY <1>3, <1>4, <1>5, <1>6 DEF FlowInv

\* An authorize request moves without touching the tables of codes.
LEMMA FlowAuthorizes ==
    ASSUME FlowOK, NEW a \in Authorizations, NEW q,
           authorizations' = [authorizations EXCEPT ![a] = q],
           authorizations[a].answer = "none",
           q.pc # "done" => q.answer = "none",
           \A b \in Authorizations \ {a} : transactions'[b] \in {transactions[b], None},
           q.answer # "redirect" => transactions'[a] \in {transactions[a], None},
           \A c \in Callbacks : codes'[c] \in {codes[c], None},
           UNCHANGED <<callbacks, exchanges>>
    PROVE  FlowInv'
  <1>1. authorizations'[a] = q
        /\ \A b \in Authorizations \ {a} : authorizations'[b] = authorizations[b]
    BY DEF FlowOK, CoroutinesOK
  <1>2. \A c \in Callbacks : callbacks[c].pc # "unsent" => callbacks[c].state # a
    BY CallbackFacts
  <1>3. TransactionsFollowRedirects'
    BY <1>1, <1>2, CallbackFacts DEF FlowOK, FlowInv, TransactionsFollowRedirects
  <1>4. ConsumedAtMostOnce'
    <2>1. \A c \in Callbacks : Consumed(c)' <=> Consumed(c)
      BY DEF Consumed
    <2>2. ASSUME NEW c \in Callbacks, Consumed(c)
          PROVE  \/ transactions'[callbacks[c].state] = None
                 \/ transactions'[callbacks[c].state].completed
      <3>1. callbacks[c].state \in Authorizations \ {a}
        BY <1>2, <2>2, CallbackFacts
      <3>2. QED
        BY <2>2, <3>1 DEF FlowOK, FlowInv, ConsumedAtMostOnce
    <2>3. QED
      BY <2>1, <2>2 DEF FlowOK, FlowInv, ConsumedAtMostOnce
  <1>5. CodesFollowCallbacks'
    BY DEF FlowOK, FlowInv, CodesFollowCallbacks
  <1>6. RedeemedAtMostOnce'
    <2>1. \A e \in Exchanges : Redeemed(e)' <=> Redeemed(e)
      BY DEF Redeemed
    <2>2. ASSUME NEW e \in Exchanges, Redeemed(e)
          PROVE  codes'[exchanges[e].code] = None \/ codes'[exchanges[e].code].used
      <3>1. exchanges[e].code \in Callbacks
        BY <2>2, ExchangeFacts
      <3>2. QED
        BY <2>2, <3>1 DEF FlowOK, FlowInv, RedeemedAtMostOnce
    <2>3. QED
      BY <2>1, <2>2 DEF FlowOK, FlowInv, RedeemedAtMostOnce
  <1>7. QED
    BY <1>3, <1>4, <1>5, <1>6 DEF FlowInv

\* A callback moves: it consumes the transaction at most with the step that
\* marks the row, and its code appears with its answer.
ConsumedIn(q) == q.client # None \/ q.answer = "access_denied"

LEMMA FlowCallsBack ==
    ASSUME FlowOK, NEW c \in Callbacks, NEW q,
           callbacks' = [callbacks EXCEPT ![c] = q],
           callbacks[c].pc # "done",
           q.pc # "unsent", q.state \in Authorizations,
           authorizations[q.state].answer = "redirect",
           callbacks[c].pc # "unsent" => q.state = callbacks[c].state,
           q.pc # "done" => q.answer = "none",
           q.pc = "consume" => q.client = None,
           q.answer = "code" => q.client # None,
           ConsumedIn(q) /\ ~ Consumed(c) =>
              /\ transactions'[q.state].completed
              /\ ~ \E other \in Callbacks : Consumed(other) /\ callbacks[other].state = q.state,
           \A a \in Authorizations :
              \/ transactions'[a] \in {transactions[a], None}
              \/ transactions'[a].completed /\ authorizations[a].answer = "redirect",
           \A d \in Callbacks \ {c} : codes'[d] \in {codes[d], None},
           codes'[c] \in {codes[c], None} \/ q.answer = "code",
           UNCHANGED <<authorizations, exchanges>>
    PROVE  FlowInv'
  <1>1. callbacks'[c] = q /\ \A d \in Callbacks \ {c} : callbacks'[d] = callbacks[d]
    BY DEF FlowOK, CoroutinesOK
  <1>2. callbacks[c].answer = "none" /\ codes[c] = None
    BY CallbackFacts DEF FlowOK, FlowInv, CodesFollowCallbacks
  <1>3. TransactionsFollowRedirects'
    BY <1>1 DEF FlowOK, FlowInv, TransactionsFollowRedirects
  <1>4. ConsumedAtMostOnce'
    <2>1. Consumed(c)' <=> ConsumedIn(q)
      BY <1>1 DEF Consumed, ConsumedIn
    <2>2. \A d \in Callbacks \ {c} : Consumed(d)' <=> Consumed(d)
      BY <1>1 DEF Consumed
    <2>3. \A d \in Callbacks : Consumed(d) => callbacks[d].pc \notin {"unsent", "consume"}
      BY CallbackFacts
    <2>4. ASSUME NEW d \in Callbacks, Consumed(d)
          PROVE  LET a == callbacks[d].state
                 IN  transactions'[a] = None \/ transactions'[a].completed
      <3>1. callbacks[d].state \in Authorizations
        BY <2>4, CallbackFacts
      <3>2. QED
        BY <2>4, <3>1 DEF FlowOK, FlowInv, ConsumedAtMostOnce
    <2>5. ASSUME NEW d \in Callbacks, Consumed(d)'
          PROVE  \/ transactions'[callbacks'[d].state] = None
                 \/ transactions'[callbacks'[d].state].completed
      <3>1. CASE d # c
        BY <1>1, <2>2, <2>4, <2>5, <3>1
      <3>2. CASE d = c /\ Consumed(c)
        BY <1>1, <2>3, <2>4, <3>2
      <3>3. CASE d = c /\ ~ Consumed(c)
        BY <1>1, <2>1, <2>5, <3>3
      <3>4. QED
        BY <3>1, <3>2, <3>3
    <2>6. ASSUME NEW c1 \in Callbacks, NEW c2 \in Callbacks, Consumed(c1)', Consumed(c2)',
                 callbacks'[c1].state = callbacks'[c2].state
          PROVE  c1 = c2
      <3>1. \A c3, c4 \in Callbacks :
               Consumed(c3) /\ Consumed(c4) /\ callbacks[c3].state = callbacks[c4].state => c3 = c4
        BY DEF FlowOK, FlowInv, ConsumedAtMostOnce
      <3>2. ASSUME NEW d \in Callbacks \ {c}, Consumed(d), ConsumedIn(q),
                   callbacks[d].state = q.state
            PROVE  FALSE
        BY <2>3, <3>1, <3>2
      <3>3. CASE c1 # c /\ c2 # c
        BY <1>1, <2>2, <2>6, <3>1, <3>3
      <3>4. CASE c1 = c /\ c2 # c
        BY <1>1, <2>1, <2>2, <2>6, <3>2, <3>4
      <3>5. CASE c1 # c /\ c2 = c
        BY <1>1, <2>1, <2>2, <2>6, <3>2, <3>5
      <3>6. QED
        BY <3>3, <3>4, <3>5
    <2>7. \A d \in Callbacks :
             /\ callbacks'[d].pc # "done" => callbacks'[d].answer = "none"
             /\ callbacks'[d].pc \in {"unsent", "consume"} => callbacks'[d].client = None
      BY <1>1 DEF FlowOK, FlowInv, ConsumedAtMostOnce
    <2>8. QED
      BY <2>5, <2>6, <2>7 DEF ConsumedAtMostOnce
  <1>5. CodesFollowCallbacks'
    BY <1>1, <1>2 DEF FlowOK, FlowInv, CodesFollowCallbacks
  <1>6. RedeemedAtMostOnce'
    <2>1. \A e \in Exchanges : Redeemed(e)' <=> Redeemed(e)
      BY DEF Redeemed
    <2>2. \A e \in Exchanges : exchanges[e].pc # "unsent" => exchanges[e].code \in Callbacks \ {c}
      BY <1>2, ExchangeFacts
    <2>3. ASSUME NEW e \in Exchanges, Redeemed(e)
          PROVE  codes'[exchanges[e].code] = None \/ codes'[exchanges[e].code].used
      <3>1. exchanges[e].code \in Callbacks \ {c}
        BY <2>2, <2>3, ExchangeFacts
      <3>2. QED
        BY <2>3, <3>1 DEF FlowOK, FlowInv, RedeemedAtMostOnce
    <2>4. QED
      BY <1>1, <2>1, <2>2, <2>3 DEF FlowOK, FlowInv, RedeemedAtMostOnce
  <1>7. QED
    BY <1>3, <1>4, <1>5, <1>6 DEF FlowInv

\* An exchange moves: it holds a code only from the step that marks its row.
LEMMA FlowExchanges ==
    ASSUME FlowOK, NEW e \in Exchanges, NEW q,
           exchanges' = [exchanges EXCEPT ![e] = q],
           exchanges[e].pc # "done",
           q.pc # "unsent", q.code \in Callbacks, callbacks[q.code].answer = "code",
           exchanges[e].pc # "unsent" => q.code = exchanges[e].code,
           q.pc = "redeem" => q.row = None,
           q.row # None /\ ~ Redeemed(e) =>
              /\ codes'[q.code].used
              /\ ~ \E other \in Exchanges : Redeemed(other) /\ exchanges[other].code = q.code,
           \A c \in Callbacks :
              \/ codes'[c] \in {codes[c], None}
              \/ codes'[c].used /\ callbacks[c].answer = "code",
           \A a \in Authorizations : transactions'[a] \in {transactions[a], None},
           UNCHANGED <<authorizations, callbacks>>
    PROVE  FlowInv'
  <1>1. exchanges'[e] = q /\ \A x \in Exchanges \ {e} : exchanges'[x] = exchanges[x]
    BY DEF FlowOK, CoroutinesOK
  <1>2. TransactionsFollowRedirects'
    BY DEF FlowOK, FlowInv, TransactionsFollowRedirects
  <1>3. ConsumedAtMostOnce'
    <2>1. \A c \in Callbacks : Consumed(c)' <=> Consumed(c)
      BY DEF Consumed
    <2>2. ASSUME NEW c \in Callbacks, Consumed(c)
          PROVE  \/ transactions'[callbacks[c].state] = None
                 \/ transactions'[callbacks[c].state].completed
      <3>1. callbacks[c].state \in Authorizations
        BY <2>2, CallbackFacts
      <3>2. QED
        BY <2>2, <3>1 DEF FlowOK, FlowInv, ConsumedAtMostOnce
    <2>3. QED
      BY <2>1, <2>2 DEF FlowOK, FlowInv, ConsumedAtMostOnce
  <1>4. CodesFollowCallbacks'
    BY DEF FlowOK, FlowInv, CodesFollowCallbacks
  <1>5. RedeemedAtMostOnce'
    <2>1. Redeemed(e)' <=> q.row # None
      BY <1>1 DEF Redeemed
    <2>2. \A x \in Exchanges \ {e} : Redeemed(x)' <=> Redeemed(x)
      BY <1>1 DEF Redeemed
    <2>3. ASSUME NEW x \in Exchanges, Redeemed(x)
          PROVE  codes'[exchanges[x].code] = None \/ codes'[exchanges[x].code].used
      <3>1. exchanges[x].code \in Callbacks
        BY <2>3, ExchangeFacts
      <3>2. QED
        BY <2>3, <3>1 DEF FlowOK, FlowInv, RedeemedAtMostOnce
    <2>4. Redeemed(e) => exchanges[e].code = q.code
      BY ExchangeFacts
    <2>5. ASSUME NEW x \in Exchanges, Redeemed(x)'
          PROVE  codes'[exchanges'[x].code] = None \/ codes'[exchanges'[x].code].used
      <3>1. CASE x # e
        BY <1>1, <2>2, <2>3, <2>5, <3>1
      <3>2. CASE x = e /\ Redeemed(e)
        BY <1>1, <2>3, <2>4, <3>2
      <3>3. CASE x = e /\ ~ Redeemed(e)
        BY <1>1, <2>1, <2>5, <3>3
      <3>4. QED
        BY <3>1, <3>2, <3>3
    <2>6. ASSUME NEW e1 \in Exchanges, NEW e2 \in Exchanges, Redeemed(e1)', Redeemed(e2)',
                 exchanges'[e1].code = exchanges'[e2].code
          PROVE  e1 = e2
      <3>1. \A e3, e4 \in Exchanges :
               Redeemed(e3) /\ Redeemed(e4) /\ exchanges[e3].code = exchanges[e4].code => e3 = e4
        BY DEF FlowOK, FlowInv, RedeemedAtMostOnce
      <3>2. ASSUME NEW x \in Exchanges \ {e}, Redeemed(x), q.row # None,
                   exchanges[x].code = q.code
            PROVE  FALSE
        BY <2>4, <3>1, <3>2
      <3>3. CASE e1 # e /\ e2 # e
        BY <1>1, <2>2, <2>6, <3>1, <3>3
      <3>4. CASE e1 = e /\ e2 # e
        BY <1>1, <2>1, <2>2, <2>6, <3>2, <3>4
      <3>5. CASE e1 # e /\ e2 = e
        BY <1>1, <2>1, <2>2, <2>6, <3>2, <3>5
      <3>6. QED
        BY <3>3, <3>4, <3>5
    <2>7. \A x \in Exchanges :
             /\ exchanges'[x].pc # "unsent" => callbacks[exchanges'[x].code].answer = "code"
             /\ exchanges'[x].pc \in {"unsent", "redeem"} => exchanges'[x].row = None
      BY <1>1 DEF FlowOK, FlowInv, RedeemedAtMostOnce, Redeemed
    <2>8. QED
      BY <2>5, <2>6, <2>7 DEF RedeemedAtMostOnce, Redeemed
  <1>6. QED
    BY <1>2, <1>3, <1>4, <1>5 DEF FlowInv

LEMMA FlowAuthorizeStep ==
    ASSUME FlowOK, NEW a \in Authorizations, AuthorizeStep(a)
    PROVE  FlowInv'
  <1> DEFINE q == authorizations[a]
  <1>1. q \in AuthorizationState /\ (q.pc # "done" => q.answer = "none")
    BY DEF FlowOK, CoroutinesOK, AuthorizationOK, FlowInv, TransactionsFollowRedirects
  <1>2. TablesUnchanged => transactions' = transactions /\ codes' = codes
    BY DEF TablesUnchanged, tables
  <1>3. ASSUME NEW client \in Clients, Authorize(a, client) PROVE FlowInv'
    <2> DEFINE new == [q EXCEPT !.pc = "begin", !.client = client]
    <2>1. new.pc = "begin" /\ new.answer = q.answer
      BY <1>1 DEF AuthorizationState
    <2>2. authorizations' = [authorizations EXCEPT ![a] = new]
      BY <1>3 DEF Authorize
    <2>3. q.pc = "unsent" /\ TablesUnchanged /\ UNCHANGED <<callbacks, exchanges>>
      BY <1>3 DEF Authorize
    <2> HIDE DEF new
    <2>4. QED
      BY <1>1, <1>2, <2>1, <2>2, <2>3, FlowAuthorizes
  <1>4. ASSUME NEW pc \in {"create", "done"}, NEW at, NEW answer, q.pc \in {"begin", "create"},
               AuthorizeGoto(a, pc, at, answer), answer = "none" \/ pc = "done",
               \A b \in Authorizations \ {a} : transactions'[b] \in {transactions[b], None},
               answer # "redirect" => transactions'[a] \in {transactions[a], None},
               \A c \in Callbacks : codes'[c] \in {codes[c], None},
               UNCHANGED <<callbacks, exchanges>>
        PROVE  FlowInv'
    <2> DEFINE new == [q EXCEPT !.pc = pc, !.at = at, !.answer = answer]
    <2>1. new.pc = pc /\ new.answer = answer
      BY <1>1 DEF AuthorizationState
    <2>2. authorizations' = [authorizations EXCEPT ![a] = new]
      BY <1>4 DEF AuthorizeGoto
    <2> HIDE DEF new
    <2>3. QED
      BY <1>1, <1>4, <2>1, <2>2, FlowAuthorizes
  <1>5. CASE BeginUpstream(a)
    <2>1. /\ transactions' = transactions /\ codes' = codes /\ q.pc = "begin"
          /\ UNCHANGED <<callbacks, exchanges>>
          /\ AuthorizeGoto(a, "create", clock, "none") \/ AuthorizeGoto(a, "done", 0, "unavailable")
      BY <1>2, <1>5 DEF BeginUpstream
    <2>2. QED
      BY <1>4, <2>1
  <1>6. CASE CreateTransaction(a)
    <2>1. q.pc = "create" /\ UNCHANGED <<callbacks, exchanges>>
      BY <1>6 DEF CreateTransaction
    <2>2. CASE TablesUnchanged /\ AuthorizeGoto(a, "done", 0, "unavailable")
      BY <1>2, <1>4, <2>1, <2>2
    <2>3. CASE ~ (TablesUnchanged /\ AuthorizeGoto(a, "done", 0, "unavailable"))
      <3> DEFINE row == [client |-> q.client, deployment |-> deployment,
                         expiresAt |-> q.at + TransactionTtl, completed |-> FALSE]
      <3>1. /\ transactions' = [LiveTransactions(q.at) EXCEPT ![a] = row]
            /\ codes' = LiveCodes(q.at)
            /\ AuthorizeGoto(a, "done", q.at, "redirect")
        BY <1>6, <2>3 DEF CreateTransaction
      <3> HIDE DEF row
      <3>2. /\ \A b \in Authorizations \ {a} : transactions'[b] \in {transactions[b], None}
            /\ \A c \in Callbacks : codes'[c] \in {codes[c], None}
        BY <3>1, LiveTables DEF FlowOK
      <3>3. QED
        BY <1>4, <2>1, <3>1, <3>2
    <2>4. QED
      BY <2>2, <2>3
  <1>7. QED
    BY <1>3, <1>5, <1>6 DEF AuthorizeStep

\* Most steps of a callback keep its transaction and touch no table.
LEMMA FlowCallsBackQuietly ==
    ASSUME FlowOK, NEW c \in Callbacks, NEW q,
           callbacks' = [callbacks EXCEPT ![c] = q],
           callbacks[c].pc \notin {"unsent", "done"},
           q.pc \notin {"unsent", "consume"},
           q.state = callbacks[c].state, q.client = callbacks[c].client,
           q.answer \notin {"code", "access_denied"}, q.pc # "done" => q.answer = "none",
           TablesUnchanged, UNCHANGED <<authorizations, exchanges>>
    PROVE  FlowInv'
  <1>1. transactions' = transactions /\ codes' = codes
    BY DEF TablesUnchanged, tables
  <1>2. q.state \in Authorizations /\ authorizations[q.state].answer = "redirect"
    BY CallbackFacts
  <1>3. ConsumedIn(q) => Consumed(c)
    BY DEF ConsumedIn, Consumed
  <1>4. \A a \in Authorizations : transactions'[a] \in {transactions[a], None}
    BY <1>1
  <1>5. \A d \in Callbacks : codes'[d] \in {codes[d], None}
    BY <1>1
  <1>6. QED
    BY <1>2, <1>3, <1>4, <1>5, FlowCallsBack

LEMMA FlowCallbackStep ==
    ASSUME FlowOK, NEW c \in Callbacks, CallbackStep(c)
    PROVE  FlowInv'
  <1> DEFINE q == callbacks[c]
  <1>1. q \in CallbackState
    BY CallbackFacts
  <1>2. TablesUnchanged => transactions' = transactions /\ codes' = codes
    BY DEF TablesUnchanged, tables
  <1>3. ASSUME NEW answer \in {"invalid_request", "server_error", "unavailable"},
               q.pc \notin {"unsent", "done"},
               CallbackEnds(c, answer), TablesUnchanged, UNCHANGED <<authorizations, exchanges>>
        PROVE  FlowInv'
    <2> DEFINE new == CallbackLeft(q, answer)
    <2>1. new.pc = "done" /\ new.answer = answer /\ new.client = q.client /\ new.state = q.state
      BY <1>1, CallbackLeftFacts DEF CallbackAnswers
    <2>2. callbacks' = [callbacks EXCEPT ![c] = new]
      BY <1>3 DEF CallbackEnds
    <2> HIDE DEF new
    <2>3. QED
      BY <1>3, <2>1, <2>2, FlowCallsBackQuietly
  <1>4. ASSUME NEW a \in Authorizations, ReturnFromMicrosoft(c, a) PROVE FlowInv'
    <2> DEFINE new == [q EXCEPT !.pc = "consume", !.at = clock, !.state = a]
    <2>1. new.pc = "consume" /\ new.answer = q.answer /\ new.client = q.client /\ new.state = a
      BY <1>1 DEF CallbackState
    <2>2. callbacks' = [callbacks EXCEPT ![c] = new]
      BY <1>4 DEF ReturnFromMicrosoft
    <2>3. /\ q.pc = "unsent" /\ authorizations[a].answer = "redirect"
          /\ TablesUnchanged /\ UNCHANGED <<authorizations, exchanges>>
      BY <1>4 DEF ReturnFromMicrosoft
    <2>4. q.answer = "none" /\ q.client = None
      BY <2>3, CallbackFacts DEF FlowOK, FlowInv, ConsumedAtMostOnce
    <2>5. ~ ConsumedIn(new)
      BY <2>1, <2>4 DEF ConsumedIn
    <2> HIDE DEF new
    <2>6. QED
      BY <1>2, <2>1, <2>2, <2>3, <2>4, <2>5, FlowCallsBack
  <1>5. CASE ConsumeTransaction(c)
    <2> DEFINE a == q.state
               row == transactions[a]
               marked == [row EXCEPT !.completed = TRUE]
    <2>1. /\ q.pc = "consume" /\ UNCHANGED <<codes, authorizations, exchanges>>
          /\ row # None /\ ~ row.completed
          /\ transactions' = [transactions EXCEPT ![a] = marked]
      BY <1>5 DEF ConsumeTransaction, TransactionUsable
    <2>2. /\ a \in Authorizations /\ authorizations[a].answer = "redirect"
          /\ q.answer = "none" /\ ~ Consumed(c)
      BY <2>1, CallbackFacts
    <2>3. row \in TransactionRow
      BY <2>1, <2>2 DEF FlowOK, TablesOK
    <2>4. marked.completed
      BY <2>3 DEF TransactionRow
    <2>5. /\ transactions'[a].completed
          /\ \A b \in Authorizations \ {a} : transactions'[b] = transactions[b]
      BY <2>1, <2>2, <2>4 DEF FlowOK, TablesOK
    <2>6. ~ \E other \in Callbacks : Consumed(other) /\ callbacks[other].state = a
      BY <2>1 DEF FlowOK, FlowInv, ConsumedAtMostOnce
    <2>7. row.client # None
      BY <2>3, NamesAssumption DEF TransactionRow
    <2>8. ASSUME NEW new, callbacks' = [callbacks EXCEPT ![c] = new], new.state = a,
                 \/ new.pc = "entra" /\ new.answer = "none"
                 \/ new.pc = "done" /\ new.answer = "access_denied"
          PROVE  FlowInv'
      <3> HIDE DEF row, marked
      <3>1. QED
        BY <2>1, <2>2, <2>5, <2>6, <2>8, FlowCallsBack
    <2>9. CASE CallbackEnds(c, "access_denied")
      <3> DEFINE new == CallbackLeft(q, "access_denied")
      <3>1. new.pc = "done" /\ new.answer = "access_denied" /\ new.state = a
        BY <1>1, CallbackLeftFacts DEF CallbackAnswers
      <3>2. callbacks' = [callbacks EXCEPT ![c] = new]
        BY <2>9 DEF CallbackEnds
      <3> HIDE DEF new
      <3>3. QED
        BY <2>8, <3>1, <3>2
    <2>10. CASE ~ CallbackEnds(c, "access_denied")
      <3> DEFINE new == [q EXCEPT !.pc = "entra", !.client = row.client,
                                  !.deployment = row.deployment]
      <3>1. new.pc = "entra" /\ new.answer = "none" /\ new.state = a
        BY <1>1, <2>2 DEF CallbackState
      <3>2. callbacks' = [callbacks EXCEPT ![c] = new]
        BY <1>5, <2>10 DEF ConsumeTransaction
      <3> HIDE DEF new
      <3>3. QED
        BY <2>8, <3>1, <3>2
    <2>11. QED
      BY <2>9, <2>10
  <1>6. CASE TransactionRefused(c)
    BY <1>3, <1>6 DEF TransactionRefused
  <1>7. CASE EntraComplete(c)
    <2>1. q.pc = "entra" /\ TablesUnchanged /\ UNCHANGED <<authorizations, exchanges>>
      BY <1>7 DEF EntraComplete
    <2>2. ASSUME NEW user, NEW expiry,
                 callbacks' = [callbacks EXCEPT ![c] =
                     [@ EXCEPT !.pc = "validate", !.user = user, !.tokenExpiresAt = expiry]]
          PROVE  FlowInv'
      <3> DEFINE new == [q EXCEPT !.pc = "validate", !.user = user, !.tokenExpiresAt = expiry]
      <3>1. /\ new.pc = "validate" /\ new.answer = q.answer /\ new.client = q.client
            /\ new.state = q.state
        BY <1>1 DEF CallbackState
      <3>2. callbacks' = [callbacks EXCEPT ![c] = new]
        BY <2>2
      <3>3. q.answer = "none"
        BY <2>1, CallbackFacts
      <3> HIDE DEF new
      <3>4. QED
        BY <2>1, <3>1, <3>2, <3>3, FlowCallsBackQuietly
    <2>3. QED
      BY <1>3, <1>7, <2>1, <2>2 DEF EntraComplete
  <1>8. CASE ValidateTokenA(c)
    <2>1. q.pc = "validate" /\ TablesUnchanged /\ UNCHANGED <<authorizations, exchanges>>
      BY <1>8 DEF ValidateTokenA
    <2>2. CASE callbacks' = [callbacks EXCEPT ![c] = [@ EXCEPT !.pc = "create", !.at = clock]]
      <3> DEFINE new == [q EXCEPT !.pc = "create", !.at = clock]
      <3>1. /\ new.pc = "create" /\ new.answer = q.answer /\ new.client = q.client
            /\ new.state = q.state
        BY <1>1 DEF CallbackState
      <3>2. callbacks' = [callbacks EXCEPT ![c] = new]
        BY <2>2
      <3>3. q.answer = "none"
        BY <2>1, CallbackFacts
      <3> HIDE DEF new
      <3>4. QED
        BY <2>1, <3>1, <3>2, <3>3, FlowCallsBackQuietly
    <2>3. QED
      BY <1>3, <1>8, <2>1, <2>2 DEF ValidateTokenA
  <1>9. CASE CreateCode(c)
    <2> DEFINE new == [q EXCEPT !.pc = "done", !.answer = "code"]
    <2>1. /\ q.pc = "create" /\ UNCHANGED <<authorizations, exchanges>>
          /\ transactions' = LiveTransactions(q.at)
          /\ codes' = [LiveCodes(q.at) EXCEPT ![c] = CodeOf(c)]
      BY <1>9 DEF CreateCode
    <2>2. /\ \A a \in Authorizations : transactions'[a] \in {transactions[a], None}
          /\ \A d \in Callbacks \ {c} : codes'[d] \in {codes[d], None}
      BY <2>1, LiveTables DEF FlowOK
    <2>3. new.pc = "done" /\ new.answer = "code" /\ new.client = q.client /\ new.state = q.state
      BY <1>1 DEF CallbackState
    <2>4. callbacks' = [callbacks EXCEPT ![c] = new]
      BY <1>9 DEF CreateCode
    <2>5. ConsumedIn(new) => Consumed(c)
      BY <2>1, <2>3, CallbackFacts DEF ConsumedIn, Consumed
    <2> HIDE DEF new
    <2>6. /\ q.pc # "unsent" /\ q.pc # "done" /\ new.state = q.state
          /\ new.state \in Authorizations /\ authorizations[new.state].answer = "redirect"
          /\ new.client # None
      BY <2>1, <2>3, CallbackFacts
    <2>7. new.pc # "unsent" /\ new.pc # "consume" /\ (new.pc # "done" => new.answer = "none")
      BY <2>3
    <2> HIDE DEF q
    <2>8. callbacks[c].pc # "done" /\ new.state = callbacks[c].state
      BY <2>6 DEF q
    <2>9. QED
      BY <2>1, <2>2, <2>3, <2>4, <2>5, <2>6, <2>7, <2>8, FlowCallsBack
  <1>10. CASE CallbackStoreFails(c)
    BY <1>3, <1>10 DEF CallbackStoreFails
  <1>11. QED
    BY <1>4, <1>5, <1>6, <1>7, <1>8, <1>9, <1>10 DEF CallbackStep

\* Most steps of an exchange keep its code and what it holds.
LEMMA FlowExchangesQuietly ==
    ASSUME FlowOK, NEW e \in Exchanges, NEW q,
           exchanges' = [exchanges EXCEPT ![e] = q],
           exchanges[e].pc \notin {"unsent", "done"},
           q.pc \notin {"unsent", "redeem"},
           q.code = exchanges[e].code, q.row = exchanges[e].row,
           \A c \in Callbacks : codes'[c] \in {codes[c], None},
           \A a \in Authorizations : transactions'[a] \in {transactions[a], None},
           UNCHANGED <<authorizations, callbacks>>
    PROVE  FlowInv'
  <1>1. q.code \in Callbacks /\ callbacks[q.code].answer = "code"
    BY ExchangeFacts
  <1>2. q.row # None => Redeemed(e)
    BY DEF Redeemed
  <1>3. QED
    BY <1>1, <1>2, FlowExchanges

LEMMA FlowExchangeStep ==
    ASSUME FlowOK, NEW e \in Exchanges, ExchangeStep(e)
    PROVE  FlowInv'
  <1> DEFINE q == exchanges[e]
  <1>1. q \in ExchangeState
    BY ExchangeFacts
  <1>2. TablesUnchanged =>
           /\ \A c \in Callbacks : codes'[c] \in {codes[c], None}
           /\ \A a \in Authorizations : transactions'[a] \in {transactions[a], None}
    BY DEF TablesUnchanged, tables
  <1>3. ASSUME NEW answer \in {"token", "invalid_grant", "unavailable"},
               q.pc \in {"redeem", "registry", "issue"}, ExchangeEnds(e, answer),
               TablesUnchanged, UNCHANGED <<authorizations, callbacks>>
        PROVE  FlowInv'
    <2> DEFINE new == ExchangeLeft(q, answer)
    <2>1. new.pc = "done" /\ new.code = q.code /\ new.row = q.row
      BY <1>1, ExchangeLeftFacts DEF ExchangeAnswers
    <2>2. exchanges' = [exchanges EXCEPT ![e] = new]
      BY <1>3 DEF ExchangeEnds
    <2> HIDE DEF new
    <2>3. QED
      BY <1>2, <1>3, <2>1, <2>2, FlowExchangesQuietly
  <1>4. ASSUME NEW c \in Callbacks, NEW client \in Clients, NEW a \in Authorizations,
               PresentCode(e, c, client, a)
        PROVE  FlowInv'
    <2> DEFINE new == [q EXCEPT !.pc = "redeem", !.at = clock, !.code = c, !.client = client,
                                !.verifier = a]
    <2>1. new.pc = "redeem" /\ new.code = c /\ new.row = q.row
      BY <1>1 DEF ExchangeState
    <2>2. exchanges' = [exchanges EXCEPT ![e] = new]
      BY <1>4 DEF PresentCode
    <2>3. /\ q.pc = "unsent" /\ callbacks[c].answer = "code"
          /\ TablesUnchanged /\ UNCHANGED <<authorizations, callbacks>>
      BY <1>4 DEF PresentCode
    <2>4. q.row = None
      BY <2>3, ExchangeFacts DEF Redeemed
    <2> HIDE DEF new
    <2>5. QED
      BY <1>2, <2>1, <2>2, <2>3, <2>4, FlowExchanges
  <1>5. CASE Redeem(e)
    <2> DEFINE row == codes[q.code]
               marked == [row EXCEPT !.used = TRUE]
    <2>1. /\ q.pc = "redeem" /\ UNCHANGED <<transactions, authorizations, callbacks>>
          /\ row # None /\ ~ row.used
          /\ codes' = [codes EXCEPT ![q.code] = marked]
      BY <1>5 DEF Redeem, CodeUsable
    <2>2. q.code \in Callbacks /\ callbacks[q.code].answer = "code" /\ ~ Redeemed(e)
      BY <2>1, ExchangeFacts
    <2>3. row \in CodeRow
      BY <2>1, <2>2 DEF FlowOK, TablesOK
    <2>4. marked.used
      BY <2>3 DEF CodeRow
    <2>5. codes'[q.code].used /\ \A c \in Callbacks \ {q.code} : codes'[c] = codes[c]
      BY <2>1, <2>2, <2>4 DEF FlowOK, TablesOK
    <2>6. ~ \E other \in Exchanges : Redeemed(other) /\ exchanges[other].code = q.code
      BY <2>1 DEF FlowOK, FlowInv, RedeemedAtMostOnce
    <2>7. ASSUME NEW new, exchanges' = [exchanges EXCEPT ![e] = new], new.code = q.code,
                 new.pc \in {"registry", "done"}
          PROVE  FlowInv'
      <3> HIDE DEF row, marked
      <3>1. ASSUME NEW c \in Callbacks
            PROVE  \/ codes'[c] \in {codes[c], None}
                   \/ codes'[c].used /\ callbacks[c].answer = "code"
        <4>1. CASE c = q.code
          BY <2>2, <2>5, <4>1
        <4>2. CASE c # q.code
          BY <2>5, <4>2
        <4>3. QED
          BY <4>1, <4>2
      <3>2. \A a \in Authorizations : transactions'[a] \in {transactions[a], None}
        BY <2>1
      <3>3. exchanges[e].pc # "done" /\ new.pc # "unsent" /\ (new.pc = "redeem" => new.row = None)
        BY <2>1, <2>7
      <3>4. UNCHANGED <<authorizations, callbacks>>
        BY <2>1
      <3>5. /\ new.code \in Callbacks /\ callbacks[new.code].answer = "code"
            /\ codes'[new.code].used /\ new.code = exchanges[e].code
            /\ ~ \E other \in Exchanges : Redeemed(other) /\ exchanges[other].code = new.code
        BY <2>2, <2>5, <2>6, <2>7
      <3>6. QED
        BY <2>7, <3>1, <3>2, <3>3, <3>4, <3>5, FlowExchanges
    <2>8. CASE CodeBindingIsValid(row)
      <3> DEFINE new == [q EXCEPT !.pc = "registry", !.row = row]
      <3>1. new.pc = "registry" /\ new.code = q.code
        BY <1>1 DEF ExchangeState
      <3>2. exchanges' = [exchanges EXCEPT ![e] = new]
        BY <1>5, <2>8 DEF Redeem
      <3> HIDE DEF new
      <3>3. QED
        BY <2>7, <3>1, <3>2
    <2>9. CASE ~ CodeBindingIsValid(row)
      <3> DEFINE new == [q EXCEPT !.pc = "done", !.row = row, !.answer = "invalid_grant"]
      <3>1. new.pc = "done" /\ new.code = q.code
        BY <1>1 DEF ExchangeState
      <3>2. exchanges' = [exchanges EXCEPT ![e] = new]
        BY <1>5, <2>9 DEF Redeem
      <3> HIDE DEF new
      <3>3. QED
        BY <2>7, <3>1, <3>2
    <2>10. QED
      BY <2>8, <2>9
  <1>6. CASE CodeRefused(e)
    BY <1>3, <1>6 DEF CodeRefused
  <1>7. CASE CheckBundle(e)
    <2>1. TablesUnchanged /\ UNCHANGED <<authorizations, callbacks>> /\ q.pc = "registry"
      BY <1>7 DEF CheckBundle
    <2>2. \/ ExchangeEnds(e, "token") \/ ExchangeEnds(e, "invalid_grant")
          \/ exchanges' = [exchanges EXCEPT ![e] = [@ EXCEPT !.pc = "issue"]]
      BY <1>7, <2>1, CheckBundleEnds, BundleRow
    <2>3. CASE exchanges' = [exchanges EXCEPT ![e] = [@ EXCEPT !.pc = "issue"]]
      <3> DEFINE new == [q EXCEPT !.pc = "issue"]
      <3>1. new.pc = "issue" /\ new.code = q.code /\ new.row = q.row
        BY <1>1 DEF ExchangeState
      <3>2. exchanges' = [exchanges EXCEPT ![e] = new]
        BY <2>3
      <3> HIDE DEF new
      <3>3. QED
        BY <1>2, <2>1, <3>1, <3>2, FlowExchangesQuietly
    <2>4. QED
      BY <1>3, <2>1, <2>2, <2>3
  <1>8. ASSUME NEW s \in Sessions, Issue(e, s) PROVE FlowInv'
    <2> DEFINE new == [q EXCEPT !.pc = "done", !.session = s, !.answer = "token"]
    <2>1. /\ q.pc = "issue" /\ UNCHANGED <<authorizations, callbacks>>
          /\ transactions' = LiveTransactions(q.at) /\ codes' = LiveCodes(q.at)
      BY <1>8 DEF Issue
    <2>2. /\ \A a \in Authorizations : transactions'[a] \in {transactions[a], None}
          /\ \A c \in Callbacks : codes'[c] \in {codes[c], None}
      BY <2>1, LiveTables DEF FlowOK
    <2>3. new.pc = "done" /\ new.code = q.code /\ new.row = q.row
      BY <1>1 DEF ExchangeState
    <2>4. exchanges' = [exchanges EXCEPT ![e] = new]
      BY <1>8 DEF Issue
    <2> HIDE DEF new
    <2>5. QED
      BY <2>1, <2>2, <2>3, <2>4, FlowExchangesQuietly
  <1>9. CASE ExchangeStoreFails(e)
    BY <1>3, <1>9 DEF ExchangeStoreFails
  <1>10. QED
    BY <1>4, <1>5, <1>6, <1>7, <1>8, <1>9 DEF ExchangeStep

\* A restart ends the coroutines where they stand: what they consumed stays
\* consumed, and a lost answer is never a redirect or a code.
LEMMA FlowRestarts == ASSUME FlowOK, ServerRestart PROVE FlowInv'
  <1>1. /\ \A a \in Authorizations : transactions'[a] \in {transactions[a], None}
        /\ \A c \in Callbacks : codes'[c] \in {codes[c], None}
    BY LiveTables DEF FlowOK, ServerRestart
  <1>2. ASSUME NEW a \in Authorizations
        PROVE  /\ authorizations'[a].pc # "done" => authorizations'[a].answer = "none"
               /\ authorizations'[a].answer = "redirect" <=> authorizations[a].answer = "redirect"
    <2>1. authorizations[a] \in AuthorizationState
      BY DEF FlowOK, CoroutinesOK, AuthorizationOK
    <2>2. QED
      BY <2>1 DEF ServerRestart, AuthorizationState, FlowOK, FlowInv, TransactionsFollowRedirects
  <1>3. ASSUME NEW c \in Callbacks
        PROVE  /\ callbacks'[c].pc # "unsent" <=> callbacks[c].pc # "unsent"
               /\ callbacks'[c].pc # "done" => callbacks'[c].answer = "none"
               /\ callbacks'[c].pc # "consume"
               /\ callbacks'[c].state = callbacks[c].state
               /\ callbacks'[c].client = callbacks[c].client
               /\ callbacks'[c].answer = "code" <=> callbacks[c].answer = "code"
               /\ callbacks'[c].answer = "access_denied" <=> callbacks[c].answer = "access_denied"
    <2>1. callbacks[c] \in CallbackState
      BY CallbackFacts
    <2>2. CASE callbacks[c].pc \in {"consume", "entra", "validate", "create"}
      <3> DEFINE new == CallbackLeft(callbacks[c], "lost")
      <3>1. callbacks'[c] = new
        BY <2>2 DEF ServerRestart
      <3>2. /\ new.pc = "done" /\ new.answer = "lost" /\ new.state = callbacks[c].state
            /\ new.client = callbacks[c].client
        BY <2>1, CallbackLeftFacts DEF CallbackAnswers
      <3>3. callbacks[c].answer = "none"
        BY <2>2, CallbackFacts
      <3> HIDE DEF new
      <3>4. QED
        BY <2>2, <3>1, <3>2, <3>3
    <2>3. CASE callbacks[c].pc \notin {"consume", "entra", "validate", "create"}
      <3>1. callbacks'[c] = callbacks[c]
        BY <2>3 DEF ServerRestart
      <3>2. QED
        BY <2>3, <3>1, CallbackFacts
    <2>4. QED
      BY <2>2, <2>3
  <1>4. ASSUME NEW e \in Exchanges
        PROVE  /\ exchanges'[e].pc # "unsent" <=> exchanges[e].pc # "unsent"
               /\ exchanges'[e].pc # "redeem"
               /\ exchanges'[e].code = exchanges[e].code
               /\ exchanges'[e].row = exchanges[e].row
    <2>1. exchanges[e] \in ExchangeState
      BY ExchangeFacts
    <2>2. CASE exchanges[e].pc \in {"redeem", "registry", "issue"}
      <3>1. exchanges'[e] = ExchangeLeft(exchanges[e], "lost")
        BY <2>2 DEF ServerRestart
      <3>2. QED
        BY <2>1, <2>2, <3>1, ExchangeLeftFacts DEF ExchangeAnswers
    <2>3. CASE exchanges[e].pc \notin {"redeem", "registry", "issue"}
      BY <2>3 DEF ServerRestart
    <2>4. QED
      BY <2>2, <2>3
  <1>5. TransactionsFollowRedirects'
    BY <1>1, <1>2, <1>3, CallbackFacts DEF FlowOK, FlowInv, TransactionsFollowRedirects
  <1>6. ConsumedAtMostOnce'
    <2>1. \A c \in Callbacks : Consumed(c)' <=> Consumed(c)
      BY <1>3 DEF Consumed
    <2>2. ASSUME NEW c \in Callbacks, Consumed(c)
          PROVE  \/ transactions'[callbacks[c].state] = None
                 \/ transactions'[callbacks[c].state].completed
      <3>1. callbacks[c].state \in Authorizations
        BY <2>2, CallbackFacts
      <3>2. QED
        BY <1>1, <2>2, <3>1 DEF FlowOK, FlowInv, ConsumedAtMostOnce
    <2>3. \A c \in Callbacks : callbacks'[c].pc = "unsent" => callbacks'[c].client = None
      BY <1>3 DEF FlowOK, FlowInv, ConsumedAtMostOnce
    <2>4. QED
      BY <1>3, <2>1, <2>2, <2>3 DEF FlowOK, FlowInv, ConsumedAtMostOnce
  <1>7. CodesFollowCallbacks'
    BY <1>1, <1>3 DEF FlowOK, FlowInv, CodesFollowCallbacks
  <1>8. RedeemedAtMostOnce'
    <2>1. \A e \in Exchanges : Redeemed(e)' <=> Redeemed(e)
      BY <1>4 DEF Redeemed
    <2>2. ASSUME NEW e \in Exchanges, Redeemed(e)
          PROVE  codes'[exchanges[e].code] = None \/ codes'[exchanges[e].code].used
      <3>1. exchanges[e].code \in Callbacks
        BY <2>2, ExchangeFacts
      <3>2. QED
        BY <1>1, <2>2, <3>1 DEF FlowOK, FlowInv, RedeemedAtMostOnce
    <2>3. \A e \in Exchanges :
             exchanges'[e].pc # "unsent" => callbacks'[exchanges'[e].code].answer = "code"
      BY <1>3, <1>4, ExchangeFacts
    <2>4. QED
      BY <1>4, <2>1, <2>2, <2>3 DEF FlowOK, FlowInv, RedeemedAtMostOnce
  <1>9. QED
    BY <1>5, <1>6, <1>7, <1>8 DEF FlowInv

-----------------------------------------------------------------------------
(* The theorem *)

LEMMA FlowInit == ServerInit => FlowInv
  BY DEF ServerInit, FlowInv, TransactionsFollowRedirects, ConsumedAtMostOnce,
         CodesFollowCallbacks, RedeemedAtMostOnce, Consumed, Redeemed

LEMMA FlowStep ==
    ASSUME TypeOK, ServerTypeOK, FlowInv, [ServerNext]_serverVars
    PROVE  FlowInv'
  <1>1. FlowOK
    BY ServerTypeParts DEF FlowOK
  <1>2. CASE \/ \E a \in Authorizations : AuthorizeStep(a)
             \/ \E c \in Callbacks : CallbackStep(c)
             \/ \E e \in Exchanges : ExchangeStep(e)
             \/ ServerRestart
    BY <1>1, <1>2, FlowAuthorizeStep, FlowCallbackStep, FlowExchangeStep, FlowRestarts
  <1>3. ASSUME NEW r \in Requests, NEW h, NEW client, Refresh(r, h, client) PROVE FlowInv'
    BY <1>1, <1>3, FlowReclaims DEF Refresh, tables
  <1>4. ASSUME NEW r \in Requests, RefreshStep(r) PROVE FlowInv'
    <2>1. /\ transactions' = LiveTransactions(requests[r].at) \/ UNCHANGED transactions
          /\ codes' = LiveCodes(requests[r].at) \/ UNCHANGED codes
          /\ UNCHANGED coroutines
      BY <1>4 DEF RefreshStep, tables
    <2>2. QED
      BY <1>1, <2>1, FlowReclaims
  <1>5. CASE ServerTick \/ UNCHANGED serverVars
    BY <1>1, <1>5, FlowReclaims DEF ServerTick, serverVars, tables
  <1>6. QED
    BY <1>2, <1>3, <1>4, <1>5 DEF ServerNext

(* Rows, callbacks and exchanges agree on what has been consumed             *)
(* (consume_transaction, consume_authorization_code).                        *)
THEOREM FlowCorrect == ServerSpec => []FlowInv
  <1>1. TypeOK /\ ServerTypeOK /\ FlowInv /\ [ServerNext]_serverVars => FlowInv'
    BY FlowStep
  <1>2. QED
    BY <1>1, FlowInit, ServerTypes, PTL DEF ServerSpec

(* One authorize request leads to one redeemed code at most, however often   *)
(* the browser's callback and the client's exchange are repeated, whatever   *)
(* fails in between and however often the process restarts.                  *)
THEOREM OneToken == ServerSpec => []OneTokenPerAuthorization
  <1>1. ASSUME TypeOK, ServerTypeOK, FlowInv PROVE OneTokenPerAuthorization
    <2>1. FlowOK
      BY <1>1, ServerTypeParts DEF FlowOK
    <2>2. \A e \in Exchanges : Redeemed(e) =>
             exchanges[e].code \in Callbacks /\ Consumed(exchanges[e].code)
      BY <2>1, CallbackFacts, ExchangeFacts
    <2>3. QED
      BY <1>1, <2>2 DEF FlowInv, ConsumedAtMostOnce, RedeemedAtMostOnce, OneTokenPerAuthorization
  <1>2. QED
    BY <1>1, FlowCorrect, ServerTypes, PTL

-----------------------------------------------------------------------------
(* Whose session it is.  A step is described by what it copies: a field of  *)
(* a row or of a coroutine stays, or comes from the row it was read from.   *)

BindingOK == FlowOK /\ BindingInv

AuthorizationsCopy ==
    \A a \in Authorizations :
        /\ authorizations[a].pc # "unsent" => authorizations'[a].client = authorizations[a].client
        /\ authorizations[a].answer = "redirect" => authorizations'[a] = authorizations[a]

TransactionsCopy ==
    \A a \in Authorizations : transactions'[a] # None =>
        \/ /\ transactions[a] # None /\ transactions'[a].client = transactions[a].client
           /\ transactions'[a].expiresAt = transactions[a].expiresAt
        \/ /\ authorizations[a].pc = "create" /\ transactions'[a].client = authorizations[a].client
           /\ transactions'[a].expiresAt = authorizations'[a].at + TransactionTtl

CallbacksCopy ==
    \A c \in Callbacks :
        /\ callbacks[c].answer = "code" => callbacks'[c] = callbacks[c]
        /\ Consumed(c) => ConsumedIn(callbacks'[c]) /\ callbacks'[c].state = callbacks[c].state
        /\ callbacks'[c].client # None =>
              /\ callbacks[c].pc # "unsent" /\ callbacks'[c].state = callbacks[c].state
              /\ \/ callbacks'[c].client = callbacks[c].client
                 \/ /\ transactions[callbacks[c].state] # None
                    /\ callbacks'[c].client = transactions[callbacks[c].state].client

SameCode(new, row) ==
    /\ new.client = row.client /\ new.user = row.user
    /\ new.deployment = row.deployment /\ new.challenge = row.challenge
    /\ new.tokenExpiresAt = row.tokenExpiresAt /\ new.expiresAt = row.expiresAt

CodesCopy ==
    \A c \in Callbacks : codes'[c] # None =>
        \/ codes[c] # None /\ SameCode(codes'[c], codes[c])
        \/ CodeBound(codes'[c], callbacks'[c])

\* the exchange q redeems its code and becomes new
TakesCode(q, new) ==
    /\ q.pc = "redeem" /\ new.session = q.session
    /\ codes[q.code] # None /\ new.row = codes[q.code]
    /\ codes[q.code].client = q.client /\ codes[q.code].challenge = q.verifier
    /\ new.pc \in {"registry", "issue"} => codes[q.code].deployment = deployment

\* the exchange q issues its session and becomes new
TakesSession(q, new) ==
    /\ q.pc = "issue" /\ new.pc = "done" /\ new.row = q.row
    /\ new.session \in minted' /\ Owned(sessions'[new.session], q.row)

\* the exchange q gets on with what it holds, or ends
GetsOn(q, new) ==
    /\ new.row = q.row /\ new.session = q.session
    /\ new.pc \in {"registry", "issue"} => q.pc \in {"registry", "issue"}

ExchangeTurns(q, new) ==
    \/ new = q
    \/ q.pc = "unsent" /\ new.row = q.row /\ new.session = q.session /\ new.pc = "redeem"
    \/ /\ q.pc \notin {"unsent", "done"}
       /\ new.code = q.code
       /\ new.row # None => new.client = q.client /\ new.verifier = q.verifier
       /\ TakesCode(q, new) \/ TakesSession(q, new) \/ GetsOn(q, new)

ExchangesCopy == \A e \in Exchanges : ExchangeTurns(exchanges[e], exchanges'[e])

\* other settings find no exchange under way
ExchangesEndWithDeployment ==
    \/ UNCHANGED deployment
    \/ \A e \in Exchanges : exchanges'[e].pc \notin {"registry", "issue"}

SessionsKeepOwners ==
    /\ minted \subseteq minted'
    /\ \A s \in Sessions \cap minted : sessions'[s] # None =>
          /\ sessions[s] # None
          /\ sessions'[s].client = sessions[s].client /\ sessions'[s].user = sessions[s].user
          /\ sessions'[s].deployment = sessions[s].deployment

\* What is not touched copies itself, what is reclaimed copies nothing.
LEMMA UntouchedCopies ==
    ASSUME BindingOK
    PROVE  /\ UNCHANGED authorizations => AuthorizationsCopy
           /\ UNCHANGED transactions => TransactionsCopy
           /\ UNCHANGED callbacks => CallbacksCopy
           /\ UNCHANGED codes => CodesCopy
           /\ UNCHANGED exchanges => ExchangesCopy
  <1>1. ASSUME UNCHANGED callbacks PROVE CallbacksCopy
    <2>1. \A c \in Callbacks : callbacks[c].client # None => callbacks[c].pc # "unsent"
      BY CallbackFacts DEF Consumed, BindingOK
    <2>2. QED
      BY <1>1, <2>1 DEF CallbacksCopy, Consumed, ConsumedIn
  <1>2. QED
    BY <1>1 DEF AuthorizationsCopy, TransactionsCopy, CodesCopy, SameCode, ExchangesCopy,
                ExchangeTurns

LEMMA ReclaimedCopies ==
    ASSUME BindingOK, NEW at
    PROVE  /\ transactions' = LiveTransactions(at) => TransactionsCopy
           /\ codes' = LiveCodes(at) => CodesCopy
  BY LiveTables DEF BindingOK, FlowOK, TransactionsCopy, CodesCopy, SameCode

\* The steps copy; so the rows and coroutines stay bound.
LEMMA CopiesBindRequests ==
    ASSUME BindingOK, AuthorizationsCopy, TransactionsCopy, CallbacksCopy, CodesCopy
    PROVE  RequestsAreBound'
  <1>1. ASSUME NEW a \in Authorizations, transactions'[a] # None
        PROVE  /\ transactions'[a].client = authorizations'[a].client
               /\ transactions'[a].expiresAt = authorizations'[a].at + TransactionTtl
    <2>1. transactions[a] # None =>
             authorizations[a].pc # "unsent" /\ authorizations[a].answer = "redirect"
      BY DEF BindingOK, FlowOK, FlowInv, TransactionsFollowRedirects
    <2>2. QED
      BY <1>1, <2>1 DEF TransactionsCopy, AuthorizationsCopy, BindingOK, BindingInv,
                        RequestsAreBound
  <1>2. ASSUME NEW c \in Callbacks, callbacks'[c].client # None
        PROVE  callbacks'[c].client = authorizations'[callbacks'[c].state].client
    <2> DEFINE a == callbacks[c].state
    <2>1. callbacks[c].pc # "unsent" /\ callbacks'[c].state = a
      BY <1>2 DEF CallbacksCopy
    <2>2. a \in Authorizations /\ authorizations[a].answer = "redirect"
      BY <2>1, CallbackFacts DEF BindingOK
    <2>3. authorizations[a].pc # "unsent"
      BY <2>2 DEF BindingOK, FlowOK, FlowInv, TransactionsFollowRedirects
    <2>4. authorizations'[a].client = authorizations[a].client
      BY <2>2, <2>3 DEF AuthorizationsCopy
    <2>5. callbacks'[c].client = authorizations[a].client
      BY <1>2, <2>2 DEF CallbacksCopy, BindingOK, BindingInv, RequestsAreBound
    <2>6. QED
      BY <2>1, <2>4, <2>5
  <1>3. ASSUME NEW c \in Callbacks, codes'[c] # None PROVE CodeBound(codes'[c], callbacks'[c])
    <2>1. CASE CodeBound(codes'[c], callbacks'[c])
      BY <2>1
    <2>2. CASE codes[c] # None /\ SameCode(codes'[c], codes[c])
      <3>1. callbacks[c].answer = "code"
        BY <2>2 DEF BindingOK, FlowOK, FlowInv, CodesFollowCallbacks
      <3>2. callbacks'[c] = callbacks[c]
        BY <3>1 DEF CallbacksCopy
      <3>3. CodeBound(codes[c], callbacks[c])
        BY <2>2 DEF BindingOK, BindingInv, RequestsAreBound
      <3>4. QED
        BY <2>2, <3>2, <3>3 DEF CodeBound, SameCode
    <2>3. QED
      BY <1>3, <2>1, <2>2 DEF CodesCopy
  <1>4. QED
    BY <1>1, <1>2, <1>3 DEF RequestsAreBound

\* ExchangesAreBound for one exchange, and for the exchange it becomes
ExchangeBound(q) ==
    /\ q.row # None =>
          /\ CodeBound(q.row, callbacks[q.code])
          /\ q.client = q.row.client /\ q.verifier = q.row.challenge
    /\ q.pc \in {"registry", "issue"} => q.row # None /\ q.row.deployment = deployment
    /\ q.session # None =>
          /\ q.pc = "done" /\ q.row # None /\ q.session \in minted
          /\ Present(q.session) => Owned(sessions[q.session], q.row)

ExchangeBoundNext(q) ==
    /\ q.row # None =>
          /\ CodeBound(q.row, callbacks'[q.code])
          /\ q.client = q.row.client /\ q.verifier = q.row.challenge
    /\ q.pc \in {"registry", "issue"} => q.row # None /\ q.row.deployment = deployment'
    /\ q.session # None =>
          /\ q.pc = "done" /\ q.row # None /\ q.session \in minted'
          /\ sessions'[q.session] # None => Owned(sessions'[q.session], q.row)

LEMMA OneExchangeBound ==
    ASSUME BindingOK, CallbacksCopy, SessionsKeepOwners, NEW e \in Exchanges, NEW new,
           ExchangeTurns(exchanges[e], new),
           UNCHANGED deployment \/ new.pc \notin {"registry", "issue"}
    PROVE  ExchangeBoundNext(new)
  <1> DEFINE q == exchanges[e]
  <1>1. /\ q \in ExchangeState
        /\ q.pc # "unsent" => q.code \in Callbacks /\ callbacks[q.code].answer = "code"
        /\ q.pc \in {"unsent", "redeem"} => q.row = None
    BY ExchangeFacts DEF BindingOK, Redeemed
  <1>2. ExchangeBound(q)
    BY DEF BindingOK, BindingInv, ExchangesAreBound, ExchangeBound, Redeemed
  <1>3. q.session # None => q.session \in Sessions \cap minted
    BY <1>1, <1>2 DEF ExchangeState, ExchangeBound
  <1>4. q.pc # "unsent" => callbacks'[q.code] = callbacks[q.code]
    BY <1>1 DEF CallbacksCopy
  <1>5. ASSUME q.session # None, sessions'[q.session] # None
        PROVE  Owned(sessions'[q.session], q.row)
    <2>1. Present(q.session) => Owned(sessions[q.session], q.row)
      BY <1>2, <1>5 DEF ExchangeBound
    <2>2. QED
      BY <1>3, <1>5, <2>1 DEF SessionsKeepOwners, Present, Owned
  <1> HIDE DEF q
  <1>6. CASE new = q
    <2>1. q.row # None => CodeBound(q.row, callbacks'[q.code])
      BY <1>1, <1>2, <1>4 DEF ExchangeBound
    <2>2. q.session # None => q.session \in minted'
      BY <1>3 DEF SessionsKeepOwners
    <2>3. QED
      BY <1>2, <1>5, <1>6, <2>1, <2>2 DEF ExchangeBound, ExchangeBoundNext
  <1>7. CASE q.pc = "unsent" /\ new.row = q.row /\ new.session = q.session /\ new.pc = "redeem"
    BY <1>1, <1>2, <1>7 DEF ExchangeBound, ExchangeBoundNext
  <1>8. ASSUME q.pc \notin {"unsent", "done"}, new.code = q.code,
               new.row # None => new.client = q.client /\ new.verifier = q.verifier,
               TakesCode(q, new) \/ TakesSession(q, new) \/ GetsOn(q, new)
        PROVE  ExchangeBoundNext(new)
    <2>1. q.session = None /\ q.code \in Callbacks /\ callbacks'[q.code] = callbacks[q.code]
      BY <1>1, <1>2, <1>4, <1>8 DEF ExchangeBound
    <2>2. CASE TakesCode(q, new)
      <3>1. CodeBound(codes[q.code], callbacks[q.code])
        BY <2>1, <2>2 DEF TakesCode, BindingOK, BindingInv, RequestsAreBound
      <3>2. QED
        BY <1>8, <2>1, <2>2, <3>1 DEF TakesCode, ExchangeBoundNext
    <2>3. CASE TakesSession(q, new)
      BY <1>2, <1>8, <2>1, <2>3 DEF TakesSession, ExchangeBound, ExchangeBoundNext
    <2>4. CASE GetsOn(q, new)
      BY <1>2, <1>8, <2>1, <2>4 DEF GetsOn, ExchangeBound, ExchangeBoundNext
    <2>5. QED
      BY <1>8, <2>2, <2>3, <2>4
  <1>9. QED
    BY <1>6, <1>7, <1>8 DEF ExchangeTurns, q

LEMMA CopiesBind ==
    ASSUME BindingOK, AuthorizationsCopy, TransactionsCopy, CallbacksCopy, CodesCopy,
           ExchangesCopy, SessionsKeepOwners, ExchangesEndWithDeployment
    PROVE  BindingInv'
  <1>1. \A e \in Exchanges : ExchangeBoundNext(exchanges'[e])
    BY OneExchangeBound DEF ExchangesCopy, ExchangesEndWithDeployment
  <1>2. ExchangesAreBound'
    BY <1>1 DEF ExchangeBoundNext, ExchangesAreBound, Redeemed, Present
  <1>3. QED
    BY <1>2, CopiesBindRequests DEF BindingInv

\* No step of the refresh sessions changes whose session it is.
LEMMA OwnersKept ==
    ASSUME IInv, [Next]_vars
    PROVE  SessionsKeepOwners
  <1> DEFINE Keeps(s) ==
          sessions'[s] # None =>
              /\ sessions[s] # None
              /\ sessions'[s].client = sessions[s].client /\ sessions'[s].user = sessions[s].user
              /\ sessions'[s].deployment = sessions[s].deployment
  <1>1. ASSUME NEW s \in Sessions, Kept(s) \/ Deleted(s) \/ MarkedRevoked(s) PROVE Keeps(s)
    <2>1. Present(s) => sessions[s] \in SessionRow
      BY DEF IInv, TypeOK, Present
    <2>2. QED
      BY <1>1, <2>1 DEF Kept, Deleted, MarkedRevoked, Present, SessionRow
  <1>2. ASSUME NEW r \in Requests, NEW s \in Sessions, Rotating(r, s) PROVE Keeps(s)
    <2>1. sessions[s] \in SessionRow /\ sessions[s] # None
      BY <1>2 DEF Rotating, Usable, Present, IInv, TypeOK
    <2>2. QED
      BY <1>2, <2>1 DEF Rotating, SessionRow
  <1>3. ASSUME NEW s \in Sessions \cap minted PROVE Keeps(s)
    <2>1. CASE Fading
      BY <1>1, <2>1 DEF Fading, OnlyFade
    <2>2. CASE \E t \in Sessions : Issuing(t)
      BY <1>1, <1>3, <2>2 DEF Issuing, OnlyFade
    <2>3. CASE \E r \in Requests : Rotating(r, requests[r].session)
      <3>1. PICK r \in Requests : Rotating(r, requests[r].session)
        BY <2>3
      <3>2. CASE s = requests[r].session
        BY <1>2, <3>1, <3>2
      <3>3. CASE s # requests[r].session
        BY <1>1, <3>1, <3>3 DEF Rotating, OnlyFade
      <3>4. QED
        BY <3>2, <3>3
    <2>4. QED
      BY <2>1, <2>2, <2>3, StoreStep DEF IInv
  <1>4. QED
    BY <1>3, MintedGrows DEF SessionsKeepOwners

\* The copies made by the steps of an authorize request.
LEMMA AuthorizeStepCopies ==
    ASSUME BindingOK, NEW a \in Authorizations, AuthorizeStep(a)
    PROVE  AuthorizationsCopy /\ TransactionsCopy /\ CodesCopy
           /\ UNCHANGED <<callbacks, exchanges>>
  <1> DEFINE q == authorizations[a]
  <1>1. q \in AuthorizationState
    BY DEF BindingOK, FlowOK, CoroutinesOK, AuthorizationOK
  <1>2. ASSUME TablesUnchanged PROVE TransactionsCopy /\ CodesCopy
    BY <1>2, UntouchedCopies DEF TablesUnchanged, tables
  <1>3. ASSUME NEW new, authorizations' = [authorizations EXCEPT ![a] = new],
               q.pc # "unsent" => new.client = q.client,
               q.pc # "done"
        PROVE  AuthorizationsCopy
    <2>1. q.answer # "redirect"
      BY <1>3 DEF BindingOK, FlowOK, FlowInv, TransactionsFollowRedirects
    <2>2. QED
      BY <1>3, <2>1 DEF AuthorizationsCopy, BindingOK, FlowOK, CoroutinesOK
  <1>4. ASSUME NEW client \in Clients, Authorize(a, client)
        PROVE  AuthorizationsCopy /\ TransactionsCopy /\ CodesCopy
               /\ UNCHANGED <<callbacks, exchanges>>
    <2>1. q.pc = "unsent" /\ TablesUnchanged /\ UNCHANGED <<callbacks, exchanges>>
      BY <1>4 DEF Authorize
    <2>2. \E new : authorizations' = [authorizations EXCEPT ![a] = new]
      BY <1>4 DEF Authorize
    <2>3. QED
      BY <1>2, <1>3, <2>1, <2>2
  <1>5. ASSUME NEW pc, NEW at, NEW answer, AuthorizeGoto(a, pc, at, answer),
               q.pc # "done"
        PROVE  AuthorizationsCopy /\ authorizations'[a].at = at
    <2> DEFINE new == [q EXCEPT !.pc = pc, !.at = at, !.answer = answer]
    <2>1. new.client = q.client /\ new.at = at
      BY <1>1 DEF AuthorizationState
    <2>2. authorizations' = [authorizations EXCEPT ![a] = new]
      BY <1>5 DEF AuthorizeGoto
    <2> HIDE DEF new
    <2>3. authorizations'[a] = new
      BY <2>2 DEF BindingOK, FlowOK, CoroutinesOK
    <2>4. QED
      BY <1>3, <1>5, <2>1, <2>2, <2>3
  <1>6. CASE BeginUpstream(a)
    BY <1>2, <1>5, <1>6 DEF BeginUpstream
  <1>7. CASE CreateTransaction(a)
    <2>1. q.pc = "create" /\ UNCHANGED <<callbacks, exchanges>>
      BY <1>7 DEF CreateTransaction
    <2>2. AuthorizationsCopy
      BY <1>5, <1>7, <2>1 DEF CreateTransaction
    <2>3. CASE TablesUnchanged
      BY <1>2, <2>1, <2>2, <2>3
    <2>4. CASE ~ TablesUnchanged
      <3> DEFINE row == [client |-> q.client, deployment |-> deployment,
                         expiresAt |-> q.at + TransactionTtl, completed |-> FALSE]
      <3>1. transactions' = [LiveTransactions(q.at) EXCEPT ![a] = row]
            /\ codes' = LiveCodes(q.at)
        BY <1>7, <2>4 DEF CreateTransaction
      <3>2. row.client = q.client /\ row.expiresAt = q.at + TransactionTtl
        OBVIOUS
      <3> HIDE DEF row
      <3>3. transactions'[a] = row
            /\ \A b \in Authorizations \ {a} : transactions'[b] \in {transactions[b], None}
        BY <3>1, LiveTables DEF BindingOK, FlowOK
      <3>4. authorizations'[a].at = q.at
        BY <1>5, <1>7, <2>1, <2>4 DEF CreateTransaction
      <3>5. TransactionsCopy
        BY <2>1, <3>2, <3>3, <3>4 DEF TransactionsCopy
      <3>6. QED
        BY <2>1, <2>2, <3>1, <3>5, ReclaimedCopies
    <2>5. QED
      BY <2>3, <2>4
  <1>8. QED
    BY <1>4, <1>6, <1>7 DEF AuthorizeStep

\* A callback that moves on takes no client, or the one of its transaction.
LEMMA OneCallbackCopies ==
    ASSUME BindingOK, NEW c \in Callbacks, NEW new,
           callbacks' = [callbacks EXCEPT ![c] = new],
           callbacks[c].pc # "done",
           callbacks[c].client # None => new.client # None /\ new.state = callbacks[c].state,
           new.client # None =>
               /\ callbacks[c].pc # "unsent" /\ new.state = callbacks[c].state
               /\ \/ new.client = callbacks[c].client
                  \/ /\ transactions[callbacks[c].state] # None
                     /\ new.client = transactions[callbacks[c].state].client
    PROVE  CallbacksCopy
  <1>1. callbacks[c].answer \notin {"code", "access_denied"}
    BY CallbackFacts DEF BindingOK
  <1>2. callbacks'[c] = new /\ \A d \in Callbacks \ {c} : callbacks'[d] = callbacks[d]
    BY DEF BindingOK, FlowOK, CoroutinesOK
  <1>3. \A d \in Callbacks : callbacks[d].client # None => callbacks[d].pc # "unsent"
    BY CallbackFacts DEF Consumed, BindingOK
  <1>4. Consumed(c) => ConsumedIn(callbacks'[c]) /\ callbacks'[c].state = callbacks[c].state
    BY <1>1, <1>2 DEF Consumed, ConsumedIn
  <1>5. \A d \in Callbacks \ {c} : Consumed(d) => ConsumedIn(callbacks'[d])
    BY <1>2 DEF Consumed, ConsumedIn
  <1>6. QED
    BY <1>1, <1>2, <1>3, <1>4, <1>5 DEF CallbacksCopy

LEMMA CallbackStepCopies ==
    ASSUME BindingOK, NEW c \in Callbacks, CallbackStep(c)
    PROVE  TransactionsCopy /\ CallbacksCopy /\ CodesCopy
           /\ UNCHANGED <<authorizations, exchanges>>
  <1> DEFINE q == callbacks[c]
  <1>1. /\ q \in CallbackState
        /\ q.pc # "unsent" => q.state \in Authorizations
        /\ q.pc = "unsent" => q.client = None
    BY CallbackFacts DEF BindingOK, Consumed
  <1>2. ASSUME TablesUnchanged PROVE TransactionsCopy /\ CodesCopy
    BY <1>2, UntouchedCopies DEF TablesUnchanged, tables
  <1>3. ASSUME NEW new, callbacks' = [callbacks EXCEPT ![c] = new],
               q.pc \notin {"unsent", "done"}, new.state = q.state, new.client = q.client
        PROVE  CallbacksCopy
    BY <1>3, OneCallbackCopies
  <1>4. ASSUME NEW answer \in CallbackAnswers, CallbackEnds(c, answer),
               q.pc \notin {"unsent", "done"}
        PROVE  CallbacksCopy
    <2> DEFINE new == CallbackLeft(q, answer)
    <2>1. new.state = q.state /\ new.client = q.client
      BY <1>1, <1>4, CallbackLeftFacts
    <2>2. callbacks' = [callbacks EXCEPT ![c] = new]
      BY <1>4 DEF CallbackEnds
    <2> HIDE DEF new
    <2>3. QED
      BY <1>3, <1>4, <2>1, <2>2
  <1>5. ASSUME NEW a \in Authorizations, ReturnFromMicrosoft(c, a)
        PROVE  TransactionsCopy /\ CallbacksCopy /\ CodesCopy
               /\ UNCHANGED <<authorizations, exchanges>>
    <2> DEFINE new == [q EXCEPT !.pc = "consume", !.at = clock, !.state = a]
    <2>1. q.pc = "unsent" /\ TablesUnchanged /\ UNCHANGED <<authorizations, exchanges>>
      BY <1>5 DEF ReturnFromMicrosoft
    <2>2. new.client = None /\ q.client = None
      BY <1>1, <2>1 DEF CallbackState
    <2>3. callbacks' = [callbacks EXCEPT ![c] = new]
      BY <1>5 DEF ReturnFromMicrosoft
    <2> HIDE DEF new
    <2>4. CallbacksCopy
      BY <2>1, <2>2, <2>3, OneCallbackCopies
    <2>5. QED
      BY <1>2, <2>1, <2>4
  <1>6. CASE ConsumeTransaction(c)
    <2> DEFINE a == q.state
               row == transactions[a]
    <2>1. /\ q.pc = "consume" /\ row # None
          /\ UNCHANGED <<codes, authorizations, exchanges>>
          /\ transactions' = [transactions EXCEPT ![a] = [row EXCEPT !.completed = TRUE]]
      BY <1>6 DEF ConsumeTransaction, TransactionUsable
    <2>2. a \in Authorizations /\ row \in TransactionRow
      BY <1>1, <2>1 DEF BindingOK, FlowOK, TablesOK
    <2>3. /\ [row EXCEPT !.completed = TRUE].client = row.client
          /\ [row EXCEPT !.completed = TRUE].expiresAt = row.expiresAt
      BY <2>2 DEF TransactionRow
    <2>4. TransactionsCopy
      BY <2>1, <2>2, <2>3 DEF TransactionsCopy, BindingOK, FlowOK, TablesOK
    <2>5. CASE CallbackEnds(c, "access_denied")
      BY <1>4, <2>1, <2>4, <2>5, UntouchedCopies DEF CallbackAnswers
    <2>6. CASE callbacks' = [callbacks EXCEPT ![c] =
                 [@ EXCEPT !.pc = "entra", !.client = row.client, !.deployment = row.deployment]]
      <3> DEFINE new == [q EXCEPT !.pc = "entra", !.client = row.client,
                                  !.deployment = row.deployment]
      <3>1. new.client = row.client /\ new.state = q.state
        BY <1>1 DEF CallbackState
      <3>2. callbacks' = [callbacks EXCEPT ![c] = new]
        BY <2>6
      <3> HIDE DEF new
      <3>3. CallbacksCopy
        <4>1. q.client = None
          BY <2>1, CallbackFacts DEF BindingOK, Consumed
        <4>2. QED
          BY <2>1, <3>1, <3>2, <4>1, OneCallbackCopies
      <3>4. QED
        BY <2>1, <2>4, <3>3, UntouchedCopies
    <2>7. QED
      BY <1>6, <2>5, <2>6 DEF ConsumeTransaction
  <1>7. CASE TransactionRefused(c)
    BY <1>2, <1>4, <1>7 DEF TransactionRefused, CallbackAnswers
  <1>8. CASE EntraComplete(c)
    <2>1. q.pc = "entra" /\ TablesUnchanged /\ UNCHANGED <<authorizations, exchanges>>
      BY <1>8 DEF EntraComplete
    <2>2. ASSUME NEW user, NEW expires, callbacks' = [callbacks EXCEPT ![c] =
                 [@ EXCEPT !.pc = "validate", !.user = user, !.tokenExpiresAt = expires]]
          PROVE  CallbacksCopy
      <3> DEFINE new == [q EXCEPT !.pc = "validate", !.user = user, !.tokenExpiresAt = expires]
      <3>1. new.state = q.state /\ new.client = q.client
        BY <1>1 DEF CallbackState
      <3>2. callbacks' = [callbacks EXCEPT ![c] = new]
        BY <2>2
      <3> HIDE DEF new
      <3>3. QED
        BY <1>3, <2>1, <3>1, <3>2
    <2>3. QED
      BY <1>2, <1>4, <1>8, <2>1, <2>2 DEF EntraComplete, CallbackAnswers
  <1>9. CASE ValidateTokenA(c)
    <2>1. q.pc = "validate" /\ TablesUnchanged /\ UNCHANGED <<authorizations, exchanges>>
      BY <1>9 DEF ValidateTokenA
    <2>2. CASE callbacks' = [callbacks EXCEPT ![c] = [@ EXCEPT !.pc = "create", !.at = clock]]
      <3> DEFINE new == [q EXCEPT !.pc = "create", !.at = clock]
      <3>1. new.state = q.state /\ new.client = q.client
        BY <1>1 DEF CallbackState
      <3>2. callbacks' = [callbacks EXCEPT ![c] = new]
        BY <2>2
      <3> HIDE DEF new
      <3>3. QED
        BY <1>2, <1>3, <2>1, <3>1, <3>2
    <2>3. QED
      BY <1>2, <1>4, <1>9, <2>1, <2>2 DEF ValidateTokenA, CallbackAnswers
  <1>10. CASE CreateCode(c)
    <2> DEFINE new == [q EXCEPT !.pc = "done", !.answer = "code"]
    <2>1. /\ q.pc = "create" /\ UNCHANGED <<authorizations, exchanges>>
          /\ transactions' = LiveTransactions(q.at)
          /\ codes' = [LiveCodes(q.at) EXCEPT ![c] = CodeOf(c)]
          /\ callbacks' = [callbacks EXCEPT ![c] = new]
      BY <1>10 DEF CreateCode
    <2>2. /\ new.client = q.client /\ new.user = q.user /\ new.deployment = q.deployment
          /\ new.state = q.state /\ new.tokenExpiresAt = q.tokenExpiresAt /\ new.at = q.at
      BY <1>1 DEF CallbackState
    <2>3. callbacks'[c] = new
      BY <2>1 DEF BindingOK, FlowOK, CoroutinesOK
    <2>4. CodeBound(CodeOf(c), q)
      BY DEF CodeOf, CodeBound
    <2> HIDE DEF new
    <2>5. codes'[c] = CodeOf(c) /\ \A d \in Callbacks \ {c} : codes'[d] \in {codes[d], None}
      BY <2>1, LiveTables DEF BindingOK, FlowOK
    <2>6. CodesCopy
      BY <2>2, <2>3, <2>4, <2>5 DEF CodesCopy, SameCode, CodeBound
    <2>7. CallbacksCopy
      BY <1>3, <2>1, <2>2
    <2>8. QED
      BY <2>1, <2>6, <2>7, ReclaimedCopies
  <1>11. CASE CallbackStoreFails(c)
    BY <1>2, <1>4, <1>11 DEF CallbackStoreFails, CallbackAnswers
  <1>12. QED
    BY <1>5, <1>6, <1>7, <1>8, <1>9, <1>10, <1>11 DEF CallbackStep

LEMMA ExchangeStepCopies ==
    ASSUME BindingOK, NEW e \in Exchanges, ExchangeStep(e)
    PROVE  TransactionsCopy /\ CodesCopy /\ ExchangesCopy
           /\ UNCHANGED <<authorizations, callbacks>>
  <1> DEFINE q == exchanges[e]
  <1>1. q \in ExchangeState /\ (q.pc # "unsent" => q.code \in Callbacks)
    BY ExchangeFacts DEF BindingOK
  <1>2. ASSUME TablesUnchanged PROVE TransactionsCopy /\ CodesCopy
    BY <1>2, UntouchedCopies DEF TablesUnchanged, tables
  <1>3. ASSUME NEW new, exchanges' = [exchanges EXCEPT ![e] = new], ExchangeTurns(q, new)
        PROVE  ExchangesCopy
    <2>1. exchanges'[e] = new /\ \A d \in Exchanges \ {e} : exchanges'[d] = exchanges[d]
      BY <1>3 DEF BindingOK, FlowOK, CoroutinesOK
    <2>2. \A d \in Exchanges \ {e} : ExchangeTurns(exchanges[d], exchanges'[d])
      BY <2>1 DEF ExchangeTurns
    <2>3. QED
      BY <1>3, <2>1, <2>2 DEF ExchangesCopy
  <1>4. ASSUME NEW answer \in ExchangeAnswers, q.pc \notin {"unsent", "done"},
               ExchangeEnds(e, answer)
        PROVE  ExchangesCopy
    <2> DEFINE new == ExchangeLeft(q, answer)
    <2>1. /\ new.code = q.code /\ new.row = q.row /\ new.session = q.session /\ new.pc = "done"
          /\ new.row # None => new.client = q.client /\ new.verifier = q.verifier
      BY <1>1, <1>4, ExchangeLeftFacts
    <2>2. exchanges' = [exchanges EXCEPT ![e] = new]
      BY <1>4 DEF ExchangeEnds
    <2> HIDE DEF new
    <2>3. QED
      BY <1>3, <1>4, <2>1, <2>2 DEF ExchangeTurns, GetsOn
  <1>5. ASSUME NEW c \in Callbacks, NEW client \in Clients, NEW a \in Authorizations,
               PresentCode(e, c, client, a)
        PROVE  TransactionsCopy /\ CodesCopy /\ ExchangesCopy
               /\ UNCHANGED <<authorizations, callbacks>>
    <2> DEFINE new == [q EXCEPT !.pc = "redeem", !.at = clock, !.code = c, !.client = client,
                                !.verifier = a]
    <2>1. q.pc = "unsent" /\ TablesUnchanged /\ UNCHANGED <<authorizations, callbacks>>
      BY <1>5 DEF PresentCode
    <2>2. new.row = q.row /\ new.session = q.session /\ new.pc = "redeem"
      BY <1>1 DEF ExchangeState
    <2>3. exchanges' = [exchanges EXCEPT ![e] = new]
      BY <1>5 DEF PresentCode
    <2> HIDE DEF new
    <2>4. QED
      BY <1>2, <1>3, <2>1, <2>2, <2>3 DEF ExchangeTurns
  <1>6. CASE Redeem(e)
    <2> DEFINE row == codes[q.code]
               marked == [row EXCEPT !.used = TRUE]
    <2>1. /\ q.pc = "redeem" /\ UNCHANGED <<transactions, authorizations, callbacks>>
          /\ row # None /\ row.client = q.client /\ row.challenge = q.verifier
          /\ codes' = [codes EXCEPT ![q.code] = marked]
      BY <1>6 DEF Redeem, CodeUsable
    <2>2. q.code \in Callbacks /\ row \in CodeRow
      BY <1>1, <2>1 DEF BindingOK, FlowOK, TablesOK
    <2>3. SameCode(marked, row)
      BY <2>2 DEF CodeRow, SameCode
    <2>4. codes'[q.code] = marked /\ \A c \in Callbacks \ {q.code} : codes'[c] = codes[c]
      BY <2>1, <2>2 DEF BindingOK, FlowOK, TablesOK
    <2> HIDE DEF marked
    <2>5. CodesCopy
      BY <2>1, <2>3, <2>4 DEF CodesCopy, SameCode
    <2>6. TransactionsCopy
      BY <2>1, UntouchedCopies
    <2>7. ASSUME NEW new, exchanges' = [exchanges EXCEPT ![e] = new], new.row = row,
                 new.code = q.code, new.client = q.client, new.verifier = q.verifier,
                 new.session = q.session,
                 new.pc = "done" \/ CodeBindingIsValid(row)
          PROVE  ExchangesCopy
      BY <1>3, <2>1, <2>7 DEF CodeBindingIsValid, ExchangeTurns, TakesCode
    <2>8. CASE CodeBindingIsValid(row)
      <3> DEFINE new == [q EXCEPT !.pc = "registry", !.row = row]
      <3>1. /\ new.code = q.code /\ new.client = q.client /\ new.verifier = q.verifier
            /\ new.row = row /\ new.session = q.session
        BY <1>1 DEF ExchangeState
      <3>2. exchanges' = [exchanges EXCEPT ![e] = new]
        BY <1>6, <2>8 DEF Redeem
      <3> HIDE DEF new, row
      <3>3. QED
        BY <2>1, <2>5, <2>6, <2>7, <2>8, <3>1, <3>2
    <2>9. CASE ~ CodeBindingIsValid(row)
      <3> DEFINE new == [q EXCEPT !.pc = "done", !.row = row, !.answer = "invalid_grant"]
      <3>1. /\ new.code = q.code /\ new.client = q.client /\ new.verifier = q.verifier
            /\ new.row = row /\ new.session = q.session /\ new.pc = "done"
        BY <1>1 DEF ExchangeState
      <3>2. exchanges' = [exchanges EXCEPT ![e] = new]
        BY <1>6, <2>9 DEF Redeem
      <3> HIDE DEF new, row
      <3>3. QED
        BY <2>1, <2>5, <2>6, <2>7, <3>1, <3>2
    <2>10. QED
      BY <2>8, <2>9
  <1>7. CASE CodeRefused(e)
    BY <1>2, <1>4, <1>7 DEF CodeRefused, ExchangeAnswers
  <1>8. CASE CheckBundle(e)
    <2>1. q.pc = "registry" /\ TablesUnchanged /\ UNCHANGED <<authorizations, callbacks>>
      BY <1>8 DEF CheckBundle
    <2>2. \/ ExchangeEnds(e, "token") \/ ExchangeEnds(e, "invalid_grant")
          \/ exchanges' = [exchanges EXCEPT ![e] = [@ EXCEPT !.pc = "issue"]]
      BY <1>8, <2>1, CheckBundleEnds, BundleRow DEF BindingOK
    <2>3. CASE exchanges' = [exchanges EXCEPT ![e] = [@ EXCEPT !.pc = "issue"]]
      <3> DEFINE new == [q EXCEPT !.pc = "issue"]
      <3>1. /\ new.code = q.code /\ new.client = q.client /\ new.verifier = q.verifier
            /\ new.row = q.row /\ new.session = q.session
        BY <1>1 DEF ExchangeState
      <3>2. exchanges' = [exchanges EXCEPT ![e] = new]
        BY <2>3
      <3> HIDE DEF new
      <3>3. QED
        BY <1>2, <1>3, <2>1, <3>1, <3>2 DEF ExchangeTurns, GetsOn
    <2>4. QED
      BY <1>2, <1>4, <2>1, <2>2, <2>3 DEF ExchangeAnswers
  <1>9. ASSUME NEW s \in Sessions, Issue(e, s)
        PROVE  TransactionsCopy /\ CodesCopy /\ ExchangesCopy
               /\ UNCHANGED <<authorizations, callbacks>>
    <2> DEFINE new == [q EXCEPT !.pc = "done", !.session = s, !.answer = "token"]
    <2>1. /\ q.pc = "issue" /\ UNCHANGED <<authorizations, callbacks>>
          /\ transactions' = LiveTransactions(q.at) /\ codes' = LiveCodes(q.at)
          /\ IssueSession(s, q.row.client, q.row.user, q.row.deployment, q.at)
      BY <1>9 DEF Issue
    <2>2. s \in minted' /\ Owned(sessions'[s], q.row)
      BY <2>1 DEF IssueSession, Owned, Reclaimed
    <2>3. /\ new.code = q.code /\ new.client = q.client /\ new.verifier = q.verifier
          /\ new.row = q.row /\ new.session = s /\ new.pc = "done"
      BY <1>1 DEF ExchangeState
    <2>4. exchanges' = [exchanges EXCEPT ![e] = new]
      BY <1>9 DEF Issue
    <2> HIDE DEF new
    <2>5. ExchangesCopy
      BY <1>3, <2>1, <2>2, <2>3, <2>4 DEF ExchangeTurns, TakesSession
    <2>6. QED
      BY <2>1, <2>5, ReclaimedCopies
  <1>10. CASE ExchangeStoreFails(e)
    BY <1>2, <1>4, <1>10 DEF ExchangeStoreFails, ExchangeAnswers
  <1>11. QED
    BY <1>5, <1>6, <1>7, <1>8, <1>9, <1>10 DEF ExchangeStep

LEMMA RestartCopies ==
    ASSUME BindingOK, ServerRestart
    PROVE  AuthorizationsCopy /\ TransactionsCopy /\ CallbacksCopy /\ CodesCopy
           /\ ExchangesCopy /\ ExchangesEndWithDeployment
  <1>1. TransactionsCopy /\ CodesCopy
    BY ReclaimedCopies DEF ServerRestart
  <1>2. AuthorizationsCopy
    <2>1. \A a \in Authorizations : authorizations[a] \in AuthorizationState
      BY DEF BindingOK, FlowOK, CoroutinesOK, AuthorizationOK
    <2>2. \A a \in Authorizations :
             authorizations[a].pc # "done" => authorizations[a].answer # "redirect"
      BY DEF BindingOK, FlowOK, FlowInv, TransactionsFollowRedirects
    <2>3. QED
      BY <2>1, <2>2 DEF ServerRestart, AuthorizationsCopy, AuthorizationState
  <1>3. CallbacksCopy
    <2>1. ASSUME NEW c \in Callbacks
          PROVE  /\ callbacks[c].answer = "code" => callbacks'[c] = callbacks[c]
                 /\ callbacks'[c].client = callbacks[c].client
                 /\ callbacks'[c].state = callbacks[c].state
                 /\ Consumed(c) => ConsumedIn(callbacks'[c])
                 /\ callbacks[c].client # None => callbacks[c].pc # "unsent"
      <3>1. /\ callbacks[c] \in CallbackState
            /\ callbacks[c].pc # "done" => callbacks[c].answer = "none"
            /\ callbacks[c].client # None => callbacks[c].pc # "unsent"
        BY CallbackFacts DEF BindingOK, Consumed
      <3>2. CASE callbacks[c].pc \in {"consume", "entra", "validate", "create"}
        <4>1. callbacks'[c] = CallbackLeft(callbacks[c], "lost")
          BY <3>2 DEF ServerRestart
        <4>2. /\ callbacks'[c].client = callbacks[c].client
              /\ callbacks'[c].state = callbacks[c].state
          BY <3>1, <4>1, CallbackLeftFacts DEF CallbackAnswers
        <4>3. QED
          BY <3>1, <3>2, <4>2 DEF Consumed, ConsumedIn
      <3>3. CASE callbacks[c].pc \notin {"consume", "entra", "validate", "create"}
        BY <3>1, <3>3 DEF ServerRestart, Consumed, ConsumedIn
      <3>4. QED
        BY <3>2, <3>3
    <2>2. QED
      BY <2>1 DEF CallbacksCopy
  <1>4. ASSUME NEW e \in Exchanges
        PROVE  /\ ExchangeTurns(exchanges[e], exchanges'[e])
               /\ exchanges'[e].pc \notin {"registry", "issue"}
    <2>1. CASE exchanges[e].pc \in {"redeem", "registry", "issue"}
      <3> DEFINE new == ExchangeLeft(exchanges[e], "lost")
      <3>1. exchanges[e] \in ExchangeState
        BY ExchangeFacts DEF BindingOK
      <3>2. /\ new.code = exchanges[e].code /\ new.row = exchanges[e].row
            /\ new.session = exchanges[e].session /\ new.pc = "done"
            /\ new.row # None => /\ new.client = exchanges[e].client
                                 /\ new.verifier = exchanges[e].verifier
        BY <3>1, ExchangeLeftFacts DEF ExchangeAnswers
      <3>3. exchanges'[e] = new
        BY <2>1 DEF ServerRestart
      <3> HIDE DEF new
      <3>4. QED
        BY <2>1, <3>2, <3>3 DEF ExchangeTurns, GetsOn
    <2>2. CASE exchanges[e].pc \notin {"redeem", "registry", "issue"}
      BY <2>2 DEF ServerRestart, ExchangeTurns
    <2>3. QED
      BY <2>1, <2>2
  <1>5. QED
    BY <1>1, <1>2, <1>3, <1>4 DEF ExchangesCopy, ExchangesEndWithDeployment

\* Only a restart changes the settings, and only issue() mints a session.
LEMMA AuthorizeMints ==
    ASSUME NEW a \in Authorizations, AuthorizeStep(a)
    PROVE  UNCHANGED <<deployment, minted>>
  BY DEF AuthorizeStep, Authorize, BeginUpstream, CreateTransaction, TablesUnchanged,
         StoreUnchanged, OtherWriter

LEMMA CallbackMints ==
    ASSUME NEW c \in Callbacks, CallbackStep(c)
    PROVE  UNCHANGED <<deployment, minted>>
  <1>1. TablesUnchanged => UNCHANGED <<deployment, minted>>
    BY DEF TablesUnchanged, StoreUnchanged
  <1>2. CASE ConsumeTransaction(c)
    BY <1>2 DEF ConsumeTransaction, StoreUnchanged
  <1>3. CASE CreateCode(c)
    BY <1>3 DEF CreateCode, OtherWriter
  <1>4. QED
    BY <1>1, <1>2, <1>3 DEF CallbackStep, ReturnFromMicrosoft, TransactionRefused,
                            EntraComplete, ValidateTokenA, CallbackStoreFails

LEMMA ExchangeMints ==
    ASSUME NEW e \in Exchanges, ExchangeStep(e)
    PROVE  /\ UNCHANGED deployment
           /\ UNCHANGED minted \/ \E s \in Sessions : Issue(e, s)
  <1>1. TablesUnchanged => UNCHANGED <<deployment, minted>>
    BY DEF TablesUnchanged, StoreUnchanged
  <1>2. CASE Redeem(e)
    BY <1>2 DEF Redeem, StoreUnchanged
  <1>3. CASE \E s \in Sessions : Issue(e, s)
    BY <1>3 DEF Issue, IssueSession
  <1>4. QED
    BY <1>1, <1>2, <1>3 DEF ExchangeStep, PresentCode, CodeRefused, CheckBundle,
                            ExchangeStoreFails

LEMMA RequestMints ==
    ASSUME NEW r \in Requests, RequestStep(r)
    PROVE  UNCHANGED deployment /\ minted' \subseteq minted \cup {r}
  <1>1. StoreUnchanged => UNCHANGED <<deployment, minted>>
    BY DEF StoreUnchanged
  <1>2. CASE Rotate(r)
    BY <1>2 DEF Rotate
  <1>3. CASE Revoke(r) \/ ReplayRevoke(r)
    BY <1>3 DEF Revoke, ReplayRevoke
  <1>4. QED
    BY <1>1, <1>2, <1>3 DEF RequestStep, LookupMisses, LookupAccepts, LookupRefuses,
                            LookupWrongScope, EntraRefresh, Validate, RotateConflicts,
                            ReplayFind, StoreFails

LEMMA BindingStep ==
    ASSUME IInv, ServerTypeOK, FlowInv, BindingInv, [ServerNext]_serverVars
    PROVE  BindingInv'
  <1>1. BindingOK /\ TypeOK
    BY ServerTypeParts DEF BindingOK, FlowOK, IInv
  <1>2. SessionsKeepOwners
    BY <1>1, ServerStepImplements, OwnersKept
  <1> USE DEF ExchangesEndWithDeployment
  <1>3. ASSUME NEW a \in Authorizations, AuthorizeStep(a) PROVE BindingInv'
    BY <1>1, <1>2, <1>3, AuthorizeStepCopies, UntouchedCopies, CopiesBind, AuthorizeMints
  <1>4. ASSUME NEW c \in Callbacks, CallbackStep(c) PROVE BindingInv'
    BY <1>1, <1>2, <1>4, CallbackStepCopies, UntouchedCopies, CopiesBind, CallbackMints
  <1>5. ASSUME NEW e \in Exchanges, ExchangeStep(e) PROVE BindingInv'
    BY <1>1, <1>2, <1>5, ExchangeStepCopies, UntouchedCopies, CopiesBind, ExchangeMints
  <1>6. CASE ServerRestart
    BY <1>1, <1>2, <1>6, RestartCopies, CopiesBind
  <1>7. ASSUME TransactionsCopy, CodesCopy, UNCHANGED coroutines, UNCHANGED deployment
        PROVE  BindingInv'
    BY <1>1, <1>2, <1>7, UntouchedCopies, CopiesBind DEF coroutines
  <1>8. ASSUME UNCHANGED tables PROVE TransactionsCopy /\ CodesCopy
    BY <1>1, <1>8, UntouchedCopies DEF tables
  <1>9. ASSUME NEW r \in Requests, RefreshStep(r) PROVE BindingInv'
    <2>1. \/ UNCHANGED tables
          \/ /\ transactions' = LiveTransactions(requests[r].at)
             /\ codes' = LiveCodes(requests[r].at)
      BY <1>9 DEF RefreshStep
    <2>2. TransactionsCopy /\ CodesCopy
      BY <1>1, <1>8, <2>1, ReclaimedCopies
    <2>3. QED
      BY <1>7, <1>9, <2>2, RequestMints DEF RefreshStep
  <1>10. ASSUME NEW r \in Requests, NEW h, NEW client, Refresh(r, h, client) PROVE BindingInv'
    BY <1>7, <1>8, <1>10 DEF Refresh, Start, StoreUnchanged
  <1>11. CASE ServerTick \/ UNCHANGED serverVars
    BY <1>7, <1>8, <1>11 DEF ServerTick, Tick, serverVars, vars
  <1>12. QED
    BY <1>3, <1>4, <1>5, <1>6, <1>9, <1>10, <1>11 DEF ServerNext

LEMMA BindingInit == ServerInit => BindingInv
  BY DEF ServerInit, BindingInv, RequestsAreBound, ExchangesAreBound, Redeemed

\* The rows of the flow and the coroutines copy one another.
LEMMA BindingCorrect == ServerSpec => [](IInv /\ ServerTypeOK /\ FlowInv /\ BindingInv)
  <1>1. IInv /\ ServerTypeOK /\ FlowInv /\ BindingInv /\ [ServerNext]_serverVars => BindingInv'
    BY BindingStep
  <1>2. ServerSpec => []IInv
    BY ServerRefinement, Invariant, PTL DEF ImplementsRefreshSessions
  <1>3. QED
    BY <1>1, <1>2, BindingInit, FlowCorrect, ServerTypes, PTL DEF ServerSpec

(* A session belongs to the client that asked for the authorization and      *)
(* redeemed it with its own verifier, to the identity that signed in and to  *)
(* the deployment that was consented to (create_code, exchange and issue     *)
(* each copy what the step before them stored).                              *)
THEOREM SessionsAreOfTheirAuthorization == ServerSpec => []SessionOfAuthorization
  <1>1. ASSUME TypeOK, ServerTypeOK, FlowInv, BindingInv PROVE SessionOfAuthorization
    <2>1. FlowOK
      BY <1>1, ServerTypeParts DEF FlowOK
    <2>2. ASSUME NEW e \in Exchanges, exchanges[e].session # None
          PROVE  /\ exchanges[e].row # None /\ exchanges[e].code \in Callbacks
                 /\ callbacks[exchanges[e].code].client # None
      <3>1. Redeemed(e)
        BY <1>1, <2>2 DEF BindingInv, ExchangesAreBound
      <3>2. exchanges[e].code \in Callbacks /\ callbacks[exchanges[e].code].answer = "code"
        BY <2>1, <3>1, ExchangeFacts
      <3>3. QED
        BY <1>1, <3>1, <3>2 DEF Redeemed, FlowInv, CodesFollowCallbacks
    <2>3. QED
      BY <1>1, <2>2 DEF SessionOfAuthorization, BindingInv, RequestsAreBound, ExchangesAreBound,
                        CodeBound, Owned, Redeemed
  <1>2. IInv => TypeOK
    BY DEF IInv
  <1>3. QED
    BY <1>1, <1>2, BindingCorrect, PTL

LEMMA BirthIsAnIssue ==
    ASSUME IInv, ServerTypeOK, [ServerNext]_serverVars, NEW s \in Sessions,
           ~ Present(s), sessions'[s] # None
    PROVE  \E e \in Exchanges : Issue(e, s)
  <1>1. Issuing(s)
    <2>1. ~ Kept(s) /\ ~ Deleted(s) /\ ~ MarkedRevoked(s)
      BY DEF Kept, Deleted, MarkedRevoked, Present
    <2>2. \A r \in Requests : Rotating(r, requests[r].session) => s # requests[r].session
      BY DEF Rotating, Usable
    <2>3. QED
      BY <2>1, <2>2, StoreStep, ServerStepImplements DEF IInv, Fading, Issuing, Rotating, OnlyFade
  <1>2. s \notin minted /\ s \in minted' /\ s \notin Requests
    BY <1>1, NamesAssumption DEF Issuing
  <1>3. ASSUME NEW e \in Exchanges, NEW t \in Sessions, Issue(e, t) PROVE t = s
    BY <1>2, <1>3 DEF Issue, IssueSession
  <1>4. \A r \in Requests : ~ RefreshStep(r)
    BY <1>2, RequestMints DEF RefreshStep
  <1>5. \A r \in Requests, h \in minted, client \in Clients : ~ Refresh(r, h, client)
    BY <1>2 DEF Refresh, Start, StoreUnchanged
  <1>6. ~ ServerRestart /\ ~ ServerTick /\ ~ UNCHANGED serverVars
    BY <1>2 DEF ServerRestart, Restart, ServerTick, Tick, serverVars, vars
  <1>7. (\A a \in Authorizations : ~ AuthorizeStep(a)) /\ (\A c \in Callbacks : ~ CallbackStep(c))
    BY <1>2, AuthorizeMints, CallbackMints
  <1>8. PICK e \in Exchanges : ExchangeStep(e)
    BY <1>4, <1>5, <1>6, <1>7 DEF ServerNext
  <1>9. QED
    BY <1>2, <1>3, <1>8, ExchangeMints

(* A session is born under the settings its first refresh will compare: the  *)
(* code is refused after a restart with other settings, and an exchange does *)
(* not survive one (_authorization_code_binding_is_valid, issue).             *)
THEOREM SessionsAreBornUsable == ServerSpec => NoStillbornSession
  <1>1. ASSUME IInv, ServerTypeOK, FlowInv, BindingInv, [ServerNext]_serverVars,
               NEW s \in Sessions, ~ Present(s), sessions'[s] # None
        PROVE  sessions'[s].deployment = deployment
    <2>1. PICK e \in Exchanges : Issue(e, s)
      BY <1>1, BirthIsAnIssue
    <2>2. exchanges[e].row.deployment = deployment
      BY <1>1, <2>1 DEF Issue, BindingInv, ExchangesAreBound
    <2>3. sessions'[s].deployment = exchanges[e].row.deployment
      BY <2>1 DEF Issue, IssueSession, Reclaimed
    <2>4. QED
      BY <2>2, <2>3
  <1>2. IInv /\ ServerTypeOK /\ FlowInv /\ BindingInv /\ [ServerNext]_serverVars =>
           [\A s \in Sessions :
              ~ Present(s) /\ sessions'[s] # None => sessions'[s].deployment = deployment]_serverVars
    BY <1>1
  <1>3. QED
    BY <1>2, BindingCorrect, PTL DEF ServerSpec, NoStillbornSession

-----------------------------------------------------------------------------
(* Nobody is refused without a reason.  A row that counts is taken away by   *)
(* the step that uses it, or by a writer whose reading of the clock, however *)
(* old, is past its expiry.                                                  *)

TransactionsRemain ==
    \A a \in Authorizations : authorizations'[a].answer = "redirect" =>
        \/ transactions'[a] # None /\ ~ transactions'[a].completed
        \/ /\ authorizations[a].answer = "redirect"
           /\ \/ transactions[a] = None \/ transactions[a].completed
              \/ transactions[a] # None /\ transactions[a].expiresAt <= clock
              \/ \E c \in Callbacks : ConsumedIn(callbacks'[c]) /\ callbacks'[c].state = a

CodesRemain ==
    \A c \in Callbacks : callbacks'[c].answer = "code" =>
        \/ codes'[c] # None /\ ~ codes'[c].used
        \/ /\ callbacks[c].answer = "code"
           /\ \/ codes[c] = None \/ codes[c].used
              \/ codes[c] # None /\ codes[c].expiresAt <= clock
              \/ \E e \in Exchanges : exchanges'[e].row # None /\ exchanges'[e].code = c

NoNewRedirect ==
    \A a \in Authorizations :
        authorizations'[a].answer = "redirect" => authorizations[a].answer = "redirect"

NoNewCode ==
    \A c \in Callbacks : callbacks'[c].answer = "code" => callbacks[c].answer = "code"

LEMMA UntouchedRemain ==
    /\ NoNewRedirect /\ UNCHANGED transactions => TransactionsRemain
    /\ NoNewCode /\ UNCHANGED codes => CodesRemain
  BY DEF NoNewRedirect, NoNewCode, TransactionsRemain, CodesRemain

LEMMA ExpiredGo ==
    ASSUME BindingOK, NEW at \in Nat, at <= clock
    PROVE  /\ transactions' = LiveTransactions(at) =>
                 \A a \in Authorizations :
                    \/ transactions'[a] = transactions[a]
                    \/ transactions[a] # None /\ transactions[a].completed
                    \/ transactions[a] # None /\ transactions[a].expiresAt <= clock
           /\ codes' = LiveCodes(at) =>
                 \A c \in Callbacks :
                    \/ codes'[c] = codes[c]
                    \/ codes[c] # None /\ codes[c].used
                    \/ codes[c] # None /\ codes[c].expiresAt <= clock
  <1>1. clock \in Nat
    BY DEF BindingOK, FlowOK, TypeOK
  <1>2. \A a \in Authorizations : transactions[a] # None => transactions[a].expiresAt \in Nat
    BY DEF BindingOK, FlowOK, TablesOK, TransactionRow
  <1>3. \A c \in Callbacks : codes[c] # None => codes[c].expiresAt \in Nat
    BY DEF BindingOK, FlowOK, TablesOK, CodeRow
  <1>4. QED
    BY <1>1, <1>2, <1>3 DEF LiveTransactions, LiveCodes

LEMMA ReclaimedRemain ==
    ASSUME BindingOK, NEW at \in Nat, at <= clock
    PROVE  /\ NoNewRedirect /\ transactions' = LiveTransactions(at) => TransactionsRemain
           /\ NoNewCode /\ codes' = LiveCodes(at) => CodesRemain
  BY ExpiredGo DEF NoNewRedirect, NoNewCode, TransactionsRemain, CodesRemain

\* What remains, with what is copied, leaves nothing lost.
LEMMA RemainingIsKept ==
    ASSUME BindingOK, NothingIsLost, clock' \in Nat, clock <= clock',
           AuthorizationsCopy, CallbacksCopy, ExchangesCopy, TransactionsRemain, CodesRemain
    PROVE  NothingIsLost'
  <1>1. clock \in Nat /\ TransactionTtl \in Nat /\ CodeTtl \in Nat
    BY ServerAssumption DEF BindingOK, FlowOK, TypeOK
  <1>2. \A c \in Callbacks : Consumed(c) => Consumed(c)' /\ callbacks'[c].state = callbacks[c].state
    BY DEF CallbacksCopy, ConsumedIn, Consumed
  <1>3. ASSUME NEW a \in Authorizations, authorizations'[a].answer = "redirect"
        PROVE  \/ transactions'[a] # None /\ ~ transactions'[a].completed
               \/ authorizations'[a].at + TransactionTtl <= clock'
               \/ \E c \in Callbacks : Consumed(c)' /\ callbacks'[c].state = a
    <2>1. CASE transactions'[a] # None /\ ~ transactions'[a].completed
      BY <2>1
    <2>2. CASE \E c \in Callbacks : ConsumedIn(callbacks'[c]) /\ callbacks'[c].state = a
      BY <2>2 DEF ConsumedIn, Consumed
    <2>3. CASE /\ authorizations[a].answer = "redirect"
               /\ \/ transactions[a] = None \/ transactions[a].completed
                  \/ transactions[a] # None /\ transactions[a].expiresAt <= clock
      <3>1. authorizations'[a].at = authorizations[a].at
        BY <2>3 DEF AuthorizationsCopy
      <3>2. authorizations[a].at \in Nat
        BY DEF BindingOK, FlowOK, CoroutinesOK, AuthorizationOK, AuthorizationState
      <3>3. \/ authorizations[a].at + TransactionTtl <= clock
            \/ \E c \in Callbacks : Consumed(c) /\ callbacks[c].state = a
        BY <2>3 DEF NothingIsLost, BindingOK, BindingInv, RequestsAreBound
      <3>4. CASE authorizations[a].at + TransactionTtl <= clock
        BY <1>1, <3>1, <3>2, <3>4
      <3>5. QED
        BY <1>2, <3>3, <3>4
    <2>4. QED
      BY <1>3, <2>1, <2>2, <2>3 DEF TransactionsRemain
  <1>4. \A e \in Exchanges :
           Redeemed(e) => Redeemed(e)' /\ exchanges'[e].code = exchanges[e].code
    BY ExchangeFacts DEF BindingOK, ExchangesCopy, ExchangeTurns, TakesCode, TakesSession,
                         GetsOn, Redeemed
  <1>5. ASSUME NEW c \in Callbacks, callbacks'[c].answer = "code"
        PROVE  \/ codes'[c] # None /\ ~ codes'[c].used
               \/ callbacks'[c].at + CodeTtl <= clock'
               \/ \E e \in Exchanges : Redeemed(e)' /\ exchanges'[e].code = c
    <2>1. CASE codes'[c] # None /\ ~ codes'[c].used
      BY <2>1
    <2>2. CASE \E e \in Exchanges : exchanges'[e].row # None /\ exchanges'[e].code = c
      BY <2>2 DEF Redeemed
    <2>3. CASE /\ callbacks[c].answer = "code"
               /\ \/ codes[c] = None \/ codes[c].used
                  \/ codes[c] # None /\ codes[c].expiresAt <= clock
      <3>1. callbacks'[c] = callbacks[c]
        BY <2>3 DEF CallbacksCopy
      <3>2. callbacks[c].at \in Nat
        BY CallbackFacts DEF BindingOK, CallbackState
      <3>3. \/ callbacks[c].at + CodeTtl <= clock
            \/ \E e \in Exchanges : Redeemed(e) /\ exchanges[e].code = c
        BY <2>3 DEF NothingIsLost, BindingOK, BindingInv, RequestsAreBound, CodeBound
      <3>4. CASE callbacks[c].at + CodeTtl <= clock
        BY <1>1, <3>1, <3>2, <3>4
      <3>5. QED
        BY <1>4, <3>3, <3>4
    <2>4. QED
      BY <1>5, <2>1, <2>2, <2>3 DEF CodesRemain
  <1>6. QED
    BY <1>3, <1>5 DEF NothingIsLost

LEMMA AuthorizeStepRemains ==
    ASSUME BindingOK, NEW a \in Authorizations, AuthorizeStep(a)
    PROVE  TransactionsRemain /\ CodesRemain
  <1> DEFINE q == authorizations[a]
  <1>1. q \in AuthorizationState /\ q.at <= clock
    BY DEF BindingOK, FlowOK, CoroutinesOK, AuthorizationOK
  <1>2. UNCHANGED callbacks
    BY AuthorizeStepCopies
  <1>3. NoNewCode
    BY <1>2 DEF NoNewCode
  <1>4. ASSUME NEW new, authorizations' = [authorizations EXCEPT ![a] = new],
               new.answer # "redirect" \/ new.answer = q.answer, TablesUnchanged
        PROVE  TransactionsRemain /\ CodesRemain
    <2>1. NoNewRedirect
      BY <1>4 DEF NoNewRedirect, BindingOK, FlowOK, CoroutinesOK
    <2>2. QED
      BY <1>3, <1>4, <2>1, UntouchedRemain DEF TablesUnchanged, tables
  <1>5. ASSUME NEW client \in Clients, Authorize(a, client)
        PROVE  TransactionsRemain /\ CodesRemain
    <2> DEFINE new == [q EXCEPT !.pc = "begin", !.client = client]
    <2>1. new.answer = q.answer
      BY <1>1 DEF AuthorizationState
    <2>2. authorizations' = [authorizations EXCEPT ![a] = new] /\ TablesUnchanged
      BY <1>5 DEF Authorize
    <2> HIDE DEF new
    <2>3. QED
      BY <1>4, <2>1, <2>2
  <1>6. ASSUME NEW pc, NEW at, NEW answer \in {"none", "unavailable"},
               AuthorizeGoto(a, pc, at, answer), TablesUnchanged
        PROVE  TransactionsRemain /\ CodesRemain
    <2> DEFINE new == [q EXCEPT !.pc = pc, !.at = at, !.answer = answer]
    <2>1. new.answer = answer
      BY <1>1 DEF AuthorizationState
    <2>2. authorizations' = [authorizations EXCEPT ![a] = new]
      BY <1>6 DEF AuthorizeGoto
    <2> HIDE DEF new
    <2>3. QED
      BY <1>4, <1>6, <2>1, <2>2
  <1>7. CASE BeginUpstream(a)
    BY <1>6, <1>7 DEF BeginUpstream
  <1>8. CASE CreateTransaction(a)
    <2>1. CASE TablesUnchanged /\ AuthorizeGoto(a, "done", 0, "unavailable")
      BY <1>6, <2>1
    <2>2. CASE ~ (TablesUnchanged /\ AuthorizeGoto(a, "done", 0, "unavailable"))
      <3> DEFINE row == [client |-> q.client, deployment |-> deployment,
                         expiresAt |-> q.at + TransactionTtl, completed |-> FALSE]
      <3>1. /\ transactions' = [LiveTransactions(q.at) EXCEPT ![a] = row]
            /\ codes' = LiveCodes(q.at)
            /\ AuthorizeGoto(a, "done", q.at, "redirect") /\ q.pc = "create"
        BY <1>8, <2>2 DEF CreateTransaction
      <3>2. row \in TransactionRow
        <4>1. q.client \in Clients /\ q.at \in Nat
          BY <1>1, <3>1 DEF BindingOK, FlowOK, CoroutinesOK, AuthorizationOK, AuthorizationState
        <4>2. QED
          BY <4>1, ServerAssumption DEF BindingOK, FlowOK, TypeOK, TransactionRow
      <3>3. row # None /\ ~ row.completed
        BY <3>2, RowsAssumption
      <3> HIDE DEF row
      <3>4. /\ transactions'[a] = row
            /\ \A b \in Authorizations \ {a} :
                  /\ authorizations'[b] = authorizations[b]
                  /\ transactions'[b] = LiveTransactions(q.at)[b]
        BY <3>1, LiveTables DEF AuthorizeGoto, BindingOK, FlowOK, CoroutinesOK
      <3>5. q.at \in Nat
        BY <1>1 DEF AuthorizationState
      <3>6. \A b \in Authorizations \ {a} :
               \/ transactions'[b] = transactions[b]
               \/ transactions[b] # None /\ transactions[b].completed
               \/ transactions[b] # None /\ transactions[b].expiresAt <= q.at
        BY <3>4 DEF LiveTransactions
      <3>7. \A b \in Authorizations : transactions[b] # None => transactions[b].expiresAt \in Nat
        BY DEF BindingOK, FlowOK, TablesOK, TransactionRow
      <3>8. clock \in Nat
        BY DEF BindingOK, FlowOK, TypeOK
      <3>9. TransactionsRemain
        BY <1>1, <3>3, <3>4, <3>5, <3>6, <3>7, <3>8 DEF TransactionsRemain
      <3>10. QED
        BY <1>1, <1>3, <3>1, <3>5, <3>9, ReclaimedRemain
    <2>3. QED
      BY <2>1, <2>2
  <1>9. QED
    BY <1>5, <1>7, <1>8 DEF AuthorizeStep

\* How a callback is answered, and what that leaves of the tables.
LEMMA CallbackStepRemains ==
    ASSUME BindingOK, NEW c \in Callbacks, CallbackStep(c)
    PROVE  /\ TransactionsRemain /\ CodesRemain
           /\ \A d \in Callbacks \ {c} : callbacks'[d] = callbacks[d]
           /\ callbacks'[c].answer = "invalid_request" => TransactionRefused(c)
  <1> DEFINE q == callbacks[c]
             Others == \A d \in Callbacks \ {c} : callbacks'[d] = callbacks[d]
             Refused == callbacks'[c].answer = "invalid_request" => TransactionRefused(c)
             Goal == TransactionsRemain /\ CodesRemain /\ Others /\ Refused
  <1>1. q \in CallbackState /\ (q.pc # "done" => q.answer = "none") /\ q.at <= clock
    BY CallbackFacts DEF BindingOK, FlowOK, CoroutinesOK, CallbackOK
  <1>2. NoNewRedirect
    BY CallbackStepCopies DEF NoNewRedirect
  <1>3. ASSUME NEW new, callbacks' = [callbacks EXCEPT ![c] = new]
        PROVE  Others /\ callbacks'[c] = new
    BY <1>3 DEF BindingOK, FlowOK, CoroutinesOK
  <1>4. ASSUME NEW new, callbacks' = [callbacks EXCEPT ![c] = new], new.answer # "code",
               new.answer = "invalid_request" => TransactionRefused(c), TablesUnchanged
        PROVE  Goal
    <2>1. Others /\ callbacks'[c] = new
      BY <1>3, <1>4
    <2>2. NoNewCode
      BY <1>4, <2>1 DEF NoNewCode
    <2>3. QED
      BY <1>2, <1>4, <2>1, <2>2, UntouchedRemain DEF TablesUnchanged, tables
  <1>5. ASSUME NEW answer \in CallbackAnswers, CallbackEnds(c, answer)
        PROVE  \E new : callbacks' = [callbacks EXCEPT ![c] = new] /\ new.answer = answer
    <2> DEFINE new == CallbackLeft(q, answer)
    <2>1. new.answer = answer
      BY <1>1, <1>5, CallbackLeftFacts
    <2>2. callbacks' = [callbacks EXCEPT ![c] = new]
      BY <1>5 DEF CallbackEnds
    <2> HIDE DEF new
    <2>3. QED
      BY <2>1, <2>2
  <1>6. ASSUME NEW answer \in {"server_error", "unavailable"}, CallbackEnds(c, answer),
               TablesUnchanged
        PROVE  Goal
    BY <1>4, <1>5, <1>6 DEF CallbackAnswers
  <1>7. ASSUME NEW a \in Authorizations, ReturnFromMicrosoft(c, a) PROVE Goal
    <2> DEFINE new == [q EXCEPT !.pc = "consume", !.at = clock, !.state = a]
    <2>1. new.answer = "none"
      BY <1>1, <1>7 DEF ReturnFromMicrosoft, CallbackState
    <2>2. callbacks' = [callbacks EXCEPT ![c] = new] /\ TablesUnchanged
      BY <1>7 DEF ReturnFromMicrosoft
    <2> HIDE DEF new
    <2>3. QED
      BY <1>4, <2>1, <2>2
  <1>8. CASE ConsumeTransaction(c)
    <2> DEFINE a == q.state
               row == transactions[a]
    <2>1. /\ q.pc = "consume" /\ row # None /\ UNCHANGED codes
          /\ transactions' = [transactions EXCEPT ![a] = [row EXCEPT !.completed = TRUE]]
      BY <1>8 DEF ConsumeTransaction, TransactionUsable
    <2>2. a \in Authorizations /\ row \in TransactionRow
      BY <2>1, CallbackFacts DEF BindingOK, FlowOK, TablesOK
    <2>3. /\ row.client # None
          /\ \A b \in Authorizations \ {a} : transactions'[b] = transactions[b]
      BY <2>1, <2>2, NamesAssumption DEF TransactionRow, BindingOK, FlowOK, TablesOK
    <2>4. ASSUME NEW new, callbacks' = [callbacks EXCEPT ![c] = new], ConsumedIn(new),
                 new.state = a, new.answer \in {"none", "access_denied"}
          PROVE  Goal
      <3> HIDE DEF a, row
      <3>1. Others /\ callbacks'[c] = new
        BY <1>3, <2>4
      <3>2. NoNewCode
        BY <2>4, <3>1 DEF NoNewCode
      <3>3. TransactionsRemain
        BY <1>2, <2>3, <2>4, <3>1 DEF TransactionsRemain, NoNewRedirect
      <3>4. QED
        BY <2>1, <2>4, <3>1, <3>2, <3>3, UntouchedRemain
    <2>5. CASE CallbackEnds(c, "access_denied")
      <3> DEFINE new == CallbackLeft(q, "access_denied")
      <3>1. new.answer = "access_denied" /\ new.state = a
        BY <1>1, CallbackLeftFacts DEF CallbackAnswers
      <3>2. callbacks' = [callbacks EXCEPT ![c] = new]
        BY <2>5 DEF CallbackEnds
      <3> HIDE DEF new
      <3>3. QED
        BY <2>4, <3>1, <3>2 DEF ConsumedIn
    <2>6. CASE callbacks' = [callbacks EXCEPT ![c] =
                 [@ EXCEPT !.pc = "entra", !.client = row.client, !.deployment = row.deployment]]
      <3> DEFINE new == [q EXCEPT !.pc = "entra", !.client = row.client,
                                  !.deployment = row.deployment]
      <3>1. new.answer = "none" /\ new.state = a /\ new.client = row.client
        BY <1>1, <2>1 DEF CallbackState
      <3>2. callbacks' = [callbacks EXCEPT ![c] = new]
        BY <2>6
      <3> HIDE DEF new
      <3>3. QED
        BY <2>3, <2>4, <3>1, <3>2 DEF ConsumedIn
    <2>7. QED
      BY <1>8, <2>5, <2>6 DEF ConsumeTransaction
  <1>9. CASE TransactionRefused(c)
    <2>1. PICK new : callbacks' = [callbacks EXCEPT ![c] = new] /\ new.answer = "invalid_request"
      BY <1>5, <1>9 DEF TransactionRefused, CallbackAnswers
    <2>2. TablesUnchanged
      BY <1>9 DEF TransactionRefused
    <2>3. QED
      BY <1>4, <1>9, <2>1, <2>2
  <1>10. CASE EntraComplete(c)
    <2>1. q.pc = "entra" /\ TablesUnchanged
      BY <1>10 DEF EntraComplete
    <2>2. ASSUME NEW user, NEW expires, callbacks' = [callbacks EXCEPT ![c] =
                 [@ EXCEPT !.pc = "validate", !.user = user, !.tokenExpiresAt = expires]]
          PROVE  Goal
      <3> DEFINE new == [q EXCEPT !.pc = "validate", !.user = user, !.tokenExpiresAt = expires]
      <3>1. new.answer = "none"
        BY <1>1, <2>1 DEF CallbackState
      <3>2. callbacks' = [callbacks EXCEPT ![c] = new]
        BY <2>2
      <3> HIDE DEF new
      <3>3. QED
        BY <1>4, <2>1, <3>1, <3>2
    <2>3. QED
      BY <1>6, <1>10, <2>1, <2>2 DEF EntraComplete
  <1>11. CASE ValidateTokenA(c)
    <2>1. q.pc = "validate" /\ TablesUnchanged
      BY <1>11 DEF ValidateTokenA
    <2>2. CASE callbacks' = [callbacks EXCEPT ![c] = [@ EXCEPT !.pc = "create", !.at = clock]]
      <3> DEFINE new == [q EXCEPT !.pc = "create", !.at = clock]
      <3>1. new.answer = "none"
        BY <1>1, <2>1 DEF CallbackState
      <3>2. callbacks' = [callbacks EXCEPT ![c] = new]
        BY <2>2
      <3> HIDE DEF new
      <3>3. QED
        BY <1>4, <2>1, <3>1, <3>2
    <2>3. QED
      BY <1>6, <1>11, <2>1, <2>2 DEF ValidateTokenA
  <1>12. CASE CreateCode(c)
    <2>1. /\ q.pc = "create" /\ transactions' = LiveTransactions(q.at)
          /\ codes' = [LiveCodes(q.at) EXCEPT ![c] = CodeOf(c)]
      BY <1>12 DEF CreateCode
    <2>2. PICK new : callbacks' = [callbacks EXCEPT ![c] = new] /\ new.answer = "code"
      <3>1. callbacks' = [callbacks EXCEPT ![c] = [q EXCEPT !.pc = "done", !.answer = "code"]]
        BY <1>12 DEF CreateCode
      <3>2. [q EXCEPT !.pc = "done", !.answer = "code"].answer = "code"
        BY <1>1 DEF CallbackState
      <3>3. QED
        BY <3>1, <3>2
    <2>3. Others /\ callbacks'[c] = new
      BY <1>3, <2>2
    <2>4. q.at \in Nat
      BY <1>1 DEF CallbackState
    <2>5. CodeOf(c) \in CodeRow
      <3>1. /\ q.client \in Clients /\ q.deployment \in Deployments /\ q.user \in Users
            /\ q.state \in Authorizations /\ q.tokenExpiresAt \in Nat
        BY <1>1, <2>1 DEF CallbackState, BindingOK, FlowOK, CoroutinesOK, CallbackOK
      <3>2. QED
        BY <2>4, <3>1, ServerAssumption DEF CodeOf, CodeRow
    <2>6. CodeOf(c) # None /\ ~ CodeOf(c).used
      BY <2>5, RowsAssumption DEF CodeOf
    <2>7. codes'[c] = CodeOf(c) /\ \A d \in Callbacks \ {c} : codes'[d] = LiveCodes(q.at)[d]
      BY <2>1, LiveTables DEF BindingOK, FlowOK
    <2>8. \A d \in Callbacks \ {c} :
             \/ codes'[d] = codes[d]
             \/ codes[d] # None /\ codes[d].used
             \/ codes[d] # None /\ codes[d].expiresAt <= q.at
      BY <2>7 DEF LiveCodes
    <2>9. clock \in Nat /\ \A d \in Callbacks : codes[d] # None => codes[d].expiresAt \in Nat
      BY DEF BindingOK, FlowOK, TypeOK, TablesOK, CodeRow
    <2>10. CodesRemain
      BY <1>1, <2>3, <2>4, <2>6, <2>7, <2>8, <2>9 DEF CodesRemain
    <2>11. QED
      BY <1>1, <1>2, <2>1, <2>2, <2>3, <2>4, <2>10, ReclaimedRemain
  <1>13. CASE CallbackStoreFails(c)
    BY <1>6, <1>13 DEF CallbackStoreFails
  <1>14. QED
    BY <1>7, <1>8, <1>9, <1>10, <1>11, <1>12, <1>13 DEF CallbackStep

\* How an exchange is answered, and what that leaves of the tables.
LEMMA ExchangeStepRemains ==
    ASSUME BindingOK, NEW e \in Exchanges, ExchangeStep(e)
    PROVE  /\ TransactionsRemain /\ CodesRemain
           /\ \A d \in Exchanges \ {e} : exchanges'[d] = exchanges[d]
           /\ exchanges'[e].answer = "invalid_grant" /\ exchanges[e].answer = "none" =>
                 \/ CodeRefused(e)
                 \/ Redeem(e) /\ ~ CodeBindingIsValid(codes[exchanges[e].code])
                 \/ CheckBundle(e) /\ exchanges[e].row.tokenExpiresAt <= exchanges[e].at
  <1> DEFINE q == exchanges[e]
             Others == \A d \in Exchanges \ {e} : exchanges'[d] = exchanges[d]
             Refused == \/ CodeRefused(e)
                        \/ Redeem(e) /\ ~ CodeBindingIsValid(codes[q.code])
                        \/ CheckBundle(e) /\ q.row.tokenExpiresAt <= q.at
             Caused == exchanges'[e].answer = "invalid_grant" /\ q.answer = "none" => Refused
             Goal == TransactionsRemain /\ CodesRemain /\ Others /\ Caused
  <1> SUFFICES Goal
    OBVIOUS
  <1>1. q \in ExchangeState /\ q.at <= clock /\ (q.pc # "unsent" => q.code \in Callbacks)
    BY DEF BindingOK, FlowOK, CoroutinesOK, ExchangeOK
  <1>2. NoNewRedirect /\ NoNewCode
    BY ExchangeStepCopies DEF NoNewRedirect, NoNewCode
  <1>3. ASSUME NEW new, exchanges' = [exchanges EXCEPT ![e] = new],
               new.answer = "invalid_grant" => q.answer # "none" \/ Refused
        PROVE  Others /\ Caused /\ exchanges'[e] = new
    BY <1>3 DEF BindingOK, FlowOK, CoroutinesOK
  <1>4. ASSUME TablesUnchanged PROVE TransactionsRemain /\ CodesRemain
    BY <1>2, <1>4, UntouchedRemain DEF TablesUnchanged, tables
  <1>5. ASSUME NEW answer \in {"token", "invalid_grant", "unavailable"}, TablesUnchanged,
               ExchangeEnds(e, answer), answer = "invalid_grant" => Refused
        PROVE  Goal
    <2> DEFINE new == ExchangeLeft(q, answer)
    <2>1. new.answer = answer
      BY <1>1, ExchangeLeftFacts DEF ExchangeAnswers
    <2>2. exchanges' = [exchanges EXCEPT ![e] = new]
      BY <1>5 DEF ExchangeEnds
    <2> HIDE DEF new, Refused
    <2>3. QED
      BY <1>3, <1>4, <1>5, <2>1, <2>2
  <1>6. ASSUME NEW c \in Callbacks, NEW client \in Clients, NEW a \in Authorizations,
               PresentCode(e, c, client, a)
        PROVE  Goal
    <2> DEFINE new == [q EXCEPT !.pc = "redeem", !.at = clock, !.code = c, !.client = client,
                                !.verifier = a]
    <2>1. new.answer = q.answer
      BY <1>1 DEF ExchangeState
    <2>2. exchanges' = [exchanges EXCEPT ![e] = new] /\ TablesUnchanged
      BY <1>6 DEF PresentCode
    <2> HIDE DEF new, Refused
    <2>3. QED
      BY <1>3, <1>4, <2>1, <2>2
  <1>7. CASE Redeem(e)
    <2> DEFINE row == codes[q.code]
    <2>1. /\ q.pc = "redeem" /\ UNCHANGED transactions /\ row # None
          /\ codes' = [codes EXCEPT ![q.code] = [row EXCEPT !.used = TRUE]]
      BY <1>7 DEF Redeem, CodeUsable
    <2>2. q.code \in Callbacks
      BY <1>1, <2>1
    <2>3. \A c \in Callbacks \ {q.code} : codes'[c] = codes[c]
      BY <2>1, <2>2 DEF BindingOK, FlowOK, TablesOK
    <2>4. ASSUME NEW new, exchanges' = [exchanges EXCEPT ![e] = new], new.row = row,
                 new.code = q.code,
                 new.answer = "invalid_grant" => q.answer # "none" \/ Refused
          PROVE  Goal
      <3> HIDE DEF row, Refused
      <3>1. Others /\ Caused /\ exchanges'[e] = new
        BY <1>3, <2>4
      <3>2. exchanges'[e].row # None /\ exchanges'[e].code = q.code
        BY <2>1, <2>4, <3>1
      <3>3. CodesRemain
        BY <1>2, <2>3, <3>2 DEF CodesRemain, NoNewCode
      <3>4. QED
        BY <1>2, <2>1, <3>1, <3>3, UntouchedRemain
    <2>5. CASE CodeBindingIsValid(row)
      <3> DEFINE new == [q EXCEPT !.pc = "registry", !.row = row]
      <3>1. new.row = row /\ new.code = q.code /\ new.answer = q.answer
        BY <1>1 DEF ExchangeState
      <3>2. exchanges' = [exchanges EXCEPT ![e] = new]
        BY <1>7, <2>5 DEF Redeem
      <3>3. q.answer # "invalid_grant" \/ q.answer # "none"
        OBVIOUS
      <3> HIDE DEF new, row, Refused
      <3>4. QED
        BY <2>4, <3>1, <3>2, <3>3
    <2>6. CASE ~ CodeBindingIsValid(row)
      <3> DEFINE new == [q EXCEPT !.pc = "done", !.row = row, !.answer = "invalid_grant"]
      <3>1. new.row = row /\ new.code = q.code
        BY <1>1 DEF ExchangeState
      <3>2. exchanges' = [exchanges EXCEPT ![e] = new]
        BY <1>7, <2>6 DEF Redeem
      <3>3. Refused
        BY <1>7, <2>6
      <3> HIDE DEF new, row, Refused
      <3>4. QED
        BY <2>4, <3>1, <3>2, <3>3
    <2>7. QED
      BY <2>5, <2>6
  <1>8. CASE CodeRefused(e)
    <2>1. Refused /\ TablesUnchanged
      BY <1>8 DEF CodeRefused
    <2>2. ExchangeEnds(e, "invalid_grant")
      BY <1>8 DEF CodeRefused
    <2> HIDE DEF Refused
    <2>3. QED
      BY <1>5, <2>1, <2>2
  <1>9. CASE CheckBundle(e)
    <2>1. TablesUnchanged
      BY <1>9 DEF CheckBundle
    <2>2. \/ q.row.tokenExpiresAt <= q.at /\ ExchangeEnds(e, "invalid_grant")
          \/ ExchangeEnds(e, "token")
          \/ exchanges' = [exchanges EXCEPT ![e] = [@ EXCEPT !.pc = "issue"]]
      <3>1. q.pc = "registry"
        BY <1>9 DEF CheckBundle
      <3>2. q.row # None
        BY <3>1, BundleRow DEF BindingOK
      <3>3. QED
        BY <1>9, <3>2, CheckBundleEnds
    <2>3. CASE q.row.tokenExpiresAt <= q.at /\ ExchangeEnds(e, "invalid_grant")
      <3>1. Refused
        BY <1>9, <2>3
      <3> HIDE DEF Refused
      <3>2. QED
        BY <1>5, <2>1, <2>3, <3>1
    <2>4. CASE ExchangeEnds(e, "token")
      <3> HIDE DEF Refused
      <3>1. QED
        BY <1>5, <2>1, <2>4
    <2>5. CASE exchanges' = [exchanges EXCEPT ![e] = [@ EXCEPT !.pc = "issue"]]
      <3> DEFINE new == [q EXCEPT !.pc = "issue"]
      <3>1. new.answer = q.answer
        BY <1>1 DEF ExchangeState
      <3>2. exchanges' = [exchanges EXCEPT ![e] = new]
        BY <2>5
      <3> HIDE DEF new, Refused
      <3>3. QED
        BY <1>3, <1>4, <2>1, <3>1, <3>2
    <2>6. QED
      BY <2>2, <2>3, <2>4, <2>5
  <1>10. ASSUME NEW s \in Sessions, Issue(e, s) PROVE Goal
    <2> DEFINE new == [q EXCEPT !.pc = "done", !.session = s, !.answer = "token"]
    <2>1. transactions' = LiveTransactions(q.at) /\ codes' = LiveCodes(q.at)
      BY <1>10 DEF Issue
    <2>2. new.answer = "token" /\ q.at \in Nat
      BY <1>1 DEF ExchangeState
    <2>3. exchanges' = [exchanges EXCEPT ![e] = new]
      BY <1>10 DEF Issue
    <2> HIDE DEF new, Refused
    <2>4. QED
      BY <1>1, <1>2, <1>3, <2>1, <2>2, <2>3, ReclaimedRemain
  <1>11. CASE ExchangeStoreFails(e)
    <2>1. TablesUnchanged
      BY <1>11 DEF ExchangeStoreFails
    <2>2. ExchangeEnds(e, "unavailable")
      BY <1>11 DEF ExchangeStoreFails
    <2> HIDE DEF Refused
    <2>3. QED
      BY <1>5, <2>1, <2>2
  <1>12. QED
    BY <1>6, <1>7, <1>8, <1>9, <1>10, <1>11 DEF ExchangeStep

\* A restart tells nobody that a transaction or a code is invalid.
LEMMA RestartRemains ==
    ASSUME BindingOK, ServerRestart
    PROVE  /\ TransactionsRemain /\ CodesRemain
           /\ \A c \in Callbacks :
                 callbacks'[c].answer = "invalid_request" => callbacks[c].answer # "none"
           /\ \A e \in Exchanges :
                 exchanges'[e].answer = "invalid_grant" => exchanges[e].answer # "none"
  <1>1. ASSUME NEW a \in Authorizations
        PROVE  authorizations'[a].answer \in {"lost", authorizations[a].answer}
    <2>1. authorizations[a] \in AuthorizationState
      BY DEF BindingOK, FlowOK, CoroutinesOK, AuthorizationOK
    <2>2. QED
      BY <2>1 DEF ServerRestart, AuthorizationState
  <1>2. ASSUME NEW c \in Callbacks PROVE callbacks'[c].answer \in {"lost", callbacks[c].answer}
    <2>1. callbacks[c] \in CallbackState
      BY CallbackFacts DEF BindingOK
    <2>2. callbacks'[c] \in {CallbackLeft(callbacks[c], "lost"), callbacks[c]}
      BY DEF ServerRestart
    <2>3. QED
      BY <2>1, <2>2, CallbackLeftFacts DEF CallbackAnswers
  <1>3. ASSUME NEW e \in Exchanges PROVE exchanges'[e].answer \in {"lost", exchanges[e].answer}
    <2>1. exchanges[e] \in ExchangeState
      BY ExchangeFacts DEF BindingOK
    <2>2. exchanges'[e] \in {ExchangeLeft(exchanges[e], "lost"), exchanges[e]}
      BY DEF ServerRestart
    <2>3. QED
      BY <2>1, <2>2, ExchangeLeftFacts DEF ExchangeAnswers
  <1>4. NoNewRedirect /\ NoNewCode
    BY <1>1, <1>2 DEF NoNewRedirect, NoNewCode
  <1>5. transactions' = LiveTransactions(clock) /\ codes' = LiveCodes(clock)
    BY DEF ServerRestart
  <1>6. clock \in Nat /\ clock <= clock
    BY DEF BindingOK, FlowOK, TypeOK
  <1>7. QED
    BY <1>2, <1>3, <1>4, <1>5, <1>6, ReclaimedRemain

\* What every step may be told of the flow: its books, what it copies, and
\* what is still there.
LossInv == IInv /\ ServerTypeOK /\ FlowInv /\ BindingInv /\ ReadingsArePast /\ NothingIsLost

LEMMA LossFacts ==
    ASSUME LossInv, IInv', [ServerNext]_serverVars
    PROVE  /\ BindingOK /\ NothingIsLost
           /\ clock \in Nat /\ clock' \in Nat /\ clock <= clock'
           /\ \A r \in Requests : requests[r].at \in Nat /\ requests[r].at <= clock
  <1>1. TypeOK /\ TypeOK' /\ IInv /\ ServerTypeOK /\ FlowInv /\ BindingInv
    BY DEF LossInv, IInv
  <1>2. [Next]_vars
    BY <1>1, ServerStepImplements
  <1>3. clock \in Nat /\ clock' \in Nat /\ clock <= clock'
    BY <1>1, <1>2, ClockAdvances
  <1>4. \A r \in Requests : requests[r].at \in Nat
    BY <1>1, RequestFacts DEF TypeOK
  <1>5. BindingOK
    BY <1>1, ServerTypeParts DEF BindingOK, FlowOK
  <1>6. QED
    BY <1>3, <1>4, <1>5 DEF LossInv, ReadingsArePast

LEMMA NothingLostStep ==
    ASSUME LossInv, IInv', [ServerNext]_serverVars
    PROVE  NothingIsLost'
  <1>1. /\ BindingOK /\ NothingIsLost
        /\ clock \in Nat /\ clock' \in Nat /\ clock <= clock'
    BY LossFacts
  <1>2. ASSUME NEW a \in Authorizations, AuthorizeStep(a) PROVE NothingIsLost'
    BY <1>1, <1>2, AuthorizeStepCopies, UntouchedCopies, AuthorizeStepRemains, RemainingIsKept
  <1>3. ASSUME NEW c \in Callbacks, CallbackStep(c) PROVE NothingIsLost'
    BY <1>1, <1>3, CallbackStepCopies, UntouchedCopies, CallbackStepRemains, RemainingIsKept
  <1>4. ASSUME NEW e \in Exchanges, ExchangeStep(e) PROVE NothingIsLost'
    BY <1>1, <1>4, ExchangeStepCopies, UntouchedCopies, ExchangeStepRemains, RemainingIsKept
  <1>5. CASE ServerRestart
    BY <1>1, <1>5, RestartCopies, RestartRemains, RemainingIsKept
  <1>6. ASSUME TransactionsRemain, CodesRemain, UNCHANGED coroutines PROVE NothingIsLost'
    BY <1>1, <1>6, UntouchedCopies, RemainingIsKept DEF coroutines
  <1>7. UNCHANGED coroutines => NoNewRedirect /\ NoNewCode
    BY DEF coroutines, NoNewRedirect, NoNewCode
  <1>8. ASSUME UNCHANGED tables, UNCHANGED coroutines PROVE NothingIsLost'
    BY <1>6, <1>7, <1>8, UntouchedRemain DEF tables
  <1>9. ASSUME NEW r \in Requests, RefreshStep(r) PROVE NothingIsLost'
    <2>1. UNCHANGED coroutines
      BY <1>9 DEF RefreshStep
    <2>2. \/ UNCHANGED tables
          \/ /\ transactions' = LiveTransactions(requests[r].at)
             /\ codes' = LiveCodes(requests[r].at)
      BY <1>9 DEF RefreshStep
    <2>3. requests[r].at \in Nat /\ requests[r].at <= clock
      BY LossFacts
    <2>4. QED
      BY <1>1, <1>6, <1>7, <1>8, <2>1, <2>2, <2>3, ReclaimedRemain
  <1>10. ASSUME NEW r \in Requests, NEW h, NEW client, Refresh(r, h, client)
         PROVE  NothingIsLost'
    BY <1>8, <1>10 DEF Refresh
  <1>11. CASE ServerTick \/ UNCHANGED serverVars
    BY <1>8, <1>11 DEF ServerTick, serverVars
  <1>12. QED
    BY <1>2, <1>3, <1>4, <1>5, <1>9, <1>10, <1>11 DEF ServerNext

LEMMA LossCorrect == ServerSpec => []LossInv
  <1>1. ServerInit => ReadingsArePast /\ NothingIsLost
    BY DEF ServerInit, Init, Unsent, ReadingsArePast, NothingIsLost
  <1>2. LossInv /\ IInv' /\ [ServerNext]_serverVars => ReadingsArePast'
    BY ReadingsStep, ServerStepImplements DEF LossInv, IInv
  <1>3. LossInv /\ IInv' /\ [ServerNext]_serverVars => NothingIsLost'
    BY NothingLostStep
  <1>4. LossInv <=> /\ IInv /\ ServerTypeOK /\ FlowInv /\ BindingInv
                    /\ ReadingsArePast /\ NothingIsLost
    BY DEF LossInv
  <1>5. QED
    BY <1>1, <1>2, <1>3, <1>4, BindingCorrect, PTL DEF ServerSpec

(* The flow keeps its books: rows, callbacks, exchanges and sessions agree on *)
(* what was consumed, on whose it is, and nothing is lost that nobody used.  *)
THEOREM LedgerCorrect == ServerSpec => []LedgerInv
  <1>1. LossInv => LedgerInv
    BY DEF LossInv, LedgerInv
  <1>2. QED
    BY <1>1, LossCorrect, PTL

LEMMA CallbackRefusal ==
    ASSUME BindingOK, NothingIsLost, NEW c \in Callbacks, TransactionRefused(c)
    PROVE  RefusalOfCallback(c)
  <1> DEFINE a == callbacks[c].state
  <1>1. callbacks[c].pc = "consume" /\ ~ TransactionUsable(a, callbacks[c].at)
    BY DEF TransactionRefused
  <1>2. a \in Authorizations /\ authorizations[a].answer = "redirect"
    BY <1>1, CallbackFacts DEF BindingOK
  <1>3. callbacks[c].at \in Nat /\ callbacks[c].at <= clock /\ clock \in Nat
    BY DEF BindingOK, FlowOK, TypeOK, CoroutinesOK, CallbackOK, CallbackState
  <1>4. authorizations[a].at \in Nat /\ TransactionTtl \in Nat
    BY <1>2, ServerAssumption
       DEF BindingOK, FlowOK, CoroutinesOK, AuthorizationOK, AuthorizationState
  <1>5. CASE transactions[a] # None /\ ~ transactions[a].completed
    <2>1. transactions[a].expiresAt = authorizations[a].at + TransactionTtl
      BY <1>2, <1>5 DEF BindingOK, BindingInv, RequestsAreBound
    <2>2. ~ (transactions[a].expiresAt > callbacks[c].at)
      BY <1>1, <1>5 DEF TransactionUsable
    <2>3. authorizations[a].at + TransactionTtl <= clock
      BY <1>3, <1>4, <2>1, <2>2
    <2>4. QED
      BY <2>3 DEF RefusalOfCallback
  <1>6. CASE ~ (transactions[a] # None /\ ~ transactions[a].completed)
    BY <1>2, <1>6 DEF NothingIsLost, RefusalOfCallback
  <1>7. QED
    BY <1>5, <1>6

LEMMA ExchangeRefusal ==
    ASSUME BindingOK, NothingIsLost, NEW e \in Exchanges,
           \/ CodeRefused(e)
           \/ Redeem(e) /\ ~ CodeBindingIsValid(codes[exchanges[e].code])
           \/ CheckBundle(e) /\ exchanges[e].row.tokenExpiresAt <= exchanges[e].at
    PROVE  RefusalOfExchange(e)
  <1> DEFINE x == exchanges[e]
             c == x.code
  <1>1. x.pc \in {"redeem", "registry"}
    BY DEF CodeRefused, Redeem, CheckBundle
  <1>2. c \in Callbacks /\ callbacks[c].answer = "code"
    BY <1>1, ExchangeFacts DEF BindingOK
  <1>3. codes[c] # None => CodeBound(codes[c], callbacks[c])
    BY <1>2 DEF BindingOK, BindingInv, RequestsAreBound
  <1>4. CASE CodeRefused(e)
    <2>1. x.pc = "redeem" /\ ~ CodeUsable(c, x.client, x.verifier, x.at)
      BY <1>4 DEF CodeRefused
    <2>2. ~ Redeemed(e)
      BY <2>1, ExchangeFacts DEF BindingOK
    <2>3. CASE codes[c] # None /\ ~ codes[c].used
      <3>1. x.at \in Nat /\ x.at <= clock /\ clock \in Nat
        BY DEF BindingOK, FlowOK, TypeOK, CoroutinesOK, ExchangeOK, ExchangeState
      <3>2. callbacks[c].at \in Nat /\ CodeTtl \in Nat
        BY <1>2, CallbackFacts, ServerAssumption DEF BindingOK, CallbackState
      <3>3. codes[c].expiresAt = callbacks[c].at + CodeTtl
        BY <1>3, <2>3 DEF CodeBound
      <3>4. CASE ~ (codes[c].expiresAt > x.at)
        <4>1. callbacks[c].at + CodeTtl <= clock
          BY <3>1, <3>2, <3>3, <3>4
        <4>2. QED
          BY <4>1 DEF RefusalOfExchange
      <3>5. CASE codes[c].client # x.client \/ codes[c].challenge # x.verifier
        BY <1>3, <2>3, <3>5 DEF CodeBound, RefusalOfExchange
      <3>6. QED
        BY <2>1, <2>3, <3>4, <3>5 DEF CodeUsable
    <2>4. CASE ~ (codes[c] # None /\ ~ codes[c].used)
      <3>1. \/ callbacks[c].at + CodeTtl <= clock
            \/ \E other \in Exchanges : Redeemed(other) /\ exchanges[other].code = c
        BY <1>2, <2>4 DEF NothingIsLost
      <3>2. QED
        BY <2>2, <3>1 DEF RefusalOfExchange
    <2>5. QED
      BY <2>3, <2>4
  <1>5. CASE Redeem(e) /\ ~ CodeBindingIsValid(codes[c])
    <2>1. codes[c] # None
      BY <1>5 DEF Redeem, CodeUsable
    <2>2. callbacks[c].deployment # deployment
      BY <1>3, <1>5, <2>1 DEF CodeBound, CodeBindingIsValid
    <2>3. QED
      BY <2>2 DEF RefusalOfExchange
  <1>6. CASE CheckBundle(e) /\ x.row.tokenExpiresAt <= x.at
    <2>1. Redeemed(e)
      BY <1>6 DEF CheckBundle, BindingOK, BindingInv, ExchangesAreBound
    <2>2. x.row.tokenExpiresAt = callbacks[c].tokenExpiresAt
      BY <2>1 DEF BindingOK, BindingInv, ExchangesAreBound, CodeBound
    <2>3. QED
      BY <1>6, <2>2 DEF RefusalOfExchange
  <1>7. QED
    BY <1>4, <1>5, <1>6

(* Nobody is refused without a reason: a callback is told invalid_request,   *)
(* or an exchange invalid_grant, only for an expired, foreign, consumed or   *)
(* outdated transaction or code; the reclaiming that every writer of the     *)
(* store does, with a clock reading of its own, never takes a row that still *)
(* counts.                                                                   *)
THEOREM RefusalsHaveCause == ServerSpec => RefusedForCause
  <1> DEFINE Refuses ==
        /\ \A c \in Callbacks :
             callbacks'[c].answer = "invalid_request" /\ callbacks[c].answer = "none"
                => RefusalOfCallback(c)
        /\ \A e \in Exchanges :
             exchanges'[e].answer = "invalid_grant" /\ exchanges[e].answer = "none"
                => RefusalOfExchange(e)
  <1>1. ASSUME LossInv, IInv', [ServerNext]_serverVars PROVE Refuses
    <2>1. BindingOK /\ NothingIsLost
      BY <1>1, LossFacts
    <2>2. UNCHANGED <<callbacks, exchanges>> => Refuses
      OBVIOUS
    <2>3. ASSUME NEW a \in Authorizations, AuthorizeStep(a) PROVE Refuses
      BY <2>1, <2>2, <2>3, AuthorizeStepCopies
    <2>4. ASSUME NEW c \in Callbacks, CallbackStep(c) PROVE Refuses
      <3>1. UNCHANGED exchanges
        BY <2>1, <2>4, CallbackStepCopies
      <3>2. /\ \A d \in Callbacks \ {c} : callbacks'[d] = callbacks[d]
            /\ callbacks'[c].answer = "invalid_request" => TransactionRefused(c)
        BY <2>1, <2>4, CallbackStepRemains
      <3>3. TransactionRefused(c) => RefusalOfCallback(c)
        BY <2>1, CallbackRefusal
      <3>4. QED
        BY <3>1, <3>2, <3>3
    <2>5. ASSUME NEW e \in Exchanges, ExchangeStep(e) PROVE Refuses
      <3>1. UNCHANGED callbacks
        BY <2>1, <2>5, ExchangeStepCopies
      <3>2. \A d \in Exchanges \ {e} : exchanges'[d] = exchanges[d]
        BY <2>1, <2>5, ExchangeStepRemains
      <3>3. exchanges'[e].answer = "invalid_grant" /\ exchanges[e].answer = "none"
               => RefusalOfExchange(e)
        BY <2>1, <2>5, ExchangeStepRemains, ExchangeRefusal
      <3>4. QED
        BY <3>1, <3>2, <3>3
    <2>6. CASE ServerRestart
      BY <2>1, <2>6, RestartRemains
    <2>7. UNCHANGED coroutines => Refuses
      BY <2>2 DEF coroutines
    <2>8. QED
      BY <1>1, <2>3, <2>4, <2>5, <2>6, <2>7
         DEF ServerNext, Refresh, RefreshStep, ServerTick, serverVars
  <1>2. LossInv /\ IInv' /\ [ServerNext]_serverVars => [Refuses]_serverVars
    BY <1>1
  <1>3. LossInv => IInv
    BY DEF LossInv
  <1>4. QED
    BY <1>2, <1>3, LossCorrect, PTL DEF ServerSpec, RefusedForCause

-----------------------------------------------------------------------------
(* The whole server as clients and users see it: ConsentedSessions.          *)

ConsentOK == IInv /\ BindingOK

\* One code for each request, one exchange that redeemed it, and the copies
\* of the flow make it the one of the client that asked.
LEMMA ConsentFacts ==
    ASSUME ConsentOK, NEW a \in Authorizations
    PROVE  /\ \A c, d \in CodesFor(a) : c = d
           /\ \A c \in Callbacks : callbacks[c].pc # "unsent" /\ callbacks[c].state = a =>
                 authorizations[a].pc # "unsent" /\ Asker[a] \in Clients /\ Asker[a] # None
           /\ \A c \in CodesFor(a) : callbacks[c].pc = "done"
           /\ \A e, f \in RedeemedFor(a) : e = f
           /\ \A e \in RedeemedFor(a) :
                 /\ exchanges[e].code \in CodesFor(a)
                 /\ exchanges[e].client = Asker[a]
                 /\ CodeBound(exchanges[e].row, callbacks[exchanges[e].code])
  <1>1. /\ FlowOK /\ FlowInv /\ BindingInv
        /\ None \notin Clients
    BY NamesAssumption DEF ConsentOK, BindingOK, FlowOK
  <1>2. \A c \in CodesFor(a) : c \in Callbacks /\ Consumed(c) /\ callbacks[c].pc = "done"
    BY <1>1, CallbackFacts DEF CodesFor
  <1>3. ASSUME NEW c \in Callbacks, callbacks[c].pc # "unsent", callbacks[c].state = a
        PROVE  authorizations[a].pc # "unsent" /\ Asker[a] \in Clients /\ Asker[a] # None
    <2>1. authorizations[a].answer = "redirect"
      BY <1>1, <1>3, CallbackFacts
    <2>2. authorizations[a].pc # "unsent"
      BY <1>1, <2>1 DEF FlowInv, TransactionsFollowRedirects
    <2>3. authorizations[a].client \in Clients
      BY <1>1, <2>2 DEF FlowOK, CoroutinesOK, AuthorizationOK
    <2>4. QED
      BY <1>1, <2>2, <2>3 DEF Asker
  <1>4. \A e \in RedeemedFor(a) : e \in Exchanges /\ Redeemed(e) /\ exchanges[e].code \in CodesFor(a)
    BY <1>1, ExchangeFacts DEF RedeemedFor, CodesFor
  <1>5. \A c, d \in CodesFor(a) : c = d
    BY <1>1, <1>2 DEF FlowInv, ConsumedAtMostOnce, CodesFor
  <1>6. ASSUME NEW e \in RedeemedFor(a)
        PROVE  /\ exchanges[e].client = Asker[a]
               /\ CodeBound(exchanges[e].row, callbacks[exchanges[e].code])
    <2> DEFINE c == exchanges[e].code
    <2>1. /\ CodeBound(exchanges[e].row, callbacks[c])
          /\ exchanges[e].client = exchanges[e].row.client
      BY <1>1, <1>4 DEF BindingInv, ExchangesAreBound
    <2>2. c \in Callbacks /\ callbacks[c].client # None /\ callbacks[c].state = a
      BY <1>1, <1>4 DEF CodesFor, FlowInv, CodesFollowCallbacks
    <2>3. callbacks[c].client = authorizations[a].client
      BY <1>1, <2>2 DEF BindingInv, RequestsAreBound
    <2>4. callbacks[c].pc # "unsent"
      BY <1>2, <1>4
    <2>5. Asker[a] = authorizations[a].client
      BY <1>3, <2>2, <2>4 DEF Asker
    <2>6. QED
      BY <2>1, <2>3, <2>5 DEF CodeBound
  <1>7. \A e, f \in RedeemedFor(a) : e = f
    BY <1>1, <1>4, <1>5 DEF FlowInv, RedeemedAtMostOnce
  <1>8. QED
    BY <1>2, <1>3, <1>4, <1>5, <1>6, <1>7

\* What a step leaves of the mapping: the codes ...
LEMMA SameConsents ==
    ASSUME \A c \in Callbacks :
              /\ callbacks[c].answer = "code" => callbacks'[c] = callbacks[c]
              /\ callbacks'[c].answer = "code" => callbacks[c].answer = "code"
    PROVE  Consents' = Consents
  <1>1. ASSUME NEW a \in Authorizations PROVE CodesFor(a)' = CodesFor(a)
    BY DEF CodesFor
  <1>2. ASSUME NEW a \in Authorizations PROVE Consents'[a] = Consents[a]
    <2>1. \A c \in CodesFor(a) : callbacks'[c] = callbacks[c]
      BY DEF CodesFor
    <2>2. QED
      BY <1>1, <2>1 DEF Consents
  <1>3. QED
    BY <1>2 DEF Consents

\* ... who redeemed them ...
RedeemsNothing ==
    \A e \in Exchanges :
        /\ exchanges'[e].row # None <=> Redeemed(e)
        /\ Redeemed(e) => /\ exchanges'[e].code = exchanges[e].code
                          /\ exchanges'[e].client = exchanges[e].client

LEMMA SameRedemptions ==
    ASSUME ConsentOK, CallbacksCopy, RedeemsNothing
    PROVE  /\ Redemptions' = Redemptions
           /\ \A a \in Authorizations : RedeemedFor(a)' = RedeemedFor(a)
  <1>1. ASSUME NEW e \in Exchanges, Redeemed(e)
        PROVE  callbacks'[exchanges[e].code] = callbacks[exchanges[e].code]
    BY <1>1, ExchangeFacts DEF ConsentOK, BindingOK, CallbacksCopy
  <1>2. ASSUME NEW a \in Authorizations PROVE RedeemedFor(a)' = RedeemedFor(a)
    BY <1>1 DEF RedeemsNothing, RedeemedFor, Redeemed
  <1>3. ASSUME NEW a \in Authorizations PROVE Redemptions'[a] = Redemptions[a]
    <2>1. \A e \in RedeemedFor(a) : exchanges'[e].client = exchanges[e].client
      BY DEF RedeemsNothing, RedeemedFor
    <2>2. QED
      BY <1>2, <2>1 DEF Redemptions
  <1>4. QED
    BY <1>2, <1>3 DEF Redemptions

\* ... and which sessions were opened.
LEMMA SameOpened ==
    ASSUME ConsentOK, CallbacksCopy, RedeemsNothing,
           \A e \in Exchanges : Redeemed(e) => exchanges'[e].session = exchanges[e].session
    PROVE  Opened' = Opened
  <1>1. ASSUME NEW a \in Authorizations PROVE Opened'[a] = Opened[a]
    <2>1. RedeemedFor(a)' = RedeemedFor(a)
      BY SameRedemptions
    <2>2. \A e \in RedeemedFor(a) : exchanges'[e].session = exchanges[e].session
      BY DEF RedeemedFor
    <2>3. QED
      BY <2>1, <2>2 DEF Opened
  <1>2. QED
    BY <1>1 DEF Opened

\* No step but an issue leaves a session with another owner than it had.
LEMMA OwnersFade ==
    ASSUME ConsentOK, [Next]_vars, NEW born \in SUBSET Sessions,
           \A s \in Sessions \ born : ~ Present(s) => sessions'[s] = None
    PROVE  \E gone \in SUBSET Sessions :
              \A s \in Sessions \ born : Owner'[s] = Consented!Without(gone)[s]
  <1> DEFINE gone == {s \in Sessions : sessions'[s] = None}
  <1>1. SessionsKeepOwners
    BY OwnersKept DEF ConsentOK
  <1>2. ASSUME NEW s \in Sessions \ born, s \notin gone
        PROVE  Owner'[s] = Owner[s]
    <2>1. Present(s)
      BY <1>2
    <2>2. s \in minted
      BY <2>1 DEF ConsentOK, IInv, RowsHoldMinted
    <2>3. QED
      BY <1>1, <1>2, <2>1, <2>2 DEF SessionsKeepOwners, Owner, Present
  <1>3. ASSUME NEW s \in Sessions, s \in gone PROVE Owner'[s] = None
    BY <1>3 DEF Owner, Present
  <1> HIDE DEF gone
  <1>4. \A s \in Sessions \ born : Owner'[s] = Consented!Without(gone)[s]
    BY <1>2, <1>3 DEF Consented!Without
  <1>5. gone \in SUBSET Sessions
    BY DEF gone
  <1>6. QED
    BY <1>4, <1>5

LEMMA SomeOwnersEnd ==
    ASSUME ConsentOK, [Next]_vars, \A s \in Sessions : ~ Present(s) => sessions'[s] = None
    PROVE  Consented!SomeEnd
  <1>0. {} \in SUBSET Sessions /\ Sessions \ {} = Sessions
    OBVIOUS
  <1>1. PICK gone \in SUBSET Sessions : \A s \in Sessions : Owner'[s] = Consented!Without(gone)[s]
    BY <1>0, OwnersFade
  <1>2. Owner' = Consented!Without(gone)
    BY <1>1 DEF Owner, Consented!Without
  <1>3. QED
    BY <1>2 DEF Consented!SomeEnd

LEMMA NoBirth ==
    ASSUME IInv, IInv', [Next]_vars, minted' \cap Sessions \subseteq minted
    PROVE  \A s \in Sessions : ~ Present(s) => sessions'[s] = None
  <1>1. ASSUME NEW s \in Sessions, ~ Present(s), sessions'[s] # None PROVE FALSE
    <2>1. s \in minted
      BY <1>1 DEF IInv, RowsHoldMinted, Present
    <2>2. QED
      BY <1>1, <2>1, OwnersKept DEF SessionsKeepOwners, Present
  <1>2. QED
    BY <1>1

\* Every step that neither asks nor consents, redeems or opens.
LEMMA StepLapses ==
    ASSUME ConsentOK, IInv', [Next]_vars, minted' \cap Sessions \subseteq minted,
           UNCHANGED <<Asker, Consents, Redemptions, Opened>>
    PROVE  Consented!Next
  <1>1. deployment' \in Deployments
    BY DEF IInv, TypeOK
  <1>2. Consented!SomeEnd
    BY NoBirth, SomeOwnersEnd DEF ConsentOK
  <1>3. Consented!Lapse
    BY <1>1, <1>2 DEF Consented!Lapse
  <1>4. QED
    BY <1>3 DEF Consented!Next

LEMMA AskerStays ==
    ASSUME \A a \in Authorizations :
              /\ authorizations'[a].pc = "unsent" <=> authorizations[a].pc = "unsent"
              /\ authorizations[a].pc # "unsent" =>
                    authorizations'[a].client = authorizations[a].client
    PROVE  Asker' = Asker
  <1>1. \A a \in Authorizations : Asker'[a] = Asker[a]
    BY DEF Asker
  <1>2. QED
    BY <1>1 DEF Asker

\* What is not touched maps to what it was.
LEMMA UntouchedMaps ==
    ASSUME ConsentOK
    PROVE  /\ UNCHANGED authorizations => Asker' = Asker
           /\ UNCHANGED callbacks => Consents' = Consents
           /\ UNCHANGED exchanges /\ CallbacksCopy =>
                 Redemptions' = Redemptions /\ Opened' = Opened
           /\ UNCHANGED callbacks => CallbacksCopy
           /\ UNCHANGED sessions => Owner' = Owner
  <1>1. UNCHANGED callbacks => CallbacksCopy
    BY UntouchedCopies DEF ConsentOK
  <1>2. UNCHANGED exchanges => RedeemsNothing
    BY DEF RedeemsNothing, Redeemed
  <1>3. UNCHANGED exchanges /\ CallbacksCopy => Redemptions' = Redemptions /\ Opened' = Opened
    BY <1>2, SameRedemptions, SameOpened
  <1>4. QED
    BY <1>1, <1>3 DEF Asker, Consents, CodesFor, Owner, Present

LEMMA AuthorizeStepConsents ==
    ASSUME ConsentOK, IInv', [Next]_vars, NEW a \in Authorizations, AuthorizeStep(a)
    PROVE  Consented!Next
  <1>1. UNCHANGED <<callbacks, exchanges, deployment, minted>>
    BY AuthorizeMints DEF AuthorizeStep, Authorize, BeginUpstream, CreateTransaction
  <1>2. Consents' = Consents /\ Redemptions' = Redemptions /\ Opened' = Opened
    BY <1>1, UntouchedMaps
  <1>3. /\ authorizations = [b \in Authorizations |-> authorizations[b]]
        /\ \A b \in Authorizations : authorizations[b] \in AuthorizationState
    BY DEF ConsentOK, BindingOK, FlowOK, CoroutinesOK, AuthorizationOK
  <1>4. ASSUME NEW client \in Clients, Authorize(a, client) PROVE Consented!Next
    <2> DEFINE new == [authorizations[a] EXCEPT !.pc = "begin", !.client = client]
    <2>1. /\ authorizations[a].pc = "unsent"
          /\ authorizations' = [authorizations EXCEPT ![a] = new]
          /\ UNCHANGED sessions
      BY <1>4 DEF Authorize, TablesUnchanged, StoreUnchanged
    <2>2. new.pc = "begin" /\ new.client = client
      BY <1>3 DEF AuthorizationState
    <2> HIDE DEF new
    <2>3. authorizations'[a] = new /\ \A b \in Authorizations \ {a} : authorizations'[b] = authorizations[b]
      BY <1>3, <2>1
    <2>4. Asker[a] = None
      BY <2>1 DEF Asker
    <2>5. Asker'[a] = client /\ \A b \in Authorizations \ {a} : Asker'[b] = Asker[b]
      BY <2>2, <2>3 DEF Asker
    <2>6. Asker' = [Asker EXCEPT ![a] = client]
      BY <2>5 DEF Asker
    <2>7. Owner' = Owner
      BY <2>1, UntouchedMaps
    <2>8. Consented!Ask(a, client)
      BY <1>1, <1>2, <2>4, <2>6, <2>7 DEF Consented!Ask
    <2>9. QED
      BY <2>8 DEF Consented!Next
  <1>5. ASSUME NEW pc \in {"create", "done"}, NEW at, NEW answer, AuthorizeGoto(a, pc, at, answer),
               authorizations[a].pc # "unsent"
        PROVE  Consented!Next
    <2> DEFINE new == [authorizations[a] EXCEPT !.pc = pc, !.at = at, !.answer = answer]
    <2>1. authorizations' = [authorizations EXCEPT ![a] = new]
      BY <1>5 DEF AuthorizeGoto
    <2>2. new.pc = pc /\ new.client = authorizations[a].client
      BY <1>3 DEF AuthorizationState
    <2> HIDE DEF new
    <2>3. authorizations'[a] = new /\ \A b \in Authorizations \ {a} : authorizations'[b] = authorizations[b]
      BY <1>3, <2>1
    <2>4. Asker' = Asker
      BY <1>5, <2>2, <2>3, AskerStays
    <2>5. QED
      BY <1>1, <1>2, <2>4, StepLapses
  <1>6. CASE BeginUpstream(a)
    BY <1>5, <1>6 DEF BeginUpstream
  <1>7. CASE CreateTransaction(a)
    BY <1>5, <1>7 DEF CreateTransaction
  <1>8. QED
    BY <1>4, <1>6, <1>7 DEF AuthorizeStep

LEMMA CreateCodeConsents ==
    ASSUME ConsentOK, IInv', [Next]_vars, NEW c \in Callbacks, CreateCode(c)
    PROVE  Consented!Next
  <1> DEFINE q == callbacks[c]
             a == q.state
             new == [q EXCEPT !.pc = "done", !.answer = "code"]
  <1>1. CallbackStep(c)
    BY DEF CallbackStep
  <1>2. UNCHANGED <<authorizations, exchanges, deployment, minted>>
    BY <1>1, CallbackMints DEF CreateCode
  <1>3. CallbacksCopy
    BY <1>1, CallbackStepCopies DEF ConsentOK
  <1>4. Asker' = Asker /\ Redemptions' = Redemptions /\ Opened' = Opened
    BY <1>2, <1>3, UntouchedMaps
  <1>5. Consented!SomeEnd
    BY <1>2, NoBirth, SomeOwnersEnd DEF ConsentOK
  <1>6. /\ q \in CallbackState /\ q.pc = "create" /\ q.answer = "none" /\ Consumed(c)
        /\ a \in Authorizations /\ q.user \in Users /\ q.deployment \in Deployments
        /\ callbacks = [d \in Callbacks |-> callbacks[d]]
    BY CallbackFacts DEF CreateCode, ConsentOK, BindingOK, FlowOK, CoroutinesOK, CallbackOK, Consumed
  <1>7. new.answer = "code" /\ new.state = a /\ new.user = q.user /\ new.deployment = q.deployment
    BY <1>6 DEF CallbackState
  <1>8. callbacks'[c] = new /\ \A d \in Callbacks \ {c} : callbacks'[d] = callbacks[d]
    BY <1>6 DEF CreateCode
  <1>9. Asker[a] # None
    BY <1>6, ConsentFacts
  <1>10. CodesFor(a) = {}
    <2>1. ASSUME NEW d \in CodesFor(a) PROVE FALSE
      <3>1. d \in Callbacks /\ Consumed(d) /\ callbacks[d].state = a /\ callbacks[d].answer = "code"
        BY <2>1, CallbackFacts DEF CodesFor, ConsentOK, BindingOK
      <3>2. d = c
        BY <1>6, <3>1 DEF ConsentOK, BindingOK, FlowOK, FlowInv, ConsumedAtMostOnce
      <3>3. QED
        BY <1>6, <3>1, <3>2
    <2>2. QED
      BY <2>1
  <1> HIDE DEF new
  <1>11. CodesFor(a)' = {c} /\ \A b \in Authorizations \ {a} : CodesFor(b)' = CodesFor(b)
    BY <1>6, <1>7, <1>8, <1>10 DEF CodesFor
  <1>12. /\ Consents[a] = {}
         /\ Consents'[a] = {[code |-> c, user |-> q.user, deployment |-> q.deployment]}
    BY <1>6, <1>7, <1>8, <1>10, <1>11 DEF Consents
  <1>13. ASSUME NEW b \in Authorizations \ {a} PROVE Consents'[b] = Consents[b]
    <2>1. \A d \in CodesFor(b) : callbacks'[d] = callbacks[d]
      BY <1>6, <1>8 DEF CodesFor
    <2>2. QED
      BY <1>11, <2>1 DEF Consents
  <1>14. Consents' = [Consents EXCEPT ![a] =
            {[code |-> c, user |-> q.user, deployment |-> q.deployment]}]
    BY <1>12, <1>13 DEF Consents
  <1>15. Consented!Consent(a, c, q.user, q.deployment)
    BY <1>2, <1>4, <1>5, <1>9, <1>12, <1>14 DEF Consented!Consent
  <1>16. QED
    BY <1>6, <1>15 DEF Consented!Next

LEMMA CallbackStepConsents ==
    ASSUME ConsentOK, IInv', [Next]_vars, NEW c \in Callbacks, CallbackStep(c)
    PROVE  Consented!Next
  <1>1. CASE CreateCode(c)
    BY <1>1, CreateCodeConsents
  <1>2. CASE ~ CreateCode(c)
    <2>1. UNCHANGED <<authorizations, exchanges, deployment, minted>> /\ CallbacksCopy
      BY CallbackMints, CallbackStepCopies DEF ConsentOK
    <2>2. /\ callbacks = [d \in Callbacks |-> callbacks[d]]
          /\ callbacks[c] \in CallbackState
          /\ callbacks[c].pc # "done" => callbacks[c].answer = "none"
      BY CallbackFacts DEF ConsentOK, BindingOK, FlowOK, CoroutinesOK
    <2>3. \E new : /\ callbacks' = [callbacks EXCEPT ![c] = new]
                   /\ new.answer # "code"
      <3>1. ASSUME NEW answer \in {"access_denied", "invalid_request", "server_error", "unavailable"},
                   CallbackEnds(c, answer)
            PROVE  \E new : callbacks' = [callbacks EXCEPT ![c] = new] /\ new.answer # "code"
        <4> DEFINE new == CallbackLeft(callbacks[c], answer)
        <4>1. callbacks' = [callbacks EXCEPT ![c] = new]
          BY <3>1 DEF CallbackEnds
        <4>2. new.answer # "code"
          BY <2>2, <3>1, CallbackLeftFacts DEF CallbackAnswers
        <4> HIDE DEF new
        <4>3. QED
          BY <4>1, <4>2
      <3>2. CASE \E a \in Authorizations : ReturnFromMicrosoft(c, a)
        <4>1. PICK a \in Authorizations : ReturnFromMicrosoft(c, a)
          BY <3>2
        <4> DEFINE new == [callbacks[c] EXCEPT !.pc = "consume", !.at = clock, !.state = a]
        <4>2. callbacks' = [callbacks EXCEPT ![c] = new]
          BY <4>1 DEF ReturnFromMicrosoft
        <4>3. new.answer # "code"
          BY <2>2, <4>1 DEF ReturnFromMicrosoft, CallbackState
        <4> HIDE DEF new
        <4>4. QED
          BY <4>2, <4>3
      <3>3. CASE ConsumeTransaction(c)
        <4> DEFINE row == transactions[callbacks[c].state]
                   new == [callbacks[c] EXCEPT !.pc = "entra", !.client = row.client,
                                               !.deployment = row.deployment]
        <4>1. callbacks' = [callbacks EXCEPT ![c] = new] \/ CallbackEnds(c, "access_denied")
          BY <3>3 DEF ConsumeTransaction
        <4>2. new.answer # "code"
          BY <2>2, <3>3 DEF ConsumeTransaction, CallbackState
        <4> HIDE DEF new
        <4>3. QED
          BY <3>1, <4>1, <4>2
      <3>4. CASE EntraComplete(c)
        <4>1. ASSUME NEW user, NEW until,
                     callbacks' = [callbacks EXCEPT ![c] = [callbacks[c] EXCEPT
                         !.pc = "validate", !.user = user, !.tokenExpiresAt = until]]
              PROVE  \E new : callbacks' = [callbacks EXCEPT ![c] = new] /\ new.answer # "code"
          <5> DEFINE new == [callbacks[c] EXCEPT !.pc = "validate", !.user = user,
                                                 !.tokenExpiresAt = until]
          <5>1. new.answer # "code"
            BY <2>2, <3>4 DEF EntraComplete, CallbackState
          <5>2. callbacks' = [callbacks EXCEPT ![c] = new]
            BY <4>1
          <5> HIDE DEF new
          <5>3. QED
            BY <5>1, <5>2
        <4>2. QED
          BY <3>1, <3>4, <4>1 DEF EntraComplete
      <3>5. CASE ValidateTokenA(c)
        <4> DEFINE new == [callbacks[c] EXCEPT !.pc = "create", !.at = clock]
        <4>1. new.answer # "code"
          BY <2>2, <3>5 DEF ValidateTokenA, CallbackState
        <4>2. callbacks' = [callbacks EXCEPT ![c] = new] \/ CallbackEnds(c, "server_error")
          BY <3>5 DEF ValidateTokenA
        <4> HIDE DEF new
        <4>3. QED
          BY <3>1, <4>1, <4>2
      <3>6. CASE TransactionRefused(c) \/ CallbackStoreFails(c)
        BY <3>1, <3>6 DEF TransactionRefused, CallbackStoreFails
      <3>7. QED
        BY <1>2, <3>2, <3>3, <3>4, <3>5, <3>6 DEF CallbackStep
    <2>4. \A d \in Callbacks : callbacks'[d].answer = "code" => callbacks[d].answer = "code"
      BY <2>2, <2>3
    <2>5. Consents' = Consents
      BY <2>1, <2>4, SameConsents DEF CallbacksCopy
    <2>6. Asker' = Asker /\ Redemptions' = Redemptions /\ Opened' = Opened
      BY <2>1, UntouchedMaps
    <2>7. QED
      BY <2>1, <2>5, <2>6, StepLapses
  <1>3. QED
    BY <1>1, <1>2

\* redeem: the first exchange past the codes of the request
LEMMA RedeemConsents ==
    ASSUME ConsentOK, NEW e \in Exchanges, Redeem(e)
    PROVE  Consented!Next
  <1> DEFINE x == exchanges[e]
             c == x.code
             row == codes[c]
  <1>1. UNCHANGED <<authorizations, callbacks, deployment, sessions>>
    BY DEF Redeem, StoreUnchanged
  <1>2. Asker' = Asker /\ Consents' = Consents /\ Owner' = Owner
    BY <1>1, UntouchedMaps
  <1>3. /\ x \in ExchangeState /\ x.pc = "redeem" /\ ~ Redeemed(e) /\ x.session = None
        /\ c \in Callbacks /\ callbacks[c].answer = "code"
        /\ exchanges = [f \in Exchanges |-> exchanges[f]]
    <2>1. x.pc = "redeem"
      BY DEF Redeem
    <2>2. QED
      BY <2>1, ExchangeFacts DEF ConsentOK, BindingOK, FlowOK, CoroutinesOK, BindingInv,
                                 ExchangesAreBound
  <1>4. PICK a \in Authorizations :
           a = callbacks[c].state /\ callbacks[c].pc # "unsent" /\ c \in CodesFor(a)
    BY <1>3, CallbackFacts DEF ConsentOK, BindingOK, CodesFor
  <1>5. CodeUsable(c, x.client, x.verifier, x.at)
    BY DEF Redeem
  <1>6. RedeemedFor(a) = {}
    <2>1. ASSUME NEW f \in RedeemedFor(a) PROVE FALSE
      <3>1. f \in Exchanges /\ Redeemed(f) /\ exchanges[f].code = c
        BY <1>4, ConsentFacts DEF RedeemedFor
      <3>2. QED
        BY <1>5, <3>1 DEF CodeUsable, ConsentOK, BindingOK, FlowOK, FlowInv, RedeemedAtMostOnce
    <2>2. QED
      BY <2>1
  <1>7. x.client = Asker[a]
    <2>1. row.client = x.client /\ CodeBound(row, callbacks[c])
      BY <1>3, <1>5 DEF CodeUsable, ConsentOK, BindingOK, BindingInv, RequestsAreBound
    <2>2. callbacks[c].client = authorizations[a].client
      BY <1>3, <1>4 DEF ConsentOK, BindingOK, BindingInv, RequestsAreBound, FlowOK, FlowInv,
                  CodesFollowCallbacks
    <2>3. authorizations[a].pc # "unsent"
      BY <1>3, <1>4, ConsentFacts
    <2>4. QED
      BY <1>4, <2>1, <2>2, <2>3 DEF CodeBound, Asker
  <1>8. PICK new : /\ exchanges' = [exchanges EXCEPT ![e] = new]
                   /\ new.row = row /\ new.code = c /\ new.client = x.client
                   /\ new.session = x.session
    <2> DEFINE valid == [x EXCEPT !.pc = "registry", !.row = row]
               outdated == [x EXCEPT !.pc = "done", !.row = row, !.answer = "invalid_grant"]
    <2>1. \/ exchanges' = [exchanges EXCEPT ![e] = valid]
          \/ exchanges' = [exchanges EXCEPT ![e] = outdated]
      BY DEF Redeem
    <2>2. \A new \in {valid, outdated} :
             /\ new.row = row /\ new.code = c /\ new.client = x.client
             /\ new.session = x.session
      BY <1>3 DEF ExchangeState
    <2> HIDE DEF valid, outdated
    <2>3. QED
      BY <2>1, <2>2
  <1>9. exchanges'[e] = new /\ \A f \in Exchanges \ {e} : exchanges'[f] = exchanges[f]
    BY <1>3, <1>8
  <1>10. row # None
    BY <1>5 DEF CodeUsable
  <1>11. RedeemedFor(a)' = {e} /\ \A b \in Authorizations \ {a} : RedeemedFor(b)' = RedeemedFor(b)
    BY <1>1, <1>3, <1>4, <1>6, <1>8, <1>9, <1>10 DEF RedeemedFor, Redeemed
  <1>12. ASSUME NEW b \in Authorizations \ {a}
         PROVE  Redemptions'[b] = Redemptions[b] /\ Opened'[b] = Opened[b]
    <2>1. \A f \in RedeemedFor(b) : exchanges'[f] = exchanges[f]
      BY <1>3, <1>4, <1>9 DEF RedeemedFor
    <2>2. QED
      BY <1>11, <2>1 DEF Redemptions, Opened
  <1>13. /\ Redemptions[a] = {} /\ Redemptions'[a] = {[by |-> e, client |-> Asker[a]]}
         /\ Opened[a] = {} /\ Opened'[a] = {}
    <2>1. exchanges'[e].session \notin Sessions
      BY <1>3, <1>8, <1>9, NamesAssumption
    <2>2. Opened[a] = {} /\ Opened'[a] = {}
      BY <1>4, <1>6, <1>11, <2>1 DEF Opened
    <2>3. Redemptions[a] = {}
      BY <1>4, <1>6 DEF Redemptions
    <2>4. exchanges'[e].client = Asker[a]
      BY <1>7, <1>8, <1>9
    <2>5. Redemptions'[a] = {[by |-> e, client |-> Asker[a]]}
      BY <1>4, <1>11, <2>4 DEF Redemptions
    <2>6. QED
      BY <2>2, <2>3, <2>5
  <1>14. Redemptions' = [Redemptions EXCEPT ![a] = {[by |-> e, client |-> Asker[a]]}]
    BY <1>12, <1>13 DEF Redemptions
  <1>15. Opened' = Opened
    <2>1. \A b \in Authorizations : Opened'[b] = Opened[b]
      BY <1>12, <1>13
    <2>2. QED
      BY <2>1 DEF Opened
  <1>16. Consents[a] # {}
    BY <1>4 DEF Consents
  <1>17. Consented!Redeem(a, e)
    BY <1>1, <1>2, <1>13, <1>14, <1>15, <1>16 DEF Consented!Redeem
  <1>18. QED
    BY <1>4, <1>17 DEF Consented!Next

\* issue: the session of the one exchange that redeemed the consent
LEMMA IssueConsents ==
    ASSUME ConsentOK, [Next]_vars, NEW e \in Exchanges, NEW s \in Sessions, Issue(e, s)
    PROVE  Consented!Next
  <1> DEFINE x == exchanges[e]
             c == x.code
             a == callbacks[c].state
             consent == [code |-> c, user |-> callbacks[c].user,
                         deployment |-> callbacks[c].deployment]
             new == [x EXCEPT !.pc = "done", !.session = s, !.answer = "token"]
  <1>1. UNCHANGED <<authorizations, callbacks, deployment>>
    BY DEF Issue, IssueSession
  <1>2. Asker' = Asker /\ Consents' = Consents /\ CallbacksCopy
    BY <1>1, UntouchedMaps
  <1>3. /\ x \in ExchangeState /\ x.pc = "issue" /\ Redeemed(e) /\ x.session = None
        /\ x.row.deployment = deployment /\ x.client = x.row.client
        /\ exchanges = [f \in Exchanges |-> exchanges[f]]
    <2>1. x.pc = "issue"
      BY DEF Issue
    <2>2. QED
      BY <2>1, ExchangeFacts DEF ConsentOK, BindingOK, FlowOK, CoroutinesOK, BindingInv,
                                 ExchangesAreBound
  <1>4. c \in Callbacks /\ callbacks[c].pc # "unsent" /\ a \in Authorizations
    BY <1>3, ExchangeFacts, CallbackFacts DEF ConsentOK, BindingOK
  <1>5. e \in RedeemedFor(a) /\ RedeemedFor(a) = {e}
    BY <1>3, <1>4, ConsentFacts DEF RedeemedFor
  <1>6. /\ c \in CodesFor(a) /\ x.client = Asker[a]
        /\ x.row.user = consent.user /\ consent.deployment = deployment
    BY <1>3, <1>4, <1>5, ConsentFacts DEF CodeBound
  <1>7. consent \in Consents[a]
    BY <1>4, <1>6 DEF Consents
  <1>8. /\ new.row = x.row /\ new.code = c /\ new.client = x.client /\ new.session = s
    BY <1>3 DEF ExchangeState
  <1> HIDE DEF new
  <1>9. exchanges'[e] = new /\ \A f \in Exchanges \ {e} : exchanges'[f] = exchanges[f]
    BY <1>3 DEF Issue, new
  <1>10. RedeemsNothing
    BY <1>8, <1>9 DEF RedeemsNothing, Redeemed
  <1>11. Redemptions' = Redemptions /\ \A b \in Authorizations : RedeemedFor(b)' = RedeemedFor(b)
    BY <1>2, <1>10, SameRedemptions
  <1>12. s \notin minted /\ None \notin Sessions
    BY NamesAssumption DEF Issue, IssueSession
  <1>13. \A b \in Authorizations : s \notin Opened[b]
    BY <1>12 DEF Opened, RedeemedFor, ConsentOK, BindingOK, BindingInv, ExchangesAreBound
  <1>14. Opened[a] = {} /\ Opened'[a] = {s}
    BY <1>3, <1>4, <1>5, <1>8, <1>9, <1>11, <1>12 DEF Opened
  <1>15. ASSUME NEW b \in Authorizations \ {a} PROVE Opened'[b] = Opened[b]
    <2>1. \A f \in RedeemedFor(b) : exchanges'[f] = exchanges[f]
      BY <1>9 DEF RedeemedFor
    <2>2. QED
      BY <1>11, <2>1 DEF Opened
  <1>16. Opened' = [Opened EXCEPT ![a] = {s}]
    BY <1>14, <1>15 DEF Opened
  <1>17. PICK gone \in SUBSET Sessions :
            \A t \in Sessions \ {s} : Owner'[t] = Consented!Without(gone)[t]
    <2>1. \A t \in Sessions \ {s} : ~ Present(t) => sessions'[t] = None
      BY DEF Issue, IssueSession, Reclaimed, Present
    <2>2. QED
      BY <2>1, OwnersFade
  <1>18. Owner'[s] = [client |-> Asker[a], user |-> consent.user, deployment |-> deployment]
    <2>1. /\ sessions'[s].client = x.row.client /\ sessions'[s].user = x.row.user
          /\ sessions'[s].deployment = x.row.deployment
      BY DEF Issue, IssueSession, Reclaimed
    <2>2. s \in minted' /\ s \notin Requests
      BY NamesAssumption DEF Issue, IssueSession
    <2>3. Issuing(s)
      <3>1. ~ Fading
        BY <1>12, <2>2 DEF Fading
      <3>2. \A r \in Requests : ~ Rotating(r, requests[r].session)
        BY <1>12, <2>2 DEF Rotating
      <3>3. \A t \in Sessions : Issuing(t) => t = s
        BY <1>12, <2>2 DEF Issuing
      <3>4. QED
        BY <3>1, <3>2, <3>3, StoreStep DEF ConsentOK, IInv
    <2>4. sessions'[s] # None
      BY <2>3, NamesAssumption DEF Issuing
    <2>5. QED
      BY <1>3, <1>6, <2>1, <2>4 DEF Owner, Present
  <1> HIDE DEF consent
  <1>19. Owner' = [Consented!Without(gone) EXCEPT ![s] =
            [client |-> Asker[a], user |-> consent.user, deployment |-> deployment]]
    BY <1>17, <1>18 DEF Owner, Consented!Without
  <1>20. Redemptions[a] # {}
    BY <1>4, <1>5 DEF Redemptions
  <1>21. Consented!Open(a, s)
    BY <1>1, <1>2, <1>6, <1>7, <1>11, <1>13, <1>14, <1>16, <1>19, <1>20 DEF Consented!Open
  <1>22. QED
    BY <1>4, <1>21 DEF Consented!Next

LEMMA ExchangeStepConsents ==
    ASSUME ConsentOK, IInv', [Next]_vars, NEW e \in Exchanges, ExchangeStep(e)
    PROVE  Consented!Next
  <1>1. CASE Redeem(e)
    BY <1>1, RedeemConsents
  <1>2. CASE \E s \in Sessions : Issue(e, s)
    BY <1>2, IssueConsents
  <1>3. CASE ~ Redeem(e) /\ ~ \E s \in Sessions : Issue(e, s)
    <2>1. UNCHANGED <<authorizations, callbacks, deployment, minted>>
      BY <1>3, ExchangeMints, ExchangeStepCopies DEF ConsentOK
    <2>2. Asker' = Asker /\ Consents' = Consents /\ CallbacksCopy
      BY <2>1, UntouchedMaps
    <2>3. /\ exchanges = [f \in Exchanges |-> exchanges[f]]
          /\ exchanges[e] \in ExchangeState
          /\ Redeemed(e) => exchanges[e].pc # "unsent"
      BY ExchangeFacts DEF ConsentOK, BindingOK, FlowOK, CoroutinesOK
    <2>4. PICK new :
             /\ exchanges' = [exchanges EXCEPT ![e] = new]
             /\ new.row = exchanges[e].row
             /\ Redeemed(e) => /\ new.code = exchanges[e].code
                               /\ new.client = exchanges[e].client
                               /\ new.session = exchanges[e].session
      <3> DEFINE Keeping(new) ==
             /\ exchanges' = [exchanges EXCEPT ![e] = new]
             /\ new.row = exchanges[e].row
             /\ Redeemed(e) => /\ new.code = exchanges[e].code
                               /\ new.client = exchanges[e].client
                               /\ new.session = exchanges[e].session
      <3>1. ASSUME NEW answer \in ExchangeAnswers, ExchangeEnds(e, answer)
            PROVE  \E new : Keeping(new)
        <4> DEFINE new == ExchangeLeft(exchanges[e], answer)
        <4>1. exchanges' = [exchanges EXCEPT ![e] = new]
          BY <3>1 DEF ExchangeEnds
        <4>2. /\ new.row = exchanges[e].row /\ new.code = exchanges[e].code
              /\ new.session = exchanges[e].session
              /\ Redeemed(e) => new.client = exchanges[e].client
          BY <2>3, <3>1, ExchangeLeftFacts DEF Redeemed
        <4> HIDE DEF new
        <4>3. QED
          BY <4>1, <4>2
      <3>2. CASE \E c \in Callbacks, client \in Clients, a \in Authorizations :
                    PresentCode(e, c, client, a)
        <4>1. PICK c \in Callbacks, client \in Clients, a \in Authorizations :
                 PresentCode(e, c, client, a)
          BY <3>2
        <4> DEFINE new == [exchanges[e] EXCEPT !.pc = "redeem", !.at = clock, !.code = c,
                                               !.client = client, !.verifier = a]
        <4>2. exchanges' = [exchanges EXCEPT ![e] = new] /\ exchanges[e].pc = "unsent"
          BY <4>1 DEF PresentCode
        <4>3. new.row = exchanges[e].row
          BY <2>3 DEF ExchangeState
        <4> HIDE DEF new
        <4>4. QED
          BY <2>3, <4>2, <4>3
      <3>3. CASE CheckBundle(e)
        <4> DEFINE x == exchanges[e]
                   new == IF x.row.tokenExpiresAt <= x.at
                          THEN [x EXCEPT !.pc = "done", !.answer = "invalid_grant"]
                          ELSE IF x.client \in RefreshClients
                          THEN [x EXCEPT !.pc = "issue"]
                          ELSE [x EXCEPT !.pc = "done", !.answer = "token"]
        <4>1. exchanges' = [exchanges EXCEPT ![e] = new]
          BY <3>3 DEF CheckBundle
        <4>2. /\ new.row = x.row /\ new.code = x.code
              /\ new.client = x.client /\ new.session = x.session
          BY <2>3 DEF ExchangeState
        <4> HIDE DEF new
        <4>3. QED
          BY <4>1, <4>2
      <3>4. CASE CodeRefused(e) \/ ExchangeStoreFails(e)
        BY <3>1, <3>4 DEF CodeRefused, ExchangeStoreFails, ExchangeAnswers
      <3>5. QED
        BY <1>3, <3>2, <3>3, <3>4 DEF ExchangeStep
    <2>5. exchanges'[e] = new /\ \A f \in Exchanges \ {e} : exchanges'[f] = exchanges[f]
      BY <2>3, <2>4
    <2>6. RedeemsNothing /\ \A f \in Exchanges :
             Redeemed(f) => exchanges'[f].session = exchanges[f].session
      BY <2>4, <2>5 DEF RedeemsNothing, Redeemed
    <2>7. Redemptions' = Redemptions /\ Opened' = Opened
      BY <2>2, <2>6, SameRedemptions, SameOpened
    <2>8. QED
      BY <2>1, <2>2, <2>7, StepLapses
  <1>4. QED
    BY <1>1, <1>2, <1>3

\* A restart ends the coroutines and leaves what they had.
LEMMA RestartConsents ==
    ASSUME ConsentOK, IInv', [Next]_vars, ServerRestart
    PROVE  Consented!Next
  <1>1. /\ \A a \in Authorizations : authorizations[a] \in AuthorizationState
        /\ \A c \in Callbacks : /\ callbacks[c] \in CallbackState
                                /\ callbacks[c].pc # "done" => callbacks[c].answer = "none"
        /\ \A e \in Exchanges : exchanges[e] \in ExchangeState
    BY CallbackFacts, ExchangeFacts DEF ConsentOK, BindingOK, FlowOK, CoroutinesOK, AuthorizationOK
  <1>2. Asker' = Asker
    <2>1. \A a \in Authorizations :
             /\ authorizations'[a].pc = "unsent" <=> authorizations[a].pc = "unsent"
             /\ authorizations'[a].client = authorizations[a].client
      BY <1>1 DEF ServerRestart, AuthorizationState
    <2>2. QED
      BY <2>1, AskerStays
  <1>3. CallbacksCopy
    BY RestartCopies DEF ConsentOK
  <1>4. Consents' = Consents
    <2>1. \A c \in Callbacks : callbacks'[c] \in {CallbackLeft(callbacks[c], "lost"), callbacks[c]}
      BY DEF ServerRestart
    <2>2. \A c \in Callbacks : callbacks'[c].answer = "code" => callbacks[c].answer = "code"
      BY <1>1, <2>1, CallbackLeftFacts DEF CallbackAnswers
    <2>3. QED
      BY <1>3, <2>2, SameConsents DEF CallbacksCopy
  <1>5. ASSUME NEW e \in Exchanges
        PROVE  /\ exchanges'[e].row = exchanges[e].row /\ exchanges'[e].code = exchanges[e].code
               /\ exchanges[e].row # None => exchanges'[e].client = exchanges[e].client
               /\ exchanges'[e].session = exchanges[e].session
    <2>1. exchanges'[e] \in {ExchangeLeft(exchanges[e], "lost"), exchanges[e]}
      BY DEF ServerRestart
    <2>2. QED
      BY <1>1, <2>1, ExchangeLeftFacts DEF ExchangeAnswers
  <1>6. Redemptions' = Redemptions /\ Opened' = Opened
    BY <1>3, <1>5, SameRedemptions, SameOpened DEF RedeemsNothing, Redeemed
  <1>7. UNCHANGED minted
    BY DEF ServerRestart, Restart
  <1>8. QED
    BY <1>2, <1>4, <1>6, <1>7, StepLapses

LEMMA ServerStepConsents ==
    ASSUME IInv, IInv', ServerTypeOK, FlowInv, BindingInv, [ServerNext]_serverVars
    PROVE  Consented!Next
  <1>1. ConsentOK
    BY ServerTypeParts DEF ConsentOK, BindingOK, FlowOK, IInv
  <1>2. [Next]_vars
    BY ServerStepImplements DEF IInv
  <1>3. ASSUME UNCHANGED coroutines, minted' \cap Sessions \subseteq minted
        PROVE  Consented!Next
    <2>1. UNCHANGED <<Asker, Consents, Redemptions, Opened>>
      BY <1>1, <1>3, UntouchedMaps DEF coroutines
    <2>2. QED
      BY <1>1, <1>2, <1>3, <2>1, StepLapses
  <1>4. ASSUME NEW r \in Requests, NEW h \in minted, NEW client \in Clients, Refresh(r, h, client)
        PROVE  Consented!Next
    BY <1>3, <1>4 DEF Refresh, Start, StoreUnchanged
  <1>5. ASSUME NEW r \in Requests, RefreshStep(r) PROVE Consented!Next
    <2>1. r \notin Sessions
      BY NamesAssumption
    <2>2. QED
      BY <1>3, <1>5, <2>1, RequestMints DEF RefreshStep
  <1>6. CASE ServerRestart
    BY <1>1, <1>2, <1>6, RestartConsents
  <1>7. CASE ServerTick \/ UNCHANGED serverVars
    BY <1>3, <1>7 DEF ServerTick, Tick, serverVars, vars
  <1>8. QED
    BY <1>1, <1>2, <1>4, <1>5, <1>6, <1>7, AuthorizeStepConsents, CallbackStepConsents,
       ExchangeStepConsents DEF ServerNext

(* Clients and users see one consent, one redemption and one session for     *)
(* each request that was asked, under the settings that were consented to,   *)
(* and a session that keeps its owner until it is gone (authorize, complete, *)
(* exchange and refresh over the shared tables).                             *)
THEOREM SessionsAreConsented == ServerSpec => ImplementsConsent
  <1>1. ServerInit => Consented!Init
    <2> SUFFICES ASSUME ServerInit PROVE Consented!Init
      OBVIOUS
    <2>1. /\ \A a \in Authorizations : authorizations[a].pc = "unsent"
          /\ \A c \in Callbacks : callbacks[c].answer = "none"
          /\ \A e \in Exchanges : ~ Redeemed(e)
          /\ \A s \in Sessions : ~ Present(s)
          /\ deployment \in Deployments
      BY DEF ServerInit, Init, Redeemed, Present
    <2>2. QED
      BY <2>1 DEF Consented!Init, Asker, Consents, CodesFor, Redemptions, Opened, RedeemedFor, Owner
  <1>2. /\ IInv /\ ServerTypeOK /\ FlowInv /\ BindingInv /\ [ServerNext]_serverVars /\ IInv'
        => [Consented!Next]_(Consented!vars)
    BY ServerStepConsents
  <1>3. QED
    BY <1>1, <1>2, BindingCorrect, PTL DEF ServerSpec, ImplementsConsent, Consented!Spec
=============================================================================
