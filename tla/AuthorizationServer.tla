------------------------ MODULE AuthorizationServer ------------------------
(***************************************************************************)
(* The OAuth authorization server as a whole: interactive authorization     *)
(* (OAuthAuthorizationService, oauth/authorization.py) over the tables of   *)
(* transactions and codes, composed with the refresh sessions.  All four    *)
(* tables are in one SQLite file, and every writer reclaims the terminal    *)
(* rows of all of them with its own reading of the clock.                   *)
(*                                                                         *)
(* Random values are named for the operation that mints them: a Microsoft   *)
(* state for the authorize request, a local code for the callback.  The     *)
(* PKCE verifier and the redirect URI of an authorize request are known to  *)
(* whoever sent it, so the request names them too.                          *)
(***************************************************************************)
EXTENDS RefreshSessions

CONSTANTS
    Authorizations,   \* GET /oauth/authorize requests, each sent once
    Callbacks,        \* GET /oauth/callback requests
    Exchanges,        \* POST /oauth/token, grant_type=authorization_code
    RefreshClients,   \* clients registered for the refresh_token grant
    TransactionTtl,   \* settings.oauth_transaction_ttl_seconds
    CodeTtl,          \* settings.oauth_authorization_code_ttl_seconds
    TokenLife         \* longest lifetime of Token A

VARIABLES
    transactions,     \* table oauth_transactions
    codes,            \* table oauth_codes
    authorizations,   \* the authorize() coroutines
    callbacks,        \* the complete() coroutines
    exchanges         \* the exchange() coroutines

tables == <<transactions, codes>>
coroutines == <<authorizations, callbacks, exchanges>>
serverVars == <<vars, tables, coroutines>>

ASSUME ServerAssumption ==
    /\ RefreshClients \subseteq Clients
    /\ TransactionTtl \in Nat \ {0}
    /\ CodeTtl \in Nat \ {0}
    /\ TokenLife \in Nat \ {0}

TransactionRow ==
    [client : Clients, deployment : Deployments, expiresAt : Nat, completed : BOOLEAN]

\* challenge: the authorize request whose PKCE challenge and redirect it keeps
CodeRow ==
    [client : Clients, user : Users, deployment : Deployments, challenge : Authorizations,
     tokenExpiresAt : Nat, expiresAt : Nat, used : BOOLEAN]

ASSUME RowsAssumption == None \notin TransactionRow /\ None \notin CodeRow

AuthorizationState ==
    [pc : {"unsent", "begin", "create", "done"}, at : Nat,
     client : Clients \cup {None},
     answer : {"none", "redirect", "unavailable", "lost"}]

CallbackState ==
    [pc : {"unsent", "consume", "entra", "validate", "create", "done"}, at : Nat,
     state : Authorizations \cup {None},
     client : Clients \cup {None}, deployment : Deployments \cup {None},  \* the row read
     user : Users \cup {None}, tokenExpiresAt : Nat,
     answer : {"none", "code", "invalid_request", "access_denied", "server_error",
               "unavailable", "lost"}]

ExchangeState ==
    [pc : {"unsent", "redeem", "registry", "issue", "done"}, at : Nat,
     code : Callbacks \cup {None}, client : Clients \cup {None},
     verifier : Authorizations \cup {None},
     row : CodeRow \cup {None},             \* the code consumed
     session : Sessions \cup {None},        \* the session issued, if any
     answer : {"none", "token", "invalid_grant", "unavailable", "lost"}]

ServerTypeOK ==
    /\ transactions \in [Authorizations -> TransactionRow \cup {None}]
    /\ codes \in [Callbacks -> CodeRow \cup {None}]
    /\ authorizations \in [Authorizations -> AuthorizationState]
    /\ callbacks \in [Callbacks -> CallbackState]
    /\ exchanges \in [Exchanges -> ExchangeState]
    /\ \A a \in Authorizations :
          /\ authorizations[a].at <= clock
          /\ authorizations[a].pc # "unsent" => authorizations[a].client \in Clients
    /\ \A c \in Callbacks :
          /\ callbacks[c].at <= clock
          /\ callbacks[c].pc # "unsent" => callbacks[c].state \in Authorizations
          /\ callbacks[c].pc \in {"entra", "validate", "create"} =>
                /\ callbacks[c].client \in Clients /\ callbacks[c].deployment \in Deployments
          /\ callbacks[c].pc \in {"validate", "create"} => callbacks[c].user \in Users
    /\ \A e \in Exchanges :
          /\ exchanges[e].at <= clock
          /\ exchanges[e].pc # "unsent" => exchanges[e].code \in Callbacks
          /\ exchanges[e].pc \in {"registry", "issue"} => exchanges[e].row \in CodeRow

-----------------------------------------------------------------------------
(* The tables *)

\* Mutant: completed_at IS NULL is missing from the SELECT and the UPDATE.
TransactionUsableTwice(a, at) ==
    transactions[a] # None /\ transactions[a].expiresAt > at

TransactionUsable(a, at) ==
    /\ transactions[a] # None
    /\ ~ transactions[a].completed
    /\ transactions[a].expiresAt > at

\* Mutants: the SELECT forgets client_id, or the SELECT and the UPDATE used_at IS NULL.
CodeUsableByAnyClient(c, client, verifier, at) ==
    /\ codes[c] # None
    /\ codes[c].challenge = verifier
    /\ ~ codes[c].used
    /\ codes[c].expiresAt > at

CodeUsableAgain(c, client, verifier, at) ==
    /\ codes[c] # None
    /\ codes[c].client = client
    /\ codes[c].challenge = verifier
    /\ codes[c].expiresAt > at

CodeUsable(c, client, verifier, at) ==
    /\ codes[c] # None
    /\ codes[c].client = client
    /\ codes[c].challenge = verifier
    /\ ~ codes[c].used
    /\ codes[c].expiresAt > at

LiveTransactions(at) ==
    [a \in Authorizations |->
        IF transactions[a] # None
           /\ (transactions[a].expiresAt <= at \/ transactions[a].completed)
        THEN None ELSE transactions[a]]

\* Mutant: the DELETE compares created_at (one lifetime earlier).
CodesByCreation(at) ==
    [c \in Callbacks |->
        IF codes[c] # None /\ (codes[c].expiresAt - CodeTtl <= at \/ codes[c].used)
        THEN None ELSE codes[c]]

LiveCodes(at) ==
    [c \in Callbacks |->
        IF codes[c] # None /\ (codes[c].expiresAt <= at \/ codes[c].used)
        THEN None ELSE codes[c]]

TablesUnchanged == StoreUnchanged /\ UNCHANGED <<requests, tables>>

-----------------------------------------------------------------------------
ServerInit ==
    /\ Init
    /\ transactions = [a \in Authorizations |-> None]
    /\ codes = [c \in Callbacks |-> None]
    /\ authorizations = [a \in Authorizations |->
          [pc |-> "unsent", at |-> 0, client |-> None, answer |-> "none"]]
    /\ callbacks = [c \in Callbacks |->
          [pc |-> "unsent", at |-> 0, state |-> None, client |-> None, deployment |-> None,
           user |-> None, tokenExpiresAt |-> 0, answer |-> "none"]]
    /\ exchanges = [e \in Exchanges |->
          [pc |-> "unsent", at |-> 0, code |-> None, client |-> None, verifier |-> None,
           row |-> None, session |-> None, answer |-> "none"]]

-----------------------------------------------------------------------------
(* authorize(): the registry and Entra are awaited, then the clock is read  *)

AuthorizeGoto(a, pc, at, answer) ==
    authorizations' = [authorizations EXCEPT ![a] =
        [@ EXCEPT !.pc = pc, !.at = at, !.answer = answer]]

Authorize(a, client) ==
    /\ authorizations[a].pc = "unsent"
    /\ authorizations' = [authorizations EXCEPT ![a] =
          [@ EXCEPT !.pc = "begin", !.client = client]]
    /\ TablesUnchanged /\ UNCHANGED <<callbacks, exchanges>>

BeginUpstream(a) ==
    /\ authorizations[a].pc = "begin"
    /\ \/ AuthorizeGoto(a, "create", clock, "none")
       \/ AuthorizeGoto(a, "done", 0, "unavailable")
    /\ TablesUnchanged /\ UNCHANGED <<callbacks, exchanges>>

CreateTransaction(a) ==
    LET at == authorizations[a].at
    IN  /\ authorizations[a].pc = "create"
        /\ \/ /\ OtherWriter(at)
              /\ transactions' = [LiveTransactions(at) EXCEPT ![a] =
                    [client |-> authorizations[a].client, deployment |-> deployment,
                     expiresAt |-> at + TransactionTtl, completed |-> FALSE]]
              /\ codes' = LiveCodes(at)
              /\ AuthorizeGoto(a, "done", at, "redirect")
           \/ TablesUnchanged /\ AuthorizeGoto(a, "done", 0, "unavailable")
        /\ UNCHANGED <<callbacks, exchanges>>

-----------------------------------------------------------------------------
(* complete(): the browser returns from Microsoft, possibly more than once  *)

\* the coroutine returns without a code; its locals are gone, but for the
\* state and the client, which tell whose transaction it consumed
CallbackLeft(q, answer) ==
    [q EXCEPT !.pc = "done", !.answer = answer, !.at = 0,
              !.deployment = None, !.user = None, !.tokenExpiresAt = 0]

CallbackEnds(c, answer) ==
    callbacks' = [callbacks EXCEPT ![c] = CallbackLeft(@, answer)]

ReturnFromMicrosoft(c, a) ==
    /\ callbacks[c].pc = "unsent"
    /\ authorizations[a].answer = "redirect"
    /\ callbacks' = [callbacks EXCEPT ![c] =
          [@ EXCEPT !.pc = "consume", !.at = clock, !.state = a]]
    /\ TablesUnchanged /\ UNCHANGED <<authorizations, exchanges>>

\* consume_transaction: the row is read and marked in one write transaction
ConsumeTransaction(c) ==
    LET a == callbacks[c].state
        row == transactions[a]
    IN  /\ callbacks[c].pc = "consume"
        /\ TransactionUsable(a, callbacks[c].at)
        /\ transactions' = [transactions EXCEPT ![a] = [@ EXCEPT !.completed = TRUE]]
        /\ \/ callbacks' = [callbacks EXCEPT ![c] =
                 [@ EXCEPT !.pc = "entra", !.client = row.client,
                           !.deployment = row.deployment]]
           \/ CallbackEnds(c, "access_denied")
        /\ StoreUnchanged /\ UNCHANGED <<requests, codes, authorizations, exchanges>>

TransactionRefused(c) ==
    /\ callbacks[c].pc = "consume"
    /\ ~ TransactionUsable(callbacks[c].state, callbacks[c].at)
    /\ CallbackEnds(c, "invalid_request")
    /\ TablesUnchanged /\ UNCHANGED <<authorizations, exchanges>>

\* the flow is opened and the Microsoft code redeemed; the lifetime of
\* Token A counts from here
EntraComplete(c) ==
    /\ callbacks[c].pc = "entra"
    /\ \/ \E user \in Users, life \in 1..TokenLife :
             callbacks' = [callbacks EXCEPT ![c] =
                 [@ EXCEPT !.pc = "validate", !.user = user, !.tokenExpiresAt = clock + life]]
       \/ CallbackEnds(c, "server_error")
    /\ TablesUnchanged /\ UNCHANGED <<authorizations, exchanges>>

\* the validator answers; then the clock is read again for the code
ValidateTokenA(c) ==
    /\ callbacks[c].pc = "validate"
    /\ \/ callbacks' = [callbacks EXCEPT ![c] = [@ EXCEPT !.pc = "create", !.at = clock]]
       \/ CallbackEnds(c, "server_error")
    /\ TablesUnchanged /\ UNCHANGED <<authorizations, exchanges>>

CodeOf(c) ==
    [client |-> callbacks[c].client, user |-> callbacks[c].user,
     deployment |-> callbacks[c].deployment, challenge |-> callbacks[c].state,
     tokenExpiresAt |-> callbacks[c].tokenExpiresAt,
     expiresAt |-> callbacks[c].at + CodeTtl, used |-> FALSE]

CreateCode(c) ==
    LET at == callbacks[c].at
    IN  /\ callbacks[c].pc = "create"
        /\ OtherWriter(at)
        /\ transactions' = LiveTransactions(at)
        /\ codes' = [LiveCodes(at) EXCEPT ![c] = CodeOf(c)]
        /\ callbacks' = [callbacks EXCEPT ![c] = [@ EXCEPT !.pc = "done", !.answer = "code"]]
        /\ UNCHANGED <<authorizations, exchanges>>

CallbackStoreFails(c) ==
    /\ callbacks[c].pc \in {"consume", "create"}
    /\ CallbackEnds(c, "unavailable")
    /\ TablesUnchanged /\ UNCHANGED <<authorizations, exchanges>>

-----------------------------------------------------------------------------
(* exchange(): the code is consumed first, everything else is checked after *)

\* the coroutine returns; of one that redeemed nothing only the code is left
ExchangeLeft(x, answer) ==
    IF x.row = None
    THEN [x EXCEPT !.pc = "done", !.answer = answer,
                   !.at = 0, !.client = None, !.verifier = None]
    ELSE [x EXCEPT !.pc = "done", !.answer = answer]

ExchangeEnds(e, answer) ==
    exchanges' = [exchanges EXCEPT ![e] = ExchangeLeft(@, answer)]

PresentCode(e, c, client, a) ==
    /\ exchanges[e].pc = "unsent"
    /\ callbacks[c].answer = "code"
    /\ exchanges' = [exchanges EXCEPT ![e] =
          [@ EXCEPT !.pc = "redeem", !.at = clock, !.code = c, !.client = client,
                    !.verifier = a]]
    /\ TablesUnchanged /\ UNCHANGED <<authorizations, callbacks>>

\* Mutant: the binding of the code to the deployment is not checked.
AnyBinding(row) == TRUE

\* _authorization_code_binding_is_valid
CodeBindingIsValid(row) == row.deployment = deployment

Redeem(e) ==
    LET x == exchanges[e]
        row == codes[x.code]
    IN  /\ x.pc = "redeem"
        /\ CodeUsable(x.code, x.client, x.verifier, x.at)
        /\ codes' = [codes EXCEPT ![x.code] = [@ EXCEPT !.used = TRUE]]
        /\ exchanges' = [exchanges EXCEPT ![e] =
              IF CodeBindingIsValid(row)
              THEN [@ EXCEPT !.pc = "registry", !.row = row]
              ELSE [@ EXCEPT !.pc = "done", !.row = row, !.answer = "invalid_grant"]]
        /\ StoreUnchanged /\ UNCHANGED <<requests, transactions, authorizations, callbacks>>

CodeRefused(e) ==
    LET x == exchanges[e]
    IN  /\ x.pc = "redeem"
        /\ ~ CodeUsable(x.code, x.client, x.verifier, x.at)
        /\ ExchangeEnds(e, "invalid_grant")
        /\ TablesUnchanged /\ UNCHANGED <<authorizations, callbacks>>

\* the client is looked up again, the bundle opened and its token looked at
CheckBundle(e) ==
    LET x == exchanges[e]
    IN  /\ x.pc = "registry"
        /\ exchanges' = [exchanges EXCEPT ![e] =
              IF x.row.tokenExpiresAt <= x.at
              THEN [@ EXCEPT !.pc = "done", !.answer = "invalid_grant"]
              ELSE IF x.client \in RefreshClients
              THEN [@ EXCEPT !.pc = "issue"]
              ELSE [@ EXCEPT !.pc = "done", !.answer = "token"]]
        /\ TablesUnchanged /\ UNCHANGED <<authorizations, callbacks>>

Issue(e, s) ==
    LET x == exchanges[e]
    IN  /\ x.pc = "issue"
        /\ IssueSession(s, x.row.client, x.row.user, x.row.deployment, x.at)
        /\ transactions' = LiveTransactions(x.at)
        /\ codes' = LiveCodes(x.at)
        /\ exchanges' = [exchanges EXCEPT ![e] =
              [@ EXCEPT !.pc = "done", !.session = s, !.answer = "token"]]
        /\ UNCHANGED <<authorizations, callbacks>>

ExchangeStoreFails(e) ==
    /\ exchanges[e].pc \in {"redeem", "registry", "issue"}
    /\ ExchangeEnds(e, "unavailable")
    /\ TablesUnchanged /\ UNCHANGED <<authorizations, callbacks>>

-----------------------------------------------------------------------------
(* The refresh grant, restarts and the clock, with the tables they share    *)

\* refresh: a resource that is not this server's, a client that is unknown or
\* not registered for the grant, or a registry that fails (503) ends the request
\* before the sessions are asked; that changes nothing and is no step here
Refresh(r, h, client) ==
    /\ client \in RefreshClients
    /\ Start(r, h, client)
    /\ UNCHANGED <<tables, coroutines>>

\* a committed rotation reclaims rows, no other step of refresh() does
RefreshStep(r) ==
    /\ RequestStep(r)
    /\ IF minted' # minted
       THEN /\ transactions' = LiveTransactions(requests[r].at)
            /\ codes' = LiveCodes(requests[r].at)
       ELSE UNCHANGED tables
    /\ UNCHANGED coroutines

ServerRestart ==
    /\ Restart
    /\ transactions' = LiveTransactions(clock)
    /\ codes' = LiveCodes(clock)
    /\ authorizations' = [a \in Authorizations |->
          IF authorizations[a].pc \in {"begin", "create"}
          THEN [authorizations[a] EXCEPT !.pc = "done", !.at = 0, !.answer = "lost"]
          ELSE authorizations[a]]
    /\ callbacks' = [c \in Callbacks |->
          IF callbacks[c].pc \in {"consume", "entra", "validate", "create"}
          THEN CallbackLeft(callbacks[c], "lost")
          ELSE callbacks[c]]
    /\ exchanges' = [e \in Exchanges |->
          IF exchanges[e].pc \in {"redeem", "registry", "issue"}
          THEN ExchangeLeft(exchanges[e], "lost")
          ELSE exchanges[e]]

ServerTick == Tick /\ UNCHANGED <<tables, coroutines>>

AuthorizeStep(a) ==
    \/ \E client \in Clients : Authorize(a, client)
    \/ BeginUpstream(a)
    \/ CreateTransaction(a)

CallbackStep(c) ==
    \/ \E a \in Authorizations : ReturnFromMicrosoft(c, a)
    \/ ConsumeTransaction(c)
    \/ TransactionRefused(c)
    \/ EntraComplete(c)
    \/ ValidateTokenA(c)
    \/ CreateCode(c)
    \/ CallbackStoreFails(c)

ExchangeStep(e) ==
    \/ \E c \in Callbacks, client \in Clients, a \in Authorizations :
          PresentCode(e, c, client, a)
    \/ Redeem(e)
    \/ CodeRefused(e)
    \/ CheckBundle(e)
    \/ \E s \in Sessions : Issue(e, s)
    \/ ExchangeStoreFails(e)

ServerNext ==
    \/ \E a \in Authorizations : AuthorizeStep(a)
    \/ \E c \in Callbacks : CallbackStep(c)
    \/ \E e \in Exchanges : ExchangeStep(e)
    \/ \E r \in Requests, h \in minted, client \in Clients : Refresh(r, h, client)
    \/ \E r \in Requests : RefreshStep(r)
    \/ ServerRestart
    \/ ServerTick

ServerSpec == ServerInit /\ [][ServerNext]_serverVars

-----------------------------------------------------------------------------
(* Properties *)

Redeemed(e) == exchanges[e].row # None

(* One authorization is worth one token: whatever is duplicated or repeated   *)
(* (the browser's callback, the client's exchange) and whichever step fails,  *)
(* at most one exchange ever gets past the codes of one authorize request.    *)
OneTokenPerAuthorization ==
    \A e1, e2 \in Exchanges :
        /\ Redeemed(e1) /\ Redeemed(e2)
        /\ callbacks[exchanges[e1].code].state = callbacks[exchanges[e2].code].state
        => e1 = e2

(* A session belongs to the client that asked for the authorization and now   *)
(* redeems it with its own verifier, to the identity that signed in, and to   *)
(* the deployment the user consented to.                                      *)
SessionOfAuthorization ==
    \A e \in Exchanges :
        LET x == exchanges[e]
            a == callbacks[x.code].state
        IN  x.session # None =>
              /\ x.client = authorizations[a].client /\ x.verifier = a
              /\ Present(x.session) =>
                    /\ sessions[x.session].client = authorizations[a].client
                    /\ sessions[x.session].user = callbacks[x.code].user
                    /\ sessions[x.session].deployment = callbacks[x.code].deployment

(* No session is born that its first refresh would have to revoke: settings   *)
(* may change between the consent and the redemption, and then the code is    *)
(* refused.                                                                   *)
NoStillbornSession ==
    [][\A s \in Sessions :
          ~ Present(s) /\ sessions'[s] # None => sessions'[s].deployment = deployment]_serverVars

(* Nobody is refused without a reason: a callback is told invalid_request, or *)
(* an exchange invalid_grant, only for an expired, foreign, already consumed  *)
(* or outdated transaction or code.  Reclaiming with an old or a new clock    *)
(* reading never takes a row that still counts.                               *)
Consumed(c) == callbacks[c].client # None \/ callbacks[c].answer = "access_denied"

RefusalOfCallback(c) ==
    LET a == callbacks[c].state
    IN  \/ authorizations[a].at + TransactionTtl <= clock
        \/ \E other \in Callbacks : Consumed(other) /\ callbacks[other].state = a

RefusalOfExchange(e) ==
    LET x == exchanges[e]
        c == callbacks[x.code]
    IN  \/ x.client # c.client \/ x.verifier # c.state
        \/ c.at + CodeTtl <= clock
        \/ c.tokenExpiresAt <= x.at
        \/ c.deployment # deployment
        \/ \E other \in Exchanges \ {e} : Redeemed(other) /\ exchanges[other].code = x.code

RefusedForCause ==
    [][/\ \A c \in Callbacks :
             callbacks'[c].answer = "invalid_request" /\ callbacks[c].answer = "none"
                => RefusalOfCallback(c)
       /\ \A e \in Exchanges :
             exchanges'[e].answer = "invalid_grant" /\ exchanges[e].answer = "none"
                => RefusalOfExchange(e)]_serverVars

(* The refresh sessions behave inside the server as RefreshSessions assumes:  *)
(* sessions are issued with a clock reading that is not in the future, and    *)
(* other flows touch its tables by reclaiming only.                           *)
ImplementsRefreshSessions == Spec

(* Seen from the clients and their users the whole of it, the rows, the        *)
(* repeated callbacks and exchanges and the restarts, opens one session for    *)
(* one consent to one request, and the session stays theirs.                   *)
RedeemedFor(a) ==
    {e \in Exchanges : Redeemed(e) /\ callbacks[exchanges[e].code].state = a}

CodesFor(a) == {c \in Callbacks : callbacks[c].answer = "code" /\ callbacks[c].state = a}

Asker ==
    [a \in Authorizations |->
        IF authorizations[a].pc = "unsent" THEN None ELSE authorizations[a].client]
Consents ==
    [a \in Authorizations |->
        {[code |-> c, user |-> callbacks[c].user, deployment |-> callbacks[c].deployment] :
            c \in CodesFor(a)}]
Redemptions ==
    [a \in Authorizations |->
        {[by |-> e, client |-> exchanges[e].client] : e \in RedeemedFor(a)}]
Opened ==
    [a \in Authorizations |->
        {s \in Sessions : \E e \in RedeemedFor(a) : exchanges[e].session = s}]
Owner ==
    [s \in Sessions |->
        IF Present(s)
        THEN [client |-> sessions[s].client, user |-> sessions[s].user,
              deployment |-> sessions[s].deployment]
        ELSE None]

Consented == INSTANCE ConsentedSessions WITH
    Asks        <- Authorizations,
    Codes       <- Callbacks,
    Redeemers   <- Exchanges,
    asker       <- Asker,
    consents    <- Consents,
    redemptions <- Redemptions,
    opened      <- Opened,
    owner       <- Owner

ImplementsConsent == Consented!Spec
=============================================================================
