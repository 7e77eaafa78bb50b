---------------------- MODULE AuthorizationInvariants ----------------------
(***************************************************************************)
(* The inductive invariant of the flow from the authorize request over the  *)
(* transaction and the code to the exchange and its session: why one        *)
(* authorization is worth one token, why the session is the one of the      *)
(* authorization, and why nobody is refused without a reason.               *)
(* MCAuthorizationServer checks it on a small instance,                     *)
(* AuthorizationServerProofs proves it.                                     *)
(***************************************************************************)
EXTENDS AuthorizationServer

\* A transaction row needs an authorize request that was redirected, and only
\* such a request is ever returned to.
TransactionsFollowRedirects ==
    /\ \A a \in Authorizations :
          /\ authorizations[a].pc # "done" => authorizations[a].answer = "none"
          /\ authorizations[a].answer # "redirect" => transactions[a] = None
    /\ \A c \in Callbacks :
          callbacks[c].pc # "unsent" => authorizations[callbacks[c].state].answer = "redirect"

\* A callback has consumed its transaction exactly when it is past the
\* consume step; then the row is completed or reclaimed.
ConsumedAtMostOnce ==
    /\ \A c \in Callbacks :
          /\ callbacks[c].pc # "done" => callbacks[c].answer = "none"
          /\ callbacks[c].pc \in {"unsent", "consume"} => callbacks[c].client = None
          /\ Consumed(c) =>
                \/ transactions[callbacks[c].state] = None
                \/ transactions[callbacks[c].state].completed
    /\ \A c1, c2 \in Callbacks :
          Consumed(c1) /\ Consumed(c2) /\ callbacks[c1].state = callbacks[c2].state => c1 = c2

\* A code row needs a callback that consumed a transaction and was answered.
CodesFollowCallbacks ==
    \A c \in Callbacks :
        /\ codes[c] # None => callbacks[c].answer = "code"
        /\ callbacks[c].answer = "code" => callbacks[c].client # None

\* An exchange holds a code exactly when it redeemed it; then the row is used
\* or reclaimed.
RedeemedAtMostOnce ==
    /\ \A e \in Exchanges :
          /\ exchanges[e].pc # "unsent" => callbacks[exchanges[e].code].answer = "code"
          /\ exchanges[e].pc \in {"unsent", "redeem"} => ~ Redeemed(e)
          /\ Redeemed(e) => codes[exchanges[e].code] = None \/ codes[exchanges[e].code].used
    /\ \A e1, e2 \in Exchanges :
          Redeemed(e1) /\ Redeemed(e2) /\ exchanges[e1].code = exchanges[e2].code => e1 = e2

FlowInv ==
    /\ TransactionsFollowRedirects
    /\ ConsumedAtMostOnce
    /\ CodesFollowCallbacks
    /\ RedeemedAtMostOnce

-----------------------------------------------------------------------------
(* Why the session is the one of the authorization: what one step copies    *)
(* into a row or a coroutine is what the step before it left there.         *)

\* the row of a code against the callback it was created by
CodeBound(row, q) ==
    /\ row.client = q.client /\ row.user = q.user
    /\ row.deployment = q.deployment /\ row.challenge = q.state
    /\ row.tokenExpiresAt = q.tokenExpiresAt /\ row.expiresAt = q.at + CodeTtl

\* the row of a session against the row of the code it was issued for
Owned(row, code) ==
    /\ row.client = code.client /\ row.user = code.user /\ row.deployment = code.deployment

RequestsAreBound ==
    /\ \A a \in Authorizations : transactions[a] # None =>
          /\ transactions[a].client = authorizations[a].client
          /\ transactions[a].expiresAt = authorizations[a].at + TransactionTtl
    /\ \A c \in Callbacks :
          callbacks[c].client # None =>
             callbacks[c].client = authorizations[callbacks[c].state].client
    /\ \A c \in Callbacks : codes[c] # None => CodeBound(codes[c], callbacks[c])

ExchangesAreBound ==
    \A e \in Exchanges :
        LET x == exchanges[e]
        IN  /\ Redeemed(e) =>
                  /\ CodeBound(x.row, callbacks[x.code])
                  /\ x.client = x.row.client /\ x.verifier = x.row.challenge
            /\ x.pc \in {"registry", "issue"} =>
                  Redeemed(e) /\ x.row.deployment = deployment
            /\ x.session # None =>
                  /\ x.pc = "done" /\ Redeemed(e) /\ x.session \in minted
                  /\ Present(x.session) => Owned(sessions[x.session], x.row)

BindingInv == RequestsAreBound /\ ExchangesAreBound

\* What may be missing: a transaction that was returned to or has expired, a
\* code that was redeemed or has expired; and nothing else.
NothingIsLost ==
    /\ \A a \in Authorizations : authorizations[a].answer = "redirect" =>
          \/ transactions[a] # None /\ ~ transactions[a].completed
          \/ authorizations[a].at + TransactionTtl <= clock
          \/ \E c \in Callbacks : Consumed(c) /\ callbacks[c].state = a
    /\ \A c \in Callbacks : callbacks[c].answer = "code" =>
          \/ codes[c] # None /\ ~ codes[c].used
          \/ callbacks[c].at + CodeTtl <= clock
          \/ \E e \in Exchanges : Redeemed(e) /\ exchanges[e].code = c

(* The books of the whole flow: what is consumed stays consumed, what was    *)
(* copied from step to step is still equal, and what nobody used is there.   *)
LedgerInv == FlowInv /\ BindingInv /\ NothingIsLost
=============================================================================
