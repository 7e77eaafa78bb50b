---------------------------- MODULE SigningKeys ----------------------------
(***************************************************************************)
(* Token validation and the documents it rests on: OidcDocumentProvider      *)
(* (auth/oidc.py) caches the configuration of the identity provider and its   *)
(* signing keys behind one asyncio.Lock, and JwtValidator (auth/validator.py) *)
(* looks a token's key up in them, once in the cached keys and once more      *)
(* after a forced refresh, of which one per cool-down is granted.  What the   *)
(* verdict means to the caller is decided by the bearer middleware            *)
(* (auth/middleware.py) and by the refresh endpoint (oauth/sessions.py).      *)
(*                                                                         *)
(* A step runs from one await to the next; an await that does not suspend     *)
(* is a switch point here too.  The identity provider is external: it         *)
(* publishes and withdraws keys at any time and answers a request with the    *)
(* keys of some moment between its start and its end.                        *)
(***************************************************************************)
EXTENDS Integers, FiniteSets

CONSTANTS
    Calls,      \* slots of concurrent validate() coroutines
    Keys,       \* key ids
    Ttl,        \* settings.oidc_cache_ttl_seconds
    Cooldown,   \* the 60 seconds between forced refreshes
    MaxTime,    \* bound on the clock
    None

VARIABLES
    clock,          \* time.monotonic
    publishedAt,    \* provider: when a key was published, None before
    withdrawnAt,    \* provider: when a key was withdrawn, None before
    configuration,  \* _configuration: the document and when it was stored
    jwks,           \* _jwks: the document, when asked for and when stored
    lastForced,     \* _last_forced_refresh, None for -inf
    forcedLost,     \* history: the last forced refresh brought no document,
    forcedFailed,   \* and it was the provider's request that failed
    lock,           \* holder of _lock, or None
    calls           \* the validate() coroutines

vars == <<clock, publishedAt, withdrawnAt, configuration, jwks, lastForced,
          forcedLost, forcedFailed, lock, calls>>
provider == <<publishedAt, withdrawnAt>>

ConfigurationDocs == {"good", "no_keys_url"}
FetchPcs == {"configuration_fetch", "keys_fetch"}
LockPcs == {"configuration_lock", "keys_lock"}
Suspended == FetchPcs \cup LockPcs
Verdicts == {"accepted", "unscoped", "unknown_key", "invalid", "unavailable",
             "cancelled"}

Time == 0 .. MaxTime

\* keys is None for a document whose "keys" is not a list
KeyDocument ==
    [keys : (SUBSET Keys) \cup {None}, asked : Time, stored : Time]

ASSUME KeysAssumption ==
    /\ Ttl \in Nat \ {0}
    /\ Cooldown \in Nat \ {0}
    /\ MaxTime \in Nat
    /\ Keys # {}
    /\ None \notin Keys /\ None \notin Calls /\ None \notin Nat /\ None \notin Verdicts
    /\ None \notin KeyDocument

Call ==
    [pc : Suspended \cup {"idle", "configuration", "keys", "done"},
     stage : {"metadata", "cached", "forced"},  \* which lookup of validate()
     kid : Keys,
     asked : Time,                           \* when its fetch was sent
     answer : [keys : (SUBSET Keys) \cup {None}] \cup {None},
     verdict : Verdicts \cup {None}]

TypeOK ==
    /\ clock \in Time
    /\ publishedAt \in [Keys -> Time \cup {None}]
    /\ withdrawnAt \in [Keys -> Time \cup {None}]
    /\ configuration \in [doc : ConfigurationDocs, stored : Time] \cup {None}
    /\ jwks \in KeyDocument \cup {None}
    /\ lastForced \in Time \cup {None}
    /\ forcedLost \in BOOLEAN
    /\ forcedFailed \in BOOLEAN
    /\ lock \in Calls \cup {None}
    /\ calls \in [Calls -> Call]

-----------------------------------------------------------------------------
Published ==
    {k \in Keys : publishedAt[k] # None /\ withdrawnAt[k] = None}

\* Mutant: a document is still served at the age of the time to live.
FreshOneLonger(cached) == cached # None /\ clock - cached.stored <= Ttl

\* _is_fresh
Fresh(cached) == cached # None /\ clock - cached.stored < Ttl

\* Mutant: a refresh is granted after the cool-down only.
AllowedOneLater(c) ==
    /\ calls[c].stage = "forced"
    /\ lastForced = None \/ clock - lastForced > Cooldown

\* refresh_allowed
RefreshAllowed(c) ==
    /\ calls[c].stage = "forced"
    /\ lastForced = None \/ clock - lastForced >= Cooldown

At(c, pc) == calls[c].pc = pc

Goto(c, pc) == calls' = [calls EXCEPT ![c].pc = pc]

NewCall(k) ==
    [pc |-> "idle", stage |-> "metadata", kid |-> k, asked |-> 0,
     answer |-> None, verdict |-> None]

\* a coroutine without a token, its locals are those of no call
NoCall == NewCall(CHOOSE k \in Keys : TRUE)

Finished(verdict) == [NoCall EXCEPT !.pc = "done", !.verdict = verdict]

Finish(c, verdict) == calls' = [calls EXCEPT ![c] = Finished(verdict)]

\* validate once the key is found, by what the token and the documents say:
\* signature and claims, an issuer in the configuration, the scopes
Judgements == {"accepted", "invalid", "unavailable", "unscoped"}

\* one round of _find_key with the document signing_keys returned
Search(c, document) ==
    IF document.keys = None THEN Finish(c, "unavailable")
    ELSE IF calls[c].kid \in document.keys
    THEN \E verdict \in Judgements : Finish(c, verdict)
    ELSE IF calls[c].stage = "forced" THEN Finish(c, "unknown_key")
    ELSE calls' = [calls EXCEPT ![c] = [@ EXCEPT !.pc = "keys",
                                                 !.stage = "forced",
                                                 !.asked = 0,
                                                 !.answer = None]]

\* configuration() returned: to validate, or to signing_keys
Configured(c, doc) ==
    IF calls[c].stage = "metadata"
    THEN calls' = [calls EXCEPT ![c] = [@ EXCEPT !.pc = "keys",
                                                 !.stage = "cached"]]
    ELSE IF doc = "no_keys_url" THEN Finish(c, "unavailable")
    ELSE Goto(c, "keys_lock")

-----------------------------------------------------------------------------
\* nothing is cached when the process starts
Init ==
    /\ clock = 0
    /\ publishedAt \in [Keys -> {0, None}]
    /\ withdrawnAt = [k \in Keys |-> None]
    /\ configuration = None
    /\ jwks = None
    /\ lastForced = None
    /\ forcedLost = FALSE
    /\ forcedFailed = FALSE
    /\ lock = None
    /\ calls = [c \in Calls |-> NoCall]

\* validate: a readable token of an allowlisted tenant, signed with RS256
Arrive(c) ==
    /\ At(c, "idle")
    /\ \E k \in Keys :
          calls' = [calls EXCEPT ![c] =
                       [NewCall(k) EXCEPT !.pc = "configuration"]]
    /\ UNCHANGED <<clock, provider, configuration, jwks, lastForced,
                   forcedLost, forcedFailed, lock>>

\* validate: any other token is refused before the first await
Refuse(c) ==
    /\ At(c, "idle")
    /\ Finish(c, "invalid")
    /\ UNCHANGED <<clock, provider, configuration, jwks, lastForced,
                   forcedLost, forcedFailed, lock>>

\* the caller has its answer and the slot is free again
Answered(c) ==
    /\ At(c, "done")
    /\ calls' = [calls EXCEPT ![c] = NoCall]
    /\ UNCHANGED <<clock, provider, configuration, jwks, lastForced,
                   forcedLost, forcedFailed, lock>>

\* configuration: fresh, or on to the lock
Configuration(c) ==
    /\ At(c, "configuration")
    /\ IF Fresh(configuration) THEN Configured(c, configuration.doc)
                               ELSE Goto(c, "configuration_lock")
    /\ UNCHANGED <<clock, provider, configuration, jwks, lastForced,
                   forcedLost, forcedFailed, lock>>

\* configuration: the lock is acquired and the cache looked at again
LockConfiguration(c) ==
    /\ At(c, "configuration_lock")
    /\ lock = None
    /\ IF Fresh(configuration)
       THEN /\ Configured(c, configuration.doc)
            /\ lock' = lock
       ELSE /\ Goto(c, "configuration_fetch")
            /\ lock' = c
    /\ UNCHANGED <<clock, provider, configuration, jwks, lastForced,
                   forcedLost, forcedFailed>>

\* configuration: the document arrives and is stored, whatever it says
ConfigurationArrives(c) ==
    /\ At(c, "configuration_fetch")
    /\ \E doc \in ConfigurationDocs :
          /\ configuration' = [doc |-> doc, stored |-> clock]
          /\ Configured(c, doc)
    /\ lock' = None
    /\ UNCHANGED <<clock, provider, jwks, lastForced, forcedLost, forcedFailed>>

\* signing_keys: the cached keys will do, or the URL of the keys is needed
SigningKeys(c) ==
    /\ At(c, "keys")
    /\ IF calls[c].stage = "cached" /\ Fresh(jwks)
       THEN Search(c, jwks)
       ELSE Goto(c, "configuration")
    /\ UNCHANGED <<clock, provider, configuration, jwks, lastForced,
                   forcedLost, forcedFailed, lock>>

AskForKeys(c) ==
    calls' = [calls EXCEPT ![c] = [@ EXCEPT !.pc = "keys_fetch",
                                            !.asked = clock]]

\* a forced refresh is counted before its request is sent
RecordForced(c) ==
    IF calls[c].stage = "forced"
    THEN lastForced' = clock /\ forcedLost' = FALSE /\ forcedFailed' = FALSE
    ELSE UNCHANGED <<lastForced, forcedLost, forcedFailed>>

\* Mutant: the lock is released before the request, not after it.
LockKeysOnlyToDecide(c) ==
    /\ At(c, "keys_lock")
    /\ lock = None
    /\ IF Fresh(jwks) /\ ~RefreshAllowed(c)
       THEN /\ Search(c, jwks)
            /\ UNCHANGED <<lastForced, forcedLost, forcedFailed>>
       ELSE /\ AskForKeys(c)
            /\ RecordForced(c)
    /\ UNCHANGED <<clock, provider, configuration, jwks, lock>>

\* signing_keys: the lock is acquired; the cached keys, or a request
LockKeys(c) ==
    /\ At(c, "keys_lock")
    /\ lock = None
    /\ IF Fresh(jwks) /\ ~RefreshAllowed(c)
       THEN /\ Search(c, jwks)
            /\ UNCHANGED <<lastForced, forcedLost, forcedFailed, lock>>
       ELSE /\ AskForKeys(c)
            /\ RecordForced(c)
            /\ lock' = c
    /\ UNCHANGED <<clock, provider, configuration, jwks>>

\* external: the provider reads its keys, or answers something else
ProviderAnswers(c) ==
    /\ At(c, "keys_fetch")
    /\ calls[c].answer = None
    /\ \E keys \in {Published, None} :
          calls' = [calls EXCEPT ![c].answer = [keys |-> keys]]
    /\ UNCHANGED <<clock, provider, configuration, jwks, lastForced,
                   forcedLost, forcedFailed, lock>>

\* signing_keys: the document arrives, is stored and searched
KeysArrive(c) ==
    /\ At(c, "keys_fetch")
    /\ calls[c].answer # None
    /\ LET document == [keys |-> calls[c].answer.keys,
                        asked |-> calls[c].asked, stored |-> clock]
       IN  /\ jwks' = document
           /\ Search(c, document)
    /\ lock' = None
    /\ UNCHANGED <<clock, provider, configuration, lastForced, forcedLost,
                   forcedFailed>>

\* the request of a forced refresh ends without a document: it has failed, or
\* its coroutine was cancelled
Losing(c, failed) ==
    IF At(c, "keys_fetch") /\ calls[c].stage = "forced"
    THEN forcedLost' = TRUE /\ forcedFailed' = failed
    ELSE UNCHANGED <<forcedLost, forcedFailed>>

\* Mutant: the lock is not released when the request fails.
FetchFailsHoldingLock(c) ==
    /\ calls[c].pc \in FetchPcs
    /\ Finish(c, "unavailable")
    /\ Losing(c, TRUE)
    /\ UNCHANGED <<clock, provider, configuration, jwks, lastForced, lock>>

\* HttpJsonFetcher raises: time out, error status, not a JSON object
FetchFails(c) ==
    /\ calls[c].pc \in FetchPcs
    /\ Finish(c, "unavailable")
    /\ Losing(c, TRUE)
    /\ lock' = None
    /\ UNCHANGED <<clock, provider, configuration, jwks, lastForced>>

\* the coroutine is cancelled at an await: async with releases the lock
Cancel(c) ==
    /\ calls[c].pc \in Suspended
    /\ Finish(c, "cancelled")
    /\ Losing(c, FALSE)
    /\ lock' = IF lock = c THEN None ELSE lock
    /\ UNCHANGED <<clock, provider, configuration, jwks, lastForced>>

\* external: keys are rolled over
Publish ==
    /\ \E k \in Keys :
          /\ publishedAt[k] = None
          /\ publishedAt' = [publishedAt EXCEPT ![k] = clock]
    /\ UNCHANGED <<clock, withdrawnAt, configuration, jwks, lastForced,
                   forcedLost, forcedFailed, lock, calls>>

Withdraw ==
    /\ \E k \in Published :
          withdrawnAt' = [withdrawnAt EXCEPT ![k] = clock]
    /\ UNCHANGED <<clock, publishedAt, configuration, jwks, lastForced,
                   forcedLost, forcedFailed, lock, calls>>

Tick ==
    /\ clock < MaxTime
    /\ clock' = clock + 1
    /\ UNCHANGED <<provider, configuration, jwks, lastForced, forcedLost,
                   forcedFailed, lock, calls>>

Step(c) ==
    \/ Configuration(c) \/ LockConfiguration(c) \/ ConfigurationArrives(c)
    \/ SigningKeys(c) \/ LockKeys(c) \/ KeysArrive(c) \/ FetchFails(c)

Next ==
    \/ \E c \in Calls :
          \/ Arrive(c) \/ Refuse(c) \/ Answered(c) \/ Cancel(c)
          \/ ProviderAnswers(c) \/ Step(c)
    \/ Publish \/ Withdraw \/ Tick

Spec == Init /\ [][Next]_vars

\* The event loop runs what can run; waiters of an asyncio.Lock are served in
\* order, which is more than strong fairness; a request is answered, or fails
\* by the time out of httpx.
RunsOn(c) == WF_vars(Configuration(c) \/ SigningKeys(c))
FetchEnds(c) == WF_vars(ConfigurationArrives(c) \/ KeysArrive(c) \/ FetchFails(c))
IsServed(c) == SF_vars(LockConfiguration(c) \/ LockKeys(c))

Fairness == \A c \in Calls : RunsOn(c) /\ FetchEnds(c) /\ IsServed(c)

FairSpec == Spec /\ Fairness

-----------------------------------------------------------------------------
\* The lock is held by the one coroutine whose request is in flight, so a
\* document is stored by the step that ends its request and never replaced by
\* one that was asked for earlier.
LockIsHeldToFetch ==
    \A c \in Calls : calls[c].pc \in FetchPcs <=> lock = c

\* what is stored was asked for before, and a request is of this coroutine
TimesAreOrdered ==
    /\ jwks # None => jwks.asked <= jwks.stored /\ jwks.stored <= clock
    /\ configuration # None => configuration.stored <= clock
    /\ lastForced # None => lastForced <= clock
    /\ \A k \in Keys :
          /\ publishedAt[k] # None => publishedAt[k] <= clock
          /\ withdrawnAt[k] # None => /\ publishedAt[k] # None
                                      /\ publishedAt[k] <= withdrawnAt[k]
                                      /\ withdrawnAt[k] <= clock
    /\ \A c \in Calls :
          At(c, "keys_fetch") => /\ calls[c].asked <= clock
                                 /\ jwks # None => jwks.stored <= calls[c].asked

\* a coroutine has an answer as long as it waits for it, a verdict at its end
LocalsAreCurrent ==
    \A c \in Calls : /\ calls[c].answer # None => At(c, "keys_fetch")
                     /\ calls[c].verdict # None => At(c, "done")

\* a set of keys that was published at some moment not before asked
PublishedSince(keys, asked) ==
    /\ \A k \in keys : /\ publishedAt[k] # None
                       /\ withdrawnAt[k] # None => withdrawnAt[k] >= asked
    /\ \A k \in Keys \ keys :
          \/ publishedAt[k] = None \/ publishedAt[k] >= asked
          \/ withdrawnAt[k] # None

\* The cached keys, and an answer on its way, are keys the provider had
\* published at some moment after they were asked for.
KeysAreGenuine ==
    /\ jwks # None /\ jwks.keys # None => PublishedSince(jwks.keys, jwks.asked)
    /\ \A c \in Calls :
          At(c, "keys_fetch") /\ calls[c].answer # None
             /\ calls[c].answer.keys # None =>
             PublishedSince(calls[c].answer.keys, calls[c].asked)

\* The last forced refresh is on its way, or lost, or what is cached was
\* asked for no earlier.
ForcedRefreshIsCached ==
    lastForced # None /\ ~forcedLost =>
        \/ \E c \in Calls : /\ At(c, "keys_fetch")
                            /\ calls[c].stage = "forced"
                            /\ calls[c].asked = lastForced
        \/ jwks # None /\ jwks.asked >= lastForced

Ends(c, verdict) == ~At(c, "done") /\ calls'[c].verdict = verdict

\* A token whose key the provider has published for a whole cool-down, and
\* since before the keys were asked for if it is this validation that asked,
\* is not refused for its key (_find_key), unless the last forced refresh
\* brought no document: the shared cool-down, the unlocked look at the cache
\* and the refreshes of other callers never hide a key for longer.
PublishedKeysAreFound ==
    [][\A c \in Calls :
          /\ Ends(c, "unknown_key")
          /\ calls[c].kid \in Published
          /\ publishedAt[calls[c].kid] + Cooldown <= clock
          /\ At(c, "keys_fetch") => publishedAt[calls[c].kid] < calls[c].asked
          => forcedLost]_vars

\* A key is trusted only if it was published after the document it was found
\* in was asked for, and only within the time to live of that document: a
\* withdrawn key is accepted for no longer, whichever of the two lookups and
\* whoever's request found it.
WithdrawnKeysExpire ==
    [][\A c \in Calls :
          Ends(c, "accepted") \/ Ends(c, "unscoped") =>
              LET withdrawn == withdrawnAt[calls[c].kid]
              IN  /\ clock - jwks'.stored < Ttl
                  /\ withdrawn # None => withdrawn >= jwks'.asked]_vars

\* A document is only ever replaced by one that was asked for after it had
\* been stored: slow answers do not bring old keys back.
KeysNeverGoBack ==
    [][jwks # None /\ jwks' # jwks => jwks'.asked >= jwks.stored]_vars

\* A validation is answered from one document of the provider, as young and as
\* recent as TrustedKeys promises: the lock, the two lookups, the requests that
\* fail and the refreshes of other callers cannot be told from the outside.
Asking == [c \in Calls |-> IF calls[c].pc \in {"idle", "done"} THEN None
                                                            ELSE calls[c].kid]
Told == [c \in Calls |-> calls[c].verdict]

Trust == INSTANCE TrustedKeys WITH
    now       <- clock,
    published <- publishedAt,
    withdrawn <- withdrawnAt,
    document  <- jwks,
    asking    <- Asking,
    told      <- Told

ImplementsTrustedKeys == Trust!Spec

\* Every validation ends, although one lock is shared by all of them and is
\* held across requests that may fail or be cancelled.
ValidationEnds ==
    \A c \in Calls : calls[c].pc \notin {"idle", "done"} ~> At(c, "done")

\* What fairness is worth: a coroutine that is not waiting, a request in
\* flight and a waiter of a free lock have a step to take.
CanStep(c) ==
    /\ calls[c].pc \in {"configuration", "keys"} =>
          ENABLED <<Configuration(c) \/ SigningKeys(c)>>_vars
    /\ calls[c].pc \in FetchPcs =>
          ENABLED <<ConfigurationArrives(c) \/ KeysArrive(c) \/ FetchFails(c)>>_vars
    /\ calls[c].pc \in LockPcs /\ lock = None =>
          ENABLED <<LockConfiguration(c) \/ LockKeys(c)>>_vars

NeverStuck == \A c \in Calls : CanStep(c)

SigningKeysInv ==
    /\ TypeOK
    /\ LockIsHeldToFetch
    /\ TimesAreOrdered
    /\ LocalsAreCurrent
    /\ KeysAreGenuine
    /\ ForcedRefreshIsCached

-----------------------------------------------------------------------------
\* the middleware's answer to a request under /mcp: 200 is the application's
Status(verdict) ==
    CASE verdict = "accepted" -> 200
      [] verdict = "unscoped" -> 403
      [] verdict = "unavailable" -> 503
      [] verdict \in {"invalid", "unknown_key"} -> 401

\* the refresh endpoint, when the token is the one Microsoft has just issued
RefreshOutcome(verdict) ==
    CASE verdict = "accepted" -> "rotated"
      [] verdict = "unavailable" -> "temporarily_unavailable"
      [] verdict \in {"invalid", "unknown_key", "unscoped"} -> "revoked"

\* docs/workbuddy-oauth.md:106: "A transient upstream or identity-metadata
\* outage returns temporarily_unavailable without consuming the current local
\* refresh token."  A token whose key the provider had published before the
\* last forced refresh does not revoke the session because the provider failed
\* to answer that refresh.
OutageKeepsTheSession ==
    [][\A c \in Calls :
          /\ Ends(c, "unknown_key")
          /\ forcedFailed
          /\ calls[c].kid \in Published
          /\ publishedAt[calls[c].kid] < lastForced
          => RefreshOutcome("unknown_key") # "revoked"]_vars

=============================================================================
