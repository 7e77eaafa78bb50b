------------------------- MODULE SigningKeysProofs --------------------------
(***************************************************************************)
(* Proofs about SigningKeys: the invariant is inductive, and what a step of  *)
(* a validation may never do follows from it, for any number of validations  *)
(* and keys and for every time to live and cool-down.                        *)
(***************************************************************************)
EXTENDS SigningKeys, TLAPS

USE KeysAssumption

(* Where a coroutine goes from here, with its locals.                        *)
Becomes(c, r) == calls' = [calls EXCEPT ![c] = r]

(* Every way of going on without a request of one's own.                     *)
Quiet(r) ==
    /\ r \in Call
    /\ r.pc \notin FetchPcs
    /\ r.answer = None
    /\ r.verdict # None => r.pc = "done"

LEMMA ZeroIsATime == 0 \in Time
BY DEF Time

LEMMA NoCallFacts ==
    NoCall \in Call /\ NoCall.pc = "idle" /\ NoCall.answer = None /\ NoCall.verdict = None
<1>1. (CHOOSE k \in Keys : TRUE) \in Keys
    OBVIOUS
<1> QED  BY <1>1 DEF NoCall, NewCall, Call, Time, Suspended, FetchPcs, LockPcs

LEMMA FinishedFacts ==
    ASSUME NEW verdict \in Verdicts
    PROVE  /\ Quiet(Finished(verdict))
           /\ Finished(verdict).verdict = verdict
           /\ Finished(verdict).pc = "done"
BY NoCallFacts DEF Finished, Call, Quiet, FetchPcs, Suspended, LockPcs

LEMMA GotoFacts ==
    ASSUME TypeOK, LocalsAreCurrent, NEW c \in Calls,
           calls[c].pc \notin {"done", "keys_fetch"},
           NEW pc \in {"configuration", "keys"} \cup LockPcs, Goto(c, pc)
    PROVE  \E r : Quiet(r) /\ r.verdict = None /\ Becomes(c, r)
<1> DEFINE r == [calls[c] EXCEPT !.pc = pc]
<1>1. calls[c] \in Call
    BY DEF TypeOK
<1>2. /\ r \in Call /\ r.pc = pc /\ r.answer = calls[c].answer
      /\ r.verdict = calls[c].verdict
    BY <1>1 DEF Call, Suspended
<1>3. Becomes(c, r)
    BY <1>1 DEF Goto, Becomes, TypeOK
<1> HIDE DEF r
<1>4. Quiet(r) /\ r.verdict = None
    BY <1>2 DEF Quiet, LocalsAreCurrent, At, FetchPcs, LockPcs
<1> QED  BY <1>3, <1>4

LEMMA FinishFacts ==
    ASSUME NEW c \in Calls, NEW verdict \in Verdicts, Finish(c, verdict)
    PROVE  \E r : Quiet(r) /\ r.verdict = verdict /\ Becomes(c, r)
BY FinishedFacts DEF Finish, Becomes

(* The outcomes of one lookup, and what each of them says of the document.   *)
LEMMA SearchFacts ==
    ASSUME TypeOK, LocalsAreCurrent, NEW c \in Calls, calls[c].pc # "done",
           NEW document, Search(c, document)
    PROVE  \E r : /\ Quiet(r) /\ Becomes(c, r)
                  /\ r.verdict \in {"accepted", "unscoped"} =>
                         document.keys # None /\ calls[c].kid \in document.keys
                  /\ r.verdict = "unknown_key" =>
                         /\ document.keys # None /\ calls[c].kid \notin document.keys
                         /\ calls[c].stage = "forced"
<1>1. CASE document.keys = None
  <2>1. Finish(c, "unavailable") /\ "unavailable" \in Verdicts
      BY <1>1 DEF Search, Verdicts
  <2> QED  BY <2>1, FinishFacts
<1>2. CASE document.keys # None /\ calls[c].kid \in document.keys
  <2>1. PICK verdict \in Judgements : Finish(c, verdict)
      BY <1>2 DEF Search
  <2>2. verdict \in Verdicts /\ verdict # "unknown_key"
      BY DEF Judgements, Verdicts
  <2> QED  BY <1>2, <2>1, <2>2, FinishFacts
<1>3. CASE /\ document.keys # None /\ calls[c].kid \notin document.keys
           /\ calls[c].stage = "forced"
  <2>1. Finish(c, "unknown_key") /\ "unknown_key" \in Verdicts
      BY <1>3 DEF Search, Verdicts
  <2> QED  BY <1>3, <2>1, FinishFacts
<1>4. CASE /\ document.keys # None /\ calls[c].kid \notin document.keys
           /\ calls[c].stage # "forced"
  <2> DEFINE q == [calls[c] EXCEPT !.pc = "keys", !.stage = "forced"]
             r == [q EXCEPT !.asked = 0, !.answer = None]
  <2>1. calls[c] \in Call
      BY DEF TypeOK
  <2>2. /\ q \in Call /\ q.pc = "keys" /\ q.verdict = calls[c].verdict
      BY <2>1 DEF Call
  <2>3. Becomes(c, r)
      BY <1>4 DEF Search, Becomes
  <2> HIDE DEF q
  <2>4. r \in Call /\ r.pc = "keys" /\ r.answer = None /\ r.verdict = q.verdict
      BY <2>2, ZeroIsATime DEF Call
  <2> HIDE DEF r
  <2>5. r.verdict = None
      BY <2>2, <2>4 DEF LocalsAreCurrent, At
  <2>6. Quiet(r)
      BY <2>4, <2>5 DEF Quiet, FetchPcs
  <2> QED  BY <2>3, <2>5, <2>6 DEF Verdicts
<1>5. document.keys = None \/ document.keys # None
    OBVIOUS
<1> QED  BY <1>1, <1>2, <1>3, <1>4, <1>5

LEMMA ConfiguredFacts ==
    ASSUME TypeOK, LocalsAreCurrent, NEW c \in Calls,
           calls[c].pc \notin {"done", "keys_fetch"},
           NEW doc, Configured(c, doc)
    PROVE  \E r : Quiet(r) /\ r.verdict \in {None, "unavailable"} /\ Becomes(c, r)
<1>1. CASE calls[c].stage = "metadata"
  <2> DEFINE r == [calls[c] EXCEPT !.pc = "keys", !.stage = "cached"]
  <2>1. calls[c] \in Call
      BY DEF TypeOK
  <2>2. /\ r \in Call /\ r.pc = "keys" /\ r.verdict = calls[c].verdict
        /\ r.answer = calls[c].answer
      BY <2>1 DEF Call
  <2>3. Becomes(c, r)
      BY <1>1 DEF Configured, Becomes
  <2> HIDE DEF r
  <2>4. Quiet(r) /\ r.verdict = None
      BY <2>2 DEF Quiet, LocalsAreCurrent, At, FetchPcs
  <2> QED  BY <2>3, <2>4
<1>2. CASE calls[c].stage # "metadata" /\ doc = "no_keys_url"
  <2>1. Finish(c, "unavailable") /\ "unavailable" \in Verdicts
      BY <1>2 DEF Configured, Verdicts
  <2> QED  BY <2>1, FinishFacts
<1>3. CASE calls[c].stage # "metadata" /\ doc # "no_keys_url"
  <2>1. Goto(c, "keys_lock") /\ "keys_lock" \in LockPcs
      BY <1>3 DEF Configured, LockPcs
  <2> QED  BY <2>1, GotoFacts
<1> QED  BY <1>1, <1>2, <1>3

-----------------------------------------------------------------------------
(* What a step does that ends no request with a document and begins none.    *)
Shared ==
    /\ clock \in Time
    /\ publishedAt \in [Keys -> Time \cup {None}]
    /\ withdrawnAt \in [Keys -> Time \cup {None}]
    /\ configuration \in [doc : ConfigurationDocs, stored : Time] \cup {None}
    /\ configuration # None => configuration.stored <= clock
    /\ jwks \in KeyDocument \cup {None}
    /\ lastForced \in Time \cup {None}
    /\ forcedLost \in BOOLEAN
    /\ forcedFailed \in BOOLEAN

LEMMA QuietStep ==
    ASSUME SigningKeysInv, NEW c \in Calls, NEW r, Becomes(c, r), Quiet(r),
           lock' = (IF lock = c THEN None ELSE lock),
           Shared', forcedLost => forcedLost',
           At(c, "keys_fetch") /\ calls[c].stage = "forced" => forcedLost',
           UNCHANGED <<clock, provider, jwks, lastForced>>
    PROVE  SigningKeysInv'
<1> USE DEF SigningKeysInv
<1>1. /\ calls' \in [Calls -> Call]
      /\ calls'[c] = r
      /\ \A q \in Calls \ {c} : calls'[q] = calls[q]
    BY DEF TypeOK, Becomes, Quiet
<1>2. TypeOK'
    BY <1>1 DEF TypeOK, Shared
<1>3. LockIsHeldToFetch'
  <2>1. ASSUME NEW q \in Calls
        PROVE  calls'[q].pc \in FetchPcs <=> lock' = q
    <3>1. CASE q = c
        BY <1>1, <3>1 DEF Quiet
    <3>2. CASE q # c
        BY <1>1, <3>2 DEF LockIsHeldToFetch
    <3> QED  BY <3>1, <3>2
  <2> QED  BY <2>1 DEF LockIsHeldToFetch
<1>4. \A q \in Calls : calls'[q].pc = "keys_fetch" => calls'[q] = calls[q] /\ q # c
    BY <1>1 DEF Quiet, FetchPcs
<1>5. TimesAreOrdered'
    BY <1>4 DEF TimesAreOrdered, At, Shared, provider
<1>6. LocalsAreCurrent'
    BY <1>1 DEF LocalsAreCurrent, Quiet, At
<1>7. KeysAreGenuine'
    BY <1>4 DEF KeysAreGenuine, PublishedSince, At, provider
<1>8. ForcedRefreshIsCached'
    BY <1>1 DEF ForcedRefreshIsCached, At
<1> QED  BY <1>2, <1>3, <1>5, <1>6, <1>7, <1>8

(* The steps of a coroutine that owns no request.                            *)
LEMMA SharedNow ==
    ASSUME SigningKeysInv
    PROVE  Shared
BY DEF SigningKeysInv, TypeOK, TimesAreOrdered, Shared

LEMMA NoRequest ==
    ASSUME SigningKeysInv, NEW c \in Calls, calls[c].pc \notin FetchPcs
    PROVE  lock # c /\ ~At(c, "keys_fetch")
BY DEF SigningKeysInv, LockIsHeldToFetch, At, FetchPcs

LEMMA PrivateStep ==
    ASSUME SigningKeysInv, NEW c \in Calls, calls[c].pc \notin FetchPcs,
           NEW r, Becomes(c, r), Quiet(r),
           UNCHANGED <<clock, provider, configuration, jwks, lastForced,
                       forcedLost, forcedFailed, lock>>
    PROVE  SigningKeysInv'
<1>1. lock' = (IF lock = c THEN None ELSE lock) /\ ~At(c, "keys_fetch")
    BY NoRequest
<1>2. Shared'
    BY SharedNow DEF Shared, provider
<1> QED  BY <1>1, <1>2, QuietStep

LEMMA ArriveKeeps ==
    ASSUME SigningKeysInv, NEW c \in Calls, Arrive(c)
    PROVE  SigningKeysInv'
<1>1. PICK k \in Keys : Becomes(c, [NewCall(k) EXCEPT !.pc = "configuration"])
    BY DEF Arrive, Becomes
<1> DEFINE r == [NewCall(k) EXCEPT !.pc = "configuration"]
<1>2. NewCall(k) \in Call /\ NewCall(k).answer = None /\ NewCall(k).verdict = None
    BY ZeroIsATime DEF NewCall, Call, Suspended, FetchPcs, LockPcs
<1>3. /\ r \in Call /\ r.pc = "configuration" /\ r.answer = None
      /\ r.verdict = None
    BY <1>2 DEF Call
<1> HIDE DEF r
<1>4. Quiet(r)
    BY <1>3 DEF Quiet, FetchPcs
<1>5. Becomes(c, r)
    BY <1>1 DEF r
<1> QED  BY <1>4, <1>5, PrivateStep DEF Arrive, At, FetchPcs

LEMMA RefuseKeeps ==
    ASSUME SigningKeysInv, NEW c \in Calls, Refuse(c)
    PROVE  SigningKeysInv'
<1>1. "invalid" \in Verdicts /\ calls[c].pc \notin FetchPcs
    BY DEF Verdicts, Refuse, At, FetchPcs
<1>2. PICK r : Quiet(r) /\ Becomes(c, r)
    BY <1>1, FinishFacts DEF Refuse
<1> QED  BY <1>1, <1>2, PrivateStep DEF Refuse

LEMMA AnsweredKeeps ==
    ASSUME SigningKeysInv, NEW c \in Calls, Answered(c)
    PROVE  SigningKeysInv'
<1>1. Quiet(NoCall)
    BY NoCallFacts DEF Quiet, FetchPcs
<1> QED  BY <1>1, PrivateStep DEF Answered, At, FetchPcs, Becomes

LEMMA ConfigurationKeeps ==
    ASSUME SigningKeysInv, NEW c \in Calls, Configuration(c)
    PROVE  SigningKeysInv'
<1>1. /\ TypeOK /\ LocalsAreCurrent /\ calls[c].pc = "configuration"
      /\ calls[c].pc \notin FetchPcs
    BY DEF SigningKeysInv, Configuration, At, FetchPcs
<1>2. PICK r : Quiet(r) /\ Becomes(c, r)
  <2>1. CASE Fresh(configuration)
    <3>1. Configured(c, configuration.doc)
        BY <2>1 DEF Configuration
    <3> QED  BY <1>1, <3>1, ConfiguredFacts
  <2>2. CASE ~Fresh(configuration)
    <3>1. Goto(c, "configuration_lock") /\ "configuration_lock" \in LockPcs
        BY <2>2 DEF Configuration, LockPcs
    <3> QED  BY <1>1, <3>1, GotoFacts
  <2> QED  BY <2>1, <2>2
<1> QED  BY <1>1, <1>2, PrivateStep DEF Configuration

LEMMA SigningKeysKeeps ==
    ASSUME SigningKeysInv, NEW c \in Calls, SigningKeys(c)
    PROVE  SigningKeysInv'
<1>1. /\ TypeOK /\ LocalsAreCurrent /\ calls[c].pc = "keys"
      /\ calls[c].pc \notin FetchPcs
    BY DEF SigningKeysInv, SigningKeys, At, FetchPcs
<1>2. PICK r : Quiet(r) /\ Becomes(c, r)
  <2>1. CASE calls[c].stage = "cached" /\ Fresh(jwks)
    <3>1. Search(c, jwks)
        BY <2>1 DEF SigningKeys
    <3> QED  BY <1>1, <3>1, SearchFacts
  <2>2. CASE ~(calls[c].stage = "cached" /\ Fresh(jwks))
    <3>1. Goto(c, "configuration")
        BY <2>2 DEF SigningKeys
    <3> QED  BY <1>1, <3>1, GotoFacts
  <2> QED  BY <2>1, <2>2
<1> QED  BY <1>1, <1>2, PrivateStep DEF SigningKeys

(* The steps that end a request without a document.                          *)
LEMMA InterruptedStep ==
    ASSUME SigningKeysInv, NEW c \in Calls, NEW verdict \in Verdicts,
           Finish(c, verdict), \E failed \in BOOLEAN : Losing(c, failed),
           lock' = (IF lock = c THEN None ELSE lock),
           UNCHANGED <<clock, provider, configuration, jwks, lastForced>>
    PROVE  SigningKeysInv'
<1>1. PICK r : Quiet(r) /\ Becomes(c, r)
    BY FinishFacts
<1>2. /\ forcedLost => forcedLost'
      /\ At(c, "keys_fetch") /\ calls[c].stage = "forced" => forcedLost'
      /\ forcedLost' \in BOOLEAN /\ forcedFailed' \in BOOLEAN
    BY DEF Losing, SigningKeysInv, TypeOK
<1>3. Shared'
    BY <1>2, SharedNow DEF Shared, provider
<1> QED  BY <1>1, <1>2, <1>3, QuietStep

LEMMA FetchFailsKeeps ==
    ASSUME SigningKeysInv, NEW c \in Calls, FetchFails(c)
    PROVE  SigningKeysInv'
<1>1. lock = c
    BY DEF SigningKeysInv, LockIsHeldToFetch, FetchFails
<1>2. "unavailable" \in Verdicts
    BY DEF Verdicts
<1> QED  BY <1>1, <1>2, InterruptedStep DEF FetchFails

LEMMA CancelKeeps ==
    ASSUME SigningKeysInv, NEW c \in Calls, Cancel(c)
    PROVE  SigningKeysInv'
<1>1. "cancelled" \in Verdicts
    BY DEF Verdicts
<1> QED  BY <1>1, InterruptedStep DEF Cancel

LEMMA ConfigurationArrivesKeeps ==
    ASSUME SigningKeysInv, NEW c \in Calls, ConfigurationArrives(c)
    PROVE  SigningKeysInv'
<1>1. PICK doc \in ConfigurationDocs :
        configuration' = [doc |-> doc, stored |-> clock] /\ Configured(c, doc)
    BY DEF ConfigurationArrives
<1>2. /\ TypeOK /\ LocalsAreCurrent /\ calls[c].pc = "configuration_fetch"
      /\ lock = c
    BY DEF SigningKeysInv, ConfigurationArrives, At, FetchPcs, LockIsHeldToFetch
<1>3. PICK r : Quiet(r) /\ Becomes(c, r)
    BY <1>1, <1>2, ConfiguredFacts
<1>4. Shared'
    BY <1>1, SharedNow DEF Shared, ConfigurationArrives, provider, Time
<1>5. ~At(c, "keys_fetch")
    BY <1>2 DEF At
<1> QED  BY <1>2, <1>3, <1>4, <1>5, QuietStep DEF ConfigurationArrives

(* The steps that take the lock: the document is there, or is asked for.     *)
LEMMA LockConfigurationKeeps ==
    ASSUME SigningKeysInv, NEW c \in Calls, LockConfiguration(c)
    PROVE  SigningKeysInv'
<1>1. /\ TypeOK /\ LocalsAreCurrent /\ calls[c].pc = "configuration_lock"
      /\ calls[c].pc \notin FetchPcs /\ calls[c] \in Call
    BY DEF SigningKeysInv, LockConfiguration, At, FetchPcs, TypeOK
<1>2. CASE Fresh(configuration)
  <2>1. Configured(c, configuration.doc) /\ UNCHANGED lock
      BY <1>2 DEF LockConfiguration
  <2>2. PICK r : Quiet(r) /\ Becomes(c, r)
      BY <1>1, <2>1, ConfiguredFacts
  <2> QED  BY <1>1, <2>1, <2>2, PrivateStep DEF LockConfiguration
<1>3. CASE ~Fresh(configuration)
  <2> DEFINE r == [calls[c] EXCEPT !.pc = "configuration_fetch"]
  <2>1. /\ r \in Call /\ r.pc = "configuration_fetch" /\ r.verdict = calls[c].verdict
        /\ r.answer = calls[c].answer
      BY <1>1 DEF Call, Suspended, FetchPcs
  <2>2. calls' = [calls EXCEPT ![c] = r] /\ lock = None /\ lock' = c
      BY <1>1, <1>3 DEF LockConfiguration, Goto, TypeOK
  <2> HIDE DEF r
  <2>3. /\ calls' \in [Calls -> Call] /\ calls'[c] = r
        /\ \A q \in Calls \ {c} : calls'[q] = calls[q]
        /\ \A q \in Calls : calls[q].pc \notin FetchPcs
      BY <2>1, <2>2 DEF SigningKeysInv, TypeOK, LockIsHeldToFetch
  <2>4. TypeOK' /\ LocalsAreCurrent' /\ LockIsHeldToFetch'
      BY <1>1, <2>1, <2>2, <2>3 DEF TypeOK, LockConfiguration, provider,
         LocalsAreCurrent, LockIsHeldToFetch, FetchPcs, At
  <2>5. \A q \in Calls : calls[q].pc # "keys_fetch" /\ calls'[q].pc # "keys_fetch"
      BY <2>1, <2>3 DEF FetchPcs
  <2>6. TimesAreOrdered' /\ KeysAreGenuine' /\ ForcedRefreshIsCached'
      BY <2>5 DEF SigningKeysInv, TimesAreOrdered, KeysAreGenuine, PublishedSince,
         ForcedRefreshIsCached, At, LockConfiguration, provider
  <2> QED  BY <2>4, <2>6 DEF SigningKeysInv
<1> QED  BY <1>2, <1>3

LEMMA LockKeysKeeps ==
    ASSUME SigningKeysInv, NEW c \in Calls, LockKeys(c)
    PROVE  SigningKeysInv'
<1>1. /\ TypeOK /\ LocalsAreCurrent /\ calls[c].pc = "keys_lock"
      /\ calls[c].pc \notin FetchPcs /\ calls[c] \in Call
    BY DEF SigningKeysInv, LockKeys, At, FetchPcs, TypeOK
<1>2. CASE Fresh(jwks) /\ ~RefreshAllowed(c)
  <2>1. Search(c, jwks) /\ UNCHANGED <<lock, lastForced, forcedLost, forcedFailed>>
      BY <1>2 DEF LockKeys
  <2>2. PICK r : Quiet(r) /\ Becomes(c, r)
      BY <1>1, <2>1, SearchFacts
  <2> QED  BY <1>1, <2>1, <2>2, PrivateStep DEF LockKeys
<1>3. CASE ~(Fresh(jwks) /\ ~RefreshAllowed(c))
  <2> DEFINE r == [calls[c] EXCEPT !.pc = "keys_fetch", !.asked = clock]
  <2>1. /\ r \in Call /\ r.pc = "keys_fetch" /\ r.verdict = calls[c].verdict
        /\ r.answer = None /\ r.asked = clock /\ r.stage = calls[c].stage
      BY <1>1 DEF Call, Suspended, FetchPcs, TypeOK, LocalsAreCurrent, At
  <2>2. /\ calls' = [calls EXCEPT ![c] = r] /\ lock = None /\ lock' = c
        /\ lastForced' = IF calls[c].stage = "forced" THEN clock ELSE lastForced
        /\ forcedLost' = IF calls[c].stage = "forced" THEN FALSE ELSE forcedLost
        /\ forcedFailed' = IF calls[c].stage = "forced" THEN FALSE ELSE forcedFailed
        /\ UNCHANGED <<clock, provider, configuration, jwks>>
      BY <1>1, <1>3 DEF LockKeys, AskForKeys, RecordForced
  <2> HIDE DEF r
  <2>3. /\ calls' \in [Calls -> Call] /\ calls'[c] = r
        /\ \A q \in Calls \ {c} : calls'[q] = calls[q]
        /\ \A q \in Calls : calls[q].pc \notin FetchPcs
      BY <2>1, <2>2 DEF SigningKeysInv, TypeOK, LockIsHeldToFetch
  <2>4. TypeOK' /\ LocalsAreCurrent' /\ LockIsHeldToFetch'
      BY <1>1, <2>1, <2>2, <2>3 DEF TypeOK, provider,
         LocalsAreCurrent, LockIsHeldToFetch, FetchPcs, At
  <2>5. \A q \in Calls : /\ calls[q].pc # "keys_fetch"
                         /\ calls'[q].pc = "keys_fetch" => q = c
      BY <2>1, <2>3 DEF FetchPcs
  <2>6. TimesAreOrdered'
      BY <2>1, <2>2, <2>3, <2>5 DEF SigningKeysInv, TimesAreOrdered, At, provider,
         TypeOK, Time
  <2>7. KeysAreGenuine'
      BY <2>1, <2>2, <2>3, <2>5 DEF SigningKeysInv, KeysAreGenuine, PublishedSince,
         At, provider
  <2>8. ForcedRefreshIsCached'
    <3>1. CASE calls[c].stage = "forced"
        BY <2>1, <2>2, <2>3, <3>1 DEF ForcedRefreshIsCached, At
    <3>2. CASE calls[c].stage # "forced"
        BY <2>2, <2>5, <3>2 DEF SigningKeysInv, ForcedRefreshIsCached, At
    <3> QED  BY <3>1, <3>2
  <2> QED  BY <2>4, <2>6, <2>7, <2>8 DEF SigningKeysInv
<1> QED  BY <1>2, <1>3

(* The provider answers with the keys of this moment.                        *)
LEMMA ProviderAnswersKeeps ==
    ASSUME SigningKeysInv, NEW c \in Calls, ProviderAnswers(c)
    PROVE  SigningKeysInv'
<1>1. PICK keys \in {Published, None} :
        calls' = [calls EXCEPT ![c].answer = [keys |-> keys]]
    BY DEF ProviderAnswers
<1> DEFINE r == [calls[c] EXCEPT !.answer = [keys |-> keys]]
<1>2. keys \in (SUBSET Keys) \cup {None}
  <2>1. Published \in SUBSET Keys
      BY DEF Published
  <2> QED  BY <2>1
<1>3. /\ r \in Call /\ r.pc = calls[c].pc /\ r.verdict = calls[c].verdict
      /\ r.asked = calls[c].asked /\ r.stage = calls[c].stage
      /\ r.answer = [keys |-> keys]
    BY <1>2 DEF SigningKeysInv, TypeOK, Call
<1>4. calls' = [calls EXCEPT ![c] = r]
    BY <1>1 DEF SigningKeysInv, TypeOK
<1> HIDE DEF r
<1>5. /\ calls' \in [Calls -> Call] /\ calls'[c] = r
      /\ \A q \in Calls \ {c} : calls'[q] = calls[q]
    BY <1>3, <1>4 DEF SigningKeysInv, TypeOK
<1>6. TypeOK'
    BY <1>5 DEF SigningKeysInv, TypeOK, ProviderAnswers, provider
<1>7. LocalsAreCurrent' /\ LockIsHeldToFetch'
    BY <1>3, <1>5 DEF SigningKeysInv, ProviderAnswers, LocalsAreCurrent,
       LockIsHeldToFetch, At
<1>8. TimesAreOrdered'
    BY <1>3, <1>5 DEF SigningKeysInv, ProviderAnswers, TimesAreOrdered, At, provider
<1>9. KeysAreGenuine'
  <2>1. PublishedSince(Published, calls[c].asked)
      BY DEF PublishedSince, Published
  <2> QED  BY <1>3, <1>5, <2>1 DEF SigningKeysInv, ProviderAnswers, KeysAreGenuine,
           PublishedSince, At, provider
<1>10. ForcedRefreshIsCached'
    BY <1>3, <1>5 DEF SigningKeysInv, ProviderAnswers, ForcedRefreshIsCached, At
<1> QED  BY <1>6, <1>7, <1>8, <1>9, <1>10 DEF SigningKeysInv

(* The document that arrives was asked for after the one it replaces was     *)
(* stored, by the one coroutine that had a request in flight.                *)
LEMMA KeysArriveKeeps ==
    ASSUME SigningKeysInv, NEW c \in Calls, KeysArrive(c)
    PROVE  SigningKeysInv'
<1> DEFINE document == [keys |-> calls[c].answer.keys, asked |-> calls[c].asked,
                        stored |-> clock]
<1>1. /\ TypeOK /\ LocalsAreCurrent /\ calls[c].pc = "keys_fetch"
      /\ calls[c] \in Call /\ calls[c].answer # None
      /\ jwks' = document /\ Search(c, document) /\ lock' = None
      /\ UNCHANGED <<clock, provider, configuration, lastForced, forcedLost,
                     forcedFailed>>
    BY DEF SigningKeysInv, KeysArrive, At, TypeOK
<1>2. document \in KeyDocument /\ document # None
    BY <1>1 DEF KeyDocument, Call, TypeOK
<1>3. PICK r : Quiet(r) /\ Becomes(c, r)
    BY <1>1, SearchFacts
<1>4. /\ calls' \in [Calls -> Call] /\ calls'[c] = r
      /\ \A q \in Calls \ {c} : calls'[q] = calls[q]
    BY <1>1, <1>3 DEF TypeOK, Becomes, Quiet
<1>5. \A q \in Calls : /\ calls[q].pc \in FetchPcs <=> q = c
                       /\ calls'[q].pc \notin FetchPcs
    BY <1>1, <1>3, <1>4 DEF SigningKeysInv, LockIsHeldToFetch, FetchPcs, Quiet
<1>6. \A q \in Calls : calls'[q].pc # "keys_fetch"
    BY <1>5 DEF FetchPcs
<1>7. TypeOK' /\ LocalsAreCurrent' /\ LockIsHeldToFetch'
    BY <1>1, <1>2, <1>3, <1>4, <1>5 DEF TypeOK, LocalsAreCurrent,
       LockIsHeldToFetch, Quiet, At, provider
<1>8. /\ document.asked = calls[c].asked /\ document.stored = clock
      /\ document.keys = calls[c].answer.keys
    OBVIOUS
<1> HIDE DEF document
<1>9. TimesAreOrdered'
    BY <1>1, <1>6, <1>8 DEF SigningKeysInv, TimesAreOrdered, At, provider, TypeOK, Time
<1>10. KeysAreGenuine'
    BY <1>1, <1>6, <1>8 DEF SigningKeysInv, KeysAreGenuine, PublishedSince, At, provider
<1>11. ForcedRefreshIsCached'
  <2>1. ASSUME lastForced # None, ~forcedLost
        PROVE  document.asked >= lastForced
    <3>1. CASE \E q \in Calls : /\ At(q, "keys_fetch")
                                /\ calls[q].stage = "forced"
                                /\ calls[q].asked = lastForced
        BY <1>5, <1>8, <2>1, <3>1 DEF At, FetchPcs, SigningKeysInv, TypeOK, Time
    <3>2. CASE jwks # None /\ jwks.asked >= lastForced
        BY <1>1, <1>8, <2>1, <3>2 DEF SigningKeysInv, TimesAreOrdered, TypeOK, At,
           Time, KeyDocument, Call
    <3> QED  BY <2>1, <3>1, <3>2 DEF SigningKeysInv, ForcedRefreshIsCached
  <2> QED  BY <1>1, <1>2, <2>1 DEF ForcedRefreshIsCached
<1> QED  BY <1>7, <1>9, <1>10, <1>11 DEF SigningKeysInv

(* The keys of the provider, and time.                                       *)
LEMMA PublishKeeps ==
    ASSUME SigningKeysInv, Publish
    PROVE  SigningKeysInv'
<1>1. PICK k \in Keys : publishedAt[k] = None /\ publishedAt' = [publishedAt EXCEPT ![k] = clock]
    BY DEF Publish
<1>2. /\ publishedAt'[k] = clock
      /\ \A o \in Keys \ {k} : publishedAt'[o] = publishedAt[o]
      /\ publishedAt' \in [Keys -> Time \cup {None}]
    BY <1>1 DEF SigningKeysInv, TypeOK
<1>3. TypeOK' /\ LocalsAreCurrent' /\ LockIsHeldToFetch' /\ ForcedRefreshIsCached'
    BY <1>2 DEF SigningKeysInv, TypeOK, LocalsAreCurrent, LockIsHeldToFetch,
       ForcedRefreshIsCached, At, Publish
<1>4. TimesAreOrdered'
    BY <1>1, <1>2 DEF SigningKeysInv, TypeOK, Time, TimesAreOrdered, At, Publish
<1>5. ASSUME NEW keys, NEW asked \in Time, asked <= clock, PublishedSince(keys, asked)
      PROVE  PublishedSince(keys, asked)'
  <2>1. k \notin keys
      BY <1>1, <1>5 DEF PublishedSince
  <2>2. \A o \in keys : publishedAt'[o] = publishedAt[o]
      BY <1>1, <2>1 DEF SigningKeysInv, TypeOK
  <2>3. clock >= asked
      BY <1>5 DEF Time, SigningKeysInv, TypeOK
  <2> QED  BY <1>2, <1>5, <2>1, <2>2, <2>3 DEF PublishedSince, Publish
<1>6. KeysAreGenuine'
  <2>1. /\ jwks # None => jwks.asked \in Time /\ jwks.asked <= clock
        /\ \A c \in Calls : At(c, "keys_fetch") => /\ calls[c].asked \in Time
                                                   /\ calls[c].asked <= clock
      BY DEF SigningKeysInv, TypeOK, TimesAreOrdered, KeyDocument, Call, Time
  <2> QED  BY <1>5, <2>1 DEF KeysAreGenuine, SigningKeysInv, Publish, At
<1> QED  BY <1>3, <1>4, <1>6 DEF SigningKeysInv

LEMMA WithdrawKeeps ==
    ASSUME SigningKeysInv, Withdraw
    PROVE  SigningKeysInv'
<1>1. PICK k \in Published : withdrawnAt' = [withdrawnAt EXCEPT ![k] = clock]
    BY DEF Withdraw
<1>2. /\ withdrawnAt'[k] = clock /\ k \in Keys /\ publishedAt[k] # None
      /\ \A o \in Keys \ {k} : withdrawnAt'[o] = withdrawnAt[o]
      /\ withdrawnAt' \in [Keys -> Time \cup {None}]
    BY <1>1 DEF SigningKeysInv, TypeOK, Published
<1>3. TypeOK' /\ LocalsAreCurrent' /\ LockIsHeldToFetch' /\ ForcedRefreshIsCached'
    BY <1>2 DEF SigningKeysInv, TypeOK, LocalsAreCurrent, LockIsHeldToFetch,
       ForcedRefreshIsCached, At, Withdraw
<1>4. TimesAreOrdered'
    BY <1>1, <1>2 DEF SigningKeysInv, TypeOK, Time, TimesAreOrdered, At, Withdraw
<1>5. ASSUME NEW keys \in SUBSET Keys, NEW asked \in Time, asked <= clock,
             PublishedSince(keys, asked)
      PROVE  PublishedSince(keys, asked)'
  <2>1. clock >= asked /\ clock # None
      BY <1>5 DEF Time, SigningKeysInv, TypeOK
  <2> QED  BY <1>2, <1>5, <2>1 DEF PublishedSince, Withdraw
<1>6. KeysAreGenuine'
  <2>1. /\ jwks # None => /\ jwks.asked \in Time /\ jwks.asked <= clock
                          /\ jwks.keys \in (SUBSET Keys) \cup {None}
        /\ \A c \in Calls : At(c, "keys_fetch") => /\ calls[c].asked \in Time
                                                   /\ calls[c].asked <= clock
        /\ \A c \in Calls : calls[c].answer # None =>
               calls[c].answer.keys \in (SUBSET Keys) \cup {None}
      BY DEF SigningKeysInv, TypeOK, TimesAreOrdered, KeyDocument, Call, Time
  <2>2. (jwks # None /\ jwks.keys # None => PublishedSince(jwks.keys, jwks.asked))'
      BY <1>5, <2>1 DEF KeysAreGenuine, SigningKeysInv, Withdraw
  <2>3. ASSUME NEW c \in Calls,
               At(c, "keys_fetch"), calls[c].answer # None, calls[c].answer.keys # None
        PROVE  PublishedSince(calls[c].answer.keys, calls[c].asked)'
    <3>1. PublishedSince(calls[c].answer.keys, calls[c].asked)
        BY <2>3 DEF KeysAreGenuine, SigningKeysInv
    <3>2. PublishedSince(calls[c].answer.keys, calls[c].asked)'
        BY <1>2, <2>1, <2>3, <3>1 DEF PublishedSince, Withdraw, SigningKeysInv,
           TypeOK, Time
    <3> QED  BY <3>2
  <2> QED  BY <2>2, <2>3 DEF KeysAreGenuine, Withdraw, At
<1> QED  BY <1>3, <1>4, <1>6 DEF SigningKeysInv

LEMMA TickKeeps ==
    ASSUME SigningKeysInv, Tick
    PROVE  SigningKeysInv'
<1>1. clock' = clock + 1 /\ clock' \in Time /\ clock \in Nat
    BY DEF SigningKeysInv, TypeOK, Tick, Time
<1>2. TypeOK' /\ LocalsAreCurrent' /\ LockIsHeldToFetch' /\ ForcedRefreshIsCached'
    BY <1>1 DEF SigningKeysInv, TypeOK, LocalsAreCurrent, LockIsHeldToFetch,
       ForcedRefreshIsCached, At, Tick, provider
<1>3. TimesAreOrdered'
    BY <1>1 DEF SigningKeysInv, TypeOK, Time, TimesAreOrdered, At, Tick, provider,
       KeyDocument, Call
<1>4. KeysAreGenuine'
    BY DEF SigningKeysInv, KeysAreGenuine, PublishedSince, At, Tick, provider
<1> QED  BY <1>2, <1>3, <1>4 DEF SigningKeysInv

-----------------------------------------------------------------------------
LEMMA InitSigningKeysInv == Init => SigningKeysInv
<1> SUFFICES ASSUME Init PROVE SigningKeysInv
    OBVIOUS
<1>1. TypeOK
    BY NoCallFacts, ZeroIsATime DEF Init, TypeOK
<1>2. LocalsAreCurrent /\ LockIsHeldToFetch
    BY NoCallFacts DEF Init, LocalsAreCurrent, LockIsHeldToFetch, FetchPcs
<1>3. TimesAreOrdered
    BY NoCallFacts DEF Init, TimesAreOrdered, At
<1>4. KeysAreGenuine /\ ForcedRefreshIsCached
    BY NoCallFacts DEF Init, KeysAreGenuine, ForcedRefreshIsCached, At
<1> QED  BY <1>1, <1>2, <1>3, <1>4 DEF SigningKeysInv

LEMMA NextSigningKeysInv == SigningKeysInv /\ [Next]_vars => SigningKeysInv'
<1> SUFFICES ASSUME SigningKeysInv, [Next]_vars PROVE SigningKeysInv'
    OBVIOUS
<1>1. ASSUME NEW c \in Calls,
             \/ Arrive(c) \/ Refuse(c) \/ Answered(c) \/ Cancel(c)
             \/ ProviderAnswers(c)
      PROVE  SigningKeysInv'
    BY <1>1, ArriveKeeps, RefuseKeeps, AnsweredKeeps, CancelKeeps,
       ProviderAnswersKeeps
<1>2. ASSUME NEW c \in Calls, Step(c)
      PROVE  SigningKeysInv'
    BY <1>2, ConfigurationKeeps, LockConfigurationKeeps,
       ConfigurationArrivesKeeps, SigningKeysKeeps, LockKeysKeeps,
       KeysArriveKeeps, FetchFailsKeeps DEF Step
<1>3. CASE UNCHANGED vars
    BY <1>3 DEF vars, SigningKeysInv, TypeOK, LocalsAreCurrent, LockIsHeldToFetch,
       TimesAreOrdered, KeysAreGenuine, PublishedSince, ForcedRefreshIsCached, At
<1> QED  BY <1>1, <1>2, <1>3, PublishKeeps, WithdrawKeeps, TickKeeps DEF Next

(* The lock is held for the request of one coroutine, what is cached was     *)
(* published after it was asked for, and a forced refresh of the last        *)
(* cool-down is in flight, in the cache or lost (OidcDocumentProvider).      *)
THEOREM SigningKeysInvariant == Spec => []SigningKeysInv
BY InitSigningKeysInv, NextSigningKeysInv, PTL DEF Spec

-----------------------------------------------------------------------------
(* A verdict about a key is passed where a document is searched.             *)
KeyVerdicts == {"accepted", "unscoped", "unknown_key"}

SearchedBy(c) ==
    \/ /\ SigningKeys(c) /\ calls[c].stage = "cached" /\ Fresh(jwks)
       /\ Search(c, jwks)
    \/ /\ LockKeys(c) /\ Fresh(jwks) /\ ~RefreshAllowed(c)
       /\ Search(c, jwks)
    \/ KeysArrive(c) /\ Search(c, jwks')

LEMMA OthersAreLeftAlone ==
    ASSUME TypeOK, NEW c \in Calls, NEW q \in Calls, q # c,
           \/ Arrive(q) \/ Refuse(q) \/ Answered(q) \/ Cancel(q)
           \/ ProviderAnswers(q) \/ Step(q)
    PROVE  calls'[c] = calls[c]
<1>0. calls \in [Calls -> Call]
    BY DEF TypeOK
<1>1. CASE Arrive(q) \/ Refuse(q) \/ Answered(q) \/ Cancel(q) \/ FetchFails(q)
    BY <1>0, <1>1 DEF Arrive, Refuse, Answered, Cancel, FetchFails, Finish
<1>2. CASE ProviderAnswers(q)
    BY <1>0, <1>2 DEF ProviderAnswers
<1>3. ASSUME NEW document, Search(q, document)
      PROVE  calls'[c] = calls[c]
    BY <1>0, <1>3 DEF Search, Finish
<1>4. ASSUME NEW doc, Configured(q, doc)
      PROVE  calls'[c] = calls[c]
    BY <1>0, <1>4 DEF Configured, Finish, Goto
<1>5. CASE Configuration(q) \/ LockConfiguration(q) \/ ConfigurationArrives(q)
    BY <1>0, <1>4, <1>5 DEF Configuration, LockConfiguration, ConfigurationArrives, Goto
<1>6. CASE SigningKeys(q) \/ LockKeys(q) \/ KeysArrive(q)
    BY <1>0, <1>3, <1>6 DEF SigningKeys, LockKeys, KeysArrive, Goto, AskForKeys
<1> QED  BY <1>1, <1>2, <1>5, <1>6 DEF Step

LEMMA Becoming ==
    ASSUME TypeOK, NEW c \in Calls, NEW r, Becomes(c, r)
    PROVE  calls'[c] = r
BY DEF TypeOK, Becomes

LEMMA KeyVerdictsAreFound ==
    ASSUME SigningKeysInv, [Next]_vars, NEW c \in Calls, ~At(c, "done"),
           calls'[c].verdict \in KeyVerdicts
    PROVE  SearchedBy(c)
<1>1. /\ TypeOK /\ LocalsAreCurrent /\ calls[c].pc # "done"
      /\ calls[c] \in Call /\ calls[c].verdict = None
      /\ None \notin KeyVerdicts
    BY DEF SigningKeysInv, TypeOK, LocalsAreCurrent, At, KeyVerdicts, Verdicts
<1>2. calls'[c] # calls[c]
    BY <1>1
<1>3. \/ Arrive(c) \/ Refuse(c) \/ Answered(c) \/ Cancel(c)
      \/ ProviderAnswers(c) \/ Step(c)
  <2>1. ~Publish /\ ~Withdraw /\ ~Tick /\ ~UNCHANGED vars
      BY <1>2 DEF vars, Publish, Withdraw, Tick
  <2>2. PICK q \in Calls : \/ Arrive(q) \/ Refuse(q) \/ Answered(q) \/ Cancel(q)
                           \/ ProviderAnswers(q) \/ Step(q)
      BY <2>1 DEF Next
  <2>3. q = c
      BY <1>1, <1>2, <2>2, OthersAreLeftAlone
  <2> QED  BY <2>2, <2>3
<1>4. ASSUME NEW verdict \in Verdicts \ KeyVerdicts, Finish(c, verdict)
      PROVE  FALSE
  <2>1. calls'[c].verdict = verdict
      BY <1>1, <1>4, FinishFacts, Becoming
  <2> QED  BY <2>1
<1>5. ASSUME NEW pc, Goto(c, pc)
      PROVE  FALSE
    BY <1>1, <1>5 DEF Goto, TypeOK, Call
<1>6. ASSUME NEW doc, Configured(c, doc)
      PROVE  FALSE
  <2>1. calls[c].stage = "metadata"
         \/ (calls[c].stage # "metadata" /\ doc = "no_keys_url" /\ Finish(c, "unavailable"))
         \/ Goto(c, "keys_lock")
      BY <1>6 DEF Configured
  <2>2. calls[c].stage # "metadata"
    <3> SUFFICES ASSUME calls[c].stage = "metadata" PROVE FALSE
        OBVIOUS
    <3> DEFINE r == [calls[c] EXCEPT !.pc = "keys", !.stage = "cached"]
    <3>1. Becomes(c, r)
        BY <1>6 DEF Configured, Becomes
    <3>2. r.verdict = None
        BY <1>1 DEF Call
    <3> HIDE DEF r
    <3> QED  BY <1>1, <3>1, <3>2, Becoming
  <2>3. "unavailable" \in Verdicts \ KeyVerdicts
      BY DEF Verdicts, KeyVerdicts
  <2> QED  BY <1>4, <1>5, <2>1, <2>2, <2>3
<1>7. ~Refuse(c) /\ ~Cancel(c) /\ ~FetchFails(c)
  <2>1. {"invalid", "cancelled", "unavailable"} \subseteq Verdicts \ KeyVerdicts
      BY DEF Verdicts, KeyVerdicts
  <2> QED  BY <1>4, <2>1 DEF Refuse, Cancel, FetchFails
<1>8. ~Arrive(c)
  <2> SUFFICES ASSUME NEW k \in Keys,
                      Becomes(c, [NewCall(k) EXCEPT !.pc = "configuration"])
               PROVE  FALSE
      BY DEF Arrive, Becomes
  <2>1. NewCall(k).verdict = None /\ [NewCall(k) EXCEPT !.pc = "configuration"].verdict = None
      BY DEF NewCall
  <2> QED  BY <1>1, <2>1, Becoming
<1>9. ~ProviderAnswers(c) /\ ~Answered(c)
  <2>1. ~Answered(c)
      BY <1>1 DEF Answered, At
  <2>2. ~ProviderAnswers(c)
      BY <1>1 DEF ProviderAnswers, TypeOK, Call
  <2> QED  BY <2>1, <2>2
<1>10. ~Configuration(c) /\ ~LockConfiguration(c) /\ ~ConfigurationArrives(c)
    BY <1>5, <1>6 DEF Configuration, LockConfiguration, ConfigurationArrives
<1>11. ASSUME AskForKeys(c)
       PROVE  FALSE
  <2> DEFINE r == [calls[c] EXCEPT !.pc = "keys_fetch", !.asked = clock]
  <2>1. Becomes(c, r)
      BY <1>11 DEF AskForKeys, Becomes
  <2>2. r.verdict = None
      BY <1>1 DEF Call
  <2> HIDE DEF r
  <2> QED  BY <1>1, <2>1, <2>2, Becoming
<1>12. CASE SigningKeys(c)
    BY <1>5, <1>12 DEF SigningKeys, SearchedBy
<1>13. CASE LockKeys(c)
    BY <1>11, <1>13 DEF LockKeys, SearchedBy
<1>14. CASE KeysArrive(c)
    BY <1>14 DEF KeysArrive, SearchedBy
<1> QED  BY <1>3, <1>7, <1>8, <1>9, <1>10, <1>12, <1>13, <1>14 DEF Step

(* What a search finds in the document, from its verdict.                    *)
LEMMA Found ==
    ASSUME SigningKeysInv, NEW c \in Calls, ~At(c, "done"),
           NEW document, Search(c, document)
    PROVE  /\ calls'[c].verdict \in {"accepted", "unscoped"} =>
                  document.keys # None /\ calls[c].kid \in document.keys
           /\ calls'[c].verdict = "unknown_key" =>
                  /\ document.keys # None /\ calls[c].kid \notin document.keys
                  /\ calls[c].stage = "forced"
<1>1. TypeOK /\ LocalsAreCurrent /\ calls[c].pc # "done"
    BY DEF SigningKeysInv, At
<1> QED  BY <1>1, SearchFacts, Becoming

-----------------------------------------------------------------------------
(* Keys are trusted within the time to live of the document they were in,    *)
(* and not when they were withdrawn before it was asked for (JwtValidator,   *)
(* OidcDocumentProvider).                                                    *)
THEOREM WithdrawnKeysExpireHolds == Spec => WithdrawnKeysExpire
<1>1. ASSUME SigningKeysInv, [Next]_vars, NEW c \in Calls,
             Ends(c, "accepted") \/ Ends(c, "unscoped")
      PROVE  /\ clock - jwks'.stored < Ttl
             /\ withdrawnAt[calls[c].kid] # None =>
                    withdrawnAt[calls[c].kid] >= jwks'.asked
  <2>1. /\ ~At(c, "done") /\ calls'[c].verdict \in {"accepted", "unscoped"}
        /\ SearchedBy(c)
      BY <1>1, KeyVerdictsAreFound DEF Ends, KeyVerdicts
  <2>2. CASE Fresh(jwks) /\ Search(c, jwks) /\ jwks' = jwks
    <3>1. jwks # None /\ jwks.keys # None /\ calls[c].kid \in jwks.keys
        BY <1>1, <2>1, <2>2, Found DEF Fresh
    <3> QED  BY <1>1, <2>2, <3>1 DEF SigningKeysInv, KeysAreGenuine, PublishedSince, Fresh
  <2>3. CASE KeysArrive(c) /\ Search(c, jwks')
    <3>1. jwks'.keys # None /\ calls[c].kid \in jwks'.keys
        BY <1>1, <2>1, <2>3, Found
    <3>2. /\ jwks'.keys = calls[c].answer.keys /\ jwks'.asked = calls[c].asked
          /\ jwks'.stored = clock /\ At(c, "keys_fetch") /\ calls[c].answer # None
        BY <2>3 DEF KeysArrive
    <3> QED  BY <1>1, <3>1, <3>2 DEF SigningKeysInv, KeysAreGenuine, PublishedSince,
             TypeOK, Time
  <2> QED  BY <2>1, <2>2, <2>3 DEF SearchedBy, SigningKeys, LockKeys
<1>2. SigningKeysInv /\ [Next]_vars =>
        [\A c \in Calls :
           Ends(c, "accepted") \/ Ends(c, "unscoped") =>
               LET withdrawn == withdrawnAt[calls[c].kid]
               IN  /\ clock - jwks'.stored < Ttl
                   /\ withdrawn # None => withdrawn >= jwks'.asked]_vars
    BY <1>1
<1> QED  BY <1>2, SigningKeysInvariant, PTL DEF Spec, WithdrawnKeysExpire

(* A key that has been published for a cool-down is found, unless the last   *)
(* forced refresh brought no document (OidcDocumentProvider.signing_keys).   *)
THEOREM PublishedKeysAreFoundHolds == Spec => PublishedKeysAreFound
<1>1. ASSUME SigningKeysInv, [Next]_vars, NEW c \in Calls,
             Ends(c, "unknown_key"), calls[c].kid \in Published,
             publishedAt[calls[c].kid] + Cooldown <= clock,
             At(c, "keys_fetch") => publishedAt[calls[c].kid] < calls[c].asked
      PROVE  forcedLost
  <2>1. /\ ~At(c, "done") /\ calls'[c].verdict = "unknown_key" /\ SearchedBy(c)
      BY <1>1, KeyVerdictsAreFound DEF Ends, KeyVerdicts
  <2>2. /\ calls[c].kid \in Keys /\ publishedAt[calls[c].kid] \in Nat
        /\ withdrawnAt[calls[c].kid] = None /\ clock \in Nat
      BY <1>1 DEF Published, SigningKeysInv, TypeOK, Time
  <2>3. CASE SigningKeys(c) /\ calls[c].stage = "cached" /\ Search(c, jwks)
      BY <1>1, <2>1, <2>3, Found
  <2>4. CASE LockKeys(c) /\ Fresh(jwks) /\ ~RefreshAllowed(c) /\ Search(c, jwks)
    <3>1. /\ jwks # None /\ jwks.keys # None /\ calls[c].kid \notin jwks.keys
          /\ calls[c].stage = "forced"
        BY <1>1, <2>1, <2>4, Found DEF Fresh
    <3>2. lastForced # None /\ clock - lastForced < Cooldown /\ lastForced \in Nat
        BY <1>1, <2>2, <2>4, <3>1 DEF RefreshAllowed, SigningKeysInv, TypeOK, Time
    <3>3. jwks.asked \in Nat /\ publishedAt[calls[c].kid] >= jwks.asked
        BY <1>1, <2>2, <3>1 DEF SigningKeysInv, KeysAreGenuine, PublishedSince,
           TypeOK, KeyDocument, Time
    <3>4. \A q \in Calls : ~At(q, "keys_fetch")
        BY <1>1, <2>4 DEF LockKeys, SigningKeysInv, LockIsHeldToFetch, At, FetchPcs
    <3> QED  BY <1>1, <2>2, <3>2, <3>3, <3>4 DEF SigningKeysInv, ForcedRefreshIsCached
  <2>5. CASE KeysArrive(c) /\ Search(c, jwks')
    <3>1. jwks'.keys # None /\ calls[c].kid \notin jwks'.keys
        BY <1>1, <2>1, <2>5, Found
    <3>2. /\ jwks'.keys = calls[c].answer.keys /\ At(c, "keys_fetch")
          /\ calls[c].answer # None
        BY <2>5 DEF KeysArrive
    <3>3. publishedAt[calls[c].kid] >= calls[c].asked /\ calls[c].asked \in Nat
        BY <1>1, <2>2, <3>1, <3>2 DEF SigningKeysInv, KeysAreGenuine, PublishedSince,
           TypeOK, Call, Time
    <3> QED  BY <1>1, <2>2, <3>2, <3>3
  <2> QED  BY <2>1, <2>3, <2>4, <2>5 DEF SearchedBy
<1>2. SigningKeysInv /\ [Next]_vars =>
        [\A c \in Calls :
          /\ Ends(c, "unknown_key")
          /\ calls[c].kid \in Published
          /\ publishedAt[calls[c].kid] + Cooldown <= clock
          /\ At(c, "keys_fetch") => publishedAt[calls[c].kid] < calls[c].asked
          => forcedLost]_vars
    BY <1>1
<1> QED  BY <1>2, SigningKeysInvariant, PTL DEF Spec, PublishedKeysAreFound

(* Slow answers do not bring old keys back (OidcDocumentProvider._lock).     *)
THEOREM KeysNeverGoBackHolds == Spec => KeysNeverGoBack
<1>1. ASSUME SigningKeysInv, [Next]_vars, jwks # None, jwks' # jwks
      PROVE  jwks'.asked >= jwks.stored
  <2>1. PICK c \in Calls : KeysArrive(c)
      BY <1>1 DEF Next, vars, Arrive, Refuse, Answered, Cancel, ProviderAnswers, Step,
         Configuration, LockConfiguration, ConfigurationArrives, SigningKeys, LockKeys,
         FetchFails, Publish, Withdraw, Tick
  <2>2. jwks'.asked = calls[c].asked /\ At(c, "keys_fetch")
      BY <2>1 DEF KeysArrive
  <2> QED  BY <1>1, <2>2 DEF SigningKeysInv, TimesAreOrdered, TypeOK, KeyDocument,
           Call, Time
<1>2. SigningKeysInv /\ [Next]_vars =>
        [jwks # None /\ jwks' # jwks => jwks'.asked >= jwks.stored]_vars
    BY <1>1
<1> QED  BY <1>2, SigningKeysInvariant, PTL DEF Spec, KeysNeverGoBack

-----------------------------------------------------------------------------
(* The refinement: what a caller can tell of the steps of its validation.    *)

Awake(c) == calls[c].pc \notin {"idle", "done"}
Silent == UNCHANGED <<Asking, Told>>
Tells(c, verdict) ==
    /\ Asking' = [Asking EXCEPT ![c] = None]
    /\ Told' = [Told EXCEPT ![c] = verdict]
Still == UNCHANGED <<clock, provider, jwks>>

LEMMA AwakeAsks ==
    ASSUME TypeOK, LocalsAreCurrent, NEW c \in Calls, Awake(c)
    PROVE  Asking[c] = calls[c].kid /\ Asking[c] # None /\ Told[c] = None
BY DEF Awake, Asking, Told, TypeOK, Call, LocalsAreCurrent, At

LEMMA IdleAsksNothing ==
    ASSUME TypeOK, LocalsAreCurrent, NEW c \in Calls, At(c, "idle")
    PROVE  Asking[c] = None /\ Told[c] = None
BY DEF At, Asking, Told, LocalsAreCurrent

LEMMA SilentStep ==
    ASSUME TypeOK, NEW c \in Calls, Awake(c), NEW r, Becomes(c, r),
           r.pc \notin {"idle", "done"}, r.kid = calls[c].kid,
           r.verdict = calls[c].verdict
    PROVE  Silent
<1>1. \A q \in Calls : calls'[q] = IF q = c THEN r ELSE calls[q]
    BY DEF TypeOK, Becomes
<1>2. Asking' = Asking
    BY <1>1 DEF Asking, Awake
<1>3. Told' = Told
    BY <1>1 DEF Told
<1> QED  BY <1>2, <1>3 DEF Silent

LEMMA FinishTells ==
    ASSUME TypeOK, NEW c \in Calls, NEW verdict \in Verdicts, Finish(c, verdict)
    PROVE  Tells(c, verdict)
<1>1. \A q \in Calls : calls'[q] = IF q = c THEN Finished(verdict) ELSE calls[q]
    BY DEF TypeOK, Finish
<1>2. Finished(verdict).pc = "done" /\ Finished(verdict).verdict = verdict
    BY FinishedFacts
<1>3. Asking' = [Asking EXCEPT ![c] = None]
    BY <1>1, <1>2 DEF Asking
<1>4. Told' = [Told EXCEPT ![c] = verdict]
    BY <1>1, <1>2 DEF Told
<1> QED  BY <1>3, <1>4 DEF Tells

LEMMA GotoIsSilent ==
    ASSUME TypeOK, NEW c \in Calls, Awake(c),
           NEW pc \in {"configuration", "keys"} \cup Suspended, Goto(c, pc)
    PROVE  Silent
<1> DEFINE r == [calls[c] EXCEPT !.pc = pc]
<1>1. calls[c] \in Call /\ Becomes(c, r)
    BY DEF TypeOK, Goto, Becomes
<1>2. r.pc = pc /\ r.kid = calls[c].kid /\ r.verdict = calls[c].verdict
    BY <1>1 DEF Call
<1>3. pc \notin {"idle", "done"}
    BY DEF Suspended, FetchPcs, LockPcs
<1> HIDE DEF r
<1> QED  BY <1>1, <1>2, <1>3, SilentStep

(* A caller that needs no document is told without one.                      *)
LEMMA ConfiguredTells ==
    ASSUME TypeOK, NEW c \in Calls, Awake(c), NEW doc, Configured(c, doc)
    PROVE  Silent \/ Tells(c, "unavailable")
<1>1. CASE calls[c].stage = "metadata"
  <2> DEFINE r == [calls[c] EXCEPT !.pc = "keys", !.stage = "cached"]
  <2>1. calls[c] \in Call /\ Becomes(c, r)
      BY <1>1 DEF TypeOK, Configured, Becomes
  <2>2. r.pc = "keys" /\ r.kid = calls[c].kid /\ r.verdict = calls[c].verdict
      BY <2>1 DEF Call
  <2> HIDE DEF r
  <2> QED  BY <2>1, <2>2, SilentStep
<1>2. CASE calls[c].stage # "metadata" /\ doc = "no_keys_url"
    BY <1>2, FinishTells DEF Configured, Verdicts
<1>3. CASE calls[c].stage # "metadata" /\ doc # "no_keys_url"
    BY <1>3, GotoIsSilent DEF Configured, Suspended, LockPcs
<1> QED  BY <1>1, <1>2, <1>3

(* What a lookup tells the caller, by what the document says.                *)
Judges(c, verdict, document) ==
    \/ verdict = "unavailable"
    \/ /\ verdict \in Trust!Judged
       /\ document.keys # None /\ calls[c].kid \in document.keys
    \/ /\ verdict = "unknown_key"
       /\ document.keys # None /\ calls[c].kid \notin document.keys

LEMMA SearchTells ==
    ASSUME TypeOK, NEW c \in Calls, Awake(c), NEW document, Search(c, document)
    PROVE  \/ Silent
           \/ \E verdict \in Verdicts :
                 Tells(c, verdict) /\ Judges(c, verdict, document)
<1>1. CASE document.keys = None
    BY <1>1, FinishTells DEF Search, Verdicts, Judges
<1>2. CASE document.keys # None /\ calls[c].kid \in document.keys
  <2>1. PICK verdict \in Judgements : Finish(c, verdict)
      BY <1>2 DEF Search
  <2>2. verdict \in Verdicts /\ verdict \in Trust!Judged \cup {"unavailable"}
      BY DEF Judgements, Verdicts, Trust!Judged
  <2> QED  BY <1>2, <2>1, <2>2, FinishTells DEF Judges
<1>3. CASE /\ document.keys # None /\ calls[c].kid \notin document.keys
           /\ calls[c].stage = "forced"
    BY <1>3, FinishTells DEF Search, Verdicts, Judges
<1>4. CASE /\ document.keys # None /\ calls[c].kid \notin document.keys
           /\ calls[c].stage # "forced"
  <2> DEFINE r == [calls[c] EXCEPT !.pc = "keys", !.stage = "forced",
                                   !.asked = 0, !.answer = None]
  <2>1. calls[c] \in Call /\ Becomes(c, r)
      BY <1>4 DEF TypeOK, Search, Becomes
  <2>2. r.pc = "keys" /\ r.kid = calls[c].kid /\ r.verdict = calls[c].verdict
      BY <2>1 DEF Call
  <2> HIDE DEF r
  <2> QED  BY <2>1, <2>2, SilentStep
<1> QED  BY <1>1, <1>2, <1>3, <1>4

(* From what a caller is told to the step of the abstract specification.     *)
LEMMA ToldWithoutDocument ==
    ASSUME SigningKeysInv, NEW c \in Calls, Awake(c),
           NEW verdict \in Trust!Unanswered, Tells(c, verdict), Still
    PROVE  Trust!Next
<1>1. Asking[c] # None
    BY AwakeAsks DEF SigningKeysInv
<1>2. Trust!Tell(c, verdict)
    BY <1>1 DEF Trust!Tell, Tells, Still, provider
<1> QED  BY <1>2 DEF Trust!Next

LEMMA ToldFromDocument ==
    ASSUME SigningKeysInv, NEW c \in Calls, Awake(c), NEW verdict \in Verdicts,
           Tells(c, verdict), Judges(c, verdict, jwks'),
           jwks' # None, clock - jwks'.stored < Ttl,
           jwks' = jwks \/ Trust!Renewed, UNCHANGED <<clock, provider>>
    PROVE  Trust!Next
<1>1. Asking[c] # None /\ Asking[c] = calls[c].kid
    BY AwakeAsks DEF SigningKeysInv
<1>2. \/ verdict \in Trust!Unanswered
      \/ verdict \in Trust!Judged /\ Trust!Answering /\ Asking[c] \in jwks'.keys
      \/ verdict = "unknown_key" /\ Trust!Answering /\ Asking[c] \notin jwks'.keys
    BY <1>1 DEF Judges, Trust!Unanswered, Trust!Answering
<1>3. Trust!Tell(c, verdict)
    BY <1>1, <1>2 DEF Trust!Tell, Tells, provider
<1>4. verdict \in Trust!Judged \cup Trust!Unanswered \cup {"unknown_key"}
    BY <1>2
<1> QED  BY <1>3, <1>4 DEF Trust!Next

LEMMA SilentStutters ==
    ASSUME Silent, Still
    PROVE  UNCHANGED Trust!vars
BY DEF Silent, Still, provider, Trust!vars

LEMMA LookupStep ==
    ASSUME SigningKeysInv, NEW c \in Calls, Awake(c), Fresh(jwks),
           Search(c, jwks), Still
    PROVE  [Trust!Next]_(Trust!vars)
<1>1. CASE Silent
    BY <1>1, SilentStutters
<1>2. ASSUME NEW verdict \in Verdicts, Tells(c, verdict), Judges(c, verdict, jwks)
      PROVE  Trust!Next
  <2>1. jwks' = jwks
      BY DEF Still
  <2>2. /\ Judges(c, verdict, jwks') /\ jwks' # None
        /\ clock - jwks'.stored < Ttl
      BY <1>2, <2>1 DEF Fresh
  <2> QED  BY <1>2, <2>1, <2>2, ToldFromDocument DEF Still
<1> QED  BY <1>1, <1>2, SearchTells DEF SigningKeysInv

(* A document that arrives is younger than the one it replaces.              *)
LEMMA ArrivalRenews ==
    ASSUME SigningKeysInv, NEW c \in Calls, KeysArrive(c)
    PROVE  /\ Trust!Renewed /\ jwks' # None /\ clock - jwks'.stored < Ttl
           /\ Search(c, jwks')
<1> DEFINE keys == calls[c].answer.keys
           asked == calls[c].asked
<1>1. /\ jwks' = [keys |-> keys, asked |-> asked, stored |-> clock]
      /\ Search(c, jwks') /\ At(c, "keys_fetch") /\ calls[c].answer # None
    BY DEF KeysArrive
<1>2. calls[c] \in Call /\ clock \in Time
    BY DEF SigningKeysInv, TypeOK
<1>3. keys \in (SUBSET Keys) \cup {None} /\ asked \in Time /\ clock \in Nat
    BY <1>1, <1>2 DEF Call, Time
<1>4. asked <= clock /\ (jwks # None => jwks.stored <= asked)
    BY <1>1 DEF SigningKeysInv, TimesAreOrdered
<1>5. keys # None => PublishedSince(keys, asked)
    BY <1>1 DEF SigningKeysInv, KeysAreGenuine
<1>6. jwks' \in KeyDocument /\ jwks'.stored = clock
    BY <1>1, <1>2, <1>3 DEF KeyDocument
<1> HIDE DEF keys, asked
<1>7. asked \in 0 .. clock
    BY <1>3, <1>4 DEF Time
<1>8. Trust!Renewed
    BY <1>1, <1>3, <1>4, <1>5, <1>7 DEF Trust!Renewed, PublishedSince, Trust!PublishedSince
<1> QED  BY <1>1, <1>3, <1>6, <1>8

LEMMA ArrivalStep ==
    ASSUME SigningKeysInv, NEW c \in Calls, KeysArrive(c)
    PROVE  Trust!Next
<1>1. /\ Trust!Renewed /\ jwks' # None /\ clock - jwks'.stored < Ttl
      /\ Search(c, jwks')
    BY ArrivalRenews
<1>2. Awake(c) /\ TypeOK /\ UNCHANGED <<clock, provider>>
    BY DEF KeysArrive, Awake, At, SigningKeysInv
<1>3. CASE Silent
    BY <1>1, <1>2, <1>3 DEF Trust!Next, Trust!Renew, Silent, provider
<1>4. ASSUME NEW verdict \in Verdicts, Tells(c, verdict), Judges(c, verdict, jwks')
      PROVE  Trust!Next
    BY <1>1, <1>2, <1>4, ToldFromDocument
<1>5. \/ Silent
      \/ \E verdict \in Verdicts : Tells(c, verdict) /\ Judges(c, verdict, jwks')
  <2>1. PICK document : document = jwks'
      OBVIOUS
  <2>2. Search(c, document)
      BY <1>1, <2>1
  <2> QED  BY <1>2, <2>1, <2>2, SearchTells
<1> QED  BY <1>3, <1>4, <1>5

LEMMA EndlessKinds ==
    {"unavailable", "cancelled"} \subseteq Trust!Unanswered \cap Verdicts
BY DEF Trust!Unanswered, Verdicts

LEMMA CallStep ==
    ASSUME SigningKeysInv, NEW c \in Calls, Step(c)
    PROVE  [Trust!Next]_(Trust!vars)
<1> USE DEF SigningKeysInv
<1>1. Awake(c)
    BY DEF Step, Awake, At, Configuration, LockConfiguration, ConfigurationArrives,
       SigningKeys, LockKeys, KeysArrive, FetchFails, FetchPcs
<1>2. ASSUME NEW doc, Configured(c, doc), Still
      PROVE  [Trust!Next]_(Trust!vars)
    BY <1>1, <1>2, ConfiguredTells, SilentStutters, ToldWithoutDocument, EndlessKinds
<1>3. ASSUME NEW pc \in {"configuration", "keys"} \cup Suspended, Goto(c, pc), Still
      PROVE  [Trust!Next]_(Trust!vars)
    BY <1>1, <1>3, GotoIsSilent, SilentStutters
<1>4. CASE Configuration(c)
    BY <1>2, <1>3, <1>4 DEF Configuration, Still, Suspended, LockPcs
<1>5. CASE LockConfiguration(c)
    BY <1>2, <1>3, <1>5 DEF LockConfiguration, Still, Suspended, FetchPcs
<1>6. CASE ConfigurationArrives(c)
    BY <1>2, <1>6 DEF ConfigurationArrives, Still
<1>7. CASE SigningKeys(c)
    BY <1>1, <1>3, <1>7, LookupStep DEF SigningKeys, Still
<1>8. CASE LockKeys(c)
  <2>1. CASE Fresh(jwks) /\ ~RefreshAllowed(c)
      BY <1>1, <1>8, <2>1, LookupStep DEF LockKeys, Still
  <2>2. CASE ~(Fresh(jwks) /\ ~RefreshAllowed(c))
    <3> DEFINE r == [calls[c] EXCEPT !.pc = "keys_fetch", !.asked = clock]
    <3>1. calls[c] \in Call /\ Becomes(c, r) /\ Still
        BY <1>8, <2>2 DEF LockKeys, AskForKeys, Becomes, TypeOK, Still
    <3>2. r.pc = "keys_fetch" /\ r.kid = calls[c].kid /\ r.verdict = calls[c].verdict
        BY <3>1 DEF Call
    <3> HIDE DEF r
    <3> QED  BY <1>1, <3>1, <3>2, SilentStep, SilentStutters
  <2> QED  BY <2>1, <2>2
<1>9. CASE KeysArrive(c)
    BY <1>9, ArrivalStep
<1>10. CASE FetchFails(c)
    BY <1>1, <1>10, FinishTells, ToldWithoutDocument, EndlessKinds DEF FetchFails, Still
<1> QED  BY <1>4, <1>5, <1>6, <1>7, <1>8, <1>9, <1>10 DEF Step

LEMMA ArriveAsks ==
    ASSUME SigningKeysInv, NEW c \in Calls, Arrive(c)
    PROVE  Trust!Next
<1>1. PICK k \in Keys : Becomes(c, [NewCall(k) EXCEPT !.pc = "configuration"])
    BY DEF Arrive, Becomes
<1> DEFINE r == [NewCall(k) EXCEPT !.pc = "configuration"]
<1>2. r.pc = "configuration" /\ r.kid = k /\ r.verdict = None
    BY DEF NewCall
<1>3. Becomes(c, r)
    BY <1>1
<1> HIDE DEF r
<1>4. \A q \in Calls : calls'[q] = IF q = c THEN r ELSE calls[q]
    BY <1>3 DEF SigningKeysInv, TypeOK, Becomes
<1>5. Asking[c] = None /\ Told[c] = None /\ calls[c].verdict = None
    BY IdleAsksNothing DEF Arrive, SigningKeysInv, Told
<1>6. Asking' = [Asking EXCEPT ![c] = k]
    BY <1>2, <1>4 DEF Asking
<1>7. Told' = Told
    BY <1>2, <1>4, <1>5 DEF Told
<1>8. Trust!Ask(c, k)
    BY <1>5, <1>6, <1>7 DEF Trust!Ask, Arrive, provider
<1> QED  BY <1>8 DEF Trust!Next

LEMMA RefuseRefuses ==
    ASSUME SigningKeysInv, NEW c \in Calls, Refuse(c)
    PROVE  Trust!Next
<1>1. TypeOK /\ Finish(c, "invalid") /\ "invalid" \in Verdicts
    BY DEF SigningKeysInv, Refuse, Verdicts
<1>2. Tells(c, "invalid")
    BY <1>1, FinishTells
<1>3. Asking[c] = None /\ Told[c] = None
    BY IdleAsksNothing DEF Refuse, SigningKeysInv
<1>4. [Asking EXCEPT ![c] = None] = Asking
    BY <1>3 DEF Asking
<1>5. Trust!Refuse(c)
    BY <1>2, <1>3, <1>4 DEF Trust!Refuse, Tells, Refuse, provider
<1> QED  BY <1>5 DEF Trust!Next

LEMMA AnsweredHears ==
    ASSUME SigningKeysInv, NEW c \in Calls, Answered(c)
    PROVE  [Trust!Next]_(Trust!vars)
<1>1. \A q \in Calls : calls'[q] = IF q = c THEN NoCall ELSE calls[q]
    BY DEF SigningKeysInv, TypeOK, Answered
<1>2. Asking' = Asking
    BY <1>1, NoCallFacts DEF Asking, Answered, At
<1>3. Told' = [Told EXCEPT ![c] = None]
    BY <1>1, NoCallFacts DEF Told
<1>4. CASE Told[c] = None
  <2>1. Told' = Told
      BY <1>3, <1>4 DEF Told
  <2> QED  BY <1>2, <2>1 DEF Trust!vars, Answered, provider
<1>5. CASE Told[c] # None
  <2>1. Trust!Heard(c)
      BY <1>2, <1>3, <1>5 DEF Trust!Heard, Answered, provider
  <2> QED  BY <2>1 DEF Trust!Next
<1> QED  BY <1>4, <1>5

LEMMA ProviderAnswersSilently ==
    ASSUME SigningKeysInv, NEW c \in Calls, ProviderAnswers(c)
    PROVE  UNCHANGED Trust!vars
<1>1. PICK keys : Becomes(c, [calls[c] EXCEPT !.answer = [keys |-> keys]])
    BY DEF ProviderAnswers, SigningKeysInv, TypeOK, Becomes
<1> DEFINE r == [calls[c] EXCEPT !.answer = [keys |-> keys]]
<1>2. calls[c] \in Call /\ Awake(c) /\ Still /\ TypeOK
    BY DEF SigningKeysInv, TypeOK, ProviderAnswers, Awake, At, Still
<1>3. /\ Becomes(c, r) /\ r.pc = calls[c].pc /\ r.kid = calls[c].kid
      /\ r.verdict = calls[c].verdict
    BY <1>1, <1>2 DEF Call
<1> HIDE DEF r
<1> QED  BY <1>2, <1>3, SilentStep, SilentStutters DEF Awake

LEMMA EnvironmentStep ==
    ASSUME SigningKeysInv, Publish \/ Withdraw \/ Tick
    PROVE  Trust!Next
<1>1. Silent
    BY DEF Silent, Asking, Told, Publish, Withdraw, Tick
<1>2. CASE Publish
  <2>1. PICK k \in Keys : publishedAt[k] = None /\ publishedAt' = [publishedAt EXCEPT ![k] = clock]
      BY <1>2 DEF Publish
  <2>2. Trust!Publish(k)
      BY <1>1, <1>2, <2>1 DEF Trust!Publish, Publish, Silent
  <2> QED  BY <2>2 DEF Trust!Next
<1>3. CASE Withdraw
  <2>1. PICK k \in Published : withdrawnAt' = [withdrawnAt EXCEPT ![k] = clock]
      BY <1>3 DEF Withdraw
  <2>2. k \in Keys /\ Trust!Withdraw(k)
      BY <1>1, <1>3, <2>1 DEF Trust!Withdraw, Withdraw, Silent, Published
  <2> QED  BY <2>2 DEF Trust!Next
<1>4. CASE Tick
    BY <1>1, <1>4 DEF Trust!Next, Trust!Tick, Tick, Silent, provider
<1> QED  BY <1>2, <1>3, <1>4

(* The cache, its lock and the requests of all validations implement a        *)
(* document that callers are answered from (OidcDocumentProvider,             *)
(* JwtValidator._find_key).                                                  *)
THEOREM KeysAreTrusted == Spec => ImplementsTrustedKeys
<1>1. Init => Trust!Init
    BY NoCallFacts DEF Init, Trust!Init, Asking, Told
<1>2. ASSUME SigningKeysInv, [Next]_vars
      PROVE  [Trust!Next]_(Trust!vars)
  <2>1. CASE UNCHANGED vars
      BY <2>1 DEF vars, Trust!vars, Asking, Told
  <2>2. CASE Publish \/ Withdraw \/ Tick
      BY <1>2, <2>2, EnvironmentStep
  <2>3. ASSUME NEW c \in Calls,
               \/ Arrive(c) \/ Refuse(c) \/ Answered(c) \/ Cancel(c)
               \/ ProviderAnswers(c) \/ Step(c)
        PROVE  [Trust!Next]_(Trust!vars)
    <3>1. CASE Cancel(c)
        BY <1>2, <3>1, FinishTells, ToldWithoutDocument, EndlessKinds
           DEF Cancel, Still, Awake, Suspended, FetchPcs, LockPcs, SigningKeysInv
    <3> QED  BY <1>2, <2>3, <3>1, ArriveAsks, RefuseRefuses, AnsweredHears,
             ProviderAnswersSilently, CallStep
  <2> QED  BY <1>2, <2>1, <2>2, <2>3 DEF Next
<1>3. SigningKeysInv /\ [Next]_vars => [Trust!Next]_(Trust!vars)
    BY <1>2
<1> QED  BY <1>1, <1>3, SigningKeysInvariant, PTL DEF Spec, ImplementsTrustedKeys, Trust!Spec

-----------------------------------------------------------------------------
(* Liveness: every validation ends.                                          *)
(*                                                                         *)
(* The prover knows nothing of ENABLED: the theorem assumes beside FairSpec  *)
(* that a coroutine whose await is over has a step (NeverStuck), and its      *)
(* proof uses what follows from weak and strong fairness then.               *)

Busy(c) == calls[c].pc \in {"configuration", "keys"}
Fetching(c) == calls[c].pc \in FetchPcs
Waiting(c) == calls[c].pc \in LockPcs
Free == lock = None

BusyMoves(c) ==
    []<>(~Busy(c)) \/ []<><<Configuration(c) \/ SigningKeys(c)>>_vars
FetchingMoves(c) ==
    \/ []<>(~Fetching(c))
    \/ []<><<ConfigurationArrives(c) \/ KeysArrive(c) \/ FetchFails(c)>>_vars
WaitingMoves(c) ==
    <>[]~(Waiting(c) /\ Free) \/ []<><<LockConfiguration(c) \/ LockKeys(c)>>_vars

LEMMA FairCall ==
    ASSUME NEW c \in Calls
    PROVE  FairSpec /\ []NeverStuck => BusyMoves(c) /\ FetchingMoves(c) /\ WaitingMoves(c)
<1>1. NeverStuck => CanStep(c)
    BY DEF NeverStuck
<1>2. Fairness => RunsOn(c) /\ FetchEnds(c) /\ IsServed(c)
    BY DEF Fairness
<1>3. RunsOn(c) /\ []CanStep(c) => BusyMoves(c)
    BY PTL DEF RunsOn, CanStep, BusyMoves, Busy
<1>4. FetchEnds(c) /\ []CanStep(c) => FetchingMoves(c)
    BY PTL DEF FetchEnds, CanStep, FetchingMoves, Fetching
<1>5. IsServed(c) /\ []CanStep(c) => WaitingMoves(c)
    BY PTL DEF IsServed, CanStep, WaitingMoves, Waiting, Free
<1> QED
    BY <1>1, <1>2, <1>3, <1>4, <1>5, PTL DEF FairSpec

(* How far validate has come: the configuration, then the cached keys, then   *)
(* the forced refresh, each with a lock and a request at most.               *)
Base == [metadata |-> 0, cached |-> 4, forced |-> 10]
Offset ==
    [keys |-> 0, configuration |-> 1, configuration_lock |-> 2,
     configuration_fetch |-> 3, keys_lock |-> 4, keys_fetch |-> 5]
Order(q) == IF q.pc = "done" THEN 16 ELSE Base[q.stage] + Offset[q.pc]

Active(c) == calls[c].pc \notin {"idle", "done"}

LEMMA OrderFacts ==
    ASSUME NEW q \in Call, q.pc # "idle"
    PROVE  /\ Order(q) \in 0..16
           /\ q.pc # "done" => Order(q) < 16
BY DEF Order, Base, Offset, Call, Suspended, FetchPcs, LockPcs

(* the call has come further                                                *)
Further(c) == calls'[c].pc # "idle" /\ Order(calls'[c]) > Order(calls[c])

LEMMA FinishFurther ==
    ASSUME TypeOK, NEW c \in Calls, Active(c), NEW verdict, Finish(c, verdict)
    PROVE  Further(c)
<1>1. calls'[c] = Finished(verdict) /\ calls[c] \in Call
    BY DEF TypeOK, Finish
<1>2. Finished(verdict).pc = "done"
    BY NoCallFacts DEF Finished, Call
<1>3. Order(calls[c]) < 16 /\ Order(calls[c]) \in 0..16
    BY <1>1, OrderFacts DEF Active
<1> QED  BY <1>1, <1>2, <1>3 DEF Further, Order

LEMMA GotoStays ==
    ASSUME TypeOK, NEW c \in Calls, NEW pc, Goto(c, pc)
    PROVE  calls'[c].pc = pc /\ calls'[c].stage = calls[c].stage
BY DEF TypeOK, Goto, Call

LEMMA ConfiguredFurther ==
    ASSUME TypeOK, NEW c \in Calls, NEW doc, Configured(c, doc),
           calls[c].pc \in {"configuration", "configuration_lock", "configuration_fetch"}
    PROVE  Further(c)
<1>0. calls[c] \in Call /\ calls[c].stage \in {"metadata", "cached", "forced"}
    BY DEF TypeOK, Call
<1>1. CASE calls[c].stage = "metadata"
  <2> DEFINE q == [calls[c] EXCEPT !.pc = "keys", !.stage = "cached"]
  <2>1. calls'[c] = q
      BY <1>1 DEF Configured, TypeOK
  <2>2. q.pc = "keys" /\ q.stage = "cached"
      BY <1>0 DEF Call
  <2> HIDE DEF q
  <2> QED  BY <1>0, <1>1, <2>1, <2>2 DEF Further, Order, Base, Offset
<1>2. CASE calls[c].stage # "metadata" /\ doc = "no_keys_url"
    BY <1>2, FinishFurther DEF Configured, Active
<1>3. CASE calls[c].stage # "metadata" /\ doc # "no_keys_url"
  <2>1. calls'[c].pc = "keys_lock" /\ calls'[c].stage = calls[c].stage
      BY <1>3, GotoStays DEF Configured
  <2> QED  BY <1>0, <2>1 DEF Further, Order, Base, Offset
<1> QED  BY <1>1, <1>2, <1>3

LEMMA SearchFurther ==
    ASSUME TypeOK, NEW c \in Calls, NEW document, Search(c, document),
           calls[c].pc \in {"keys", "keys_lock", "keys_fetch"}
    PROVE  Further(c)
<1>0. calls[c] \in Call /\ calls[c].stage \in {"metadata", "cached", "forced"}
    BY DEF TypeOK, Call
<1>1. CASE \E verdict : Finish(c, verdict)
    BY <1>1, FinishFurther DEF Active
<1>2. CASE /\ calls[c].stage # "forced"
           /\ calls' = [calls EXCEPT ![c] = [@ EXCEPT !.pc = "keys", !.stage = "forced",
                                                      !.asked = 0, !.answer = None]]
  <2>1. calls'[c].pc = "keys" /\ calls'[c].stage = "forced"
      BY <1>0, <1>2 DEF TypeOK, Call
  <2> QED  BY <1>0, <1>2, <2>1 DEF Further, Order, Base, Offset
<1> QED  BY <1>1, <1>2 DEF Search

LEMMA StepFurther ==
    ASSUME TypeOK, NEW c \in Calls, Step(c)
    PROVE  Further(c)
<1>0. calls[c] \in Call /\ calls[c].stage \in {"metadata", "cached", "forced"}
    BY DEF TypeOK, Call
<1>1. ASSUME NEW pc, Goto(c, pc), Offset[pc] > Offset[calls[c].pc], Active(c),
             pc \in {"configuration", "configuration_lock", "configuration_fetch"}
      PROVE  Further(c)
  <2>1. calls'[c].pc = pc /\ calls'[c].stage = calls[c].stage
      BY <1>1, GotoStays
  <2>2. Offset[calls[c].pc] \in Nat /\ Offset[pc] \in Nat /\ Base[calls[c].stage] \in Nat
      BY <1>0, <1>1 DEF Offset, Base, Active, Call, Suspended, FetchPcs, LockPcs
  <2> QED  BY <1>1, <2>1, <2>2 DEF Further, Order, Active
<1>2. CASE Configuration(c)
  <2>1. calls[c].pc = "configuration"
      BY <1>2 DEF Configuration, At
  <2>2. Configured(c, configuration.doc) \/ Goto(c, "configuration_lock")
      BY <1>2 DEF Configuration
  <2> QED  BY <1>1, <2>1, <2>2, ConfiguredFurther DEF Active, Offset
<1>3. CASE LockConfiguration(c)
  <2>1. calls[c].pc = "configuration_lock"
      BY <1>3 DEF LockConfiguration, At
  <2>2. Configured(c, configuration.doc) \/ Goto(c, "configuration_fetch")
      BY <1>3 DEF LockConfiguration
  <2> QED  BY <1>1, <2>1, <2>2, ConfiguredFurther DEF Active, Offset
<1>4. CASE ConfigurationArrives(c)
    BY <1>4, ConfiguredFurther DEF ConfigurationArrives, At
<1>5. CASE SigningKeys(c)
  <2>1. calls[c].pc = "keys"
      BY <1>5 DEF SigningKeys, At
  <2>2. Search(c, jwks) \/ Goto(c, "configuration")
      BY <1>5 DEF SigningKeys
  <2> QED  BY <1>1, <2>1, <2>2, SearchFurther DEF Active, Offset
<1>6. CASE LockKeys(c)
  <2>1. calls[c].pc = "keys_lock"
      BY <1>6 DEF LockKeys, At
  <2>2. ASSUME AskForKeys(c)
        PROVE  Further(c)
    <3>1. calls'[c].pc = "keys_fetch" /\ calls'[c].stage = calls[c].stage
        BY <1>0, <2>2 DEF AskForKeys, TypeOK, Call
    <3> QED  BY <1>0, <2>1, <3>1 DEF Further, Order, Base, Offset
  <2> QED  BY <1>6, <2>1, <2>2, SearchFurther DEF LockKeys
<1>7. CASE KeysArrive(c)
  <2>1. PICK document : Search(c, document)
      BY <1>7 DEF KeysArrive
  <2> QED  BY <1>7, <2>1, SearchFurther DEF KeysArrive, At
<1>8. CASE FetchFails(c)
    BY <1>8, FinishFurther DEF FetchFails, Active, FetchPcs
<1> QED  BY <1>2, <1>3, <1>4, <1>5, <1>6, <1>7, <1>8 DEF Step

(* Whoever else moves, a validation stays where it is or comes further.       *)
LEMMA CallMoves ==
    ASSUME TypeOK, NEW c \in Calls, Active(c), [Next]_vars
    PROVE  \/ calls'[c].pc = calls[c].pc /\ calls'[c].stage = calls[c].stage
           \/ Further(c)
<1>1. ASSUME NEW q \in Calls, q # c,
             \/ Arrive(q) \/ Refuse(q) \/ Answered(q) \/ Cancel(q)
             \/ ProviderAnswers(q) \/ Step(q)
      PROVE  calls'[c] = calls[c]
    BY <1>1, OthersAreLeftAlone
<1>2. ~(Arrive(c) \/ Refuse(c) \/ Answered(c))
    BY DEF Active, Arrive, Refuse, Answered, At
<1>3. CASE Cancel(c)
    BY <1>3, FinishFurther DEF Cancel
<1>4. CASE ProviderAnswers(c)
  <2>1. PICK keys : calls' = [calls EXCEPT ![c].answer = [keys |-> keys]]
      BY <1>4 DEF ProviderAnswers
  <2> QED  BY <2>1 DEF TypeOK, Call
<1>5. CASE Step(c)
    BY <1>5, StepFurther
<1>6. Publish \/ Withdraw \/ Tick \/ UNCHANGED vars => calls' = calls
    BY DEF Publish, Withdraw, Tick, vars
<1> QED  BY <1>1, <1>2, <1>3, <1>4, <1>5, <1>6 DEF Next

-----------------------------------------------------------------------------
(* The lock is free again and again.                                        *)
Releases(c) == lock = c => <>Free

LEMMA HolderReleases ==
    ASSUME NEW c \in Calls
    PROVE  FairSpec /\ []NeverStuck => []Releases(c)
<1>1. SigningKeysInv /\ lock = c => Fetching(c)
    BY DEF SigningKeysInv, LockIsHeldToFetch, Fetching
<1>2. lock = c /\ [Next]_vars => (lock = c)' \/ Free'
    BY DEF Next, vars, Arrive, Refuse, Answered, Cancel, ProviderAnswers, Step,
       Configuration, LockConfiguration, ConfigurationArrives, SigningKeys, LockKeys,
       KeysArrive, FetchFails, Publish, Withdraw, Tick, Free
<1>3. <<ConfigurationArrives(c) \/ KeysArrive(c) \/ FetchFails(c)>>_vars => Free'
    BY DEF ConfigurationArrives, KeysArrive, FetchFails, Free
<1>4. FairSpec => Spec
    BY DEF FairSpec
<1> QED
    BY <1>1, <1>2, <1>3, <1>4, FairCall, SigningKeysInvariant, PTL
       DEF Spec, FetchingMoves, Releases

LEMMA LockIsFreeAgain == FairSpec /\ []NeverStuck => []<>Free
<1>1. FairSpec /\ []NeverStuck => \A c \in Calls : []Releases(c)
    BY HolderReleases
<1>2. (\A c \in Calls : []Releases(c)) => [](\A c \in Calls : Releases(c))
    OBVIOUS
<1>3. SigningKeysInv /\ (\A c \in Calls : Releases(c)) => Free \/ <>Free
    BY DEF SigningKeysInv, TypeOK, Free, Releases
<1>4. FairSpec => Spec
    BY DEF FairSpec
<1> QED  BY <1>1, <1>2, <1>3, <1>4, SigningKeysInvariant, PTL

-----------------------------------------------------------------------------
AtLeast(c, n) == calls[c].pc # "idle" /\ Order(calls[c]) >= n
Stays(c, n) == Active(c) /\ Order(calls[c]) = n
Reaches(c, n, m) == AtLeast(c, n) ~> AtLeast(c, m)

LEMMA OrderGrows ==
    ASSUME NEW c \in Calls, NEW n \in 0..15, NEW m \in 1..16, m = n + 1
    PROVE  FairSpec /\ []NeverStuck => Reaches(c, n, m)
<1>1. SigningKeysInv /\ AtLeast(c, n)
        => \/ AtLeast(c, m)
           \/ Stays(c, n) /\ (Busy(c) \/ Fetching(c) \/ Waiting(c))
  <2> SUFFICES ASSUME SigningKeysInv, AtLeast(c, n), ~AtLeast(c, m)
               PROVE  Stays(c, n) /\ (Busy(c) \/ Fetching(c) \/ Waiting(c))
      OBVIOUS
  <2>1. calls[c] \in Call /\ calls[c].pc # "idle"
      BY DEF SigningKeysInv, TypeOK, AtLeast
  <2>2. Order(calls[c]) \in 0..16
      BY <2>1, OrderFacts
  <2>3. Order(calls[c]) = n
      BY <2>1, <2>2 DEF AtLeast
  <2>4. calls[c].pc # "done"
      BY <2>3 DEF Order
  <2> QED  BY <2>1, <2>3, <2>4
           DEF Stays, Active, Busy, Fetching, Waiting, Call, Suspended
<1>2. ASSUME SigningKeysInv, Stays(c, n), [Next]_vars
      PROVE  \/ AtLeast(c, m)'
             \/ Stays(c, n)' /\ calls'[c].pc = calls[c].pc
  <2>1. calls[c] \in Call /\ calls'[c] \in Call
      BY <1>2, NextSigningKeysInv DEF SigningKeysInv, TypeOK
  <2>2. CASE calls'[c].pc = calls[c].pc /\ calls'[c].stage = calls[c].stage
      BY <1>2, <2>2 DEF Stays, Active, Order
  <2>3. CASE Further(c)
    <3>1. Order(calls'[c]) \in 0..16
        BY <2>1, <2>3, OrderFacts DEF Further
    <3> QED  BY <1>2, <2>3, <3>1 DEF Further, AtLeast, Stays
  <2> QED  BY <1>2, <2>2, <2>3, CallMoves DEF Stays, SigningKeysInv
<1>3. ASSUME SigningKeysInv, Stays(c, n), Step(c)
      PROVE  AtLeast(c, m)'
  <2>1. [Next]_vars
      BY <1>3 DEF Next
  <2>2. calls'[c] \in Call /\ Further(c)
      BY <1>3, <2>1, NextSigningKeysInv, StepFurther DEF SigningKeysInv, TypeOK
  <2>3. Order(calls'[c]) \in 0..16
      BY <2>2, OrderFacts DEF Further
  <2> QED  BY <1>3, <2>2, <2>3 DEF Further, AtLeast, Stays
<1>4. /\ SigningKeysInv /\ Stays(c, n) /\ Busy(c) /\ [Next]_vars
            => AtLeast(c, m)' \/ (Stays(c, n)' /\ Busy(c)')
      /\ SigningKeysInv /\ Stays(c, n) /\ Fetching(c) /\ [Next]_vars
            => AtLeast(c, m)' \/ (Stays(c, n)' /\ Fetching(c)')
      /\ SigningKeysInv /\ Stays(c, n) /\ Waiting(c) /\ [Next]_vars
            => AtLeast(c, m)' \/ (Stays(c, n)' /\ Waiting(c)')
    BY <1>2 DEF Busy, Fetching, Waiting
<1>5. /\ SigningKeysInv /\ Stays(c, n) /\ <<Configuration(c) \/ SigningKeys(c)>>_vars
            => AtLeast(c, m)'
      /\ SigningKeysInv /\ Stays(c, n)
            /\ <<ConfigurationArrives(c) \/ KeysArrive(c) \/ FetchFails(c)>>_vars
            => AtLeast(c, m)'
      /\ SigningKeysInv /\ Stays(c, n) /\ <<LockConfiguration(c) \/ LockKeys(c)>>_vars
            => AtLeast(c, m)'
    BY <1>3 DEF Step
<1>6. FairSpec => Spec
    BY DEF FairSpec
<1> QED
    BY <1>1, <1>4, <1>5, <1>6, FairCall, LockIsFreeAgain, SigningKeysInvariant, PTL
       DEF Spec, Reaches, BusyMoves, FetchingMoves, WaitingMoves

(* Every validation ends, although one lock is shared by all of them and is   *)
(* held across requests that may fail or be cancelled: whoever holds it has a *)
(* request in flight, so it is free again and again, and each validation      *)
(* takes it for three looks at the configuration and two at the keys at most. *)
THEOREM ValidationEndsHolds == FairSpec /\ []NeverStuck => ValidationEnds
<1> SUFFICES ASSUME NEW c \in Calls
             PROVE  FairSpec /\ []NeverStuck
                      => (calls[c].pc \notin {"idle", "done"} ~> At(c, "done"))
    BY DEF ValidationEnds
<1>1. SigningKeysInv /\ calls[c].pc \notin {"idle", "done"} => AtLeast(c, 0)
    BY OrderFacts DEF SigningKeysInv, TypeOK, AtLeast
<1>2. SigningKeysInv /\ AtLeast(c, 16) => At(c, "done")
    BY OrderFacts DEF SigningKeysInv, TypeOK, AtLeast, At
<1>3. /\ FairSpec /\ []NeverStuck => Reaches(c, 0, 1)
      /\ FairSpec /\ []NeverStuck => Reaches(c, 1, 2)
      /\ FairSpec /\ []NeverStuck => Reaches(c, 2, 3)
      /\ FairSpec /\ []NeverStuck => Reaches(c, 3, 4)
      /\ FairSpec /\ []NeverStuck => Reaches(c, 4, 5)
      /\ FairSpec /\ []NeverStuck => Reaches(c, 5, 6)
      /\ FairSpec /\ []NeverStuck => Reaches(c, 6, 7)
      /\ FairSpec /\ []NeverStuck => Reaches(c, 7, 8)
    BY OrderGrows
<1>4. /\ FairSpec /\ []NeverStuck => Reaches(c, 8, 9)
      /\ FairSpec /\ []NeverStuck => Reaches(c, 9, 10)
      /\ FairSpec /\ []NeverStuck => Reaches(c, 10, 11)
      /\ FairSpec /\ []NeverStuck => Reaches(c, 11, 12)
      /\ FairSpec /\ []NeverStuck => Reaches(c, 12, 13)
      /\ FairSpec /\ []NeverStuck => Reaches(c, 13, 14)
      /\ FairSpec /\ []NeverStuck => Reaches(c, 14, 15)
      /\ FairSpec /\ []NeverStuck => Reaches(c, 15, 16)
    BY OrderGrows
<1>5. FairSpec => Spec
    BY DEF FairSpec
<1> QED  BY <1>1, <1>2, <1>3, <1>4, <1>5, SigningKeysInvariant, PTL DEF Reaches

=============================================================================
