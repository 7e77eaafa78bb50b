# Formal model of the Microsoft 365 MCP server

TLA+ modules, TLC configurations and TLAPS proofs for the server in `src/`
(Python, `src/src/m365_mcp`) and its Windows companion (C#,
`src/windows/M365Mcp.Local`).  Every definition that stands for code is listed
with its lines under `map` in `PROJECT.json`.

## 1. The system

| Component | Code | State it keeps | Operations | What is hard |
|---|---|---|---|---|
| OAuth refresh sessions | `oauth/sessions.py`, `oauth/store.py` | SQLite tables of sessions and of spent handles | issue, refresh (lookup, Entra, validate, rotate, revoke, replay search), reclaiming | five awaits per refresh, a clock read once, concurrent use of one handle, lost answers, restarts |
| OAuth authorization | `oauth/authorization.py`, `oauth/store.py` | tables of transactions and codes | authorize, callback, code exchange | consume-then-fail, duplicated callbacks, settings that change between steps |
| Client registry (DCR) | `oauth/registry.py`, `oauth/redirects.py` | table of clients | register, get | three attempts on a colliding id |
| OAuth HTTP routes, completion page, crypto, Entra adapter | `oauth/routes.py`, `completion.py`, `crypto.py`, `entra.py` | none | parsing, AES-GCM, MSAL calls | data, not state |
| OIDC metadata and JWT validation | `auth/oidc.py`, `auth/validator.py` | cached configuration and keys with their times, one lock | validate, forced refresh with a cool-down | key roll-over during the cool-down |
| On-behalf-of tokens | `auth/obo.py` | MSAL client per tenant, lock | acquire | cache growth |
| Graph client | `graph/client.py`, `graph/mail.py` | none besides the remote mailbox | request with retries, chunked upload | ambiguous writes, partial uploads |
| Attachment uploads | `mail/uploads.py` | staged files and push grants under one lock | issue, grant, push, consume, prune, cleanup task, shutdown | expiry and capacity while a body is being received |
| Attachment downloads | `mail/downloads.py` | tickets under one lock | issue, consume, prune, evict, shutdown | single use, expiry order, eviction |
| Mail tools | `mail/tools.py` | none | MCP tools over all of the above | partial failure of a multi-step tool |
| Extraction | `extractors/attachment.py`, `isolation.py`, `worker.py` | semaphore of two, one child process each | extract, timeout, kill, reap | cancellation between spawn and reap |
| Audit and request limits | `security/*` | none | logging, body limits | data, not state |
| Windows companion | `PublicClientAuth.cs`, `DpapiStateStore.cs`, `LocalGraphClient.cs`, `StdioMcpServer.cs`, `AttachmentPushClient.cs` | token state in memory and in a DPAPI file, one gate | get token, login, invalidate, 401 retry, stdio loop, push | refresh-token rotation against a crash or a failing disk |

Components meet through calls inside one event loop (each store operation is
one SQLite transaction on a worker thread), through the shared SQLite file
(every writer reclaims terminal rows of every table), and through handles given
to the client (refresh handle, code, ticket, upload handle, push grant).

### What makes each component correct

* **Refresh sessions.** A handle is rotated once however many requests present
  it; history is exact, so a replay is always recognised; a client told
  `invalid_grant` may drop its session because the whole family is closed; a
  family is closed only for a cause; what is sealed can be opened; a session
  holds only the cache of its owner; revocation is final; a handle that works
  stops only when it is used up, whatever fails meanwhile.
* **Authorization.** One authorize request is worth one token whatever is
  duplicated; nobody is refused without a reason; no session is created that
  its first refresh would revoke; a session goes to the client and the user the
  authorization was for.
* **Uploads.** A handle stands for one file, owner and draft from the moment it
  is minted; it works once; it is lost only to expiry or a restart; limits and
  counters are exact; bytes leave the memory in time.
* **Draft attachments.** A file is attached once at most, whatever is lost,
  late, throttled or retried; the answers are true; retrying ends.
* **Downloads.** A ticket is served once, before it expires; a working ticket
  is evicted only for room, the oldest first; bytes leave in time; counters are
  exact.
* **Signing keys.** A published key is hidden for one cool-down at most and a
  withdrawn one trusted for one time to live at most, whoever asked for the
  keys; an answer that was overtaken changes nothing; every validation ends.
* **Extraction.** No more parsers at work than slots, none without its call;
  the three checks of the size agree; every call ends, whatever the parser does.
* **Windows sign-in.** The refresh token in the file is a used one only while its
  successor is being saved or because that save failed; a state whose save failed
  is not used, but for one case of the code (a folder that cannot be created); a
  write is repeated only when Graph refused it.

## 2. The modules

| Module | Models | Extends / instantiates |
|---|---|---|
| `RotatingHandles` | abstract: one current handle per family, a spent one never works again | |
| `RefreshSessions` | `OAuthSessionService` and the session and history tables | instantiates `RotatingHandles` |
| `RefreshInvariants`, `RefreshProofs` | inductive invariant `IInv` and the proofs | `RefreshSessions` |
| `ConsentedSessions` | abstract: one consent, one redemption and one session for each request that was asked | |
| `AuthorizationServer` | authorize, callback, exchange and refresh over all four tables | extends `RefreshSessions`, instantiates `ConsentedSessions` |
| `AuthorizationInvariants`, `AuthorizationServerProofs` | inductive invariant `LedgerInv`, both refinements and the flow proofs | `AuthorizationServer`, `RefreshProofs` |
| `SingleUseHandles` | abstract: a handle is granted or staged, taken once, and gone for good | |
| `AttachmentUploads` | `AttachmentUploadStore`, its two routes, its cleanup task, the two tools | instantiates `SingleUseHandles` |
| `UploadInvariants`, `UploadProofs` | inductive invariant `UploadsInv` and the proofs | `AttachmentUploads` |
| `OneDelivery` | abstract: a file goes to one call, one copy of it appears at most, one truthful answer | |
| `DraftAttachments` | the attach call from the consumed handle to the mailbox, `GraphClient.request` | extends `AttachmentUploads`, instantiates `OneDelivery` |
| `DraftProofs` | inductive invariant `Graph` and the proofs | `DraftAttachments`, `UploadProofs` |
| `AttachmentDownloads` | `AttachmentDownloadStore`, its route, its cleanup task | instantiates `SingleUseHandles` |
| `DownloadProofs` | inductive invariant `DownloadsInv`, capacity, and the proofs | `AttachmentDownloads` |
| `TrustedKeys` | abstract: callers are answered about a key from one document that only a later one replaces | |
| `SigningKeys` | `OidcDocumentProvider`, the key lookups of `JwtValidator`, what a verdict means to its two callers | instantiates `TrustedKeys` |
| `SigningKeysProofs` | proofs from its inductive invariant `SigningKeysInv` | `SigningKeys` |
| `Extraction` | `mail_read_attachment`, the slots, the child process, the worker | |
| `ExtractionProofs` | proofs from its inductive invariant `ExtractionInv` | `Extraction` |
| `LocalSession` | `PublicClientAuth`, `DpapiStateStore`, `LocalGraphClient.RequestAsync`, the commands of `Program` | |
| `LocalSessionProofs` | proofs from its inductive invariant `LocalInv` | `LocalSession` |
| `MC...` | symmetry sets and documents for TLC; one `.cfg` per run | the module named |

### How state and actions correspond to the code

*Atomicity.* The server is one asyncio process.  A method of the SQLite store
is one short transaction on a worker thread and one action; a method of the
in-memory stores holds the store's lock, awaits nothing, and is one action.  A
coroutine is a record with a `pc` that names the step it will take next, and
the locals that later steps read; between two steps anything may interleave.
The clock of a coroutine is the reading it took: `refresh()` and `exchange()`
read it once and use it after every await, and so do `at` fields here.

*RefreshSessions.* `sessions` and `history` are the two tables, `requests` the
`refresh()` coroutines: `Start`, then `Lookup...` (`get_refresh_session` and the
checks on its row), `EntraRefresh`, `Validate`, `Rotate` or `RotateConflicts`
(the compare-and-swap), `Revoke`, `ReplayFind` and `ReplayRevoke`; `StoreFails`
is an error of any store call.  `OtherWriter` is the reclaiming that every
other writer of the database does; `Restart` ends the process and runs
`initialize()`, possibly under other settings.

*AuthorizationServer.* `transactions` and `codes` are the other two tables;
`authorize()`, `complete()` and `exchange()` are coroutines like the above.  Each
of its steps that writes the database also reclaims the rows of every table.  A
coroutine that has returned keeps of its locals only what its answer left behind
(`CallbackLeft`, `ExchangeLeft`): nothing reads the others any more.

*AttachmentUploads.* `entries`, `grants` and `totalBytes` are the store,
`slots` the semaphore of the routes, `bodies` the requests that upload (staged
by their owner, or pushed with a grant), `attaches` the consuming tool calls.
Every operation prunes first, as in the code.  A handle is named for the call
that mints it.  `nextCleanup` is the sleep of the cleanup task.

*DraftAttachments.* `calls` is the rest of the attach call, `wire` the writes
that were sent and not yet carried out, `mailbox` those that were.  A write may
be lost, be carried out after its caller gave up, or be answered with 429.
Microsoft Graph (`CarryOut`, `Lose`) is external, known from how
`graph/client.py` uses it.

*AttachmentDownloads.* `table` is the `OrderedDict`, oldest row first.  The
loops of `_prune_locked` and of the eviction are numbers of rows popped from its
front (`PrunedCount`, `EvictedCount`).

*SingleUseHandles* is what both stores promise: a handle names one item, is
granted, staged, dropped or taken, and the caller that takes it is remembered
in `takers`.  Downloads are never granted, they are staged when they are issued.

*ConsentedSessions* is what clients and users see of the authorization server, with
no tables, coroutines or clock.  The mapping reads the history off the coroutines:
the asker of a request is the client of its authorize call, the consents are the
callbacks of its transaction that were answered with a code, the redemptions the
exchanges that took such a code, the sessions opened those they issued.  `owner`
is read off the session table, where a reclaimed or revoked session has none.

*OneDelivery* is what attaching promises to the outside, with no store, request
or retry.  A file is given to the call that consumed its handle, its copies are the
writes of the mailbox that complete an attachment, and a call is told its answer.
After an error the copy may be there, or appear later, or never.

*SigningKeys.* `configuration`, `jwks`, `lastForced` and `lock` are the fields
of the provider, `calls` the `validate()` coroutines.  `stage` is the lookup a
coroutine is in: the first call of `configuration()`, the cached keys, the
forced refresh.  The identity provider is external: it reads its keys at some
moment between the request and its answer (`ProviderAnswers`), which is when
`Publish` and `Withdraw` can overtake it.  `RefreshOutcome` is what
`sessions.py` makes of the verdict and `Status` what the middleware makes of it.
To `TrustedKeys` a coroutine is a caller that asks about one key and is told one
verdict; the lock, the lookups and the requests have no counterpart there.

*Extraction.* `calls` are the coroutines, `slots` the value of the semaphore,
`children` one process per call: its end (`WorkerEnds`, `WorkerDies`) and the
moment the event loop learns of it (`Reap`) are steps of their own, and a call
can time out or be cancelled between any two of them.  The `finally` of
`extract_isolated` is `Interrupted`, then `Reaped` or `CancelReap`.

*LocalSession.* `file` is the state file, torn from the opening of a write to
its end, `writer` the process that has it open, and each process is the record
of one command: `memory` is `memoryState`, `attempt` the loop of `RequestAsync`.
`Crash` is possible at every step.  `effects` counts how often Graph carried the
request out; `undisturbed` says that no other process opened or deleted the file
since this one read or wrote it.  A save can fail in two ways, which the code
treats differently.  What `Save` turns into `LocalAuthException` (`SaveRefused`,
`WriteFails`) drops the new state for the browser.  A folder that cannot be created
(`FolderMissing`, `DpapiStateStore.cs:73`, outside the `try`) is an exception
`GetAccessTokenAsync` does not catch: the stdio loop answers the call with an error
and goes on, the state that was never saved stays in memory, and the next call uses
it.  `dropped` and `kept` remember which states these were, `origin` whose refresh
token each state was exchanged for.

## 3. The runs

| Run | Configuration | What it asks | Bounds |
|---|---|---|---|
| `sessions` | `MCRefreshSessions.cfg` | every race on one family; under fairness a replay ends in a closed family | 1 session, 3 requests, 2 rotations, clock 0..2 |
| `families` | `MCRefreshTwoFamilies.cfg` | the inductive invariant, causes of revocation, a working handle works until it is used up, refinement of `RotatingHandles` | 2 sessions, clients, users, settings; 2 requests, 1 rotation |
| `concurrent_use` | `MCRefreshConcurrent.cfg` | a sentence of `docs/security.md` (violated, section 5) | 1 session, 2 requests, 2 rotations, clock 0..2 |
| `authorization` | `MCAuthorizationServer.cfg` | two authorizations, callbacks and codes presented twice, interleaved with a refresh; refinement of `ConsentedSessions` | 2 authorizations, 2 callbacks, 2 exchanges, 1 refresh, 2 clients, 2 settings, clock 0..1 |
| `uploads` | `MCAttachmentUploads.cfg` | loss, limits and counters, release in time, the inductive invariant (with the promise of a handle) | 1 staged file and 2 grants for 1 open grant, 1 place, 2 bytes and 1 slot; 2 pushes, 1 call, 2 drafts, clock 0..3 |
| `upload_expiry` | `MCUploadExpiry.cfg` | the five-minute handle of `docs/tool-spec.md` (violated, section 5) | 1 grant, 1 push |
| `attaching` | `MCDraftAttachments.cfg` | attached once, true answers, retrying ends (fairness); refinement of `OneDelivery`, and of `SingleUseHandles` by the store under it | 1 staged and 1 pushed file, 2 calls, one POST or 3 ranges, 2 retries, clock 0..1 |
| `downloads` | `MCAttachmentDownloads.cfg` | single service, order of expiry, eviction, counters; refinement of `SingleUseHandles` | 3 tickets for 2 places and 3 bytes, 2 GETs, clock 0..4 |
| `keys` | `MCSigningKeys.cfg` | the inductive invariant, keys that are published and withdrawn, refinement of `TrustedKeys`, every validation ends (fairness) | 2 validations, 1 key, time to live 2, cool-down 1, clock 0..2 |
| `key_outage` | `MCKeyOutage.cfg` | a sentence of `docs/workbuddy-oauth.md` (violated, section 5) | 1 validation, 1 key, time to live 3, cool-down 2, clock 0..2 |
| `extraction` | `MCExtraction.cfg` | slots and processes, limits and truncation, every call and process ends (fairness) | 2 calls, 1 slot, 11 documents around limits of 2 bytes and 4 characters |
| `local` | `MCLocalSession.cfg` | whether a used refresh token stays in the file, or gets there; memory against file, one writer, a second attempt only after a refusal | 2 processes on the file and an ephemeral one, 3 token states |

Deadlock is checked everywhere but in `keys`, `key_outage` and `extraction`.
There the run may stop: the calls of `extraction` are made once, and a bounded
clock stops with it the rest.

*Why these bounds are enough.*  The comparisons in the code look at one row and
at most two competing coroutines: a compare-and-swap needs a winner and a loser;
a third request is the one that slips between the loser's search and its update,
hence the three requests of `sessions`.  Two families suffice for anything that
could leak from one to another.  Times to live of one or two ticks with a clock
of two or three cover: expires while in flight, expires exactly at the boundary,
is reclaimed by a writer with a later reading.  In the stores the limits are
smaller than what is offered, so full, exactly full and evicting all happen, and
a file of size zero is among the downloads.  Three ranges with one retry give a
first, a middle and a last range.  Of the keys one is enough, since the code
compares a key with no other; it is published before the start, during the run
or never, and withdrawn.  With the cool-down shorter than the time to live both
end within `keys`; `key_outage` needs a cached document that is still fresh
during the cool-down.  The documents of `extraction` have exactly the limit, one
byte more (found by the exact length only) and one more again (found by the
encoded length).  Two processes on the state file give a reader and a writer,
three token states let both refresh the same saved one.  All clocks are bounded by
`MaxTime`; it, and the number of token states Entra issues (`MaxTokens`), are the
only bounds in a guard that the code does not have.

*Symmetry* permutes model values of one kind; it is used with invariants and
action properties only, never with liveness.

*Fairness.*  `sessions` assumes weak fairness of the steps of each refresh
coroutine: the event loop runs what can run, SQLite waits five seconds at most
for its lock (`busy_timeout`), and a call to Entra ends with an answer or a
transport error.  `attaching` assumes weak fairness of each attach call: httpx
has time-outs, and the delay before a retry is bounded by
`graph_max_retry_delay_seconds`.  `keys` assumes weak fairness of the steps of a
coroutine and of the end of its request (httpx time-outs), and strong fairness
of taking the lock: `asyncio.Lock` serves its waiters in order, which is more.
`extraction` assumes the same of the semaphore, that the timer of
`asyncio.wait_for` goes off, and that a process that was killed ends; a worker
nobody kills may hang for good.  Nothing is assumed of clients, of the clock, of
Graph carrying a write out, or of the provider answering.  That the cleanup
tasks wake up on time is part of the models: `Tick` does not pass `nextCleanup`.

## 4. The proofs

TLAPS proves the following for every number of sessions, requests, handles and
calls, every limit, every time to live and every clock (assumptions: limits and
times are positive, `None` differs from the values beside it, there is a key,
and where something is counted finitely many handles are minted or calls made;
all are checked by TLC on each instance).

| Theorems | Module | Argument |
|---|---|---|
| `TypeCorrect`, `Invariant`, `SingleUse`, `SealCorrect`, `HistoryCorrect`, `RejectionCorrect`, `RevocationCorrect`, `HistoryStaysBounded`, `RotationImplemented`, `RevocationHasCause`, `HandlesWork` | `RefreshProofs` | `IInv` below |
| `RefreshTerminates`, `ReplayPunished` | `RefreshProofs` | liveness, below |
| `ServerTypeCorrect`, `ServerRefinement`, `ServerSingleUse`, `ServerRejection` | `AuthorizationServerProofs` | each step of the server is a step of `RefreshSessions` or leaves its variables alone; the theorems about sessions are inherited |
| `LedgerCorrect`, `OneToken`, `SessionsAreOfTheirAuthorization`, `SessionsAreBornUsable`, `RefusalsHaveCause` | `AuthorizationServerProofs` | `LedgerInv` below |
| `SessionsAreConsented` | `AuthorizationServerProofs` | refinement of `ConsentedSessions`, below |
| `UploadsTypeCorrect`, `ReleasedInTimeHolds`, `UploadsCorrect`, `HandlesKeepPromises`, `HandlesUsedOnce`, `LimitsAreKept`, `HandlesLostForCause`, `UploadsImplementSingleUse` | `UploadProofs` | `UploadsInv` below |
| `DraftsTypeCorrect`, `AttachedOnce`, `AnswersHold`, `DraftsImplementSingleUse` | `DraftProofs` | each step of the composition is a step of `AttachmentUploads` or leaves its variables alone; `Graph` below |
| `AttachingDeliversOnce` | `DraftProofs` | refinement of `OneDelivery`, below |
| `CallsNeverRecede`, `RetriesComeDown` | `DraftProofs` | what a call has left to do is a number; liveness, below |
| `DownloadsCorrect`, `TicketsReleased`, `TicketsServedOnce`, `CapacityHolds`, `TicketsEvictedForRoom`, `TicketsImplementSingleUse` | `DownloadProofs` | `DownloadsInv` below |
| `SigningKeysInvariant`, `PublishedKeysAreFoundHolds`, `WithdrawnKeysExpireHolds`, `KeysNeverGoBackHolds` | `SigningKeysProofs` | `SigningKeysInv` below |
| `KeysAreTrusted` | `SigningKeysProofs` | refinement of `TrustedKeys`, below |
| `ValidationEndsHolds` | `SigningKeysProofs` | liveness, below |
| `ExtractionInvariant`, `ExtractionAnswersHold`, `WorkersWithinSlotsHolds` | `ExtractionProofs` | `ExtractionInv` below |
| `ReadsEndHolds` | `ExtractionProofs` | liveness, below |
| `LocalInvariant`, `SpentStateForCauseHolds`, `CarriedOutOnceHolds` | `LocalSessionProofs` | `LocalInv` below |

*`IInv`.*  "No handle is rotated twice" says nothing about the table, so it is
not inductive.  What carries it: the row of a session holds a minted handle of
its own; a request that was answered with a token has minted its own name and
the row no longer holds the handle it spent (`MintedByRotation`).  The seal is
computed from a snapshot taken several awaits earlier; it is right because the
handle in the row determines the count and the identity (`SnapshotsAreCurrent`),
and the compare-and-swap checks the handle.  A request that is about to search
for a replay never holds a working handle (`RejectingHandlesAreSpent`): that is
why `invalid_grant` cannot leave a rotated successor alive.

From it follow three more.  A rotation adds one spent handle, which no row of the
history had, and it saw fewer than the limit: `HistoryStaysBounded`.  Under the
mapping to `RotatingHandles` a step that issues opens a family, a step that
rotates uses its handle, and every other step closes some families or none:
`RotationImplemented`.  For `RevocationHasCause` each request carries its reason: one
that is about to revoke has met a cause, one on its way to the rotation has met none
so far and saw a count below the limit, and each row of the history was left there
by a request of the family's client, which makes a replay a second presentation.
`HandlesWork` goes through the writers: rotation, the revoking updates and
reclaiming are all that touch a row; a row that is live at the current time is not
terminal at any earlier reading, so only a rotation or a revocation ends it, and
both answer a request of its client in that step.

*`LedgerInv`.*  It has three parts.  `FlowInv`: a transaction exists only after a
redirect; a callback that is past its consuming UPDATE leaves the row completed or
reclaimed, a code exists only for such a callback, and an exchange that holds a
code leaves it used or reclaimed.  One token per authorization is the composition
of the two "at most once".  `BindingInv`: a step is described by what it copies, from
the authorize request to the transaction, the callback, the code, the exchange and
the session; no step of the sessions changes an owner, so the equalities compose to
`SessionOfAuthorization`.  An exchange under way has a code of the running
deployment, because a restart ends it: `NoStillbornSession`.  `NothingIsLost`: a
transaction that is missing or completed was returned to or has expired, a code was
redeemed or has expired; every reading of the clock a writer reclaims with is past
(`ReadingsArePast`, also of the refresh requests), hence `RefusedForCause`.

*`UploadsInv`.*  `CleanupIsNear` ties the clock, the next wake-up and every
expiry together and gives `ReleasedInTime`.  `HandlesAge` says a handle goes
through minted, granted, filled, taken, and never back: it is in one table at
most, a filled one is no longer granted, a taken one is in no table.  For
`LimitsAreKept` the bytes of a file are named by its handle and their position:
those pruning keeps and those it drops are disjoint, so the counter is their
number before and after; and the slots in use are the bodies being received.
Every step of the store mints, fills or takes one handle, or none of these
(`StoreSteps`); what it drops besides are the handles that leave both tables, which
is the step of `SingleUseHandles` that `UploadsImplementSingleUse` needs.
Pruning keeps every row that has not expired (`FilesStay`, `GrantsStay`), which
leaves two ways to lose one, the push that fills it and the call that takes it:
`HandlesLostForCause`.

*`Graph`.*  What a call may still write, and what it wrote, is fixed by the
request it is at.  A POST is retried only after an attempt that is neither on
its way nor carried out, so a call has one POST at most.  A range of an upload
session is sent once; ranges start at multiples of `ChunkBytes`, and the earlier
ones of a call end where the current one starts or before, which is below the
size of the file, so there is one last range.  With `UsedOnce` no two calls have
the same file: together this is `AttachedAtMostOnce`.  A call at a range has all
the earlier ones in the mailbox, hence `AnswersAreTrue`.

*`DownloadsInv`.*  The table is in the order of expiry because the time to live
is one constant and the clock does not go back; therefore what the pruning loop
leaves has not expired.  Rows are the issued ones, tokens are pairwise different
and none was served.  The two loops are shown to stop by the least-element
property of the naturals (`LeastNat`); the byte counter is shown true by naming
bytes after the token of their row, so that rows of different tokens are
disjoint.  The tickets are as many as the rows at most, hence an issue finds room in
the abstract store (`TicketsImplementSingleUse`).  The count an issue evicts is the
least that makes room: for the last row it pops, the ones that were still to come
would have left too little (`IssueLeaves`), hence `TicketsEvictedForRoom`.

*`SigningKeysInv`.*  What a validation concludes rests on when its document was
asked for, so the document carries that time.  A request in flight holds the lock
(`LockIsHeldToFetch`), hence the cache does not change under it and it was asked
for after the cached document was stored: `KeysNeverGoBack`.  A document is the
set of keys published at some moment since it was asked for (`KeysAreGenuine`):
a key it lacks was published later or is withdrawn, a key it has was not yet
withdrawn.  The last forced refresh is in flight, in the cache, or lost
(`ForcedRefreshIsCached`): a key that is missing after a whole cool-down can only
have been missed by a refresh that was lost.

*`ExtractionInv`.*  A slot is free or held by one call (`SlotsAreCounted`), and a
process works only while its call waits for its output (`Supervised`); working
processes are thus injected into calls that hold a slot.  The limits agree
because `4 * ((n + 2) \div 3)` is monotone, which is the lemma under
`ExtractionAnswersHold`.

*`LocalInv`.*  A process that was not disturbed knows the file (`FileIsKnown`),
unless it is about to replace it or works with a state it could not save for want
of the folder; for the step that opens the file this needs that one process writes
at a time and that the file is torn as long as it does (`OneWriter`).
`SpentStateForCause` is about every process, disturbed or not.  A state goes to the
file in the step that ends its write; until then it is known to its process only and
nobody has used its refresh token (`NewStatesAreOwn`), so it is not a spent one when
it gets there.  A state in the file is spent by a refresh, whose process is then
about to save the successor; that ends with the file replaced, or with a failure
that is recorded.  An ephemeral process never spends the state in the file
(`EphemeralApart`).

*Refinement of `ConsentedSessions`.*  Most steps of the server change nothing a client
sees; they only make some sessions end, since every writer reclaims.  Four kinds
of step do change something, and each needs that it comes first.  A callback
consents: its transaction was open, and `FlowInv` says that no other callback of
the request holds a code.  An exchange redeems: the code was unused and its callback
is the one that was consented to.  It issues: the code belongs to the running
deployment, which is the one consented to (`BindingInv`), and the new session is
no other request's.  An authorize call asks, once.  A restart
changes the deployment and lets sessions end, and a step of a refresh leaves the
owner of every session that stays.  `NoStillbornSession` follows: a session is
opened under the settings it was consented under, or not at all.

*Refinement of `OneDelivery`.*  A file has a copy exactly when it has an
attachment in the mailbox, of which `AttachedAtMostOnce` leaves one.  A write
that completes an attachment may arrive after its call was answered with an
error, but not after `not_draft`, since then nothing was sent (`Graph`); the call
that is told `attached` has its copy already (`AnswersAreTrue`).  A restart
tells nobody anything any more.

*Refinement of `TrustedKeys`.*  A coroutine asks while it is neither idle nor
done.  All of its steps are invisible but three: its end without a document, a
lookup in a cached document, whose age the lookup has checked, and the arrival of
a document, which replaces the cache and may answer at once.  That the arrival is
allowed is what the invariant is for: the lock was held since the document was
asked for, so the one it replaces was stored before (`LockIsHeldToFetch`,
`TimesAreOrdered`), and it lists what was published since (`KeysAreGenuine`).
`KeysNeverGoBack` is the first half of this, on its own.

*Liveness.*  The theorems assume `FairSpec` (`FairAttachments`) of section 3 and
`[]NeverStuck`.  The latter says of every state what the fairness is worth there:
a coroutine that is not waiting has a step.  It is an ENABLED of an action, about
which the prover knows nothing; TLC evaluates it, and `INVARIANT NeverStuck` passes
when it is added to `MCRefreshSessions.cfg`, `MCRefreshTwoFamilies.cfg`,
`MCSigningKeys.cfg`, `MCExtraction.cfg` or `MCDraftAttachments.cfg`.  What the
proofs supply is the rest of the argument, for any number of coroutines.
A refresh goes through its steps in one direction, six at most, whatever the
others do (`RefreshTerminates`); on its way a spent handle stays spent, or the
family is gone, so it ends in an answer that closed the family (`ReplayPunished`).
A validation goes through an order of places and never back.  Waiting for the
lock is where others matter: whoever holds it has a request in flight, which ends
and frees it, so the lock is free again and again, and strong fairness takes it
(`ValidationEndsHolds`).  The slots of the extraction are given back in the same
way, for which the process of a call that timed out must be killed and reaped
first (`ReadsEndHolds`).  An attach call has requests and bytes left, which no step
increases, and attempts within a request, which go up to the limit of retries
(`CallsNeverRecede`); from any of its places it gets to a later one
(`RetriesComeDown`).

*Only model-checked:* `CallsEnd`.  That a call which gets on from each of finitely
many places comes to the end is an induction in temporal logic over a number of
steps that depends on the size of the file; it is out of the prover's reach, and
`RetriesComeDown` is what it rests on.  So is `[]NeverStuck`, as said, and what
recursive definitions compute for every input, of which there are none.
`ImplementsRefreshSessions` (`ServerRefinement`), `NoStillbornSession`
(`SessionsAreBornUsable`), `KeysNeverGoBack` and `TakenAsPromised`
(`HandlesKeepPromises`) are proved and not run on their own; the last two are parts
of `ImplementsTrustedKeys` and of `UploadsInv`.

## 5. Disagreements between code and documentation

* `concurrent_use`: two requests pass the lookup with the same handle; the first
  rotates it, and the second is then answered 503 (Entra, identity metadata or the
  store fails, `sessions.py:163`, 173, 212): it returns without looking for the
  replay, and the family stays active.  A plain retry after a 503, when the handle
  was not rotated meanwhile, is not meant and not counted.  `docs/security.md:182`: "Concurrent or replayed use of any
  old handle returns `invalid_grant` and atomically revokes the active family".
* `upload_expiry`: `complete_push_grant` gives the pushed bytes a new time to live
  (`uploads.py:192`), so the handle works for up to ten minutes;
  `docs/tool-spec.md:70` says "a five-minute `upload_handle`".
* `key_outage`: the cool-down of forced refreshes starts before the keys are
  asked for (`oidc.py:85`), also when the provider fails to answer.  For a minute a
  token whose key was published before that request is then refused as unknown, not
  as unavailable, and the refresh endpoint revokes its session (`sessions.py:180`).
  Only a request that failed counts here (`forcedFailed`), not a validation that was
  cancelled.
  `docs/workbuddy-oauth.md:106`: "A transient upstream or identity-metadata outage
  returns `temporarily_unavailable` without consuming the current local refresh
  token."

## 6. What is left out

* Contents of tokens, caches, files, names and headers; the ciphertext is
  reduced to the context it is bound to.  Deployment stands for public URL and
  required scopes together.  `id` and rotation family of a session are one name.
  The issuer and the encryption key do not change.  Clocks do not go back.
* The queue of the upload semaphore is not ordered (any waiter may get a slot).
  A stalled client keeps its slot: the code has no time-out there, and nothing
  is claimed about it.
* Microsoft Graph and Entra are environments: a 4xx or 429 means the request was
  not carried out; a draft is not sent by its user while a call attaches to it.
* Registration of clients: rows are written once and never change, so the flow
  takes them as constants.  Redirect URIs, PKCE and AES-GCM are data.
* Of a token its key is modelled; signature, claims, issuer and scopes are one
  judgement, and the reading of its header is data.  There is one tenant.
* What a parser makes of a document is a property of the document; its memory
  and processor limits are an early end of the process.
* On Windows: PKCE, the loopback listener and DPAPI are data; there is one client
  and one tenant; the tools that combine several requests, the protocol of the
  stdio loop and `AttachmentPushClient` (one file, one POST, whose server side is
  in `AttachmentUploads`) are not modelled.
* On-behalf-of tokens (a client per tenant, created once and never dropped), the
  completion page, audit, settings and the assembly of the application keep no
  state that an operation changes.  The mail tools that are one Graph request
  keep none either.

## 7. Plan

1. `RefreshSessions` with invariants, abstract rotation and proofs: done.
2. `AuthorizationServer`, its refinement of 1 and the flow proofs: done.
3. `AttachmentUploads`, abstract single-use handles and proofs: done.
4. `DraftAttachments`, the composition of 3 with the Graph client: done.
5. `AttachmentDownloads` and proofs: done.
6. `SigningKeys` and proofs: done.
7. `Extraction` and proofs: done.
8. `LocalSession` and proofs: done.
9. What clients and users are promised, as abstract specifications:
   `ConsentedSessions`, `OneDelivery` and `TrustedKeys`, with their refinements:
   done.
10. Liveness of 1, 4, 6 and 7 from their fairness: done, but for the last
    induction of `CallsEnd`.
11. An abstract specification of the extraction slots (7) and its refinement.
12. The Windows tools that combine several requests, of which a later one may
    fail, and the composition of `SigningKeys` with `RefreshSessions`: the latter
    now takes the verdict of a validation as a nondeterministic choice.
