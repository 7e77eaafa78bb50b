------------------------- MODULE AttachmentUploads -------------------------
(***************************************************************************)
(* Staging of draft attachments: AttachmentUploadStore and its two HTTP      *)
(* routes (mail/uploads.py), with the two MCP tools that prepare and consume *)
(* a handle (mail/tools.py).                                                *)
(*                                                                         *)
(* Every store operation holds the store's lock and awaits nothing, so it is *)
(* one action; each begins by pruning what has expired.  The routes suspend  *)
(* while they wait for one of the upload slots and while a body is received: *)
(* the clock, the cleanup task, every other call or a restart may interleave *)
(* there.  Everything is in memory: a restart loses it.                      *)
(*                                                                         *)
(* A handle is a fresh random value, named here for the operation that mints *)
(* it: the POST that stages a file or the call that prepares a push.  File   *)
(* name and MIME type travel with the content and are left out of it.        *)
(***************************************************************************)
EXTENDS Integers, FiniteSets

CONSTANTS
    Stagings,        \* POST /uploads/attachments requests, each sent once
    Grants,          \* mail_prepare_attachment_push calls
    Pushes,          \* POST /uploads/push requests, each sent once
    Attaches,        \* mail_add_draft_attachment calls, each made once
    Owners,          \* identities (tenant id, user id, subject)
    Drafts,          \* draft ids
    Sizes,           \* lengths a file may have, up to MAX_SEND_ATTACHMENT_BYTES
    Digests,         \* SHA-256 digests
    MaxItems,        \* max_items
    MaxTotalBytes,   \* max_total_bytes
    MaxPushGrants,   \* max_push_grants
    Ttl,             \* ttl_seconds
    CleanupPeriod,   \* min(60, max(1, ttl / 2))
    UploadSlots,     \* asyncio.Semaphore(4)
    MaxTime,         \* bound on the clock
    None

VARIABLES
    clock,         \* time.monotonic()
    entries,       \* _entries: staged files, by handle
    grants,        \* _push_grants, by handle
    totalBytes,    \* _total_bytes
    nextCleanup,   \* when the sleep of _cleanup_loop ends
    slots,         \* free upload slots
    bodies,        \* the coroutines of the two routes
    prepared,      \* the answers of prepare_attachment_push (history variable)
    attaches       \* the consuming side of the add_draft_attachment calls

storeVars == <<entries, grants, totalBytes>>
vars == <<clock, storeVars, nextCleanup, slots, bodies, prepared, attaches>>

Handles == Stagings \cup Grants
Bodies == Stagings \cup Pushes

Content == [size : Sizes, digest : Digests]

Entry ==
    [owner : Owners, content : Content, draft : Drafts \cup {None}, expiresAt : Nat]
PushGrant ==
    [owner : Owners, content : Content, draft : Drafts, expiresAt : Nat]
Promise ==
    [owner : Owners, content : Content, draft : Drafts \cup {None}]

Body ==
    [pc : {"unsent", "waiting", "receiving", "done"},
     owner : Owners \cup {None},       \* of a staging: the Bearer identity
     handle : Handles \cup {None},     \* of a push: X-Upload-Handle
     expected : Nat,                   \*   and expected_size
     content : Content \cup {None},    \* the bytes received
     answer : {"none", "created", "refused", "full", "lost"}]

Attach ==
    [owner : Owners \cup {None}, draft : Drafts \cup {None},
     handle : Handles \cup {None}, content : Content \cup {None},
     answer : {"none", "refused", "taken"}]

ASSUME UploadLimitsAssumption ==
    /\ MaxItems \in Nat \ {0}
    /\ MaxTotalBytes \in Nat \ {0}
    /\ MaxPushGrants \in Nat \ {0}
    /\ Ttl \in Nat \ {0}
    /\ CleanupPeriod \in Nat \ {0}
    /\ UploadSlots \in Nat \ {0}
    /\ MaxTime \in Nat
    /\ Sizes \subseteq Nat \ {0}
ASSUME UploadNamesAssumption ==
    /\ Stagings \cap Grants = {}
    /\ Stagings \cap Pushes = {}
    /\ None \notin Entry \cup PushGrant \cup Promise \cup Content
    /\ None \notin Handles \cup Owners \cup Drafts
\* a process serves finitely many requests
ASSUME UploadFiniteAssumption ==
    IsFiniteSet(Stagings) /\ IsFiniteSet(Grants) /\ IsFiniteSet(Pushes)

UploadsTypeOK ==
    /\ clock \in Nat
    /\ entries \in [Handles -> Entry \cup {None}]
    /\ grants \in [Grants -> PushGrant \cup {None}]
    /\ totalBytes \in Int
    /\ nextCleanup \in Nat
    /\ slots \in Int
    /\ bodies \in [Bodies -> Body]
    /\ prepared \in [Grants -> PushGrant \cup {None}]
    /\ attaches \in [Attaches -> Attach]
    /\ \A b \in Bodies : bodies[b].pc # "unsent" =>
          IF b \in Stagings THEN bodies[b].owner # None ELSE bodies[b].handle # None

-----------------------------------------------------------------------------
(* The store *)

\* what _prune keeps: expires_at <= now is dropped
Unexpired(row) == row # None /\ row.expiresAt > clock

Kept == {h \in Handles : Unexpired(entries[h])}
KeptGrants == {g \in Grants : Unexpired(grants[g])}

\* the positions of the staged bytes of some handles: len() of their contents
Bytes(H) ==
    {p \in H \X (1 .. MaxTotalBytes) :
        entries[p[1]] # None /\ p[2] <= entries[p[1]].content.size}

\* Mutant: _prune forgets the bytes of what it drops.
KeptBytesUncounted == totalBytes

\* _total_bytes after _prune
KeptBytes == totalBytes - Cardinality(Bytes(Handles \ Kept))

PrunedEntries == [h \in Handles |-> IF h \in Kept THEN entries[h] ELSE None]
PrunedGrants == [g \in Grants |-> IF g \in KeptGrants THEN grants[g] ELSE None]

Prune ==
    /\ entries' = PrunedEntries
    /\ grants' = PrunedGrants
    /\ totalBytes' = KeptBytes

Full(content) ==
    \/ Cardinality(Kept) >= MaxItems
    \/ KeptBytes + content.size > MaxTotalBytes

\* the file of handle h enters the store, with a time to live of its own
PutEntry(h, owner, content, draft) ==
    /\ entries' = [PrunedEntries EXCEPT ![h] =
                     [owner |-> owner, content |-> content, draft |-> draft,
                      expiresAt |-> clock + Ttl]]
    /\ totalBytes' = KeptBytes + content.size

\* Mutant: the draft of the grant is not compared.
MatchesOwner(h, owner, draft) == h \in Kept /\ entries[h].owner = owner

\* consume: the owner, and for a pushed file the draft, must match
Matches(h, owner, draft) ==
    /\ h \in Kept
    /\ entries[h].owner = owner
    /\ entries[h].draft \in {None, draft}

-----------------------------------------------------------------------------
NoBody ==
    [pc |-> "unsent", owner |-> None, handle |-> None, expected |-> 0,
     content |-> None, answer |-> "none"]
NoAttach ==
    [owner |-> None, draft |-> None, handle |-> None, content |-> None,
     answer |-> "none"]

Init ==
    /\ clock = 0
    /\ entries = [h \in Handles |-> None]
    /\ grants = [g \in Grants |-> None]
    /\ totalBytes = 0
    /\ nextCleanup = CleanupPeriod
    /\ slots = UploadSlots
    /\ bodies = [b \in Bodies |-> NoBody]
    /\ prepared = [g \in Grants |-> None]
    /\ attaches = [a \in Attaches |-> NoAttach]

\* handles a client may have: minted, live or not
Minted(h) ==
    IF h \in Stagings THEN bodies[h].answer = "created" ELSE prepared[h] # None

BodyAt(b, pc) == bodies[b].pc = pc

Answer(b, answer) ==
    bodies' = [bodies EXCEPT ![b] = [@ EXCEPT !.pc = "done", !.answer = answer]]

\* the headers of a file to stage are in order
StageArrives(b, owner) ==
    /\ BodyAt(b, "unsent")
    /\ bodies' = [bodies EXCEPT ![b] = [@ EXCEPT !.pc = "waiting", !.owner = owner]]
    /\ UNCHANGED <<clock, storeVars, nextCleanup, slots, prepared, attaches>>

\* push_grant_size, then the headers: 404, 415 and 400 are the refusals
PushArrives(b, h, wellFormed) ==
    /\ BodyAt(b, "unsent")
    /\ Minted(h)
    /\ Prune
    /\ bodies' = [bodies EXCEPT ![b] =
          IF h \in KeptGrants /\ wellFormed
          THEN [@ EXCEPT !.pc = "waiting", !.handle = h,
                         !.expected = grants[h].content.size]
          ELSE [@ EXCEPT !.pc = "done", !.handle = h, !.answer = "refused"]]
    /\ UNCHANGED <<clock, nextCleanup, slots, prepared, attaches>>

AcquireSlot(b) ==
    /\ BodyAt(b, "waiting")
    /\ slots > 0
    /\ slots' = slots - 1
    /\ bodies' = [bodies EXCEPT ![b].pc = "receiving"]
    /\ UNCHANGED <<clock, storeVars, nextCleanup, prepared, attaches>>

\* the client disconnects, its body is too long (413), or a file to stage is
\* empty (400): the store is not asked
BodyFails(b) ==
    /\ BodyAt(b, "receiving")
    /\ slots' = slots + 1
    /\ Answer(b, "refused")
    /\ UNCHANGED <<clock, storeVars, nextCleanup, prepared, attaches>>

\* the last chunk of a body; issue
StageReceived(b, content) ==
    /\ BodyAt(b, "receiving")
    /\ slots' = slots + 1
    /\ grants' = PrunedGrants
    /\ IF Full(content)
       THEN /\ Answer(b, "full")
            /\ entries' = PrunedEntries
            /\ totalBytes' = KeptBytes
       ELSE /\ PutEntry(b, bodies[b].owner, content, None)
            /\ bodies' = [bodies EXCEPT ![b] =
                  [@ EXCEPT !.pc = "done", !.content = content, !.answer = "created"]]
    /\ UNCHANGED <<clock, nextCleanup, prepared, attaches>>

\* the body is complete: its grant is gone, or it does not match the grant
PushRefused(b, content) ==
    LET h == bodies[b].handle IN
    /\ BodyAt(b, "receiving")
    /\ content.size <= bodies[b].expected
    /\ h \in KeptGrants => grants[h].content # content
    /\ slots' = slots + 1
    /\ Prune
    /\ Answer(b, "refused")
    /\ UNCHANGED <<clock, nextCleanup, prepared, attaches>>

\* the body matches, the store has no room: the grant stays
PushFull(b, content) ==
    LET h == bodies[b].handle IN
    /\ BodyAt(b, "receiving")
    /\ h \in KeptGrants /\ grants[h].content = content
    /\ Full(content)
    /\ slots' = slots + 1
    /\ Prune
    /\ Answer(b, "full")
    /\ UNCHANGED <<clock, nextCleanup, prepared, attaches>>

\* Mutant: del self._push_grants[digest] is missing.
PushCompletesKeepingGrant(b, content) ==
    LET h == bodies[b].handle IN
    /\ BodyAt(b, "receiving")
    /\ h \in KeptGrants /\ grants[h].content = content
    /\ ~ Full(content)
    /\ slots' = slots + 1
    /\ grants' = PrunedGrants
    /\ PutEntry(h, grants[h].owner, content, grants[h].draft)
    /\ bodies' = [bodies EXCEPT ![b] =
          [@ EXCEPT !.pc = "done", !.content = content, !.answer = "created"]]
    /\ UNCHANGED <<clock, nextCleanup, prepared, attaches>>

\* complete_push_grant: the grant becomes an entry under the same handle
PushCompletes(b, content) ==
    LET h == bodies[b].handle IN
    /\ BodyAt(b, "receiving")
    /\ h \in KeptGrants /\ grants[h].content = content
    /\ ~ Full(content)
    /\ slots' = slots + 1
    /\ grants' = [PrunedGrants EXCEPT ![h] = None]
    /\ PutEntry(h, grants[h].owner, content, grants[h].draft)
    /\ bodies' = [bodies EXCEPT ![b] =
          [@ EXCEPT !.pc = "done", !.content = content, !.answer = "created"]]
    /\ UNCHANGED <<clock, nextCleanup, prepared, attaches>>

-----------------------------------------------------------------------------
\* issue_push_grant
Prepare(g, owner, draft, content) ==
    /\ prepared[g] = None
    /\ Cardinality(KeptGrants) < MaxPushGrants
    /\ entries' = PrunedEntries
    /\ totalBytes' = KeptBytes
    /\ LET grant == [owner |-> owner, content |-> content, draft |-> draft,
                     expiresAt |-> clock + Ttl]
       IN  /\ grants' = [PrunedGrants EXCEPT ![g] = grant]
           /\ prepared' = [prepared EXCEPT ![g] = grant]
    /\ UNCHANGED <<clock, nextCleanup, slots, bodies, attaches>>

\* no room: the call may be made again
PrepareRefused(g) ==
    /\ prepared[g] = None
    /\ Cardinality(KeptGrants) >= MaxPushGrants
    /\ Prune
    /\ UNCHANGED <<clock, nextCleanup, slots, bodies, prepared, attaches>>

AttachOf(owner, draft, h, content, answer) ==
    [owner |-> owner, draft |-> draft, handle |-> h, content |-> content,
     answer |-> answer]

\* Mutant: the entry is popped before its owner is compared.
ConsumePops(a, owner, draft, h) ==
    /\ attaches[a] = NoAttach
    /\ Minted(h)
    /\ ~ Matches(h, owner, draft)
    /\ entries' = [PrunedEntries EXCEPT ![h] = None]
    /\ totalBytes' = totalBytes - Cardinality(Bytes((Handles \ Kept) \cup {h}))
    /\ grants' = PrunedGrants
    /\ attaches' = [attaches EXCEPT ![a] = AttachOf(owner, draft, h, None, "refused")]
    /\ UNCHANGED <<clock, nextCleanup, slots, bodies, prepared>>

\* consume returns None: invalid_or_expired, and the entry stays
ConsumeRefused(a, owner, draft, h) ==
    /\ attaches[a] = NoAttach
    /\ Minted(h)
    /\ ~ Matches(h, owner, draft)
    /\ Prune
    /\ attaches' = [attaches EXCEPT ![a] = AttachOf(owner, draft, h, None, "refused")]
    /\ UNCHANGED <<clock, nextCleanup, slots, bodies, prepared>>

\* Mutant: the entry is read and not deleted.
ConsumeKeepsEntry(a, owner, draft, h) ==
    /\ attaches[a] = NoAttach
    /\ Matches(h, owner, draft)
    /\ Prune
    /\ attaches' = [attaches EXCEPT ![a] =
          AttachOf(owner, draft, h, entries[h].content, "taken")]
    /\ UNCHANGED <<clock, nextCleanup, slots, bodies, prepared>>

\* consume returns the payload, which leaves the store before Graph is called
Consume(a, owner, draft, h) ==
    /\ attaches[a] = NoAttach
    /\ Matches(h, owner, draft)
    /\ entries' = [PrunedEntries EXCEPT ![h] = None]
    /\ totalBytes' = KeptBytes - entries[h].content.size
    /\ grants' = PrunedGrants
    /\ attaches' = [attaches EXCEPT ![a] =
          AttachOf(owner, draft, h, entries[h].content, "taken")]
    /\ UNCHANGED <<clock, nextCleanup, slots, bodies, prepared>>

-----------------------------------------------------------------------------
\* Mutant: the loop sleeps for a whole time to live.
NextWakeAfterTtl == clock + Ttl

NextWake == clock + CleanupPeriod

\* _cleanup_loop wakes up: purge_expired, then the next sleep
Cleanup ==
    /\ clock >= nextCleanup
    /\ Prune
    /\ nextCleanup' = NextWake
    /\ UNCHANGED <<clock, slots, bodies, prepared, attaches>>

\* aclose and clear, or a crash; a new process starts with empty tables
Restart ==
    /\ entries' = [h \in Handles |-> None]
    /\ grants' = [g \in Grants |-> None]
    /\ totalBytes' = 0
    /\ nextCleanup' = NextWake
    /\ slots' = UploadSlots
    /\ bodies' = [b \in Bodies |->
          IF bodies[b].pc \in {"waiting", "receiving"}
          THEN [bodies[b] EXCEPT !.pc = "done", !.answer = "lost"]
          ELSE bodies[b]]
    /\ UNCHANGED <<clock, prepared, attaches>>

\* the event loop runs the cleanup task on time
Tick ==
    /\ clock < MaxTime
    /\ clock < nextCleanup
    /\ clock' = clock + 1
    /\ UNCHANGED <<storeVars, nextCleanup, slots, bodies, prepared, attaches>>

BodyStep(b) == AcquireSlot(b) \/ BodyFails(b)

StageStep(b) ==
    \/ \E owner \in Owners : StageArrives(b, owner)
    \/ \E content \in Content : StageReceived(b, content)

PushStep(b) ==
    \/ \E h \in Handles, wellFormed \in BOOLEAN : PushArrives(b, h, wellFormed)
    \/ \E content \in Content :
          PushRefused(b, content) \/ PushFull(b, content) \/ PushCompletes(b, content)

PrepareStep(g) ==
    \/ PrepareRefused(g)
    \/ \E owner \in Owners, draft \in Drafts, content \in Content :
          Prepare(g, owner, draft, content)

AttachStep(a) ==
    \E owner \in Owners, draft \in Drafts, h \in Handles :
        Consume(a, owner, draft, h) \/ ConsumeRefused(a, owner, draft, h)

Next ==
    \/ Tick \/ Cleanup \/ Restart
    \/ \E b \in Bodies : BodyStep(b)
    \/ \E b \in Stagings : StageStep(b)
    \/ \E b \in Pushes : PushStep(b)
    \/ \E g \in Grants : PrepareStep(g)
    \/ \E a \in Attaches : AttachStep(a)

Spec == Init /\ [][Next]_vars

-----------------------------------------------------------------------------
(* Properties *)

(* The byte counter that admits files is the truth after any sequence of     *)
(* uploads, pushes, consumptions, expiries and shutdowns, and with it the     *)
(* store stays within its limits: files, bytes, grants; a slot is held by     *)
(* the bodies being received and by nothing else.                            *)
WithinLimits ==
    /\ totalBytes = Cardinality(Bytes(Handles))
    /\ totalBytes <= MaxTotalBytes
    /\ Cardinality({h \in Handles : entries[h] # None}) <= MaxItems
    /\ Cardinality({g \in Grants : grants[g] # None}) <= MaxPushGrants
    /\ slots + Cardinality({b \in Bodies : BodyAt(b, "receiving")}) = UploadSlots
    /\ slots >= 0

(* No caller has to come for expired bytes and grants to leave the memory:   *)
(* they are gone less than one cleanup period after they expire.             *)
ReleasedInTime ==
    /\ \A h \in Handles :
          entries[h] # None => clock < entries[h].expiresAt + CleanupPeriod
    /\ \A g \in Grants :
          grants[g] # None => clock < grants[g].expiresAt + CleanupPeriod

PromiseOf(row) == [owner |-> row.owner, content |-> row.content, draft |-> row.draft]

\* what a minted handle stands for
Promised(h) ==
    IF h \in Stagings
    THEN [owner |-> bodies[h].owner, content |-> bodies[h].content, draft |-> None]
    ELSE PromiseOf(prepared[h])

(* A handle stands for the same owner, bytes and draft from the moment it is *)
(* minted, through the push by whoever holds it, to the call that takes it:  *)
(* only its owner can, for the draft it was prepared for, and what is taken  *)
(* is what was announced.                                                    *)
TakenAsPromised ==
    /\ \A h \in Handles : entries[h] # None => PromiseOf(entries[h]) = Promised(h)
    /\ \A g \in Grants : grants[g] # None => PromiseOf(grants[g]) = Promised(g)
    /\ \A a \in Attaches : attaches[a].answer = "taken" =>
          LET p == Promised(attaches[a].handle)
          IN  /\ attaches[a].owner = p.owner
              /\ attaches[a].content = p.content
              /\ p.draft \in {None, attaches[a].draft}

(* One file per handle and one use: of all the pushes and of all the         *)
(* attachment calls that present a handle, in whatever order, at most one    *)
(* push and at most one call succeed.                                        *)
UsedOnce ==
    /\ \A b1, b2 \in Pushes :
          /\ bodies[b1].answer = "created" /\ bodies[b2].answer = "created"
          /\ bodies[b1].handle = bodies[b2].handle
          => b1 = b2
    /\ \A a1, a2 \in Attaches :
          /\ attaches[a1].answer = "taken" /\ attaches[a2].answer = "taken"
          /\ attaches[a1].handle = attaches[a2].handle
          => a1 = a2

(* A file or grant that has not expired is lost only to a restart: a foreign *)
(* owner, another draft, a wrong or oversized body, a full store or a broken *)
(* connection leave it usable.                                               *)
LostForCause ==
    [][ \/ Restart
        \/ /\ \A h \in Handles : h \in Kept /\ entries'[h] = None =>
                 \E a \in Attaches : /\ attaches[a].answer = "none"
                                     /\ attaches'[a].answer = "taken"
                                     /\ attaches'[a].handle = h
           /\ \A g \in Grants : g \in KeptGrants /\ grants'[g] = None =>
                 /\ entries'[g] # None
                 /\ PromiseOf(entries'[g]) = PromiseOf(grants[g]) ]_vars

(* The store implements the abstract single-use handles. *)
StagedHandles == {h \in Handles : entries[h] # None}
GrantedHandles == {g \in Grants : grants[g] # None}
MintedHandles == {h \in Handles : Minted(h)}
GoneHandles == MintedHandles \ (GrantedHandles \cup StagedHandles)
Promises == [h \in Handles |-> IF Minted(h) THEN Promised(h) ELSE None]
Takers ==
    [h \in Handles |-> {a \in Attaches : attaches[a].answer = "taken" /\ attaches[a].handle = h}]

Abstract == INSTANCE SingleUseHandles WITH
    Promises   <- Promise,
    Takers     <- Attaches,
    MaxStaged  <- MaxItems,
    MaxGranted <- MaxPushGrants,
    granted    <- GrantedHandles,
    staged     <- StagedHandles,
    gone       <- GoneHandles,
    promise    <- Promises,
    takers     <- Takers

ImplementsSingleUse == Abstract!Spec

(* docs/tool-spec.md:70: prepare_attachment_push returns "a five-minute      *)
(* upload_handle", and answers expires_in_seconds.  After that time the       *)
(* handle is of no use.                                                      *)
ExpiresAsAnswered ==
    \A g \in Grants :
        prepared[g] # None /\ clock >= prepared[g].expiresAt => g \notin Kept
=============================================================================
