---------------------------- MODULE UploadProofs ----------------------------
(***************************************************************************)
(* The upload store, for every number of handles, requests and limits: its   *)
(* type, the release of expired bytes in time, the promise of a handle, its  *)
(* single use, and the limits.                                              *)
(***************************************************************************)
EXTENDS UploadInvariants, FiniteSetTheorems, TLAPS

-----------------------------------------------------------------------------
(* The bytes of some handles, and what pruning leaves *)

LEMMA HandlesFinite == IsFiniteSet(Handles) /\ IsFiniteSet(Bodies)
  BY UploadFiniteAssumption, FS_Union DEF Handles, Bodies

LEMMA BytesFinite ==
    ASSUME NEW H \in SUBSET Handles
    PROVE  IsFiniteSet(Bytes(H)) /\ Cardinality(Bytes(H)) \in Nat
  <1>1. IsFiniteSet(H)
    BY HandlesFinite, FS_Subset
  <1>2. IsFiniteSet(1 .. MaxTotalBytes)
    BY UploadLimitsAssumption, FS_Interval
  <1>3. IsFiniteSet(H \X (1 .. MaxTotalBytes))
    BY <1>1, <1>2, FS_Product
  <1>4. Bytes(H) \in SUBSET (H \X (1 .. MaxTotalBytes))
    BY DEF Bytes
  <1>5. IsFiniteSet(Bytes(H))
    BY <1>3, <1>4, FS_Subset
  <1>6. QED
    BY <1>5, FS_CardinalityType

LEMMA PrunedType ==
    ASSUME UploadsTypeOK
    PROVE  /\ PrunedEntries \in [Handles -> Entry \cup {None}]
           /\ PrunedGrants \in [Grants -> PushGrant \cup {None}]
           /\ \A h \in Handles : PrunedEntries[h] \in {entries[h], None}
           /\ \A g \in Grants : PrunedGrants[g] \in {grants[g], None}
           /\ KeptBytes \in Int
  <1>1. Handles \ Kept \in SUBSET Handles
    OBVIOUS
  <1>2. Cardinality(Bytes(Handles \ Kept)) \in Nat
    BY <1>1, BytesFinite
  <1>3. KeptBytes \in Int
    BY <1>2 DEF KeptBytes, UploadsTypeOK
  <1>4. QED
    BY <1>3 DEF UploadsTypeOK, PrunedEntries, PrunedGrants

LEMMA RowFacts ==
    /\ \A e \in Entry : /\ e # None /\ e.owner \in Owners /\ e.content \in Content
                        /\ e.draft \in Drafts \cup {None} /\ e.expiresAt \in Nat
    /\ \A g \in PushGrant : /\ g # None /\ g.owner \in Owners /\ g.content \in Content
                            /\ g.draft \in Drafts /\ g.expiresAt \in Nat
    /\ \A c \in Content : c # None /\ c.size \in Nat \ {0}
  BY UploadNamesAssumption, UploadLimitsAssumption DEF Entry, PushGrant, Content

LEMMA PutEntryType ==
    ASSUME UploadsTypeOK, NEW h \in Handles, NEW owner \in Owners,
           NEW content \in Content, NEW draft \in Drafts \cup {None},
           PutEntry(h, owner, content, draft)
    PROVE  entries' \in [Handles -> Entry \cup {None}] /\ totalBytes' \in Int
  <1>1. clock + Ttl \in Nat
    BY UploadLimitsAssumption DEF UploadsTypeOK
  <1>2. [owner |-> owner, content |-> content, draft |-> draft,
         expiresAt |-> clock + Ttl] \in Entry
    BY <1>1 DEF Entry
  <1>3. QED
    BY <1>2, PrunedType, RowFacts DEF PutEntry

-----------------------------------------------------------------------------
(* Type correctness, one fact for each kind of step *)

\* a request body moves
BodiesOK ==
    /\ bodies \in [Bodies -> Body]
    /\ \A b \in Bodies : bodies[b].pc # "unsent" =>
          IF b \in Stagings THEN bodies[b].owner # None ELSE bodies[b].handle # None

\* the tables, their counter and the clocks
StoreOK ==
    /\ clock \in Nat /\ nextCleanup \in Nat /\ slots \in Int
    /\ entries \in [Handles -> Entry \cup {None}]
    /\ grants \in [Grants -> PushGrant \cup {None}]
    /\ totalBytes \in Int

CallsOK ==
    /\ prepared \in [Grants -> PushGrant \cup {None}]
    /\ attaches \in [Attaches -> Attach]

LEMMA TypeParts == UploadsTypeOK <=> StoreOK /\ BodiesOK /\ CallsOK
  BY DEF UploadsTypeOK, StoreOK, BodiesOK, CallsOK

LEMMA TypePartsNext == UploadsTypeOK' <=> StoreOK' /\ BodiesOK' /\ CallsOK'
  BY DEF UploadsTypeOK, StoreOK, BodiesOK, CallsOK

LEMMA PruneType ==
    ASSUME UploadsTypeOK, Prune, UNCHANGED <<clock, nextCleanup>>, slots' \in Int
    PROVE  StoreOK'
  BY PrunedType DEF UploadsTypeOK, StoreOK, Prune

LEMMA BodyMoves ==
    ASSUME BodiesOK, NEW b \in Bodies, NEW q \in Body, bodies' = [bodies EXCEPT ![b] = q],
           IF b \in Stagings THEN q.owner # None ELSE q.handle # None
    PROVE  BodiesOK'
  BY DEF BodiesOK

LEMMA AnswerType ==
    ASSUME BodiesOK, NEW b \in Bodies, ~ BodyAt(b, "unsent"),
           NEW answer \in {"refused", "full"}, Answer(b, answer)
    PROVE  BodiesOK'
  <1> DEFINE q == [bodies[b] EXCEPT !.pc = "done", !.answer = answer]
  <1>1. /\ bodies[b] \in Body
        /\ IF b \in Stagings THEN bodies[b].owner # None ELSE bodies[b].handle # None
    BY DEF BodiesOK, BodyAt
  <1>2. q \in Body /\ q.owner = bodies[b].owner /\ q.handle = bodies[b].handle
    BY <1>1 DEF Body
  <1>3. bodies' = [bodies EXCEPT ![b] = q]
    BY DEF Answer
  <1> HIDE DEF q
  <1>4. QED
    BY <1>1, <1>2, <1>3, BodyMoves

LEMMA CreatedType ==
    ASSUME BodiesOK, NEW b \in Bodies, ~ BodyAt(b, "unsent"), NEW content \in Content,
           bodies' = [bodies EXCEPT ![b] =
              [@ EXCEPT !.pc = "done", !.content = content, !.answer = "created"]]
    PROVE  BodiesOK'
  <1> DEFINE q == [bodies[b] EXCEPT !.pc = "done", !.content = content,
                                    !.answer = "created"]
  <1>1. /\ bodies[b] \in Body
        /\ IF b \in Stagings THEN bodies[b].owner # None ELSE bodies[b].handle # None
    BY DEF BodiesOK, BodyAt
  <1>2. q \in Body /\ q.owner = bodies[b].owner /\ q.handle = bodies[b].handle
    BY <1>1 DEF Body
  <1> HIDE DEF q
  <1>3. bodies' = [bodies EXCEPT ![b] = q]
    BY DEF q
  <1>4. QED
    BY <1>1, <1>2, <1>3, BodyMoves

LEMMA BodyStepType ==
    ASSUME UploadsTypeOK, NEW b \in Bodies, BodyStep(b)
    PROVE  UploadsTypeOK'
  <1> USE TypeParts, TypePartsNext
  <1>1. CASE AcquireSlot(b)
    <2>1. BodiesOK'
      BY <1>1 DEF AcquireSlot, BodiesOK, Body, BodyAt
    <2>2. StoreOK' /\ CallsOK'
      BY <1>1 DEF AcquireSlot, StoreOK, CallsOK, storeVars
    <2>3. QED
      BY <2>1, <2>2
  <1>2. CASE BodyFails(b)
    <2>1. BodiesOK'
      BY <1>2, AnswerType DEF BodyFails, BodyAt
    <2>2. StoreOK' /\ CallsOK'
      BY <1>2 DEF BodyFails, StoreOK, CallsOK, storeVars
    <2>3. QED
      BY <2>1, <2>2
  <1>3. QED
    BY <1>1, <1>2 DEF BodyStep

LEMMA StageStepType ==
    ASSUME UploadsTypeOK, NEW b \in Stagings, StageStep(b)
    PROVE  UploadsTypeOK'
  <1> USE TypeParts, TypePartsNext
  <1>0. b \in Bodies /\ b \in Handles
    BY DEF Bodies, Handles
  <1>1. ASSUME NEW owner \in Owners, StageArrives(b, owner) PROVE UploadsTypeOK'
    <2>1. owner # None
      BY UploadNamesAssumption
    <2>2. BodiesOK'
      <3> DEFINE q == [bodies[b] EXCEPT !.pc = "waiting", !.owner = owner]
      <3>1. bodies[b] \in Body
        BY <1>0 DEF BodiesOK
      <3>2. q \in Body /\ q.owner = owner
        BY <3>1 DEF Body
      <3>3. bodies' = [bodies EXCEPT ![b] = q]
        BY <1>1 DEF StageArrives
      <3> HIDE DEF q
      <3>4. QED
        BY <1>0, <2>1, <3>2, <3>3, BodyMoves
    <2>3. StoreOK' /\ CallsOK'
      BY <1>1 DEF StageArrives, StoreOK, CallsOK, storeVars
    <2>4. QED
      BY <2>2, <2>3
  <1>2. ASSUME NEW content \in Content, StageReceived(b, content) PROVE UploadsTypeOK'
    <2>1. bodies[b].owner \in Owners
      BY <1>0, <1>2 DEF BodiesOK, StageReceived, Body, BodyAt
    <2>2. BodiesOK'
      BY <1>0, <1>2, AnswerType, CreatedType DEF StageReceived, BodyAt
    <2>3. entries' \in [Handles -> Entry \cup {None}] /\ totalBytes' \in Int
      BY <1>0, <1>2, <2>1, PrunedType, PutEntryType DEF StageReceived
    <2>4. StoreOK' /\ CallsOK'
      BY <1>2, <2>3, PrunedType DEF StageReceived, StoreOK, CallsOK
    <2>5. QED
      BY <2>2, <2>4
  <1>3. QED
    BY <1>1, <1>2 DEF StageStep

LEMMA PushStepType ==
    ASSUME UploadsTypeOK, NEW b \in Pushes, PushStep(b)
    PROVE  UploadsTypeOK'
  <1> USE TypeParts, TypePartsNext
  <1>0. b \in Bodies /\ b \notin Stagings
    BY UploadNamesAssumption DEF Bodies
  <1>1. ASSUME NEW h \in Handles, NEW wellFormed \in BOOLEAN, PushArrives(b, h, wellFormed)
        PROVE  UploadsTypeOK'
    <2>1. h \in KeptGrants => grants[h].content.size \in Nat
      BY RowFacts DEF StoreOK, KeptGrants, Unexpired
    <2>2. h # None
      BY UploadNamesAssumption
    <2>3. BodiesOK'
      <3> DEFINE accepted == [bodies[b] EXCEPT !.pc = "waiting", !.handle = h,
                                              !.expected = grants[h].content.size]
                 refused == [bodies[b] EXCEPT !.pc = "done", !.handle = h,
                                              !.answer = "refused"]
      <3>1. refused \in Body /\ refused.handle = h
        BY <1>0 DEF BodiesOK, Body
      <3>2. h \in KeptGrants => accepted \in Body /\ accepted.handle = h
        BY <1>0, <2>1 DEF BodiesOK, Body
      <3>3. PICK q \in {accepted, refused} :
                bodies' = [bodies EXCEPT ![b] = q] /\ q \in Body /\ q.handle = h
        BY <1>1, <3>1, <3>2 DEF PushArrives
      <3> HIDE DEF accepted, refused
      <3>4. QED
        BY <1>0, <2>2, <3>3 DEF BodiesOK
    <2>4. StoreOK' /\ CallsOK'
      <3>1. Prune /\ UNCHANGED <<clock, nextCleanup, slots, prepared, attaches>>
        BY <1>1 DEF PushArrives
      <3>2. StoreOK'
        BY <3>1, PruneType DEF StoreOK
      <3>3. QED
        BY <3>1, <3>2 DEF CallsOK
    <2>5. QED
      BY <2>3, <2>4
  <1>2. ASSUME NEW content \in Content, PushRefused(b, content) \/ PushFull(b, content)
        PROVE  UploadsTypeOK'
    <2>1. BodiesOK'
      BY <1>0, <1>2, AnswerType DEF PushRefused, PushFull, BodyAt
    <2>2. Prune /\ slots' = slots + 1 /\ UNCHANGED <<clock, nextCleanup, prepared, attaches>>
      BY <1>2 DEF PushRefused, PushFull
    <2>3. StoreOK' /\ CallsOK'
      BY <2>2, PruneType DEF StoreOK, CallsOK
    <2>4. QED
      BY <2>1, <2>3
  <1>3. ASSUME NEW content \in Content, PushCompletes(b, content) PROVE UploadsTypeOK'
    <2> DEFINE h == bodies[b].handle
    <2>1. h \in Grants /\ h \in Handles /\ grants[h] \in PushGrant
      BY <1>3 DEF StoreOK, PushCompletes, KeptGrants, Unexpired, Handles
    <2>2. BodiesOK'
      BY <1>0, <1>3, CreatedType DEF PushCompletes, BodyAt
    <2>3. entries' \in [Handles -> Entry \cup {None}] /\ totalBytes' \in Int
      BY <1>3, <2>1, RowFacts, PutEntryType DEF PushCompletes
    <2>4. grants' = [PrunedGrants EXCEPT ![h] = None]
          /\ slots' = slots + 1 /\ UNCHANGED <<clock, nextCleanup, prepared, attaches>>
      BY <1>3 DEF PushCompletes
    <2> HIDE DEF h
    <2>5. grants' \in [Grants -> PushGrant \cup {None}]
      BY <2>1, <2>4, PrunedType
    <2>6. StoreOK' /\ CallsOK'
      BY <2>3, <2>4, <2>5 DEF StoreOK, CallsOK
    <2>7. QED
      BY <2>2, <2>6
  <1>4. QED
    BY <1>1, <1>2, <1>3 DEF PushStep

LEMMA PrepareStepType ==
    ASSUME UploadsTypeOK, NEW g \in Grants, PrepareStep(g)
    PROVE  UploadsTypeOK'
  <1> USE TypeParts, TypePartsNext
  <1>1. CASE PrepareRefused(g)
    <2>1. Prune /\ UNCHANGED <<clock, nextCleanup, slots, bodies, prepared, attaches>>
      BY <1>1 DEF PrepareRefused
    <2>2. QED
      BY <2>1, PruneType DEF StoreOK, BodiesOK, CallsOK
  <1>2. ASSUME NEW owner \in Owners, NEW draft \in Drafts, NEW content \in Content,
               Prepare(g, owner, draft, content)
        PROVE  UploadsTypeOK'
    <2> DEFINE grant == [owner |-> owner, content |-> content, draft |-> draft,
                         expiresAt |-> clock + Ttl]
    <2>1. grant \in PushGrant
      BY UploadLimitsAssumption DEF StoreOK, PushGrant
    <2>2. /\ grants' = [PrunedGrants EXCEPT ![g] = grant]
          /\ prepared' = [prepared EXCEPT ![g] = grant]
          /\ entries' = PrunedEntries /\ totalBytes' = KeptBytes
          /\ UNCHANGED <<clock, nextCleanup, slots, bodies, attaches>>
      BY <1>2 DEF Prepare
    <2> HIDE DEF grant
    <2>3. QED
      BY <2>1, <2>2, PrunedType DEF StoreOK, BodiesOK, CallsOK
  <1>3. QED
    BY <1>1, <1>2 DEF PrepareStep

LEMMA AttachStepType ==
    ASSUME UploadsTypeOK, NEW a \in Attaches, AttachStep(a)
    PROVE  UploadsTypeOK'
  <1> USE TypeParts, TypePartsNext
  <1> PICK owner \in Owners, draft \in Drafts, h \in Handles :
          Consume(a, owner, draft, h) \/ ConsumeRefused(a, owner, draft, h)
    BY DEF AttachStep
  <1>1. CASE ConsumeRefused(a, owner, draft, h)
    <2>1. AttachOf(owner, draft, h, None, "refused") \in Attach
      BY DEF AttachOf, Attach
    <2>2. /\ Prune /\ UNCHANGED <<clock, nextCleanup, slots, bodies, prepared>>
          /\ attaches' = [attaches EXCEPT ![a] = AttachOf(owner, draft, h, None, "refused")]
      BY <1>1 DEF ConsumeRefused
    <2>3. QED
      BY <2>1, <2>2, PruneType DEF StoreOK, BodiesOK, CallsOK
  <1>2. CASE Consume(a, owner, draft, h)
    <2>1. entries[h] \in Entry
      BY <1>2 DEF Consume, Matches, Kept, Unexpired, StoreOK
    <2>2. AttachOf(owner, draft, h, entries[h].content, "taken") \in Attach
      BY <2>1, RowFacts DEF AttachOf, Attach
    <2>3. entries[h].content.size \in Nat
      BY <2>1, RowFacts
    <2>4. /\ entries' = [PrunedEntries EXCEPT ![h] = None]
          /\ totalBytes' = KeptBytes - entries[h].content.size
          /\ grants' = PrunedGrants
          /\ attaches' = [attaches EXCEPT ![a] =
                AttachOf(owner, draft, h, entries[h].content, "taken")]
          /\ UNCHANGED <<clock, nextCleanup, slots, bodies, prepared>>
      BY <1>2 DEF Consume
    <2>5. StoreOK' /\ BodiesOK'
      BY <2>3, <2>4, PrunedType DEF StoreOK, BodiesOK
    <2>6. CallsOK'
      BY <2>2, <2>4 DEF CallsOK
    <2>7. QED
      BY <2>5, <2>6
  <1>3. QED
    BY <1>1, <1>2

LEMMA TypeInitially == Init => UploadsTypeOK
  BY UploadLimitsAssumption DEF Init, UploadsTypeOK, NoBody, NoAttach, Body, Attach

LEMMA TypePreserved == UploadsTypeOK /\ [Next]_vars => UploadsTypeOK'
  <1> SUFFICES ASSUME UploadsTypeOK, [Next]_vars PROVE UploadsTypeOK'
    OBVIOUS
  <1> USE TypeParts, TypePartsNext
  <1>1. CASE Tick
    BY <1>1 DEF Tick, StoreOK, BodiesOK, CallsOK, storeVars
  <1>2. CASE Cleanup
    <2>1. /\ Prune /\ nextCleanup' = NextWake
          /\ UNCHANGED <<clock, slots, bodies, prepared, attaches>>
      BY <1>2 DEF Cleanup
    <2>2. NextWake \in Nat
      BY UploadLimitsAssumption DEF NextWake, StoreOK
    <2>3. QED
      BY <2>1, <2>2, PrunedType DEF Prune, StoreOK, BodiesOK, CallsOK
  <1>3. CASE Restart
    <2>1. StoreOK' /\ CallsOK'
      <3>1. NextWake \in Nat /\ UploadSlots \in Int
        BY UploadLimitsAssumption DEF StoreOK, NextWake
      <3>2. QED
        <4>1. /\ entries' = [h \in Handles |-> None] /\ grants' = [g \in Grants |-> None]
              /\ totalBytes' = 0 /\ nextCleanup' = NextWake /\ slots' = UploadSlots
              /\ UNCHANGED <<clock, prepared, attaches>>
          BY <1>3 DEF Restart
        <4>2. StoreOK'
          BY <3>1, <4>1 DEF StoreOK
        <4>3. QED
          BY <4>1, <4>2 DEF CallsOK
    <2>2. BodiesOK'
      <3>1. ASSUME NEW b \in Bodies
            PROVE  /\ bodies'[b] \in Body
                   /\ bodies'[b].pc # "unsent" => bodies[b].pc # "unsent"
                   /\ bodies'[b].owner = bodies[b].owner
                   /\ bodies'[b].handle = bodies[b].handle
        <4> DEFINE q == [bodies[b] EXCEPT !.pc = "done", !.answer = "lost"]
        <4>1. bodies[b] \in Body
          BY DEF BodiesOK
        <4>2. q \in Body /\ q.owner = bodies[b].owner /\ q.handle = bodies[b].handle
          BY <4>1 DEF Body
        <4>3. \/ bodies'[b] = q /\ bodies[b].pc \in {"waiting", "receiving"}
              \/ bodies'[b] = bodies[b]
          BY <1>3 DEF Restart
        <4> HIDE DEF q
        <4>4. QED
          BY <4>1, <4>2, <4>3
      <3>2. bodies' = [b \in Bodies |-> bodies'[b]]
        BY <1>3 DEF Restart
      <3>3. bodies' \in [Bodies -> Body]
        BY <3>1, <3>2
      <3>4. QED
        BY <3>1, <3>3 DEF BodiesOK
    <2>3. QED
      BY <2>1, <2>2
  <1>4. CASE UNCHANGED vars
    BY <1>4 DEF vars, storeVars, StoreOK, BodiesOK, CallsOK
  <1>5. QED
    BY <1>1, <1>2, <1>3, <1>4, BodyStepType, StageStepType, PushStepType,
       PrepareStepType, AttachStepType DEF Next

(* The tables, the counter and the coroutines have their types in every      *)
(* reachable state.                                                          *)
THEOREM UploadsTypeCorrect == Spec => []UploadsTypeOK
  <1>1. QED
    BY TypeInitially, TypePreserved, PTL DEF Spec

-----------------------------------------------------------------------------
(* Expired rows leave in time *)

\* a step keeps a row, drops it, or writes one that is fresh
Refreshed(table, h) ==
    \/ table'[h] \in {table[h], None}
    \/ table'[h] # None /\ table'[h].expiresAt = clock + Ttl

RowsRefreshed ==
    /\ \A h \in Handles : Refreshed(entries, h)
    /\ \A g \in Grants : Refreshed(grants, g)

LEMMA PruneRefreshes ==
    ASSUME UploadsTypeOK
    PROVE  /\ entries' = PrunedEntries => \A h \in Handles : Refreshed(entries, h)
           /\ grants' = PrunedGrants => \A g \in Grants : Refreshed(grants, g)
  BY PrunedType DEF Refreshed

LEMMA PutEntryRefreshes ==
    ASSUME UploadsTypeOK, NEW h \in Handles, NEW owner \in Owners,
           NEW content \in Content, NEW draft \in Drafts \cup {None},
           PutEntry(h, owner, content, draft)
    PROVE  \A x \in Handles : Refreshed(entries, x)
  <1>1. entries' \in [Handles -> Entry \cup {None}]
    BY PutEntryType
  <1> DEFINE row == [owner |-> owner, content |-> content, draft |-> draft,
                     expiresAt |-> clock + Ttl]
  <1>2. entries' = [PrunedEntries EXCEPT ![h] = row] /\ row.expiresAt = clock + Ttl
    BY DEF PutEntry
  <1>3. row \in Entry
    BY UploadLimitsAssumption DEF Entry, UploadsTypeOK
  <1> HIDE DEF row
  <1>4. row # None
    BY <1>3, RowFacts
  <1>5. QED
    BY <1>2, <1>4, PrunedType DEF Refreshed

LEMMA ServingRefreshes ==
    ASSUME UploadsTypeOK,
           \/ \E b \in Bodies : BodyStep(b)
           \/ \E b \in Stagings : StageStep(b)
           \/ \E b \in Pushes : PushStep(b)
           \/ \E g \in Grants : PrepareStep(g)
           \/ \E a \in Attaches : AttachStep(a)
    PROVE  RowsRefreshed /\ UNCHANGED <<clock, nextCleanup>>
  <1>1. ASSUME NEW b \in Bodies, BodyStep(b)
        PROVE  RowsRefreshed /\ UNCHANGED <<clock, nextCleanup>>
    BY <1>1 DEF BodyStep, AcquireSlot, BodyFails, RowsRefreshed, Refreshed, storeVars
  <1>2. ASSUME NEW b \in Stagings, NEW owner \in Owners, StageArrives(b, owner)
        PROVE  RowsRefreshed /\ UNCHANGED <<clock, nextCleanup>>
    BY <1>2 DEF StageArrives, RowsRefreshed, Refreshed, storeVars
  <1>3. ASSUME NEW b \in Stagings, NEW content \in Content, StageReceived(b, content)
        PROVE  RowsRefreshed /\ UNCHANGED <<clock, nextCleanup>>
    <2>1. b \in Bodies /\ b \in Handles
      BY DEF Bodies, Handles
    <2>2. bodies[b].owner \in Owners
      BY <1>3, <2>1 DEF UploadsTypeOK, StageReceived, Body, BodyAt
    <2>3. /\ grants' = PrunedGrants /\ UNCHANGED <<clock, nextCleanup>>
          /\ \/ entries' = PrunedEntries
             \/ PutEntry(b, bodies[b].owner, content, None)
      BY <1>3 DEF StageReceived
    <2>4. QED
      BY <2>1, <2>2, <2>3, PruneRefreshes, PutEntryRefreshes DEF RowsRefreshed
  <1>4. ASSUME NEW b \in Pushes, NEW content \in Content, PushCompletes(b, content)
        PROVE  RowsRefreshed /\ UNCHANGED <<clock, nextCleanup>>
    <2> DEFINE h == bodies[b].handle
    <2>1. h \in Grants /\ h \in Handles /\ grants[h] \in PushGrant
      BY <1>4 DEF UploadsTypeOK, PushCompletes, KeptGrants, Unexpired, Handles
    <2>2. /\ PutEntry(h, grants[h].owner, content, grants[h].draft)
          /\ grants' = [PrunedGrants EXCEPT ![h] = None]
          /\ UNCHANGED <<clock, nextCleanup>>
      BY <1>4 DEF PushCompletes
    <2> HIDE DEF h
    <2>3. \A x \in Handles : Refreshed(entries, x)
      BY <2>1, <2>2, RowFacts, PutEntryRefreshes
    <2>4. \A g \in Grants : Refreshed(grants, g)
      BY <2>1, <2>2, PrunedType DEF Refreshed
    <2>5. QED
      BY <2>2, <2>3, <2>4 DEF RowsRefreshed
  <1>5. ASSUME NEW g \in Grants, NEW owner \in Owners, NEW draft \in Drafts,
               NEW content \in Content, Prepare(g, owner, draft, content)
        PROVE  RowsRefreshed /\ UNCHANGED <<clock, nextCleanup>>
    <2> DEFINE grant == [owner |-> owner, content |-> content, draft |-> draft,
                         expiresAt |-> clock + Ttl]
    <2>1. grant \in PushGrant /\ grant.expiresAt = clock + Ttl
      BY UploadLimitsAssumption DEF UploadsTypeOK, PushGrant
    <2>2. /\ grants' = [PrunedGrants EXCEPT ![g] = grant]
          /\ entries' = PrunedEntries /\ UNCHANGED <<clock, nextCleanup>>
      BY <1>5 DEF Prepare
    <2> HIDE DEF grant
    <2>3. \A x \in Grants : Refreshed(grants, x)
      BY <2>1, <2>2, PrunedType, RowFacts DEF Refreshed
    <2>4. QED
      BY <2>2, <2>3, PruneRefreshes DEF RowsRefreshed
  <1>6. ASSUME NEW a \in Attaches, NEW owner \in Owners, NEW draft \in Drafts,
               NEW h \in Handles, Consume(a, owner, draft, h)
        PROVE  RowsRefreshed /\ UNCHANGED <<clock, nextCleanup>>
    <2>1. /\ entries' = [PrunedEntries EXCEPT ![h] = None]
          /\ grants' = PrunedGrants /\ UNCHANGED <<clock, nextCleanup>>
      BY <1>6 DEF Consume
    <2>2. \A x \in Handles : Refreshed(entries, x)
      BY <2>1, PrunedType DEF Refreshed
    <2>3. QED
      BY <2>1, <2>2, PruneRefreshes DEF RowsRefreshed
  <1>7. CASE Prune /\ UNCHANGED <<clock, nextCleanup>>
    BY <1>7, PruneRefreshes DEF Prune, RowsRefreshed
  <1>8. ASSUME NEW b \in Pushes, PushStep(b)
        PROVE  RowsRefreshed /\ UNCHANGED <<clock, nextCleanup>>
    BY <1>4, <1>7, <1>8 DEF PushStep, PushArrives, PushRefused, PushFull
  <1>9. QED
    BY <1>1, <1>2, <1>3, <1>5, <1>6, <1>7, <1>8
       DEF StageStep, PrepareStep, PrepareRefused, AttachStep, ConsumeRefused

LEMMA CleanupIsNearPreserved ==
    UploadsTypeOK /\ CleanupIsNear /\ [Next]_vars => CleanupIsNear'
  <1> SUFFICES ASSUME UploadsTypeOK, CleanupIsNear, [Next]_vars PROVE CleanupIsNear'
    OBVIOUS
  <1>0. /\ clock \in Nat /\ nextCleanup \in Nat /\ Ttl \in Nat \ {0}
        /\ CleanupPeriod \in Nat \ {0}
        /\ \A h \in Handles : entries[h] # None => entries[h].expiresAt \in Nat
        /\ \A g \in Grants : grants[g] # None => grants[g].expiresAt \in Nat
    BY UploadLimitsAssumption, RowFacts DEF UploadsTypeOK
  <1>1. CASE Tick
    BY <1>0, <1>1 DEF Tick, CleanupIsNear, storeVars
  <1>2. CASE Cleanup
    <2>1. /\ \A h \in Handles : entries'[h] # None =>
                entries'[h] = entries[h] /\ entries[h].expiresAt > clock
          /\ \A g \in Grants : grants'[g] # None =>
                grants'[g] = grants[g] /\ grants[g].expiresAt > clock
      BY <1>2 DEF Cleanup, Prune, PrunedEntries, PrunedGrants, Kept, KeptGrants, Unexpired
    <2>2. nextCleanup' = clock + CleanupPeriod /\ clock' = clock
      BY <1>2 DEF Cleanup, NextWake
    <2>3. QED
      BY <1>0, <2>1, <2>2 DEF CleanupIsNear
  <1>3. CASE Restart
    <2>1. /\ entries' = [h \in Handles |-> None] /\ grants' = [g \in Grants |-> None]
          /\ nextCleanup' = clock + CleanupPeriod /\ clock' = clock
      BY <1>3 DEF Restart, NextWake
    <2>2. QED
      BY <1>0, <2>1 DEF CleanupIsNear
  <1>4. CASE RowsRefreshed /\ UNCHANGED <<clock, nextCleanup>>
    <2>1. clock + Ttl + CleanupPeriod > nextCleanup
      BY <1>0 DEF CleanupIsNear
    <2>2. \A h \in Handles : entries'[h] # None =>
              nextCleanup < entries'[h].expiresAt + CleanupPeriod
      BY <1>0, <1>4, <2>1 DEF RowsRefreshed, Refreshed, CleanupIsNear
    <2>3. \A g \in Grants : grants'[g] # None =>
              nextCleanup < grants'[g].expiresAt + CleanupPeriod
      BY <1>0, <1>4, <2>1 DEF RowsRefreshed, Refreshed, CleanupIsNear
    <2>4. QED
      BY <1>4, <2>2, <2>3 DEF CleanupIsNear
  <1>5. CASE UNCHANGED vars
    BY <1>5 DEF vars, storeVars, CleanupIsNear
  <1>6. QED
    BY <1>1, <1>2, <1>3, <1>4, <1>5, ServingRefreshes DEF Next

(* Nothing outlives its expiry by a cleanup period: with a cleanup task that *)
(* wakes up on time, for every time to live and period.                      *)
THEOREM ReleasedInTimeHolds == Spec => []ReleasedInTime
  <1>1. Init => CleanupIsNear
    BY UploadLimitsAssumption DEF Init, CleanupIsNear
  <1>2. UploadsTypeOK /\ CleanupIsNear => ReleasedInTime
    <2> SUFFICES ASSUME UploadsTypeOK, CleanupIsNear PROVE ReleasedInTime
      OBVIOUS
    <2>1. /\ clock \in Nat /\ nextCleanup \in Nat /\ CleanupPeriod \in Nat
          /\ \A h \in Handles : entries[h] # None => entries[h].expiresAt \in Nat
          /\ \A g \in Grants : grants[g] # None => grants[g].expiresAt \in Nat
      BY UploadLimitsAssumption, RowFacts DEF UploadsTypeOK
    <2>2. QED
      BY <2>1 DEF CleanupIsNear, ReleasedInTime
  <1>3. QED
    BY <1>1, <1>2, CleanupIsNearPreserved, UploadsTypeCorrect, PTL DEF Spec

-----------------------------------------------------------------------------
(* The life of a handle *)

LifeInv == HandlesAge /\ TakenAsPromised /\ UsedOnce

\* what was minted stays what it is
BodiesSettled ==
    \A b \in Bodies :
        /\ bodies[b].answer = "created" => bodies'[b] = bodies[b]
        /\ bodies'[b].answer # "none" => bodies'[b].pc = "done"

LEMMA PromiseStays ==
    ASSUME UploadsTypeOK, HandlesAge, BodiesSettled, NEW h \in Handles, Minted(h),
           h \in Grants => prepared'[h] = prepared[h]
    PROVE  Minted(h)' /\ Promised(h)' = Promised(h)
  <1>1. CASE h \in Stagings
    BY <1>1 DEF Minted, Promised, BodiesSettled, Bodies
  <1>2. CASE h \notin Stagings
    BY <1>2 DEF Minted, Promised, Handles
  <1>3. QED
    BY <1>1, <1>2

\* a step that mints, fills and takes nothing
Quiet ==
    /\ \A h \in Handles : entries'[h] \in {entries[h], None}
    /\ \A g \in Grants : grants'[g] \in {grants[g], None}
    /\ BodiesSettled
    /\ \A b \in Bodies : bodies'[b].answer = "created" => bodies'[b] = bodies[b]
    /\ prepared' = prepared
    /\ \A a \in Attaches :
          attaches'[a].answer = "taken" \/ attaches[a].answer = "taken" =>
              attaches'[a] = attaches[a]

LEMMA QuietKeepsLife ==
    ASSUME UploadsTypeOK, LifeInv, Quiet
    PROVE  LifeInv'
  <1> USE DEF LifeInv, Quiet
  <1>0. Grants \subseteq Handles /\ Pushes \subseteq Bodies
    BY DEF Handles, Bodies
  <1>1. \A h \in Handles : Minted(h) => Minted(h)' /\ Promised(h)' = Promised(h)
    BY PromiseStays
  <1>2. HandlesAge'
    <2>1. \A b \in Bodies :
              /\ bodies'[b].answer # "none" => BodyAt(b, "done")'
              /\ bodies'[b].answer = "created" => bodies'[b].content # None
      BY DEF BodiesSettled, BodyAt, HandlesAge
    <2>2. \A h \in Handles : entries'[h] # None => Minted(h)'
      BY <1>1 DEF HandlesAge
    <2>3. \A g \in Grants : grants'[g] # None => prepared'[g] # None /\ entries'[g] = None
      BY <1>0 DEF HandlesAge
    <2>4. \A b \in Pushes : bodies'[b].answer = "created" =>
              /\ bodies'[b].handle \in Grants
              /\ Minted(bodies[b].handle)'
              /\ grants'[bodies'[b].handle] = None
      BY <1>0, <1>1 DEF HandlesAge
    <2>5. \A a \in Attaches : attaches'[a].answer = "taken" =>
              /\ attaches'[a].handle \in Handles
              /\ Minted(attaches[a].handle)'
              /\ entries'[attaches'[a].handle] = None
              /\ attaches'[a].handle \in Grants => grants'[attaches'[a].handle] = None
      BY <1>1 DEF HandlesAge
    <2>6. QED
      BY <2>1, <2>2, <2>3, <2>4, <2>5 DEF HandlesAge
  <1>3. TakenAsPromised'
    <2>1. \A h \in Handles : entries'[h] # None => PromiseOf(entries[h])' = Promised(h)'
      BY <1>1 DEF HandlesAge, TakenAsPromised, PromiseOf
    <2>2. \A g \in Grants : grants'[g] # None => PromiseOf(grants[g])' = Promised(g)'
      <3> SUFFICES ASSUME NEW g \in Grants, grants'[g] # None
                   PROVE  PromiseOf(grants[g])' = Promised(g)'
        OBVIOUS
      <3>1. Minted(g)
        BY UploadNamesAssumption DEF HandlesAge, Minted
      <3>2. QED
        BY <1>0, <1>1, <3>1 DEF TakenAsPromised, PromiseOf
    <2>3. \A a \in Attaches : attaches'[a].answer = "taken" =>
              /\ attaches'[a] = attaches[a]
              /\ Promised(attaches[a].handle)' = Promised(attaches[a].handle)
      BY <1>1 DEF HandlesAge
    <2>4. QED
      BY <2>1, <2>2, <2>3 DEF TakenAsPromised
  <1>4. UsedOnce'
    BY <1>0 DEF UsedOnce
  <1>5. QED
    BY <1>2, <1>3, <1>4

\* the pruned tables are the old ones with rows dropped
LEMMA PruneQuiet ==
    ASSUME UploadsTypeOK
    PROVE  /\ entries' = PrunedEntries => \A h \in Handles : entries'[h] \in {entries[h], None}
           /\ grants' = PrunedGrants => \A g \in Grants : grants'[g] \in {grants[g], None}
  BY PrunedType

\* a body that is not yet done moves on without creating anything
LEMMA BodyMovesQuietly ==
    ASSUME UploadsTypeOK, HandlesAge, NEW b \in Bodies, ~ BodyAt(b, "done"), NEW q,
           bodies' = [bodies EXCEPT ![b] = q],
           q.answer # "created", q.answer # "none" => q.pc = "done"
    PROVE  /\ BodiesSettled
           /\ \A x \in Bodies : bodies'[x].answer = "created" => bodies'[x] = bodies[x]
  BY DEF UploadsTypeOK, HandlesAge, BodyAt, BodiesSettled

LEMMA AnswersQuietly ==
    ASSUME UploadsTypeOK, HandlesAge, NEW b \in Bodies, BodyAt(b, "receiving"),
           NEW answer \in {"refused", "full"}, Answer(b, answer)
    PROVE  /\ BodiesSettled
           /\ \A x \in Bodies : bodies'[x].answer = "created" => bodies'[x] = bodies[x]
  <1> DEFINE q == [bodies[b] EXCEPT !.pc = "done", !.answer = answer]
  <1>1. bodies' = [bodies EXCEPT ![b] = q]
    BY DEF Answer
  <1>2. q.answer = answer /\ q.pc = "done"
    BY DEF UploadsTypeOK, Body
  <1> HIDE DEF q
  <1>3. ~ BodyAt(b, "done")
    BY DEF BodyAt
  <1>4. QED
    BY <1>1, <1>2, <1>3, BodyMovesQuietly

LEMMA SameBodiesQuiet ==
    ASSUME HandlesAge, bodies' = bodies
    PROVE  /\ BodiesSettled
           /\ \A x \in Bodies : bodies'[x].answer = "created" => bodies'[x] = bodies[x]
  BY DEF HandlesAge, BodyAt, BodiesSettled

\* the three kinds of rows a quiet step may leave, with their tables
LEMMA QuietTables ==
    ASSUME UploadsTypeOK, Prune \/ UNCHANGED storeVars
    PROVE  /\ \A h \in Handles : entries'[h] \in {entries[h], None}
           /\ \A g \in Grants : grants'[g] \in {grants[g], None}
  BY PruneQuiet DEF Prune, storeVars

LEMMA BodyStepQuiet ==
    ASSUME UploadsTypeOK, LifeInv, NEW b \in Bodies, BodyStep(b)
    PROVE  Quiet
  <1>1. CASE AcquireSlot(b)
    <2> DEFINE q == [bodies[b] EXCEPT !.pc = "receiving"]
    <2>1. q.answer = bodies[b].answer /\ bodies[b].answer = "none" /\ ~ BodyAt(b, "done")
      BY <1>1 DEF AcquireSlot, UploadsTypeOK, Body, LifeInv, HandlesAge, BodyAt
    <2>2. bodies' = [bodies EXCEPT ![b] = q] /\ UNCHANGED <<storeVars, prepared, attaches>>
      BY <1>1 DEF AcquireSlot
    <2> HIDE DEF q
    <2>3. QED
      BY <2>1, <2>2, QuietTables, BodyMovesQuietly DEF Quiet, LifeInv
  <1>2. CASE BodyFails(b)
    <2>1. Answer(b, "refused") /\ BodyAt(b, "receiving") /\ UNCHANGED <<storeVars, prepared, attaches>>
      BY <1>2 DEF BodyFails
    <2>2. QED
      BY <2>1, QuietTables, AnswersQuietly DEF Quiet, LifeInv
  <1>3. QED
    BY <1>1, <1>2 DEF BodyStep

LEMMA StageArrivesQuiet ==
    ASSUME UploadsTypeOK, LifeInv, NEW b \in Stagings, NEW owner \in Owners,
           StageArrives(b, owner)
    PROVE  Quiet
  <1> DEFINE q == [bodies[b] EXCEPT !.pc = "waiting", !.owner = owner]
  <1>0. b \in Bodies
    BY DEF Bodies
  <1>1. q.answer = bodies[b].answer /\ bodies[b].answer = "none" /\ ~ BodyAt(b, "done")
    BY <1>0 DEF StageArrives, UploadsTypeOK, Body, LifeInv, HandlesAge, BodyAt
  <1>2. bodies' = [bodies EXCEPT ![b] = q] /\ UNCHANGED <<storeVars, prepared, attaches>>
    BY DEF StageArrives
  <1> HIDE DEF q
  <1>3. QED
    BY <1>0, <1>1, <1>2, QuietTables, BodyMovesQuietly DEF Quiet, LifeInv

LEMMA PushArrivesQuiet ==
    ASSUME UploadsTypeOK, LifeInv, NEW b \in Pushes, NEW h \in Handles,
           NEW wellFormed \in BOOLEAN, PushArrives(b, h, wellFormed)
    PROVE  Quiet
  <1> DEFINE accepted == [bodies[b] EXCEPT !.pc = "waiting", !.handle = h,
                                          !.expected = grants[h].content.size]
             refused == [bodies[b] EXCEPT !.pc = "done", !.handle = h,
                                          !.answer = "refused"]
  <1>0. b \in Bodies
    BY DEF Bodies
  <1>1. ~ BodyAt(b, "done") /\ bodies[b].answer = "none"
    BY <1>0 DEF PushArrives, LifeInv, HandlesAge, BodyAt
  <1>2. /\ accepted.answer = bodies[b].answer
        /\ refused.answer = "refused" /\ refused.pc = "done"
    BY <1>0 DEF UploadsTypeOK, Body
  <1>3. PICK q \in {accepted, refused} : bodies' = [bodies EXCEPT ![b] = q]
    BY DEF PushArrives
  <1>4. Prune /\ UNCHANGED <<prepared, attaches>>
    BY DEF PushArrives
  <1> HIDE DEF accepted, refused
  <1>5. q.answer # "created" /\ (q.answer # "none" => q.pc = "done")
    BY <1>1, <1>2
  <1>6. QED
    BY <1>0, <1>1, <1>3, <1>4, <1>5, QuietTables, BodyMovesQuietly DEF Quiet, LifeInv

LEMMA PushAnswersQuiet ==
    ASSUME UploadsTypeOK, LifeInv, NEW b \in Pushes, NEW content \in Content,
           PushRefused(b, content) \/ PushFull(b, content)
    PROVE  Quiet
  <1>1. b \in Bodies
    BY DEF Bodies
  <1>2. /\ Prune /\ UNCHANGED <<prepared, attaches>> /\ BodyAt(b, "receiving")
        /\ Answer(b, "refused") \/ Answer(b, "full")
    BY DEF PushRefused, PushFull
  <1>3. QED
    BY <1>1, <1>2, QuietTables, AnswersQuietly DEF Quiet, LifeInv

LEMMA RestartQuiet ==
    ASSUME UploadsTypeOK, LifeInv, Restart
    PROVE  Quiet
  <1>1. /\ entries' = [h \in Handles |-> None] /\ grants' = [g \in Grants |-> None]
        /\ UNCHANGED <<prepared, attaches>>
    BY DEF Restart
  <1>2. \A b \in Bodies :
            \/ bodies'[b] = bodies[b]
            \/ /\ bodies[b].pc \in {"waiting", "receiving"}
               /\ bodies'[b].pc = "done" /\ bodies'[b].answer = "lost"
    BY DEF Restart, UploadsTypeOK, Body
  <1>3. /\ BodiesSettled
        /\ \A b \in Bodies : bodies'[b].answer = "created" => bodies'[b] = bodies[b]
    BY <1>2 DEF BodiesSettled, LifeInv, HandlesAge, BodyAt
  <1>4. QED
    BY <1>1, <1>3 DEF Quiet

-----------------------------------------------------------------------------
(* The four steps of a handle: staged, prepared, filled, taken *)

\* the row a put leaves, and the others
LEMMA PutEntryRows ==
    ASSUME UploadsTypeOK, NEW h \in Handles, NEW owner \in Owners,
           NEW content \in Content, NEW draft \in Drafts \cup {None},
           PutEntry(h, owner, content, draft)
    PROVE  /\ entries'[h] # None
           /\ PromiseOf(entries[h])' = [owner |-> owner, content |-> content, draft |-> draft]
           /\ \A x \in Handles \ {h} : entries'[x] \in {entries[x], None}
  <1> DEFINE row == [owner |-> owner, content |-> content, draft |-> draft,
                     expiresAt |-> clock + Ttl]
  <1>1. entries' = [PrunedEntries EXCEPT ![h] = row]
    BY DEF PutEntry
  <1>2. row \in Entry
    BY UploadLimitsAssumption DEF Entry, UploadsTypeOK
  <1>3. PromiseOf(row) = [owner |-> owner, content |-> content, draft |-> draft]
    BY DEF PromiseOf
  <1> HIDE DEF row
  <1>4. row # None
    BY <1>2, RowFacts
  <1>5. entries'[h] = row /\ \A x \in Handles \ {h} : entries'[x] \in {entries[x], None}
    BY <1>1, PrunedType
  <1>6. QED
    BY <1>3, <1>4, <1>5 DEF PromiseOf

LEMMA StagedLife ==
    ASSUME UploadsTypeOK, LifeInv, NEW b \in Stagings, NEW content \in Content,
           StageReceived(b, content), ~ Full(content)
    PROVE  LifeInv'
  <1>0. /\ b \in Bodies /\ b \in Handles /\ b \notin Grants /\ b \notin Pushes
        /\ Grants \subseteq Handles /\ Pushes \subseteq Bodies
    BY UploadNamesAssumption DEF Bodies, Handles
  <1> DEFINE q == [bodies[b] EXCEPT !.pc = "done", !.content = content, !.answer = "created"]
  <1>1. /\ bodies' = [bodies EXCEPT ![b] = q] /\ BodyAt(b, "receiving")
        /\ PutEntry(b, bodies[b].owner, content, None) /\ grants' = PrunedGrants
        /\ UNCHANGED <<prepared, attaches>>
    BY DEF StageReceived
  <1>2. /\ q.pc = "done" /\ q.content = content /\ q.answer = "created"
        /\ q.owner = bodies[b].owner /\ bodies[b].owner \in Owners
    BY <1>0, <1>1 DEF UploadsTypeOK, Body, BodyAt
  <1> HIDE DEF q
  <1>3. bodies'[b] = q /\ \A x \in Bodies \ {b} : bodies'[x] = bodies[x]
    BY <1>0, <1>1 DEF UploadsTypeOK
  <1>4. bodies[b].answer = "none" /\ ~ Minted(b)
    BY <1>0, <1>1 DEF LifeInv, HandlesAge, BodyAt, Minted
  <1>5. /\ entries'[b] # None
        /\ PromiseOf(entries[b])' = [owner |-> q.owner, content |-> content, draft |-> None]
        /\ \A x \in Handles \ {b} : entries'[x] \in {entries[x], None}
    BY <1>0, <1>1, <1>2, PutEntryRows
  <1>6. \A g \in Grants : grants'[g] \in {grants[g], None}
    BY <1>1, PruneQuiet
  <1>7. Minted(b)' /\ Promised(b)' = PromiseOf(entries[b])'
    BY <1>0, <1>2, <1>3, <1>5 DEF Minted, Promised
  <1>8. \A h \in Handles : Minted(h) =>
            h # b /\ Minted(h)' /\ Promised(h)' = Promised(h)
    <2> SUFFICES ASSUME NEW h \in Handles, Minted(h)
                 PROVE  h # b /\ Minted(h)' /\ Promised(h)' = Promised(h)
      OBVIOUS
    <2>1. h # b
      BY <1>4
    <2>2. CASE h \in Stagings
      BY <1>3, <2>1, <2>2 DEF Minted, Promised, Bodies
    <2>3. CASE h \notin Stagings
      BY <1>1, <2>3 DEF Minted, Promised
    <2>4. QED
      BY <2>1, <2>2, <2>3
  <1>9. HandlesAge'
    <2>1. \A x \in Bodies :
              /\ bodies'[x].answer # "none" => BodyAt(x, "done")'
              /\ bodies'[x].answer = "created" => bodies'[x].content # None
      BY <1>2, <1>3, RowFacts DEF LifeInv, HandlesAge, BodyAt
    <2>2. \A h \in Handles : entries'[h] # None => Minted(h)'
      BY <1>5, <1>7, <1>8 DEF LifeInv, HandlesAge
    <2>3. \A g \in Grants : grants'[g] # None => prepared'[g] # None /\ entries'[g] = None
      BY <1>0, <1>1, <1>5, <1>6 DEF LifeInv, HandlesAge
    <2>4. \A x \in Pushes : bodies'[x].answer = "created" =>
              /\ bodies'[x].handle \in Grants
              /\ Minted(bodies[x].handle)'
              /\ grants'[bodies'[x].handle] = None
      BY <1>0, <1>3, <1>6, <1>8 DEF LifeInv, HandlesAge
    <2>5. \A a \in Attaches : attaches'[a].answer = "taken" =>
              /\ attaches'[a].handle \in Handles
              /\ Minted(attaches[a].handle)'
              /\ entries'[attaches'[a].handle] = None
              /\ attaches'[a].handle \in Grants => grants'[attaches'[a].handle] = None
      BY <1>1, <1>5, <1>6, <1>8 DEF LifeInv, HandlesAge
    <2>6. QED
      BY <2>1, <2>2, <2>3, <2>4, <2>5 DEF HandlesAge
  <1>10. TakenAsPromised'
    <2>1. \A h \in Handles : entries'[h] # None => PromiseOf(entries[h])' = Promised(h)'
      BY <1>5, <1>7, <1>8 DEF LifeInv, HandlesAge, TakenAsPromised, PromiseOf
    <2>2. \A g \in Grants : grants'[g] # None => PromiseOf(grants[g])' = Promised(g)'
      <3> SUFFICES ASSUME NEW g \in Grants, grants'[g] # None
                   PROVE  PromiseOf(grants[g])' = Promised(g)'
        OBVIOUS
      <3>1. Minted(g) /\ grants'[g] = grants[g]
        BY <1>6, UploadNamesAssumption DEF LifeInv, HandlesAge, Minted
      <3>2. QED
        BY <1>0, <1>8, <3>1 DEF LifeInv, TakenAsPromised, PromiseOf
    <2>3. \A a \in Attaches : attaches'[a].answer = "taken" =>
              /\ attaches'[a] = attaches[a]
              /\ Promised(attaches[a].handle)' = Promised(attaches[a].handle)
      BY <1>1, <1>8 DEF LifeInv, HandlesAge
    <2>4. QED
      BY <2>1, <2>2, <2>3 DEF LifeInv, TakenAsPromised
  <1>11. UsedOnce'
    BY <1>0, <1>1, <1>3 DEF LifeInv, UsedOnce
  <1>12. QED
    BY <1>9, <1>10, <1>11 DEF LifeInv

LEMMA PreparedLife ==
    ASSUME UploadsTypeOK, LifeInv, NEW g \in Grants, NEW owner \in Owners,
           NEW draft \in Drafts, NEW content \in Content, Prepare(g, owner, draft, content)
    PROVE  LifeInv'
  <1>0. /\ g \in Handles /\ g \notin Stagings
        /\ Grants \subseteq Handles /\ Pushes \subseteq Bodies
    BY UploadNamesAssumption DEF Bodies, Handles
  <1> DEFINE grant == [owner |-> owner, content |-> content, draft |-> draft,
                       expiresAt |-> clock + Ttl]
  <1>1. /\ grants' = [PrunedGrants EXCEPT ![g] = grant]
        /\ prepared' = [prepared EXCEPT ![g] = grant] /\ prepared[g] = None
        /\ entries' = PrunedEntries /\ UNCHANGED <<bodies, attaches>>
    BY DEF Prepare
  <1>2. grant \in PushGrant
    BY UploadLimitsAssumption DEF PushGrant, UploadsTypeOK
  <1> HIDE DEF grant
  <1>3. /\ grant # None /\ grants'[g] = grant /\ prepared'[g] = grant
        /\ \A x \in Grants \ {g} : grants'[x] \in {grants[x], None} /\ prepared'[x] = prepared[x]
    BY <1>1, <1>2, RowFacts, PrunedType DEF UploadsTypeOK
  <1>4. \A h \in Handles : entries'[h] \in {entries[h], None}
    BY <1>1, PruneQuiet
  <1>5. ~ Minted(g)
    BY <1>0, <1>1 DEF Minted
  <1>6. Minted(g)' /\ Promised(g)' = PromiseOf(grants[g])'
    BY <1>0, <1>3 DEF Minted, Promised, PromiseOf
  <1>7. \A h \in Handles : Minted(h) =>
            h # g /\ Minted(h)' /\ Promised(h)' = Promised(h)
    <2>0. bodies' = bodies
      BY <1>1
    <2> SUFFICES ASSUME NEW h \in Handles, Minted(h)
                 PROVE  h # g /\ Minted(h)' /\ Promised(h)' = Promised(h)
      OBVIOUS
    <2>1. h # g
      BY <1>5
    <2>2. CASE h \in Stagings
      BY <2>0, <2>1, <2>2 DEF Minted, Promised
    <2>3. CASE h \notin Stagings
      BY <1>3, <2>1, <2>3 DEF Minted, Promised, Handles
    <2>4. QED
      BY <2>1, <2>2, <2>3
  <1>8. HandlesAge'
    <2>1. \A x \in Bodies :
              /\ bodies'[x].answer # "none" => BodyAt(x, "done")'
              /\ bodies'[x].answer = "created" => bodies'[x].content # None
      BY <1>1 DEF LifeInv, HandlesAge, BodyAt
    <2>2. \A h \in Handles : entries'[h] # None => Minted(h)'
      BY <1>4, <1>7 DEF LifeInv, HandlesAge
    <2>3. \A x \in Grants : grants'[x] # None => prepared'[x] # None /\ entries'[x] = None
      BY <1>0, <1>3, <1>4, <1>5 DEF LifeInv, HandlesAge
    <2>4. \A x \in Pushes : bodies'[x].answer = "created" =>
              /\ bodies'[x].handle \in Grants
              /\ Minted(bodies[x].handle)'
              /\ grants'[bodies'[x].handle] = None
      BY <1>0, <1>1, <1>3, <1>7 DEF LifeInv, HandlesAge
    <2>5. \A a \in Attaches : attaches'[a].answer = "taken" =>
              /\ attaches'[a].handle \in Handles
              /\ Minted(attaches[a].handle)'
              /\ entries'[attaches'[a].handle] = None
              /\ attaches'[a].handle \in Grants => grants'[attaches'[a].handle] = None
      BY <1>1, <1>3, <1>4, <1>7 DEF LifeInv, HandlesAge
    <2>6. QED
      BY <2>1, <2>2, <2>3, <2>4, <2>5 DEF HandlesAge
  <1>9. TakenAsPromised'
    <2>1. \A h \in Handles : entries'[h] # None => PromiseOf(entries[h])' = Promised(h)'
      BY <1>4, <1>7 DEF LifeInv, HandlesAge, TakenAsPromised, PromiseOf
    <2>2. \A x \in Grants : grants'[x] # None => PromiseOf(grants[x])' = Promised(x)'
      <3> SUFFICES ASSUME NEW x \in Grants, grants'[x] # None, x # g
                   PROVE  PromiseOf(grants[x])' = Promised(x)'
        BY <1>6
      <3>1. Minted(x) /\ grants'[x] = grants[x]
        BY <1>3, UploadNamesAssumption DEF LifeInv, HandlesAge, Minted
      <3>2. QED
        BY <1>0, <1>7, <3>1 DEF LifeInv, TakenAsPromised, PromiseOf
    <2>3. \A a \in Attaches : attaches'[a].answer = "taken" =>
              /\ attaches'[a] = attaches[a]
              /\ Promised(attaches[a].handle)' = Promised(attaches[a].handle)
      BY <1>1, <1>7 DEF LifeInv, HandlesAge
    <2>4. QED
      BY <2>1, <2>2, <2>3 DEF LifeInv, TakenAsPromised
  <1>10. UsedOnce'
    BY <1>0, <1>1 DEF LifeInv, UsedOnce
  <1>11. QED
    BY <1>8, <1>9, <1>10 DEF LifeInv

LEMMA FilledLife ==
    ASSUME UploadsTypeOK, LifeInv, NEW b \in Pushes, NEW content \in Content,
           PushCompletes(b, content)
    PROVE  LifeInv'
  <1> PICK g \in Grants : g = bodies[b].handle
    BY DEF PushCompletes, KeptGrants
  <1> DEFINE q == [bodies[b] EXCEPT !.pc = "done", !.content = content, !.answer = "created"]
  <1>1. /\ bodies' = [bodies EXCEPT ![b] = q] /\ BodyAt(b, "receiving")
        /\ PutEntry(g, grants[g].owner, content, grants[g].draft)
        /\ grants' = [PrunedGrants EXCEPT ![g] = None]
        /\ grants[g] # None /\ grants[g].content = content
        /\ UNCHANGED <<prepared, attaches>>
    BY DEF PushCompletes, KeptGrants, Unexpired
  <1>0. /\ b \in Bodies /\ b \notin Stagings /\ g \in Handles /\ g \notin Stagings
        /\ Grants \subseteq Handles /\ Pushes \subseteq Bodies
    BY <1>1, UploadNamesAssumption DEF Bodies, Handles
  <1>2. q.pc = "done" /\ q.content = content /\ q.answer = "created" /\ q.handle = g
    BY <1>0, <1>1 DEF UploadsTypeOK, Body, BodyAt
  <1> HIDE DEF q
  <1>3. bodies'[b] = q /\ \A x \in Bodies \ {b} : bodies'[x] = bodies[x]
    BY <1>0, <1>1 DEF UploadsTypeOK
  <1>4. grants[g] \in PushGrant
    BY <1>1 DEF UploadsTypeOK
  <1>5. /\ entries'[g] # None
        /\ PromiseOf(entries[g])' = PromiseOf(grants[g])
        /\ \A x \in Handles \ {g} : entries'[x] \in {entries[x], None}
    BY <1>0, <1>1, <1>4, RowFacts, PutEntryRows DEF PromiseOf
  <1>6. grants'[g] = None /\ \A x \in Grants : grants'[x] \in {grants[x], None}
    BY <1>1, PrunedType
  <1>7. /\ Minted(g) /\ entries[g] = None /\ PromiseOf(grants[g]) = Promised(g)
        /\ \A x \in Pushes : bodies[x].answer = "created" => bodies[x].handle # g
        /\ \A a \in Attaches : attaches[a].answer = "taken" => attaches[a].handle # g
    BY <1>0, <1>1 DEF LifeInv, HandlesAge, TakenAsPromised, Minted
  <1>8. \A h \in Handles : Minted(h) => Minted(h)' /\ Promised(h)' = Promised(h)
    <2> SUFFICES ASSUME NEW h \in Handles, Minted(h)
                 PROVE  Minted(h)' /\ Promised(h)' = Promised(h)
      OBVIOUS
    <2>0. prepared' = prepared
      BY <1>1
    <2>1. CASE h \in Stagings
      BY <1>0, <1>3, <2>1 DEF Minted, Promised, Bodies
    <2>2. CASE h \notin Stagings
      BY <2>0, <2>2 DEF Minted, Promised
    <2>3. QED
      BY <2>1, <2>2
  <1>9. HandlesAge'
    <2>1. \A x \in Bodies :
              /\ bodies'[x].answer # "none" => BodyAt(x, "done")'
              /\ bodies'[x].answer = "created" => bodies'[x].content # None
      BY <1>2, <1>3, RowFacts DEF LifeInv, HandlesAge, BodyAt
    <2>2. \A h \in Handles : entries'[h] # None => Minted(h)'
      BY <1>5, <1>7, <1>8 DEF LifeInv, HandlesAge
    <2>3. \A x \in Grants : grants'[x] # None => prepared'[x] # None /\ entries'[x] = None
      BY <1>0, <1>1, <1>5, <1>6 DEF LifeInv, HandlesAge
    <2>4. \A x \in Pushes : bodies'[x].answer = "created" =>
              /\ bodies'[x].handle \in Grants
              /\ Minted(bodies[x].handle)'
              /\ grants'[bodies'[x].handle] = None
      <3>1. ASSUME NEW x \in Pushes, x # b, bodies'[x].answer = "created"
            PROVE  /\ bodies'[x].handle \in Grants
                   /\ Minted(bodies[x].handle)'
                   /\ grants'[bodies'[x].handle] = None
        BY <1>0, <1>3, <1>6, <1>8, <3>1 DEF LifeInv, HandlesAge
      <3>2. bodies'[b].handle = g /\ Minted(g)'
        BY <1>0, <1>2, <1>3, <1>7, <1>8
      <3>3. Minted(bodies[b].handle)'
        BY <3>2 DEF Minted
      <3>4. QED
        BY <1>1, <1>6, <3>1, <3>2, <3>3
    <2>5. \A a \in Attaches : attaches'[a].answer = "taken" =>
              /\ attaches'[a].handle \in Handles
              /\ Minted(attaches[a].handle)'
              /\ entries'[attaches'[a].handle] = None
              /\ attaches'[a].handle \in Grants => grants'[attaches'[a].handle] = None
      BY <1>1, <1>5, <1>6, <1>7, <1>8 DEF LifeInv, HandlesAge
    <2>6. QED
      BY <2>1, <2>2, <2>3, <2>4, <2>5 DEF HandlesAge
  <1>10. TakenAsPromised'
    <2>1. \A h \in Handles : entries'[h] # None => PromiseOf(entries[h])' = Promised(h)'
      <3>1. PromiseOf(entries[g])' = Promised(g)'
        BY <1>0, <1>5, <1>7, <1>8
      <3>2. ASSUME NEW h \in Handles, h # g, entries'[h] # None
            PROVE  PromiseOf(entries[h])' = Promised(h)'
        BY <1>5, <1>8, <3>2 DEF LifeInv, HandlesAge, TakenAsPromised, PromiseOf
      <3>3. QED
        BY <3>1, <3>2
    <2>2. \A x \in Grants : grants'[x] # None => PromiseOf(grants[x])' = Promised(x)'
      <3> SUFFICES ASSUME NEW x \in Grants, grants'[x] # None
                   PROVE  PromiseOf(grants[x])' = Promised(x)'
        OBVIOUS
      <3>1. Minted(x) /\ grants'[x] = grants[x]
        BY <1>6, UploadNamesAssumption DEF LifeInv, HandlesAge, Minted
      <3>2. QED
        BY <1>0, <1>8, <3>1 DEF LifeInv, TakenAsPromised, PromiseOf
    <2>3. \A a \in Attaches : attaches'[a].answer = "taken" =>
              /\ attaches'[a] = attaches[a]
              /\ Promised(attaches[a].handle)' = Promised(attaches[a].handle)
      BY <1>1, <1>8 DEF LifeInv, HandlesAge
    <2>4. QED
      BY <2>1, <2>2, <2>3 DEF LifeInv, TakenAsPromised
  <1>11. UsedOnce'
    BY <1>0, <1>1, <1>2, <1>3, <1>7 DEF LifeInv, UsedOnce
  <1>12. QED
    BY <1>9, <1>10, <1>11 DEF LifeInv

LEMMA TakenLife ==
    ASSUME UploadsTypeOK, LifeInv, NEW a \in Attaches, NEW owner \in Owners,
           NEW draft \in Drafts, NEW h \in Handles, Consume(a, owner, draft, h)
    PROVE  LifeInv'
  <1> DEFINE q == AttachOf(owner, draft, h, entries[h].content, "taken")
  <1>0. Grants \subseteq Handles /\ Pushes \subseteq Bodies
    BY DEF Bodies, Handles
  <1>1. /\ entries' = [PrunedEntries EXCEPT ![h] = None] /\ grants' = PrunedGrants
        /\ attaches' = [attaches EXCEPT ![a] = q] /\ attaches[a] = NoAttach
        /\ UNCHANGED <<bodies, prepared>>
    BY DEF Consume
  <1>2. /\ entries[h] # None /\ entries[h].owner = owner /\ entries[h].draft \in {None, draft}
    BY DEF Consume, Matches, Kept, Unexpired
  <1>3. /\ q.answer = "taken" /\ q.handle = h /\ q.owner = owner /\ q.draft = draft
        /\ q.content = entries[h].content
    BY DEF AttachOf
  <1> HIDE DEF q
  <1>4. attaches'[a] = q /\ \A x \in Attaches \ {a} : attaches'[x] = attaches[x]
    BY <1>1 DEF UploadsTypeOK
  <1>5. entries'[h] = None /\ \A x \in Handles : entries'[x] \in {entries[x], None}
    BY <1>1, PrunedType
  <1>6. \A g \in Grants : grants'[g] \in {grants[g], None}
    BY <1>1, PruneQuiet
  <1>7. /\ Minted(h) /\ PromiseOf(entries[h]) = Promised(h)
        /\ h \in Grants => grants[h] = None
        /\ \A x \in Attaches : attaches[x].answer = "taken" => attaches[x].handle # h
    BY <1>2 DEF LifeInv, HandlesAge, TakenAsPromised
  <1>8. \A x \in Handles : Minted(x)' = Minted(x) /\ Promised(x)' = Promised(x)
    BY <1>1 DEF Minted, Promised
  <1>9. HandlesAge'
    <2>1. \A x \in Bodies :
              /\ bodies'[x].answer # "none" => BodyAt(x, "done")'
              /\ bodies'[x].answer = "created" => bodies'[x].content # None
      BY <1>1 DEF LifeInv, HandlesAge, BodyAt
    <2>2. \A x \in Handles : entries'[x] # None => Minted(x)'
      BY <1>5, <1>8 DEF LifeInv, HandlesAge
    <2>3. \A x \in Grants : grants'[x] # None => prepared'[x] # None /\ entries'[x] = None
      BY <1>0, <1>1, <1>5, <1>6 DEF LifeInv, HandlesAge
    <2>4. \A x \in Pushes : bodies'[x].answer = "created" =>
              /\ bodies'[x].handle \in Grants
              /\ Minted(bodies[x].handle)'
              /\ grants'[bodies'[x].handle] = None
      BY <1>0, <1>1, <1>6, <1>8 DEF LifeInv, HandlesAge
    <2>5. \A x \in Attaches : attaches'[x].answer = "taken" =>
              /\ attaches'[x].handle \in Handles
              /\ Minted(attaches[x].handle)'
              /\ entries'[attaches'[x].handle] = None
              /\ attaches'[x].handle \in Grants => grants'[attaches'[x].handle] = None
      <3>1. ASSUME NEW x \in Attaches, x # a, attaches'[x].answer = "taken"
            PROVE  /\ attaches'[x].handle \in Handles
                   /\ Minted(attaches[x].handle)'
                   /\ entries'[attaches'[x].handle] = None
                   /\ attaches'[x].handle \in Grants => grants'[attaches'[x].handle] = None
        BY <1>4, <1>5, <1>6, <1>8, <3>1 DEF LifeInv, HandlesAge
      <3>2. attaches'[a].handle = h /\ Minted(h)'
        BY <1>3, <1>4, <1>7, <1>8
      <3>3. Minted(attaches[a].handle)'
        BY <3>2 DEF Minted
      <3>4. QED
        BY <1>5, <1>6, <1>7, <3>1, <3>2, <3>3
    <2>6. QED
      BY <2>1, <2>2, <2>3, <2>4, <2>5 DEF HandlesAge
  <1>10. TakenAsPromised'
    <2>1. \A x \in Handles : entries'[x] # None => PromiseOf(entries[x])' = Promised(x)'
      BY <1>5, <1>8 DEF LifeInv, TakenAsPromised, PromiseOf
    <2>2. \A x \in Grants : grants'[x] # None => PromiseOf(grants[x])' = Promised(x)'
      BY <1>0, <1>6, <1>8 DEF LifeInv, TakenAsPromised, PromiseOf
    <2>3. ASSUME NEW x \in Attaches, attaches'[x].answer = "taken"
          PROVE  LET p == Promised(attaches[x].handle)'
                 IN  /\ attaches'[x].owner = p.owner
                     /\ attaches'[x].content = p.content
                     /\ p.draft \in {None, attaches'[x].draft}
      <3>1. CASE x # a
        <4>1. attaches'[x] = attaches[x] /\ attaches[x].handle \in Handles
          BY <1>4, <2>3, <3>1 DEF LifeInv, HandlesAge
        <4>2. Promised(attaches[x].handle)' = Promised(attaches[x].handle)
          BY <1>1, <4>1 DEF Promised
        <4>3. QED
          BY <2>3, <4>1, <4>2 DEF LifeInv, TakenAsPromised
      <3>2. CASE x = a
        <4>1. attaches'[a].handle = h
          BY <1>3, <1>4
        <4>2. Promised(attaches[a].handle)' = Promised(h)'
          BY <4>1 DEF Promised
        <4>3. Promised(h)' = PromiseOf(entries[h])
          BY <1>7, <1>8
        <4>4. QED
          BY <1>2, <1>3, <1>4, <3>2, <4>2, <4>3 DEF PromiseOf
      <3>3. QED
        BY <3>1, <3>2
    <2>4. QED
      BY <2>1, <2>2, <2>3 DEF TakenAsPromised
  <1>11. UsedOnce'
    BY <1>0, <1>1, <1>3, <1>4, <1>7 DEF LifeInv, UsedOnce
  <1>12. QED
    BY <1>9, <1>10, <1>11 DEF LifeInv

\* what a step of the store can be
LEMMA StoreSteps ==
    ASSUME UploadsTypeOK, LifeInv, [Next]_vars
    PROVE  \/ Quiet
           \/ \E b \in Stagings, content \in Content :
                 StageReceived(b, content) /\ ~ Full(content)
           \/ \E b \in Pushes, content \in Content : PushCompletes(b, content)
           \/ \E g \in Grants, owner \in Owners, draft \in Drafts, content \in Content :
                 Prepare(g, owner, draft, content)
           \/ \E a \in Attaches, owner \in Owners, draft \in Drafts, h \in Handles :
                 Consume(a, owner, draft, h)
  <1>1. ASSUME Prune \/ UNCHANGED storeVars, UNCHANGED <<bodies, prepared>>,
               \A a \in Attaches :
                  attaches'[a].answer = "taken" \/ attaches[a].answer = "taken" =>
                      attaches'[a] = attaches[a]
        PROVE  Quiet
    BY <1>1, QuietTables, SameBodiesQuiet DEF Quiet, LifeInv
  <1>2. CASE Tick \/ Cleanup \/ UNCHANGED vars
    BY <1>1, <1>2 DEF Tick, Cleanup, vars
  <1>3. CASE Restart
    BY <1>3, RestartQuiet
  <1>4. CASE \E b \in Bodies : BodyStep(b)
    BY <1>4, BodyStepQuiet
  <1>5. CASE \E b \in Stagings : StageStep(b)
    <2>1. ASSUME NEW b \in Stagings, NEW content \in Content,
                 StageReceived(b, content), Full(content)
          PROVE  Quiet
      <3>1. b \in Bodies
        BY DEF Bodies
      <3>2. /\ entries' = PrunedEntries /\ grants' = PrunedGrants
            /\ Answer(b, "full") /\ BodyAt(b, "receiving") /\ UNCHANGED <<prepared, attaches>>
        BY <2>1 DEF StageReceived
      <3>3. QED
        BY <3>1, <3>2, PruneQuiet, AnswersQuietly DEF Quiet, LifeInv
    <2>2. QED
      BY <1>5, <2>1, StageArrivesQuiet DEF StageStep
  <1>6. CASE \E b \in Pushes : PushStep(b)
    BY <1>6, PushArrivesQuiet, PushAnswersQuiet DEF PushStep
  <1>7. CASE \E g \in Grants : PrepareStep(g)
    BY <1>1, <1>7 DEF PrepareStep, PrepareRefused
  <1>8. CASE \E a \in Attaches : AttachStep(a)
    <2>1. ASSUME NEW a \in Attaches, NEW owner \in Owners, NEW draft \in Drafts,
                 NEW h \in Handles, ConsumeRefused(a, owner, draft, h)
          PROVE  Quiet
      <3>1. /\ Prune /\ UNCHANGED <<bodies, prepared>> /\ attaches[a] = NoAttach
            /\ attaches' = [attaches EXCEPT ![a] = AttachOf(owner, draft, h, None, "refused")]
        BY <2>1 DEF ConsumeRefused
      <3>2. AttachOf(owner, draft, h, None, "refused").answer = "refused"
            /\ NoAttach.answer = "none"
        BY DEF AttachOf, NoAttach
      <3>3. \A x \in Attaches :
                attaches'[x].answer = "taken" \/ attaches[x].answer = "taken" =>
                    attaches'[x] = attaches[x]
        BY <3>1, <3>2 DEF UploadsTypeOK
      <3>4. QED
        BY <1>1, <3>1, <3>3
    <2>2. QED
      BY <1>8, <2>1 DEF AttachStep
  <1>9. QED
    BY <1>2, <1>3, <1>4, <1>5, <1>6, <1>7, <1>8 DEF Next

LEMMA LifePreserved == UploadsTypeOK /\ LifeInv /\ [Next]_vars => LifeInv'
  BY StoreSteps, QuietKeepsLife, StagedLife, FilledLife, PreparedLife, TakenLife

LEMMA LifeInitially == Init => LifeInv
  BY UploadNamesAssumption
     DEF Init, LifeInv, HandlesAge, TakenAsPromised, UsedOnce, NoBody, NoAttach, BodyAt,
         Handles, Bodies

(* The inductive invariant of the store: types, the cleanup deadline, and    *)
(* the life of every handle.                                                 *)
THEOREM UploadsCorrect == Spec => []UploadsInv
  <1>1. Init => CleanupIsNear
    BY UploadLimitsAssumption DEF Init, CleanupIsNear
  <1>2. UploadsTypeOK /\ CleanupIsNear /\ LifeInv => UploadsInv
    BY DEF UploadsInv, LifeInv
  <1>3. QED
    BY <1>1, <1>2, LifeInitially, LifePreserved, CleanupIsNearPreserved,
       UploadsTypeCorrect, PTL DEF Spec

(* Whoever pushes or presents a handle, in whatever order: it stands for one *)
(* owner, draft and content, and only that owner takes it, for that draft.   *)
THEOREM HandlesKeepPromises == Spec => []TakenAsPromised
  <1>1. UploadsInv => TakenAsPromised
    BY DEF UploadsInv
  <1>2. QED
    BY <1>1, UploadsCorrect, PTL

(* A handle is filled by one push and taken by one call at most, for every   *)
(* number of concurrent pushes and calls.                                    *)
THEOREM HandlesUsedOnce == Spec => []UsedOnce
  <1>1. UploadsInv => UsedOnce
    BY DEF UploadsInv
  <1>2. QED
    BY <1>1, UploadsCorrect, PTL
-----------------------------------------------------------------------------
(* The limits.  BytesIn(t, H) are the bytes of some handles in a table.      *)

BytesIn(t, H) ==
    {p \in H \X (1 .. MaxTotalBytes) : t[p[1]] # None /\ p[2] <= t[p[1]].content.size}

LEMMA BytesAreBytesIn ==
    /\ \A H \in SUBSET Handles : Bytes(H) = BytesIn(entries, H)
    /\ Bytes(Handles)' = BytesIn(entries', Handles)
  BY DEF Bytes, BytesIn

LEMMA BytesInFinite ==
    ASSUME NEW t, NEW H \in SUBSET Handles
    PROVE  IsFiniteSet(BytesIn(t, H)) /\ Cardinality(BytesIn(t, H)) \in Nat
  <1>1. IsFiniteSet(H)
    BY HandlesFinite, FS_Subset
  <1>2. IsFiniteSet(H \X (1 .. MaxTotalBytes))
    <2>1. IsFiniteSet(1 .. MaxTotalBytes)
      BY UploadLimitsAssumption, FS_Interval
    <2>2. QED BY <1>1, <2>1, FS_Product
  <1>3. BytesIn(t, H) \in SUBSET (H \X (1 .. MaxTotalBytes))
    BY DEF BytesIn
  <1>4. IsFiniteSet(BytesIn(t, H))
    BY <1>2, <1>3, FS_Subset
  <1>5. QED BY <1>4, FS_CardinalityType

\* a byte is named by its handle and its position
LEMMA BytesInByHandle ==
    ASSUME NEW t, NEW H \in SUBSET Handles, NEW p
    PROVE  p \in BytesIn(t, H) <=> p \in BytesIn(t, Handles) /\ p[1] \in H
  <1>1. p \in H \X (1 .. MaxTotalBytes)
          <=> p \in Handles \X (1 .. MaxTotalBytes) /\ p[1] \in H
    OBVIOUS
  <1>2. QED BY <1>1, Zenon DEF BytesIn

LEMMA BytesInAdd ==
    ASSUME NEW t, NEW H \in SUBSET Handles, NEW J \in SUBSET Handles, H \cap J = {}
    PROVE  Cardinality(BytesIn(t, H \cup J))
             = Cardinality(BytesIn(t, H)) + Cardinality(BytesIn(t, J))
  <1>0. H \cup J \in SUBSET Handles
    OBVIOUS
  <1>1. BytesIn(t, H \cup J) = BytesIn(t, H) \cup BytesIn(t, J)
    BY <1>0, BytesInByHandle
  <1>2. BytesIn(t, H) \cap BytesIn(t, J) = {}
    BY BytesInByHandle
  <1>3. /\ IsFiniteSet(BytesIn(t, H)) /\ IsFiniteSet(BytesIn(t, J))
        /\ Cardinality(BytesIn(t, H)) \in Nat /\ Cardinality(BytesIn(t, J)) \in Nat
    BY BytesInFinite
  <1>4. Cardinality(BytesIn(t, H) \cup BytesIn(t, J))
          = Cardinality(BytesIn(t, H)) + Cardinality(BytesIn(t, J))
              - Cardinality(BytesIn(t, H) \cap BytesIn(t, J))
    BY <1>3, FS_Union
  <1>5. Cardinality(BytesIn(t, H) \cap BytesIn(t, J)) = 0
    BY <1>2, FS_EmptySet
  <1>6. \A m, n \in Nat : m + n - 0 = m + n
    OBVIOUS
  <1>7. Cardinality(BytesIn(t, H)) + Cardinality(BytesIn(t, J)) - 0
          = Cardinality(BytesIn(t, H)) + Cardinality(BytesIn(t, J))
    BY <1>3, <1>6, Zenon
  <1>8. QED BY <1>1, <1>4, <1>5, <1>7, Zenon

LEMMA BytesInOne ==
    ASSUME NEW t, NEW h \in Handles, t[h] # None,
           t[h].content.size \in Nat, t[h].content.size <= MaxTotalBytes
    PROVE  Cardinality(BytesIn(t, {h})) = t[h].content.size
  <1> DEFINE n == t[h].content.size
  <1>1. BytesIn(t, {h}) = {h} \X (1 .. n)
    <2>1. \A k : k \in 1 .. n <=> k \in 1 .. MaxTotalBytes /\ k <= n
      BY UploadLimitsAssumption
    <2> HIDE DEF n
    <2>2. \A p : p \in {h} \X (1 .. n) <=>
                    p \in {h} \X (1 .. MaxTotalBytes) /\ p[2] <= n
      BY <2>1
    <2>3. \A p \in {h} \X (1 .. MaxTotalBytes) : p[1] = h
      OBVIOUS
    <2>4. ASSUME NEW p \in {h} \X (1 .. MaxTotalBytes)
          PROVE  (t[p[1]] # None /\ p[2] <= t[p[1]].content.size) <=> p[2] <= n
      BY <2>3, Zenon DEF n
    <2>5. \A p : p \in BytesIn(t, {h}) <=> p \in {h} \X (1 .. MaxTotalBytes) /\ p[2] <= n
      BY <2>4, Zenon DEF BytesIn
    <2>6. QED BY <2>2, <2>5
  <1>2. IsFiniteSet(1 .. n) /\ Cardinality(1 .. n) = n
    <2>1. n \in Nat
      OBVIOUS
    <2> HIDE DEF n
    <2>2. QED BY <2>1, FS_Interval
  <1>3. IsFiniteSet({h}) /\ Cardinality({h}) = 1
    BY FS_Singleton
  <1> HIDE DEF n
  <1>4. Cardinality({h} \X (1 .. n)) = 1 * n
    <2>1. Cardinality({h} \X (1 .. n)) = Cardinality({h}) * Cardinality(1 .. n)
      BY <1>2, <1>3, FS_Product, Zenon
    <2>2. QED BY <1>2, <1>3, <2>1, Zenon
  <1>5. n \in Nat
    BY DEF n
  <1>6. QED BY <1>1, <1>4, <1>5 DEF n

LEMMA BytesInSame ==
    ASSUME NEW t, NEW u, NEW H \in SUBSET Handles, \A h \in H : t[h] = u[h]
    PROVE  BytesIn(t, H) = BytesIn(u, H)
  <1>1. \A p \in H \X (1 .. MaxTotalBytes) : p[1] \in H
    OBVIOUS
  <1>2. ASSUME NEW p \in H \X (1 .. MaxTotalBytes)
        PROVE  (t[p[1]] # None /\ p[2] <= t[p[1]].content.size)
                 <=> (u[p[1]] # None /\ p[2] <= u[p[1]].content.size)
    <2>1. t[p[1]] = u[p[1]]
      BY <1>1
    <2>2. QED BY <2>1, Zenon
  <1>3. QED BY <1>2, Zenon DEF BytesIn

LEMMA BytesInNone ==
    ASSUME NEW t, NEW H \in SUBSET Handles, \A h \in H : t[h] = None
    PROVE  Cardinality(BytesIn(t, H)) = 0
  <1>1. BytesIn(t, H) = {}
    BY DEF BytesIn
  <1>2. QED BY <1>1, FS_EmptySet

Staged(t) == {h \in Handles : t[h] # None}

\* The counter of the bytes and the number of files, for a table.
Stored(t, total) ==
    /\ total = Cardinality(BytesIn(t, Handles))
    /\ total <= MaxTotalBytes
    /\ Cardinality(Staged(t)) <= MaxItems
    /\ \A h \in Handles : t[h] # None => t[h].content.size <= MaxTotalBytes

Granted(t) == {g \in Grants : t[g] # None}

GrantsFit(t) == Cardinality(Granted(t)) <= MaxPushGrants

Receiving(q) == {b \in Bodies : q[b].pc = "receiving"}

SlotsHeld(n, q) == n + Cardinality(Receiving(q)) = UploadSlots /\ n >= 0

LimitsInv ==
    Stored(entries, totalBytes) /\ GrantsFit(grants) /\ SlotsHeld(slots, bodies)

LEMMA LimitsHold == UploadsTypeOK /\ LimitsInv => WithinLimits
  <1>1. Bytes(Handles) = BytesIn(entries, Handles)
    BY BytesAreBytesIn
  <1>2. QED
    BY <1>1 DEF LimitsInv, WithinLimits, Stored, GrantsFit, SlotsHeld, Staged, Granted,
                Receiving, BodyAt

\* Fewer files take no more room.
LEMMA FewerFiles ==
    ASSUME NEW t, NEW u, Cardinality(Staged(t)) <= MaxItems,
           \A h \in Handles : u[h] # None => t[h] # None
    PROVE  /\ Cardinality(Staged(u)) <= MaxItems
           /\ IsFiniteSet(Staged(u)) /\ Cardinality(Staged(u)) \in Nat
  <1>1. Staged(u) \subseteq Staged(t) /\ Staged(t) \subseteq Handles
    BY DEF Staged
  <1>2. IsFiniteSet(Staged(t))
    BY <1>1, HandlesFinite, FS_Subset
  <1>3. /\ IsFiniteSet(Staged(u)) /\ Cardinality(Staged(u)) <= Cardinality(Staged(t))
        /\ Cardinality(Staged(u)) \in Nat /\ Cardinality(Staged(t)) \in Nat
    BY <1>1, <1>2, FS_Subset, FS_CardinalityType
  <1>4. QED BY <1>3, UploadLimitsAssumption

\* What is left after pruning, and what the counter says of it.
LEMMA PrunedStored ==
    ASSUME UploadsTypeOK, Stored(entries, totalBytes)
    PROVE  /\ Stored(PrunedEntries, KeptBytes)
           /\ KeptBytes \in Nat
           /\ Staged(PrunedEntries) = Kept
  <1>1. /\ Kept \in SUBSET Handles /\ (Handles \ Kept) \in SUBSET Handles
        /\ Kept \cap (Handles \ Kept) = {} /\ Kept \cup (Handles \ Kept) = Handles
    BY DEF Kept
  <1>2. /\ \A h \in Kept : PrunedEntries[h] = entries[h] /\ entries[h] # None
        /\ \A h \in Handles \ Kept : PrunedEntries[h] = None
    BY DEF PrunedEntries, Kept, Unexpired
  <1>3. Cardinality(BytesIn(entries, Handles))
          = Cardinality(BytesIn(entries, Kept)) + Cardinality(BytesIn(entries, Handles \ Kept))
    BY <1>1, BytesInAdd
  <1>4. Cardinality(BytesIn(PrunedEntries, Handles))
          = Cardinality(BytesIn(PrunedEntries, Kept))
              + Cardinality(BytesIn(PrunedEntries, Handles \ Kept))
    BY <1>1, BytesInAdd
  <1>5. /\ BytesIn(PrunedEntries, Kept) = BytesIn(entries, Kept)
        /\ Cardinality(BytesIn(PrunedEntries, Handles \ Kept)) = 0
    BY <1>1, <1>2, BytesInSame, BytesInNone
  <1>6. /\ Cardinality(BytesIn(entries, Kept)) \in Nat
        /\ Cardinality(BytesIn(entries, Handles \ Kept)) \in Nat
    BY <1>1, BytesInFinite
  <1>7. KeptBytes = totalBytes - Cardinality(BytesIn(entries, Handles \ Kept))
    BY <1>1, BytesAreBytesIn DEF KeptBytes
  <1>8. totalBytes = Cardinality(BytesIn(entries, Handles)) /\ totalBytes <= MaxTotalBytes
    BY DEF Stored
  <1>9. /\ KeptBytes = Cardinality(BytesIn(PrunedEntries, Handles)) /\ KeptBytes \in Nat
        /\ KeptBytes <= MaxTotalBytes
    BY <1>3, <1>4, <1>5, <1>6, <1>7, <1>8, UploadLimitsAssumption
  <1>10. \A h \in Handles : PrunedEntries[h] # None => h \in Kept /\ entries[h] # None
    BY <1>2
  <1>11. Cardinality(Staged(PrunedEntries)) <= MaxItems
    BY <1>10, FewerFiles DEF Stored
  <1>12. Staged(PrunedEntries) = Kept
    BY <1>1, <1>2 DEF Staged
  <1>13. QED BY <1>2, <1>9, <1>10, <1>11, <1>12 DEF Stored

\* One more file, of which Full has said that it fits.
LEMMA PutStored ==
    ASSUME UploadsTypeOK, Stored(entries, totalBytes), NEW h \in Handles,
           NEW owner \in Owners, NEW content \in Content, NEW draft \in Drafts \cup {None},
           entries[h] = None, ~ Full(content), PutEntry(h, owner, content, draft)
    PROVE  Stored(entries', totalBytes')
  <1> DEFINE row == [owner |-> owner, content |-> content, draft |-> draft,
                     expiresAt |-> clock + Ttl]
  <1>1. /\ entries' = [PrunedEntries EXCEPT ![h] = row]
        /\ totalBytes' = KeptBytes + content.size
    BY DEF PutEntry
  <1>2. row \in Entry /\ row # None /\ row.content = content /\ content.size \in Nat
    BY RowFacts, UploadLimitsAssumption DEF UploadsTypeOK, Entry
  <1>3. PrunedEntries \in [Handles -> Entry \cup {None}]
    BY PrunedType
  <1> HIDE DEF row
  <1>4. entries'[h] = row /\ \A k \in Handles \ {h} : entries'[k] = PrunedEntries[k]
    BY <1>1, <1>3
  <1>5. /\ Stored(PrunedEntries, KeptBytes) /\ KeptBytes \in Nat
        /\ Staged(PrunedEntries) = Kept
    BY PrunedStored
  <1>6. h \notin Kept /\ PrunedEntries[h] = None
    BY DEF Kept, Unexpired, PrunedEntries
  <1>7. Cardinality(Kept) < MaxItems /\ KeptBytes + content.size <= MaxTotalBytes
    <2>1. ~ (Cardinality(Kept) >= MaxItems) /\ ~ (KeptBytes + content.size > MaxTotalBytes)
      BY DEF Full
    <2>2. Cardinality(Kept) \in Nat
      BY <1>5, FewerFiles DEF Stored
    <2>3. QED BY <1>2, <1>5, <2>1, <2>2, UploadLimitsAssumption
  <1>8. content.size <= MaxTotalBytes
    BY <1>2, <1>5, <1>7, UploadLimitsAssumption
  <1>9. /\ {h} \in SUBSET Handles /\ (Handles \ {h}) \in SUBSET Handles
        /\ (Handles \ {h}) \cap {h} = {} /\ (Handles \ {h}) \cup {h} = Handles
    OBVIOUS
  <1>10. /\ Cardinality(BytesIn(entries', Handles))
               = Cardinality(BytesIn(entries', Handles \ {h}))
                   + Cardinality(BytesIn(entries', {h}))
         /\ Cardinality(BytesIn(PrunedEntries, Handles))
               = Cardinality(BytesIn(PrunedEntries, Handles \ {h}))
                   + Cardinality(BytesIn(PrunedEntries, {h}))
    BY <1>9, BytesInAdd
  <1>11. BytesIn(entries', Handles \ {h}) = BytesIn(PrunedEntries, Handles \ {h})
    BY <1>4, <1>9, BytesInSame
  <1>12. Cardinality(BytesIn(entries', {h})) = content.size
    BY <1>2, <1>4, <1>8, BytesInOne
  <1>13. Cardinality(BytesIn(PrunedEntries, {h})) = 0
    BY <1>6, <1>9, BytesInNone
  <1>14. Cardinality(BytesIn(PrunedEntries, Handles \ {h})) \in Nat
    BY <1>9, BytesInFinite
  <1>15. totalBytes' = Cardinality(BytesIn(entries', Handles)) /\ totalBytes' <= MaxTotalBytes
    BY <1>1, <1>2, <1>5, <1>7, <1>10, <1>11, <1>12, <1>13, <1>14 DEF Stored
  <1>16. Cardinality(Staged(entries')) <= MaxItems
    <2>1. Staged(entries') = Kept \cup {h}
      BY <1>2, <1>4, <1>5, <1>6 DEF Staged
    <2>2. IsFiniteSet(Kept) /\ Cardinality(Kept) \in Nat
      BY <1>5, FewerFiles DEF Stored
    <2>3. Cardinality(Kept \cup {h}) = Cardinality(Kept) + 1
      BY <1>6, <2>2, FS_AddElement
    <2>4. QED BY <1>7, <2>1, <2>2, <2>3, UploadLimitsAssumption
  <1>17. \A k \in Handles : entries'[k] # None => entries'[k].content.size <= MaxTotalBytes
    BY <1>2, <1>4, <1>5, <1>8 DEF Stored
  <1>18. QED BY <1>15, <1>16, <1>17 DEF Stored

\* One file is taken.
LEMMA TakeStored ==
    ASSUME UploadsTypeOK, Stored(entries, totalBytes), NEW h \in Kept,
           entries' = [PrunedEntries EXCEPT ![h] = None],
           totalBytes' = KeptBytes - entries[h].content.size
    PROVE  Stored(entries', totalBytes')
  <1>1. h \in Handles /\ entries[h] # None /\ PrunedEntries[h] = entries[h]
    BY DEF Kept, Unexpired, PrunedEntries
  <1>2. PrunedEntries \in [Handles -> Entry \cup {None}]
    BY PrunedType
  <1>3. entries'[h] = None /\ \A k \in Handles \ {h} : entries'[k] = PrunedEntries[k]
    BY <1>1, <1>2
  <1>4. /\ Stored(PrunedEntries, KeptBytes) /\ KeptBytes \in Nat
    BY PrunedStored
  <1>5. entries[h].content.size \in Nat /\ entries[h].content.size <= MaxTotalBytes
    BY <1>1, RowFacts DEF UploadsTypeOK, Stored
  <1>6. /\ {h} \in SUBSET Handles /\ (Handles \ {h}) \in SUBSET Handles
        /\ (Handles \ {h}) \cap {h} = {} /\ (Handles \ {h}) \cup {h} = Handles
    BY <1>1
  <1>7. /\ Cardinality(BytesIn(entries', Handles))
              = Cardinality(BytesIn(entries', Handles \ {h}))
                  + Cardinality(BytesIn(entries', {h}))
        /\ Cardinality(BytesIn(PrunedEntries, Handles))
              = Cardinality(BytesIn(PrunedEntries, Handles \ {h}))
                  + Cardinality(BytesIn(PrunedEntries, {h}))
    BY <1>6, BytesInAdd
  <1>8. BytesIn(entries', Handles \ {h}) = BytesIn(PrunedEntries, Handles \ {h})
    <2>1. (Handles \ {h}) \in SUBSET Handles
      BY <1>6
    <2>2. \A k \in Handles \ {h} : entries'[k] = PrunedEntries[k]
      BY <1>3
    <2> QED
      BY ONLY <2>1, <2>2, BytesInSame
  <1>9. Cardinality(BytesIn(PrunedEntries, {h})) = entries[h].content.size
    BY <1>1, <1>5, BytesInOne
  <1>10. Cardinality(BytesIn(entries', {h})) = 0
    BY <1>3, <1>6, BytesInNone
  <1>11. Cardinality(BytesIn(PrunedEntries, Handles \ {h})) \in Nat
    BY <1>6, BytesInFinite
  <1>12. /\ totalBytes' = Cardinality(BytesIn(entries', Handles))
         /\ totalBytes' <= MaxTotalBytes
    BY <1>4, <1>5, <1>7, <1>8, <1>9, <1>10, <1>11, UploadLimitsAssumption DEF Stored
  <1>13. Cardinality(Staged(entries')) <= MaxItems
    <2>1. \A k \in Handles : entries'[k] # None => PrunedEntries[k] # None
      BY <1>3
    <2>2. QED BY <1>4, <2>1, FewerFiles DEF Stored
  <1>14. QED BY <1>3, <1>4, <1>12, <1>13 DEF Stored

\* The three parts of LimitsInv after a step.
StoredNext == Stored(entries', totalBytes')
GrantsFitNext == GrantsFit(grants')
SlotsHeldNext == SlotsHeld(slots', bodies')

LEMMA FewerGrants ==
    ASSUME NEW t, GrantsFit(grants), \A g \in Grants : t[g] # None => grants[g] # None
    PROVE  GrantsFit(t)
  <1>1. Granted(t) \subseteq Granted(grants) /\ Granted(grants) \subseteq Grants
    BY DEF Granted
  <1>2. IsFiniteSet(Granted(grants))
    BY <1>1, UploadFiniteAssumption, FS_Subset
  <1>3. /\ Cardinality(Granted(t)) <= Cardinality(Granted(grants))
        /\ Cardinality(Granted(t)) \in Nat /\ Cardinality(Granted(grants)) \in Nat
    BY <1>1, <1>2, FS_Subset, FS_CardinalityType
  <1>4. QED BY <1>3, UploadLimitsAssumption DEF GrantsFit

LEMMA PrunedGrantsFit ==
    ASSUME UploadsTypeOK, GrantsFit(grants)
    PROVE  /\ GrantsFit(PrunedGrants)
           /\ \A g \in Grants : GrantsFit([PrunedGrants EXCEPT ![g] = None])
  <1>1. \A g \in Grants : PrunedGrants[g] # None => grants[g] # None
    BY PrunedType
  <1>2. ASSUME NEW g \in Grants
        PROVE  \A k \in Grants : [PrunedGrants EXCEPT ![g] = None][k] # None => grants[k] # None
    BY <1>1, PrunedType
  <1>3. QED BY <1>1, <1>2, FewerGrants

LEMMA PreparedFits ==
    ASSUME UploadsTypeOK, GrantsFit(grants), NEW g \in Grants, NEW row,
           Cardinality(KeptGrants) < MaxPushGrants
    PROVE  GrantsFit([PrunedGrants EXCEPT ![g] = row])
  <1> DEFINE t == [PrunedGrants EXCEPT ![g] = row]
  <1>1. KeptGrants \subseteq Grants /\ IsFiniteSet(KeptGrants) /\ Cardinality(KeptGrants) \in Nat
    <2>1. KeptGrants \subseteq Grants
      BY DEF KeptGrants
    <2>2. QED BY <2>1, UploadFiniteAssumption, FS_Subset, FS_CardinalityType
  <1>2. Granted(t) \subseteq KeptGrants \cup {g}
    <2>1. \A k \in Grants \ KeptGrants : PrunedGrants[k] = None
      BY DEF PrunedGrants
    <2>2. \A k \in Grants \ {g} : t[k] = PrunedGrants[k]
      BY PrunedType
    <2> HIDE DEF t
    <2>3. QED BY <2>1, <2>2 DEF Granted
  <1>3. /\ IsFiniteSet(KeptGrants \cup {g})
        /\ Cardinality(KeptGrants \cup {g}) \in Nat
        /\ Cardinality(KeptGrants \cup {g}) <= Cardinality(KeptGrants) + 1
    <2>1. CASE g \in KeptGrants
      <3>1. KeptGrants \cup {g} = KeptGrants
        BY <2>1
      <3>2. \A n \in Nat : n <= n + 1
        OBVIOUS
      <3>3. QED BY <1>1, <3>1, <3>2, Zenon
    <2>2. CASE g \notin KeptGrants
      BY <1>1, <2>2, FS_AddElement
    <2>3. QED BY <2>1, <2>2
  <1> HIDE DEF t
  <1>4. /\ Cardinality(Granted(t)) <= Cardinality(KeptGrants \cup {g})
        /\ Cardinality(Granted(t)) \in Nat
    BY <1>2, <1>3, FS_Subset, FS_CardinalityType
  <1>5. QED BY <1>1, <1>3, <1>4, UploadLimitsAssumption DEF GrantsFit, t

\* How one body changes the set of those being received.
LEMMA ReceivingMoves ==
    ASSUME UploadsTypeOK, NEW b \in Bodies, NEW q, bodies' = [bodies EXCEPT ![b] = q]
    PROVE  Receiving(bodies') = IF q.pc = "receiving" THEN Receiving(bodies) \cup {b}
                                                      ELSE Receiving(bodies) \ {b}
  <1>1. bodies'[b] = q /\ \A c \in Bodies \ {b} : bodies'[c] = bodies[c]
    BY DEF UploadsTypeOK
  <1>2. QED BY <1>1 DEF Receiving

LEMMA ReceivingFinite ==
    IsFiniteSet(Receiving(bodies)) /\ Cardinality(Receiving(bodies)) \in Nat
  <1>1. Receiving(bodies) \subseteq Bodies
    BY DEF Receiving
  <1>2. QED BY <1>1, HandlesFinite, FS_Subset, FS_CardinalityType

\* a body that was not being received moves, and is not now
LEMMA SlotKept ==
    ASSUME UploadsTypeOK, SlotsHeld(slots, bodies), NEW b \in Bodies, NEW q,
           ~ BodyAt(b, "receiving"), q.pc # "receiving",
           bodies' = [bodies EXCEPT ![b] = q], slots' = slots
    PROVE  SlotsHeldNext
  <1>1. Receiving(bodies) \ {b} = Receiving(bodies)
    BY DEF Receiving, BodyAt
  <1>2. Receiving(bodies') = Receiving(bodies)
    BY <1>1, ReceivingMoves
  <1>3. QED BY <1>2 DEF SlotsHeldNext, SlotsHeld

LEMMA SlotFreed ==
    ASSUME UploadsTypeOK, SlotsHeld(slots, bodies), NEW b \in Bodies, NEW q,
           BodyAt(b, "receiving"), q.pc # "receiving",
           bodies' = [bodies EXCEPT ![b] = q], slots' = slots + 1
    PROVE  SlotsHeldNext
  <1>1. b \in Receiving(bodies) /\ Receiving(bodies') = Receiving(bodies) \ {b}
    BY ReceivingMoves DEF Receiving, BodyAt
  <1>2. Cardinality(Receiving(bodies')) = Cardinality(Receiving(bodies)) - 1
    BY <1>1, ReceivingFinite, FS_RemoveElement
  <1>3. slots \in Int /\ UploadSlots \in Nat
    BY UploadLimitsAssumption DEF UploadsTypeOK
  <1>4. QED BY <1>2, <1>3, ReceivingFinite DEF SlotsHeldNext, SlotsHeld

LEMMA SlotTaken ==
    ASSUME UploadsTypeOK, SlotsHeld(slots, bodies), NEW b \in Bodies, AcquireSlot(b)
    PROVE  SlotsHeldNext
  <1> DEFINE q == [bodies[b] EXCEPT !.pc = "receiving"]
  <1>1. /\ slots > 0 /\ slots' = slots - 1 /\ bodies' = [bodies EXCEPT ![b] = q]
        /\ b \notin Receiving(bodies)
    BY DEF AcquireSlot, Receiving, BodyAt
  <1>2. q.pc = "receiving"
    BY DEF UploadsTypeOK, Body
  <1> HIDE DEF q
  <1>3. Receiving(bodies') = Receiving(bodies) \cup {b}
    BY <1>1, <1>2, ReceivingMoves
  <1>4. Cardinality(Receiving(bodies')) = Cardinality(Receiving(bodies)) + 1
    BY <1>1, <1>3, ReceivingFinite, FS_AddElement
  <1>5. slots \in Int /\ UploadSlots \in Nat
    BY UploadLimitsAssumption DEF UploadsTypeOK
  <1>6. QED BY <1>1, <1>4, <1>5, ReceivingFinite DEF SlotsHeldNext, SlotsHeld

\* the records a body leaves with
LEMMA LeavingBodies ==
    ASSUME UploadsTypeOK, NEW b \in Bodies
    PROVE  /\ \A answer : [bodies[b] EXCEPT !.pc = "done", !.answer = answer].pc = "done"
           /\ \A content :
                 [bodies[b] EXCEPT !.pc = "done", !.content = content, !.answer = "created"].pc
                   = "done"
           /\ \A owner : [bodies[b] EXCEPT !.pc = "waiting", !.owner = owner].pc = "waiting"
           /\ \A h, n :
                 [bodies[b] EXCEPT !.pc = "waiting", !.handle = h, !.expected = n].pc = "waiting"
           /\ \A h :
                 [bodies[b] EXCEPT !.pc = "done", !.handle = h, !.answer = "refused"].pc = "done"
  BY DEF UploadsTypeOK, Body

LEMMA AnswerFrees ==
    ASSUME UploadsTypeOK, SlotsHeld(slots, bodies), NEW b \in Bodies, NEW answer,
           BodyAt(b, "receiving"), Answer(b, answer), slots' = slots + 1
    PROVE  SlotsHeldNext
  <1> DEFINE q == [bodies[b] EXCEPT !.pc = "done", !.answer = answer]
  <1>1. q.pc = "done" /\ bodies' = [bodies EXCEPT ![b] = q]
    BY LeavingBodies DEF Answer
  <1> HIDE DEF q
  <1>2. QED BY <1>1, SlotFreed

LEMMA CreatedFrees ==
    ASSUME UploadsTypeOK, SlotsHeld(slots, bodies), NEW b \in Bodies, NEW content,
           BodyAt(b, "receiving"), slots' = slots + 1,
           bodies' = [bodies EXCEPT ![b] =
              [@ EXCEPT !.pc = "done", !.content = content, !.answer = "created"]]
    PROVE  SlotsHeldNext
  <1> DEFINE q == [bodies[b] EXCEPT !.pc = "done", !.content = content,
                                    !.answer = "created"]
  <1>1. q.pc = "done"
    BY LeavingBodies
  <1> HIDE DEF q
  <1>2. bodies' = [bodies EXCEPT ![b] = q]
    BY DEF q
  <1>3. QED BY <1>1, <1>2, SlotFreed

LEMMA PruneLimits ==
    ASSUME UploadsTypeOK, LimitsInv, Prune
    PROVE  StoredNext /\ GrantsFitNext
  BY PrunedStored, PrunedGrantsFit DEF Prune, LimitsInv, StoredNext, GrantsFitNext

LEMMA SameTables ==
    ASSUME LimitsInv, UNCHANGED storeVars
    PROVE  StoredNext /\ GrantsFitNext
  BY DEF LimitsInv, StoredNext, GrantsFitNext, storeVars

LEMMA SameSlots ==
    ASSUME LimitsInv, UNCHANGED <<slots, bodies>>
    PROVE  SlotsHeldNext
  BY DEF LimitsInv, SlotsHeldNext

AllLimitsNext == StoredNext /\ GrantsFitNext /\ SlotsHeldNext

LEMMA BodyLimits ==
    ASSUME UploadsTypeOK, LimitsInv, NEW b \in Bodies, BodyStep(b)
    PROVE  AllLimitsNext
  <1>1. UNCHANGED storeVars
    BY DEF BodyStep, AcquireSlot, BodyFails
  <1>2. CASE AcquireSlot(b)
    BY <1>1, <1>2, SameTables, SlotTaken DEF AllLimitsNext, LimitsInv
  <1>3. CASE BodyFails(b)
    BY <1>1, <1>3, SameTables, AnswerFrees DEF AllLimitsNext, LimitsInv, BodyFails
  <1>4. QED BY <1>2, <1>3 DEF BodyStep

LEMMA StageLimits ==
    ASSUME UploadsInv, LimitsInv, NEW b \in Stagings, StageStep(b)
    PROVE  AllLimitsNext
  <1>0. UploadsTypeOK /\ b \in Bodies /\ b \in Handles
    BY DEF UploadsInv, Bodies, Handles
  <1>1. ASSUME NEW owner \in Owners, StageArrives(b, owner)
        PROVE  AllLimitsNext
    <2>1. SlotsHeldNext
      <3>1. ~ BodyAt(b, "receiving")
        BY <1>1 DEF StageArrives, BodyAt
      <3> DEFINE q == [bodies[b] EXCEPT !.pc = "waiting", !.owner = owner]
      <3>2. /\ q.pc = "waiting" /\ bodies' = [bodies EXCEPT ![b] = q] /\ slots' = slots
            /\ SlotsHeld(slots, bodies)
        BY <1>0, <1>1, LeavingBodies DEF StageArrives, LimitsInv
      <3> HIDE DEF q
      <3>3. QED BY <1>0, <3>1, <3>2, SlotKept
    <2>2. QED BY <1>1, <2>1, SameTables DEF StageArrives, AllLimitsNext
  <1>2. ASSUME NEW content \in Content, StageReceived(b, content)
        PROVE  AllLimitsNext
    <2>1. GrantsFitNext
      BY <1>0, <1>2, PrunedGrantsFit DEF StageReceived, GrantsFitNext, LimitsInv
    <2>2. CASE Full(content)
      <3>1. StoredNext
        BY <1>0, <1>2, <2>2, PrunedStored DEF StageReceived, StoredNext, LimitsInv
      <3>2. SlotsHeldNext
        BY <1>0, <1>2, <2>2, AnswerFrees DEF StageReceived, LimitsInv
      <3>3. QED BY <2>1, <3>1, <3>2 DEF AllLimitsNext
    <2>3. CASE ~ Full(content)
      <3>1. entries[b] = None
        BY <1>0, <1>2 DEF StageReceived, UploadsInv, HandlesAge, Minted, BodyAt
      <3>2. bodies[b].owner \in Owners
        BY <1>0, <1>2 DEF StageReceived, BodyAt, UploadsTypeOK, Body
      <3>3. StoredNext
        BY <1>0, <1>2, <2>3, <3>1, <3>2, PutStored DEF StageReceived, StoredNext, LimitsInv
      <3>4. SlotsHeldNext
        BY <1>0, <1>2, <2>3, CreatedFrees DEF StageReceived, LimitsInv
      <3>5. QED BY <2>1, <3>3, <3>4 DEF AllLimitsNext
    <2>4. QED BY <2>2, <2>3
  <1>3. QED BY <1>1, <1>2 DEF StageStep

LEMMA PushLimits ==
    ASSUME UploadsInv, LimitsInv, NEW b \in Pushes, PushStep(b)
    PROVE  AllLimitsNext
  <1>0. UploadsTypeOK /\ b \in Bodies
    BY DEF UploadsInv, Bodies
  <1> DEFINE h == bodies[b].handle
  <1>1. ASSUME NEW k \in Handles, NEW wellFormed \in BOOLEAN, PushArrives(b, k, wellFormed)
        PROVE  AllLimitsNext
    <2>1. StoredNext /\ GrantsFitNext
      BY <1>0, <1>1, PruneLimits DEF PushArrives
    <2>2. ~ BodyAt(b, "receiving") /\ slots' = slots
      BY <1>1 DEF PushArrives, BodyAt
    <2>3. SlotsHeldNext
      <3> DEFINE q == [bodies[b] EXCEPT !.pc = "waiting", !.handle = k,
                                        !.expected = grants[k].content.size]
                 refused == [bodies[b] EXCEPT !.pc = "done", !.handle = k,
                                              !.answer = "refused"]
      <3>1. q.pc = "waiting" /\ refused.pc = "done"
        BY <1>0, LeavingBodies
      <3>2. bodies' = [bodies EXCEPT ![b] = q] \/ bodies' = [bodies EXCEPT ![b] = refused]
        BY <1>1 DEF PushArrives
      <3>3. SlotsHeld(slots, bodies)
        BY DEF LimitsInv
      <3> HIDE DEF q, refused
      <3>4. QED BY <1>0, <2>2, <3>1, <3>2, <3>3, SlotKept
    <2>4. QED BY <2>1, <2>3 DEF AllLimitsNext
  <1>2. ASSUME NEW content \in Content, PushRefused(b, content) \/ PushFull(b, content)
        PROVE  AllLimitsNext
    <2>1. StoredNext /\ GrantsFitNext
      BY <1>0, <1>2, PruneLimits DEF PushRefused, PushFull
    <2>2. SlotsHeldNext
      BY <1>0, <1>2, AnswerFrees DEF PushRefused, PushFull, LimitsInv
    <2>3. QED BY <2>1, <2>2 DEF AllLimitsNext
  <1>3. ASSUME NEW content \in Content, PushCompletes(b, content)
        PROVE  AllLimitsNext
    <2>1. /\ h \in Grants /\ grants[h] # None /\ h \in Handles
          /\ PutEntry(h, grants[h].owner, content, grants[h].draft) /\ ~ Full(content)
          /\ grants' = [PrunedGrants EXCEPT ![h] = None]
      BY <1>3 DEF PushCompletes, KeptGrants, Unexpired, Handles
    <2>2. grants[h].owner \in Owners /\ grants[h].draft \in Drafts /\ entries[h] = None
      BY <1>0, <2>1, RowFacts DEF UploadsTypeOK, UploadsInv, HandlesAge
    <2>3. StoredNext
      BY <1>0, <2>1, <2>2, PutStored DEF StoredNext, LimitsInv
    <2>4. GrantsFitNext
      BY <1>0, <2>1, PrunedGrantsFit DEF GrantsFitNext, LimitsInv
    <2>5. SlotsHeldNext
      BY <1>0, <1>3, CreatedFrees DEF PushCompletes, LimitsInv
    <2>6. QED BY <2>3, <2>4, <2>5 DEF AllLimitsNext
  <1>4. QED BY <1>1, <1>2, <1>3 DEF PushStep

LEMMA PrepareLimits ==
    ASSUME UploadsTypeOK, LimitsInv, NEW g \in Grants, PrepareStep(g)
    PROVE  AllLimitsNext
  <1>1. SlotsHeldNext
    BY SameSlots DEF PrepareStep, Prepare, PrepareRefused
  <1>2. CASE PrepareRefused(g)
    BY <1>1, <1>2, PruneLimits DEF PrepareRefused, AllLimitsNext
  <1>3. ASSUME NEW owner \in Owners, NEW draft \in Drafts, NEW content \in Content,
               Prepare(g, owner, draft, content)
        PROVE  AllLimitsNext
    <2>1. StoredNext
      BY <1>3, PrunedStored DEF Prepare, StoredNext, LimitsInv
    <2>2. GrantsFitNext
      BY <1>3, PreparedFits DEF Prepare, GrantsFitNext, LimitsInv
    <2>3. QED BY <1>1, <2>1, <2>2 DEF AllLimitsNext
  <1>4. QED BY <1>2, <1>3 DEF PrepareStep

LEMMA AttachLimits ==
    ASSUME UploadsTypeOK, LimitsInv, NEW a \in Attaches, AttachStep(a)
    PROVE  AllLimitsNext
  <1>1. SlotsHeldNext
    BY SameSlots DEF AttachStep, Consume, ConsumeRefused
  <1>2. ASSUME NEW owner \in Owners, NEW draft \in Drafts, NEW h \in Handles,
               ConsumeRefused(a, owner, draft, h)
        PROVE  AllLimitsNext
    BY <1>1, <1>2, PruneLimits DEF ConsumeRefused, AllLimitsNext
  <1>3. ASSUME NEW owner \in Owners, NEW draft \in Drafts, NEW h \in Handles,
               Consume(a, owner, draft, h)
        PROVE  AllLimitsNext
    <2>1. StoredNext
      BY <1>3, TakeStored DEF Consume, Matches, StoredNext, LimitsInv
    <2>2. GrantsFitNext
      BY <1>3, PrunedGrantsFit DEF Consume, GrantsFitNext, LimitsInv
    <2>3. QED BY <1>1, <2>1, <2>2 DEF AllLimitsNext
  <1>4. QED BY <1>2, <1>3 DEF AttachStep

\* a store, grants and slots of a new process
LEMMA EmptyLimits ==
    ASSUME NEW t, NEW g, NEW q, \A h \in Handles : t[h] = None,
           \A k \in Grants : g[k] = None, \A b \in Bodies : q[b].pc # "receiving"
    PROVE  Stored(t, 0) /\ GrantsFit(g) /\ SlotsHeld(UploadSlots, q)
  <1>1. Cardinality(BytesIn(t, Handles)) = 0
    BY BytesInNone
  <1>2. Staged(t) = {} /\ Granted(g) = {} /\ Receiving(q) = {}
    BY DEF Staged, Granted, Receiving
  <1>3. Cardinality({}) = 0
    BY FS_EmptySet
  <1>4. QED
    BY <1>1, <1>2, <1>3, UploadLimitsAssumption DEF Stored, GrantsFit, SlotsHeld

LEMMA RestartLimits ==
    ASSUME UploadsTypeOK, Restart
    PROVE  AllLimitsNext
  <1>1. /\ \A h \in Handles : entries'[h] = None
        /\ \A g \in Grants : grants'[g] = None
        /\ totalBytes' = 0 /\ slots' = UploadSlots
    BY DEF Restart
  <1>2. \A b \in Bodies : bodies'[b].pc # "receiving"
    <2> SUFFICES ASSUME NEW b \in Bodies PROVE bodies'[b].pc # "receiving"
      OBVIOUS
    <2>1. CASE bodies[b].pc \in {"waiting", "receiving"}
      <3>1. bodies'[b] = [bodies[b] EXCEPT !.pc = "done", !.answer = "lost"]
        BY <2>1 DEF Restart
      <3>2. bodies'[b].pc = "done"
        BY <3>1, LeavingBodies
      <3>3. QED BY <3>2
    <2>2. CASE bodies[b].pc \notin {"waiting", "receiving"}
      BY <2>2 DEF Restart
    <2>3. QED BY <2>1, <2>2
  <1>3. QED
    BY <1>1, <1>2, EmptyLimits DEF AllLimitsNext, StoredNext, GrantsFitNext, SlotsHeldNext

LEMMA LimitsInitially == Init => LimitsInv
  <1> SUFFICES ASSUME Init PROVE LimitsInv
    OBVIOUS
  <1>1. /\ \A h \in Handles : entries[h] = None
        /\ \A g \in Grants : grants[g] = None
        /\ totalBytes = 0 /\ slots = UploadSlots
        /\ \A b \in Bodies : bodies[b].pc # "receiving"
    BY DEF Init, NoBody
  <1>2. QED BY <1>1, EmptyLimits DEF LimitsInv

LEMMA LimitsPreserved == UploadsInv /\ LimitsInv /\ [Next]_vars => LimitsInv'
  <1> SUFFICES ASSUME UploadsInv, LimitsInv, [Next]_vars PROVE AllLimitsNext
    BY DEF AllLimitsNext, StoredNext, GrantsFitNext, SlotsHeldNext, LimitsInv
  <1>0. UploadsTypeOK
    BY DEF UploadsInv
  <1>1. CASE Tick \/ UNCHANGED vars
    BY <1>1, SameTables, SameSlots DEF Tick, vars, storeVars, AllLimitsNext
  <1>2. CASE Cleanup
    BY <1>0, <1>2, PruneLimits, SameSlots DEF Cleanup, AllLimitsNext
  <1>3. QED
    BY <1>0, <1>1, <1>2, RestartLimits, BodyLimits, StageLimits, PushLimits, PrepareLimits,
       AttachLimits DEF Next

(* After any sequence of uploads, pushes, consumptions, expiries and restarts *)
(* the byte counter is the number of stored bytes, files, bytes and grants    *)
(* are within their limits, and the slots in use are the bodies being received.*)
THEOREM LimitsAreKept == Spec => []WithinLimits
  <1>1. UploadsInv /\ LimitsInv => WithinLimits
    BY LimitsHold DEF UploadsInv
  <1>2. QED
    BY <1>1, LimitsInitially, LimitsPreserved, UploadsCorrect, PTL DEF Spec
-----------------------------------------------------------------------------
(* Refinement: the store implements SingleUseHandles *)

Held == GrantedHandles \cup StagedHandles

\* the handles that a step takes out of the store
Released == Held \ Held'

LEMMA HeldAreMinted ==
    ASSUME UploadsTypeOK, LifeInv
    PROVE  /\ GrantedHandles \cap StagedHandles = {}
           /\ GrantedHandles \subseteq Handles /\ StagedHandles \subseteq Handles
           /\ Held \subseteq MintedHandles
  <1>1. Grants \subseteq Handles
    BY DEF Handles
  <1>2. \A g \in GrantedHandles : g \in Handles /\ entries[g] = None /\ Minted(g)
    BY <1>1, UploadNamesAssumption DEF GrantedHandles, LifeInv, HandlesAge, Minted
  <1>3. \A h \in StagedHandles : h \in Handles /\ entries[h] # None /\ Minted(h)
    BY DEF StagedHandles, LifeInv, HandlesAge
  <1>4. QED BY <1>2, <1>3 DEF Held, MintedHandles

\* A step that mints the handles of N.
LEMMA GoneGrows ==
    ASSUME UploadsTypeOK, LifeInv, NEW N,
           MintedHandles' = MintedHandles \cup N, N \cap MintedHandles = {},
           Held' = (Held \ Released) \cup N
    PROVE  GoneHandles' = GoneHandles \cup (Released \cap Held)
  <1>1. Held \subseteq MintedHandles
    BY HeldAreMinted
  <1>2. GoneHandles = MintedHandles \ Held /\ GoneHandles' = MintedHandles' \ Held'
    BY DEF GoneHandles, Held
  <1>3. QED BY <1>1, <1>2 DEF Released

LEMMA SamePromises ==
    ASSUME MintedHandles' = MintedHandles,
           \A h \in Handles : Minted(h) => Promised(h)' = Promised(h)
    PROVE  Promises' = Promises
  <1>1. \A h \in Handles : Minted(h)' <=> Minted(h)
    BY DEF MintedHandles
  <1>2. QED BY <1>1 DEF Promises

LEMMA QuietMints ==
    ASSUME UploadsTypeOK, LifeInv, Quiet
    PROVE  MintedHandles' = MintedHandles /\ Promises' = Promises /\ Takers' = Takers
  <1>1. \A h \in Handles : Minted(h) => Minted(h)' /\ Promised(h)' = Promised(h)
    BY PromiseStays DEF LifeInv, Quiet
  <1>2. \A h \in Handles : Minted(h)' => Minted(h)
    BY DEF Minted, Quiet, Bodies
  <1>3. MintedHandles' = MintedHandles
    BY <1>1, <1>2 DEF MintedHandles
  <1>4. \A a \in Attaches, h \in Handles :
            attaches'[a].answer = "taken" /\ attaches'[a].handle = h
              <=> attaches[a].answer = "taken" /\ attaches[a].handle = h
    BY DEF Quiet
  <1>5. Takers' = Takers
    BY <1>4 DEF Takers
  <1>6. QED BY <1>1, <1>3, <1>5, SamePromises

LEMMA QuietDrops ==
    ASSUME UploadsTypeOK, LifeInv, Quiet
    PROVE  Abstract!Next
  <1>1. /\ StagedHandles' \subseteq StagedHandles
        /\ GrantedHandles' \subseteq GrantedHandles
    BY DEF Quiet, StagedHandles, GrantedHandles
  <1>2. /\ StagedHandles' = StagedHandles \ Released
        /\ GrantedHandles' = GrantedHandles \ Released
        /\ Released \in SUBSET Handles
        /\ Held' = (Held \ Released) \cup {}
    BY <1>1, HeldAreMinted DEF Held, Released
  <1>3. GoneHandles' = GoneHandles \cup (Released \cap Held)
    <2>1. MintedHandles' = MintedHandles \cup {} /\ {} \cap MintedHandles = {}
      BY QuietMints
    <2>2. QED BY <1>2, <2>1, GoneGrows
  <1>4. Abstract!Drop(Released)
    BY <1>2, <1>3, QuietMints DEF Abstract!Drop, Abstract!Dropped, Held
  <1>5. QED BY <1>2, <1>4 DEF Abstract!Next

\* the abstract module counts as this one does
LEMMA SameCardinality == \A S : Abstract!Cardinality(S) = Cardinality(S)
  BY DEF Abstract!Cardinality, Cardinality

\* A step that mints the handle m.
Minting(m) ==
    /\ m \in Handles /\ ~ Minted(m) /\ Minted(m)'
    /\ \A h \in Handles \ {m} : Minted(h)' <=> Minted(h)
    /\ \A h \in Handles : Minted(h) => Promised(h)' = Promised(h)

LEMMA MintingMaps ==
    ASSUME UploadsTypeOK, LifeInv, NEW m, Minting(m), Held' = (Held \ Released) \cup {m}
    PROVE  /\ Promises[m] = None
           /\ Promises' = [Promises EXCEPT ![m] = Promised(m)']
           /\ GoneHandles' = GoneHandles \cup (Released \cap Held)
           /\ m \notin Held
  <1>1. Promises[m] = None /\ Promises' = [Promises EXCEPT ![m] = Promised(m)']
    BY DEF Promises, Minting
  <1>2. MintedHandles' = MintedHandles \cup {m} /\ {m} \cap MintedHandles = {}
    BY DEF MintedHandles, Minting
  <1>3. QED BY <1>1, <1>2, GoneGrows, HeldAreMinted

\* What pruning keeps, as sets of handles.
LEMMA KeptAreHeld ==
    ASSUME UploadsTypeOK
    PROVE  /\ Kept \subseteq StagedHandles /\ KeptGrants \subseteq GrantedHandles
           /\ \A h \in Handles : PrunedEntries[h] # None <=> h \in Kept
           /\ \A g \in Grants : PrunedGrants[g] # None <=> g \in KeptGrants
  BY DEF Kept, KeptGrants, StagedHandles, GrantedHandles, PrunedEntries, PrunedGrants, Unexpired

\* a put adds its handle to what was kept
LEMMA PutHandles ==
    ASSUME UploadsTypeOK, NEW h \in Handles, NEW owner \in Owners,
           NEW content \in Content, NEW draft \in Drafts \cup {None},
           PutEntry(h, owner, content, draft)
    PROVE  StagedHandles' = Kept \cup {h}
  <1>1. entries'[h] # None
    BY PutEntryRows
  <1>2. \A x \in Handles \ {h} : entries'[x] = PrunedEntries[x]
    BY PrunedType DEF PutEntry
  <1>3. Kept \subseteq Handles
    BY DEF Kept
  <1>4. QED BY <1>1, <1>2, <1>3, KeptAreHeld DEF StagedHandles

LEMMA KeptNumber ==
    ASSUME UploadsTypeOK, NEW content, ~ Full(content)
    PROVE  Cardinality(Kept) < MaxItems
  <1>1. Kept \subseteq Handles
    BY DEF Kept
  <1>2. Cardinality(Kept) \in Nat
    BY <1>1, HandlesFinite, FS_Subset, FS_CardinalityType
  <1>3. QED BY <1>2, UploadLimitsAssumption DEF Full

LEMMA StagedStages ==
    ASSUME UploadsTypeOK, LifeInv, NEW b \in Stagings, NEW content \in Content,
           StageReceived(b, content), ~ Full(content)
    PROVE  Abstract!Next
  <1> DEFINE q == [bodies[b] EXCEPT !.pc = "done", !.content = content, !.answer = "created"]
  <1>1. /\ b \in Bodies /\ b \in Handles /\ b \notin Grants
        /\ bodies' = [bodies EXCEPT ![b] = q] /\ BodyAt(b, "receiving")
        /\ PutEntry(b, bodies[b].owner, content, None) /\ grants' = PrunedGrants
        /\ UNCHANGED <<prepared, attaches>>
    BY UploadNamesAssumption DEF StageReceived, Bodies, Handles
  <1>2. /\ q.content = content /\ q.answer = "created"
        /\ q.owner = bodies[b].owner /\ bodies[b].owner \in Owners
    BY <1>1 DEF UploadsTypeOK, Body, BodyAt
  <1> HIDE DEF q
  <1>3. bodies'[b] = q /\ \A x \in Bodies \ {b} : bodies'[x] = bodies[x]
    BY <1>1 DEF UploadsTypeOK
  <1>4. Minting(b)
    <2>1. ~ Minted(b) /\ Minted(b)'
      BY <1>1, <1>2, <1>3 DEF LifeInv, HandlesAge, BodyAt, Minted
    <2>2. \A h \in Handles \ {b} : Minted(h)' = Minted(h) /\ Promised(h)' = Promised(h)
      BY <1>1, <1>3 DEF Minted, Promised, Bodies
    <2>3. QED BY <1>1, <2>1, <2>2 DEF Minting
  <1>5. Promised(b)' \in Promise
    <2>1. Promised(b)' = [owner |-> q.owner, content |-> q.content, draft |-> None]
      BY <1>3 DEF Promised
    <2>2. QED BY <1>2, <2>1 DEF Promise
  <1>6. StagedHandles' = Kept \cup {b}
    BY <1>1, <1>2, PutHandles
  <1>7. GrantedHandles' = KeptGrants
    BY <1>1, KeptAreHeld DEF GrantedHandles, KeptGrants
  <1>8. b \notin Held
    BY <1>4, HeldAreMinted DEF Minting, MintedHandles
  <1>9. /\ StagedHandles \ Released = Kept /\ GrantedHandles \ Released = KeptGrants
        /\ Held' = (Held \ Released) \cup {b} /\ Released \in SUBSET Handles
    BY <1>6, <1>7, <1>8, KeptAreHeld, HeldAreMinted DEF Held, Released
  <1>10. Takers' = Takers
    BY <1>1 DEF Takers
  <1>11. Abstract!Stage(b, Promised(b)', Released)
    BY <1>4, <1>6, <1>7, <1>9, <1>10, MintingMaps, KeptNumber, SameCardinality
       DEF Abstract!Stage, Abstract!Fresh, Held
  <1>12. QED BY <1>1, <1>5, <1>9, <1>11 DEF Abstract!Next

LEMMA PreparedGrants ==
    ASSUME UploadsTypeOK, LifeInv, NEW g \in Grants, NEW owner \in Owners,
           NEW draft \in Drafts, NEW content \in Content, Prepare(g, owner, draft, content)
    PROVE  Abstract!Next
  <1> DEFINE grant == [owner |-> owner, content |-> content, draft |-> draft,
                       expiresAt |-> clock + Ttl]
  <1>1. /\ grants' = [PrunedGrants EXCEPT ![g] = grant]
        /\ prepared' = [prepared EXCEPT ![g] = grant] /\ prepared[g] = None
        /\ entries' = PrunedEntries /\ UNCHANGED <<bodies, attaches>>
        /\ Cardinality(KeptGrants) < MaxPushGrants
    BY DEF Prepare
  <1>2. grant \in PushGrant /\ PromiseOf(grant) \in Promise
    BY UploadLimitsAssumption DEF PushGrant, Promise, PromiseOf, UploadsTypeOK
  <1> HIDE DEF grant
  <1>3. /\ grant # None /\ prepared'[g] = grant /\ grants'[g] = grant
        /\ \A x \in Grants \ {g} : prepared'[x] = prepared[x] /\ grants'[x] = PrunedGrants[x]
    BY <1>1, <1>2, RowFacts, PrunedType DEF UploadsTypeOK
  <1>4. g \in Handles /\ g \notin Stagings
    BY UploadNamesAssumption DEF Handles
  <1>5. Minting(g)
    <2>1. ~ Minted(g) /\ Minted(g)'
      BY <1>1, <1>3, <1>4 DEF Minted
    <2>2. \A h \in Handles \ {g} : Minted(h)' = Minted(h) /\ Promised(h)' = Promised(h)
      BY <1>1, <1>3 DEF Minted, Promised, PromiseOf, Handles
    <2>3. QED BY <1>4, <2>1, <2>2 DEF Minting
  <1>6. Promised(g)' = PromiseOf(grant)
    BY <1>3, <1>4 DEF Promised, PromiseOf
  <1>7. StagedHandles' = Kept
    BY <1>1, KeptAreHeld DEF StagedHandles, Kept
  <1>8. GrantedHandles' = KeptGrants \cup {g}
    <2>1. KeptGrants \subseteq Grants
      BY DEF KeptGrants
    <2>2. QED BY <1>3, <2>1, KeptAreHeld DEF GrantedHandles
  <1>9. g \notin Held
    BY <1>5, HeldAreMinted DEF Minting, MintedHandles
  <1>10. /\ StagedHandles \ Released = Kept /\ GrantedHandles \ Released = KeptGrants
         /\ Held' = (Held \ Released) \cup {g} /\ Released \in SUBSET Handles
    BY <1>7, <1>8, <1>9, KeptAreHeld, HeldAreMinted DEF Held, Released
  <1>11. Takers' = Takers
    BY <1>1 DEF Takers
  <1>12. Abstract!Grant(g, Promised(g)', Released)
    BY <1>1, <1>5, <1>7, <1>8, <1>10, <1>11, MintingMaps, SameCardinality
       DEF Abstract!Grant, Abstract!Fresh, Held
  <1>13. QED BY <1>2, <1>4, <1>6, <1>10, <1>12 DEF Abstract!Next

LEMMA FilledFills ==
    ASSUME UploadsTypeOK, LifeInv, NEW b \in Pushes, NEW content \in Content,
           PushCompletes(b, content)
    PROVE  Abstract!Next
  <1> PICK g \in Grants : g = bodies[b].handle
    BY DEF PushCompletes, KeptGrants
  <1>1. /\ PutEntry(g, grants[g].owner, content, grants[g].draft) /\ ~ Full(content)
        /\ grants' = [PrunedGrants EXCEPT ![g] = None]
        /\ g \in KeptGrants /\ UNCHANGED <<prepared, attaches>>
        /\ \A x \in Bodies \ {b} : bodies'[x] = bodies[x]
    BY DEF PushCompletes, UploadsTypeOK
  <1>2. grants[g] \in PushGrant /\ g \in Handles
    BY <1>1 DEF UploadsTypeOK, KeptGrants, Unexpired, Handles
  <1>3. StagedHandles' = Kept \cup {g}
    BY <1>1, <1>2, RowFacts, PutHandles
  <1>4. GrantedHandles' = KeptGrants \ {g}
    <2>1. grants'[g] = None /\ \A x \in Grants \ {g} : grants'[x] = PrunedGrants[x]
      BY <1>1, PrunedType
    <2>2. KeptGrants \subseteq Grants
      BY DEF KeptGrants
    <2>3. QED BY <2>1, <2>2, KeptAreHeld DEF GrantedHandles
  <1>5. \A h \in Handles : Minted(h)' = Minted(h) /\ Promised(h)' = Promised(h)
    <2>1. b \notin Stagings
      BY UploadNamesAssumption
    <2>2. \A h \in Stagings : bodies'[h] = bodies[h]
      BY <1>1, <2>1 DEF Bodies
    <2>3. QED BY <1>1, <2>2 DEF Minted, Promised
  <1>6. MintedHandles' = MintedHandles \cup {} /\ {} \cap MintedHandles = {}
    BY <1>5 DEF MintedHandles
  <1>7. Promises' = Promises /\ Takers' = Takers
    BY <1>1, <1>5 DEF Promises, Takers
  <1>8. g \in GrantedHandles \ Released
    BY <1>1, <1>3, KeptAreHeld DEF Held, Released
  <1>9. /\ StagedHandles \ Released = Kept /\ GrantedHandles \ Released = KeptGrants
        /\ Held' = (Held \ Released) \cup {} /\ Released \in SUBSET Handles
    BY <1>1, <1>3, <1>4, KeptAreHeld, HeldAreMinted DEF Held, Released
  <1>10. GoneHandles' = GoneHandles \cup (Released \cap Held)
    BY <1>6, <1>9, GoneGrows
  <1>11. GrantedHandles' = GrantedHandles \ (Released \cup {g})
    BY <1>4, <1>9
  <1>12. Abstract!Fill(g, Released)
    BY <1>1, <1>3, <1>7, <1>8, <1>9, <1>10, <1>11, KeptNumber, SameCardinality
       DEF Abstract!Fill, Held
  <1>13. QED BY <1>2, <1>9, <1>12 DEF Abstract!Next

LEMMA TakenTakes ==
    ASSUME UploadsTypeOK, LifeInv, NEW a \in Attaches, NEW owner \in Owners,
           NEW draft \in Drafts, NEW h \in Handles, Consume(a, owner, draft, h)
    PROVE  Abstract!Next
  <1> DEFINE q == AttachOf(owner, draft, h, entries[h].content, "taken")
             D == Released \ {h}
  <1>1. /\ entries' = [PrunedEntries EXCEPT ![h] = None] /\ grants' = PrunedGrants
        /\ attaches' = [attaches EXCEPT ![a] = q] /\ attaches[a] = NoAttach
        /\ h \in Kept /\ UNCHANGED <<bodies, prepared>>
    BY DEF Consume, Matches
  <1>2. q.answer = "taken" /\ q.handle = h
    BY DEF AttachOf
  <1> HIDE DEF q
  <1>3. /\ attaches'[a] = q /\ attaches[a].answer = "none"
        /\ \A x \in Attaches \ {a} : attaches'[x] = attaches[x]
    BY <1>1 DEF UploadsTypeOK, NoAttach
  <1>4. StagedHandles' = Kept \ {h}
    <2>1. entries'[h] = None /\ \A x \in Handles \ {h} : entries'[x] = PrunedEntries[x]
      BY <1>1, PrunedType
    <2>2. Kept \subseteq Handles
      BY DEF Kept
    <2>3. QED BY <2>1, <2>2, KeptAreHeld DEF StagedHandles
  <1>5. GrantedHandles' = KeptGrants
    BY <1>1, KeptAreHeld DEF GrantedHandles, KeptGrants
  <1>6. \A x \in Handles : Minted(x)' = Minted(x) /\ Promised(x)' = Promised(x)
    BY <1>1 DEF Minted, Promised
  <1>7. /\ MintedHandles' = MintedHandles \cup {} /\ {} \cap MintedHandles = {}
        /\ Promises' = Promises
    BY <1>6 DEF MintedHandles, Promises
  <1>8. Takers' = [Takers EXCEPT ![h] = @ \cup {a}]
    <2>1. \A x \in Handles :
              {b \in Attaches : attaches'[b].answer = "taken" /\ attaches'[b].handle = x}
                = {b \in Attaches : attaches[b].answer = "taken" /\ attaches[b].handle = x}
                    \cup (IF x = h THEN {a} ELSE {})
      BY <1>2, <1>3
    <2>2. /\ Takers \in [Handles -> SUBSET Attaches]
          /\ Takers' \in [Handles -> SUBSET Attaches]
      BY DEF Takers
    <2>3. \A x \in Handles : Takers'[x] = Takers[x] \cup (IF x = h THEN {a} ELSE {})
      BY <2>1 DEF Takers
    <2>4. QED BY <2>2, <2>3
  <1>9. /\ StagedHandles' = StagedHandles \ Released
        /\ GrantedHandles' = GrantedHandles \ Released
        /\ Held' = (Held \ Released) \cup {} /\ Released \in SUBSET Handles
        /\ h \in StagedHandles /\ h \in Released
    BY <1>1, <1>4, <1>5, KeptAreHeld, HeldAreMinted DEF Held, Released
  <1>10. GoneHandles' = GoneHandles \cup (Released \cap Held)
    BY <1>7, <1>9, GoneGrows
  <1>11. D \cup {h} = Released /\ h \in StagedHandles \ D /\ D \in SUBSET Handles
    BY <1>9
  <1> HIDE DEF D
  <1>12. Abstract!Take(h, a, D)
    BY <1>7, <1>8, <1>9, <1>10, <1>11 DEF Abstract!Take, Abstract!Dropped, Held
  <1>13. QED BY <1>11, <1>12 DEF Abstract!Next

(* What the outside sees of the tables, the pruning, the routes and the calls *)
(* is a store of single-use handles: each is minted once, stands for one      *)
(* promise, holds its file within the limits, is taken once, and is then gone *)
(* for good.                                                                  *)
THEOREM UploadsImplementSingleUse == Spec => ImplementsSingleUse
  <1>1. Init => Abstract!Init
    <2> SUFFICES ASSUME Init PROVE Abstract!Init
      OBVIOUS
    <2>1. \A h \in Handles : ~ Minted(h)
      BY DEF Init, Minted, NoBody, Handles, Bodies
    <2>2. GrantedHandles = {} /\ StagedHandles = {} /\ MintedHandles = {}
      BY <2>1 DEF Init, GrantedHandles, StagedHandles, MintedHandles
    <2>3. Promises = [h \in Handles |-> None]
      BY <2>1 DEF Promises
    <2>4. Takers = [h \in Handles |-> {}]
      BY DEF Init, Takers, NoAttach
    <2>5. QED BY <2>2, <2>3, <2>4 DEF Abstract!Init, GoneHandles
  <1>2. UploadsInv /\ [Next]_vars => [Abstract!Next]_(Abstract!vars)
    <2> SUFFICES ASSUME UploadsInv, [Next]_vars PROVE Abstract!Next
      OBVIOUS
    <2>1. UploadsTypeOK /\ LifeInv
      BY DEF UploadsInv, LifeInv
    <2>2. QED
      BY <2>1, StoreSteps, QuietDrops, StagedStages, PreparedGrants, FilledFills, TakenTakes
  <1>3. QED BY <1>1, <1>2, UploadsCorrect, PTL DEF Spec, ImplementsSingleUse, Abstract!Spec
-----------------------------------------------------------------------------
(* What a step may take from the store *)

\* the files that have not expired stay, and the grants
FilesStay == \A h \in Kept : entries'[h] # None
GrantsStay == \A g \in KeptGrants : grants'[g] # None

LEMMA PrunedTablesStay ==
    ASSUME UploadsTypeOK
    PROVE  /\ entries' = PrunedEntries => FilesStay
           /\ grants' = PrunedGrants => GrantsStay
           /\ UNCHANGED storeVars => FilesStay /\ GrantsStay
           /\ Prune => FilesStay /\ GrantsStay
  <1>1. Kept \subseteq Handles /\ KeptGrants \subseteq Grants
    BY DEF Kept, KeptGrants
  <1>2. QED
    BY <1>1, KeptAreHeld DEF FilesStay, GrantsStay, Prune, storeVars, Kept, KeptGrants, Unexpired

LEMMA PutStays ==
    ASSUME UploadsTypeOK, NEW h \in Handles, NEW owner \in Owners,
           NEW content \in Content, NEW draft \in Drafts \cup {None},
           PutEntry(h, owner, content, draft)
    PROVE  FilesStay
  BY PutHandles DEF FilesStay, StagedHandles

LEMMA StagedStays ==
    ASSUME UploadsTypeOK, BodiesOK, NEW b \in Stagings, StageStep(b)
    PROVE  FilesStay /\ GrantsStay
  <1>1. CASE \E owner \in Owners : StageArrives(b, owner)
    BY <1>1, PrunedTablesStay DEF StageArrives
  <1>2. ASSUME NEW content \in Content, StageReceived(b, content)
        PROVE  FilesStay /\ GrantsStay
    <2>1. GrantsStay
      BY <1>2, PrunedTablesStay DEF StageReceived
    <2>2. CASE Full(content)
      BY <1>2, <2>1, <2>2, PrunedTablesStay DEF StageReceived
    <2>3. CASE ~ Full(content)
      <3>1. b \in Bodies /\ b \in Handles /\ bodies[b].pc = "receiving"
        BY <1>2 DEF StageReceived, BodyAt, Bodies, Handles
      <3>2. bodies[b].owner \in Owners
        BY <3>1 DEF BodiesOK, Body
      <3>3. PutEntry(b, bodies[b].owner, content, None)
        BY <1>2, <2>3 DEF StageReceived
      <3>4. QED
        BY <2>1, <3>1, <3>2, <3>3, PutStays
    <2>4. QED
      BY <2>2, <2>3
  <1>3. QED
    BY <1>1, <1>2 DEF StageStep

\* a complete push turns its grant into the file it announced
LEMMA PushedStays ==
    ASSUME UploadsTypeOK, NEW b \in Pushes, PushStep(b)
    PROVE  /\ FilesStay
           /\ \A g \in KeptGrants : grants'[g] = None =>
                 /\ entries'[g] # None
                 /\ PromiseOf(entries'[g]) = PromiseOf(grants[g])
  <1>1. CASE Prune
    BY <1>1, PrunedTablesStay DEF GrantsStay
  <1>2. ASSUME NEW content \in Content, PushCompletes(b, content)
        PROVE  /\ FilesStay
               /\ \A g \in KeptGrants : grants'[g] = None =>
                     /\ entries'[g] # None
                     /\ PromiseOf(entries'[g]) = PromiseOf(grants[g])
    <2>1. PICK h \in KeptGrants :
             /\ grants[h].content = content
             /\ grants' = [PrunedGrants EXCEPT ![h] = None]
             /\ PutEntry(h, grants[h].owner, content, grants[h].draft)
      BY <1>2 DEF PushCompletes
    <2>2. h \in Grants /\ h \in Handles /\ grants[h] # None /\ KeptGrants \subseteq Grants
      BY <2>1 DEF KeptGrants, Unexpired, Handles
    <2>3. grants[h] \in PushGrant
      BY <2>2 DEF UploadsTypeOK
    <2>4. grants[h].owner \in Owners /\ grants[h].draft \in Drafts \cup {None}
      BY <2>3, RowFacts
    <2>5. FilesStay
      BY <2>1, <2>2, <2>4, PutStays
    <2>6. entries'[h] # None /\ PromiseOf(entries[h])' = PromiseOf(grants[h])
      BY <2>1, <2>2, <2>4, PutEntryRows DEF PromiseOf
    <2>7. \A g \in KeptGrants \ {h} : grants'[g] # None
      BY <2>1, <2>2, KeptAreHeld, PrunedType
    <2>8. PromiseOf(entries'[h]) = PromiseOf(grants[h])
      BY <2>6 DEF PromiseOf
    <2>9. QED
      BY <2>5, <2>6, <2>7, <2>8
  <1>3. QED
    BY <1>1, <1>2 DEF PushStep, PushArrives, PushRefused, PushFull

LEMMA PreparedStays ==
    ASSUME UploadsTypeOK, NEW g \in Grants, PrepareStep(g)
    PROVE  FilesStay /\ GrantsStay
  <1>1. CASE PrepareRefused(g)
    BY <1>1, PrunedTablesStay DEF PrepareRefused
  <1>2. ASSUME NEW owner \in Owners, NEW draft \in Drafts, NEW content \in Content,
               Prepare(g, owner, draft, content)
        PROVE  FilesStay /\ GrantsStay
    <2> DEFINE grant == [owner |-> owner, content |-> content, draft |-> draft,
                         expiresAt |-> clock + Ttl]
    <2>1. entries' = PrunedEntries /\ grants' = [PrunedGrants EXCEPT ![g] = grant]
      BY <1>2 DEF Prepare
    <2>2. grant \in PushGrant
      BY UploadLimitsAssumption DEF PushGrant, UploadsTypeOK
    <2> HIDE DEF grant
    <2>3. grant # None
      BY <2>2, RowFacts
    <2>4. \A x \in KeptGrants : grants'[x] # None
      BY <2>1, <2>3, KeptAreHeld, PrunedType DEF KeptGrants
    <2>5. QED
      BY <2>1, <2>4, PrunedTablesStay DEF GrantsStay
  <1>3. QED
    BY <1>1, <1>2 DEF PrepareStep

\* a call takes the file it was given and no other
LEMMA AttachedStays ==
    ASSUME UploadsTypeOK, NEW a \in Attaches, AttachStep(a)
    PROVE  /\ GrantsStay
           /\ \A h \in Kept : entries'[h] = None =>
                 /\ attaches[a].answer = "none"
                 /\ attaches'[a].answer = "taken"
                 /\ attaches'[a].handle = h
  <1>1. CASE Prune
    BY <1>1, PrunedTablesStay DEF FilesStay
  <1>2. ASSUME NEW owner \in Owners, NEW draft \in Drafts, NEW h \in Handles,
               Consume(a, owner, draft, h)
        PROVE  /\ GrantsStay
               /\ \A x \in Kept : entries'[x] = None =>
                     /\ attaches[a].answer = "none"
                     /\ attaches'[a].answer = "taken"
                     /\ attaches'[a].handle = x
    <2> DEFINE call == AttachOf(owner, draft, h, entries[h].content, "taken")
    <2>1. /\ entries' = [PrunedEntries EXCEPT ![h] = None]
          /\ grants' = PrunedGrants
          /\ attaches[a] = NoAttach
          /\ attaches' = [attaches EXCEPT ![a] = call]
      BY <1>2 DEF Consume
    <2>2. call.answer = "taken" /\ call.handle = h /\ NoAttach.answer = "none"
      BY DEF AttachOf, NoAttach
    <2> HIDE DEF call
    <2>3. \A x \in Kept \ {h} : entries'[x] # None
      BY <2>1, KeptAreHeld, PrunedType DEF Kept
    <2>4. attaches'[a] = call
      BY <2>1 DEF UploadsTypeOK
    <2>5. QED
      BY <2>1, <2>2, <2>3, <2>4, PrunedTablesStay
  <1>3. QED
    BY <1>1, <1>2 DEF AttachStep, ConsumeRefused

(* Short of a restart no unexpired file or grant is lost: whatever is sent   *)
(* or refused, a file leaves with the call that takes it and a grant with    *)
(* the push that fills it.                                                   *)
THEOREM HandlesLostForCause == Spec => LostForCause
  <1> DEFINE Lost ==
        \/ Restart
        \/ /\ \A h \in Handles : h \in Kept /\ entries'[h] = None =>
                 \E a \in Attaches : /\ attaches[a].answer = "none"
                                     /\ attaches'[a].answer = "taken"
                                     /\ attaches'[a].handle = h
           /\ \A g \in Grants : g \in KeptGrants /\ grants'[g] = None =>
                 /\ entries'[g] # None
                 /\ PromiseOf(entries'[g]) = PromiseOf(grants[g])
  <1>1. UploadsTypeOK /\ [Next]_vars => [Lost]_vars
    <2> SUFFICES ASSUME UploadsTypeOK, Next PROVE Lost
      OBVIOUS
    <2>1. ASSUME FilesStay, GrantsStay PROVE Lost
      BY <2>1 DEF FilesStay, GrantsStay
    <2> HIDE DEF Lost
    <2>2. CASE Tick \/ Cleanup
      BY <2>1, <2>2, PrunedTablesStay DEF Tick, Cleanup
    <2>3. CASE Restart
      BY <2>3 DEF Lost
    <2>4. CASE \E b \in Bodies : BodyStep(b)
      BY <2>1, <2>4, PrunedTablesStay DEF BodyStep, AcquireSlot, BodyFails
    <2>5. CASE \E b \in Stagings : StageStep(b)
      <3>1. BodiesOK
        BY TypeParts
      <3>2. QED
        BY <2>1, <2>5, <3>1, StagedStays
    <2>6. CASE \E b \in Pushes : PushStep(b)
      BY <2>6, PushedStays DEF Lost, FilesStay
    <2>7. CASE \E g \in Grants : PrepareStep(g)
      BY <2>1, <2>7, PreparedStays
    <2>8. CASE \E a \in Attaches : AttachStep(a)
      <3>1. PICK a \in Attaches : AttachStep(a)
        BY <2>8
      <3>2. QED
        BY <3>1, AttachedStays DEF Lost, GrantsStay
    <2>9. QED
      BY <2>2, <2>3, <2>4, <2>5, <2>6, <2>7, <2>8 DEF Next
  <1>2. QED
    BY <1>1, UploadsTypeCorrect, PTL DEF Spec, LostForCause
=============================================================================
