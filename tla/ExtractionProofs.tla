-------------------------- MODULE ExtractionProofs --------------------------
(***************************************************************************)
(* Proofs about Extraction: slots are counted on every path, so there are    *)
(* never more parsers at work than slots, and the limits agree, for any       *)
(* number of calls and for all documents and limits.                         *)
(***************************************************************************)
EXTENDS Extraction, FiniteSetTheorems, TLAPS

USE ExtractionAssumption

(* What holds of the record r of a call and the record k of its child.       *)
Holding(r) == r.pc \in {"spawn", "communicate", "reap"}

Checked(document) ==
    /\ document # None
    /\ Rejection(document) = None

Right(document, answer) ==
    /\ answer.kind = "too_large" =>
           \/ document.size > MaxBytes
           \/ document.reading = "too_many_members"
    /\ answer.kind = "unsupported" =>
           \/ document.delivery = "item"
           \/ document.reading = "unknown_format"
    /\ answer.kind = "text" =>
           /\ document.delivery = "file" /\ document.reading = "text"
           /\ document.size <= MaxBytes /\ ~document.long
           /\ answer.chars <= MaxChars
           /\ answer.truncated <=> document.chars > MaxChars

Good(r, k) ==
    /\ r \in Call /\ k \in Child
    /\ r.pc \in {"idle", "graph", "slot", "spawn"} => k.state = "none"
    /\ r.pc \in {"communicate", "reap"} => k.state # "none"
    /\ k.state = "running" /\ ~k.killed => r.pc = "communicate"
    /\ k.state = "none" => ~k.killed
    /\ k.killed \/ k.state \in {"none", "running"} => k.output = None
    /\ r.pc \in {"slot", "spawn", "communicate", "reap"} => Checked(r.document)
    /\ Holding(r) => Unstartable(r.document) = None
    /\ k.output # None => /\ Checked(r.document)
                          /\ Unstartable(r.document) = None
                          /\ k.output = WorkerOutput(r.document)
    /\ r.pc = "reap" => r.answer \in {Raise("invalid"), Raise("cancelled")}
    /\ r.pc = "done" => Right(r.document, r.answer)

Holders == {c \in Calls : HoldsSlot(c)}

Parts ==
    /\ calls \in [Calls -> Call] /\ children \in [Calls -> Child]
    /\ \A c \in Calls : Good(calls[c], children[c])
    /\ slots \in 0 .. Slots
    /\ slots + Cardinality(Holders) = Slots

LEMMA PartsAreTheInvariant ==
    /\ Parts => ExtractionInv /\ ExtractionAnswers
    /\ ExtractionInv /\ ExtractionAnswers => Parts
<1>1. ASSUME Parts PROVE ExtractionInv /\ ExtractionAnswers
    BY <1>1 DEF Parts, Good, Holding, HoldsSlot, Holders, Checked, Right, At, Working,
       ExtractionInv, TypeOK, SlotsAreCounted, Supervised, FilesAreChecked,
       ExtractionAnswers
<1>2. ASSUME ExtractionInv, ExtractionAnswers PROVE Parts
  <2>1. /\ calls \in [Calls -> Call] /\ children \in [Calls -> Child]
        /\ slots \in 0 .. Slots
        /\ slots + Cardinality(Holders) = Slots
      BY <1>2 DEF ExtractionInv, TypeOK, SlotsAreCounted, Holders
  <2>2. ASSUME NEW c \in Calls
        PROVE  Good(calls[c], children[c])
    <3>1. calls[c] \in Call /\ children[c] \in Child
        BY <2>1
    <3> QED  BY <1>2, <3>1 DEF ExtractionInv, Supervised, FilesAreChecked, Good,
             Holding, HoldsSlot, Checked, Right, At, Working, ExtractionAnswers
  <2> QED  BY <2>1, <2>2 DEF Parts
<1> QED  BY <1>1, <1>2

(* Every step is a step of one call and its child.                           *)
StepOf(c, r, k) ==
    /\ calls' = [calls EXCEPT ![c] = r]
    /\ children' = [children EXCEPT ![c] = k]

LEMMA StepKeeps ==
    ASSUME Parts, NEW c \in Calls, NEW r, NEW k, StepOf(c, r, k), Good(r, k),
           /\ Holding(r) /\ HoldsSlot(c) => slots' = slots
           /\ ~Holding(r) /\ ~HoldsSlot(c) => slots' = slots
           /\ Holding(r) /\ ~HoldsSlot(c) => slots > 0 /\ slots' = slots - 1
           /\ ~Holding(r) /\ HoldsSlot(c) => slots' = slots + 1
    PROVE  Parts'
<1>1. r \in Call /\ k \in Child
    BY DEF Good
<1>2. /\ calls' \in [Calls -> Call] /\ children' \in [Calls -> Child]
      /\ calls'[c] = r /\ children'[c] = k
      /\ \A q \in Calls \ {c} : calls'[q] = calls[q] /\ children'[q] = children[q]
    BY <1>1 DEF Parts, StepOf
<1>3. \A q \in Calls : Good(calls'[q], children'[q])
    BY <1>2 DEF Parts
<1>4. IsFiniteSet(Holders) /\ Cardinality(Holders) \in Nat /\ slots \in Nat
      /\ slots + Cardinality(Holders) = Slots
    BY FS_Subset, FS_CardinalityType DEF Holders, Parts
<1>5. slots' \in 0 .. Slots /\ slots' + Cardinality(Holders') = Slots
  <2>1. CASE Holding(r) <=> HoldsSlot(c)
    <3>1. Holders' = Holders
        BY <1>2, <2>1 DEF Holders, HoldsSlot, Holding
    <3>2. slots' = slots
        BY <2>1
    <3> QED  BY <1>4, <3>1, <3>2
  <2>2. CASE Holding(r) /\ ~HoldsSlot(c)
    <3>1. Holders' = Holders \cup {c} /\ c \notin Holders
        BY <1>2, <2>2 DEF Holders, HoldsSlot, Holding
    <3>2. Cardinality(Holders') = Cardinality(Holders) + 1
        BY <1>4, <3>1, FS_AddElement
    <3> QED  BY <1>4, <2>2, <3>2
  <2>3. CASE ~Holding(r) /\ HoldsSlot(c)
    <3>1. Holders' = Holders \ {c} /\ c \in Holders
        BY <1>2, <2>3 DEF Holders, HoldsSlot, Holding
    <3>2. Cardinality(Holders') = Cardinality(Holders) - 1
        BY <1>4, <3>1, FS_RemoveElement
    <3>3. Cardinality(Holders) > 0
        BY <1>4, <3>1, FS_EmptySet
    <3> QED  BY <1>4, <2>3, <3>2, <3>3
  <2> QED  BY <2>1, <2>2, <2>3
<1> QED  BY <1>2, <1>3, <1>5 DEF Parts

-----------------------------------------------------------------------------
(* What the registry and the worker answer.                                  *)
LEMMA RaiseFacts ==
    ASSUME NEW kind \in Kinds
    PROVE  /\ Raise(kind) \in Answer /\ Raise(kind).kind = kind
BY DEF Raise, Answer

LEMMA KindsInUse ==
    {"too_large", "unsupported", "invalid", "graph_error", "os_error",
     "cancelled", "text"} \subseteq Kinds
BY DEF Kinds

LEMMA TruncateFacts ==
    ASSUME NEW chars \in Nat
    PROVE  /\ Truncate(chars) \in Answer /\ Truncate(chars).kind = "text"
           /\ Truncate(chars).chars <= MaxChars
           /\ Truncate(chars).truncated <=> chars > MaxChars
<1> DEFINE n == IF chars <= MaxChars THEN chars
                ELSE IF MaxChars <= MarkerChars THEN MaxChars
                ELSE (MaxChars - MarkerChars) + MarkerChars
<1>1. n \in Nat /\ n <= MaxChars
    OBVIOUS
<1> DEFINE b == chars > MaxChars
           t == [kind |-> "text", chars |-> n, truncated |-> b]
<1>2. Truncate(chars) = t
    BY DEF Truncate
<1>3. b \in BOOLEAN
    OBVIOUS
<1> HIDE DEF n, b
<1>4. t \in Answer
    BY <1>1, <1>3 DEF Answer, Kinds
<1>5. t.kind = "text" /\ t.chars = n
    OBVIOUS
<1>6. t.truncated = b
    OBVIOUS
<1> HIDE DEF t
<1> QED  BY <1>1, <1>2, <1>4, <1>5, <1>6 DEF b

LEMMA EncodedLimits ==
    ASSUME NEW size \in Nat, EncodedLength(size) > EncodedLimit
    PROVE  size > MaxBytes
<1> SUFFICES ASSUME size <= MaxBytes PROVE FALSE
    OBVIOUS
<1>1. (size + 2) \div 3 <= (MaxBytes + 2) \div 3
    OBVIOUS
<1>2. (size + 2) \div 3 \in Int /\ (MaxBytes + 2) \div 3 \in Int
    OBVIOUS
<1> QED  BY <1>1, <1>2 DEF EncodedLength, EncodedLimit

LEMMA DocumentFacts ==
    ASSUME NEW document \in Documents
    PROVE  /\ document # None /\ document \in Document
           /\ document.size \in Nat /\ document.chars \in Nat
           /\ document.delivery \in Deliveries /\ document.reading \in Readings
BY DEF Document

LEMMA RejectionFacts ==
    ASSUME NEW document \in Documents
    PROVE  /\ Rejection(document) \in {None, "invalid", "unsupported", "too_large"}
           /\ Rejection(document) = None => document.delivery = "file"
           /\ Rejection(document) = "unsupported" => document.delivery = "item"
           /\ Rejection(document) = "too_large" => document.size > MaxBytes
<1>1. None \notin {"invalid", "unsupported", "too_large"}
    BY DEF Kinds
<1>2. CASE document.delivery \in {"nothing", "no_content"}
    BY <1>1, <1>2 DEF Rejection
<1>3. CASE document.delivery = "item"
    BY <1>1, <1>3 DEF Rejection
<1>4. CASE document.delivery \in {"file", "bad_encoding", "no_name"}
  <2>1. Rejection(document) =
          IF EncodedLength(document.size) > EncodedLimit THEN "too_large"
          ELSE IF document.delivery = "file" THEN None ELSE "invalid"
      BY <1>4 DEF Rejection
  <2> QED  BY <1>1, <2>1, DocumentFacts, EncodedLimits
<1> QED  BY <1>2, <1>3, <1>4, DocumentFacts DEF Deliveries

LEMMA UnstartableFacts ==
    ASSUME NEW document \in Documents
    PROVE  /\ Unstartable(document) \in {None, "invalid", "too_large"}
           /\ Unstartable(document) = None =>
                  document.size <= MaxBytes /\ ~document.long
           /\ Unstartable(document) = "too_large" => document.size > MaxBytes
<1>1. None \notin {"invalid", "too_large"}
    BY DEF Kinds
<1> QED  BY <1>1, DocumentFacts DEF Unstartable

LEMMA WorkerFacts ==
    ASSUME NEW document \in Documents, Checked(document), Unstartable(document) = None
    PROVE  /\ WorkerOutput(document) \in Answer
           /\ Right(document, WorkerOutput(document))
<1>1. document.size <= MaxBytes /\ ~document.long /\ document.delivery = "file"
    BY RejectionFacts, UnstartableFacts DEF Checked
<1>2. CASE document.reading = "text"
  <2>1. WorkerOutput(document) = Truncate(document.chars)
      BY <1>1, <1>2, DocumentFacts DEF WorkerOutput
  <2>2. document.chars \in Nat
      BY DocumentFacts
  <2>3. /\ Truncate(document.chars) \in Answer /\ Truncate(document.chars).kind = "text"
        /\ Truncate(document.chars).chars <= MaxChars
        /\ Truncate(document.chars).truncated <=> document.chars > MaxChars
      BY <2>2, TruncateFacts
  <2> HIDE DEF Truncate
  <2> QED  BY <1>1, <1>2, <2>1, <2>3 DEF Right
<1>3. CASE document.reading # "text"
  <2>1. ~(document.size > MaxBytes)
      BY <1>1, DocumentFacts
  <2>2. \/ document.reading = "unknown_format" /\ WorkerOutput(document) = Raise("unsupported")
        \/ document.reading = "too_many_members" /\ WorkerOutput(document) = Raise("too_large")
        \/ WorkerOutput(document) = Raise("invalid")
    <3>1. CASE document.reading = "unknown_format"
        BY <2>1, <3>1 DEF WorkerOutput
    <3>2. CASE document.reading = "too_many_members"
        BY <2>1, <3>2 DEF WorkerOutput
    <3>3. CASE document.reading \notin {"unknown_format", "too_many_members"}
        BY <1>3, <2>1, <3>3 DEF WorkerOutput
    <3> QED  BY <3>1, <3>2, <3>3
  <2>3. /\ Raise("unsupported") \in Answer /\ Raise("unsupported").kind = "unsupported"
        /\ Raise("too_large") \in Answer /\ Raise("too_large").kind = "too_large"
        /\ Raise("invalid") \in Answer /\ Raise("invalid").kind = "invalid"
      BY KindsInUse, RaiseFacts
  <2> QED  BY <2>2, <2>3 DEF Right
<1> QED  BY <1>2, <1>3

-----------------------------------------------------------------------------
(* The ways a call goes on, and the ways it ends.                            *)
LEMMA Here ==
    ASSUME Parts, NEW c \in Calls
    PROVE  /\ calls[c] \in Call /\ children[c] \in Child
           /\ Good(calls[c], children[c])
           /\ calls[c].document \in Documents \cup {None}
           /\ children = [children EXCEPT ![c] = children[c]]
           /\ HoldsSlot(c) <=> Holding(calls[c])
BY DEF Parts, Call, HoldsSlot, Holding

LEMMA GotoFacts ==
    ASSUME Parts, NEW c \in Calls,
           NEW pc \in {"graph", "slot", "spawn", "communicate", "done"}, Goto(c, pc)
    PROVE  \E r : /\ r \in Call /\ r.pc = pc
                  /\ r.document = calls[c].document /\ r.answer = calls[c].answer
                  /\ calls' = [calls EXCEPT ![c] = r]
<1> DEFINE r == [calls[c] EXCEPT !.pc = pc]
<1>1. /\ r \in Call /\ r.pc = pc
      /\ r.document = calls[c].document /\ r.answer = calls[c].answer
    BY Here DEF Call
<1>2. calls' = [calls EXCEPT ![c] = r]
    BY DEF Goto, Parts
<1> HIDE DEF r
<1> QED  BY <1>1, <1>2

(* A call that ends: its child is not at work, and its slot is given back.   *)
LEMMA FinishKeeps ==
    ASSUME Parts, NEW c \in Calls, NEW answer \in Answer, Finish(c, answer),
           Right(calls[c].document, answer), NEW k \in Child,
           children' = [children EXCEPT ![c] = k],
           k.state = "running" => k.killed, k.state = "none" => ~k.killed,
           k.killed \/ k.state = "none" => k.output = None,
           k.output = None \/ k.output = children[c].output,
           slots' = IF HoldsSlot(c) THEN slots + 1 ELSE slots
    PROVE  Parts'
<1> DEFINE r == [calls[c] EXCEPT !.pc = "done", !.answer = answer]
<1>1. /\ r \in Call /\ r.pc = "done" /\ r.answer = answer
      /\ r.document = calls[c].document
    BY Here DEF Call
<1>0. calls' = [calls EXCEPT ![c] = r]
    BY DEF Finish
<1> HIDE DEF r
<1>2. Good(r, k)
    BY <1>1, Here DEF Good, Holding
<1>3. StepOf(c, r, k) /\ ~Holding(r)
    BY <1>0, <1>1 DEF StepOf, Holding
<1> QED  BY <1>2, <1>3, StepKeeps

LEMMA HarmlessIsRight ==
    ASSUME NEW document, NEW kind \in {"invalid", "graph_error", "os_error", "cancelled"}
    PROVE  Raise(kind) \in Answer /\ Right(document, Raise(kind))
<1>1. kind \in Kinds
    BY KindsInUse
<1>2. Raise(kind) \in Answer /\ Raise(kind).kind = kind
    BY <1>1, RaiseFacts
<1> QED  BY <1>2 DEF Right

LEMMA IdleChild ==
    ASSUME Parts, NEW c \in Calls, UNCHANGED children,
           calls[c].pc \in {"graph", "slot", "spawn", "reap"}
    PROVE  LET k == children[c]
           IN  /\ k \in Child /\ children' = [children EXCEPT ![c] = k]
               /\ k.state = "running" => k.killed
               /\ k.state = "none" => ~k.killed
               /\ k.killed \/ k.state = "none" => k.output = None
BY Here DEF Good

-----------------------------------------------------------------------------
LEMMA ReadKeeps ==
    ASSUME Parts, NEW c \in Calls, Read(c)
    PROVE  Parts'
<1>1. PICK r : /\ r \in Call /\ r.pc = "graph"
               /\ r.document = calls[c].document /\ r.answer = calls[c].answer
               /\ calls' = [calls EXCEPT ![c] = r]
    BY GotoFacts DEF Read
<1>2. Good(r, children[c])
    BY <1>1, Here DEF Good, Read, At, Holding
<1>3. StepOf(c, r, children[c]) /\ ~Holding(r) /\ ~HoldsSlot(c) /\ slots' = slots
    BY <1>1, Here DEF StepOf, Read, At, Holding
<1> QED  BY <1>2, <1>3, StepKeeps

LEMMA GraphAnswersKeeps ==
    ASSUME Parts, NEW c \in Calls, GraphAnswers(c)
    PROVE  Parts'
<1>1. PICK document \in Documents :
        calls' = [calls EXCEPT ![c] =
            [@ EXCEPT !.pc = IF Rejection(document) = None THEN "slot" ELSE "done",
                      !.document = document,
                      !.answer = IF Rejection(document) = None THEN None
                                 ELSE Raise(Rejection(document))]]
    BY DEF GraphAnswers
<1> DEFINE pc == IF Rejection(document) = None THEN "slot" ELSE "done"
           answer == IF Rejection(document) = None THEN None
                     ELSE Raise(Rejection(document))
           r == [calls[c] EXCEPT !.pc = pc, !.document = document, !.answer = answer]
<1>2. /\ document # None
      /\ Rejection(document) # None => /\ answer \in Answer
                                       /\ Right(document, answer)
      /\ Rejection(document) = None => answer = None
  <2>1. CASE Rejection(document) # None
    <3>1. Rejection(document) \in Kinds
        BY <2>1, RejectionFacts, KindsInUse
    <3>2. /\ Raise(Rejection(document)) \in Answer
          /\ Raise(Rejection(document)).kind = Rejection(document)
        BY <3>1, RaiseFacts
    <3> QED  BY <2>1, <3>2, RejectionFacts, DocumentFacts DEF Right
  <2>2. CASE Rejection(document) = None
      BY <2>2, DocumentFacts
  <2> QED  BY <2>1, <2>2
<1>3. /\ pc \in {"slot", "done"}
      /\ pc = "slot" <=> Rejection(document) = None
    OBVIOUS
<1>4. calls' = [calls EXCEPT ![c] = r]
    BY <1>1 DEF Parts
<1> HIDE DEF pc, answer
<1>5. /\ r \in Call /\ r.pc = pc /\ r.document = document /\ r.answer = answer
    BY <1>2, <1>3, Here DEF Call
<1> HIDE DEF r
<1>6. /\ children[c].state = "none" /\ children[c].output = None
    BY Here DEF Good, GraphAnswers, At
<1>7. Good(r, children[c])
    BY <1>2, <1>3, <1>5, <1>6, Here DEF Good, Checked, Holding
<1>8. StepOf(c, r, children[c]) /\ ~Holding(r) /\ ~HoldsSlot(c) /\ slots' = slots
    BY <1>3, <1>4, <1>5, Here DEF StepOf, GraphAnswers, At, Holding
<1> QED  BY <1>7, <1>8, StepKeeps

LEMMA FailKeeps ==
    ASSUME Parts, NEW c \in Calls, calls[c].pc \in {"graph", "slot", "spawn", "reap"},
           NEW kind \in {"invalid", "graph_error", "os_error", "cancelled"},
           Fail(c, kind), UNCHANGED children,
           slots' = IF HoldsSlot(c) THEN slots + 1 ELSE slots
    PROVE  Parts'
<1>1. Raise(kind) \in Answer /\ Right(calls[c].document, Raise(kind))
    BY HarmlessIsRight
<1> QED  BY <1>1, IdleChild, FinishKeeps DEF Fail

LEMMA TakeSlotKeeps ==
    ASSUME Parts, NEW c \in Calls, TakeSlot(c)
    PROVE  Parts'
<1> DEFINE document == calls[c].document
<1>1. /\ calls[c].pc = "slot" /\ Checked(document) /\ document \in Documents
      /\ ~HoldsSlot(c) /\ slots > 0
    BY Here DEF TakeSlot, At, Good, Checked, Holding
<1>2. CASE Unstartable(document) = None
  <2>1. Goto(c, "spawn") /\ slots' = slots - 1 /\ UNCHANGED children
      BY <1>2 DEF TakeSlot
  <2>2. PICK r : /\ r \in Call /\ r.pc = "spawn"
                 /\ r.document = document /\ r.answer = calls[c].answer
                 /\ calls' = [calls EXCEPT ![c] = r]
      BY <2>1, GotoFacts
  <2>3. Good(r, children[c])
      BY <1>1, <1>2, <2>2, Here DEF Good, Holding
  <2>4. StepOf(c, r, children[c]) /\ Holding(r)
      BY <2>1, <2>2, Here DEF StepOf, Holding
  <2> QED  BY <1>1, <2>1, <2>3, <2>4, StepKeeps
<1>3. CASE Unstartable(document) # None
  <2>1. Fail(c, Unstartable(document)) /\ slots' = slots /\ UNCHANGED children
      BY <1>3 DEF TakeSlot
  <2>2. /\ Unstartable(document) \in {"invalid", "too_large"}
        /\ Unstartable(document) = "too_large" => document.size > MaxBytes
      BY <1>1, <1>3, UnstartableFacts
  <2>3. /\ Raise(Unstartable(document)) \in Answer
        /\ Raise(Unstartable(document)).kind = Unstartable(document)
      BY <2>2, KindsInUse, RaiseFacts
  <2>4. Right(document, Raise(Unstartable(document)))
      BY <2>2, <2>3 DEF Right
  <2> QED  BY <1>1, <2>1, <2>3, <2>4, IdleChild, FinishKeeps DEF Fail
<1> QED  BY <1>2, <1>3

LEMMA SpawnKeeps ==
    ASSUME Parts, NEW c \in Calls, Spawn(c)
    PROVE  Parts'
<1> DEFINE k == [children[c] EXCEPT !.state = "running"]
<1>1. PICK r : /\ r \in Call /\ r.pc = "communicate"
               /\ r.document = calls[c].document /\ r.answer = calls[c].answer
               /\ calls' = [calls EXCEPT ![c] = r]
    BY GotoFacts DEF Spawn
<1>2. /\ k \in Child /\ k.state = "running" /\ k.killed = children[c].killed
      /\ k.output = children[c].output
    BY Here DEF Child
<1>3. children' = [children EXCEPT ![c] = k]
    BY DEF Spawn, Parts
<1> HIDE DEF k
<1>4. Good(r, k)
    BY <1>1, <1>2, Here DEF Good, Spawn, At, Holding
<1>5. StepOf(c, r, k) /\ Holding(r) /\ HoldsSlot(c) /\ slots' = slots
    BY <1>1, <1>3, Here DEF StepOf, Spawn, At, Holding
<1> QED  BY <1>4, <1>5, StepKeeps

LEMMA CancelSpawnKeeps ==
    ASSUME Parts, NEW c \in Calls, CancelSpawn(c)
    PROVE  Parts'
<1> DEFINE k == [children[c] EXCEPT !.state = "running", !.killed = TRUE]
<1>1. /\ Finish(c, Raise("cancelled")) /\ HoldsSlot(c) /\ slots' = slots + 1
      /\ calls[c].pc = "spawn" /\ children[c].output = None
      /\ Raise("cancelled") \in Answer /\ Right(calls[c].document, Raise("cancelled"))
    BY Here, HarmlessIsRight DEF CancelSpawn, Fail, At, Holding, Good
<1>2. CASE UNCHANGED children
    BY <1>1, <1>2, IdleChild, FinishKeeps
<1>3. CASE children' = [children EXCEPT ![c].state = "running", ![c].killed = TRUE]
  <2>1. children' = [children EXCEPT ![c] = k]
      BY <1>3 DEF Parts
  <2>2. /\ k \in Child /\ k.state = "running" /\ k.killed = TRUE
        /\ k.output = children[c].output
      BY Here DEF Child
  <2> HIDE DEF k
  <2> QED  BY <1>1, <2>1, <2>2, FinishKeeps
<1> QED  BY <1>2, <1>3 DEF CancelSpawn

(* The child's own steps.                                                    *)
LEMMA ChildKeeps ==
    ASSUME Parts, NEW c \in Calls, NEW k, children' = [children EXCEPT ![c] = k],
           Good(calls[c], k), UNCHANGED <<calls, slots>>
    PROVE  Parts'
<1>1. StepOf(c, calls[c], k)
    BY DEF StepOf, Parts
<1> QED  BY <1>1, Here, StepKeeps

LEMMA WorkerEndsKeeps ==
    ASSUME Parts, NEW c \in Calls, WorkerEnds(c)
    PROVE  Parts'
<1> DEFINE output == WorkerOutput(calls[c].document)
           k == [children[c] EXCEPT !.state = "exited", !.output = output]
<1>1. /\ calls[c].pc = "communicate" /\ ~children[c].killed
      /\ calls[c].document \in Documents
      /\ Checked(calls[c].document) /\ Unstartable(calls[c].document) = None
    BY Here DEF WorkerEnds, At, Good, Checked, Holding
<1>2. output \in Answer
    BY <1>1, WorkerFacts
<1>3. children' = [children EXCEPT ![c] = k]
    BY DEF WorkerEnds, Parts
<1>4. output = WorkerOutput(calls[c].document)
    OBVIOUS
<1> HIDE DEF output
<1>5. /\ k \in Child /\ k.state = "exited" /\ k.killed = children[c].killed
      /\ k.output = output
    BY <1>2, Here DEF Child
<1> HIDE DEF k
<1>6. Good(calls[c], k)
    BY <1>1, <1>4, <1>5, Here DEF Good, Holding
<1> QED  BY <1>3, <1>6, ChildKeeps DEF WorkerEnds

LEMMA WorkerDiesKeeps ==
    ASSUME Parts, NEW c \in Calls, WorkerDies(c)
    PROVE  Parts'
<1> DEFINE k == [children[c] EXCEPT !.state = "exited"]
<1>1. /\ k \in Child /\ k.state = "exited" /\ k.killed = children[c].killed
      /\ k.output = children[c].output
    BY Here DEF Child
<1>2. children' = [children EXCEPT ![c] = k]
    BY DEF WorkerDies, Parts
<1> HIDE DEF k
<1>3. Good(calls[c], k)
    BY <1>1, Here DEF Good, WorkerDies
<1> QED  BY <1>2, <1>3, ChildKeeps DEF WorkerDies

LEMMA ReapKeeps ==
    ASSUME Parts, NEW c \in Calls, Reap(c)
    PROVE  Parts'
<1> DEFINE k == [children[c] EXCEPT !.state = "reaped"]
<1>1. /\ k \in Child /\ k.state = "reaped" /\ k.killed = children[c].killed
      /\ k.output = children[c].output
    BY Here DEF Child
<1>2. children' = [children EXCEPT ![c] = k]
    BY DEF Reap, Parts
<1> HIDE DEF k
<1>3. Good(calls[c], k)
    BY <1>1, Here DEF Good, Reap
<1> QED  BY <1>2, <1>3, ChildKeeps DEF Reap

LEMMA CommunicatedKeeps ==
    ASSUME Parts, NEW c \in Calls, Communicated(c)
    PROVE  Parts'
<1> DEFINE k == children[c]
<1>1. /\ calls[c].pc = "communicate" /\ k.state = "reaped" /\ HoldsSlot(c)
      /\ Finish(c, ResultOf(c)) /\ slots' = slots + 1 /\ UNCHANGED children
      /\ calls[c].document \in Documents
    BY Here DEF Communicated, At, Holding, Good, Checked
<1>2. ResultOf(c) \in Answer /\ Right(calls[c].document, ResultOf(c))
  <2>1. CASE k.output = None
      BY <2>1, HarmlessIsRight DEF ResultOf
  <2>2. CASE k.output # None
    <3>1. /\ ResultOf(c) = WorkerOutput(calls[c].document)
          /\ Checked(calls[c].document) /\ Unstartable(calls[c].document) = None
        BY <2>2, Here DEF ResultOf, Good
    <3> QED  BY <1>1, <3>1, WorkerFacts
  <2> QED  BY <2>1, <2>2
<1>3. /\ k \in Child /\ children' = [children EXCEPT ![c] = k]
      /\ k.killed => k.output = None
    BY <1>1, Here DEF Good
<1> HIDE DEF k
<1>4. k.output = None \/ k.output = children[c].output
    BY DEF k
<1> QED  BY <1>1, <1>2, <1>3, <1>4, FinishKeeps

LEMMA InterruptedKeeps ==
    ASSUME Parts, NEW c \in Calls, NEW kind \in {"invalid", "cancelled"},
           Interrupted(c, kind)
    PROVE  Parts'
<1> DEFINE killed == children[c].killed \/ children[c].state = "running"
           k == [children[c] EXCEPT !.killed = killed]
<1>1. Raise(kind) \in Answer
    BY HarmlessIsRight
<1> DEFINE r == [calls[c] EXCEPT !.pc = "reap", !.answer = Raise(kind)]
<1>2. /\ r \in Call /\ r.pc = "reap" /\ r.answer = Raise(kind)
      /\ r.document = calls[c].document
    BY <1>1, Here DEF Call
<1>0. calls' = [calls EXCEPT ![c] = r]
    BY DEF Interrupted
<1> HIDE DEF r
<1>3. children' = [children EXCEPT ![c] = k]
    BY DEF Interrupted, Parts
<1>4. /\ killed \in BOOLEAN
      /\ killed <=> children[c].killed \/ children[c].state = "running"
    BY Here DEF Child
<1> HIDE DEF killed
<1>5. /\ k \in Child /\ k.state = children[c].state /\ k.killed = killed
      /\ k.output = children[c].output
    BY <1>4, Here DEF Child
<1> HIDE DEF k
<1>6. Good(r, k)
    BY <1>2, <1>4, <1>5, Here DEF Good, Interrupted, At, Holding
<1>7. StepOf(c, r, k) /\ Holding(r) /\ HoldsSlot(c) /\ slots' = slots
    BY <1>0, <1>2, <1>3, Here DEF StepOf, Interrupted, At, Holding
<1> QED  BY <1>6, <1>7, StepKeeps

LEMMA ReapedKeeps ==
    ASSUME Parts, NEW c \in Calls, Reaped(c)
    PROVE  Parts'
<1>1. PICK r : /\ r \in Call /\ r.pc = "done"
               /\ r.document = calls[c].document /\ r.answer = calls[c].answer
               /\ calls' = [calls EXCEPT ![c] = r]
    BY GotoFacts DEF Reaped
<1>2. Right(r.document, r.answer)
    BY <1>1, Here, HarmlessIsRight DEF Good, Reaped, At
<1>3. Good(r, children[c])
    BY <1>1, <1>2, Here DEF Good, Reaped, At, Holding
<1>4. StepOf(c, r, children[c]) /\ ~Holding(r) /\ HoldsSlot(c) /\ slots' = slots + 1
    BY <1>1, Here DEF StepOf, Reaped, At, Holding
<1> QED  BY <1>3, <1>4, StepKeeps

-----------------------------------------------------------------------------
LEMMA InitParts == Init => Parts
<1> SUFFICES ASSUME Init PROVE Parts
    OBVIOUS
<1> DEFINE r == [pc |-> "idle", document |-> None, answer |-> None]
           k == [state |-> "none", killed |-> FALSE, output |-> None]
<1>1. r \in Call /\ r.pc = "idle"
    BY DEF Call
<1>2. k \in Child /\ k.state = "none" /\ k.killed = FALSE /\ k.output = None
    BY DEF Child
<1>3. calls = [c \in Calls |-> r] /\ children = [c \in Calls |-> k] /\ slots = Slots
    BY DEF Init
<1> HIDE DEF r, k
<1>4. Good(r, k)
    BY <1>1, <1>2 DEF Good, Holding
<1>5. Holders = {}
    BY <1>1, <1>3 DEF Holders, HoldsSlot
<1>6. slots + Cardinality(Holders) = Slots
    BY <1>3, <1>5, FS_EmptySet
<1>7. slots \in 0 .. Slots
    BY <1>3
<1> QED  BY <1>1, <1>2, <1>3, <1>4, <1>6, <1>7 DEF Parts

LEMMA NextParts == Parts /\ [Next]_vars => Parts'
<1> SUFFICES ASSUME Parts, [Next]_vars PROVE Parts'
    OBVIOUS
<1>1. ASSUME NEW c \in Calls,
             Read(c) \/ GraphAnswers(c) \/ TakeSlot(c) \/ Spawn(c) \/ CancelSpawn(c)
      PROVE  Parts'
    BY <1>1, ReadKeeps, GraphAnswersKeeps, TakeSlotKeeps, SpawnKeeps, CancelSpawnKeeps
<1>2. ASSUME NEW c \in Calls,
             GraphFails(c) \/ SpawnFails(c) \/ CancelReap(c) \/ Cancel(c)
      PROVE  Parts'
    BY <1>2, FailKeeps, Here DEF GraphFails, SpawnFails, CancelReap, Cancel, At, Holding
<1>3. ASSUME NEW c \in Calls, WorkerEnds(c) \/ WorkerDies(c) \/ Reap(c)
      PROVE  Parts'
    BY <1>3, WorkerEndsKeeps, WorkerDiesKeeps, ReapKeeps
<1>4. ASSUME NEW c \in Calls,
             Communicated(c) \/ TimesOut(c) \/ CancelCommunicate(c) \/ Reaped(c)
      PROVE  Parts'
    BY <1>4, CommunicatedKeeps, InterruptedKeeps, ReapedKeeps
       DEF TimesOut, CancelCommunicate
<1>5. CASE UNCHANGED vars
  <2>1. Holders' = Holders
      BY <1>5 DEF vars, Holders, HoldsSlot
  <2> QED  BY <1>5, <2>1 DEF vars, Parts
<1> QED  BY <1>1, <1>2, <1>3, <1>4, <1>5 DEF Next

LEMMA PartsInvariant == Spec => []Parts
BY InitParts, NextParts, PTL DEF Spec

(* Every slot is free or held by one call, and a process is at work only     *)
(* while its call waits for its output (extract_async, extract_isolated).    *)
THEOREM ExtractionInvariant == Spec => []ExtractionInv
BY PartsInvariant, PartsAreTheInvariant, PTL

(* The limits of the tool, of the parent and of the worker agree.            *)
THEOREM ExtractionAnswersHold == Spec => []ExtractionAnswers
BY PartsInvariant, PartsAreTheInvariant, PTL

(* There are never more parsers at work than slots, whatever is cancelled,   *)
(* times out or dies.                                                        *)
THEOREM WorkersWithinSlotsHolds == Spec => []WorkersWithinSlots
<1>1. ASSUME Parts PROVE WorkersWithinSlots
  <2> DEFINE workers == {c \in Calls : Working(c)}
  <2>1. workers \subseteq Holders
    <3> SUFFICES ASSUME NEW c \in Calls, Working(c) PROVE HoldsSlot(c)
        BY DEF Holders
    <3> QED  BY <1>1, Here DEF Good, Working, Holding
  <2>2. IsFiniteSet(Holders)
      BY FS_Subset DEF Holders
  <2>3. Cardinality(workers) <= Cardinality(Holders)
      BY <2>1, <2>2, FS_Subset
  <2>4. Cardinality(workers) \in Nat /\ Cardinality(Holders) \in Nat
      BY <2>1, <2>2, FS_Subset, FS_CardinalityType
  <2>5. slots + Cardinality(Holders) = Slots /\ slots \in Nat
      BY <1>1 DEF Parts
  <2> HIDE DEF workers
  <2>6. Cardinality(workers) <= Slots
      BY <2>3, <2>4, <2>5
  <2> QED  BY <2>6 DEF WorkersWithinSlots, workers
<1> QED  BY <1>1, PartsInvariant, PTL

-----------------------------------------------------------------------------
(* Liveness: every read and every worker ends.                               *)
(*                                                                         *)
(* The prover knows nothing of ENABLED: the theorem assumes beside FairSpec  *)
(* that a call or a child whose wait is over has a step (NeverStuck), and its *)
(* proof uses what follows from weak and strong fairness then.               *)

Doomed(c) == children[c].state = "running" /\ children[c].killed
Exited(c) == children[c].state = "exited"
Gone(c) == children[c].state = "reaped"
SlotFree == slots > 0

GraphMoves(c) ==
    []<>(~At(c, "graph")) \/ []<><<GraphAnswers(c) \/ GraphFails(c)>>_vars
SlotMoves(c) == <>[]~(At(c, "slot") /\ SlotFree) \/ []<><<TakeSlot(c)>>_vars
SpawnMoves(c) == []<>(~At(c, "spawn")) \/ []<><<Spawn(c) \/ SpawnFails(c)>>_vars
DoomedMoves(c) ==
    []<>(~Doomed(c)) \/ []<><<children[c].killed /\ WorkerDies(c)>>_vars
ExitedMoves(c) == []<>(~Exited(c)) \/ []<><<Reap(c)>>_vars
WaitMoves(c) ==
    []<>(~At(c, "communicate")) \/ []<><<Communicated(c) \/ TimesOut(c)>>_vars
ReapMoves(c) == []<>(~(At(c, "reap") /\ Gone(c))) \/ []<><<Reaped(c)>>_vars

LEMMA FairRead ==
    ASSUME NEW c \in Calls
    PROVE  FairSpec /\ []NeverStuck =>
               /\ GraphMoves(c) /\ SlotMoves(c) /\ SpawnMoves(c) /\ DoomedMoves(c)
               /\ ExitedMoves(c) /\ WaitMoves(c) /\ ReapMoves(c)
<1>1. NeverStuck => CanStep(c)
    BY DEF NeverStuck
<1>2. Fairness => /\ GraphEnds(c) /\ IsServed(c) /\ SpawnEnds(c) /\ KilledDies(c)
                  /\ IsReaped(c) /\ WaitEnds(c) /\ EndIsSeen(c)
    BY DEF Fairness
<1>3. GraphEnds(c) /\ []CanStep(c) => GraphMoves(c)
    BY PTL DEF GraphEnds, CanStep, GraphMoves
<1>4. IsServed(c) /\ []CanStep(c) => SlotMoves(c)
    BY PTL DEF IsServed, CanStep, SlotMoves, SlotFree
<1>5. SpawnEnds(c) /\ []CanStep(c) => SpawnMoves(c)
    BY PTL DEF SpawnEnds, CanStep, SpawnMoves
<1>6. KilledDies(c) /\ []CanStep(c) => DoomedMoves(c)
    BY PTL DEF KilledDies, CanStep, DoomedMoves, Doomed
<1>7. IsReaped(c) /\ []CanStep(c) => ExitedMoves(c)
    BY PTL DEF IsReaped, CanStep, ExitedMoves, Exited
<1>8. WaitEnds(c) /\ []CanStep(c) => WaitMoves(c)
    BY PTL DEF WaitEnds, CanStep, WaitMoves
<1>9. EndIsSeen(c) /\ []CanStep(c) => ReapMoves(c)
    BY PTL DEF EndIsSeen, CanStep, ReapMoves, Gone
<1> QED
    BY <1>1, <1>2, <1>3, <1>4, <1>5, <1>6, <1>7, <1>8, <1>9, PTL DEF FairSpec

(* A step leaves a call where it is or takes it to one of the places that     *)
(* follow, and a child likewise.                                             *)
After ==
    [idle |-> {"graph"}, graph |-> {"slot", "done"}, slot |-> {"spawn", "done"},
     spawn |-> {"communicate", "done"}, communicate |-> {"reap", "done"},
     reap |-> {"done"}, done |-> {}]

Leaves(c) == calls'[c].pc \in After[calls[c].pc]

LEMMA PcFacts ==
    ASSUME Parts, NEW c \in Calls
    PROVE  /\ \A pc : Goto(c, pc) => calls'[c].pc = pc
           /\ \A answer : Finish(c, answer) => calls'[c].pc = "done"
           /\ \A pc, answer :
                  calls' = [calls EXCEPT ![c] = [@ EXCEPT !.pc = pc, !.answer = answer]]
                      => calls'[c].pc = pc
<1>1. calls \in [Calls -> Call] /\ calls[c] \in Call
    BY DEF Parts
<1>2. ASSUME NEW pc, Goto(c, pc) PROVE calls'[c].pc = pc
    BY <1>1, <1>2 DEF Goto, Call
<1>3. ASSUME NEW answer, Finish(c, answer) PROVE calls'[c].pc = "done"
    BY <1>1, <1>3 DEF Finish, Call
<1>4. ASSUME NEW pc, NEW answer,
             calls' = [calls EXCEPT ![c] = [@ EXCEPT !.pc = pc, !.answer = answer]]
      PROVE  calls'[c].pc = pc
    BY <1>1, <1>4 DEF Call
<1> QED  BY <1>2, <1>3, <1>4

LEMMA AfterFacts ==
    ASSUME Parts, NEW c \in Calls
    PROVE  /\ At(c, "idle") => After[calls[c].pc] = {"graph"}
           /\ At(c, "graph") => After[calls[c].pc] = {"slot", "done"}
           /\ At(c, "slot") => After[calls[c].pc] = {"spawn", "done"}
           /\ At(c, "spawn") => After[calls[c].pc] = {"communicate", "done"}
           /\ At(c, "communicate") => After[calls[c].pc] = {"reap", "done"}
           /\ At(c, "reap") => After[calls[c].pc] = {"done"}
BY DEF At, After

LEMMA CallLeaves ==
    ASSUME Parts, NEW c \in Calls,
           \/ Read(c) \/ GraphAnswers(c) \/ GraphFails(c) \/ TakeSlot(c)
           \/ Spawn(c) \/ SpawnFails(c) \/ CancelSpawn(c)
           \/ Communicated(c) \/ TimesOut(c) \/ CancelCommunicate(c)
           \/ Reaped(c) \/ CancelReap(c) \/ Cancel(c)
    PROVE  Leaves(c)
<1>1. CASE GraphAnswers(c)
  <2>1. calls'[c].pc \in {"slot", "done"}
    <3>1. PICK pc \in {"slot", "done"} : \E document, answer :
              calls' = [calls EXCEPT ![c] = [@ EXCEPT !.pc = pc, !.document = document,
                                                      !.answer = answer]]
        BY <1>1 DEF GraphAnswers
    <3>2. calls \in [Calls -> Call]
        BY DEF Parts
    <3> QED  BY <3>1, <3>2 DEF Call
  <2> QED  BY <1>1, <2>1, AfterFacts DEF Leaves, GraphAnswers
<1>2. CASE Read(c) \/ TakeSlot(c) \/ Spawn(c) \/ Reaped(c)
    BY <1>2, PcFacts, AfterFacts DEF Leaves, Read, TakeSlot, Spawn, Reaped, Fail
<1>3. CASE \/ GraphFails(c) \/ SpawnFails(c) \/ CancelSpawn(c) \/ Communicated(c)
           \/ CancelReap(c) \/ Cancel(c)
  <2>1. calls'[c].pc = "done"
      BY <1>3, PcFacts DEF GraphFails, SpawnFails, CancelSpawn, Communicated,
         CancelReap, Cancel, Fail
  <2>2. At(c, "graph") \/ At(c, "slot") \/ At(c, "spawn") \/ At(c, "communicate")
        \/ At(c, "reap")
      BY <1>3 DEF GraphFails, SpawnFails, CancelSpawn, Communicated, CancelReap, Cancel, At
  <2> QED  BY <2>1, <2>2, AfterFacts DEF Leaves
<1>4. CASE TimesOut(c) \/ CancelCommunicate(c)
  <2>1. PICK kind : Interrupted(c, kind)
      BY <1>4 DEF TimesOut, CancelCommunicate
  <2>2. calls'[c].pc = "reap" /\ At(c, "communicate")
      BY <2>1 DEF Interrupted, Parts, Call
  <2> QED  BY <2>2, AfterFacts DEF Leaves
<1> QED  BY <1>1, <1>2, <1>3, <1>4

LEMMA OnlyItsOwnSteps ==
    ASSUME Parts, NEW c \in Calls, [Next]_vars
    PROVE  \/ calls'[c] = calls[c]
           \/ Read(c) \/ GraphAnswers(c) \/ GraphFails(c) \/ TakeSlot(c)
           \/ Spawn(c) \/ SpawnFails(c) \/ CancelSpawn(c)
           \/ Communicated(c) \/ TimesOut(c) \/ CancelCommunicate(c)
           \/ Reaped(c) \/ CancelReap(c) \/ Cancel(c)
<1>1. ASSUME NEW q \in Calls, q # c,
             \/ Read(q) \/ GraphAnswers(q) \/ GraphFails(q) \/ TakeSlot(q)
             \/ Spawn(q) \/ SpawnFails(q) \/ CancelSpawn(q)
             \/ Communicated(q) \/ TimesOut(q) \/ CancelCommunicate(q)
             \/ Reaped(q) \/ CancelReap(q) \/ Cancel(q)
      PROVE  calls'[c] = calls[c]
    BY <1>1 DEF Parts, Read, GraphAnswers, GraphFails, TakeSlot, Spawn, SpawnFails,
       CancelSpawn, Communicated, TimesOut, CancelCommunicate, Interrupted, Reaped,
       CancelReap, Cancel, Goto, Fail, Finish
<1>2. ASSUME NEW q \in Calls, WorkerEnds(q) \/ WorkerDies(q) \/ Reap(q)
      PROVE  calls' = calls
    BY <1>2 DEF WorkerEnds, WorkerDies, Reap
<1> QED  BY <1>1, <1>2 DEF Next, vars

LEMMA CallStaysOrLeaves ==
    ASSUME Parts, NEW c \in Calls, [Next]_vars
    PROVE  calls'[c] = calls[c] \/ Leaves(c)
BY OnlyItsOwnSteps, CallLeaves

LEMMA ChildStays ==
    ASSUME Parts, NEW c \in Calls, [Next]_vars
    PROVE  /\ Doomed(c) => Doomed(c)' \/ Exited(c)'
           /\ Exited(c) => Exited(c)' \/ Gone(c)'
           /\ Gone(c) => Gone(c)'
<1>1. ASSUME NEW q \in Calls,
             \/ Read(q) \/ GraphAnswers(q) \/ GraphFails(q) \/ TakeSlot(q)
             \/ SpawnFails(q) \/ Communicated(q) \/ Reaped(q) \/ CancelReap(q)
             \/ Cancel(q)
      PROVE  children' = children
    BY <1>1 DEF Read, GraphAnswers, GraphFails, TakeSlot, SpawnFails, Communicated,
       Reaped, CancelReap, Cancel
<1>2. ASSUME NEW q \in Calls, Spawn(q) \/ CancelSpawn(q)
      PROVE  q # c => children'[c] = children[c]
    BY <1>2 DEF Parts, Spawn, CancelSpawn
<1>3. Spawn(c) \/ CancelSpawn(c) => children[c].state = "none"
    BY Here DEF Spawn, CancelSpawn, Good, At
<1>4. ASSUME NEW q \in Calls, TimesOut(q) \/ CancelCommunicate(q)
      PROVE  /\ children'[c].state = children[c].state
             /\ children[c].killed => children'[c].killed
    BY <1>4 DEF Parts, TimesOut, CancelCommunicate, Interrupted, Child
<1>5. ASSUME NEW q \in Calls, WorkerEnds(q) \/ WorkerDies(q)
      PROVE  /\ q # c => children'[c] = children[c]
             /\ q = c => children[c].state = "running" /\ children'[c].state = "exited"
    BY <1>5 DEF Parts, WorkerEnds, WorkerDies, Child
<1>6. ASSUME NEW q \in Calls, Reap(q)
      PROVE  /\ q # c => children'[c] = children[c]
             /\ q = c => children[c].state = "exited" /\ children'[c].state = "reaped"
    BY <1>6 DEF Parts, Reap, Child
<1> QED
    BY <1>1, <1>2, <1>3, <1>4, <1>5, <1>6 DEF Next, vars, Doomed, Exited, Gone

(* A child that was told to end is gone in the end.                          *)
LEMMA EndedChildIsReaped ==
    ASSUME NEW c \in Calls
    PROVE  FairSpec /\ []NeverStuck
               => (Doomed(c) \/ Exited(c) \/ Gone(c) ~> []Gone(c))
<1>1. /\ Parts /\ Doomed(c) /\ [Next]_vars => Doomed(c)' \/ Exited(c)'
      /\ Parts /\ Exited(c) /\ [Next]_vars => Exited(c)' \/ Gone(c)'
      /\ Parts /\ Gone(c) /\ [Next]_vars => Gone(c)'
    BY ChildStays
<1>2. Parts /\ <<children[c].killed /\ WorkerDies(c)>>_vars => Exited(c)'
    BY DEF Parts, WorkerDies, Child, Exited
<1>3. Parts /\ <<Reap(c)>>_vars => Gone(c)'
    BY DEF Parts, Reap, Child, Gone
<1>4. FairSpec => Spec
    BY DEF FairSpec
<1> QED
    BY <1>1, <1>2, <1>3, <1>4, FairRead, PartsInvariant, PTL
       DEF Spec, DoomedMoves, ExitedMoves

(* A call that waits for a process it has killed ends.                       *)
LEMMA SpawnedReadEnds ==
    ASSUME NEW c \in Calls
    PROVE  FairSpec /\ []NeverStuck => (HoldsSlot(c) ~> At(c, "done"))
<1>1. HoldsSlot(c) <=> At(c, "spawn") \/ At(c, "communicate") \/ At(c, "reap")
    BY DEF HoldsSlot, At
<1>2. /\ Parts /\ At(c, "spawn") /\ [Next]_vars
           => At(c, "spawn")' \/ At(c, "communicate")' \/ At(c, "done")'
      /\ Parts /\ At(c, "communicate") /\ [Next]_vars
           => At(c, "communicate")' \/ At(c, "reap")' \/ At(c, "done")'
      /\ Parts /\ At(c, "reap") /\ [Next]_vars => At(c, "reap")' \/ At(c, "done")'
    BY CallStaysOrLeaves DEF Leaves, After, At
<1>3. /\ Parts /\ At(c, "spawn") /\ <<Spawn(c) \/ SpawnFails(c)>>_vars
           => At(c, "communicate")' \/ At(c, "done")'
      /\ Parts /\ At(c, "communicate") /\ <<Communicated(c) \/ TimesOut(c)>>_vars
           => At(c, "reap")' \/ At(c, "done")'
      /\ Parts /\ At(c, "reap") /\ <<Reaped(c)>>_vars => At(c, "done")'
    BY CallLeaves DEF Leaves, After, At
<1>4. Parts /\ At(c, "reap") => Doomed(c) \/ Exited(c) \/ Gone(c)
    BY Here DEF Good, At, Doomed, Exited, Gone, Child
<1>5. FairSpec => Spec
    BY DEF FairSpec
<1> QED
    BY <1>1, <1>2, <1>3, <1>4, <1>5, EndedChildIsReaped, FairRead, PartsInvariant, PTL
       DEF Spec, SpawnMoves, WaitMoves, ReapMoves

(* So a slot is free again and again.                                        *)
GivesBack(c) == HoldsSlot(c) => <>SlotFree

LEMMA HolderGivesBack ==
    ASSUME NEW c \in Calls
    PROVE  FairSpec /\ []NeverStuck => []GivesBack(c)
<1>1. ASSUME Parts, HoldsSlot(c), [Next]_vars
      PROVE  HoldsSlot(c)' \/ SlotFree'
  <2>1. CASE calls'[c] = calls[c]
      BY <1>1, <2>1 DEF HoldsSlot
  <2>2. slots \in Nat
      BY <1>1 DEF Parts
  <2>3. CASE SpawnFails(c) \/ CancelSpawn(c) \/ Communicated(c) \/ Reaped(c) \/ CancelReap(c)
      BY <2>2, <2>3 DEF SpawnFails, CancelSpawn, Communicated, Reaped, CancelReap, SlotFree
  <2>4. CASE Spawn(c) \/ TimesOut(c) \/ CancelCommunicate(c)
      BY <1>1, <2>4, PcFacts
         DEF Spawn, TimesOut, CancelCommunicate, Interrupted, HoldsSlot
  <2>5. ~(Read(c) \/ GraphAnswers(c) \/ GraphFails(c) \/ TakeSlot(c) \/ Cancel(c))
      BY <1>1 DEF HoldsSlot, Read, GraphAnswers, GraphFails, TakeSlot, Cancel, At
  <2> QED  BY <1>1, <2>1, <2>3, <2>4, <2>5, OnlyItsOwnSteps
<1>2. At(c, "done") => ~HoldsSlot(c)
    BY DEF At, HoldsSlot
<1>3. FairSpec => Spec
    BY DEF FairSpec
<1> QED
    BY <1>1, <1>2, <1>3, SpawnedReadEnds, PartsInvariant, PTL DEF Spec, GivesBack

LEMMA SlotIsFreeAgain == FairSpec /\ []NeverStuck => []<>SlotFree
<1>1. FairSpec /\ []NeverStuck => \A c \in Calls : []GivesBack(c)
    BY HolderGivesBack
<1>2. (\A c \in Calls : []GivesBack(c)) => [](\A c \in Calls : GivesBack(c))
    OBVIOUS
<1>3. Parts /\ ~SlotFree => \E c \in Calls : HoldsSlot(c)
  <2> SUFFICES ASSUME Parts, ~SlotFree, ~(\E c \in Calls : HoldsSlot(c)) PROVE FALSE
      OBVIOUS
  <2>1. Holders = {}
      BY DEF Holders
  <2> QED  BY <2>1, FS_EmptySet DEF Parts, SlotFree
<1>4. Parts /\ (\A c \in Calls : GivesBack(c)) => SlotFree \/ <>SlotFree
    BY <1>3 DEF GivesBack
<1>5. FairSpec => Spec
    BY DEF FairSpec
<1> QED  BY <1>1, <1>2, <1>4, <1>5, PartsInvariant, PTL

(* Every read ends although its worker may hang: whoever holds a slot gives   *)
(* it back, so every call that waits for one is served, and a process is told *)
(* to end or has ended by itself when its call is done (extract_async, the    *)
(* finally of extract_isolated).                                             *)
THEOREM ReadsEndHolds == FairSpec /\ []NeverStuck => ReadsEnd
<1> SUFFICES ASSUME NEW c \in Calls
             PROVE  FairSpec /\ []NeverStuck =>
                      /\ ~At(c, "idle") ~> At(c, "done")
                      /\ At(c, "done") ~> children[c].state \in {"none", "reaped"}
    BY DEF ReadsEnd
<1>1. Parts => \/ At(c, "idle") \/ At(c, "graph") \/ At(c, "slot") \/ At(c, "done")
               \/ HoldsSlot(c)
    BY DEF Parts, Call, At, HoldsSlot
<1>2. /\ Parts /\ At(c, "graph") /\ [Next]_vars
           => At(c, "graph")' \/ At(c, "slot")' \/ At(c, "done")'
      /\ Parts /\ At(c, "slot") /\ [Next]_vars
           => At(c, "slot")' \/ HoldsSlot(c)' \/ At(c, "done")'
    BY CallStaysOrLeaves DEF Leaves, After, At, HoldsSlot
<1>3. /\ Parts /\ At(c, "graph") /\ <<GraphAnswers(c) \/ GraphFails(c)>>_vars
           => At(c, "slot")' \/ At(c, "done")'
      /\ Parts /\ At(c, "slot") /\ <<TakeSlot(c)>>_vars
           => HoldsSlot(c)' \/ At(c, "done")'
    BY CallLeaves DEF Leaves, After, At, HoldsSlot
<1>4. FairSpec => Spec
    BY DEF FairSpec
<1>5. FairSpec /\ []NeverStuck => (~At(c, "idle") ~> At(c, "done"))
    BY <1>1, <1>2, <1>3, <1>4, FairRead, SpawnedReadEnds, SlotIsFreeAgain,
       PartsInvariant, PTL DEF Spec, GraphMoves, SlotMoves
<1>6. Parts /\ At(c, "done") =>
          \/ children[c].state \in {"none", "reaped"}
          \/ Doomed(c) \/ Exited(c) \/ Gone(c)
    BY Here DEF Good, At, Doomed, Exited, Gone, Child
<1>7. Gone(c) => children[c].state \in {"none", "reaped"}
    BY DEF Gone
<1> QED
    BY <1>4, <1>5, <1>6, <1>7, EndedChildIsReaped, PartsInvariant, PTL

=============================================================================
