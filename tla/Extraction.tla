----------------------------- MODULE Extraction -----------------------------
(***************************************************************************)
(* mail_read_attachment: the file Graph answers with (mail/tools.py), one of *)
(* a few slots (AttachmentExtractorRegistry.extract_async), a child process  *)
(* that is fed the file under a deadline and must be gone afterwards         *)
(* (extractors/isolation.py), and what that child makes of the file          *)
(* (extractors/worker.py and attachment.py).                                 *)
(*                                                                         *)
(* The parsers are external: what they make of a file is a property of the    *)
(* file.  A child may hang in them, or end early by one of its limits.  The   *)
(* server runs on Linux.  A cancelled request stays cancelled: every later    *)
(* await of it is interrupted, too.                                          *)
(***************************************************************************)
EXTENDS Integers, FiniteSets

CONSTANTS
    Calls,         \* mail_read_attachment calls
    Slots,         \* the semaphore of the registry, 2
    Documents,     \* what Graph may answer
    MaxBytes,      \* settings.attachment_max_bytes
    MaxChars,      \* settings.attachment_max_text_chars
    MarkerChars,   \* len(TRUNCATION_MARKER)
    None

VARIABLES
    calls,     \* the coroutines of the calls
    children,  \* the worker process of each call
    slots      \* value of the semaphore

vars == <<calls, children, slots>>

\* what Graph answers: usable, or not
Deliveries == {"file", "nothing", "item", "no_content", "bad_encoding", "no_name"}

\* what the registry and its parsers make of a file
Readings == {"text", "nameless", "unknown_format", "not_an_archive",
             "too_many_members", "encrypted", "unparsable"}

Document ==
    [delivery : Deliveries, size : Nat, reading : Readings,
     chars : Nat,              \* length of its text
     long : BOOLEAN]           \* its name does not fit the metadata line

Kinds == {"text", "too_large", "unsupported", "invalid", "graph_error",
          "os_error", "cancelled"}

\* a text, or the exception raised
Answer == [kind : Kinds, chars : Nat, truncated : BOOLEAN]

Raise(kind) == [kind |-> kind, chars |-> 0, truncated |-> FALSE]

ASSUME ExtractionAssumption ==
    /\ Slots \in Nat \ {0} /\ IsFiniteSet(Calls)
    /\ Documents \subseteq Document /\ None \notin Documents
    /\ None \notin Kinds /\ None \notin Answer
    /\ MaxBytes \in Nat \ {0} /\ MaxChars \in Nat \ {0} /\ MarkerChars \in Nat

Call ==
    [pc : {"idle", "graph", "slot", "spawn", "communicate", "reap", "done"},
     document : Documents \cup {None},
     answer : Answer \cup {None}]   \* in "reap", the exception being raised

Child ==
    [state : {"none", "running", "exited", "reaped"},
     killed : BOOLEAN,
     output : Answer \cup {None}]   \* None unless it exited with 0

TypeOK ==
    /\ calls \in [Calls -> Call]
    /\ children \in [Calls -> Child]
    /\ slots \in 0 .. Slots

-----------------------------------------------------------------------------
\* Mutant: whole groups of three only.
EncodedLimitRoundedDown == 4 * (MaxBytes \div 3)

\* _file_attachment: as many characters as MaxBytes bytes may take
EncodedLimit == 4 * ((MaxBytes + 2) \div 3)

\* base64, padded
EncodedLength(size) == 4 * ((size + 2) \div 3)

\* _file_attachment: the exception it raises, None for none
Rejection(document) ==
    CASE document.delivery \in {"nothing", "no_content"} -> "invalid"
      [] document.delivery = "item" -> "unsupported"
      [] document.delivery \in {"file", "bad_encoding", "no_name"} ->
             IF EncodedLength(document.size) > EncodedLimit THEN "too_large"
             ELSE IF document.delivery = "file" THEN None ELSE "invalid"

\* extract_isolated, before the child: the exception, None for none
Unstartable(document) ==
    IF document.size > MaxBytes THEN "too_large"
    ELSE IF document.long THEN "invalid" ELSE None

\* _truncate: the marker takes the place of the last characters
Truncate(chars) ==
    [kind |-> "text",
     chars |-> IF chars <= MaxChars THEN chars
               ELSE IF MaxChars <= MarkerChars THEN MaxChars
               ELSE (MaxChars - MarkerChars) + MarkerChars,
     truncated |-> chars > MaxChars]

\* the worker: it reads at most MaxBytes + 1 bytes of its input, and the
\* registry looks at the length, the name, the archive and the text in turn
WorkerOutput(document) ==
    IF document.size > MaxBytes THEN Raise("too_large")
    ELSE CASE document.reading = "text" -> Truncate(document.chars)
           [] document.reading = "unknown_format" -> Raise("unsupported")
           [] document.reading = "too_many_members" -> Raise("too_large")
           [] OTHER -> Raise("invalid")

At(c, pc) == calls[c].pc = pc

Goto(c, pc) == calls' = [calls EXCEPT ![c].pc = pc]

Finish(c, answer) ==
    calls' = [calls EXCEPT ![c] = [@ EXCEPT !.pc = "done", !.answer = answer]]

Fail(c, kind) == Finish(c, Raise(kind))

Init ==
    /\ calls = [c \in Calls |->
                   [pc |-> "idle", document |-> None, answer |-> None]]
    /\ children = [c \in Calls |->
                      [state |-> "none", killed |-> FALSE, output |-> None]]
    /\ slots = Slots

\* read_attachment: the request for the attachment
Read(c) ==
    /\ At(c, "idle")
    /\ Goto(c, "graph")
    /\ UNCHANGED <<children, slots>>

\* _file_attachment: the answer is checked and decoded
GraphAnswers(c) ==
    /\ At(c, "graph")
    /\ \E document \in Documents :
          LET rejection == Rejection(document)
          IN  calls' = [calls EXCEPT ![c] =
                  [@ EXCEPT !.pc = IF rejection = None THEN "slot" ELSE "done",
                            !.document = document,
                            !.answer = IF rejection = None THEN None
                                         ELSE Raise(rejection)]]
    /\ UNCHANGED <<children, slots>>

GraphFails(c) ==
    /\ At(c, "graph")
    /\ Fail(c, "graph_error")
    /\ UNCHANGED <<children, slots>>

\* extract_async has a slot; a file that is refused gives it back at once
TakeSlot(c) ==
    /\ At(c, "slot")
    /\ slots > 0
    /\ LET refusal == Unstartable(calls[c].document)
       IN  IF refusal = None
           THEN Goto(c, "spawn") /\ slots' = slots - 1
           ELSE Fail(c, refusal) /\ slots' = slots
    /\ UNCHANGED children

\* create_subprocess_exec
Spawn(c) ==
    /\ At(c, "spawn")
    /\ Goto(c, "communicate")
    /\ children' = [children EXCEPT ![c].state = "running"]
    /\ UNCHANGED slots

SpawnFails(c) ==
    /\ At(c, "spawn")
    /\ Fail(c, "os_error")
    /\ slots' = slots + 1
    /\ UNCHANGED children

\* asyncio closes the transport of a child that was being started: it is
\* killed, if the cancellation came after the fork
CancelSpawn(c) ==
    /\ At(c, "spawn")
    /\ Fail(c, "cancelled")
    /\ \E forked \in BOOLEAN :
          children' = IF forked
                      THEN [children EXCEPT ![c].state = "running",
                                            ![c].killed = TRUE]
                      ELSE children
    /\ slots' = slots + 1

\* The child writes its answer and ends.
WorkerEnds(c) ==
    /\ children[c].state = "running" /\ ~children[c].killed
    /\ At(c, "communicate")
    /\ children' = [children EXCEPT ![c].state = "exited",
                        ![c].output = WorkerOutput(calls[c].document)]
    /\ UNCHANGED <<calls, slots>>

\* It ends otherwise: by a signal, by its memory or processor limit.
WorkerDies(c) ==
    /\ children[c].state = "running"
    /\ children' = [children EXCEPT ![c].state = "exited"]
    /\ UNCHANGED <<calls, slots>>

\* the event loop waits for the child: process.returncode is set
Reap(c) ==
    /\ children[c].state = "exited"
    /\ children' = [children EXCEPT ![c].state = "reaped"]
    /\ UNCHANGED <<calls, slots>>

\* extract_isolated, past the finally: the return code and the output
ResultOf(c) ==
    IF children[c].output = None THEN Raise("invalid") ELSE children[c].output

\* communicate returned: the child has closed its output and was reaped
Communicated(c) ==
    /\ At(c, "communicate")
    /\ children[c].state = "reaped"
    /\ Finish(c, ResultOf(c))
    /\ slots' = slots + 1
    /\ UNCHANGED children

\* Mutant: wait_for is trusted to end the child as well.
InterruptedUnkilled(c, kind) ==
    /\ At(c, "communicate")
    /\ calls' = [calls EXCEPT ![c] = [@ EXCEPT !.pc = "reap",
                                                !.answer = Raise(kind)]]
    /\ UNCHANGED <<children, slots>>

\* the finally of extract_isolated: kill, unless it is known to have ended
Interrupted(c, kind) ==
    /\ At(c, "communicate")
    /\ calls' = [calls EXCEPT ![c] = [@ EXCEPT !.pc = "reap",
                                                !.answer = Raise(kind)]]
    /\ children' = [children EXCEPT ![c].killed = @ \/ children[c].state = "running"]
    /\ UNCHANGED slots

TimesOut(c) == Interrupted(c, "invalid")

CancelCommunicate(c) == Interrupted(c, "cancelled")

\* process.wait() returns in the finally
Reaped(c) ==
    /\ At(c, "reap")
    /\ children[c].state = "reaped"
    /\ Goto(c, "done")
    /\ slots' = slots + 1
    /\ UNCHANGED children

\* Mutant: the slot is not given back.
CancelReapKeepingSlot(c) ==
    /\ At(c, "reap")
    /\ Fail(c, "cancelled")
    /\ UNCHANGED <<children, slots>>

\* process.wait() is interrupted in its turn
CancelReap(c) ==
    /\ At(c, "reap")
    /\ Fail(c, "cancelled")
    /\ slots' = slots + 1
    /\ UNCHANGED children

\* a cancellation before the child
Cancel(c) ==
    /\ calls[c].pc \in {"graph", "slot"}
    /\ Fail(c, "cancelled")
    /\ UNCHANGED <<children, slots>>

Next ==
    \E c \in Calls :
        \/ Read(c) \/ GraphAnswers(c) \/ GraphFails(c) \/ TakeSlot(c)
        \/ Spawn(c) \/ SpawnFails(c) \/ CancelSpawn(c)
        \/ WorkerEnds(c) \/ WorkerDies(c) \/ Reap(c)
        \/ Communicated(c) \/ TimesOut(c) \/ CancelCommunicate(c)
        \/ Reaped(c) \/ CancelReap(c) \/ Cancel(c)

Spec == Init /\ [][Next]_vars

\* Graph answers or the request times out, the system starts a process or
\* refuses to, a killed process ends, and the timer of wait_for goes off.
\* A worker that nobody kills may hang.  The semaphore serves its waiters in
\* order, which is more than strong fairness.
GraphEnds(c) == WF_vars(GraphAnswers(c) \/ GraphFails(c))
IsServed(c) == SF_vars(TakeSlot(c))
SpawnEnds(c) == WF_vars(Spawn(c) \/ SpawnFails(c))
KilledDies(c) == WF_vars(children[c].killed /\ WorkerDies(c))
IsReaped(c) == WF_vars(Reap(c))
WaitEnds(c) == WF_vars(Communicated(c) \/ TimesOut(c))
EndIsSeen(c) == WF_vars(Reaped(c))

Fairness ==
    \A c \in Calls :
        /\ GraphEnds(c) /\ IsServed(c) /\ SpawnEnds(c) /\ KilledDies(c)
        /\ IsReaped(c) /\ WaitEnds(c) /\ EndIsSeen(c)

FairSpec == Spec /\ Fairness

-----------------------------------------------------------------------------
HoldsSlot(c) == calls[c].pc \in {"spawn", "communicate", "reap"}

\* a process that nothing has told to end
Working(c) == children[c].state = "running" /\ ~children[c].killed

\* Every slot is free or held by one call, on every path out of extract_async.
SlotsAreCounted ==
    slots + Cardinality({c \in Calls : HoldsSlot(c)}) = Slots

\* a process is started by its call, and works only while that call waits for
\* its output; a call waits for the end of a process it has killed
Supervised ==
    \A c \in Calls :
        /\ calls[c].pc \in {"idle", "graph", "slot", "spawn"} =>
               children[c].state = "none"
        /\ calls[c].pc \in {"communicate", "reap"} => children[c].state # "none"
        /\ Working(c) => At(c, "communicate")
        /\ children[c].state = "none" => ~children[c].killed
        /\ children[c].killed \/ children[c].state \in {"none", "running"} =>
               children[c].output = None

\* a call past its checks has a file it may hand to a worker
FilesAreChecked ==
    \A c \in Calls :
        /\ calls[c].pc \in {"slot", "spawn", "communicate", "reap"} =>
               /\ calls[c].document # None
               /\ Rejection(calls[c].document) = None
        /\ HoldsSlot(c) => Unstartable(calls[c].document) = None
        /\ children[c].output # None =>
               /\ calls[c].document # None
               /\ Rejection(calls[c].document) = None
               /\ Unstartable(calls[c].document) = None
               /\ children[c].output = WorkerOutput(calls[c].document)
        /\ At(c, "reap") => calls[c].answer \in {Raise("invalid"), Raise("cancelled")}

\* a call or a child whose wait is over has a step
CanStep(c) ==
    /\ At(c, "graph") => ENABLED <<GraphAnswers(c) \/ GraphFails(c)>>_vars
    /\ At(c, "slot") /\ slots > 0 => ENABLED <<TakeSlot(c)>>_vars
    /\ At(c, "spawn") => ENABLED <<Spawn(c) \/ SpawnFails(c)>>_vars
    /\ children[c].state = "running" /\ children[c].killed =>
          ENABLED <<children[c].killed /\ WorkerDies(c)>>_vars
    /\ children[c].state = "exited" => ENABLED <<Reap(c)>>_vars
    /\ At(c, "communicate") => ENABLED <<Communicated(c) \/ TimesOut(c)>>_vars
    /\ At(c, "reap") /\ children[c].state = "reaped" => ENABLED <<Reaped(c)>>_vars

NeverStuck == \A c \in Calls : CanStep(c)

ExtractionInv ==
    TypeOK /\ SlotsAreCounted /\ Supervised /\ FilesAreChecked

\* There are never more parsers at work than slots, whatever is cancelled,
\* times out or dies: a slot is only given back when its process has ended or
\* was killed (isolation.py, the finally).
WorkersWithinSlots == Cardinality({c \in Calls : Working(c)}) <= Slots

\* The limits agree with one another: a file is refused as too large only
\* when it has more than MaxBytes bytes, or is an archive of too many, although
\* the encoded length, the exact length and the worker each check it, and a
\* text comes from a readable file within the limit, cut to MaxChars.
ExtractionAnswers ==
    \A c \in Calls : At(c, "done") =>
        LET document == calls[c].document
            answer == calls[c].answer
        IN  /\ answer.kind = "too_large" =>
                   \/ document.size > MaxBytes
                   \/ document.reading = "too_many_members"
            /\ answer.kind = "unsupported" =>
                   \/ document.delivery = "item"
                   \/ document.reading = "unknown_format"
            /\ answer.kind = "text" =>
                   /\ document.delivery = "file" /\ document.reading = "text"
                   /\ document.size <= MaxBytes /\ ~document.long
                   /\ answer.chars <= MaxChars
                   /\ answer.truncated <=> document.chars > MaxChars

\* Every call ends although its worker may hang, and its worker ends with it
\* or soon after: no slot, and no process, is lost to a hanging parser.
ReadsEnd ==
    \A c \in Calls :
        /\ ~At(c, "idle") ~> At(c, "done")
        /\ At(c, "done") ~> children[c].state \in {"none", "reaped"}

=============================================================================
