-------------------------- MODULE DraftAttachments --------------------------
(***************************************************************************)
(* mail_add_draft_attachment from the consumed handle to the mailbox: the    *)
(* tool (mail/tools.py), MailService.add_draft_attachment (graph/mail.py)    *)
(* and the retries of GraphClient (graph/client.py), composed with the       *)
(* upload store it takes its files from.                                    *)
(*                                                                         *)
(* Microsoft Graph is external.  A request sent may be carried out at any    *)
(* later time, or never, whatever became of the caller; a success is answered *)
(* after it was carried out, a throttling (429) or a refusal instead of it;   *)
(* any other failure (no answer, a 5xx, an unreadable or oversized response)  *)
(* says nothing of it.  A file below DirectLimit is one POST, a larger one an *)
(* upload session and its ranges, and exists once its last range is there.    *)
(***************************************************************************)
EXTENDS AttachmentUploads

CONSTANTS
    DirectLimit,   \* DIRECT_ATTACHMENT_LIMIT
    ChunkBytes,    \* UPLOAD_CHUNK_BYTES
    MaxRetries     \* settings.graph_max_retries

VARIABLES
    calls,     \* the add_draft_attachment coroutines after consume
    wire,      \* writes sent to Graph and not carried out, or not yet
    mailbox    \* writes Graph has carried out

graphVars == <<calls, wire, mailbox>>
allVars == <<vars, graphVars>>

WritePcs == {"post", "open", "put"}

Call ==
    [pc : WritePcs \cup {"idle", "draft", "done"},
     attempt : 0 .. MaxRetries,
     start : Nat,              \* first byte of the next range
     answer : {"none", "attached", "not_draft", "error", "lost"}]

\* one attempt of one request
Write == [call : Attaches, pc : WritePcs, start : Nat, attempt : 0 .. MaxRetries]

ASSUME GraphAssumption ==
    /\ DirectLimit \in Nat
    /\ ChunkBytes \in Nat \ {0}
    /\ MaxRetries \in Nat

DraftsTypeOK ==
    /\ UploadsTypeOK
    /\ calls \in [Attaches -> Call]
    /\ wire \subseteq Write
    /\ mailbox \subseteq Write
    /\ \A a \in Attaches : calls[a].pc # "idle" => attaches[a].answer = "taken"

-----------------------------------------------------------------------------
SizeOf(a) == attaches[a].content.size

CallAt(a, pc) == calls[a].pc = pc

WriteOf(a) ==
    [call |-> a, pc |-> calls[a].pc, start |-> calls[a].start,
     attempt |-> calls[a].attempt]

LastRange(a) == calls[a].start + ChunkBytes >= SizeOf(a)

\* Mutant: a write is retried on any transient failure, as a read is.
RetriesEveryFailure(a, throttled) == calls[a].attempt < MaxRetries

\* request: reads are retried on any transient failure, writes on 429 only;
\* a range of an upload session is never retried
MayRetry(a, throttled) ==
    /\ calls[a].attempt < MaxRetries
    /\ \/ CallAt(a, "draft")
       \/ throttled /\ calls[a].pc \in {"post", "open"}

GraphInit ==
    /\ calls = [a \in Attaches |->
                   [pc |-> "idle", attempt |-> 0, start |-> 0, answer |-> "none"]]
    /\ wire = {}
    /\ mailbox = {}

DoneWith(a, answer) ==
    calls' = [calls EXCEPT ![a] = [@ EXCEPT !.pc = "done", !.answer = answer]]

\* the next request of the coroutine, at its first attempt
Proceed(a, pc, start) ==
    calls' = [calls EXCEPT ![a] =
                 [@ EXCEPT !.pc = pc, !.attempt = 0, !.start = start]]

\* add_draft_attachment with the payload consume returned
Begin(a) ==
    /\ attaches[a].answer = "taken"
    /\ CallAt(a, "idle")
    /\ Proceed(a, "draft", 0)
    /\ UNCHANGED <<vars, wire, mailbox>>

\* the GET answers: is it a draft?
DraftFound(a) ==
    /\ CallAt(a, "draft")
    /\ Proceed(a, IF SizeOf(a) < DirectLimit THEN "post" ELSE "open", 0)
    /\ UNCHANGED <<vars, wire, mailbox>>

NotADraft(a) ==
    /\ CallAt(a, "draft")
    /\ DoneWith(a, "not_draft")
    /\ UNCHANGED <<vars, wire, mailbox>>

\* the request leaves, with its delegated token
Send(a) ==
    /\ calls[a].pc \in WritePcs
    /\ WriteOf(a) \notin wire \cup mailbox
    /\ wire' = wire \cup {WriteOf(a)}
    /\ UNCHANGED <<vars, calls, mailbox>>

\* external: Graph carries a write out; a range follows the one before it
CarryOut(w) ==
    /\ w \in wire
    /\ w.pc = "put" /\ w.start > 0 =>
          \E v \in mailbox : /\ v.call = w.call /\ v.pc = "put"
                             /\ v.start + ChunkBytes = w.start
    /\ wire' = wire \ {w}
    /\ mailbox' = mailbox \cup {w}
    /\ UNCHANGED <<vars, calls>>

\* external: it never arrives
Lose(w) ==
    /\ w \in wire
    /\ wire' = wire \ {w}
    /\ UNCHANGED <<vars, calls, mailbox>>

\* Mutant: a 2xx range ends the upload.
SucceedsAtFirstRange(a) ==
    /\ calls[a].pc \in WritePcs
    /\ WriteOf(a) \in mailbox
    /\ IF CallAt(a, "open")
       THEN Proceed(a, "put", 0)
       ELSE DoneWith(a, "attached")
    /\ UNCHANGED <<vars, wire, mailbox>>

\* success: the attachment is there, or the next range is due
Succeeds(a) ==
    /\ calls[a].pc \in WritePcs
    /\ WriteOf(a) \in mailbox
    /\ IF CallAt(a, "post") \/ (CallAt(a, "put") /\ LastRange(a))
       THEN DoneWith(a, "attached")
       ELSE Proceed(a, "put", IF CallAt(a, "open") THEN 0
                              ELSE calls[a].start + ChunkBytes)
    /\ UNCHANGED <<vars, wire, mailbox>>

\* Mutant: the loop does not count its attempts.
RetryUncounted(a) == UNCHANGED calls

\* one attempt more, after the delay
RetryAfter(a) ==
    calls' = [calls EXCEPT ![a].attempt = @ + 1]

\* 429: Graph did not carry the request out, and never will
Throttled(a) ==
    /\ calls[a].pc \in WritePcs
    /\ WriteOf(a) \in wire
    /\ wire' = wire \ {WriteOf(a)}
    /\ \/ MayRetry(a, TRUE) /\ RetryAfter(a)
       \/ DoneWith(a, "error")    \* no attempt left, or the delay is too long
    /\ UNCHANGED <<vars, mailbox>>

\* any other failure: retried if that is safe, and otherwise reported
Fails(a) ==
    /\ calls[a].pc \in WritePcs \cup {"draft"}
    /\ IF MayRetry(a, FALSE) THEN RetryAfter(a) ELSE DoneWith(a, "error")
    /\ UNCHANGED <<vars, wire, mailbox>>

\* an answer that is no reason to retry (4xx), or no token for the request
Refused(a) ==
    /\ calls[a].pc \in WritePcs \cup {"draft"}
    /\ WriteOf(a) \notin mailbox
    /\ wire' = wire \ {WriteOf(a)}
    /\ DoneWith(a, "error")
    /\ UNCHANGED <<vars, mailbox>>

\* the coroutines die with the process; what was sent is on its way
RestartCalls ==
    /\ Restart
    /\ calls' = [a \in Attaches |->
          IF calls[a].answer = "none" /\ attaches[a].answer = "taken"
          THEN [calls[a] EXCEPT !.pc = "done", !.answer = "lost"]
          ELSE calls[a]]
    /\ UNCHANGED <<wire, mailbox>>

\* every other operation of the store leaves the Graph side alone
StoreStep ==
    /\ \/ Tick \/ Cleanup
       \/ \E b \in Bodies : BodyStep(b)
       \/ \E b \in Stagings : StageStep(b)
       \/ \E b \in Pushes : PushStep(b)
       \/ \E g \in Grants : PrepareStep(g)
       \/ \E a \in Attaches : AttachStep(a)
    /\ UNCHANGED graphVars

CallStep(a) ==
    \/ Begin(a) \/ DraftFound(a) \/ NotADraft(a)
    \/ Send(a) \/ Succeeds(a) \/ Throttled(a) \/ Fails(a) \/ Refused(a)

AttachmentsNext ==
    \/ StoreStep
    \/ RestartCalls
    \/ \E a \in Attaches : CallStep(a)
    \/ \E w \in wire : CarryOut(w) \/ Lose(w)

AttachmentsSpec == Init /\ GraphInit /\ [][AttachmentsNext]_allVars

(* The client and Graph answer or fail, the event loop runs the coroutines. *)
Progress(a) ==
    Begin(a) \/ DraftFound(a) \/ NotADraft(a) \/ Succeeds(a) \/ Throttled(a)
        \/ Fails(a) \/ Refused(a)

IsAnswered(a) == WF_allVars(Progress(a))

FairAttachments == AttachmentsSpec /\ \A a \in Attaches : IsAnswered(a)

\* a call that has its file is not at a loss
CanStep(a) ==
    attaches[a].answer = "taken" /\ ~CallAt(a, "done") => ENABLED <<Progress(a)>>_allVars

NeverStuck == \A a \in Attaches : CanStep(a)

-----------------------------------------------------------------------------
(* Properties *)

\* the writes that make an attachment appear in a draft
Attachments ==
    {w \in mailbox : \/ w.pc = "post"
                     \/ w.pc = "put" /\ w.start + ChunkBytes >= SizeOf(w.call)}

(* The file of a handle appears in a mailbox once at most: whatever is lost, *)
(* delayed, throttled or answered late, however often the tool is called and *)
(* whenever the process restarts.                                            *)
AttachedAtMostOnce ==
    \A v, w \in Attachments :
        attaches[v.call].handle = attaches[w.call].handle => v = w

(* What the tool answers is true: attached=true means the whole file is in   *)
(* the draft; a refused handle or a message that is no draft means nothing   *)
(* was or will be written.                                                   *)
AnswersAreTrue ==
    \A a \in Attaches :
        /\ calls[a].answer = "attached" =>
              /\ \E w \in Attachments : w.call = a
              /\ SizeOf(a) >= DirectLimit =>
                    \A s \in {n \in 0 .. SizeOf(a) - 1 : n % ChunkBytes = 0} :
                        \E w \in mailbox : w.call = a /\ w.pc = "put" /\ w.start = s
        /\ calls[a].answer = "not_draft" \/ attaches[a].answer = "refused" =>
              \A w \in mailbox \cup wire : w.call # a

(* Retrying ends: a call that took a file is answered, with an attempt of    *)
(* every request bounded by graph_max_retries.                               *)
CallsEnd == \A a \in Attaches : attaches[a].answer = "taken" ~> CallAt(a, "done")

(* Seen from outside the whole of it, stores, retries and restarts, delivers  *)
(* each file once at most and says so truthfully.                            *)
CopiesOf ==
    [h \in Handles |->
        Cardinality({w \in Attachments : attaches[w.call].handle = h})]
Told == [a \in Attaches |-> calls[a].answer]

Delivery == INSTANCE OneDelivery WITH
    Files   <- Handles,
    Calls   <- Attaches,
    holders <- Takers,
    copies  <- CopiesOf,
    told    <- Told

DeliversOnce == Delivery!Spec
=============================================================================
