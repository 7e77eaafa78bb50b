---------------------------- MODULE DraftProofs ----------------------------
(***************************************************************************)
(* A file is attached once at most and the answers of the tool are true, for *)
(* every number of calls, every size of file and range, and every number of   *)
(* retries.                                                                 *)
(***************************************************************************)
EXTENDS DraftAttachments, UploadProofs

-----------------------------------------------------------------------------
(* Ranges begin at multiples of ChunkBytes *)

LEMMA NextMultiple ==
    ASSUME NEW n \in Nat, n % ChunkBytes = 0
    PROVE  (n + ChunkBytes) % ChunkBytes = 0 /\ 0 % ChunkBytes = 0
  <1> DEFINE C == ChunkBytes
  <1>1. C \in Nat \ {0}
    BY GraphAssumption
  <1> HIDE DEF C
  <1>2. PICK k \in Int : n = C * k
    <2>1. n = (C * (n \div C)) + (n % C)
      BY <1>1
    <2>2. QED BY <1>1, <2>1 DEF C
  <1>3. n + C = C * (k + 1) /\ 0 = C * 0
    BY <1>1, <1>2
  <1>4. \A m \in Int : (C * m) % C = 0
    BY <1>1
  <1>5. QED BY <1>2, <1>3, <1>4 DEF C

LEMMA OneMultiple ==
    ASSUME NEW n \in Nat, NEW s \in Nat, n % ChunkBytes = 0, s % ChunkBytes = 0,
           n <= s, s < n + ChunkBytes
    PROVE  s = n
  <1> DEFINE C == ChunkBytes
             j == n \div C
             k == s \div C
  <1>1. C \in Nat \ {0}
    BY GraphAssumption
  <1>2. n = C * j /\ s = C * k /\ j \in Int /\ k \in Int
    BY <1>1
  <1> HIDE DEF C, j, k
  <1>3. C * k < C * (j + 1) /\ C * j <= C * k
    BY <1>1, <1>2 DEF C
  <1>4. k < j + 1
    BY <1>1, <1>2, <1>3
  <1>5. j <= k
    BY <1>1, <1>2, <1>3
  <1>6. QED BY <1>2, <1>4, <1>5

-----------------------------------------------------------------------------
(* The inductive invariant of the calls: the writes of a call are those of    *)
(* its current request and, for an upload session, of its earlier ranges.     *)

\* A POST is retried only when the attempt before it was not carried out, so
\* there is only one of them.  A range of an upload session is sent once; the
\* earlier ones end where the current one begins, or before.
WriteFits(c, size, w) ==
    /\ c.pc \in WritePcs \cup {"done"} /\ c.answer # "not_draft"
    /\ w.pc = "post" =>
          /\ size < DirectLimit /\ c.pc \in {"post", "done"}
          /\ w.attempt = c.attempt /\ w.start = c.start
    /\ w.pc = "put" =>
          /\ size >= DirectLimit /\ c.pc \in {"put", "done"}
          /\ w.attempt = 0 /\ c.start < size
          /\ w.start = c.start \/ w.start + ChunkBytes <= c.start

\* the ranges before the position n are in the mailbox
RangesUpTo(a, n, M) ==
    \A s \in Nat : s < n /\ s % ChunkBytes = 0 =>
        \E w \in M : w.call = a /\ w.pc = "put" /\ w.start = s

\* what a call knows when it is at a range, or has answered
Reports(a, c, size, M) ==
    /\ c.pc = "put" => c.start % ChunkBytes = 0 /\ RangesUpTo(a, c.start, M)
    /\ c.answer = "attached" =>
          /\ \E w \in M : /\ w.call = a
                          /\ \/ w.pc = "post"
                             \/ w.pc = "put" /\ w.start + ChunkBytes >= size
          /\ size >= DirectLimit => RangesUpTo(a, size, M)

\* the request a call is at suits its file
CallFits(c, size) ==
    /\ c.pc = "post" => size < DirectLimit
    /\ c.pc \in {"open", "put"} => size >= DirectLimit
    /\ c.pc = "put" => c.attempt = 0 /\ c.start < size
    /\ c.answer # "none" => c.pc = "done"

Good(a, c, at, W, M) ==
    /\ c \in Call
    /\ c.pc # "idle" => at.answer = "taken"
    /\ CallFits(c, at.content.size)
    /\ \A w \in W \cup M : w.call = a => WriteFits(c, at.content.size, w)
    /\ \A w \in W \cap M : w.call # a
    /\ Reports(a, c, at.content.size, M)

Graph ==
    /\ calls = [a \in Attaches |-> calls[a]]
    /\ wire \subseteq Write
    /\ mailbox \subseteq Write
    /\ \A a \in Attaches : Good(a, calls[a], attaches[a], wire, mailbox)

LEMMA WriteFacts ==
    ASSUME NEW w \in Write
    PROVE  /\ w.call \in Attaches /\ w.pc \in WritePcs /\ w.start \in Nat
           /\ w.attempt \in 0 .. MaxRetries
           /\ w = [call |-> w.call, pc |-> w.pc, start |-> w.start, attempt |-> w.attempt]
  BY DEF Write

LEMMA CallFacts ==
    ASSUME NEW c \in Call
    PROVE  /\ c.pc \in WritePcs \cup {"idle", "draft", "done"}
           /\ c.attempt \in 0 .. MaxRetries /\ c.start \in Nat
           /\ c.answer \in {"none", "attached", "not_draft", "error", "lost"}
  BY DEF Call

LEMMA CurrentWrite ==
    ASSUME Graph, NEW a \in Attaches, calls[a].pc \in WritePcs
    PROVE  /\ WriteOf(a) \in Write /\ WriteOf(a).call = a
           /\ WriteOf(a).pc = calls[a].pc /\ WriteOf(a).start = calls[a].start
           /\ WriteOf(a).attempt = calls[a].attempt
  BY DEF Graph, Good, Call, Write, WriteOf

\* a call that took a file has it
LEMMA TakenSize ==
    ASSUME UploadsInv, NEW a \in Attaches, attaches[a].answer = "taken"
    PROVE  SizeOf(a) \in Nat \ {0}
  <1> DEFINE h == attaches[a].handle
  <1>1. h \in Handles /\ Minted(h) /\ attaches[a].content = Promised(h).content
    BY DEF UploadsInv, HandlesAge, TakenAsPromised
  <1>2. Promised(h).content \in Content
    <2>1. CASE h \in Stagings
      BY <1>1, <2>1 DEF UploadsInv, UploadsTypeOK, HandlesAge, Minted, Promised, Bodies, Body
    <2>2. CASE h \in Grants /\ h \notin Stagings
      BY <1>1, <2>2, RowFacts DEF UploadsInv, UploadsTypeOK, Minted, Promised, PromiseOf
    <2>3. QED BY <1>1, <2>1, <2>2 DEF Handles
  <1>3. QED BY <1>1, <1>2, RowFacts DEF SizeOf

-----------------------------------------------------------------------------
(* Preservation, one lemma for each step of a call *)

\* one call moves, and of the writes on their way only its own change
LEMMA CallMoves ==
    ASSUME Graph, NEW a \in Attaches, NEW c, calls' = [calls EXCEPT ![a] = c],
           attaches' = attaches, mailbox' = mailbox,
           wire' \subseteq Write, \A w \in wire' : w.call # a => w \in wire,
           Good(a, c, attaches[a], wire', mailbox)
    PROVE  Graph'
  <1>1. \A x \in Attaches \ {a} : Good(x, calls[x], attaches[x], wire', mailbox)
    BY DEF Graph, Good
  <1>2. \A x \in Attaches : Good(x, calls'[x], attaches'[x], wire', mailbox')
    BY <1>1 DEF Graph
  <1>3. calls' = [x \in Attaches |-> calls'[x]]
    BY DEF Graph
  <1>4. QED BY <1>2, <1>3 DEF Graph

\* the call ends: what it had sent stays as it is
LEMMA DoneKeeps ==
    ASSUME Graph, NEW a \in Attaches, attaches[a].answer = "taken",
           NEW answer \in {"error", "lost", "not_draft", "attached"},
           answer = "not_draft" => calls[a].pc = "draft",
           answer = "attached" =>
               Reports(a, [calls[a] EXCEPT !.pc = "done", !.answer = answer],
                       attaches[a].content.size, mailbox),
           NEW W \in SUBSET wire
    PROVE  Good(a, [calls[a] EXCEPT !.pc = "done", !.answer = answer],
                attaches[a], W, mailbox)
  <1> DEFINE size == attaches[a].content.size
             c == [calls[a] EXCEPT !.pc = "done", !.answer = answer]
  <1>1. Good(a, calls[a], attaches[a], wire, mailbox) /\ calls[a] \in Call
    BY DEF Graph, Good
  <1>2. /\ c \in Call /\ c.pc = "done" /\ c.answer = answer
        /\ c.start = calls[a].start /\ c.attempt = calls[a].attempt
    BY <1>1 DEF Call
  <1> HIDE DEF c
  <1>3. CallFits(c, size)
    BY <1>2 DEF CallFits
  <1>4. \A w \in W \cup mailbox : w.call = a => WriteFits(c, size, w)
    BY <1>1, <1>2 DEF Good, WriteFits, WritePcs
  <1>5. Reports(a, c, size, mailbox)
    BY <1>2 DEF Reports, c
  <1>6. QED
    BY <1>1, <1>2, <1>3, <1>4, <1>5 DEF Good, c, WritePcs

LEMMA DoneMoves ==
    ASSUME Graph, NEW a \in Attaches, calls[a].pc \in WritePcs \cup {"draft"},
           NEW answer \in {"error", "not_draft"},
           answer = "not_draft" => calls[a].pc = "draft",
           DoneWith(a, answer), attaches' = attaches, mailbox' = mailbox,
           wire' \subseteq wire
    PROVE  Graph'
  <1> DEFINE c == [calls[a] EXCEPT !.pc = "done", !.answer = answer]
  <1>1. calls' = [calls EXCEPT ![a] = c]
    BY DEF DoneWith
  <1>2. Good(a, c, attaches[a], wire', mailbox)
    <2>1. attaches[a].answer = "taken"
      BY DEF Graph, Good, WritePcs
    <2>2. QED BY <2>1, DoneKeeps
  <1> HIDE DEF c
  <1>3. wire' \subseteq Write
    BY DEF Graph
  <1>4. QED BY <1>1, <1>2, <1>3, CallMoves

\* a call goes on to a request, at its first attempt
Asking(a, pc, start) == [calls[a] EXCEPT !.pc = pc, !.attempt = 0, !.start = start]

LEMMA ProceedFacts ==
    ASSUME Graph, NEW a \in Attaches, NEW pc \in WritePcs \cup {"draft"}, NEW start \in Nat
    PROVE  /\ Asking(a, pc, start) \in Call
           /\ Asking(a, pc, start).pc = pc
           /\ Asking(a, pc, start).attempt = 0
           /\ Asking(a, pc, start).start = start
           /\ Asking(a, pc, start).answer = calls[a].answer
  <1>1. calls[a] \in Call
    BY DEF Graph, Good
  <1>2. 0 \in 0 .. MaxRetries
    BY GraphAssumption
  <1>3. QED BY <1>1, <1>2 DEF Call, Asking

LEMMA BeginKeeps ==
    ASSUME Graph, NEW a \in Attaches, Begin(a)
    PROVE  Graph'
  <1> DEFINE c == Asking(a, "draft", 0)
  <1>1. /\ c \in Call /\ c.pc = "draft" /\ c.answer = calls[a].answer
    BY ProceedFacts
  <1>2. Good(a, calls[a], attaches[a], wire, mailbox) /\ calls[a].pc = "idle"
    BY DEF Graph, Begin, CallAt
  <1>3. /\ calls' = [calls EXCEPT ![a] = c]
        /\ attaches[a].answer = "taken"
        /\ attaches' = attaches /\ wire' = wire /\ mailbox' = mailbox
    BY DEF Begin, Proceed, Asking, vars
  <1> HIDE DEF c
  <1>4. c.answer = "none"
    BY <1>1, <1>2, CallFacts DEF Good, CallFits
  <1>5. Good(a, c, attaches[a], wire', mailbox)
    BY <1>1, <1>2, <1>3, <1>4 DEF Good, CallFits, Reports, WriteFits, WritePcs
  <1>6. QED BY <1>3, <1>5, CallMoves DEF Graph

LEMMA DraftFoundKeeps ==
    ASSUME Graph, UploadsInv, NEW a \in Attaches, DraftFound(a)
    PROVE  Graph'
  <1> DEFINE pc == IF SizeOf(a) < DirectLimit THEN "post" ELSE "open"
             c == Asking(a, pc, 0)
  <1>1. pc \in {"post", "open"}
    OBVIOUS
  <1>2. /\ c \in Call /\ c.pc = pc /\ c.attempt = 0 /\ c.start = 0
        /\ c.answer = calls[a].answer
    BY <1>1, ProceedFacts DEF WritePcs
  <1>3. Good(a, calls[a], attaches[a], wire, mailbox) /\ calls[a].pc = "draft"
    BY DEF Graph, DraftFound, CallAt
  <1>4. /\ calls' = [calls EXCEPT ![a] = c]
        /\ attaches' = attaches /\ wire' = wire /\ mailbox' = mailbox
    BY DEF DraftFound, Proceed, Asking, vars
  <1>5. SizeOf(a) \in Nat /\ DirectLimit \in Nat
    BY <1>3, TakenSize, GraphAssumption DEF Good
  <1> HIDE DEF c
  <1>6. c.answer = "none"
    BY <1>2, <1>3, CallFacts DEF Good, CallFits
  <1>7. CallFits(c, SizeOf(a))
    BY <1>2, <1>5, <1>6 DEF CallFits
  <1>8. Good(a, c, attaches[a], wire', mailbox)
    BY <1>1, <1>2, <1>3, <1>4, <1>6, <1>7 DEF Good, Reports, WriteFits, WritePcs, SizeOf
  <1>9. QED BY <1>4, <1>8, CallMoves DEF Graph

LEMMA SendKeeps ==
    ASSUME Graph, NEW a \in Attaches, Send(a)
    PROVE  Graph'
  <1> DEFINE size == attaches[a].content.size
             c == calls[a]
  <1>1. /\ calls[a].pc \in WritePcs /\ WriteOf(a) \notin wire \cup mailbox
        /\ wire' = wire \cup {WriteOf(a)}
        /\ attaches' = attaches /\ calls' = calls /\ mailbox' = mailbox
    BY DEF Send, vars
  <1>2. /\ WriteOf(a) \in Write /\ WriteOf(a).call = a
        /\ WriteOf(a).pc = c.pc /\ WriteOf(a).start = c.start
        /\ WriteOf(a).attempt = c.attempt
    BY <1>1, CurrentWrite
  <1>3. Good(a, c, attaches[a], wire, mailbox)
    BY DEF Graph
  <1>4. WriteFits(c, size, WriteOf(a))
    BY <1>1, <1>2, <1>3 DEF Good, CallFits, WriteFits, WritePcs
  <1>5. Good(a, c, attaches[a], wire', mailbox)
    BY <1>1, <1>2, <1>3, <1>4 DEF Good
  <1>6. calls' = [calls EXCEPT ![a] = c]
    BY <1>1 DEF Graph
  <1>7. wire' \subseteq Write /\ \A w \in wire' : w.call # a => w \in wire
    BY <1>1, <1>2 DEF Graph
  <1>8. QED BY <1>1, <1>5, <1>6, <1>7, CallMoves

LEMMA NotADraftKeeps ==
    ASSUME Graph, NEW a \in Attaches, NotADraft(a)
    PROVE  Graph'
  BY DoneMoves DEF NotADraft, CallAt, vars

LEMMA RefusedKeeps ==
    ASSUME Graph, NEW a \in Attaches, Refused(a)
    PROVE  Graph'
  BY DoneMoves DEF Refused, vars

\* one attempt more
Retrying(a) == [calls[a] EXCEPT !.attempt = @ + 1]

LEMMA RetryFacts ==
    ASSUME Graph, NEW a \in Attaches, calls[a].attempt < MaxRetries
    PROVE  /\ Retrying(a) \in Call /\ Retrying(a).pc = calls[a].pc
           /\ Retrying(a).attempt = calls[a].attempt + 1
           /\ Retrying(a).start = calls[a].start
           /\ Retrying(a).answer = calls[a].answer
           /\ RetryAfter(a) => calls' = [calls EXCEPT ![a] = Retrying(a)]
  <1>1. calls[a] \in Call
    BY DEF Graph, Good
  <1>2. calls[a].attempt + 1 \in 0 .. MaxRetries
    BY <1>1, CallFacts, GraphAssumption
  <1>3. ASSUME NEW n \in 0 .. MaxRetries
        PROVE  LET c == [calls[a] EXCEPT !.attempt = n]
               IN  /\ c \in Call /\ c.pc = calls[a].pc /\ c.attempt = n
                   /\ c.start = calls[a].start /\ c.answer = calls[a].answer
    BY <1>1 DEF Call
  <1>4. Retrying(a) = [calls[a] EXCEPT !.attempt = calls[a].attempt + 1]
    BY DEF Retrying
  <1>5. RetryAfter(a) => calls' = [calls EXCEPT ![a] = Retrying(a)]
    BY DEF Graph, RetryAfter, Retrying
  <1>6. QED BY <1>2, <1>3, <1>4, <1>5

\* a retry follows an attempt that is neither on its way nor carried out
LEMMA RetryKeeps ==
    ASSUME Graph, NEW a \in Attaches, calls[a].pc \in {"draft", "post", "open"},
           calls[a].attempt < MaxRetries, RetryAfter(a),
           attaches' = attaches, mailbox' = mailbox, wire' \subseteq wire,
           calls[a].pc = "post" => WriteOf(a) \notin wire' \cup mailbox
    PROVE  Graph'
  <1> DEFINE size == attaches[a].content.size
             c == Retrying(a)
  <1>1. /\ c \in Call /\ c.pc = calls[a].pc /\ c.attempt = calls[a].attempt + 1
        /\ c.start = calls[a].start /\ c.answer = calls[a].answer
        /\ calls' = [calls EXCEPT ![a] = c]
    BY RetryFacts
  <1> HIDE DEF c
  <1>2. Good(a, calls[a], attaches[a], wire, mailbox)
    BY DEF Graph
  <1>3. CallFits(c, size)
    BY <1>1, <1>2 DEF Good, CallFits
  <1>4. ASSUME NEW w \in wire' \cup mailbox, w.call = a
        PROVE  WriteFits(c, size, w)
    <2>1. w \in wire \cup mailbox /\ WriteFits(calls[a], size, w)
      BY <1>2, <1>4 DEF Good
    <2>2. w.pc # "post"
      <3> SUFFICES ASSUME w.pc = "post" PROVE FALSE
        OBVIOUS
      <3>1. calls[a].pc = "post" /\ w.attempt = calls[a].attempt /\ w.start = calls[a].start
        BY <2>1 DEF WriteFits
      <3>2. w \in Write
        BY <2>1 DEF Graph
      <3>3. w = WriteOf(a)
        BY <1>4, <3>1, <3>2, WriteFacts DEF WriteOf
      <3>4. QED BY <1>4, <3>1, <3>3
    <2>3. QED BY <1>1, <2>1, <2>2 DEF WriteFits, WritePcs
  <1>5. Reports(a, c, size, mailbox)
    BY <1>1, <1>2 DEF Good, Reports, CallFits
  <1>6. Good(a, c, attaches[a], wire', mailbox)
    BY <1>1, <1>2, <1>3, <1>4, <1>5 DEF Good
  <1>7. QED BY <1>1, <1>6, CallMoves DEF Graph

LEMMA ThrottledKeeps ==
    ASSUME Graph, NEW a \in Attaches, Throttled(a)
    PROVE  Graph'
  <1>1. /\ calls[a].pc \in WritePcs /\ WriteOf(a) \in wire
        /\ wire' = wire \ {WriteOf(a)} /\ attaches' = attaches /\ mailbox' = mailbox
    BY DEF Throttled, vars
  <1>2. CASE DoneWith(a, "error")
    BY <1>1, <1>2, DoneMoves
  <1>3. CASE MayRetry(a, TRUE) /\ RetryAfter(a)
    <2>1. calls[a].pc \in {"draft", "post", "open"} /\ calls[a].attempt < MaxRetries
      BY <1>3 DEF MayRetry, CallAt
    <2>2. WriteOf(a) \notin wire' \cup mailbox
      <3>1. WriteOf(a).call = a
        BY <1>1, CurrentWrite
      <3>2. \A w \in wire \cap mailbox : w.call # a
        BY DEF Graph, Good
      <3>3. QED BY <1>1, <3>1, <3>2
    <2>3. QED BY <1>1, <1>3, <2>1, <2>2, RetryKeeps
  <1>4. QED BY <1>2, <1>3 DEF Throttled

LEMMA FailsKeeps ==
    ASSUME Graph, NEW a \in Attaches, Fails(a)
    PROVE  Graph'
  <1>1. /\ calls[a].pc \in WritePcs \cup {"draft"}
        /\ attaches' = attaches /\ mailbox' = mailbox /\ wire' = wire
    BY DEF Fails, vars
  <1>2. CASE MayRetry(a, FALSE)
    <2>1. calls[a].pc = "draft" /\ calls[a].attempt < MaxRetries /\ RetryAfter(a)
      BY <1>2 DEF Fails, MayRetry, CallAt
    <2>2. QED BY <1>1, <2>1, RetryKeeps
  <1>3. CASE ~ MayRetry(a, FALSE)
    BY <1>1, <1>3, DoneMoves DEF Fails
  <1>4. QED BY <1>2, <1>3

\* the range a call is at is in the mailbox, and with it all before its end
LEMMA NextRange ==
    ASSUME Graph, NEW a \in Attaches, calls[a].pc = "put", WriteOf(a) \in mailbox,
           NEW n \in Nat, n <= calls[a].start + ChunkBytes
    PROVE  RangesUpTo(a, n, mailbox)
  <1> DEFINE start == calls[a].start
  <1>1. start \in Nat /\ start % ChunkBytes = 0 /\ RangesUpTo(a, start, mailbox)
    BY CallFacts DEF Graph, Good, Reports
  <1>2. WriteOf(a).call = a /\ WriteOf(a).pc = "put" /\ WriteOf(a).start = start
    BY CurrentWrite DEF WritePcs
  <1> SUFFICES ASSUME NEW s \in Nat, s < n, s % ChunkBytes = 0
               PROVE  \E w \in mailbox : w.call = a /\ w.pc = "put" /\ w.start = s
    BY DEF RangesUpTo
  <1> HIDE DEF start
  <1>3. CASE s < start
    BY <1>1, <1>3 DEF RangesUpTo
  <1>4. CASE ~ (s < start)
    <2>1. start <= s /\ s < start + ChunkBytes
      BY <1>1, <1>4, GraphAssumption DEF start
    <2>2. s = start
      BY <1>1, <2>1, OneMultiple
    <2>3. QED BY <1>2, <2>2
  <1>5. QED BY <1>3, <1>4

LEMMA SucceedsKeeps ==
    ASSUME Graph, UploadsInv, NEW a \in Attaches, Succeeds(a)
    PROVE  Graph'
  <1> DEFINE size == attaches[a].content.size
             start == calls[a].start
  <1>1. /\ calls[a].pc \in WritePcs /\ WriteOf(a) \in mailbox
        /\ wire' = wire /\ attaches' = attaches /\ mailbox' = mailbox
    BY DEF Succeeds, vars
  <1>2. /\ WriteOf(a).call = a /\ WriteOf(a).pc = calls[a].pc
        /\ WriteOf(a).start = start
    BY <1>1, CurrentWrite
  <1>3. /\ Good(a, calls[a], attaches[a], wire, mailbox) /\ attaches[a].answer = "taken"
        /\ start \in Nat
    BY <1>1, CallFacts DEF Graph, Good, WritePcs
  <1>4. size \in Nat \ {0} /\ DirectLimit \in Nat /\ ChunkBytes \in Nat \ {0}
    BY <1>3, TakenSize, GraphAssumption DEF SizeOf
  <1>5. CASE CallAt(a, "post") \/ (CallAt(a, "put") /\ LastRange(a))
    <2> DEFINE c == [calls[a] EXCEPT !.pc = "done", !.answer = "attached"]
    <2>1. calls' = [calls EXCEPT ![a] = c]
      BY <1>5 DEF Succeeds, DoneWith
    <2>2. c.pc = "done" /\ c.answer = "attached"
      BY <1>3 DEF Good, Call
    <2>3. \/ WriteOf(a).pc = "post"
          \/ WriteOf(a).pc = "put" /\ WriteOf(a).start + ChunkBytes >= size
      BY <1>2, <1>5 DEF CallAt, LastRange, SizeOf
    <2>4. ASSUME size >= DirectLimit
          PROVE  RangesUpTo(a, size, mailbox)
      <3>1. calls[a].pc = "put"
        BY <1>3, <1>4, <1>5, <2>4 DEF CallAt, Good, CallFits
      <3>2. size <= start + ChunkBytes
        BY <1>3, <1>4, <1>5, <3>1 DEF CallAt, LastRange, SizeOf
      <3>3. QED BY <1>1, <1>4, <3>1, <3>2, NextRange
    <2> HIDE DEF c
    <2>5. Reports(a, c, size, mailbox)
      BY <1>1, <1>2, <2>2, <2>3, <2>4 DEF Reports
    <2>6. Good(a, c, attaches[a], wire', mailbox)
      BY <1>1, <1>3, <2>5, DoneKeeps DEF c
    <2>7. QED BY <1>1, <2>1, <2>6, CallMoves DEF Graph
  <1>6. CASE ~ (CallAt(a, "post") \/ (CallAt(a, "put") /\ LastRange(a)))
    <2> DEFINE next == IF CallAt(a, "open") THEN 0 ELSE start + ChunkBytes
               c == Asking(a, "put", next)
    <2>1. calls[a].pc = "open" \/ (calls[a].pc = "put" /\ ~ LastRange(a))
      BY <1>1, <1>6 DEF CallAt, WritePcs
    <2>2. /\ next \in Nat /\ next < size
          /\ calls[a].pc = "open" => next = 0
          /\ calls[a].pc = "put" => next = start + ChunkBytes
      BY <1>3, <1>4, <2>1 DEF CallAt, LastRange, SizeOf
    <2>3. calls' = [calls EXCEPT ![a] = c]
      BY <1>6 DEF Succeeds, Proceed, Asking
    <2> HIDE DEF next
    <2>4. /\ c \in Call /\ c.pc = "put" /\ c.attempt = 0 /\ c.start = next
          /\ c.answer = calls[a].answer
      BY <2>2, ProceedFacts DEF WritePcs
    <2> HIDE DEF c
    <2>5. c.answer = "none"
      BY <1>1, <1>3, <2>4, CallFacts DEF Good, CallFits, WritePcs
    <2>6. size >= DirectLimit
      BY <1>3, <2>1 DEF Good, CallFits
    <2>7. CallFits(c, size)
      BY <2>2, <2>4, <2>5, <2>6 DEF CallFits
    <2>8. ASSUME NEW w \in wire \cup mailbox, w.call = a
          PROVE  WriteFits(c, size, w)
      <3>1. WriteFits(calls[a], size, w) /\ w \in Write
        BY <1>3, <2>8 DEF Good, Graph
      <3>2. w.pc # "post"
        BY <2>1, <3>1 DEF WriteFits
      <3>3. w.pc = "put" =>
               /\ w.attempt = 0
               /\ w.start = next \/ w.start + ChunkBytes <= next
        BY <1>3, <1>4, <2>1, <2>2, <3>1, WriteFacts DEF WriteFits
      <3>4. QED
        BY <2>2, <2>4, <2>5, <2>6, <3>2, <3>3 DEF WriteFits, WritePcs
    <2>9. next % ChunkBytes = 0 /\ RangesUpTo(a, next, mailbox)
      <3>1. CASE calls[a].pc = "open"
        <4>1. next = 0 /\ 0 % ChunkBytes = 0
          <5>1. 0 % ChunkBytes = 0
            BY GraphAssumption
          <5>2. QED BY <2>2, <3>1, <5>1
        <4>2. QED BY <4>1 DEF RangesUpTo
      <3>2. CASE calls[a].pc = "put"
        <4>1. start % ChunkBytes = 0
          BY <1>3, <3>2 DEF Good, Reports
        <4>2. next % ChunkBytes = 0
          BY <1>3, <2>2, <3>2, <4>1, NextMultiple
        <4>3. next <= start + ChunkBytes
          BY <1>3, <1>4, <2>2, <3>2
        <4>4. QED BY <1>1, <2>2, <3>2, <4>2, <4>3, NextRange
      <3>3. QED BY <2>1, <3>1, <3>2
    <2>10. Reports(a, c, size, mailbox)
      BY <2>4, <2>5, <2>9 DEF Reports
    <2>11. Good(a, c, attaches[a], wire', mailbox)
      BY <1>1, <1>3, <2>4, <2>7, <2>8, <2>10 DEF Good
    <2>12. QED BY <1>1, <2>3, <2>11, CallMoves DEF Graph
  <1>7. QED BY <1>5, <1>6

-----------------------------------------------------------------------------
(* Preservation by Graph, by a restart and by the store *)

LEMMA CarryOutKeeps ==
    ASSUME Graph, NEW v \in wire, CarryOut(v)
    PROVE  Graph'
  <1>1. /\ wire' = wire \ {v} /\ mailbox' = mailbox \cup {v}
        /\ attaches' = attaches /\ calls' = calls
    BY DEF CarryOut, vars
  <1>2. wire' \subseteq Write /\ mailbox' \subseteq Write
    BY <1>1 DEF Graph
  <1>3. ASSUME NEW a \in Attaches
        PROVE  Good(a, calls[a], attaches[a], wire', mailbox')
    <2>1. Good(a, calls[a], attaches[a], wire, mailbox)
      BY DEF Graph
    <2>2. Reports(a, calls[a], attaches[a].content.size, mailbox')
      BY <1>1, <2>1 DEF Good, Reports, RangesUpTo
    <2>3. \A w \in wire' \cup mailbox' : w \in wire \cup mailbox
      BY <1>1
    <2>4. \A w \in wire' \cap mailbox' : w \in wire \cap mailbox
      BY <1>1
    <2>5. QED BY <2>1, <2>2, <2>3, <2>4 DEF Good
  <1>4. QED BY <1>1, <1>2, <1>3 DEF Graph

LEMMA LoseKeeps ==
    ASSUME Graph, NEW v \in wire, Lose(v)
    PROVE  Graph'
  <1>1. /\ wire' \subseteq wire /\ mailbox' = mailbox
        /\ attaches' = attaches /\ calls' = calls
    BY DEF Lose, vars
  <1>2. \A a \in Attaches : Good(a, calls[a], attaches[a], wire', mailbox)
    BY <1>1 DEF Graph, Good
  <1>3. QED BY <1>1, <1>2 DEF Graph

LEMMA RestartCallsKeeps ==
    ASSUME Graph, RestartCalls
    PROVE  Graph'
  <1>1. wire' = wire /\ mailbox' = mailbox /\ attaches' = attaches
    BY DEF RestartCalls, Restart
  <1>2. ASSUME NEW a \in Attaches
        PROVE  Good(a, calls'[a], attaches[a], wire, mailbox)
    <2>1. CASE calls[a].answer = "none" /\ attaches[a].answer = "taken"
      <3>1. calls'[a] = [calls[a] EXCEPT !.pc = "done", !.answer = "lost"]
        BY <2>1 DEF RestartCalls
      <3>2. Good(a, [calls[a] EXCEPT !.pc = "done", !.answer = "lost"],
                 attaches[a], wire, mailbox)
        BY <2>1, DoneKeeps
      <3>3. QED BY <3>1, <3>2
    <2>2. CASE ~ (calls[a].answer = "none" /\ attaches[a].answer = "taken")
      <3>1. calls'[a] = calls[a]
        BY <2>2 DEF RestartCalls
      <3>2. QED BY <3>1 DEF Graph
    <2>3. QED BY <2>1, <2>2
  <1>3. calls' = [a \in Attaches |-> calls'[a]]
    BY DEF RestartCalls
  <1>4. QED BY <1>1, <1>2, <1>3 DEF Graph

\* a call that has its file keeps it
LEMMA TakenStays ==
    ASSUME UploadsTypeOK, [Next]_vars, NEW a \in Attaches, attaches[a].answer = "taken"
    PROVE  attaches'[a] = attaches[a]
  <1>1. ASSUME NEW x \in Attaches, AttachStep(x)
        PROVE  attaches'[a] = attaches[a]
    <2>1. attaches[x].answer # "taken"
      BY <1>1 DEF AttachStep, Consume, ConsumeRefused, NoAttach
    <2>2. QED
      BY <1>1, <2>1 DEF AttachStep, Consume, ConsumeRefused, UploadsTypeOK
  <1>2. CASE ~ \E x \in Attaches : AttachStep(x)
    BY <1>2 DEF Next, vars, Tick, Cleanup, Restart, BodyStep, AcquireSlot, BodyFails,
                StageStep, StageArrives, StageReceived, PushStep, PushArrives,
                PushRefused, PushFull, PushCompletes, PrepareStep, Prepare,
                PrepareRefused
  <1>3. QED BY <1>1, <1>2

LEMMA StoreKeeps ==
    ASSUME Graph, UploadsTypeOK, [Next]_vars, UNCHANGED graphVars
    PROVE  Graph'
  <1>1. calls' = calls /\ wire' = wire /\ mailbox' = mailbox
    BY DEF graphVars
  <1>2. ASSUME NEW a \in Attaches
        PROVE  Good(a, calls[a], attaches'[a], wire, mailbox)
    <2>1. Good(a, calls[a], attaches[a], wire, mailbox)
      BY DEF Graph
    <2>2. CASE calls[a].pc # "idle"
      BY <2>1, <2>2, TakenStays DEF Good
    <2>3. CASE calls[a].pc = "idle"
      BY <2>1, <2>3, CallFacts DEF Good, CallFits, WriteFits, WritePcs, Reports
    <2>4. QED BY <2>2, <2>3
  <1>3. QED BY <1>1, <1>2 DEF Graph

-----------------------------------------------------------------------------
(* The theorems *)

LEMMA GraphInitially == GraphInit => Graph
  <1> SUFFICES ASSUME GraphInit PROVE Graph
    OBVIOUS
  <1>1. \A a \in Attaches : calls[a] \in Call /\ calls[a].pc = "idle"
                             /\ calls[a].answer = "none"
    BY GraphAssumption DEF GraphInit, Call
  <1>2. \A a \in Attaches : Good(a, calls[a], attaches[a], wire, mailbox)
    BY <1>1 DEF Good, CallFits, Reports, GraphInit
  <1>3. QED BY <1>2 DEF Graph, GraphInit

\* a step of the composition is a step of the store, or leaves it alone
LEMMA StoreImplements == [AttachmentsNext]_allVars => [Next]_vars
  BY DEF AttachmentsNext, allVars, StoreStep, Next, RestartCalls, CallStep, Begin,
         DraftFound, NotADraft, Send, Succeeds, Throttled, Fails, Refused, CarryOut, Lose

LEMMA GraphStep == Graph /\ UploadsInv /\ [AttachmentsNext]_allVars => Graph'
  <1> SUFFICES ASSUME Graph, UploadsInv, [AttachmentsNext]_allVars PROVE Graph'
    OBVIOUS
  <1>0. [Next]_vars /\ UploadsTypeOK
    BY StoreImplements DEF UploadsInv
  <1>1. CASE StoreStep \/ UNCHANGED allVars
    BY <1>0, <1>1, StoreKeeps DEF StoreStep, allVars
  <1>2. CASE RestartCalls
    BY <1>2, RestartCallsKeeps
  <1>3. ASSUME NEW a \in Attaches, CallStep(a) PROVE Graph'
    BY <1>3, BeginKeeps, DraftFoundKeeps, NotADraftKeeps, SendKeeps, SucceedsKeeps,
       ThrottledKeeps, FailsKeeps, RefusedKeeps DEF CallStep
  <1>4. ASSUME NEW w \in wire, CarryOut(w) \/ Lose(w) PROVE Graph'
    BY <1>4, CarryOutKeeps, LoseKeeps
  <1>5. QED BY <1>1, <1>2, <1>3, <1>4 DEF AttachmentsNext

LEMMA StoreInvariant == AttachmentsSpec => []UploadsInv
  BY StoreImplements, UploadsCorrect, PTL DEF AttachmentsSpec, Spec

LEMMA GraphInvariant == AttachmentsSpec => []Graph
  BY GraphInitially, GraphStep, StoreInvariant, PTL DEF AttachmentsSpec

(* Every state of the store, of the calls and of the writes on their way and  *)
(* in the mailbox is well typed, and only a call that took a file writes.     *)
THEOREM DraftsTypeCorrect == AttachmentsSpec => []DraftsTypeOK
  <1>1. UploadsInv /\ Graph => DraftsTypeOK
    BY DEF UploadsInv, Graph, Good, DraftsTypeOK
  <1>2. QED BY <1>1, StoreInvariant, GraphInvariant, PTL

\* an attaching write is the only one of its handle
LEMMA OnceFacts == UploadsInv /\ Graph => AttachedAtMostOnce
  <1>1. ASSUME UploadsInv, Graph, NEW v \in Attachments, NEW w \in Attachments,
               attaches[v.call].handle = attaches[w.call].handle
        PROVE  v = w
    <2>1. v \in mailbox /\ w \in mailbox /\ v \in Write /\ w \in Write
      BY <1>1 DEF Attachments, Graph
    <2>2. /\ v.call \in Attaches /\ v.start \in Nat /\ w.call \in Attaches /\ w.start \in Nat
      BY <2>1, WriteFacts
    <2>3. attaches[v.call].answer = "taken" /\ attaches[w.call].answer = "taken"
      BY <2>1, <2>2, <1>1 DEF Graph, Good, WriteFits, WritePcs
    <2>4. v.call = w.call
      BY <1>1, <2>2, <2>3 DEF UploadsInv, UsedOnce
    <2> DEFINE c == calls[v.call]
               size == attaches[v.call].content.size
    <2>5. /\ WriteFits(c, size, v) /\ WriteFits(c, size, w)
          /\ c.start \in Nat
      BY <1>1, <2>1, <2>2, <2>4, CallFacts DEF Graph, Good
    <2>6. size \in Nat /\ DirectLimit \in Nat /\ ChunkBytes \in Nat
      BY <1>1, <2>2, <2>3, TakenSize, GraphAssumption DEF SizeOf
    <2>7. /\ v.pc = "post" \/ (v.pc = "put" /\ v.start + ChunkBytes >= size)
          /\ w.pc = "post" \/ (w.pc = "put" /\ w.start + ChunkBytes >= size)
      BY <1>1, <2>4 DEF Attachments, SizeOf
    <2> HIDE DEF c, size
    <2>8. v.pc = w.pc /\ v.start = w.start /\ v.attempt = w.attempt
      <3>1. CASE size < DirectLimit
        BY <2>5, <2>6, <2>7, <3>1 DEF WriteFits
      <3>2. CASE size >= DirectLimit
        BY <2>2, <2>5, <2>6, <2>7, <3>2 DEF WriteFits
      <3>3. QED BY <2>6, <3>1, <3>2
    <2>9. QED BY <2>1, <2>4, <2>8, WriteFacts
  <1>2. QED BY <1>1 DEF AttachedAtMostOnce

(* The file of a handle appears in the mailbox once at most, for any number  *)
(* of calls, ranges, retries, lost and late writes and restarts              *)
(* (GraphClient.request retries a write only when Graph did not carry it out; *)
(* the handle is consumed before the first request).                         *)
THEOREM AttachedOnce == AttachmentsSpec => []AttachedAtMostOnce
  BY OnceFacts, StoreInvariant, GraphInvariant, PTL

(* The tool says attached only of a file that is in the draft to its last    *)
(* range, and invalid_or_expired or not_a_draft only if it wrote nothing.    *)
THEOREM AnswersHold == AttachmentsSpec => []AnswersAreTrue
  <1>1. ASSUME UploadsInv, Graph, NEW a \in Attaches
        PROVE  /\ calls[a].answer = "attached" =>
                     /\ \E w \in Attachments : w.call = a
                     /\ SizeOf(a) >= DirectLimit =>
                           \A s \in {n \in 0 .. SizeOf(a) - 1 : n % ChunkBytes = 0} :
                               \E w \in mailbox : w.call = a /\ w.pc = "put" /\ w.start = s
               /\ calls[a].answer = "not_draft" \/ attaches[a].answer = "refused" =>
                     \A w \in mailbox \cup wire : w.call # a
    <2>1. Good(a, calls[a], attaches[a], wire, mailbox)
      BY <1>1 DEF Graph
    <2>2. ASSUME calls[a].answer = "attached"
          PROVE  /\ \E w \in Attachments : w.call = a
                 /\ SizeOf(a) >= DirectLimit =>
                       \A s \in {n \in 0 .. SizeOf(a) - 1 : n % ChunkBytes = 0} :
                           \E w \in mailbox : w.call = a /\ w.pc = "put" /\ w.start = s
      <3>1. attaches[a].answer = "taken"
        BY <2>1, <2>2 DEF Good, CallFits
      <3>2. SizeOf(a) \in Nat
        BY <1>1, <3>1, TakenSize
      <3>3. PICK w \in mailbox : /\ w.call = a
                                 /\ \/ w.pc = "post"
                                    \/ w.pc = "put" /\ w.start + ChunkBytes >= SizeOf(a)
        BY <2>1, <2>2 DEF Good, Reports, SizeOf
      <3>4. w \in Attachments
        BY <3>3 DEF Attachments
      <3>5. SizeOf(a) >= DirectLimit => RangesUpTo(a, SizeOf(a), mailbox)
        BY <2>1, <2>2 DEF Good, Reports, SizeOf
      <3>6. QED BY <3>2, <3>3, <3>4, <3>5 DEF RangesUpTo
    <2>3. ASSUME calls[a].answer = "not_draft" \/ attaches[a].answer = "refused",
                 NEW w \in mailbox \cup wire, w.call = a
          PROVE  FALSE
      BY <2>1, <2>3 DEF Good, WriteFits, WritePcs
    <2>4. QED BY <2>2, <2>3
  <1>2. UploadsInv /\ Graph => AnswersAreTrue
    BY <1>1 DEF AnswersAreTrue
  <1>3. QED BY <1>2, StoreInvariant, GraphInvariant, PTL

(* The store keeps its promise in this composition, too: what the calls and   *)
(* Graph do never brings a used handle back.                                 *)
THEOREM DraftsImplementSingleUse == AttachmentsSpec => ImplementsSingleUse
  BY StoreImplements, UploadsImplementSingleUse, PTL DEF AttachmentsSpec, Spec

-----------------------------------------------------------------------------
(* Retrying comes down.  What a call has left to do is a number, and within   *)
(* one request its attempts go up to MaxRetries.                             *)

\* requests and bytes before the answer, for a file of this size
LeftOf(c, size) ==
    CASE c.pc = "idle" -> size + 3
      [] c.pc = "draft" -> size + 2
      [] c.pc = "open" -> size + 1
      [] c.pc = "put" -> size - c.start
      [] c.pc = "post" -> 1
      [] c.pc = "done" -> 0

Taken(a) == attaches[a].answer = "taken"

Left(a) == LeftOf(calls[a], SizeOf(a))

\* less left to do, or one attempt more of the same request
Nearer(a) ==
    \/ Left(a)' < Left(a)
    \/ /\ Left(a)' = Left(a)
       /\ calls'[a].pc = calls[a].pc /\ calls'[a].attempt > calls[a].attempt

LEMMA LeftFacts ==
    ASSUME Graph, UploadsInv, NEW a \in Attaches, Taken(a)
    PROVE  /\ Left(a) \in Nat /\ calls[a].attempt \in 0 .. MaxRetries
           /\ SizeOf(a) \in Nat
           /\ CallAt(a, "done") <=> Left(a) = 0
  <1>1. SizeOf(a) \in Nat \ {0}
    BY TakenSize DEF Taken
  <1>2. calls[a] \in Call /\ CallFits(calls[a], SizeOf(a))
    BY DEF Graph, Good, SizeOf
  <1>3. /\ calls[a].pc \in WritePcs \cup {"idle", "draft", "done"}
        /\ calls[a].attempt \in 0 .. MaxRetries /\ calls[a].start \in Nat
    BY <1>2, CallFacts
  <1>4. QED BY <1>1, <1>2, <1>3 DEF Left, LeftOf, CallFits, WritePcs, CallAt

\* and in the next state
LEMMA LaterFacts ==
    ASSUME NEW a \in Attaches
    PROVE  (Graph /\ UploadsInv /\ Taken(a))'
               => (/\ Left(a) \in Nat /\ calls[a].attempt \in 0 .. MaxRetries
                   /\ CallAt(a, "done") <=> Left(a) = 0)'
  <1>1. Graph /\ UploadsInv /\ Taken(a)
            => /\ Left(a) \in Nat /\ calls[a].attempt \in 0 .. MaxRetries
               /\ CallAt(a, "done") <=> Left(a) = 0
    BY LeftFacts
  <1>2. QED BY <1>1, PTL

LEMMA ProgressIsNearer ==
    ASSUME Graph, UploadsInv, NEW a \in Attaches, Taken(a), Progress(a)
    PROVE  Nearer(a)
  <1>1. /\ calls[a] \in Call /\ SizeOf(a) \in Nat \ {0}
        /\ calls[a].start \in Nat /\ CallFits(calls[a], SizeOf(a))
    BY TakenSize, CallFacts DEF Graph, Good, SizeOf, Taken
  <1>2. attaches' = attaches
    BY DEF Progress, Begin, DraftFound, NotADraft, Succeeds, Throttled, Fails, Refused,
           vars
  <1>3. ASSUME NEW answer, DoneWith(a, answer), ~CallAt(a, "done")
        PROVE  Nearer(a)
    <2>1. calls'[a].pc = "done"
      BY <1>1, <1>3 DEF DoneWith, Graph, Call
    <2>2. Left(a)' = 0
      BY <2>1 DEF Left, LeftOf
    <2>3. Left(a) \in Nat /\ Left(a) # 0
      BY <1>3, LeftFacts
    <2>4. QED BY <2>2, <2>3 DEF Nearer
  <1>4. ASSUME NEW pc \in WritePcs \cup {"draft"}, NEW start \in Nat,
               Proceed(a, pc, start)
        PROVE  calls'[a].pc = pc /\ calls'[a].start = start
    <2>1. calls' = [calls EXCEPT ![a] = Asking(a, pc, start)]
      BY <1>4 DEF Proceed, Asking
    <2>2. QED BY <2>1, ProceedFacts DEF Graph
  <1>5. ASSUME RetryAfter(a), calls[a].attempt < MaxRetries
        PROVE  Nearer(a)
    <2>1. /\ calls'[a].pc = calls[a].pc /\ calls'[a].start = calls[a].start
          /\ calls'[a].attempt = calls[a].attempt + 1
      BY <1>5, RetryFacts DEF Graph
    <2>2. Left(a)' = Left(a)
      BY <1>2, <2>1 DEF Left, LeftOf, SizeOf
    <2>3. calls[a].attempt \in Nat
      BY <1>1 DEF Call
    <2>4. QED BY <2>1, <2>2, <2>3 DEF Nearer
  <1>6. CASE Begin(a)
    <2>1. calls'[a].pc = "draft" /\ calls[a].pc = "idle"
      BY <1>4, <1>6 DEF Begin, CallAt
    <2>2. QED BY <1>1, <1>2, <2>1 DEF Nearer, Left, LeftOf, SizeOf
  <1>7. CASE DraftFound(a)
    <2>1. calls'[a].pc \in {"post", "open"} /\ calls[a].pc = "draft"
      BY <1>4, <1>7 DEF DraftFound, CallAt, WritePcs
    <2>2. QED BY <1>1, <1>2, <2>1 DEF Nearer, Left, LeftOf, SizeOf
  <1>8. CASE NotADraft(a)
    BY <1>3, <1>8 DEF NotADraft, CallAt
  <1>9. CASE Succeeds(a)
    <2>1. CASE \E answer : DoneWith(a, answer)
      BY <1>3, <1>9, <2>1 DEF Succeeds, CallAt, WritePcs
    <2>2. CASE CallAt(a, "open") /\ Proceed(a, "put", 0)
      <3>1. calls'[a].pc = "put" /\ calls'[a].start = 0 /\ calls[a].pc = "open"
        BY <1>4, <2>2 DEF CallAt, WritePcs
      <3>2. QED BY <1>1, <1>2, <3>1 DEF Nearer, Left, LeftOf, SizeOf
    <2>3. CASE CallAt(a, "put") /\ Proceed(a, "put", calls[a].start + ChunkBytes)
      <3>1. ChunkBytes \in Nat \ {0} /\ calls[a].start + ChunkBytes \in Nat
        BY <1>1, GraphAssumption
      <3>2. /\ calls'[a].pc = "put" /\ calls[a].pc = "put"
            /\ calls'[a].start = calls[a].start + ChunkBytes
        BY <1>4, <2>3, <3>1 DEF CallAt, WritePcs
      <3>3. QED BY <1>1, <1>2, <3>1, <3>2 DEF Nearer, Left, LeftOf, SizeOf
    <2>4. QED BY <1>9, <2>1, <2>2, <2>3 DEF Succeeds, CallAt, WritePcs
  <1>10. CASE Throttled(a)
    BY <1>3, <1>5, <1>10 DEF Throttled, MayRetry, CallAt, WritePcs
  <1>11. CASE Fails(a)
    BY <1>3, <1>5, <1>11 DEF Fails, MayRetry, CallAt, WritePcs
  <1>12. CASE Refused(a)
    BY <1>3, <1>12 DEF Refused, CallAt, WritePcs
  <1>13. QED
    BY <1>6, <1>7, <1>8, <1>9, <1>10, <1>11, <1>12 DEF Progress

\* whoever else moves, the process that restarts included
LEMMA CallNeverRecedes ==
    ASSUME Graph, UploadsInv, NEW a \in Attaches, Taken(a), [AttachmentsNext]_allVars
    PROVE  /\ Taken(a)'
           /\ \/ Left(a)' = Left(a) /\ calls'[a] = calls[a]
              \/ Nearer(a)
              \/ CallAt(a, "done")' /\ calls'[a].attempt = calls[a].attempt
  <1>0. attaches'[a] = attaches[a]
    BY StoreImplements, TakenStays DEF UploadsInv, Taken
  <1>1. Taken(a)' /\ SizeOf(a)' = SizeOf(a)
    BY <1>0 DEF Taken, SizeOf
  <1>2. calls'[a] = calls[a] => Left(a)' = Left(a)
    BY <1>1 DEF Left
  <1>3. ASSUME NEW x \in Attaches, CallStep(x), x # a PROVE calls'[a] = calls[a]
    BY <1>3 DEF CallStep, Begin, DraftFound, NotADraft, Send, Succeeds, Throttled,
                Fails, Refused, Proceed, DoneWith, RetryAfter, Graph
  <1>4. CallStep(a) => Progress(a) \/ calls' = calls
    BY DEF CallStep, Progress, Send
  <1>5. ASSUME RestartCalls
        PROVE  \/ calls'[a] = calls[a]
               \/ CallAt(a, "done")' /\ calls'[a].attempt = calls[a].attempt
    <2>1. calls[a] \in Call
      BY DEF Graph, Good
    <2>2. calls'[a] = IF calls[a].answer = "none" /\ attaches[a].answer = "taken"
                      THEN [calls[a] EXCEPT !.pc = "done", !.answer = "lost"]
                      ELSE calls[a]
      BY <1>5 DEF RestartCalls
    <2>3. QED BY <2>1, <2>2 DEF CallAt, Call
  <1>6. ASSUME StoreStep \/ (\E w \in wire : CarryOut(w) \/ Lose(w)) \/ UNCHANGED allVars
        PROVE  calls'[a] = calls[a]
    BY <1>6 DEF StoreStep, CarryOut, Lose, allVars, graphVars
  <1>7. QED
    BY <1>1, <1>2, <1>3, <1>4, <1>5, <1>6, ProgressIsNearer DEF AttachmentsNext

CallProgresses(a) ==
    []<>(~(Taken(a) /\ ~CallAt(a, "done"))) \/ []<><<Progress(a)>>_allVars

LEMMA FairCall ==
    ASSUME NEW a \in Attaches
    PROVE  FairAttachments /\ []NeverStuck => CallProgresses(a)
  <1>1. NeverStuck => CanStep(a)
    BY DEF NeverStuck
  <1>2. FairAttachments => IsAnswered(a)
    BY DEF FairAttachments
  <1>3. IsAnswered(a) /\ []CanStep(a) => CallProgresses(a)
    BY PTL DEF IsAnswered, CanStep, CallProgresses, Taken
  <1>4. QED BY <1>1, <1>2, <1>3, PTL

\* what is left is n and the attempt k; then it is less, or the next attempt
Stands(a, n, k) == Taken(a) /\ Left(a) = n /\ calls[a].attempt = k

Advances(a, n, k) ==
    Stands(a, n, k)
        ~> Taken(a) /\ (Left(a) < n \/ (Left(a) = n /\ calls[a].attempt > k))

(* A call that has its file never goes back: no step of anybody, a restart of *)
(* the process included, adds to what it has left or to its attempts left.    *)
NeverRecedes ==
    [][\A a \in Attaches : Taken(a) =>
          /\ Taken(a)'
          /\ Left(a)' <= Left(a)
          /\ Left(a)' = Left(a) => calls'[a].attempt >= calls[a].attempt]_allVars

THEOREM CallsNeverRecede == AttachmentsSpec => NeverRecedes
  <1>1. ASSUME Graph, UploadsInv, Graph', UploadsInv', [AttachmentsNext]_allVars,
               NEW a \in Attaches, Taken(a)
        PROVE  /\ Taken(a)'
               /\ Left(a)' <= Left(a)
               /\ Left(a)' = Left(a) => calls'[a].attempt >= calls[a].attempt
    <2>1. Taken(a)'
      BY <1>1, CallNeverRecedes
    <2>2. /\ Left(a) \in Nat /\ calls[a].attempt \in 0 .. MaxRetries
          /\ Left(a)' \in Nat /\ calls'[a].attempt \in 0 .. MaxRetries
          /\ CallAt(a, "done")' => Left(a)' = 0
      BY <1>1, <2>1, LeftFacts, LaterFacts
    <2>3. MaxRetries \in Nat
      BY GraphAssumption
    <2>4. QED BY <1>1, <2>1, <2>2, <2>3, CallNeverRecedes DEF Nearer
  <1>2. Graph /\ UploadsInv /\ Graph' /\ UploadsInv' /\ [AttachmentsNext]_allVars
          => \A a \in Attaches : Taken(a) =>
                /\ Taken(a)'
                /\ Left(a)' <= Left(a)
                /\ Left(a)' = Left(a) => calls'[a].attempt >= calls[a].attempt
    BY <1>1
  <1>3. QED
    BY <1>2, StoreInvariant, GraphInvariant, PTL DEF AttachmentsSpec, NeverRecedes

(* It comes down: with any attempt of any request, at any size of file, it     *)
(* gets nearer to its answer in the end.  There are MaxRetries + 1 attempts    *)
(* of a request and finitely many requests, so this is what CallsEnd rests on. *)
THEOREM RetriesComeDown ==
    ASSUME NEW a \in Attaches, NEW n \in Nat \ {0}, NEW k \in Nat
    PROVE  FairAttachments /\ []NeverStuck => Advances(a, n, k)
  <1> DEFINE there == Taken(a) /\ (Left(a) < n \/ (Left(a) = n /\ calls[a].attempt > k))
  <1>1. Graph /\ UploadsInv /\ Stands(a, n, k) => Taken(a) /\ ~CallAt(a, "done")
    BY LeftFacts DEF Stands
  <1>2. ASSUME Graph, UploadsInv, Graph', UploadsInv', Stands(a, n, k),
               [AttachmentsNext]_allVars
        PROVE  Stands(a, n, k)' \/ there'
    <2>1. Taken(a) /\ Taken(a)'
      BY <1>2, CallNeverRecedes DEF Stands
    <2>2. /\ Left(a)' \in Nat /\ calls'[a].attempt \in 0 .. MaxRetries
          /\ CallAt(a, "done")' => Left(a)' = 0
      BY <1>2, <2>1, LaterFacts
    <2>3. QED BY <1>2, <2>1, <2>2, CallNeverRecedes DEF Stands, Nearer
  <1>3. ASSUME Graph, UploadsInv, Stands(a, n, k), <<Progress(a)>>_allVars
        PROVE  there'
    <2>1. Taken(a) /\ CallStep(a)
      BY <1>3 DEF Stands, Progress, CallStep
    <2>2. Taken(a)' /\ Nearer(a)
      BY <1>3, <2>1, ProgressIsNearer, CallNeverRecedes DEF AttachmentsNext
    <2>3. QED BY <1>3, <2>2 DEF Stands, Nearer
  <1>4. FairAttachments => AttachmentsSpec
    BY DEF FairAttachments
  <1> HIDE DEF there
  <1>5. FairAttachments /\ []NeverStuck => (Stands(a, n, k) ~> there)
    BY <1>1, <1>2, <1>3, <1>4, FairCall, StoreInvariant, GraphInvariant, PTL
       DEF AttachmentsSpec, CallProgresses
  <1>6. QED BY <1>5 DEF Advances, there

-----------------------------------------------------------------------------
(* The whole of it delivers a file once: the refinement of OneDelivery.      *)

CopySet(h) == {w \in Attachments : attaches[w.call].handle = h}

ViewFixed == CopiesOf' = CopiesOf /\ Takers' = Takers /\ Told' = Told

\* a writing call has its file
LEMMA WritersHoldFiles ==
    ASSUME Graph, NEW w \in mailbox
    PROVE  /\ w \in Write /\ w.call \in Attaches
           /\ attaches[w.call].answer = "taken"
           /\ calls[w.call].pc \in WritePcs \cup {"done"}
           /\ calls[w.call].answer # "not_draft"
  <1>1. w \in Write /\ w.call \in Attaches
    BY WriteFacts DEF Graph
  <1>2. QED BY <1>1 DEF Graph, Good, WriteFits, WritePcs

LEMMA HolderFacts ==
    ASSUME UploadsInv, NEW a \in Attaches, attaches[a].answer = "taken"
    PROVE  /\ attaches[a].handle \in Handles
           /\ Takers[attaches[a].handle] = {a}
           /\ \A w \in Attachments : w.call \in Attaches /\ w.call # a
                  /\ attaches[w.call].answer = "taken"
                      => attaches[w.call].handle # attaches[a].handle
  <1>1. attaches[a].handle \in Handles
    BY DEF UploadsInv, HandlesAge
  <1>2. \A b \in Attaches :
            attaches[b].answer = "taken" /\ attaches[b].handle = attaches[a].handle => b = a
    BY DEF UploadsInv, UsedOnce
  <1>3. QED BY <1>1, <1>2 DEF Takers

LEMMA OnceLater == UploadsInv' /\ Graph' => AttachedAtMostOnce'
  BY OnceFacts, PTL

\* a step that writes nothing to a mailbox changes no copy
LEMMA CopiesStay ==
    ASSUME Graph, UploadsTypeOK, [Next]_vars, mailbox' = mailbox
    PROVE  CopiesOf' = CopiesOf
  <1>1. \A w \in mailbox : attaches'[w.call] = attaches[w.call]
    BY TakenStays, WritersHoldFiles
  <1>2. Attachments' = Attachments
    BY <1>1 DEF Attachments, SizeOf
  <1>3. \A h \in Handles : CopySet(h)' = CopySet(h)
    BY <1>1, <1>2 DEF CopySet, Attachments
  <1>4. QED BY <1>3 DEF CopiesOf, CopySet

\* a file nobody has written has no copy, a written one has
LEMMA NoCopy ==
    ASSUME NEW h \in Handles, CopySet(h) = {}
    PROVE  CopiesOf[h] = 0
  BY FS_EmptySet DEF CopiesOf, CopySet

LEMMA OneCopy ==
    ASSUME NEW h \in Handles, NEW w, CopySet(h) = {w}
    PROVE  CopiesOf[h] = 1
  BY FS_Singleton DEF CopiesOf, CopySet

LEMMA StoreGives ==
    ASSUME Graph, UploadsInv, [Next]_vars, UNCHANGED graphVars
    PROVE  ViewFixed \/ Delivery!Next
  <1>1. CopiesOf' = CopiesOf
    BY CopiesStay DEF UploadsInv, graphVars
  <1>2. Told' = Told
    BY DEF Told, graphVars
  <1>3. CASE \A a \in Attaches : attaches'[a].answer = "taken" => attaches[a].answer = "taken"
    <2>1. \A a \in Attaches :
              attaches'[a].answer = "taken" \/ attaches[a].answer = "taken"
                  => attaches'[a] = attaches[a]
      BY <1>3, TakenStays DEF UploadsInv
    <2>2. Takers' = Takers
      BY <2>1 DEF Takers
    <2>3. QED BY <1>1, <1>2, <2>2 DEF ViewFixed
  <1>4. ASSUME NEW a \in Attaches, attaches'[a].answer = "taken",
               attaches[a].answer # "taken"
        PROVE  Delivery!Next
    <2>1. PICK owner \in Owners, draft \in Drafts, h \in Handles :
              Consume(a, owner, draft, h)
      <3>1. attaches' # attaches
        BY <1>4
      <3>2. PICK x \in Attaches : AttachStep(x)
        BY <3>1 DEF Next, vars, Tick, Cleanup, Restart, BodyStep, AcquireSlot, BodyFails,
                StageStep, StageArrives, StageReceived, PushStep, PushArrives,
                PushRefused, PushFull, PushCompletes, PrepareStep, Prepare,
                PrepareRefused
      <3>3. PICK owner \in Owners, draft \in Drafts, h \in Handles :
                Consume(x, owner, draft, h) \/ ConsumeRefused(x, owner, draft, h)
        BY <3>2 DEF AttachStep
      <3>4. x = a
        BY <1>4, <3>3 DEF Consume, ConsumeRefused, UploadsInv, UploadsTypeOK
      <3>5. ~ ConsumeRefused(a, owner, draft, h)
        BY <1>4 DEF ConsumeRefused, AttachOf, UploadsInv, UploadsTypeOK
      <3>6. QED BY <3>3, <3>4, <3>5
    <2> DEFINE q == AttachOf(owner, draft, h, entries[h].content, "taken")
    <2>2. q.answer = "taken" /\ q.handle = h
      BY DEF AttachOf
    <2>3. /\ attaches' = [attaches EXCEPT ![a] = q] /\ attaches[a] = NoAttach
          /\ entries[h] # None
      BY <2>1 DEF Consume, Matches, Kept, Unexpired
    <2> HIDE DEF q
    <2>4. /\ attaches'[a] = q /\ attaches[a].answer = "none"
          /\ \A x \in Attaches \ {a} : attaches'[x] = attaches[x]
      BY <2>3 DEF UploadsInv, UploadsTypeOK, NoAttach
    <2>5. Takers[h] = {}
      BY <2>3 DEF Takers, UploadsInv, HandlesAge
    <2>6. Takers' = [Takers EXCEPT ![h] = {a}]
      <3>1. \A x \in Handles :
                {b \in Attaches : attaches'[b].answer = "taken" /\ attaches'[b].handle = x}
                  = IF x = h THEN {a}
                    ELSE {b \in Attaches : attaches[b].answer = "taken"
                                              /\ attaches[b].handle = x}
        BY <2>2, <2>4, <2>5 DEF Takers
      <3>2. QED BY <3>1 DEF Takers
    <2>7. ~ Delivery!HasAFile(a)
      BY <2>4 DEF Delivery!HasAFile, Takers
    <2>8. Delivery!Give(h, a)
      BY <1>1, <1>2, <2>5, <2>6, <2>7 DEF Delivery!Give
    <2>9. QED BY <2>8 DEF Delivery!Next
  <1>5. QED BY <1>3, <1>4

LEMMA RestartCrashes ==
    ASSUME Graph, UploadsInv, RestartCalls
    PROVE  Delivery!Next
  <1>1. attaches' = attaches /\ mailbox' = mailbox /\ [Next]_vars
    BY DEF RestartCalls, Restart, Next
  <1>2. CopiesOf' = CopiesOf /\ Takers' = Takers
    BY <1>1, CopiesStay DEF UploadsInv, Takers
  <1>3. ASSUME NEW a \in Attaches
        PROVE  Delivery!HasAFile(a) <=> attaches[a].answer = "taken"
    BY HolderFacts DEF Delivery!HasAFile, Takers
  <1>4. ASSUME NEW a \in Attaches
        PROVE  calls'[a].answer = IF calls[a].answer = "none" /\ Delivery!HasAFile(a)
                                  THEN "lost" ELSE calls[a].answer
    <2>1. calls[a] \in Call
      BY DEF Graph, Good
    <2>2. calls'[a] = IF calls[a].answer = "none" /\ attaches[a].answer = "taken"
                      THEN [calls[a] EXCEPT !.pc = "done", !.answer = "lost"]
                      ELSE calls[a]
      BY DEF RestartCalls
    <2>3. QED BY <1>3, <2>1, <2>2 DEF Call
  <1>5. Told' = [a \in Attaches |-> IF Told[a] = "none" /\ Delivery!HasAFile(a)
                                    THEN "lost" ELSE Told[a]]
    BY <1>4 DEF Told
  <1>6. QED BY <1>2, <1>5 DEF Delivery!Next, Delivery!Crash

\* a call that is told what it may be told
LEMMA DoneTells ==
    ASSUME Graph, UploadsInv, NEW a \in Attaches, calls[a].pc \in WritePcs \cup {"draft"},
           NEW answer \in {"attached", "not_draft", "error"}, DoneWith(a, answer),
           CopiesOf' = CopiesOf, attaches' = attaches,
           answer = "attached" => \E w \in Attachments : w.call = a,
           answer = "not_draft" => calls[a].pc = "draft"
    PROVE  Delivery!Next
  <1> DEFINE h == attaches[a].handle
  <1>1. /\ calls[a] \in Call /\ attaches[a].answer = "taken" /\ calls[a].answer = "none"
    BY CallFacts DEF Graph, Good, CallFits, WritePcs
  <1>2. h \in Handles /\ Takers[h] = {a}
    BY <1>1, HolderFacts
  <1>3. Takers' = Takers
    BY DEF Takers
  <1>4. Told' = [Told EXCEPT ![a] = answer]
    <2>1. calls'[a].answer = answer /\ \A x \in Attaches \ {a} : calls'[x] = calls[x]
      BY <1>1 DEF DoneWith, Graph, Call
    <2>2. QED BY <2>1 DEF Told
  <1>5. \A w \in CopySet(h) : w.call = a /\ w \in mailbox
    BY <1>1, HolderFacts, WritersHoldFiles DEF CopySet, Attachments
  <1>6. answer = "not_draft" => CopiesOf[h] = 0
    <2>1. answer = "not_draft" => CopySet(h) = {}
      BY <1>5, WritersHoldFiles DEF WritePcs
    <2>2. QED BY <1>2, <2>1, NoCopy
  <1>7. answer = "attached" => CopiesOf[h] > 0
    <2> SUFFICES ASSUME answer = "attached" PROVE CopiesOf[h] > 0
      OBVIOUS
    <2>1. PICK w \in Attachments : w.call = a
      OBVIOUS
    <2>2. w \in CopySet(h) /\ \A v \in CopySet(h) : v = w
      BY <2>1, OnceFacts DEF CopySet, AttachedAtMostOnce
    <2>3. CopySet(h) = {w}
      BY <2>2
    <2>4. QED BY <1>2, <2>3, OneCopy
  <1>8. Told[a] = "none"
    BY <1>1 DEF Told
  <1> HIDE DEF h
  <1>9. Delivery!Tell(h, a, answer)
    BY <1>2, <1>3, <1>4, <1>6, <1>7, <1>8 DEF Delivery!Tell
  <1>10. QED BY <1>2, <1>9 DEF Delivery!Next

LEMMA CallTells ==
    ASSUME Graph, UploadsInv, NEW a \in Attaches, CallStep(a)
    PROVE  ViewFixed \/ Delivery!Next
  <1>1. attaches' = attaches /\ mailbox' = mailbox /\ [Next]_vars
    BY DEF CallStep, Begin, DraftFound, NotADraft, Send, Succeeds, Throttled, Fails,
           Refused, vars
  <1>2. CopiesOf' = CopiesOf /\ Takers' = Takers
    BY <1>1, CopiesStay DEF UploadsInv, Takers
  <1>3. \A x \in Attaches : calls[x] \in Call
    BY DEF Graph, Good
  <1>4. ASSUME \/ RetryAfter(a) \/ UNCHANGED calls
               \/ \E pc, start : Proceed(a, pc, start)
        PROVE  ViewFixed
    <2>1. \A x \in Attaches : calls'[x].answer = calls[x].answer
      BY <1>3, <1>4 DEF RetryAfter, Proceed, Graph, Call
    <2>2. QED BY <1>2, <2>1 DEF Told, ViewFixed
  <1>5. CASE Begin(a) \/ DraftFound(a) \/ Send(a)
    BY <1>4, <1>5 DEF Begin, DraftFound, Send
  <1>6. CASE NotADraft(a)
    BY <1>1, <1>2, <1>6, DoneTells DEF NotADraft, CallAt
  <1>7. CASE Throttled(a) \/ Fails(a) \/ Refused(a)
    BY <1>1, <1>2, <1>4, <1>7, DoneTells DEF Throttled, Fails, Refused
  <1>8. CASE Succeeds(a)
    <2>1. CASE /\ CallAt(a, "post") \/ (CallAt(a, "put") /\ LastRange(a))
               /\ DoneWith(a, "attached")
      <3>1. WriteOf(a) \in Attachments /\ WriteOf(a).call = a
        BY <1>8, <2>1, CurrentWrite DEF Attachments, Succeeds, CallAt, LastRange, SizeOf
      <3>2. QED BY <1>1, <1>2, <1>8, <2>1, <3>1, DoneTells DEF Succeeds
    <2>2. QED BY <1>4, <1>8, <2>1 DEF Succeeds
  <1>9. QED BY <1>5, <1>6, <1>7, <1>8 DEF CallStep

LEMMA CarryOutAppears ==
    ASSUME Graph, UploadsInv, Graph', UploadsInv', NEW w \in wire, CarryOut(w)
    PROVE  ViewFixed \/ Delivery!Next
  <1>1. /\ mailbox' = mailbox \cup {w} /\ w \in Write /\ w.call \in Attaches
        /\ attaches' = attaches /\ calls' = calls
    BY WriteFacts DEF CarryOut, Graph, vars
  <1>2. /\ attaches[w.call].answer = "taken" /\ calls[w.call].answer # "not_draft"
        /\ w \notin mailbox
    BY <1>1 DEF Graph, Good, WriteFits, WritePcs
  <1>3. Takers' = Takers /\ Told' = Told
    BY <1>1 DEF Takers, Told
  <1> DEFINE h == attaches[w.call].handle
  <1>4. h \in Handles /\ Takers[h] = {w.call}
    BY <1>1, <1>2, HolderFacts
  <1>5. CASE w \notin Attachments'
    <2>1. Attachments' = Attachments
      BY <1>1, <1>5 DEF Attachments, SizeOf
    <2>2. QED BY <1>1, <1>3, <2>1 DEF CopiesOf, ViewFixed
  <1>6. CASE w \in Attachments'
    <2>1. Attachments' = Attachments \cup {w} /\ w \notin Attachments
      BY <1>1, <1>2, <1>6 DEF Attachments, SizeOf
    <2>2. AttachedAtMostOnce'
      BY OnceLater
    <2>3. CopySet(h) = {}
      BY <1>1, <2>1, <2>2 DEF CopySet, AttachedAtMostOnce
    <2>4. \A x \in Handles : CopySet(x)' = IF x = h THEN {w} ELSE CopySet(x)
      BY <1>1, <2>1, <2>3 DEF CopySet
    <2>5. CopiesOf' = [CopiesOf EXCEPT ![h] = 1]
      <3>1. Cardinality({w}) = 1
        BY FS_Singleton
      <3>2. CopiesOf' = [x \in Handles |-> Cardinality(CopySet(x)')]
        BY DEF CopiesOf, CopySet
      <3>3. CopiesOf = [x \in Handles |-> Cardinality(CopySet(x))]
        BY DEF CopiesOf, CopySet
      <3>4. QED BY <1>4, <2>4, <3>1, <3>2, <3>3
    <2>6. CopiesOf[h] = 0
      BY <1>4, <2>3, NoCopy
    <2>7. Told[w.call] # "not_draft"
      BY <1>1, <1>2 DEF Told
    <2> HIDE DEF h
    <2>8. Delivery!Appear(h)
      BY <1>3, <1>4, <2>5, <2>6, <2>7 DEF Delivery!Appear
    <2>9. QED BY <1>4, <2>8 DEF Delivery!Next
  <1>7. QED BY <1>5, <1>6

(* Attaching, with its stores, its retries, its late and lost writes and its  *)
(* restarts, is delivery at most once: one copy of a file, and one truthful    *)
(* answer to the call that has it.                                           *)
THEOREM AttachingDeliversOnce == AttachmentsSpec => DeliversOnce
  <1>1. Init /\ GraphInit => Delivery!Init
    <2> SUFFICES ASSUME Init, GraphInit PROVE Delivery!Init
      OBVIOUS
    <2>1. Takers = [h \in Handles |-> {}]
      BY DEF Init, Takers, NoAttach
    <2>2. Told = [a \in Attaches |-> "none"]
      BY DEF GraphInit, Told
    <2>3. \A h \in Handles : CopySet(h) = {}
      BY DEF GraphInit, CopySet, Attachments
    <2>4. CopiesOf = [h \in Handles |-> 0]
      BY <2>3, NoCopy DEF CopiesOf
    <2>5. QED BY <2>1, <2>2, <2>4 DEF Delivery!Init
  <1>2. Graph /\ UploadsInv /\ Graph' /\ UploadsInv' /\ [AttachmentsNext]_allVars
            => [Delivery!Next]_(Delivery!vars)
    <2> SUFFICES ASSUME Graph, UploadsInv, Graph', UploadsInv', [AttachmentsNext]_allVars
                 PROVE  ViewFixed \/ Delivery!Next
      BY DEF ViewFixed, Delivery!vars
    <2>0. [Next]_vars
      BY StoreImplements
    <2>1. CASE StoreStep \/ UNCHANGED allVars
      BY <2>0, <2>1, StoreGives DEF StoreStep, allVars
    <2>2. CASE \E w \in wire : Lose(w)
      BY <2>0, <2>2, CopiesStay DEF Lose, ViewFixed, Takers, Told, vars, UploadsInv
    <2>3. QED
      BY <2>1, <2>2, RestartCrashes, CallTells, CarryOutAppears DEF AttachmentsNext
  <1>3. QED
    BY <1>1, <1>2, StoreInvariant, GraphInvariant, PTL
       DEF AttachmentsSpec, DeliversOnce, Delivery!Spec
=============================================================================
