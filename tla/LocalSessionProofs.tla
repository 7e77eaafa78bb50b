------------------------- MODULE LocalSessionProofs -------------------------
(***************************************************************************)
(* Proofs about LocalSession, for any number of processes and states: the     *)
(* invariant is inductive, so whoever was not disturbed knows the file; a     *)
(* spent refresh token is left in the file only for a cause; and a request is *)
(* carried out once at most.                                                 *)
(***************************************************************************)
EXTENDS LocalSession, TLAPS

(* What the file is to the processes, and what a call has done so far.        *)
Records == TypeOK /\ OneWriter /\ FileIsKnown /\ CarriedOutOnce

(* What Records says of the record r of one process p, when the state file    *)
(* is f, w has it open for writing and the states in k are kept without it.   *)
Good(p, r, f, w, k) ==
    /\ r \in Process
    /\ r.pc = "write" <=> w = p
    /\ r.pc = "write" => p \notin Ephemeral
    /\ r.pc \in {"save", "write"} => r.memory # NoToken
    /\ p \notin Ephemeral /\ r.pc = "signin" => r.memory = NoToken
    /\ p \notin Ephemeral /\ r.undisturbed =>
          /\ f \in TokenStates
          /\ r.memory # NoToken /\ r.pc # "save" => f = r.memory \/ r.memory \in k
    /\ r.effects <= 1
    /\ r.answer = "ok" => r.effects = 1
    /\ r.pc \in {"token", "refresh", "signin", "save", "write", "graph"} =>
           r.effects = 0

AllGood ==
    /\ processes \in [Processes -> Process]
    /\ \A p \in Processes : Good(p, processes[p], file, writer, kept)

(* ... and of the file they share.                                           *)
Shared ==
    /\ tokens \in 0 .. MaxTokens
    /\ origin \in [TokenStates -> TokenStates \cup {NoToken}]
    /\ dropped \subseteq TokenStates
    /\ kept \subseteq TokenStates
    /\ expired \subseteq 1 .. tokens
    /\ file \in TokenStates \cup {Absent, Torn}
    /\ writer \in Processes \cup {None}
    /\ cut \in BOOLEAN
    /\ writer # None => file = Torn
    /\ file = Torn => cut \/ writer # None

LEMMA InvOfParts ==
    ASSUME Shared, AllGood
    PROVE  Records
BY DEF Records, TypeOK, OneWriter, FileIsKnown, CarriedOutOnce, At, Good,
       Shared, AllGood

LEMMA InvAgain ==
    ASSUME Shared', AllGood'
    PROVE  Records'
BY DEF Records, TypeOK, OneWriter, FileIsKnown, CarriedOutOnce, At, Good,
       Shared, AllGood

LEMMA PartsOfInv ==
    ASSUME Records
    PROVE  Shared /\ AllGood
<1>1. processes \in [Processes -> Process] /\ Shared
    BY DEF Records, TypeOK, OneWriter, Shared
<1>2. ASSUME NEW p \in Processes
      PROVE  Good(p, processes[p], file, writer, kept)
  <2>1. processes[p] \in Process
      BY <1>1
  <2> QED  BY <2>1 DEF Records, OneWriter, FileIsKnown, CarriedOutOnce, At, Good
<1> QED  BY <1>1, <1>2 DEF AllGood

(* A step of one process is judged by its new record, and by what the step   *)
(* does to the file under the records of the others.                         *)
LEMMA BecomeKeeps ==
    ASSUME AllGood, NEW p \in Processes, NEW r,
           Become(p, r), Good(p, r, file', writer', kept'),
           \A q \in Processes \ {p} : Good(q, processes[q], file', writer', kept')
    PROVE  AllGood'
<1>1. r \in Process
    BY DEF Good
<1>2. /\ processes' \in [Processes -> Process]
      /\ processes'[p] = r
      /\ \A q \in Processes \ {p} : processes'[q] = processes[q]
    BY <1>1 DEF Become, AllGood
<1>3. ASSUME NEW q \in Processes
      PROVE  Good(q, processes'[q], file', writer', kept')
    BY <1>2
<1> QED  BY <1>2, <1>3 DEF AllGood, Good

(* Most steps leave the file alone.                                          *)
LEMMA PrivateStep ==
    ASSUME Records, NEW p \in Processes, NEW r,
           Become(p, r), Good(p, r, file, writer, kept'),
           UNCHANGED disk, kept \subseteq kept', Shared'
    PROVE  Records'
<1>1. AllGood
    BY PartsOfInv
<1>2. ASSUME NEW q \in Processes
      PROVE  Good(q, processes[q], file', writer', kept')
  <2>1. Good(q, processes[q], file, writer, kept)
      BY <1>1 DEF AllGood
  <2> QED  BY <2>1 DEF Good, disk
<1>3. Good(p, r, file', writer', kept')
    BY DEF disk
<1>4. AllGood'
    BY <1>1, <1>2, <1>3, BecomeKeeps
<1> QED  BY <1>4, InvAgain

(* ... and everything else that is shared.                                    *)
LEMMA QuietStep ==
    ASSUME Records, NEW p \in Processes, NEW r,
           Become(p, r), Good(p, r, file, writer, kept),
           UNCHANGED <<entra, disk, fates>>
    PROVE  Records'
<1>1. Shared
    BY PartsOfInv
<1>2. Shared' /\ UNCHANGED <<disk, kept>>
    BY <1>1 DEF Shared, entra, disk, fates
<1>3. Good(p, r, file, writer, kept')
    BY <1>2
<1> QED  BY <1>2, <1>3, PrivateStep

-----------------------------------------------------------------------------
(* The steps that leave the file alone.                                      *)
LEMMA OffFacts ==
    /\ Off \in Process
    /\ Off.command = "off" /\ Off.pc = "off" /\ Off.memory = NoToken
    /\ Off.state = NoToken
    /\ Off.effects = 0 /\ Off.answer = "none" /\ Off.undisturbed = FALSE
BY DEF Off, Process

LEMMA Attempts == 0 \in 0 .. 1 /\ 1 \in 0 .. 1
OBVIOUS

LEMMA FileStates == Absent # Torn /\ Torn \notin TokenStates
BY DEF Absent, Torn, TokenStates

LEMMA OffIsGood ==
    ASSUME NEW p, NEW f, NEW w, NEW k, w # p
    PROVE  Good(p, Off, f, w, k)
BY OffFacts DEF Good

LEMMA Here ==
    ASSUME Records, NEW p \in Processes
    PROVE  Shared /\ processes[p] \in Process /\ Good(p, processes[p], file, writer, kept)
BY PartsOfInv DEF AllGood

LEMMA AnswerFacts ==
    ASSUME NEW p, processes[p] \in Process, NEW answer \in {"none", "ok", "error"}
    PROVE  /\ Answer(p, answer) \in Process
           /\ Answer(p, answer).pc = "ready"
           /\ Answer(p, answer).answer = answer
           /\ Answer(p, answer).state = NoToken
           /\ Answer(p, answer).memory = processes[p].memory
           /\ Answer(p, answer).effects = processes[p].effects
           /\ Answer(p, answer).undisturbed = processes[p].undisturbed
BY Attempts DEF Answer, Process

(* A tool call that fails leaves the server with what it knew.               *)
LEMMA ErrorIsGood ==
    ASSUME Records, NEW p \in Processes,
           processes[p].pc \in {"token", "refresh", "signin", "graph"}
    PROVE  Good(p, Answer(p, "error"), file, writer, kept)
<1>1. processes[p] \in Process
    BY Here
<1> QED  BY <1>1, Here, AnswerFacts DEF Good

LEMMA FailedIsGood ==
    ASSUME Records, NEW p \in Processes,
           processes[p].pc \in {"token", "refresh", "signin", "graph"}
    PROVE  Good(p, Failed(p), file, writer, kept)
<1>1. CASE processes[p].command = "login"
  <2>1. writer # p
      BY Here DEF Good
  <2> QED  BY <1>1, <2>1, OffIsGood DEF Failed
<1>2. CASE processes[p].command # "login"
    BY <1>2, ErrorIsGood DEF Failed
<1> QED  BY <1>1, <1>2

(* A state that could not be saved is dropped, or the process ends.          *)
LEMMA NotSavedIsGood ==
    ASSUME Records, NEW p \in Processes, processes[p].pc \in {"save", "write"}
    PROVE  \A w \in {writer, None} : w # p => Good(p, NotSaved(p), file, w, kept)
<1> SUFFICES ASSUME NEW w \in {writer, None}, w # p
             PROVE  Good(p, NotSaved(p), file, w, kept)
    OBVIOUS
<1> DEFINE r == [processes[p] EXCEPT !.pc = "signin", !.memory = NoToken]
<1>1. CASE processes[p].fresh = "refresh"
  <2>1. /\ r \in Process /\ r.pc = "signin" /\ r.memory = NoToken
        /\ r.effects = processes[p].effects /\ r.answer = processes[p].answer
        /\ r.undisturbed = processes[p].undisturbed
      BY Here DEF Process
  <2>2. NotSaved(p) = r
      BY <1>1 DEF NotSaved
  <2> HIDE DEF r
  <2> QED  BY <2>1, <2>2, Here DEF Good
<1>2. CASE processes[p].fresh # "refresh"
    BY <1>2, OffIsGood DEF NotSaved
<1> QED  BY <1>1, <1>2

LEMMA StartKeeps ==
    ASSUME Records, NEW p \in Processes, Start(p)
    PROVE  Records'
<1> DEFINE New(command, pc) == [Off EXCEPT !.command = command, !.pc = pc]
<1>1. PICK command \in {"stdio", "login", "logout"} :
        Become(p, New(command, CASE command = "stdio" -> "ready"
                                 [] command = "login" -> "signin"
                                 [] command = "logout" -> "delete"))
    BY DEF Start
<1>2. PICK pc \in {"ready", "signin", "delete"} : Become(p, New(command, pc))
    BY <1>1
<1> DEFINE r == New(command, pc)
<1>3. Good(p, r, file, writer, kept)
  <2>1. writer # p
      BY Here DEF Good, Start, At
  <2>2. /\ r \in Process /\ r.pc = pc /\ r.memory = NoToken /\ r.effects = 0
        /\ r.answer = "none" /\ r.undisturbed = FALSE
      BY OffFacts DEF Process
  <2> HIDE DEF r
  <2> QED  BY <2>1, <2>2 DEF Good
<1> QED  BY <1>2, <1>3, QuietStep DEF Start

LEMMA CallKeeps ==
    ASSUME Records, NEW p \in Processes, Call(p)
    PROVE  Records'
<1> DEFINE q == [processes[p] EXCEPT !.pc = "token", !.attempt = 0]
           r == [q EXCEPT !.effects = 0, !.answer = "none"]
<1>1. /\ r \in Process /\ r.pc = "token" /\ r.effects = 0 /\ r.answer = "none"
      /\ r.memory = processes[p].memory
      /\ r.undisturbed = processes[p].undisturbed
  <2>1. /\ q \in Process /\ q.pc = "token"
        /\ q.memory = processes[p].memory
        /\ q.undisturbed = processes[p].undisturbed
      BY Here, Attempts DEF Process
  <2> HIDE DEF q
  <2> QED  BY <2>1 DEF Process
<1>2. Become(p, r)
    BY DEF Call
<1> HIDE DEF r
<1>3. Good(p, r, file, writer, kept)
    BY <1>1, Here DEF Good, Call, At
<1> QED  BY <1>2, <1>3, QuietStep DEF Call

LEMMA RefreshRefusedKeeps ==
    ASSUME Records, NEW p \in Processes, RefreshRefused(p)
    PROVE  Records'
<1> DEFINE r == [processes[p] EXCEPT !.pc = "signin", !.memory = NoToken,
                                     !.state = NoToken, !.invalid = FALSE]
<1>1. /\ r \in Process /\ r.pc = "signin" /\ r.memory = NoToken
      /\ r.effects = processes[p].effects /\ r.answer = processes[p].answer
      /\ r.undisturbed = processes[p].undisturbed
    BY Here DEF Process
<1>2. Become(p, r)
    BY DEF RefreshRefused
<1> HIDE DEF r
<1>3. Good(p, r, file, writer, kept)
    BY <1>1, Here DEF Good, RefreshRefused, At
<1> QED  BY <1>2, <1>3, QuietStep DEF RefreshRefused

LEMMA RefreshLostKeeps ==
    ASSUME Records, NEW p \in Processes, RefreshLost(p)
    PROVE  Records'
<1>1. Good(p, Failed(p), file, writer, kept)
    BY FailedIsGood DEF RefreshLost, At
<1> QED  BY <1>1, QuietStep DEF RefreshLost

LEMMA SignInFailsKeeps ==
    ASSUME Records, NEW p \in Processes, SignInFails(p)
    PROVE  Records'
<1>1. Good(p, Failed(p), file, writer, kept)
    BY FailedIsGood DEF SignInFails, At
<1> QED  BY <1>1, QuietStep DEF SignInFails

LEMMA BrowserGoneKeeps ==
    ASSUME Records, NEW p \in Processes, BrowserGone(p)
    PROVE  Records'
<1>1. Good(p, Off, file, writer, kept)
  <2>1. writer # p
      BY Here DEF Good, BrowserGone, At
  <2> QED  BY <2>1, OffIsGood
<1> QED  BY <1>1, QuietStep DEF BrowserGone

LEMMA SaveSkippedKeeps ==
    ASSUME Records, NEW p \in Processes, SaveSkipped(p)
    PROVE  Records'
<1> DEFINE r == [processes[p] EXCEPT !.pc = "graph", !.fresh = "refresh"]
<1>1. Good(p, Authorized(p, processes[p]), file, writer, kept)
  <2>1. CASE processes[p].command = "login"
    <3>1. writer # p
        BY Here DEF Good, SaveSkipped, At
    <3> QED  BY <2>1, <3>1, OffIsGood DEF Authorized
  <2>2. CASE processes[p].command # "login"
    <3>1. /\ r \in Process /\ r.pc = "graph" /\ r.memory = processes[p].memory
          /\ r.effects = processes[p].effects /\ r.answer = processes[p].answer
          /\ r.undisturbed = processes[p].undisturbed
        BY Here DEF Process
    <3>2. Authorized(p, processes[p]) = r
        BY <2>2 DEF Authorized
    <3> HIDE DEF r
    <3> QED  BY <3>1, <3>2, Here DEF Good, SaveSkipped, At
  <2> QED  BY <2>1, <2>2
<1> QED  BY <1>1, QuietStep DEF SaveSkipped

LEMMA DropsOne ==
    ASSUME Records, NEW p \in Processes, processes[p].pc \in {"save", "write"},
           Drop(p), UNCHANGED <<entra, disk, kept>>
    PROVE  Shared'
<1>1. processes[p].memory \in TokenStates
    BY Here DEF Good, Process
<1> QED  BY <1>1, Here DEF Shared, Drop, entra, disk

LEMMA SaveRefusedKeeps ==
    ASSUME Records, NEW p \in Processes, SaveRefused(p)
    PROVE  Records'
<1>1. Good(p, NotSaved(p), file, writer, kept')
  <2>1. kept' = kept /\ processes[p].pc = "save"
      BY DEF SaveRefused, At
  <2>2. writer # p
      BY <2>1, Here DEF Good
  <2> QED  BY <2>1, <2>2, NotSavedIsGood
<1>2. Shared'
    BY DropsOne DEF SaveRefused, At
<1> QED  BY <1>1, <1>2, PrivateStep DEF SaveRefused

(* The call that could not save is answered; what it had in memory stays.    *)
LEMMA FolderMissingKeeps ==
    ASSUME Records, NEW p \in Processes, FolderMissing(p)
    PROVE  Records'
<1>1. /\ processes[p].pc = "save" /\ processes[p] \in Process
      /\ processes[p].memory \in TokenStates /\ writer # p
    BY Here DEF FolderMissing, At, Good, Process
<1>2. CASE processes[p].fresh = "refresh"
  <2>1. /\ Become(p, Answer(p, "error")) /\ kept' = kept \cup {processes[p].memory}
        /\ UNCHANGED <<entra, disk, dropped>>
      BY <1>2 DEF FolderMissing
  <2>2. Good(p, Answer(p, "error"), file, writer, kept')
      BY <1>1, <2>1, Here, AnswerFacts DEF Good
  <2>3. Shared'
      BY <1>1, <2>1, Here DEF Shared, entra, disk
  <2> QED  BY <2>1, <2>2, <2>3, PrivateStep
<1>3. CASE processes[p].fresh # "refresh"
  <2>1. Become(p, Off) /\ Drop(p) /\ UNCHANGED <<entra, disk, kept>>
      BY <1>3 DEF FolderMissing
  <2>2. Good(p, Off, file, writer, kept')
      BY <1>1, OffIsGood
  <2>3. Shared'
      BY <1>1, <2>1, DropsOne
  <2> QED  BY <2>1, <2>2, <2>3, PrivateStep
<1> QED  BY <1>2, <1>3

LEMMA SucceededKeeps ==
    ASSUME Records, NEW p \in Processes, Succeeded(p)
    PROVE  Records'
<1> DEFINE r == [Answer(p, "ok") EXCEPT !.effects = @ + 1]
<1>1. /\ r \in Process /\ r.pc = "ready" /\ r.answer = "ok"
      /\ r.memory = processes[p].memory
      /\ r.effects = processes[p].effects + 1
      /\ r.undisturbed = processes[p].undisturbed
    BY Here, AnswerFacts DEF Process
<1>2. Become(p, r)
    BY DEF Succeeded
<1> HIDE DEF r
<1>3. Good(p, r, file, writer, kept)
    BY <1>1, Here DEF Good, Succeeded, At
<1> QED  BY <1>2, <1>3, QuietStep DEF Succeeded

LEMMA IssueKeeps ==
    ASSUME Records, NEW p \in Processes, NEW fresh \in {"refresh", "signin"},
           processes[p].pc \in {"refresh", "signin"}, Issue(p, fresh)
    PROVE  Records'
<1> DEFINE q == [processes[p] EXCEPT !.pc = "save", !.memory = tokens + 1]
           r == [q EXCEPT !.state = NoToken, !.invalid = FALSE, !.fresh = fresh]
<1>1. tokens + 1 \in TokenStates /\ tokens' = tokens + 1 /\ tokens' <= MaxTokens
    BY Here, LocalAssumption DEF Shared, Issue, TokenStates
<1>2. /\ r \in Process /\ r.pc = "save" /\ r.memory = tokens + 1
      /\ r.effects = processes[p].effects /\ r.answer = processes[p].answer
      /\ r.undisturbed = processes[p].undisturbed
  <2>1. /\ q \in Process /\ q.pc = "save" /\ q.memory = tokens + 1
        /\ q.effects = processes[p].effects /\ q.answer = processes[p].answer
        /\ q.undisturbed = processes[p].undisturbed
      BY <1>1, Here DEF Process
  <2> HIDE DEF q
  <2> QED  BY <2>1 DEF Process
<1>3. Become(p, r)
    BY DEF Issue
<1> HIDE DEF r
<1>4. Good(p, r, file, writer, kept')
  <2>1. kept' = kept /\ tokens + 1 # NoToken
      BY <1>1 DEF Issue, fates, TokenStates, NoToken
  <2> QED  BY <1>2, <2>1, Here DEF Good
<1>5. Shared'
  <2>1. origin' \in [TokenStates -> TokenStates \cup {NoToken}]
      BY Here DEF Shared, Issue, Process
  <2>2. tokens' \in 0 .. MaxTokens /\ expired' \subseteq 1 .. tokens'
      BY <1>1, Here, LocalAssumption DEF Shared, Issue
  <2> QED  BY <2>1, <2>2, Here DEF Shared, Issue, disk, fates
<1> QED  BY <1>3, <1>4, <1>5, PrivateStep DEF Issue, fates

LEMMA UnauthorizedKeeps ==
    ASSUME Records, NEW p \in Processes, Unauthorized(p)
    PROVE  Records'
<1> DEFINE r == [processes[p] EXCEPT !.pc = "token", !.attempt = 1, !.invalid = TRUE]
<1>1. /\ r \in Process /\ r.pc = "token" /\ r.memory = processes[p].memory
      /\ r.effects = processes[p].effects /\ r.answer = processes[p].answer
      /\ r.undisturbed = processes[p].undisturbed
    BY Here, Attempts DEF Process
<1>2. Become(p, r) \/ Become(p, Answer(p, "error"))
    BY DEF Unauthorized
<1> HIDE DEF r
<1>3. Good(p, r, file, writer, kept) /\ Good(p, Answer(p, "error"), file, writer, kept)
    BY <1>1, Here, ErrorIsGood DEF Good, Unauthorized, At
<1> QED  BY <1>2, <1>3, QuietStep DEF Unauthorized

LEMMA UnansweredKeeps ==
    ASSUME Records, NEW p \in Processes, Unanswered(p)
    PROVE  Records'
<1>1. PICK carried \in {0, 1} :
        Become(p, [Answer(p, "error") EXCEPT !.effects = @ + carried])
    BY DEF Unanswered
<1> DEFINE r == [Answer(p, "error") EXCEPT !.effects = @ + carried]
<1>2. /\ r \in Process /\ r.pc = "ready" /\ r.answer = "error"
      /\ r.memory = processes[p].memory
      /\ r.effects = processes[p].effects + carried
      /\ r.undisturbed = processes[p].undisturbed
    BY Here, AnswerFacts DEF Process
<1> HIDE DEF r
<1>3. Good(p, r, file, writer, kept)
    BY <1>2, Here DEF Good, Unanswered, At
<1>5. Become(p, r)
    BY <1>1 DEF r
<1> QED  BY <1>3, <1>5, QuietStep DEF Unanswered

LEMMA StateRead ==
    ASSUME Records, NEW p \in Processes, ~Unreadable(p), State(p) # NoToken
    PROVE  /\ State(p) \in TokenStates
           /\ processes[p].memory # NoToken => State(p) = processes[p].memory
           /\ processes[p].memory = NoToken =>
                  State(p) = file /\ writer = None /\ p \notin Ephemeral
BY Here DEF State, Unreadable, Shared, Process, Absent, NoToken, Torn

(* A state read from the file is read whole: nobody is writing it.           *)
LEMMA GetTokenKeeps ==
    ASSUME Records, NEW p \in Processes, GetToken(p)
    PROVE  Records'
<1> DEFINE s == [processes[p] EXCEPT !.pc = "signin"]
           u == processes[p].undisturbed \/ processes[p].memory = NoToken
           v == [processes[p] EXCEPT !.pc = "refresh", !.state = State(p)]
           t == [v EXCEPT !.undisturbed = u]
           q == [processes[p] EXCEPT !.pc = "graph", !.memory = State(p)]
           r == [q EXCEPT !.invalid = FALSE, !.undisturbed = u]
<1>1. processes[p].pc = "token" /\ processes[p] \in Process
    BY Here DEF GetToken, At
<1>2. Good(p, Answer(p, "error"), file, writer, kept)
    BY <1>1, ErrorIsGood
<1>3. ASSUME ~Unreadable(p), State(p) # NoToken
      PROVE  Good(p, t, file, writer, kept)
  <2>1. State(p) \in TokenStates /\ (processes[p].memory = NoToken => State(p) = file)
      BY <1>1, <1>3, StateRead
  <2>2. u \in BOOLEAN
      BY <1>1 DEF Process
  <2> HIDE DEF u
  <2>3. /\ v \in Process /\ v.pc = "refresh" /\ v.memory = processes[p].memory
        /\ v.effects = processes[p].effects /\ v.answer = processes[p].answer
      BY <1>1, <2>1 DEF Process
  <2> HIDE DEF v
  <2>4. /\ t \in Process /\ t.pc = "refresh" /\ t.memory = processes[p].memory
        /\ t.effects = processes[p].effects /\ t.answer = processes[p].answer
        /\ t.undisturbed = u
      BY <2>2, <2>3 DEF Process
  <2> HIDE DEF t
  <2> QED  BY <1>1, <2>1, <2>4, Here DEF Good, u
<1>4. State(p) = NoToken => Good(p, s, file, writer, kept)
  <2>1. /\ s \in Process /\ s.pc = "signin" /\ s.memory = processes[p].memory
        /\ s.effects = processes[p].effects /\ s.answer = processes[p].answer
        /\ s.undisturbed = processes[p].undisturbed
      BY <1>1 DEF Process
  <2>2. State(p) = NoToken => processes[p].memory = NoToken
      BY DEF State
  <2> HIDE DEF s
  <2> QED  BY <1>1, <2>1, <2>2, Here DEF Good
<1>5. ASSUME ~Unreadable(p), State(p) # NoToken
      PROVE  Good(p, r, file, writer, kept)
  <2>1. /\ State(p) \in TokenStates
        /\ processes[p].memory # NoToken => State(p) = processes[p].memory
        /\ processes[p].memory = NoToken => State(p) = file
      BY <1>1, <1>5, StateRead
  <2>2. u \in BOOLEAN
      BY <1>1 DEF Process
  <2> HIDE DEF u
  <2>3. /\ q \in Process /\ q.pc = "graph" /\ q.memory = State(p)
        /\ q.effects = processes[p].effects /\ q.answer = processes[p].answer
      BY <1>1, <2>1 DEF Process
  <2> HIDE DEF q
  <2>4. /\ r \in Process /\ r.pc = "graph" /\ r.memory = State(p)
        /\ r.effects = processes[p].effects /\ r.answer = processes[p].answer
        /\ r.undisturbed = u
      BY <2>2, <2>3 DEF Process
  <2> HIDE DEF r
  <2> QED  BY <1>1, <2>1, <2>4, Here DEF Good, u
<1>6. \/ Become(p, Answer(p, "error"))
      \/ ~Unreadable(p) /\ State(p) # NoToken /\ Become(p, t)
      \/ State(p) = NoToken /\ Become(p, s)
      \/ ~Unreadable(p) /\ State(p) # NoToken /\ Become(p, r)
    BY DEF GetToken
<1> HIDE DEF r, s, t
<1> QED  BY <1>2, <1>3, <1>4, <1>5, <1>6, QuietStep DEF GetToken

LEMMA LoadFailsKeeps ==
    ASSUME Records, NEW p \in Processes, LoadFails(p)
    PROVE  Records'
<1> DEFINE s == [processes[p] EXCEPT !.pc = "signin"]
<1>1. Good(p, Answer(p, "error"), file, writer, kept)
    BY ErrorIsGood DEF LoadFails, At
<1>2. /\ s \in Process /\ s.pc = "signin" /\ s.memory = NoToken
      /\ s.effects = processes[p].effects /\ s.answer = processes[p].answer
      /\ s.undisturbed = processes[p].undisturbed
    BY Here DEF Process, LoadFails
<1>3. Become(p, s) \/ Become(p, Answer(p, "error"))
    BY DEF LoadFails
<1> HIDE DEF s
<1>4. Good(p, s, file, writer, kept)
    BY <1>2, Here DEF Good, LoadFails, At
<1> QED  BY <1>1, <1>3, <1>4, QuietStep DEF LoadFails

-----------------------------------------------------------------------------
(* The steps that write to the file.  Only its writer, and a process that    *)
(* finds nobody writing, touches it.                                         *)
LEMMA FileStep ==
    ASSUME Records, NEW p \in Processes, NEW r, Become(p, r),
           Good(p, r, file', writer', kept'),
           \A q \in Processes \ {p} : Good(q, processes[q], file', writer', kept'),
           Shared'
    PROVE  Records'
<1>1. AllGood
    BY PartsOfInv
<1>2. AllGood'
    BY <1>1, BecomeKeeps
<1> QED  BY <1>2, InvAgain

LEMMA DisturbingStep ==
    ASSUME Records, NEW p \in Processes, NEW r, Disturbing(p, r),
           writer = None, writer' \in {p, None},
           kept \subseteq kept',
           Good(p, r, file', writer', kept'), Shared'
    PROVE  Records'
<1> DEFINE d(q) == [processes[q] EXCEPT !.undisturbed = FALSE]
<1>1. r \in Process
    BY DEF Good
<1>2. ASSUME NEW q \in Processes, q # p
      PROVE  d(q) \in Process /\ Good(q, d(q), file', writer', kept')
  <2>1. /\ d(q) \in Process /\ d(q).pc = processes[q].pc
        /\ d(q).memory = processes[q].memory /\ d(q).effects = processes[q].effects
        /\ d(q).answer = processes[q].answer /\ d(q).undisturbed = FALSE
      BY Here DEF Process
  <2>2. writer' # q /\ writer # q
      BY <1>2, LocalAssumption
  <2> HIDE DEF d
  <2> QED  BY <2>1, <2>2, Here DEF Good
<1>3. processes' \in [Processes -> Process]
    BY <1>1, <1>2 DEF Disturbing
<1>4. ASSUME NEW q \in Processes
      PROVE  Good(q, processes'[q], file', writer', kept')
  <2>1. CASE q = p
      BY <2>1 DEF Disturbing
  <2>2. CASE q # p
    <3>1. processes'[q] = d(q)
        BY <2>2 DEF Disturbing
    <3> QED  BY <1>2, <2>2, <3>1
  <2> QED  BY <2>1, <2>2
<1>5. AllGood'
    BY <1>3, <1>4 DEF AllGood, Good
<1> QED  BY <1>5, InvAgain

LEMMA CrashKeeps ==
    ASSUME Records, NEW p \in Processes, Crash(p)
    PROVE  Records'
<1>1. writer' \in {writer, None} /\ writer' # p /\ UNCHANGED <<file, kept>>
    BY LocalAssumption DEF Crash
<1>2. Good(p, Off, file', writer', kept')
    BY <1>1, OffIsGood
<1>3. ASSUME NEW q \in Processes, q # p
      PROVE  Good(q, processes[q], file', writer', kept')
  <2>1. writer' = q <=> writer = q
      BY <1>3, LocalAssumption DEF Crash
  <2> QED  BY <1>1, <2>1, Here DEF Good
<1>4. Shared'
  <2>1. dropped' \subseteq TokenStates
    <3>1. CASE processes[p].pc \in {"save", "write"}
      <4>1. processes[p].memory \in TokenStates
          BY <3>1, Here DEF Good, Process
      <4> QED  BY <3>1, <4>1, Here DEF Crash, Shared
    <3>2. CASE processes[p].pc \notin {"save", "write"}
        BY <3>2, Here DEF Crash, Shared
    <3> QED  BY <3>1, <3>2
  <2> QED  BY <2>1, Here, LocalAssumption DEF Crash, Shared, entra
<1> QED  BY <1>2, <1>3, <1>4, FileStep DEF Crash

LEMMA SaveOpensKeeps ==
    ASSUME Records, NEW p \in Processes, SaveOpens(p)
    PROVE  Records'
<1> DEFINE r == [processes[p] EXCEPT !.pc = "write", !.undisturbed = FALSE]
<1>1. /\ r \in Process /\ r.pc = "write" /\ r.memory = processes[p].memory
      /\ r.effects = processes[p].effects /\ r.answer = processes[p].answer
      /\ r.undisturbed = FALSE
    BY Here DEF Process
<1>2. Disturbing(p, r)
    BY DEF SaveOpens
<1> HIDE DEF r
<1>3. Good(p, r, file', writer', kept')
    BY <1>1, Here DEF Good, SaveOpens, At
<1>4. Shared'
    BY Here, LocalAssumption DEF Shared, SaveOpens, entra, fates
<1> QED  BY <1>2, <1>3, <1>4, DisturbingStep DEF SaveOpens, fates

LEMMA WrittenKeeps ==
    ASSUME Records, NEW p \in Processes, Written(p)
    PROVE  Records'
<1> DEFINE q == [processes[p] EXCEPT !.undisturbed = TRUE]
           r == [q EXCEPT !.pc = "graph", !.fresh = "refresh"]
<1>1. /\ writer = p /\ writer' = None /\ p # None /\ file' = processes[p].memory
      /\ file' \in TokenStates
    BY Here, LocalAssumption DEF Good, Process, Written, At
<1>2. q \in Process /\ q.memory = processes[p].memory
      /\ q.command = processes[p].command
      /\ q.effects = processes[p].effects /\ q.answer = processes[p].answer
    BY Here DEF Process
<1>3. Good(p, Authorized(p, q), file', writer', kept')
  <2>1. CASE processes[p].command = "login"
      BY <1>1, <1>2, <2>1, OffIsGood DEF Authorized
  <2>2. CASE processes[p].command # "login"
    <3>1. Authorized(p, q) = r
        BY <1>2, <2>2 DEF Authorized
    <3> HIDE DEF q
    <3>2. /\ r \in Process /\ r.pc = "graph" /\ r.memory = processes[p].memory
          /\ r.effects = processes[p].effects /\ r.answer = processes[p].answer
        BY <1>2 DEF Process
    <3> HIDE DEF r
    <3> QED  BY <1>1, <3>1, <3>2, Here DEF Good, Written, At
  <2> QED  BY <2>1, <2>2
<1>4. ASSUME NEW o \in Processes, o # p
      PROVE  Good(o, processes[o], file', writer', kept')
  <2>1. kept' = kept /\ file = Torn /\ writer # o /\ writer' # o
      BY <1>1, <1>4, Here, LocalAssumption DEF Written, fates, Shared
  <2>2. Good(o, processes[o], file, writer, kept) /\ file \notin TokenStates
      BY <2>1, Here, FileStates
  <2> QED  BY <2>1, <2>2 DEF Good
<1>5. Shared'
    BY <1>1, Here, FileStates DEF Shared, Written, entra, fates
<1>6. Become(p, Authorized(p, q))
    BY DEF Written
<1> QED  BY <1>3, <1>4, <1>5, <1>6, FileStep

LEMMA WriteFailsKeeps ==
    ASSUME Records, NEW p \in Processes, WriteFails(p)
    PROVE  Records'
<1>1. writer = p /\ writer' = None /\ p # None /\ file' = file
    BY Here, LocalAssumption DEF Good, WriteFails, At
<1>2. Good(p, NotSaved(p), file', writer', kept')
  <2>1. kept' = kept /\ processes[p].pc = "write"
      BY DEF WriteFails, At
  <2> QED  BY <1>1, <2>1, NotSavedIsGood
<1>3. ASSUME NEW q \in Processes, q # p
      PROVE  Good(q, processes[q], file', writer', kept')
  <2>1. kept' = kept /\ writer # q /\ writer' # q
      BY <1>1, <1>3, LocalAssumption DEF WriteFails
  <2> QED  BY <1>1, <2>1, Here DEF Good
<1>4. Shared'
  <2>1. processes[p].memory \in TokenStates
      BY Here DEF Good, Process, WriteFails, At
  <2> QED  BY <1>1, <2>1, Here DEF Shared, WriteFails, Drop, entra
<1> QED  BY <1>2, <1>3, <1>4, FileStep DEF WriteFails

LEMMA SignOutKeeps ==
    ASSUME Records, NEW p \in Processes, SignOut(p)
    PROVE  Records'
<1>1. writer # p
    BY Here DEF Good, SignOut, At
<1>2. CASE /\ p \notin Ephemeral /\ writer = None /\ file' = Absent
           /\ cut' = FALSE /\ Disturbing(p, Off)
  <2>1. UNCHANGED <<entra, writer, fates>>
      BY DEF SignOut
  <2>2. Good(p, Off, file', writer', kept')
      BY <1>1, <2>1, OffIsGood
  <2>3. Shared'
      BY <1>2, <2>1, Here, FileStates DEF Shared, entra, fates
  <2> QED  BY <1>2, <2>1, <2>2, <2>3, DisturbingStep DEF fates
<1>3. CASE UNCHANGED <<file, cut>> /\ Become(p, Off)
  <2>1. UNCHANGED <<entra, disk, fates>>
      BY <1>3 DEF SignOut, disk
  <2>2. Good(p, Off, file, writer, kept)
      BY <1>1, OffIsGood
  <2> QED  BY <1>3, <2>1, <2>2, QuietStep
<1> QED  BY <1>2, <1>3 DEF SignOut

LEMMA ExpireKeeps ==
    ASSUME Records, Expire
    PROVE  Records'
<1>1. Shared /\ AllGood
    BY PartsOfInv
<1>2. Shared'
    BY <1>1 DEF Shared, Expire, disk, fates
<1>3. AllGood'
    BY <1>1 DEF AllGood, Good, Expire, disk, fates
<1> QED  BY <1>2, <1>3, InvAgain

-----------------------------------------------------------------------------
LEMMA InitRecords == Init => Records
<1> SUFFICES ASSUME Init PROVE Records
    OBVIOUS
<1>1. Shared
  <2>1. tokens \in 0 .. MaxTokens
      BY LocalAssumption DEF Init
  <2>2. file # Torn /\ file \in TokenStates \cup {Absent, Torn}
      BY FileStates DEF Init
  <2>3. expired \subseteq 1 .. tokens /\ dropped = {} /\ kept = {}
      BY DEF Init
  <2>4. origin \in [TokenStates -> TokenStates \cup {NoToken}]
      BY DEF Init
  <2> QED  BY <2>1, <2>2, <2>3, <2>4 DEF Init, Shared
<1>2. AllGood
  <2>1. ASSUME NEW p \in Processes
        PROVE  Good(p, Off, file, writer, kept)
      BY LocalAssumption, OffIsGood DEF Init
  <2> QED  BY <2>1, OffFacts DEF AllGood, Init
<1> QED  BY <1>1, <1>2, InvOfParts

LEMMA NextRecords == Records /\ [Next]_vars => Records'
<1> SUFFICES ASSUME Records, [Next]_vars PROVE Records'
    OBVIOUS
<1>1. ASSUME NEW p \in Processes,
             Start(p) \/ Crash(p) \/ Call(p) \/ GetToken(p) \/ LoadFails(p)
      PROVE  Records'
    BY <1>1, StartKeeps, CrashKeeps, CallKeeps, GetTokenKeeps, LoadFailsKeeps
<1>2. ASSUME NEW p \in Processes,
             Refreshed(p) \/ RefreshRefused(p) \/ RefreshLost(p)
      PROVE  Records'
    BY <1>2, IssueKeeps, RefreshRefusedKeeps, RefreshLostKeeps DEF Refreshed, At
<1>3. ASSUME NEW p \in Processes,
             SignedIn(p) \/ SignInFails(p) \/ BrowserGone(p)
      PROVE  Records'
    BY <1>3, IssueKeeps, SignInFailsKeeps, BrowserGoneKeeps DEF SignedIn, At
<1>4. ASSUME NEW p \in Processes,
             \/ SaveSkipped(p) \/ SaveOpens(p) \/ SaveRefused(p)
             \/ FolderMissing(p) \/ Written(p) \/ WriteFails(p)
      PROVE  Records'
    BY <1>4, SaveSkippedKeeps, SaveOpensKeeps, SaveRefusedKeeps,
       FolderMissingKeeps, WrittenKeeps, WriteFailsKeeps
<1>5. ASSUME NEW p \in Processes,
             Succeeded(p) \/ Unauthorized(p) \/ Unanswered(p) \/ SignOut(p)
      PROVE  Records'
    BY <1>5, SucceededKeeps, UnauthorizedKeeps, UnansweredKeeps, SignOutKeeps
<1>6. CASE UNCHANGED vars
    BY <1>6 DEF vars, entra, disk, fates, Records, TypeOK, OneWriter, FileIsKnown,
                CarriedOutOnce, At
<1> QED  BY <1>1, <1>2, <1>3, <1>4, <1>5, <1>6, ExpireKeeps DEF Next

-----------------------------------------------------------------------------
(* Who knows which state.  Seen from there a step is one of three: a process *)
(* learns nothing but what is in the file, a state is issued to it, or it    *)
(* writes the state it was saving.                                           *)
Owned == StatesAreIssued /\ NewStatesAreOwn /\ EphemeralApart

Saving(process) == process.pc \in {"save", "write"}

OthersStay(p) ==
    \A q \in Processes \ {p} : /\ processes'[q].pc = processes[q].pc
                               /\ processes'[q].memory = processes[q].memory
                               /\ processes'[q].state = processes[q].state

(* The record r of p holds what p knew, and it gives up no save in silence.  *)
KnowsNoMore(p, r) ==
    /\ \/ r.memory \in {processes[p].memory, NoToken}
       \/ p \notin Ephemeral /\ r.memory = file
    /\ \/ r.state \in {processes[p].state, processes[p].memory, NoToken}
       \/ p \notin Ephemeral /\ r.state = file
    /\ Saving(r) => /\ Saving(processes[p])
                    /\ r.memory = processes[p].memory
                    /\ r.state = processes[p].state
    /\ At(p, "save") /\ p \notin Ephemeral /\ file' \in TokenStates =>
          r.pc = "save" \/ processes[p].memory \in dropped' \cup kept'

Learns(p) ==
    /\ OthersStay(p)
    /\ KnowsNoMore(p, processes'[p])
    /\ UNCHANGED <<tokens, origin>>
    /\ file' \in {file, Absent, Torn}
    /\ dropped \subseteq dropped' /\ kept \subseteq kept'

Issues(p) ==
    /\ OthersStay(p)
    /\ ~Saving(processes[p])
    /\ tokens' = tokens + 1 /\ tokens + 1 \in TokenStates
    /\ origin' = [origin EXCEPT ![tokens + 1] = processes[p].state]
    /\ processes'[p].pc = "save"
    /\ processes'[p].memory = tokens + 1
    /\ processes'[p].state = NoToken
    /\ UNCHANGED <<file, dropped, kept>>

Writes(p) ==
    /\ OthersStay(p)
    /\ Saving(processes[p]) /\ p \notin Ephemeral
    /\ file' = processes[p].memory
    /\ processes'[p].memory \in {processes[p].memory, NoToken}
    /\ processes'[p].state \in {processes[p].state, NoToken}
    /\ ~Saving(processes'[p])
    /\ UNCHANGED <<tokens, origin>>

LEMMA NewRecord ==
    ASSUME Records, NEW p \in Processes, NEW r, Become(p, r) \/ Disturbing(p, r)
    PROVE  processes'[p] = r /\ OthersStay(p)
<1>1. processes \in [Processes -> Process]
    BY DEF Records, TypeOK
<1>2. CASE Become(p, r)
    BY <1>1, <1>2 DEF Become, OthersStay
<1>3. CASE Disturbing(p, r)
  <2>1. ASSUME NEW q \in Processes, q # p
        PROVE  /\ processes'[q].pc = processes[q].pc
               /\ processes'[q].memory = processes[q].memory
               /\ processes'[q].state = processes[q].state
    <3>1. processes[q] \in Process
        BY <1>1
    <3>2. processes'[q] = [processes[q] EXCEPT !.undisturbed = FALSE]
        BY <1>3, <2>1 DEF Disturbing
    <3> QED  BY <3>1, <3>2 DEF Process
  <2> QED  BY <1>3, <2>1 DEF Disturbing, OthersStay
<1> QED  BY <1>2, <1>3

LEMMA LearnsBy ==
    ASSUME Records, NEW p \in Processes, NEW r, Become(p, r) \/ Disturbing(p, r),
           KnowsNoMore(p, r), UNCHANGED entra, file' \in {file, Absent, Torn},
           dropped \subseteq dropped', kept \subseteq kept'
    PROVE  Learns(p)
BY NewRecord DEF Learns, entra

LEMMA LearnsQuietly ==
    ASSUME Records, NEW p \in Processes, NEW r, Become(p, r),
           KnowsNoMore(p, r), UNCHANGED <<entra, disk, fates>>
    PROVE  Learns(p)
<1>1. UNCHANGED <<entra, file, dropped, kept>>
    BY DEF disk, fates
<1> QED  BY <1>1, LearnsBy

(* A process that is not saving and ends, or answers, knows no more.         *)
LEMMA EndsKnowing ==
    ASSUME Records, NEW p \in Processes, ~At(p, "save")
    PROVE  /\ KnowsNoMore(p, Off)
           /\ KnowsNoMore(p, Answer(p, "error"))
           /\ KnowsNoMore(p, Failed(p))
<1>1. processes[p] \in Process
    BY Here
<1>2. KnowsNoMore(p, Off)
    BY OffFacts DEF KnowsNoMore, Saving
<1>3. KnowsNoMore(p, Answer(p, "error"))
    BY <1>1, AnswerFacts DEF KnowsNoMore, Saving
<1> QED  BY <1>2, <1>3 DEF Failed

-----------------------------------------------------------------------------
LEMMA CallsLearn ==
    ASSUME Records, NEW p \in Processes,
           \/ Start(p) \/ Call(p) \/ RefreshRefused(p) \/ RefreshLost(p)
           \/ SignInFails(p) \/ BrowserGone(p)
    PROVE  Learns(p)
<1>0. processes[p] \in Process
    BY Here
<1>1. CASE Start(p)
  <2>1. PICK command, pc :
          /\ pc \in {"ready", "signin", "delete"}
          /\ Become(p, [Off EXCEPT !.command = command, !.pc = pc])
    <3>1. \E command \in {"stdio", "login", "logout"} :
             Become(p, [Off EXCEPT !.command = command,
                           !.pc = CASE command = "stdio" -> "ready"
                                    [] command = "login" -> "signin"
                                    [] command = "logout" -> "delete"])
        BY <1>1 DEF Start
    <3> QED  BY <3>1
  <2> DEFINE r == [Off EXCEPT !.command = command, !.pc = pc]
  <2>2. r.pc = pc /\ r.memory = NoToken /\ r.state = NoToken
      BY OffFacts DEF Process
  <2>3. Become(p, r)
      BY <2>1
  <2> HIDE DEF r
  <2>4. KnowsNoMore(p, r)
      BY <1>1, <2>1, <2>2 DEF KnowsNoMore, Saving, Start, At
  <2> QED  BY <1>1, <2>3, <2>4, LearnsQuietly DEF Start
<1>2. CASE Call(p)
  <2> DEFINE r == [processes[p] EXCEPT !.pc = "token", !.attempt = 0,
                                       !.effects = 0, !.answer = "none"]
  <2>1. /\ r.pc = "token" /\ r.memory = processes[p].memory
        /\ r.state = processes[p].state
      BY <1>0 DEF Process
  <2>2. Become(p, r)
      BY <1>2 DEF Call
  <2> HIDE DEF r
  <2>3. KnowsNoMore(p, r)
      BY <1>2, <2>1 DEF KnowsNoMore, Saving, Call, At
  <2> QED  BY <1>2, <2>2, <2>3, LearnsQuietly DEF Call
<1>3. CASE RefreshRefused(p)
  <2> DEFINE r == [processes[p] EXCEPT !.pc = "signin", !.memory = NoToken,
                                       !.state = NoToken, !.invalid = FALSE]
  <2>1. r.pc = "signin" /\ r.memory = NoToken /\ r.state = NoToken
      BY <1>0 DEF Process
  <2>2. Become(p, r)
      BY <1>3 DEF RefreshRefused
  <2> HIDE DEF r
  <2>3. KnowsNoMore(p, r)
      BY <1>3, <2>1 DEF KnowsNoMore, Saving, RefreshRefused, At
  <2> QED  BY <1>3, <2>2, <2>3, LearnsQuietly DEF RefreshRefused
<1>4. CASE RefreshLost(p)
    BY <1>4, EndsKnowing, LearnsQuietly DEF RefreshLost, At
<1>5. CASE SignInFails(p)
    BY <1>5, EndsKnowing, LearnsQuietly DEF SignInFails, At
<1>6. CASE BrowserGone(p)
    BY <1>6, EndsKnowing, LearnsQuietly DEF BrowserGone, At
<1> QED  BY <1>1, <1>2, <1>3, <1>4, <1>5, <1>6

LEMMA ReadsLearn ==
    ASSUME Records, NEW p \in Processes, GetToken(p) \/ LoadFails(p)
    PROVE  Learns(p)
<1> DEFINE s == [processes[p] EXCEPT !.pc = "signin"]
           u == processes[p].undisturbed \/ processes[p].memory = NoToken
           t == [processes[p] EXCEPT !.pc = "refresh", !.state = State(p),
                                     !.undisturbed = u]
           r == [processes[p] EXCEPT !.pc = "graph", !.memory = State(p),
                                     !.invalid = FALSE, !.undisturbed = u]
<1>1. processes[p].pc = "token" /\ processes[p] \in Process
    BY Here DEF GetToken, LoadFails, At
<1>2. \/ State(p) \in {processes[p].memory, NoToken}
      \/ p \notin Ephemeral /\ State(p) = file
    BY DEF State
<1>3. KnowsNoMore(p, s)
  <2>1. s.pc = "signin" /\ s.memory = processes[p].memory /\ s.state = processes[p].state
      BY <1>1 DEF Process
  <2> HIDE DEF s
  <2> QED  BY <1>1, <2>1 DEF KnowsNoMore, Saving, At
<1>4. KnowsNoMore(p, t)
  <2>1. t.pc = "refresh" /\ t.memory = processes[p].memory /\ t.state = State(p)
      BY <1>1 DEF Process
  <2> HIDE DEF t
  <2> QED  BY <1>1, <1>2, <2>1 DEF KnowsNoMore, Saving, At
<1>5. KnowsNoMore(p, r)
  <2>1. r.pc = "graph" /\ r.memory = State(p) /\ r.state = processes[p].state
      BY <1>1 DEF Process
  <2> HIDE DEF r
  <2> QED  BY <1>1, <1>2, <2>1 DEF KnowsNoMore, Saving, At
<1>6. KnowsNoMore(p, Answer(p, "error"))
    BY <1>1, EndsKnowing DEF At
<1>7. \/ Become(p, Answer(p, "error")) \/ Become(p, s)
      \/ Become(p, t) \/ Become(p, r)
    BY DEF GetToken, LoadFails
<1>8. UNCHANGED <<entra, disk, fates>>
    BY DEF GetToken, LoadFails
<1> HIDE DEF r, s, t
<1> QED  BY <1>3, <1>4, <1>5, <1>6, <1>7, <1>8, LearnsQuietly

LEMMA RequestsLearn ==
    ASSUME Records, NEW p \in Processes,
           Succeeded(p) \/ Unauthorized(p) \/ Unanswered(p)
    PROVE  Learns(p)
<1>0. processes[p] \in Process /\ processes[p].pc = "graph"
    BY Here DEF Succeeded, Unauthorized, Unanswered, At
<1>1. ASSUME NEW answer \in {"ok", "error"}, NEW n
      PROVE  KnowsNoMore(p, [Answer(p, answer) EXCEPT !.effects = @ + n])
  <2> DEFINE r == [Answer(p, answer) EXCEPT !.effects = @ + n]
  <2>1. r.pc = "ready" /\ r.memory = processes[p].memory /\ r.state = NoToken
      BY <1>0, AnswerFacts DEF Process
  <2> HIDE DEF r
  <2>2. KnowsNoMore(p, r)
      BY <1>0, <2>1 DEF KnowsNoMore, Saving, At
  <2> QED  BY <2>2 DEF r
<1>2. KnowsNoMore(p, [processes[p] EXCEPT !.pc = "token", !.attempt = 1, !.invalid = TRUE])
  <2> DEFINE r == [processes[p] EXCEPT !.pc = "token", !.attempt = 1, !.invalid = TRUE]
  <2>1. /\ r.pc = "token" /\ r.memory = processes[p].memory
        /\ r.state = processes[p].state
      BY <1>0 DEF Process
  <2> HIDE DEF r
  <2>2. KnowsNoMore(p, r)
      BY <1>0, <2>1 DEF KnowsNoMore, Saving, At
  <2> QED  BY <2>2 DEF r
<1>3. KnowsNoMore(p, Answer(p, "error"))
    BY <1>0, EndsKnowing DEF At
<1>4. CASE Succeeded(p)
    BY <1>1, <1>4, LearnsQuietly DEF Succeeded
<1>5. CASE Unauthorized(p)
    BY <1>2, <1>3, <1>5, LearnsQuietly DEF Unauthorized
<1>6. CASE Unanswered(p)
    BY <1>1, <1>6, LearnsQuietly DEF Unanswered
<1> QED  BY <1>4, <1>5, <1>6

(* Who gives up a save has told so in dropped or kept, or opens the file.     *)
LEMMA SavesLearn ==
    ASSUME Records, NEW p \in Processes,
           \/ SaveSkipped(p) \/ SaveOpens(p) \/ SaveRefused(p)
           \/ FolderMissing(p) \/ WriteFails(p)
    PROVE  Learns(p)
<1>0. /\ processes[p] \in Process
      /\ Saving(processes[p])
      /\ dropped \subseteq dropped' /\ kept \subseteq kept'
      /\ UNCHANGED entra
    BY Here DEF SaveSkipped, SaveOpens, SaveRefused, FolderMissing, WriteFails,
                Saving, At, fates, Drop
<1> DEFINE g == [processes[p] EXCEPT !.pc = "graph", !.fresh = "refresh"]
           o == [processes[p] EXCEPT !.pc = "write", !.undisturbed = FALSE]
           n == [processes[p] EXCEPT !.pc = "signin", !.memory = NoToken]
<1>1. /\ g.pc = "graph" /\ g.memory = processes[p].memory /\ g.state = processes[p].state
      /\ o.pc = "write" /\ o.memory = processes[p].memory /\ o.state = processes[p].state
      /\ n.pc = "signin" /\ n.memory = NoToken /\ n.state = processes[p].state
    BY <1>0 DEF Process
<1>2. CASE SaveSkipped(p)
  <2>1. Become(p, Off) \/ Become(p, g)
      BY <1>2 DEF SaveSkipped, Authorized
  <2> HIDE DEF g
  <2>2. KnowsNoMore(p, Off) /\ KnowsNoMore(p, g)
      BY <1>1, <1>2, OffFacts DEF KnowsNoMore, Saving, SaveSkipped
  <2> QED  BY <1>2, <2>1, <2>2, LearnsQuietly DEF SaveSkipped
<1>3. CASE SaveOpens(p)
  <2>1. Disturbing(p, o) /\ file' = Torn
      BY <1>3 DEF SaveOpens
  <2> HIDE DEF o
  <2>2. KnowsNoMore(p, o)
      BY <1>0, <1>1, <2>1, FileStates DEF KnowsNoMore, Saving
  <2> QED  BY <1>0, <2>1, <2>2, LearnsBy
<1>4. CASE SaveRefused(p) \/ WriteFails(p)
  <2>1. /\ Become(p, n) \/ Become(p, Off)
        /\ file' = file /\ processes[p].memory \in dropped'
      BY <1>4 DEF SaveRefused, WriteFails, NotSaved, Drop, disk
  <2> HIDE DEF n
  <2>2. KnowsNoMore(p, n) /\ KnowsNoMore(p, Off)
      BY <1>1, <2>1, OffFacts DEF KnowsNoMore, Saving
  <2> QED  BY <1>0, <2>1, <2>2, LearnsBy
<1>5. CASE FolderMissing(p)
  <2>1. /\ Become(p, Answer(p, "error")) \/ Become(p, Off)
        /\ file' = file /\ processes[p].memory \in dropped' \cup kept'
      BY <1>5 DEF FolderMissing, Drop, disk
  <2>2. KnowsNoMore(p, Answer(p, "error")) /\ KnowsNoMore(p, Off)
      BY <1>0, <2>1, OffFacts, AnswerFacts DEF KnowsNoMore, Saving
  <2> QED  BY <1>0, <2>1, <2>2, LearnsBy
<1> QED  BY <1>2, <1>3, <1>4, <1>5

LEMMA CrashLearns ==
    ASSUME Records, NEW p \in Processes, Crash(p)
    PROVE  Learns(p)
<1>1. /\ Become(p, Off) /\ UNCHANGED <<entra, file, kept>>
      /\ dropped \subseteq dropped'
      /\ At(p, "save") => processes[p].memory \in dropped'
    BY DEF Crash, At
<1>2. KnowsNoMore(p, Off)
    BY <1>1, OffFacts DEF KnowsNoMore, Saving
<1> QED  BY <1>1, <1>2, LearnsBy

LEMMA SignOutLearns ==
    ASSUME Records, NEW p \in Processes, SignOut(p)
    PROVE  Learns(p)
<1>1. /\ Become(p, Off) \/ Disturbing(p, Off)
      /\ file' \in {file, Absent} /\ UNCHANGED <<entra, fates>>
    BY DEF SignOut
<1>2. KnowsNoMore(p, Off)
    BY EndsKnowing DEF SignOut, At
<1>3. dropped \subseteq dropped' /\ kept \subseteq kept'
    BY <1>1 DEF fates
<1> QED  BY <1>1, <1>2, <1>3, LearnsBy

LEMMA IssueIssues ==
    ASSUME Records, NEW p \in Processes, Refreshed(p) \/ SignedIn(p)
    PROVE  Issues(p)
<1>1. PICK fresh \in {"refresh", "signin"} : Issue(p, fresh)
    BY DEF Refreshed, SignedIn
<1> DEFINE r == [processes[p] EXCEPT !.pc = "save", !.memory = tokens + 1,
                    !.state = NoToken, !.invalid = FALSE, !.fresh = fresh]
<1>2. r.pc = "save" /\ r.memory = tokens + 1 /\ r.state = NoToken
    BY Here DEF Process
<1>3. Become(p, r)
    BY <1>1 DEF Issue
<1> HIDE DEF r
<1>4. processes'[p] = r /\ OthersStay(p)
    BY <1>3, NewRecord
<1>5. tokens + 1 \in TokenStates
    BY <1>1, Here, LocalAssumption DEF Shared, Issue, TokenStates
<1>6. ~Saving(processes[p])
    BY DEF Refreshed, SignedIn, At, Saving
<1> QED  BY <1>1, <1>2, <1>4, <1>5, <1>6 DEF Issues, Issue, disk, fates

LEMMA WrittenWrites ==
    ASSUME Records, NEW p \in Processes, Written(p)
    PROVE  Writes(p)
<1> DEFINE q == [processes[p] EXCEPT !.undisturbed = TRUE]
           r == [q EXCEPT !.pc = "graph", !.fresh = "refresh"]
<1>1. q \in Process /\ q.memory = processes[p].memory /\ q.state = processes[p].state
    BY Here DEF Process
<1>2. Become(p, Authorized(p, q))
    BY DEF Written
<1> HIDE DEF q
<1>3. r.pc = "graph" /\ r.memory = q.memory /\ r.state = q.state
    BY <1>1 DEF Process
<1>4. Become(p, r) \/ Become(p, Off)
    BY <1>2 DEF Authorized
<1> HIDE DEF r
<1>5. OthersStay(p) /\ processes'[p] \in {r, Off}
    BY <1>4, NewRecord
<1>6. p \notin Ephemeral /\ Saving(processes[p])
    BY Here DEF Good, Written, At, Saving
<1>7. UNCHANGED <<tokens, origin>> /\ file' = processes[p].memory
    BY DEF Written, entra
<1> QED  BY <1>1, <1>3, <1>5, <1>6, <1>7, OffFacts DEF Writes, Saving

LEMMA StepIsOfKind ==
    ASSUME Records, [Next]_vars
    PROVE  \/ \E p \in Processes : Learns(p) \/ Issues(p) \/ Writes(p)
           \/ UNCHANGED <<tokens, origin, disk, fates, processes>>
<1>1. ASSUME NEW p \in Processes,
             \/ Start(p) \/ Crash(p) \/ Call(p) \/ GetToken(p) \/ LoadFails(p)
             \/ RefreshRefused(p) \/ RefreshLost(p) \/ SignInFails(p) \/ BrowserGone(p)
      PROVE  Learns(p)
    BY <1>1, CallsLearn, CrashLearns, ReadsLearn
<1>2. ASSUME NEW p \in Processes,
             \/ SaveSkipped(p) \/ SaveOpens(p) \/ SaveRefused(p)
             \/ FolderMissing(p) \/ WriteFails(p)
             \/ Succeeded(p) \/ Unauthorized(p) \/ Unanswered(p) \/ SignOut(p)
      PROVE  Learns(p)
    BY <1>2, SavesLearn, RequestsLearn, SignOutLearns
<1>3. ASSUME NEW p \in Processes, Refreshed(p) \/ SignedIn(p) \/ Written(p)
      PROVE  Issues(p) \/ Writes(p)
    BY <1>3, IssueIssues, WrittenWrites
<1>4. Expire \/ UNCHANGED vars => UNCHANGED <<tokens, origin, disk, fates, processes>>
    BY DEF Expire, vars, entra
<1> QED  BY <1>1, <1>2, <1>3, <1>4 DEF Next

-----------------------------------------------------------------------------
(* What the three kinds of step leave of the knowledge.                      *)
LEMMA Numbers ==
    ASSUME Records
    PROVE  /\ tokens \in Nat /\ file \in Int
           /\ file \in TokenStates \cup {Absent, Torn}
           /\ \A n \in TokenStates : n \in Nat /\ n # NoToken /\ origin[n] \in Nat
           /\ \A p \in Processes :
                 /\ processes[p].memory \in TokenStates \cup {NoToken}
                 /\ processes[p].state \in TokenStates \cup {NoToken}
                 /\ Saving(processes[p]) => processes[p].memory \in TokenStates
           /\ NoToken \notin TokenStates /\ Absent \notin TokenStates
           /\ Torn \notin TokenStates
<1>1. tokens \in Nat /\ file \in TokenStates \cup {Absent, Torn}
    BY PartsOfInv, LocalAssumption DEF Shared
<1>2. /\ NoToken \notin TokenStates /\ Absent \notin TokenStates
      /\ Torn \notin TokenStates /\ TokenStates \subseteq Nat
    BY LocalAssumption DEF TokenStates, NoToken, Absent, Torn
<1>3. file \in Int
    BY <1>1, <1>2 DEF Absent, Torn
<1>4. \A n \in TokenStates : n \in Nat /\ n # NoToken /\ origin[n] \in Nat
  <2>1. origin \in [TokenStates -> TokenStates \cup {NoToken}]
      BY PartsOfInv DEF Shared
  <2>2. NoToken \in Nat
      BY DEF NoToken
  <2> QED  BY <1>2, <2>1, <2>2
<1>5. ASSUME NEW p \in Processes
      PROVE  /\ processes[p].memory \in TokenStates \cup {NoToken}
             /\ processes[p].state \in TokenStates \cup {NoToken}
             /\ Saving(processes[p]) => processes[p].memory \in TokenStates
  <2>1. processes[p] \in Process
      BY Here
  <2>2. Saving(processes[p]) => processes[p].memory # NoToken
      BY Here DEF Good, Saving
  <2> QED  BY <2>1, <2>2 DEF Process
<1> QED  BY <1>1, <1>2, <1>3, <1>4, <1>5

LEMMA LearnsOwned ==
    ASSUME Records, Owned, NEW p \in Processes, Learns(p)
    PROVE  Owned'
<1>1. StatesAreIssued'
  <2>1. ASSUME NEW q \in Processes
        PROVE  processes'[q].memory <= tokens /\ processes'[q].state <= tokens
    <3>1. CASE q = p
        BY <3>1, Numbers DEF Owned, StatesAreIssued, Learns, KnowsNoMore, NoToken
    <3>2. CASE q # p
        BY <3>2, Numbers DEF Owned, StatesAreIssued, Learns, OthersStay
    <3> QED  BY <3>1, <3>2
  <2>2. file' <= tokens
      BY Numbers DEF Owned, StatesAreIssued, Learns, Absent, Torn
  <2> QED  BY <2>1, <2>2 DEF Owned, StatesAreIssued, Learns
<1>2. ASSUME NEW x \in Processes, Saving(processes'[x])
      PROVE  /\ Saving(processes[x])
             /\ processes'[x].memory = processes[x].memory
             /\ processes'[x].state = processes[x].state
  <2>1. CASE x = p
      BY <1>2, <2>1 DEF Learns, KnowsNoMore
  <2>2. CASE x # p
      BY <1>2, <2>2 DEF Learns, OthersStay, Saving
  <2> QED  BY <2>1, <2>2
<1>3. ASSUME NEW x \in Processes, Saving(processes'[x])
      PROVE  /\ file' # processes[x].memory
             /\ processes[x].state # processes[x].memory
             /\ \A n \in TokenStates : origin'[n] # processes[x].memory
             /\ \A q \in Processes \ {x} :
                   /\ processes'[q].memory # processes[x].memory
                   /\ processes'[q].state # processes[x].memory
  <2> DEFINE new == processes[x].memory
  <2>1. /\ Saving(processes[x]) /\ new \in TokenStates
        /\ new # NoToken /\ new # Absent /\ new # Torn
      BY <1>2, <1>3, Numbers
  <2>2. /\ file # new /\ processes[x].state # new
        /\ \A q \in Processes \ {x} : /\ processes[q].memory # new
                                      /\ processes[q].state # new
        /\ \A n \in TokenStates : origin[n] # new
      BY <2>1 DEF Owned, NewStatesAreOwn, Saving
  <2> HIDE DEF new
  <2>3. ASSUME NEW q \in Processes, q # x
        PROVE  processes'[q].memory # new /\ processes'[q].state # new
    <3>1. CASE q = p
        BY <2>1, <2>2, <2>3, <3>1 DEF Learns, KnowsNoMore
    <3>2. CASE q # p
        BY <2>2, <2>3, <3>2 DEF Learns, OthersStay
    <3> QED  BY <3>1, <3>2
  <2>4. file' # new /\ origin' = origin
      BY <2>1, <2>2 DEF Learns
  <2> QED  BY <2>2, <2>3, <2>4 DEF new
<1>4. NewStatesAreOwn'
  <2> SUFFICES ASSUME NEW x \in Processes, Saving(processes'[x])
               PROVE  /\ file' # processes'[x].memory
                      /\ processes'[x].state # processes'[x].memory
                      /\ \A q \in Processes \ {x} :
                            /\ processes'[q].memory # processes'[x].memory
                            /\ processes'[q].state # processes'[x].memory
                      /\ \A n \in TokenStates : origin'[n] # processes'[x].memory
      BY DEF NewStatesAreOwn, Saving
  <2> QED  BY <1>2, <1>3
<1>5. EphemeralApart'
  <2> SUFFICES ASSUME NEW x \in Ephemeral, file' \in TokenStates
               PROVE  /\ processes'[x].memory # file'
                      /\ processes'[x].state # file'
                      /\ processes'[x].memory # NoToken =>
                            origin'[processes'[x].memory] # file'
      BY DEF EphemeralApart
  <2>1. file' = file /\ origin' = origin /\ file # NoToken
      BY Numbers DEF Learns
  <2>2. /\ processes[x].memory # file /\ processes[x].state # file
        /\ processes[x].memory # NoToken => origin[processes[x].memory] # file
      BY <2>1 DEF Owned, EphemeralApart
  <2>3. /\ processes'[x].memory \in {processes[x].memory, NoToken}
        /\ processes'[x].state \in {processes[x].state, processes[x].memory, NoToken}
    <3>1. CASE x = p
        BY <3>1 DEF Learns, KnowsNoMore
    <3>2. CASE x # p
        BY <3>2, LocalAssumption DEF Learns, OthersStay
    <3> QED  BY <3>1, <3>2
  <2> QED  BY <2>1, <2>2, <2>3
<1> QED  BY <1>1, <1>4, <1>5 DEF Owned

LEMMA IssuesOwned ==
    ASSUME Records, Owned, NEW p \in Processes, Issues(p)
    PROVE  Owned'
<1> DEFINE new == tokens + 1
<1>1. /\ tokens' = new /\ new \in TokenStates /\ new # NoToken /\ file' = file
      /\ origin'[new] = processes[p].state
      /\ \A n \in TokenStates \ {new} : origin'[n] = origin[n]
      /\ \A q \in Processes \ {p} : /\ processes'[q].pc = processes[q].pc
                                    /\ processes'[q].memory = processes[q].memory
                                    /\ processes'[q].state = processes[q].state
      /\ processes'[p].pc = "save" /\ processes'[p].memory = new
      /\ processes'[p].state = NoToken
  <2>1. origin \in [TokenStates -> TokenStates \cup {NoToken}]
      BY PartsOfInv DEF Shared
  <2> QED  BY <2>1, Numbers DEF Issues, OthersStay
<1>2. /\ file # new /\ NoToken # new /\ processes[p].state # new
      /\ \A n \in TokenStates : origin[n] # new
      /\ \A q \in Processes : processes[q].memory # new /\ processes[q].state # new
  <2>1. \A n \in Int : n <= tokens => n # new
      BY Numbers
  <2>2. /\ \A n \in TokenStates : origin[n] \in Int
        /\ \A q \in Processes : processes[q].memory \in Int /\ processes[q].state \in Int
      BY Numbers DEF NoToken
  <2> QED  BY <1>1, <2>1, <2>2, Numbers DEF Owned, StatesAreIssued
<1>3. StatesAreIssued'
  <2>1. /\ file <= new /\ new <= new /\ NoToken <= new
        /\ \A n \in TokenStates : origin[n] <= new
        /\ \A q \in Processes : processes[q].memory <= new /\ processes[q].state <= new
    <3>1. \A n \in Int : n <= tokens => n <= new
        BY Numbers
    <3>2. /\ \A n \in TokenStates : origin[n] \in Int
          /\ \A q \in Processes : processes[q].memory \in Int /\ processes[q].state \in Int
        BY Numbers DEF NoToken
    <3>3. new <= new /\ NoToken <= new
        BY Numbers DEF NoToken
    <3> QED  BY <3>1, <3>2, <3>3, Numbers DEF Owned, StatesAreIssued
  <2> HIDE DEF new
  <2> QED  BY <1>1, <2>1 DEF StatesAreIssued
<1> HIDE DEF new
<1>4. ASSUME NEW x \in Processes, Saving(processes'[x])
      PROVE  /\ file' # processes'[x].memory
             /\ processes'[x].state # processes'[x].memory
             /\ \A q \in Processes \ {x} :
                   /\ processes'[q].memory # processes'[x].memory
                   /\ processes'[q].state # processes'[x].memory
             /\ \A n \in TokenStates : origin'[n] # processes'[x].memory
  <2>1. CASE x = p
    <3>1. \A n \in TokenStates : origin'[n] # new
        BY <1>1, <1>2
    <3> QED  BY <1>1, <1>2, <2>1, <3>1
  <2>2. CASE x # p
    <3>1. Saving(processes[x]) /\ processes'[x].memory = processes[x].memory
          /\ processes'[x].state = processes[x].state
        BY <1>1, <1>4, <2>2 DEF Saving
    <3>2. /\ file # processes[x].memory
          /\ processes[x].state # processes[x].memory
          /\ \A q \in Processes \ {x} : /\ processes[q].memory # processes[x].memory
                                        /\ processes[q].state # processes[x].memory
          /\ \A n \in TokenStates : origin[n] # processes[x].memory
        BY <3>1 DEF Owned, NewStatesAreOwn, Saving
    <3>3. \A n \in TokenStates : origin'[n] # processes[x].memory
        BY <1>1, <2>2, <3>2
    <3>4. processes[x].memory # NoToken
        BY <3>1, Numbers
    <3>5. ASSUME NEW q \in Processes, q # x
          PROVE  /\ processes'[q].memory # processes[x].memory
                 /\ processes'[q].state # processes[x].memory
      <4>1. CASE q = p
          BY <1>1, <1>2, <3>4, <4>1
      <4>2. CASE q # p
          BY <1>1, <3>2, <3>5, <4>2
      <4> QED  BY <4>1, <4>2
    <3> QED  BY <1>1, <3>1, <3>2, <3>3, <3>5
  <2> QED  BY <2>1, <2>2
<1>5. NewStatesAreOwn'
    BY <1>4 DEF NewStatesAreOwn, Saving
<1>6. ASSUME NEW x \in Ephemeral, file' \in TokenStates
      PROVE  /\ processes'[x].memory # file' /\ processes'[x].state # file'
             /\ processes'[x].memory # NoToken => origin'[processes'[x].memory] # file'
  <2>1. /\ x \in Processes /\ file # NoToken
        /\ processes[x].memory # file /\ processes[x].state # file
        /\ processes[x].memory # NoToken => origin[processes[x].memory] # file
      BY <1>1, <1>6, LocalAssumption, Numbers DEF Owned, EphemeralApart
  <2>2. CASE x = p
      BY <1>1, <1>2, <2>1, <2>2
  <2>3. CASE x # p
    <3>1. /\ processes'[x].memory = processes[x].memory /\ processes[x].memory # new
          /\ processes'[x].state = processes[x].state
        BY <1>1, <1>2, <2>1, <2>3
    <3>2. processes[x].memory \in TokenStates \cup {NoToken}
        BY <2>1, Numbers
    <3> QED  BY <1>1, <2>1, <3>1, <3>2
  <2> QED  BY <2>2, <2>3
<1>7. EphemeralApart'
    BY <1>6 DEF EphemeralApart
<1> QED  BY <1>3, <1>5, <1>7 DEF Owned

LEMMA WritesOwned ==
    ASSUME Records, Owned, NEW p \in Processes, Writes(p)
    PROVE  Owned'
<1> DEFINE new == processes[p].memory
<1>1. /\ file' = new /\ new \in TokenStates /\ new # NoToken
      /\ tokens' = tokens /\ origin' = origin /\ p \notin Ephemeral
      /\ ~Saving(processes'[p])
      /\ processes'[p].memory \in {new, NoToken}
      /\ processes'[p].state \in {processes[p].state, NoToken}
      /\ \A q \in Processes \ {p} : /\ processes'[q].pc = processes[q].pc
                                    /\ processes'[q].memory = processes[q].memory
                                    /\ processes'[q].state = processes[q].state
    BY Numbers DEF Writes, OthersStay
<1>2. /\ \A q \in Processes \ {p} : processes[q].memory # new /\ processes[q].state # new
      /\ \A n \in TokenStates : origin[n] # new
    BY DEF Owned, NewStatesAreOwn, Writes, Saving
<1>3. StatesAreIssued'
  <2>1. /\ new <= tokens /\ NoToken <= tokens
        /\ \A q \in Processes : processes[q].memory <= tokens /\ processes[q].state <= tokens
        /\ \A n \in TokenStates : origin[n] <= tokens
      BY Numbers DEF Owned, StatesAreIssued, NoToken
  <2> HIDE DEF new
  <2>2. ASSUME NEW q \in Processes
        PROVE  processes'[q].memory <= tokens /\ processes'[q].state <= tokens
      BY <1>1, <2>1
  <2> QED  BY <1>1, <2>1, <2>2 DEF StatesAreIssued
<1>4. ASSUME NEW x \in Processes, Saving(processes'[x])
      PROVE  /\ file' # processes'[x].memory
             /\ processes'[x].state # processes'[x].memory
             /\ \A q \in Processes \ {x} :
                   /\ processes'[q].memory # processes'[x].memory
                   /\ processes'[q].state # processes'[x].memory
             /\ \A n \in TokenStates : origin'[n] # processes'[x].memory
  <2>1. /\ x # p /\ Saving(processes[x])
        /\ processes'[x].memory = processes[x].memory
        /\ processes'[x].state = processes[x].state
      BY <1>1, <1>4 DEF Saving
  <2>2. /\ processes[x].state # processes[x].memory
        /\ \A q \in Processes \ {x} : /\ processes[q].memory # processes[x].memory
                                      /\ processes[q].state # processes[x].memory
        /\ \A n \in TokenStates : origin[n] # processes[x].memory
      BY <2>1 DEF Owned, NewStatesAreOwn, Saving
  <2>3. processes[x].memory # NoToken
      BY <2>1, Numbers
  <2>4. ASSUME NEW q \in Processes, q # x
        PROVE  /\ processes'[q].memory # processes[x].memory
               /\ processes'[q].state # processes[x].memory
    <3>1. CASE q = p
        BY <1>1, <2>2, <2>3, <2>4, <3>1
    <3>2. CASE q # p
        BY <1>1, <2>2, <2>4, <3>2
    <3> QED  BY <3>1, <3>2
  <2> QED  BY <1>1, <2>1, <2>2, <2>4
<1>5. NewStatesAreOwn'
    BY <1>4 DEF NewStatesAreOwn, Saving
<1>6. ASSUME NEW x \in Ephemeral
      PROVE  /\ processes'[x].memory # new /\ processes'[x].state # new
             /\ processes'[x].memory # NoToken => origin[processes'[x].memory] # new
  <2>1. x \in Processes /\ x # p
      BY <1>1, LocalAssumption
  <2>2. processes[x].memory \in TokenStates \cup {NoToken}
      BY <2>1, Numbers
  <2> QED  BY <1>1, <1>2, <2>1, <2>2
<1> HIDE DEF new
<1>7. EphemeralApart'
    BY <1>1, <1>6 DEF EphemeralApart
<1> QED  BY <1>3, <1>5, <1>7 DEF Owned

LEMMA InitOwned == Init => Owned
<1> SUFFICES ASSUME Init PROVE Owned
    OBVIOUS
<1>1. /\ tokens = 0 /\ file = 0 /\ \A n \in TokenStates : origin[n] = 0
      /\ \A p \in Processes : /\ processes[p].pc = "off"
                              /\ processes[p].memory = 0 /\ processes[p].state = 0
    BY OffFacts DEF Init, Absent, NoToken
<1>2. StatesAreIssued
    BY <1>1 DEF StatesAreIssued
<1>3. NewStatesAreOwn
    BY <1>1 DEF NewStatesAreOwn
<1>4. file \notin TokenStates
    BY <1>1 DEF TokenStates
<1> QED  BY <1>2, <1>3, <1>4 DEF Owned, EphemeralApart

LEMMA NextOwned == Records /\ Owned /\ [Next]_vars => Owned'
<1> SUFFICES ASSUME Records, Owned, [Next]_vars PROVE Owned'
    OBVIOUS
<1>1. CASE UNCHANGED <<tokens, origin, disk, fates, processes>>
    BY <1>1 DEF Owned, StatesAreIssued, NewStatesAreOwn, EphemeralApart, disk
<1> QED  BY <1>1, StepIsOfKind, LearnsOwned, IssuesOwned, WritesOwned

LEMMA LocalInvParts == LocalInv <=> Records /\ Owned
BY DEF LocalInv, Records, Owned

-----------------------------------------------------------------------------
(* A state that replaced the one in the file is being saved or was given up. *)
LEMMA LearnsSpent ==
    ASSUME LocalInv, SpentStateForCause, NEW p \in Processes, Learns(p)
    PROVE  SpentStateForCause'
<1> SUFFICES ASSUME NEW n \in TokenStates, file' \in TokenStates, origin'[n] = file',
                    n \notin dropped' \cup kept'
             PROVE  \E q \in Processes \ Ephemeral :
                       processes'[q].pc = "save" /\ processes'[q].memory = n
    BY DEF SpentStateForCause, At
<1>1. file' = file /\ origin' = origin
    BY LocalInvParts, Numbers DEF Learns
<1>2. n \notin dropped \cup kept
    BY DEF Learns
<1>3. PICK q \in Processes \ Ephemeral : At(q, "save") /\ processes[q].memory = n
    BY <1>1, <1>2 DEF SpentStateForCause
<1>4. CASE q = p
    BY <1>3, <1>4 DEF Learns, KnowsNoMore, Saving, At
<1>5. CASE q # p
    BY <1>3, <1>5 DEF Learns, OthersStay, At
<1> QED  BY <1>4, <1>5

LEMMA IssuesSpent ==
    ASSUME LocalInv, SpentStateForCause, NEW p \in Processes, Issues(p)
    PROVE  SpentStateForCause'
<1> SUFFICES ASSUME NEW n \in TokenStates, file' \in TokenStates, origin'[n] = file',
                    n \notin dropped' \cup kept'
             PROVE  \E q \in Processes \ Ephemeral :
                       processes'[q].pc = "save" /\ processes'[q].memory = n
    BY DEF SpentStateForCause, At
<1>0. origin \in [TokenStates -> TokenStates \cup {NoToken}]
    BY LocalInvParts, PartsOfInv DEF Shared
<1>1. CASE n = tokens + 1
  <2>1. processes[p].state = file /\ file \in TokenStates
      BY <1>0, <1>1 DEF Issues
  <2>2. p \notin Ephemeral
      BY <2>1, LocalInvParts DEF Owned, EphemeralApart
  <2> QED  BY <1>1, <2>2 DEF Issues
<1>2. CASE n # tokens + 1
  <2>1. origin[n] = file /\ file \in TokenStates /\ n \notin dropped \cup kept
      BY <1>0, <1>2 DEF Issues
  <2>2. PICK q \in Processes \ Ephemeral : At(q, "save") /\ processes[q].memory = n
      BY <2>1 DEF SpentStateForCause
  <2>3. q # p
      BY <2>2 DEF Issues, Saving, At
  <2> QED  BY <2>2, <2>3 DEF Issues, OthersStay, At
<1> QED  BY <1>1, <1>2

LEMMA WritesSpent ==
    ASSUME LocalInv, NEW p \in Processes, Writes(p)
    PROVE  SpentStateForCause'
<1>1. \A n \in TokenStates : origin[n] # processes[p].memory
    BY LocalInvParts DEF Owned, NewStatesAreOwn, Writes, Saving
<1>2. \A n \in TokenStates : origin'[n] # file'
    BY <1>1 DEF Writes
<1> QED  BY <1>2 DEF SpentStateForCause

LEMMA NextSpent == LocalInv /\ SpentStateForCause /\ [Next]_vars => SpentStateForCause'
<1> SUFFICES ASSUME LocalInv, SpentStateForCause, [Next]_vars PROVE SpentStateForCause'
    OBVIOUS
<1>1. CASE UNCHANGED <<tokens, origin, disk, fates, processes>>
    BY <1>1 DEF SpentStateForCause, At, disk, fates
<1>2. Records
    BY LocalInvParts
<1> QED  BY <1>1, <1>2, StepIsOfKind, LearnsSpent, IssuesSpent, WritesSpent

-----------------------------------------------------------------------------
(* At every step of every process, killed or not, one process writes the     *)
(* state file at a time, and whoever was not disturbed finds in it the state  *)
(* it works with, or an older whole one if the folder was missing when that   *)
(* state was to be saved; an ephemeral process has nothing of it              *)
(* (PublicClientAuth, DpapiStateStore).                                      *)
THEOREM LocalInvariant == Spec => []LocalInv
<1>1. Init => LocalInv
    BY InitRecords, InitOwned, LocalInvParts
<1>2. LocalInv /\ [Next]_vars => LocalInv'
  <2> SUFFICES ASSUME LocalInv, [Next]_vars PROVE LocalInv'
      OBVIOUS
  <2>1. Records /\ Owned
      BY LocalInvParts
  <2>2. Records' /\ Owned'
      BY <2>1, NextRecords, NextOwned
  <2> QED  BY <2>2 DEF LocalInv, Records, Owned
<1> QED  BY <1>1, <1>2, PTL DEF Spec

(* The refresh token in the file is used up only while its successor is being *)
(* saved or because that save failed, in any order of the refreshes, sign-ins *)
(* and saves of any number of servers (PublicClientAuth.GetAccessTokenAsync). *)
THEOREM SpentStateForCauseHolds == Spec => []SpentStateForCause
<1>1. Init => SpentStateForCause
  <2>1. Init => file \notin TokenStates
      BY DEF Init, Absent, TokenStates
  <2> QED  BY <2>1 DEF SpentStateForCause
<1> QED  BY <1>1, NextSpent, LocalInvariant, PTL DEF Spec

(* A request to Graph is carried out once at most for a tool call, although  *)
(* it is repeated after a 401 (LocalGraphClient.RequestAsync).               *)
THEOREM CarriedOutOnceHolds == Spec => []CarriedOutOnce
<1>1. LocalInv => CarriedOutOnce
    BY DEF LocalInv
<1> QED  BY <1>1, LocalInvariant, PTL

=============================================================================
