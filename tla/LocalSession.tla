---------------------------- MODULE LocalSession ----------------------------
(***************************************************************************)
(* The Windows runtime: processes of one user that share the state file.     *)
(* A stdio server answers one tool call after another, each a Graph request   *)
(* tried at most twice (LocalGraphClient.RequestAsync) with a token from its  *)
(* memory, the file, a refresh or the browser (PublicClientAuth); login and   *)
(* logout are processes of their own (Program).  The file is overwritten in   *)
(* place (DpapiStateStore), so it is torn from the opening of a write to its   *)
(* end, and a process can die at any step.                                   *)
(*                                                                         *)
(* A token state is a number, in the order Entra issued them; configuration   *)
(* is one client and one tenant.  Entra, Graph and the user are external.     *)
(***************************************************************************)
EXTENDS Integers

CONSTANTS
    Processes,   \* processes that may run at the same time
    Ephemeral,   \* those started with --ephemeral
    MaxTokens,   \* bound on the token states issued
    None

VARIABLES
    tokens,     \* Entra: number of token states issued
    origin,     \* history: the state whose refresh token was used for a state
    expired,    \* token states whose access token is not usable any more
    file,       \* the state file: a token state, Absent or Torn
    writer,     \* the process that has the file open for writing, or None
    cut,        \* history: the last write to the file did not come to its end
    dropped,    \* history: states forgotten because their save failed
    kept,       \* history: states in use without the folder of the file
    processes

entra == <<tokens, origin, expired>>
disk == <<file, writer, cut>>
fates == <<dropped, kept>>
vars == <<entra, disk, fates, processes>>

ASSUME LocalAssumption ==
    /\ Ephemeral \subseteq Processes
    /\ MaxTokens \in Nat
    /\ None \notin Processes

Absent == 0
Torn == -1
NoToken == 0
TokenStates == 1 .. MaxTokens

Process ==
    [command : {"off", "stdio", "login", "logout"},
     pc : {"off", "ready", "token", "refresh", "signin", "save", "write",
           "graph", "delete"},
     memory : TokenStates \cup {NoToken},   \* memoryState
     state : TokenStates \cup {NoToken},    \* the argument of RefreshAsync
     invalid : BOOLEAN,                     \* InvalidateAccessToken was called
     fresh : {"refresh", "signin"},         \* where the state to save is from
     attempt : 0 .. 1,
     effects : Nat,                         \* how often Graph carried it out
     answer : {"none", "ok", "error"},
     undisturbed : BOOLEAN]    \* history: nobody else changed the file since
                               \* this process last read or wrote it

TypeOK ==
    /\ tokens \in 0 .. MaxTokens
    /\ origin \in [TokenStates -> TokenStates \cup {NoToken}]
    /\ expired \subseteq 1 .. tokens
    /\ file \in TokenStates \cup {Absent, Torn}
    /\ writer \in Processes \cup {None}
    /\ cut \in BOOLEAN
    /\ dropped \subseteq TokenStates
    /\ kept \subseteq TokenStates
    /\ processes \in [Processes -> Process]

Off ==
    [command |-> "off", pc |-> "off", memory |-> NoToken, state |-> NoToken,
     invalid |-> FALSE, fresh |-> "refresh", attempt |-> 0, effects |-> 0,
     answer |-> "none", undisturbed |-> FALSE]

Init ==
    /\ tokens = 0
    /\ origin = [n \in TokenStates |-> NoToken]
    /\ expired = {}
    /\ file = Absent
    /\ writer = None
    /\ cut = FALSE
    /\ dropped = {}
    /\ kept = {}
    /\ processes = [p \in Processes |-> Off]

-----------------------------------------------------------------------------
At(p, pc) == processes[p].pc = pc

Become(p, process) == processes' = [processes EXCEPT ![p] = process]

\* the tool call of p is answered, its locals are gone, and p reads its next line
Answer(p, answer) ==
    [processes[p] EXCEPT !.pc = "ready", !.answer = answer, !.state = NoToken,
                         !.fresh = "refresh", !.attempt = 0]

\* the coroutine goes on with the token, or the command is done
Authorized(p, process) ==
    IF process.command = "login" THEN Off
    ELSE [process EXCEPT !.pc = "graph", !.fresh = "refresh"]

\* the call fails with an exception the stdio loop answers, or login exits
Failed(p) == IF processes[p].command = "login" THEN Off ELSE Answer(p, "error")

\* p, and nobody else, knows what is in the file
Disturbing(p, process) ==
    processes' = [q \in Processes |->
                     IF q = p THEN process
                     ELSE [processes[q] EXCEPT !.undisturbed = FALSE]]

Start(p) ==
    /\ At(p, "off")
    /\ \E command \in {"stdio", "login", "logout"} :
          Become(p, [Off EXCEPT !.command = command,
                        !.pc = CASE command = "stdio" -> "ready"
                                 [] command = "login" -> "signin"
                                 [] command = "logout" -> "delete"])
    /\ UNCHANGED <<entra, disk, fates>>

\* a process is killed, or the machine stops, wherever it is
Crash(p) ==
    /\ ~At(p, "off")
    /\ Become(p, Off)
    /\ cut' = (cut \/ writer = p)
    /\ writer' = IF writer = p THEN None ELSE writer
    /\ dropped' = IF processes[p].pc \in {"save", "write"}
                  THEN dropped \cup {processes[p].memory} ELSE dropped
    /\ UNCHANGED <<entra, file, kept>>

\* tools/call
Call(p) ==
    /\ At(p, "ready")
    /\ Become(p, [processes[p] EXCEPT !.pc = "token", !.attempt = 0,
                                      !.effects = 0, !.answer = "none"])
    /\ UNCHANGED <<entra, disk, fates>>

\* Load finds a file and cannot read it: torn, or open for writing
Unreadable(p) ==
    /\ processes[p].memory = NoToken
    /\ p \notin Ephemeral
    /\ file # Absent
    /\ file = Torn \/ writer # None

\* memoryState ?? stateStore.Load()
State(p) ==
    IF processes[p].memory # NoToken THEN processes[p].memory
    ELSE IF p \in Ephemeral THEN NoToken ELSE file

\* GetAccessTokenAsync, up to its first await
GetToken(p) ==
    /\ At(p, "token")
    /\ IF Unreadable(p) THEN Become(p, Answer(p, "error"))
       ELSE IF State(p) = NoToken
       THEN Become(p, [processes[p] EXCEPT !.pc = "signin"])
       ELSE IF State(p) \in expired
               \/ (processes[p].memory # NoToken /\ processes[p].invalid)
       THEN Become(p, [processes[p] EXCEPT
                          !.pc = "refresh",
                          !.state = State(p),
                          !.undisturbed = @ \/ processes[p].memory = NoToken])
       ELSE Become(p, [processes[p] EXCEPT
                          !.pc = "graph",
                          !.memory = State(p),
                          !.invalid = FALSE,
                          !.undisturbed = @ \/ processes[p].memory = NoToken])
    /\ UNCHANGED <<entra, disk, fates>>

\* the folder of the file is out of reach: File.Exists answers no, or the
\* file cannot be read
LoadFails(p) ==
    /\ At(p, "token")
    /\ processes[p].memory = NoToken
    /\ p \notin Ephemeral
    /\ \/ Become(p, [processes[p] EXCEPT !.pc = "signin"])
       \/ Become(p, Answer(p, "error"))
    /\ UNCHANGED <<entra, disk, fates>>

Issue(p, fresh) ==
    /\ tokens < MaxTokens
    /\ tokens' = tokens + 1
    /\ origin' = [origin EXCEPT ![tokens + 1] = processes[p].state]
    /\ Become(p, [processes[p] EXCEPT !.pc = "save", !.memory = tokens + 1,
                                      !.state = NoToken, !.invalid = FALSE,
                                      !.fresh = fresh])
    /\ UNCHANGED <<expired, disk, fates>>

\* Mutant: a refreshed state is kept in memory and not saved.
RefreshedUnsaved(p) ==
    /\ At(p, "refresh")
    /\ tokens < MaxTokens
    /\ tokens' = tokens + 1
    /\ origin' = [origin EXCEPT ![tokens + 1] = processes[p].state]
    /\ Become(p, [processes[p] EXCEPT !.pc = "graph", !.memory = tokens + 1,
                                      !.state = NoToken, !.invalid = FALSE])
    /\ UNCHANGED <<expired, disk, fates>>

\* RefreshAsync: a new state, which is in memory before it is saved
Refreshed(p) == At(p, "refresh") /\ Issue(p, "refresh")

\* any answer but a token state: LocalAuthException, on to the browser
RefreshRefused(p) ==
    /\ At(p, "refresh")
    /\ Become(p, [processes[p] EXCEPT !.pc = "signin", !.memory = NoToken,
                                      !.state = NoToken, !.invalid = FALSE])
    /\ UNCHANGED <<entra, disk, fates>>

\* no answer: HttpRequestException or a time out, and memoryState is as before
RefreshLost(p) ==
    /\ At(p, "refresh")
    /\ Become(p, Failed(p))
    /\ UNCHANGED <<entra, disk, fates>>

\* LoginInteractiveAsync: the code is redeemed and the browser told
SignedIn(p) == At(p, "signin") /\ Issue(p, "signin")

\* the user declines, the five minutes pass, Entra refuses the code
SignInFails(p) ==
    /\ At(p, "signin")
    /\ Become(p, Failed(p))
    /\ UNCHANGED <<entra, disk, fates>>

\* the browser is gone when it is told: the second page is written to the
\* disposed connection, an exception that no handler of the loop names
BrowserGone(p) ==
    /\ At(p, "signin")
    /\ Become(p, Off)
    /\ UNCHANGED <<entra, disk, fates>>

\* Mutant: the state is kept in memory although it could not be saved.
NotSavedButKept(p) ==
    IF processes[p].fresh = "refresh"
    THEN [processes[p] EXCEPT !.pc = "graph"]
    ELSE Off

\* Save throws LocalAuthException: after a refresh the new state is dropped for
\* the browser, after a sign-in the exception handler throws in its turn
NotSaved(p) ==
    IF processes[p].fresh = "refresh"
    THEN [processes[p] EXCEPT !.pc = "signin", !.memory = NoToken]
    ELSE Off

\* Save: nothing to do
SaveSkipped(p) ==
    /\ At(p, "save")
    /\ p \in Ephemeral
    /\ Become(p, Authorized(p, processes[p]))
    /\ UNCHANGED <<entra, disk, fates>>

\* Save: the file is truncated
SaveOpens(p) ==
    /\ At(p, "save")
    /\ p \notin Ephemeral
    /\ writer = None
    /\ file' = Torn
    /\ writer' = p
    /\ Disturbing(p, [processes[p] EXCEPT !.pc = "write", !.undisturbed = FALSE])
    /\ UNCHANGED <<entra, cut, fates>>

Drop(p) == dropped' = dropped \cup {processes[p].memory}

\* Save: the file cannot be opened, another process may have it open, or DPAPI
\* refuses
SaveRefused(p) ==
    /\ At(p, "save")
    /\ p \notin Ephemeral
    /\ Become(p, NotSaved(p))
    /\ Drop(p)
    /\ UNCHANGED <<entra, disk, kept>>

\* Save: the folder cannot be created, an exception that GetAccessTokenAsync
\* does not catch: the call fails, and after a refresh the new state stays in
\* memory for the next one
FolderMissing(p) ==
    /\ At(p, "save")
    /\ p \notin Ephemeral
    /\ IF processes[p].fresh = "refresh"
       THEN /\ Become(p, Answer(p, "error"))
            /\ kept' = kept \cup {processes[p].memory}
            /\ UNCHANGED dropped
       ELSE Become(p, Off) /\ Drop(p) /\ UNCHANGED kept
    /\ UNCHANGED <<entra, disk>>

\* Save: the envelope is written and the file closed
Written(p) ==
    /\ At(p, "write")
    /\ file' = processes[p].memory
    /\ writer' = None
    /\ cut' = FALSE
    /\ Become(p, Authorized(p, [processes[p] EXCEPT !.undisturbed = TRUE]))
    /\ UNCHANGED <<entra, fates>>

\* Save: the disk is full
WriteFails(p) ==
    /\ At(p, "write")
    /\ writer' = None
    /\ cut' = TRUE
    /\ Become(p, NotSaved(p))
    /\ Drop(p)
    /\ UNCHANGED <<entra, file, kept>>

\* RequestAsync: Graph carries the request out and says so
Succeeded(p) ==
    /\ At(p, "graph")
    /\ Become(p, [Answer(p, "ok") EXCEPT !.effects = @ + 1])
    /\ UNCHANGED <<entra, disk, fates>>

\* RequestAsync: 401, once more with another token
Unauthorized(p) ==
    /\ At(p, "graph")
    /\ Become(p, IF processes[p].attempt = 0
                 THEN [processes[p] EXCEPT !.pc = "token", !.attempt = 1,
                                           !.invalid = TRUE]
                 ELSE Answer(p, "error"))
    /\ UNCHANGED <<entra, disk, fates>>

\* Mutant: the second attempt is made after any failure of the first.
UnansweredOnceMore(p) ==
    /\ At(p, "graph")
    /\ \E carried \in {0, 1} :
          Become(p, [(IF processes[p].attempt = 0
                      THEN [processes[p] EXCEPT !.pc = "token", !.attempt = 1]
                      ELSE Answer(p, "error"))
                     EXCEPT !.effects = @ + carried])
    /\ UNCHANGED <<entra, disk, fates>>

\* RequestAsync: another failure or no answer, carried out or not
Unanswered(p) ==
    /\ At(p, "graph")
    /\ \E carried \in {0, 1} :
          Become(p, [Answer(p, "error") EXCEPT !.effects = @ + carried])
    /\ UNCHANGED <<entra, disk, fates>>

\* Logout, in a process of its own: the file is deleted, or not because it is
\* open or there is nothing to delete
SignOut(p) ==
    /\ At(p, "delete")
    /\ \/ /\ p \notin Ephemeral
          /\ writer = None
          /\ file' = Absent
          /\ cut' = FALSE
          /\ Disturbing(p, Off)
       \/ UNCHANGED <<file, cut>> /\ Become(p, Off)
    /\ UNCHANGED <<entra, writer, fates>>

\* an access token comes within two minutes of its end
Expire ==
    /\ \E n \in (1 .. tokens) \ expired : expired' = expired \cup {n}
    /\ UNCHANGED <<tokens, origin, disk, fates, processes>>

Next ==
    \/ \E p \in Processes :
          \/ Start(p) \/ Crash(p) \/ Call(p) \/ GetToken(p) \/ LoadFails(p)
          \/ Refreshed(p) \/ RefreshRefused(p) \/ RefreshLost(p)
          \/ SignedIn(p) \/ SignInFails(p) \/ BrowserGone(p)
          \/ SaveSkipped(p) \/ SaveOpens(p) \/ SaveRefused(p)
          \/ FolderMissing(p) \/ Written(p) \/ WriteFails(p)
          \/ Succeeded(p) \/ Unauthorized(p) \/ Unanswered(p)
          \/ SignOut(p)
    \/ Expire

Spec == Init /\ [][Next]_vars

-----------------------------------------------------------------------------
\* one process writes at a time, and the file is torn as long as it does
OneWriter ==
    /\ \A p \in Processes :
          /\ At(p, "write") <=> writer = p
          /\ At(p, "write") => p \notin Ephemeral
          /\ processes[p].pc \in {"save", "write"} => processes[p].memory # NoToken
    /\ writer # None => file = Torn
    /\ file = Torn => cut \/ writer # None

\* Whoever was not disturbed since it read or wrote the file finds a whole
\* state there when it is started again, and it is the state it works with,
\* unless the folder was missing when that one was to be saved
\* (DpapiStateStore.cs:73).  A state whose save failed otherwise is not used.
FileIsKnown ==
    \A p \in Processes \ Ephemeral :
        /\ processes[p].undisturbed =>
              /\ file \in TokenStates
              /\ processes[p].memory # NoToken /\ ~At(p, "save") =>
                    file = processes[p].memory \/ processes[p].memory \in kept
        /\ At(p, "signin") => processes[p].memory = NoToken

\* nothing that was ever issued has a higher number
StatesAreIssued ==
    /\ \A n \in TokenStates : origin[n] <= tokens
    /\ file <= tokens
    /\ \A p \in Processes : /\ processes[p].memory <= tokens
                            /\ processes[p].state <= tokens

\* A state that is being saved is known to its process only, and nobody has
\* used its refresh token.
NewStatesAreOwn ==
    \A p \in Processes :
        LET new == processes[p].memory
        IN  processes[p].pc \in {"save", "write"} =>
                /\ file # new
                /\ processes[p].state # new
                /\ \A q \in Processes \ {p} : /\ processes[q].memory # new
                                               /\ processes[q].state # new
                /\ \A n \in TokenStates : origin[n] # new

\* An ephemeral process has nothing of the file: neither its state nor one it
\* was refreshed from or is being refreshed from.
EphemeralApart ==
    \A p \in Ephemeral : file \in TokenStates =>
        /\ processes[p].memory # file
        /\ processes[p].state # file
        /\ processes[p].memory # NoToken => origin[processes[p].memory] # file

\* The refresh token in the file has been used up only while the state it was
\* exchanged for is being saved, or because that save failed (the file or the
\* folder could not be had, or the process ended): no order in which several
\* servers refresh, sign in and save over each other leaves or puts there a
\* state that another one has replaced (PublicClientAuth.cs:33-35).
SpentStateForCause ==
    \A n \in TokenStates :
        file \in TokenStates /\ origin[n] = file =>
            \/ n \in dropped \cup kept
            \/ \E p \in Processes \ Ephemeral :
                   At(p, "save") /\ processes[p].memory = n

\* A write of a tool call is carried out once at most, although the request
\* is repeated after a 401 and the token is refreshed or the user signs in in
\* between; a success means that it was.
CarriedOutOnce ==
    \A p \in Processes :
        /\ processes[p].effects <= 1
        /\ processes[p].answer = "ok" => processes[p].effects = 1
        /\ processes[p].pc \in {"token", "refresh", "signin", "save", "write",
                                "graph"} => processes[p].effects = 0

LocalInv ==
    /\ TypeOK
    /\ OneWriter
    /\ FileIsKnown
    /\ StatesAreIssued
    /\ NewStatesAreOwn
    /\ EphemeralApart
    /\ CarriedOutOnce

=============================================================================
