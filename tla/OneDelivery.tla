----------------------------- MODULE OneDelivery -----------------------------
(***************************************************************************)
(* What attaching a file promises to the outside, with no store, no request  *)
(* and no retry: a file is given to one call, at most one copy of it ever     *)
(* appears in a mailbox, and the call is told once.  It is told that the file *)
(* is attached only when the copy is there, and that the message is no draft  *)
(* only when there is none and never will be.  After an error, or a crash,    *)
(* the copy may be there, or appear later, or never.                         *)
(***************************************************************************)
EXTENDS Naturals

CONSTANTS Files, Calls

VARIABLES
    holders,   \* the call each file was given to, as a set
    copies,    \* how many copies of each file are in the mailboxes
    told       \* what each call was told, "none" before

vars == <<holders, copies, told>>

Init ==
    /\ holders = [f \in Files |-> {}]
    /\ copies = [f \in Files |-> 0]
    /\ told = [c \in Calls |-> "none"]

HasAFile(c) == \E f \in Files : c \in holders[f]

Give(f, c) ==
    /\ holders[f] = {}
    /\ ~ HasAFile(c)
    /\ holders' = [holders EXCEPT ![f] = {c}]
    /\ UNCHANGED <<copies, told>>

Appear(f) ==
    /\ copies[f] = 0
    /\ \E c \in holders[f] : told[c] # "not_draft"
    /\ copies' = [copies EXCEPT ![f] = 1]
    /\ UNCHANGED <<holders, told>>

Tell(f, c, answer) ==
    /\ c \in holders[f]
    /\ told[c] = "none"
    /\ answer = "attached" => copies[f] > 0
    /\ answer = "not_draft" => copies[f] = 0
    /\ told' = [told EXCEPT ![c] = answer]
    /\ UNCHANGED <<holders, copies>>

\* nobody is told any more who had not been told yet
Crash ==
    /\ told' = [c \in Calls |->
                   IF told[c] = "none" /\ HasAFile(c) THEN "lost" ELSE told[c]]
    /\ UNCHANGED <<holders, copies>>

Next ==
    \/ Crash
    \/ \E f \in Files :
          \/ Appear(f)
          \/ \E c \in Calls :
                \/ Give(f, c)
                \/ \E answer \in {"attached", "not_draft", "error"} : Tell(f, c, answer)

Spec == Init /\ [][Next]_vars
=============================================================================
