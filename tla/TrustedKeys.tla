----------------------------- MODULE TrustedKeys ----------------------------
(***************************************************************************)
(* What looking up a signing key promises: a caller is answered about its    *)
(* key from one document of the identity provider, which holds the keys that  *)
(* were published at some moment after it was asked for, is younger than the  *)
(* time to live, and is replaced only by one that was asked for after it had  *)
(* been stored.                                                              *)
(*                                                                         *)
(* There is no lock, no coroutine, no cool-down and no request that can fail  *)
(* or be cancelled: a document is there when the caller is answered, or it    *)
(* comes in between.  SigningKeys implements this specification              *)
(* (ImplementsTrustedKeys).                                                  *)
(***************************************************************************)
EXTENDS Integers

CONSTANTS Calls, Keys, Ttl, None

VARIABLES
    now,
    published,  \* when a key was published, None before
    withdrawn,  \* when a key was withdrawn, None before
    document,   \* the keys, when they were asked for and when stored, or None
    asking,     \* the key a caller waits to hear of, or None
    told        \* the answer it has not picked up yet, or None

vars == <<now, published, withdrawn, document, asking, told>>

\* about a key that is in the document: what the rest of the token decides
Judged == {"accepted", "unscoped", "invalid"}
\* about no document: there is none, it is no key set, the caller gave up
Unanswered == {"unavailable", "cancelled"}

\* a set of keys that was published at some moment not before asked
PublishedSince(keys, asked) ==
    /\ \A k \in keys : /\ published[k] # None
                       /\ withdrawn[k] # None => withdrawn[k] >= asked
    /\ \A k \in Keys \ keys :
          \/ published[k] = None \/ published[k] >= asked
          \/ withdrawn[k] # None

Init ==
    /\ now = 0
    /\ published \in [Keys -> {0, None}]
    /\ withdrawn = [k \in Keys |-> None]
    /\ document = None
    /\ asking = [c \in Calls |-> None]
    /\ told = [c \in Calls |-> None]

Publish(k) ==
    /\ published[k] = None
    /\ published' = [published EXCEPT ![k] = now]
    /\ UNCHANGED <<now, withdrawn, document, asking, told>>

Withdraw(k) ==
    /\ published[k] # None /\ withdrawn[k] = None
    /\ withdrawn' = [withdrawn EXCEPT ![k] = now]
    /\ UNCHANGED <<now, published, document, asking, told>>

Tick ==
    /\ now' = now + 1
    /\ UNCHANGED <<published, withdrawn, document, asking, told>>

\* a document of the provider takes the place of the one before
Renewed ==
    \E keys \in (SUBSET Keys) \cup {None}, asked \in 0 .. now :
        /\ document # None => document.stored <= asked
        /\ keys # None => PublishedSince(keys, asked)
        /\ document' = [keys |-> keys, asked |-> asked, stored |-> now]

Renew ==
    /\ Renewed
    /\ UNCHANGED <<now, published, withdrawn, asking, told>>

Ask(c, k) ==
    /\ asking[c] = None /\ told[c] = None
    /\ asking' = [asking EXCEPT ![c] = k]
    /\ UNCHANGED <<now, published, withdrawn, document, told>>

\* a token that names no key that could be looked up
Refuse(c) ==
    /\ asking[c] = None /\ told[c] = None
    /\ told' = [told EXCEPT ![c] = "invalid"]
    /\ UNCHANGED <<now, published, withdrawn, document, asking>>

\* the document a caller is answered from
Answering == document' # None /\ document'.keys # None /\ now - document'.stored < Ttl

Tell(c, verdict) ==
    /\ asking[c] # None
    /\ document' = document \/ Renewed
    /\ \/ verdict \in Unanswered
       \/ verdict \in Judged /\ Answering /\ asking[c] \in document'.keys
       \/ verdict = "unknown_key" /\ Answering /\ asking[c] \notin document'.keys
    /\ asking' = [asking EXCEPT ![c] = None]
    /\ told' = [told EXCEPT ![c] = verdict]
    /\ UNCHANGED <<now, published, withdrawn>>

Heard(c) ==
    /\ told[c] # None
    /\ told' = [told EXCEPT ![c] = None]
    /\ UNCHANGED <<now, published, withdrawn, document, asking>>

Next ==
    \/ \E c \in Calls :
          \/ \E k \in Keys : Ask(c, k)
          \/ \E verdict \in Judged \cup Unanswered \cup {"unknown_key"} :
                Tell(c, verdict)
          \/ Refuse(c) \/ Heard(c)
    \/ \E k \in Keys : Publish(k) \/ Withdraw(k)
    \/ Renew \/ Tick

Spec == Init /\ [][Next]_vars
=============================================================================
