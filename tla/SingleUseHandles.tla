-------------------------- MODULE SingleUseHandles --------------------------
(***************************************************************************)
(* What the attachment stores promise to the outside, with no clock,        *)
(* no byte and no request in flight: a handle is granted or staged once,    *)
(* stands for one promise (owner, draft, content) all its life, is taken by *)
(* at most one taker, and a handle that is gone never works again.  At most *)
(* MaxStaged handles hold a file and MaxGranted wait for one.               *)
(***************************************************************************)
EXTENDS Integers, FiniteSets

CONSTANTS Handles, Promises, Takers, MaxStaged, MaxGranted, None

VARIABLES
    granted,   \* handles waiting for their file
    staged,    \* handles that hold a file
    gone,      \* handles that were taken, or expired, or were lost
    promise,   \* what each handle stands for, None before it is minted
    takers     \* who was given the file of each handle

vars == <<granted, staged, gone, promise, takers>>

Init ==
    /\ granted = {}
    /\ staged = {}
    /\ gone = {}
    /\ promise = [h \in Handles |-> None]
    /\ takers = [h \in Handles |-> {}]

Fresh(h) == promise[h] = None

(* Every operation may drop handles on its way: the expired ones. *)
Dropped(D) ==
    /\ granted' = granted \ D
    /\ staged' = staged \ D
    /\ gone' = gone \cup (D \cap (granted \cup staged))

Drop(D) == Dropped(D) /\ UNCHANGED <<promise, takers>>

Grant(h, p, D) ==
    /\ Fresh(h)
    /\ Cardinality(granted \ D) < MaxGranted
    /\ granted' = (granted \ D) \cup {h}
    /\ staged' = staged \ D
    /\ gone' = gone \cup (D \cap (granted \cup staged))
    /\ promise' = [promise EXCEPT ![h] = p]
    /\ UNCHANGED takers

Stage(h, p, D) ==
    /\ Fresh(h)
    /\ Cardinality(staged \ D) < MaxStaged
    /\ granted' = granted \ D
    /\ staged' = (staged \ D) \cup {h}
    /\ gone' = gone \cup (D \cap (granted \cup staged))
    /\ promise' = [promise EXCEPT ![h] = p]
    /\ UNCHANGED takers

Fill(h, D) ==
    /\ h \in granted \ D
    /\ Cardinality(staged \ D) < MaxStaged
    /\ granted' = granted \ (D \cup {h})
    /\ staged' = (staged \ D) \cup {h}
    /\ gone' = gone \cup (D \cap (granted \cup staged))
    /\ UNCHANGED <<promise, takers>>

(* a handle works once: it is dropped as its file is given away *)
Take(h, t, D) ==
    /\ h \in staged \ D
    /\ Dropped(D \cup {h})
    /\ takers' = [takers EXCEPT ![h] = @ \cup {t}]
    /\ UNCHANGED promise

Next ==
    \E D \in SUBSET Handles :
        \/ Drop(D)
        \/ \E h \in Handles :
              \/ Fill(h, D)
              \/ \E t \in Takers : Take(h, t, D)
              \/ \E p \in Promises : Grant(h, p, D) \/ Stage(h, p, D)

Spec == Init /\ [][Next]_vars
=============================================================================
