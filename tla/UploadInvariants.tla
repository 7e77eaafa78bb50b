-------------------------- MODULE UploadInvariants --------------------------
(***************************************************************************)
(* Why a handle is used once and keeps its promise: the inductive invariant *)
(* of the upload store.  MCAttachmentUploads checks it on small instances,  *)
(* UploadProofs proves it.                                                  *)
(***************************************************************************)
EXTENDS AttachmentUploads

(* The cleanup task is never late, and what is stored was not yet expired    *)
(* the last time it ran.                                                     *)
CleanupIsNear ==
    /\ clock <= nextCleanup
    /\ nextCleanup <= clock + CleanupPeriod
    /\ \A h \in Handles :
          entries[h] # None => nextCleanup < entries[h].expiresAt + CleanupPeriod
    /\ \A g \in Grants :
          grants[g] # None => nextCleanup < grants[g].expiresAt + CleanupPeriod

(* A handle is minted, granted, filled, taken, and never goes back: it is in *)
(* one table at most, a pushed one is no longer granted, a taken one is in   *)
(* no table.                                                                 *)
HandlesAge ==
    /\ \A b \in Bodies :
          /\ bodies[b].answer # "none" => BodyAt(b, "done")
          /\ bodies[b].answer = "created" => bodies[b].content # None
    /\ \A h \in Handles : entries[h] # None => Minted(h)
    /\ \A g \in Grants : grants[g] # None => prepared[g] # None /\ entries[g] = None
    /\ \A b \in Pushes :
          bodies[b].answer = "created" =>
              /\ bodies[b].handle \in Grants
              /\ Minted(bodies[b].handle)
              /\ grants[bodies[b].handle] = None
    /\ \A a \in Attaches :
          attaches[a].answer = "taken" =>
              /\ attaches[a].handle \in Handles
              /\ Minted(attaches[a].handle)
              /\ entries[attaches[a].handle] = None
              /\ attaches[a].handle \in Grants => grants[attaches[a].handle] = None

UploadsInv == UploadsTypeOK /\ CleanupIsNear /\ HandlesAge /\ TakenAsPromised /\ UsedOnce
=============================================================================
