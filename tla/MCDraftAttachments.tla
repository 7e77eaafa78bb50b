------------------------- MODULE MCDraftAttachments -------------------------
(* A small instance of DraftAttachments for TLC; liveness is checked, so no   *)
(* set is symmetric.                                                        *)
EXTENDS DraftAttachments
=============================================================================
