----------------------- MODULE MCAttachmentDownloads -----------------------
(* Small instances of AttachmentDownloads for TLC. *)
EXTENDS AttachmentDownloads, TLC

Symmetry == Permutations(Downloads) \cup Permutations(Gets)
=============================================================================
