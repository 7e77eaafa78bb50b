------------------------ MODULE MCAttachmentUploads ------------------------
(* Small instances of AttachmentUploads for TLC. *)
EXTENDS UploadInvariants, TLC

Symmetry ==
    Permutations(Stagings) \cup Permutations(Grants) \cup Permutations(Pushes)
        \cup Permutations(Attaches) \cup Permutations(Owners)
        \cup Permutations(Drafts) \cup Permutations(Digests)
=============================================================================
