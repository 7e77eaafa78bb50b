---------------------------- MODULE MCExtraction ----------------------------
(* A small instance of Extraction for TLC; liveness is checked, so no set is  *)
(* symmetric.  With MaxBytes = 2 a file of three bytes is given away by its    *)
(* exact length only and one of four by its encoded length.                  *)
EXTENDS Extraction

File(size, reading, chars) ==
    [delivery |-> "file", size |-> size, reading |-> reading,
     chars |-> chars, long |-> FALSE]

Unreadable(delivery) == [File(4, "text", 4) EXCEPT !.delivery = delivery]

MCDocuments ==
    {File(size, "text", 4) : size \in {2, 3, 4}}
    \cup {File(2, "text", 5)}
    \cup {File(2, reading, 0) : reading \in {"unknown_format", "too_many_members",
                                             "unparsable"}}
    \cup {Unreadable(delivery) : delivery \in {"nothing", "item", "bad_encoding"}}
    \cup {[File(2, "text", 4) EXCEPT !.long = TRUE]}
=============================================================================
