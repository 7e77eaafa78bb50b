------------------------ MODULE AttachmentDownloads ------------------------
(***************************************************************************)
(* Single-use download tickets: AttachmentDownloadStore, its route and its   *)
(* cleanup task (mail/downloads.py), filled by mail_download_attachment      *)
(* (mail/tools.py).                                                         *)
(*                                                                         *)
(* Every operation holds the store's lock and awaits nothing, so it is one   *)
(* action.  The OrderedDict is a sequence of rows, the oldest first: pruning *)
(* and eviction take rows from its front, a GET takes one from anywhere.    *)
(* A token is a fresh random value, named here for the call that mints it;   *)
(* the attachment behind it is its length.                                  *)
(***************************************************************************)
EXTENDS Integers, Sequences, FiniteSets, SequencesExt

CONSTANTS
    Downloads,       \* mail_download_attachment calls
    Gets,            \* GET /downloads/{token} requests
    Sizes,           \* lengths of attachments, an empty one included
    MaxItems,        \* max_items
    MaxTotalBytes,   \* max_total_bytes
    Ttl,             \* ttl_seconds
    CleanupPeriod,   \* min(60, max(1, ttl / 2))
    MaxTime,         \* bound on the clock
    None

VARIABLES
    clock,         \* time.monotonic()
    table,         \* _entries
    totalBytes,    \* _total_bytes
    nextCleanup,   \* when the sleep of _cleanup_loop ends
    issued,        \* the rows of the tickets handed out (history variable)
    gets           \* the requests and their answers

vars == <<clock, table, totalBytes, nextCleanup, issued, gets>>

Row == [token : Downloads, size : Sizes, expiresAt : Nat]

Get ==
    [token : Downloads \cup {None}, answer : {"none", "served", "notFound"},
     size : Sizes \cup {None}, at : Nat]

\* Settings.validate_attachment_download_capacity: an attachment of the largest
\* size that is fetched fits the store
ASSUME DownloadLimitsAssumption ==
    /\ MaxItems \in Nat \ {0}
    /\ MaxTotalBytes \in Nat \ {0}
    /\ Ttl \in Nat \ {0}
    /\ CleanupPeriod \in Nat \ {0}
    /\ MaxTime \in Nat
    /\ Sizes \subseteq 0 .. MaxTotalBytes
\* a process answers finitely many calls
ASSUME DownloadFiniteAssumption == IsFiniteSet(Downloads)
ASSUME DownloadNamesAssumption == None \notin Downloads \cup Sizes \cup Row

DownloadsTypeOK ==
    /\ clock \in Nat
    /\ table \in Seq(Row)
    /\ totalBytes \in Int
    /\ nextCleanup \in Nat
    /\ issued \in [Downloads -> Row \cup {None}]
    /\ gets \in [Gets -> Get]
    /\ \A g \in Gets : gets[g].answer # "none" => gets[g].token # None

-----------------------------------------------------------------------------
(* The table *)

\* the bytes of some rows, each named by its token and its position, and len()
\* of them
Bytes(rows) == UNION {{rows[i].token} \X (1 .. rows[i].size) : i \in DOMAIN rows}
BytesOf(rows) == Cardinality(Bytes(rows))

\* Mutant: `if` in place of `while`: one expired row is popped at most.
PrunedCountOne ==
    IF table # <<>> /\ table[1].expiresAt <= clock THEN 1 ELSE 0

\* how many rows _prune_locked pops: it stops at the first unexpired one
PrunedCount ==
    CHOOSE n \in 0 .. Len(table) :
        /\ \A i \in 1 .. n : table[i].expiresAt <= clock
        /\ n < Len(table) => table[n + 1].expiresAt > clock

\* what popitem(last=False) leaves after n calls
Without(n) == SubSeq(table, n + 1, Len(table))

\* Mutant: _remove_oldest_locked forgets the bytes of what it pops.
BytesWithoutUncounted(n) == totalBytes

\* _total_bytes after these calls
BytesWithout(n) == totalBytes - BytesOf(SubSeq(table, 1, n))

\* what a request for a token finds after pruning
Positions(token) == {i \in PrunedCount + 1 .. Len(table) : table[i].token = token}

\* Mutant: room is made for one row more than the new one.
FitsWithSpare(size, n) ==
    /\ Len(table) - n < MaxItems - 1
    /\ BytesWithout(n) + size <= MaxTotalBytes

\* the condition that ends the eviction loop
Fits(size, n) ==
    /\ Len(table) - n < MaxItems
    /\ BytesWithout(n) + size <= MaxTotalBytes

\* after pruning, issue evicts the oldest rows until the new one fits
EvictedCount(size) ==
    CHOOSE n \in PrunedCount .. Len(table) :
        /\ Fits(size, n) \/ n = Len(table)
        /\ \A fewer \in PrunedCount .. n - 1 : ~ Fits(size, fewer)

-----------------------------------------------------------------------------
Init ==
    /\ clock = 0
    /\ table = <<>>
    /\ totalBytes = 0
    /\ nextCleanup = CleanupPeriod
    /\ issued = [d \in Downloads |-> None]
    /\ gets = [g \in Gets |->
                 [token |-> None, answer |-> "none", size |-> None, at |-> 0]]

Prune ==
    /\ table' = Without(PrunedCount)
    /\ totalBytes' = BytesWithout(PrunedCount)

\* Mutant: the new row is put where popitem(last=False) looks first.
IssueAtFront(d, size) ==
    LET row == [token |-> d, size |-> size, expiresAt |-> clock + Ttl]
        n   == EvictedCount(size)
    IN  /\ issued[d] = None
        /\ table' = <<row>> \o Without(n)
        /\ totalBytes' = BytesWithout(n) + size
        /\ issued' = [issued EXCEPT ![d] = row]
        /\ UNCHANGED <<clock, nextCleanup, gets>>

\* issue, for an attachment that was just fetched
Issue(d, size) ==
    LET row == [token |-> d, size |-> size, expiresAt |-> clock + Ttl]
        n   == EvictedCount(size)
    IN  /\ issued[d] = None
        /\ table' = Append(Without(n), row)
        /\ totalBytes' = BytesWithout(n) + size
        /\ issued' = [issued EXCEPT ![d] = row]
        /\ UNCHANGED <<clock, nextCleanup, gets>>

Answered(g, token, answer, size) ==
    /\ gets[g].answer = "none"
    /\ gets' = [gets EXCEPT ![g] =
          [token |-> token, answer |-> answer, size |-> size, at |-> clock]]

\* Mutant: consume reads the row and leaves it in the table.
ServedAndKept(g, token) ==
    \E i \in Positions(token) :
        /\ Prune
        /\ Answered(g, token, "served", table[i].size)
        /\ UNCHANGED <<clock, nextCleanup, issued>>

\* consume pops the row before it looks at its expiry once more
Served(g, token) ==
    \E i \in Positions(token) :
        /\ table' = RemoveAt(Without(PrunedCount), i - PrunedCount)
        /\ totalBytes' = BytesWithout(PrunedCount) - table[i].size
        /\ IF table[i].expiresAt > clock
           THEN Answered(g, token, "served", table[i].size)
           ELSE Answered(g, token, "notFound", None)
        /\ UNCHANGED <<clock, nextCleanup, issued>>

\* spent, expired, evicted, lost and unknown tokens look alike
NotFound(g, token) ==
    /\ Positions(token) = {}
    /\ Prune
    /\ Answered(g, token, "notFound", None)
    /\ UNCHANGED <<clock, nextCleanup, issued>>

\* _cleanup_loop wakes up: purge_expired, then the next sleep
Cleanup ==
    /\ clock >= nextCleanup
    /\ Prune
    /\ nextCleanup' = clock + CleanupPeriod
    /\ UNCHANGED <<clock, issued, gets>>

\* aclose, or a crash; a new process starts with an empty table
Restart ==
    /\ table' = <<>>
    /\ totalBytes' = 0
    /\ nextCleanup' = clock + CleanupPeriod
    /\ UNCHANGED <<clock, issued, gets>>

\* the event loop runs the cleanup task on time
Tick ==
    /\ clock < MaxTime
    /\ clock < nextCleanup
    /\ clock' = clock + 1
    /\ UNCHANGED <<table, totalBytes, nextCleanup, issued, gets>>

Next ==
    \/ Tick \/ Cleanup \/ Restart
    \/ \E d \in Downloads, size \in Sizes : Issue(d, size)
    \/ \E g \in Gets, token \in Downloads : Served(g, token) \/ NotFound(g, token)

Spec == Init /\ [][Next]_vars

-----------------------------------------------------------------------------
(* Properties *)

(* The byte counter, which is kept apart from the table through issues,      *)
(* evictions, expiries, redemptions and shutdowns, is the truth, and the      *)
(* store never outgrows its two limits.                                      *)
WithinCapacity ==
    /\ totalBytes = BytesOf(table)
    /\ totalBytes <= MaxTotalBytes
    /\ Len(table) <= MaxItems

(* _prune_locked looks at the front of the table only.  Still no expired      *)
(* attachment outlives the next run of the cleanup task, whoever was served   *)
(* or evicted before.                                                        *)
TicketsReleasedInTime ==
    \A i \in 1 .. Len(table) : clock < table[i].expiresAt + CleanupPeriod

(* docs/security.md:102-106.  Of all the requests that present a ticket one  *)
(* at most is served; it gets the attachment the ticket was issued for, and   *)
(* gets it before the ticket expires.                                        *)
ServedOnce ==
    \A g \in Gets : gets[g].answer = "served" =>
        LET row == issued[gets[g].token]
        IN  /\ row # None
            /\ gets[g].size = row.size
            /\ gets[g].at < row.expiresAt
            /\ \A other \in Gets \ {g} :
                  gets[other].answer = "served" => gets[other].token # gets[g].token

(* Why the attachment is served once, and why the front of the table is      *)
(* enough: the table is in the order of expiry, its rows are the ones that    *)
(* were issued, each once, and none of them was served.                      *)
InOrder ==
    /\ \A i, j \in 1 .. Len(table) :
          /\ i < j => table[i].expiresAt <= table[j].expiresAt
          /\ table[i].token = table[j].token => i = j
    /\ \A i \in 1 .. Len(table) :
          /\ issued[table[i].token] = table[i]
          /\ nextCleanup < table[i].expiresAt + CleanupPeriod
          /\ table[i].expiresAt <= clock + Ttl
          /\ \A g \in Gets :
                gets[g].answer = "served" => gets[g].token # table[i].token
    /\ clock <= nextCleanup
    /\ nextCleanup <= clock + CleanupPeriod

DownloadsInv == DownloadsTypeOK /\ InOrder /\ ServedOnce

(* A ticket that has not expired is lost to nothing but its own request, a   *)
(* restart, or a newer ticket; and then only when that one did not fit beside *)
(* it, and after every older ticket.                                         *)
EvictedForRoom ==
    [][ \/ Restart
        \/ \A i \in 1 .. Len(table) :
              /\ table[i].expiresAt > clock
              /\ \A j \in 1 .. Len(table') : table'[j].token # table[i].token
              => \/ \E g \in Gets :
                       /\ gets[g].answer = "none"
                       /\ gets'[g].answer = "served"
                       /\ gets'[g].token = table[i].token
                 \/ \E d \in Downloads :
                       /\ issued[d] = None /\ issued'[d] # None
                       /\ \A j \in 1 .. Len(table') :
                             \A older \in 1 .. i : table'[j].token # table[older].token
                       /\ \/ Len(table) - i + 1 >= MaxItems
                          \/ BytesOf(SubSeq(table, i, Len(table))) + issued'[d].size
                                > MaxTotalBytes ]_vars

(* The store implements the abstract single-use handles, which are staged    *)
(* without a grant.                                                          *)
Tickets == {table[i].token : i \in 1 .. Len(table)}
Minted == {d \in Downloads : issued[d] # None}
Gone == Minted \ Tickets
Promises == [d \in Downloads |-> IF d \in Minted THEN issued[d].size ELSE None]
Takers ==
    [d \in Downloads |-> {g \in Gets : gets[g].answer = "served" /\ gets[g].token = d}]

Abstract == INSTANCE SingleUseHandles WITH
    Handles    <- Downloads,
    Promises   <- Sizes,
    Takers     <- Gets,
    MaxStaged  <- MaxItems,
    MaxGranted <- 0,
    granted    <- {},
    staged     <- Tickets,
    gone       <- Gone,
    promise    <- Promises,
    takers     <- Takers

TicketsAreSingleUse == Abstract!Spec
=============================================================================
