--------------------------- MODULE DownloadProofs ---------------------------
(***************************************************************************)
(* Proofs about AttachmentDownloads: the table stays in the order of expiry, *)
(* so looking at its front frees every expired attachment in time, and a     *)
(* ticket is served once, before it expires.                                *)
(***************************************************************************)
EXTENDS AttachmentDownloads, SequenceTheorems, FiniteSetTheorems,
        WellFoundedInduction, TLAPS

(* Every set of naturals has a least element: why the loops that count the   *)
(* rows to pop stop at a number.                                             *)
LEMMA LeastNat ==
    ASSUME NEW T \in SUBSET Nat, T # {}
    PROVE  \E n \in T : \A m \in T : n <= m
<1> DEFINE R == {p \in Nat \X Nat : p[1] < p[2]}
<1>1. IsWellFoundedOn(R, Nat)
    BY NatLessThanWellFounded, Zenon DEF OpToRel
<1>2. PICK x \in T : \A y \in T : ~ (<<y, x>> \in R)
  <2> HIDE DEF R
  <2> QED  BY <1>1, WFMin
<1>3. \A y \in T : ~ (y < x)
    BY <1>2
<1> QED  BY <1>3

LEMMA TableRows ==
    ASSUME DownloadsTypeOK
    PROVE  /\ Len(table) \in Nat
           /\ \A i \in 1 .. Len(table) :
                 /\ table[i] \in Row
                 /\ table[i].token \in Downloads
                 /\ table[i].size \in Sizes
                 /\ table[i].expiresAt \in Nat
<1>1. table \in Seq(Row)
    BY DEF DownloadsTypeOK
<1>2. Len(table) \in Nat /\ \A i \in 1 .. Len(table) : table[i] \in Row
    BY <1>1
<1> QED  BY <1>2 DEF Row

(* _prune_locked pops expired rows only, and stops at a live one. *)
LEMMA PrunedCountFacts ==
    ASSUME DownloadsTypeOK
    PROVE  /\ PrunedCount \in 0 .. Len(table)
           /\ \A i \in 1 .. PrunedCount : table[i].expiresAt <= clock
           /\ PrunedCount < Len(table) => table[PrunedCount + 1].expiresAt > clock
<1> DEFINE Stops(n) == n < Len(table) => table[n + 1].expiresAt > clock
           T == {n \in 0 .. Len(table) : Stops(n)}
<1>1. Len(table) \in Nat /\ clock \in Nat
    BY DEF DownloadsTypeOK
<1>2. T \in SUBSET Nat /\ Len(table) \in T
    BY <1>1
<1>3. PICK n \in T : \A m \in T : n <= m
  <2> HIDE DEF T
  <2> QED  BY <1>2, LeastNat
<1>4. ASSUME NEW i \in 1 .. n
      PROVE  table[i].expiresAt <= clock
  <2>1. i - 1 \in 0 .. Len(table) /\ i - 1 < n
      BY <1>1
  <2>2. i - 1 \notin T
    <3>1. n \in Nat
        BY <1>1
    <3> HIDE DEF T
    <3> QED  BY <1>3, <2>1, <3>1
  <2>3. i \in 1 .. Len(table) /\ ~ (table[i].expiresAt > clock)
      BY <2>1, <2>2, <1>1
  <2> QED  BY <2>3, <1>1, TableRows
<1> HIDE DEF T
<1>5. \E k \in 0 .. Len(table) :
        /\ \A i \in 1 .. k : table[i].expiresAt <= clock
        /\ k < Len(table) => table[k + 1].expiresAt > clock
    BY <1>3, <1>4 DEF T
<1> QED  BY <1>5 DEF PrunedCount

(* issue pops at least the expired rows and at most all of them, and stops   *)
(* as soon as the new row fits.                                              *)
LEMMA EvictedCountFacts ==
    ASSUME DownloadsTypeOK, NEW size \in Sizes
    PROVE  /\ EvictedCount(size) \in PrunedCount .. Len(table)
           /\ Fits(size, EvictedCount(size)) \/ EvictedCount(size) = Len(table)
           /\ \A fewer \in PrunedCount .. EvictedCount(size) - 1 : ~ Fits(size, fewer)
<1> DEFINE T == {n \in PrunedCount .. Len(table) : Fits(size, n) \/ n = Len(table)}
<1>1. Len(table) \in Nat /\ PrunedCount \in 0 .. Len(table)
    BY PrunedCountFacts DEF DownloadsTypeOK
<1>2. T \in SUBSET Nat /\ Len(table) \in T
    BY <1>1
<1>3. PICK n \in T : \A m \in T : n <= m
  <2> HIDE DEF T
  <2> QED  BY <1>2, LeastNat
<1>4. \A fewer \in PrunedCount .. n - 1 : ~ Fits(size, fewer)
    BY <1>1, <1>3
<1>5. \E k \in PrunedCount .. Len(table) :
        /\ Fits(size, k) \/ k = Len(table)
        /\ \A fewer \in PrunedCount .. k - 1 : ~ Fits(size, fewer)
    BY <1>3, <1>4
<1> HIDE DEF T
<1> QED  BY <1>5 DEF EvictedCount

(* What is left when the n oldest rows are popped. *)
LEMMA WithoutFacts ==
    ASSUME DownloadsTypeOK, NEW n \in 0 .. Len(table)
    PROVE  /\ Without(n) \in Seq(Row)
           /\ Len(Without(n)) = Len(table) - n
           /\ \A i \in 1 .. Len(table) - n : Without(n)[i] = table[n + i]
<1>1. table \in Seq(Row) /\ Len(table) \in Nat
    BY DEF DownloadsTypeOK
<1>2. \A i \in n + 1 .. Len(table) : table[i] \in Row
    BY <1>1
<1>3. n + 1 \in Int /\ Len(table) \in Int
    BY <1>1
<1>4. /\ Without(n) \in Seq(Row)
      /\ Len(Without(n)) = IF n + 1 <= Len(table) THEN Len(table) - (n + 1) + 1 ELSE 0
      /\ \A i \in 1 .. Len(table) - (n + 1) + 1 : Without(n)[i] = table[n + 1 + i - 1]
    BY <1>2, <1>3, SubSeqProperties DEF Without
<1> QED  BY <1>1, <1>4

(* What is left when a request takes the row at position i. *)
LEMMA RemovedFacts ==
    ASSUME DownloadsTypeOK, NEW n \in 0 .. Len(table),
           NEW i \in 1 .. Len(table) - n
    PROVE  LET rest == RemoveAt(Without(n), i)
           IN  /\ rest \in Seq(Row)
               /\ Len(rest) = Len(table) - n - 1
               /\ \A j \in 1 .. Len(table) - n - 1 :
                     rest[j] = table[IF j < i THEN n + j ELSE n + j + 1]
<1> DEFINE s == Without(n)
           front == SubSeq(s, 1, i - 1)
           back == SubSeq(s, i + 1, Len(s))
<1>1. /\ s \in Seq(Row) /\ Len(s) = Len(table) - n
      /\ Len(table) \in Nat
      /\ \A j \in 1 .. Len(table) - n : s[j] = table[n + j]
    BY WithoutFacts DEF DownloadsTypeOK
<1> HIDE DEF s
<1>2. /\ front \in Seq(Row) /\ Len(front) = i - 1
      /\ \A j \in 1 .. i - 1 : front[j] = s[j]
  <2>1. \A j \in 1 .. i - 1 : s[j] \in Row
      BY <1>1
  <2> QED  BY <2>1, SubSeqProperties
<1>3. /\ back \in Seq(Row) /\ Len(back) = Len(s) - i
      /\ \A j \in 1 .. Len(s) - i : back[j] = s[i + j]
  <2>1. \A j \in i + 1 .. Len(s) : s[j] \in Row
      BY <1>1
  <2>2. i + 1 \in Int /\ Len(s) \in Int
      BY <1>1
  <2>3. /\ back \in Seq(Row)
        /\ Len(back) = IF i + 1 <= Len(s) THEN Len(s) - (i + 1) + 1 ELSE 0
        /\ \A j \in 1 .. Len(s) - (i + 1) + 1 : back[j] = s[i + 1 + j - 1]
      BY <2>1, <2>2, SubSeqProperties
  <2> HIDE DEF back
  <2>4. /\ Len(s) - (i + 1) + 1 = Len(s) - i
        /\ Len(back) = Len(s) - i
    <3>1. i \in Int /\ i <= Len(s)
        BY <1>1
    <3> QED  BY <2>2, <2>3, <3>1
  <2>5. \A j \in 1 .. Len(s) - i : i + 1 + j - 1 = i + j
      BY <2>2
  <2> QED  BY <2>3, <2>4, <2>5
<1>4. RemoveAt(s, i) = front \o back
    BY DEF RemoveAt
<1> HIDE DEF front, back
<1>5. /\ front \o back \in Seq(Row)
      /\ Len(front \o back) = Len(front) + Len(back)
      /\ \A j \in 1 .. Len(front) + Len(back) : (front \o back)[j] =
            IF j <= Len(front) THEN front[j] ELSE back[j - Len(front)]
    BY <1>2, <1>3, ConcatProperties
<1> DEFINE rest == RemoveAt(s, i)
<1>6. /\ rest \in Seq(Row)
      /\ Len(rest) = Len(table) - n - 1
      /\ \A j \in 1 .. Len(rest) : rest[j] = IF j <= i - 1 THEN front[j] ELSE back[j - (i - 1)]
    BY <1>1, <1>2, <1>3, <1>4, <1>5
<1> HIDE DEF rest
<1>7. ASSUME NEW j \in 1 .. Len(table) - n - 1
      PROVE  rest[j] = table[IF j < i THEN n + j ELSE n + j + 1]
  <2>1. CASE j < i
      BY <2>1, <1>1, <1>2, <1>6
  <2>2. CASE ~ (j < i)
    <3>1. j - (i - 1) \in 1 .. Len(s) - i /\ j + 1 \in 1 .. Len(table) - n
        BY <2>2, <1>1
    <3>2. rest[j] = back[j - (i - 1)] /\ back[j - (i - 1)] = s[i + (j - (i - 1))]
        BY <2>2, <3>1, <1>1, <1>3, <1>6
    <3>3. i + (j - (i - 1)) = j + 1 /\ n + (j + 1) = n + j + 1
        BY <1>1
    <3>4. s[j + 1] = table[n + (j + 1)]
        BY <3>1, <1>1
    <3> QED  BY <2>2, <3>2, <3>3, <3>4
  <2> QED  BY <2>1, <2>2
<1> QED  BY <1>6, <1>7 DEF rest, s

LEMMA BytesAreFinite ==
    ASSUME NEW rows \in Seq(Row)
    PROVE  IsFiniteSet(Bytes(rows)) /\ BytesOf(rows) \in Nat
<1>1. Bytes(rows) \subseteq Downloads \X (1 .. MaxTotalBytes)
  <2> SUFFICES ASSUME NEW i \in DOMAIN rows
               PROVE  {rows[i].token} \X (1 .. rows[i].size)
                          \subseteq Downloads \X (1 .. MaxTotalBytes)
      BY Zenon DEF Bytes
  <2>1. rows[i] \in Row
      OBVIOUS
  <2>2. rows[i].token \in Downloads /\ rows[i].size \in 0 .. MaxTotalBytes
      BY <2>1, DownloadLimitsAssumption DEF Row
  <2>3. 1 .. rows[i].size \subseteq 1 .. MaxTotalBytes
      BY <2>2, DownloadLimitsAssumption
  <2> QED  BY <2>2, <2>3
<1>2. IsFiniteSet(Downloads \X (1 .. MaxTotalBytes))
  <2>1. 1 \in Int /\ MaxTotalBytes \in Int
      BY DownloadLimitsAssumption
  <2>2. IsFiniteSet(1 .. MaxTotalBytes)
      BY <2>1, FS_Interval
  <2> QED  BY <2>2, DownloadFiniteAssumption, FS_Product
<1>3. IsFiniteSet(Bytes(rows))
    BY <1>1, <1>2, FS_Subset
<1> QED  BY <1>3, FS_CardinalityType DEF BytesOf

LEMMA PoppedRows ==
    ASSUME DownloadsTypeOK, NEW n \in 0 .. Len(table)
    PROVE  /\ SubSeq(table, 1, n) \in Seq(Row)
           /\ Len(SubSeq(table, 1, n)) = n
           /\ \A i \in 1 .. n : SubSeq(table, 1, n)[i] = table[i]
           /\ BytesWithout(n) \in Int
<1>1. table \in Seq(Row) /\ Len(table) \in Nat /\ totalBytes \in Int
    BY DEF DownloadsTypeOK
<1>2. \A i \in 1 .. n : table[i] \in Row
    BY <1>1
<1>3. /\ SubSeq(table, 1, n) \in Seq(Row)
      /\ Len(SubSeq(table, 1, n)) = IF 1 <= n THEN n - 1 + 1 ELSE 0
      /\ \A i \in 1 .. n - 1 + 1 : SubSeq(table, 1, n)[i] = table[1 + i - 1]
  <2>1. 1 \in Int /\ n \in Int
      BY <1>1
  <2> QED  BY <1>2, <2>1, SubSeqProperties
<1>4. BytesOf(SubSeq(table, 1, n)) \in Nat
    BY <1>3, BytesAreFinite
<1> QED  BY <1>1, <1>3, <1>4 DEF BytesWithout

-----------------------------------------------------------------------------
LEMMA InitialState == Init => DownloadsInv
<1> SUFFICES ASSUME Init PROVE DownloadsInv
    OBVIOUS
<1>1. DownloadsTypeOK
    BY DownloadLimitsAssumption DEF Init, DownloadsTypeOK, Get
<1>2. InOrder
    BY DownloadLimitsAssumption DEF Init, InOrder
<1>3. ServedOnce
    BY DEF Init, ServedOnce
<1> QED  BY <1>1, <1>2, <1>3 DEF DownloadsInv

(* In a table in order, what pruning leaves has not expired. *)
LEMMA KeptIsLive ==
    ASSUME DownloadsInv
    PROVE  \A i \in PrunedCount + 1 .. Len(table) : table[i].expiresAt > clock
<1>1. PrunedCount \in 0 .. Len(table) /\ Len(table) \in Nat /\ clock \in Nat
    BY PrunedCountFacts DEF DownloadsInv, DownloadsTypeOK
<1> SUFFICES ASSUME NEW i \in PrunedCount + 1 .. Len(table)
             PROVE  table[i].expiresAt > clock
    OBVIOUS
<1>2. PrunedCount + 1 \in 1 .. Len(table) /\ i \in 1 .. Len(table)
    BY <1>1
<1>3. table[PrunedCount + 1].expiresAt > clock
    BY <1>1, <1>2, PrunedCountFacts DEF DownloadsInv
<1>4. PrunedCount + 1 < i => table[PrunedCount + 1].expiresAt <= table[i].expiresAt
    BY <1>2 DEF DownloadsInv, InOrder
<1>5. /\ table[PrunedCount + 1].expiresAt \in Nat
      /\ table[i].expiresAt \in Nat
    BY <1>2, TableRows DEF DownloadsInv
<1> QED  BY <1>1, <1>3, <1>4, <1>5

RowsStayInOrder ==
    /\ table' \in Seq(Row)
    /\ \A i, j \in 1 .. Len(table') :
          /\ i < j => table'[i].expiresAt <= table'[j].expiresAt
          /\ table'[i].token = table'[j].token => i = j
    /\ \A i \in 1 .. Len(table') :
          /\ issued[table'[i].token] = table'[i]
          /\ table'[i].expiresAt \in Nat
          /\ table'[i].expiresAt <= clock + Ttl
          /\ nextCleanup < table'[i].expiresAt + CleanupPeriod
          /\ \A g \in Gets :
                gets[g].answer = "served" => gets[g].token # table'[i].token

(* A step that takes rows out of the table and mints none keeps the order:   *)
(* the new table is the old one read at the increasing positions Of.         *)
LEMMA ThinnedInOrder ==
    ASSUME DownloadsInv, table' \in Seq(Row),
           NEW Of \in [1 .. Len(table') -> 1 .. Len(table)],
           \A i \in 1 .. Len(table') : table'[i] = table[Of[i]],
           \A i, j \in 1 .. Len(table') : i < j => Of[i] < Of[j]
    PROVE  RowsStayInOrder
<1>1. Len(table') \in Nat /\ Len(table) \in Nat
    BY DEF DownloadsInv, DownloadsTypeOK
<1>2. ASSUME NEW i \in 1 .. Len(table'), NEW j \in 1 .. Len(table')
      PROVE  /\ i < j => table'[i].expiresAt <= table'[j].expiresAt
             /\ table'[i].token = table'[j].token => i = j
  <2>1. /\ Of[i] \in 1 .. Len(table) /\ Of[j] \in 1 .. Len(table)
        /\ table'[i] = table[Of[i]] /\ table'[j] = table[Of[j]]
      OBVIOUS
  <2>2. /\ Of[i] < Of[j] => table[Of[i]].expiresAt <= table[Of[j]].expiresAt
        /\ table[Of[i]].token = table[Of[j]].token => Of[i] = Of[j]
      BY <2>1 DEF DownloadsInv, InOrder
  <2>3. i < j => Of[i] < Of[j]
      OBVIOUS
  <2>4. j < i => Of[j] < Of[i]
      OBVIOUS
  <2> QED  BY <2>1, <2>2, <2>3, <2>4
<1>3. ASSUME NEW i \in 1 .. Len(table')
      PROVE  /\ issued[table'[i].token] = table'[i]
             /\ table'[i].expiresAt \in Nat
             /\ table'[i].expiresAt <= clock + Ttl
             /\ nextCleanup < table'[i].expiresAt + CleanupPeriod
             /\ \A g \in Gets :
                   gets[g].answer = "served" => gets[g].token # table'[i].token
  <2>1. Of[i] \in 1 .. Len(table) /\ table'[i] = table[Of[i]]
      OBVIOUS
  <2>2. table[Of[i]].expiresAt \in Nat
      BY <2>1, TableRows DEF DownloadsInv
  <2> QED  BY <2>1, <2>2 DEF DownloadsInv, InOrder
<1> QED  BY <1>2, <1>3 DEF RowsStayInOrder

LEMMA PoppedInOrder ==
    ASSUME DownloadsInv, NEW n \in 0 .. Len(table), table' = Without(n)
    PROVE  RowsStayInOrder
<1> DEFINE Of == [i \in 1 .. Len(table) - n |-> n + i]
<1>1. /\ table' \in Seq(Row) /\ Len(table') = Len(table) - n
      /\ \A i \in 1 .. Len(table) - n : table'[i] = table[n + i]
    BY WithoutFacts DEF DownloadsInv
<1>2. Len(table) \in Nat
    BY DEF DownloadsInv, DownloadsTypeOK
<1>3. Of \in [1 .. Len(table') -> 1 .. Len(table)]
    BY <1>1, <1>2
<1>4. /\ \A i \in 1 .. Len(table') : table'[i] = table[Of[i]]
      /\ \A i, j \in 1 .. Len(table') : i < j => Of[i] < Of[j]
    BY <1>1, <1>2
<1> HIDE DEF Of
<1> QED  BY <1>1, <1>3, <1>4, ThinnedInOrder

LEMMA RemovedInOrder ==
    ASSUME DownloadsInv, NEW n \in 0 .. Len(table), NEW i \in n + 1 .. Len(table),
           table' = RemoveAt(Without(n), i - n)
    PROVE  /\ RowsStayInOrder
           /\ \A j \in 1 .. Len(table') : table'[j].token # table[i].token
<1> DEFINE Of == [j \in 1 .. Len(table) - n - 1 |->
                    IF j < i - n THEN n + j ELSE n + j + 1]
<1>1. Len(table) \in Nat /\ i - n \in 1 .. Len(table) - n
    BY DEF DownloadsInv, DownloadsTypeOK
<1>2. /\ table' \in Seq(Row) /\ Len(table') = Len(table) - n - 1
      /\ \A j \in 1 .. Len(table) - n - 1 :
            table'[j] = table[IF j < i - n THEN n + j ELSE n + j + 1]
    BY <1>1, RemovedFacts DEF DownloadsInv
<1>3. Of \in [1 .. Len(table') -> 1 .. Len(table)]
    BY <1>1, <1>2
<1>4. /\ \A j \in 1 .. Len(table') : table'[j] = table[Of[j]] /\ Of[j] # i
      /\ \A j, k \in 1 .. Len(table') : j < k => Of[j] < Of[k]
  <2>1. \A j \in 1 .. Len(table') : table'[j] = table[Of[j]]
      BY <1>2
  <2>2. \A j \in 1 .. Len(table') : Of[j] = IF j < i - n THEN n + j ELSE n + j + 1
      BY <1>2
  <2> HIDE DEF Of
  <2>3. \A j \in 1 .. Len(table') : Of[j] # i
      BY <1>1, <2>2
  <2>4. \A j, k \in 1 .. Len(table') : j < k => Of[j] < Of[k]
      BY <1>1, <2>2
  <2> QED  BY <2>1, <2>3, <2>4
<1> HIDE DEF Of
<1>5. RowsStayInOrder
    BY <1>2, <1>3, <1>4, ThinnedInOrder
<1>6. \A j \in 1 .. Len(table') : table'[j].token # table[i].token
  <2>1. i \in 1 .. Len(table)
      BY <1>1
  <2> QED  BY <2>1, <1>3, <1>4 DEF DownloadsInv, InOrder
<1> QED  BY <1>5, <1>6

-----------------------------------------------------------------------------
LEMMA IssueKeeps ==
    ASSUME DownloadsInv, NEW d \in Downloads, NEW size \in Sizes, Issue(d, size)
    PROVE  DownloadsInv'
<1> DEFINE n == EvictedCount(size)
           old == Without(n)
           row == [token |-> d, size |-> size, expiresAt |-> clock + Ttl]
<1>1. /\ DownloadsTypeOK /\ InOrder /\ ServedOnce
      /\ Len(table) \in Nat /\ clock \in Nat /\ nextCleanup \in Nat
    BY DEF DownloadsInv, DownloadsTypeOK
<1>2. n \in 0 .. Len(table)
    BY <1>1, EvictedCountFacts, PrunedCountFacts
<1>3. /\ issued[d] = None
      /\ table' = Append(old, row)
      /\ totalBytes' = BytesWithout(n) + size
      /\ issued' = [issued EXCEPT ![d] = row]
      /\ clock' = clock /\ nextCleanup' = nextCleanup /\ gets' = gets
    BY DEF Issue
<1> HIDE DEF n
<1>4. /\ old \in Seq(Row) /\ Len(old) = Len(table) - n
      /\ \A i \in 1 .. Len(table) - n : old[i] = table[n + i]
    BY <1>1, <1>2, WithoutFacts
<1>5. row \in Row /\ row.expiresAt = clock + Ttl /\ row.token = d
    BY <1>1, DownloadLimitsAssumption DEF Row
<1> HIDE DEF old, row
<1>6. /\ table' \in Seq(Row) /\ Len(table') = Len(old) + 1
      /\ \A i \in 1 .. Len(old) : table'[i] = old[i]
      /\ table'[Len(old) + 1] = row
    BY <1>3, <1>4, <1>5, AppendProperties
<1>7. \A i \in 1 .. Len(old) : n + i \in 1 .. Len(table) /\ table'[i] = table[n + i]
    BY <1>1, <1>2, <1>4, <1>6
<1>8. \A i \in 1 .. Len(old) :
         /\ table'[i].token # d
         /\ table'[i].expiresAt \in Nat
         /\ table'[i].expiresAt <= clock + Ttl
         /\ issued[table'[i].token] = table'[i]
  <2> SUFFICES ASSUME NEW i \in 1 .. Len(old)
               PROVE  /\ table'[i].token # d
                      /\ table'[i].expiresAt \in Nat
                      /\ table'[i].expiresAt <= clock + Ttl
                      /\ issued[table'[i].token] = table'[i]
      OBVIOUS
  <2>1. n + i \in 1 .. Len(table) /\ table'[i] = table[n + i]
      BY <1>7
  <2>2. /\ issued[table[n + i].token] = table[n + i]
        /\ table[n + i].expiresAt <= clock + Ttl
      BY <1>1, <2>1 DEF InOrder
  <2>3. table[n + i] \in Row /\ table[n + i].expiresAt \in Nat
      BY <1>1, <2>1, TableRows
  <2>4. table[n + i] # None
      BY <2>3, DownloadNamesAssumption
  <2> QED  BY <1>3, <2>1, <2>2, <2>3, <2>4
<1>9. DownloadsTypeOK'
  <2>1. totalBytes' \in Int
      BY <1>1, <1>2, <1>3, PoppedRows, DownloadLimitsAssumption
  <2>2. issued' \in [Downloads -> Row \cup {None}]
      BY <1>1, <1>3, <1>5 DEF DownloadsTypeOK
  <2> QED  BY <1>1, <1>3, <1>6, <2>1, <2>2 DEF DownloadsTypeOK
<1>10. InOrder'
  <2>1. ASSUME NEW i \in 1 .. Len(table'), NEW j \in 1 .. Len(table')
        PROVE  /\ i < j => table'[i].expiresAt <= table'[j].expiresAt
               /\ table'[i].token = table'[j].token => i = j
    <3>1. CASE i \in 1 .. Len(old) /\ j \in 1 .. Len(old)
      <4>1. /\ n + i \in 1 .. Len(table) /\ table'[i] = table[n + i]
            /\ n + j \in 1 .. Len(table) /\ table'[j] = table[n + j]
          BY <1>7, <3>1
      <4>2. /\ n + i < n + j => table[n + i].expiresAt <= table[n + j].expiresAt
            /\ table[n + i].token = table[n + j].token => n + i = n + j
          BY <1>1, <4>1 DEF InOrder
      <4> QED  BY <1>2, <4>1, <4>2
    <3>2. CASE i \in 1 .. Len(old) /\ j = Len(old) + 1
        BY <3>2, <1>5, <1>6, <1>8
    <3>3. CASE i = Len(old) + 1 /\ j \in 1 .. Len(old)
        BY <3>3, <1>4, <1>5, <1>6, <1>8
    <3>4. CASE i = Len(old) + 1 /\ j = Len(old) + 1
        BY <3>4
    <3> QED  BY <3>1, <3>2, <3>3, <3>4, <1>4, <1>6
  <2>2. ASSUME NEW i \in 1 .. Len(table')
        PROVE  /\ issued'[table'[i].token] = table'[i]
               /\ nextCleanup' < table'[i].expiresAt + CleanupPeriod
               /\ table'[i].expiresAt <= clock' + Ttl
               /\ \A g \in Gets :
                     gets'[g].answer = "served" => gets'[g].token # table'[i].token
    <3>1. CASE i \in 1 .. Len(old)
      <4>1. n + i \in 1 .. Len(table) /\ table'[i] = table[n + i]
          BY <1>7, <3>1
      <4>2. table[n + i].token \in Downloads
          BY <1>1, <4>1, TableRows
      <4> QED  BY <1>1, <1>3, <1>8, <3>1, <4>1, <4>2 DEF InOrder, DownloadsTypeOK
    <3>2. CASE i = Len(old) + 1
      <4>1. issued'[d] = row /\ table'[i] = row
          BY <1>1, <1>3, <1>6, <3>2 DEF DownloadsTypeOK
      <4>2. nextCleanup < clock + Ttl + CleanupPeriod
          BY <1>1, DownloadLimitsAssumption DEF InOrder
      <4>3. \A g \in Gets : gets[g].answer = "served" => gets[g].token # d
          BY <1>1, <1>3 DEF ServedOnce
      <4>4. row.expiresAt <= clock + Ttl
          BY <1>1, <1>5, DownloadLimitsAssumption
      <4> QED  BY <1>3, <1>5, <4>1, <4>2, <4>3, <4>4
    <3> QED  BY <3>1, <3>2, <1>4, <1>6
  <2>3. clock' <= nextCleanup' /\ nextCleanup' <= clock' + CleanupPeriod
      BY <1>1, <1>3 DEF InOrder
  <2> QED  BY <2>1, <2>2, <2>3 DEF InOrder
<1>11. ServedOnce'
  <2>1. \A token \in Downloads : issued[token] # None => issued'[token] = issued[token]
      BY <1>1, <1>3 DEF DownloadsTypeOK
  <2>2. \A g \in Gets : gets[g].answer = "served" => gets[g].token \in Downloads
      BY <1>1 DEF DownloadsTypeOK, Get
  <2> QED  BY <1>1, <1>3, <2>1, <2>2 DEF ServedOnce
<1> QED  BY <1>9, <1>10, <1>11 DEF DownloadsInv

LEMMA ServedKeeps ==
    ASSUME DownloadsInv, NEW g \in Gets, NEW token \in Downloads, Served(g, token)
    PROVE  DownloadsInv'
<1>1. /\ DownloadsTypeOK /\ InOrder /\ ServedOnce
      /\ Len(table) \in Nat /\ clock \in Nat /\ nextCleanup \in Nat
    BY DEF DownloadsInv, DownloadsTypeOK
<1>2. PICK i \in Positions(token) :
        /\ table' = RemoveAt(Without(PrunedCount), i - PrunedCount)
        /\ totalBytes' = BytesWithout(PrunedCount) - table[i].size
        /\ IF table[i].expiresAt > clock
           THEN Answered(g, token, "served", table[i].size)
           ELSE Answered(g, token, "notFound", None)
        /\ UNCHANGED <<clock, nextCleanup, issued>>
    BY DEF Served
<1>3. /\ PrunedCount \in 0 .. Len(table)
      /\ i \in PrunedCount + 1 .. Len(table) /\ i \in 1 .. Len(table)
      /\ table[i].token = token /\ table[i].expiresAt > clock
    BY <1>1, PrunedCountFacts, KeptIsLive DEF Positions
<1>4. /\ RowsStayInOrder
      /\ \A j \in 1 .. Len(table') : table'[j].token # token
    BY <1>2, <1>3, RemovedInOrder
<1>5. /\ gets[g].answer = "none"
      /\ gets' = [gets EXCEPT ![g] =
            [token |-> token, answer |-> "served", size |-> table[i].size, at |-> clock]]
    BY <1>2, <1>3 DEF Answered
<1>6. /\ table[i] \in Row /\ table[i].size \in Sizes /\ table[i].expiresAt \in Nat
      /\ issued[token] = table[i]
      /\ \A other \in Gets : gets[other].answer = "served" => gets[other].token # token
    BY <1>1, <1>3, TableRows DEF InOrder
<1>7. DownloadsTypeOK'
  <2>1. totalBytes' \in Int
    <3>1. table[i].size \in Int /\ BytesWithout(PrunedCount) \in Int
      <4>1. \A size \in Sizes : size \in Int
          BY DownloadLimitsAssumption
      <4>2. BytesWithout(PrunedCount) \in Int
          BY <1>1, <1>3, PoppedRows
      <4> QED  BY <1>6, <4>1, <4>2
    <3> QED  BY <1>2, <3>1
  <2>2. gets' \in [Gets -> Get]
      BY <1>1, <1>5, <1>6 DEF DownloadsTypeOK, Get
  <2>3. \A h \in Gets : gets'[h].answer # "none" => gets'[h].token # None
      BY <1>1, <1>5, DownloadNamesAssumption DEF DownloadsTypeOK
  <2> QED  BY <1>1, <1>2, <1>4, <2>1, <2>2, <2>3 DEF DownloadsTypeOK, RowsStayInOrder
<1>8. \A h \in Gets : h # g => gets'[h] = gets[h]
    BY <1>1, <1>5 DEF DownloadsTypeOK
<1>9. gets'[g] = [token |-> token, answer |-> "served", size |-> table[i].size, at |-> clock]
    BY <1>1, <1>5 DEF DownloadsTypeOK
<1>10. InOrder'
    BY <1>1, <1>2, <1>4, <1>8, <1>9 DEF InOrder, RowsStayInOrder
<1>11. ServedOnce'
  <2>1. table[i] # None
      BY <1>6, DownloadNamesAssumption
  <2>2. ASSUME NEW h \in Gets, gets'[h].answer = "served"
        PROVE  LET row == issued[gets'[h].token]
               IN  /\ row # None
                   /\ gets'[h].size = row.size
                   /\ gets'[h].at < row.expiresAt
                   /\ \A other \in Gets \ {h} :
                         gets'[other].answer = "served"
                             => gets'[other].token # gets'[h].token
    <3>1. CASE h = g
      <4>1. \A other \in Gets \ {g} :
               gets'[other].answer = "served" => gets'[other].token # token
          BY <1>6, <1>8
      <4> QED  BY <1>1, <1>3, <1>6, <1>9, <2>1, <3>1, <4>1
    <3>2. CASE h # g
      <4>1. gets'[h] = gets[h] /\ gets[h].token # token
          BY <1>6, <1>8, <2>2, <3>2
      <4> QED  BY <1>1, <1>8, <1>9, <2>2, <4>1 DEF ServedOnce
    <3> QED  BY <3>1, <3>2
  <2> QED  BY <1>2, <2>2 DEF ServedOnce
<1> QED  BY <1>7, <1>10, <1>11 DEF DownloadsInv

LEMMA PruneTable ==
    ASSUME DownloadsInv, Prune
    PROVE  /\ RowsStayInOrder
           /\ totalBytes' \in Int
           /\ \A i \in 1 .. Len(table') : table'[i].expiresAt > clock
<1>1. DownloadsTypeOK /\ Len(table) \in Nat /\ PrunedCount \in 0 .. Len(table)
    BY PrunedCountFacts DEF DownloadsInv, DownloadsTypeOK
<1>2. table' = Without(PrunedCount) /\ totalBytes' = BytesWithout(PrunedCount)
    BY DEF Prune
<1>3. RowsStayInOrder /\ totalBytes' \in Int
    BY <1>1, <1>2, PoppedInOrder, PoppedRows
<1>4. ASSUME NEW i \in 1 .. Len(table')
      PROVE  table'[i].expiresAt > clock
  <2>1. Len(table') = Len(table) - PrunedCount /\ table'[i] = table[PrunedCount + i]
      BY <1>1, <1>2, WithoutFacts
  <2>2. PrunedCount + i \in PrunedCount + 1 .. Len(table)
      BY <1>1, <2>1
  <2> QED  BY <2>1, <2>2, KeptIsLive
<1> QED  BY <1>3, <1>4

LEMMA NotFoundKeeps ==
    ASSUME DownloadsInv, NEW g \in Gets, NEW token \in Downloads, NotFound(g, token)
    PROVE  DownloadsInv'
<1>1. DownloadsTypeOK /\ InOrder /\ ServedOnce /\ clock \in Nat
    BY DEF DownloadsInv, DownloadsTypeOK
<1>2. /\ RowsStayInOrder /\ totalBytes' \in Int
      /\ UNCHANGED <<clock, nextCleanup, issued>>
      /\ gets' = [gets EXCEPT ![g] =
            [token |-> token, answer |-> "notFound", size |-> None, at |-> clock]]
    BY PruneTable DEF NotFound, Answered
<1>3. /\ gets' \in [Gets -> Get]
      /\ \A h \in Gets : gets'[h].answer # "none" => gets'[h].token # None
    BY <1>1, <1>2, DownloadNamesAssumption DEF DownloadsTypeOK, Get
<1>4. \A h \in Gets : gets'[h].answer = "served" => h # g /\ gets'[h] = gets[h]
    BY <1>1, <1>2 DEF DownloadsTypeOK
<1>5. DownloadsTypeOK'
    BY <1>1, <1>2, <1>3 DEF DownloadsTypeOK, RowsStayInOrder
<1>6. InOrder'
    BY <1>1, <1>2, <1>4 DEF InOrder, RowsStayInOrder
<1>7. ServedOnce'
    BY <1>1, <1>2, <1>4 DEF ServedOnce
<1> QED  BY <1>5, <1>6, <1>7 DEF DownloadsInv

LEMMA CleanupKeeps ==
    ASSUME DownloadsInv, Cleanup
    PROVE  DownloadsInv'
<1>1. /\ DownloadsTypeOK /\ InOrder /\ ServedOnce
      /\ clock \in Nat /\ nextCleanup \in Nat
    BY DEF DownloadsInv, DownloadsTypeOK
<1>2. /\ RowsStayInOrder /\ totalBytes' \in Int
      /\ \A i \in 1 .. Len(table') : table'[i].expiresAt > clock
      /\ nextCleanup' = clock + CleanupPeriod
      /\ UNCHANGED <<clock, issued, gets>>
    BY PruneTable DEF Cleanup
<1>3. DownloadsTypeOK'
    BY <1>1, <1>2, DownloadLimitsAssumption DEF DownloadsTypeOK, RowsStayInOrder
<1>4. InOrder'
  <2>1. \A i \in 1 .. Len(table') : nextCleanup' < table'[i].expiresAt + CleanupPeriod
    <3>1. ASSUME NEW i \in 1 .. Len(table')
          PROVE  /\ table'[i].expiresAt \in Nat
                 /\ table'[i].expiresAt > clock
        BY <1>2 DEF RowsStayInOrder
    <3> QED  BY <1>1, <1>2, <3>1, DownloadLimitsAssumption
  <2>2. clock' <= nextCleanup' /\ nextCleanup' <= clock' + CleanupPeriod
      BY <1>1, <1>2, DownloadLimitsAssumption
  <2> QED  BY <1>2, <2>1, <2>2 DEF InOrder, RowsStayInOrder
<1>5. ServedOnce'
    BY <1>1, <1>2 DEF ServedOnce
<1> QED  BY <1>3, <1>4, <1>5 DEF DownloadsInv

LEMMA RestartKeeps ==
    ASSUME DownloadsInv, Restart
    PROVE  DownloadsInv'
<1>1. DownloadsTypeOK /\ ServedOnce /\ clock \in Nat
    BY DEF DownloadsInv, DownloadsTypeOK
<1>2. DownloadsTypeOK'
    BY <1>1, DownloadLimitsAssumption DEF DownloadsTypeOK, Restart
<1>3. InOrder'
    BY <1>1, DownloadLimitsAssumption DEF InOrder, Restart
<1>4. ServedOnce'
    BY <1>1 DEF ServedOnce, Restart
<1> QED  BY <1>2, <1>3, <1>4 DEF DownloadsInv

LEMMA TickKeeps ==
    ASSUME DownloadsInv, Tick
    PROVE  DownloadsInv'
<1>1. /\ DownloadsTypeOK /\ InOrder /\ ServedOnce
      /\ clock \in Nat /\ nextCleanup \in Nat
      /\ \A i \in 1 .. Len(table) : table[i].expiresAt \in Nat
    BY TableRows DEF DownloadsInv, DownloadsTypeOK
<1>2. DownloadsTypeOK'
    BY <1>1 DEF DownloadsTypeOK, Tick
<1>3. InOrder'
    BY <1>1, DownloadLimitsAssumption DEF InOrder, Tick
<1>4. ServedOnce'
    BY <1>1 DEF ServedOnce, Tick
<1> QED  BY <1>2, <1>3, <1>4 DEF DownloadsInv

LEMMA StepsKeep == DownloadsInv /\ [Next]_vars => DownloadsInv'
<1> SUFFICES ASSUME DownloadsInv, [Next]_vars PROVE DownloadsInv'
    OBVIOUS
<1>1. CASE UNCHANGED vars
    BY <1>1 DEF vars, DownloadsInv, DownloadsTypeOK, InOrder, ServedOnce
<1>2. CASE Next
    BY <1>2, IssueKeeps, ServedKeeps, NotFoundKeeps, CleanupKeeps, RestartKeeps,
       TickKeeps DEF Next
<1> QED  BY <1>1, <1>2

(* The inductive invariant: types, the order of the table, single service.   *)
THEOREM DownloadsCorrect == Spec => []DownloadsInv
<1> QED  BY InitialState, StepsKeep, PTL DEF Spec

(* Attachments that nobody fetches leave the memory within one cleanup       *)
(* period of their expiry, whatever was issued, served or evicted before.    *)
THEOREM TicketsReleased == Spec => []TicketsReleasedInTime
<1>1. DownloadsInv => TicketsReleasedInTime
  <2> SUFFICES ASSUME DownloadsInv, NEW i \in 1 .. Len(table)
               PROVE  clock < table[i].expiresAt + CleanupPeriod
      BY DEF TicketsReleasedInTime
  <2>1. clock \in Nat /\ nextCleanup \in Nat /\ table[i].expiresAt \in Nat
      BY TableRows DEF DownloadsInv, DownloadsTypeOK
  <2>2. clock <= nextCleanup /\ nextCleanup < table[i].expiresAt + CleanupPeriod
      BY DEF DownloadsInv, InOrder
  <2> QED  BY <2>1, <2>2, DownloadLimitsAssumption
<1> QED  BY <1>1, DownloadsCorrect, PTL

(* A download URL works once, for its own attachment, before it expires.     *)
THEOREM TicketsServedOnce == Spec => []ServedOnce
<1>1. DownloadsInv => ServedOnce
    BY DEF DownloadsInv
<1> QED  BY <1>1, DownloadsCorrect, PTL

-----------------------------------------------------------------------------
(* The byte counter.  BytesAt(I) are the bytes of the rows at positions I.   *)
BytesAt(I) == UNION {{table[i].token} \X (1 .. table[i].size) : i \in I}

LEMMA BytesAtFinite ==
    ASSUME DownloadsTypeOK, NEW I \in SUBSET (1 .. Len(table))
    PROVE  IsFiniteSet(BytesAt(I)) /\ Cardinality(BytesAt(I)) \in Nat
<1>1. table \in Seq(Row) /\ DOMAIN table = 1 .. Len(table)
    BY DEF DownloadsTypeOK
<1>2. IsFiniteSet(Bytes(table))
    BY <1>1, BytesAreFinite
<1>3. BytesAt(I) \subseteq Bytes(table)
    BY <1>1, Zenon DEF BytesAt, Bytes
<1>4. IsFiniteSet(BytesAt(I))
    BY <1>2, <1>3, FS_Subset
<1> QED  BY <1>4, FS_CardinalityType

(* The bytes of different rows are different, because tokens are.            *)
LEMMA BytesAdd ==
    ASSUME DownloadsInv, NEW I \in SUBSET (1 .. Len(table)),
           NEW J \in SUBSET (1 .. Len(table)), I \cap J = {}
    PROVE  Cardinality(BytesAt(I \cup J))
              = Cardinality(BytesAt(I)) + Cardinality(BytesAt(J))
<1>1. BytesAt(I \cup J) = BytesAt(I) \cup BytesAt(J)
    BY Zenon DEF BytesAt
<1>2. ASSUME NEW b \in BytesAt(I) \cap BytesAt(J)
      PROVE  FALSE
  <2>1. PICK i \in I : b \in {table[i].token} \X (1 .. table[i].size)
      BY <1>2, Zenon DEF BytesAt
  <2>2. PICK j \in J : b \in {table[j].token} \X (1 .. table[j].size)
      BY <1>2, Zenon DEF BytesAt
  <2>3. b[1] = table[i].token /\ b[1] = table[j].token
      BY <2>1, <2>2
  <2>4. i = j
      BY <2>3 DEF DownloadsInv, InOrder
  <2> QED  BY <2>4
<1>3. /\ IsFiniteSet(BytesAt(I)) /\ IsFiniteSet(BytesAt(J))
      /\ Cardinality(BytesAt(I)) \in Nat /\ Cardinality(BytesAt(J)) \in Nat
    BY BytesAtFinite DEF DownloadsInv
<1>4. BytesAt(I) \cap BytesAt(J) = {}
    BY <1>2
<1>5. Cardinality(BytesAt(I) \cup BytesAt(J))
        = Cardinality(BytesAt(I)) + Cardinality(BytesAt(J))
            - Cardinality(BytesAt(I) \cap BytesAt(J))
    BY <1>3, FS_Union
<1>6. Cardinality(BytesAt(I) \cap BytesAt(J)) = 0
    BY <1>4, FS_EmptySet
<1>7. \A a, b \in Nat : a + b - 0 = a + b
    OBVIOUS
<1>8. Cardinality(BytesAt(I)) + Cardinality(BytesAt(J)) - 0
        = Cardinality(BytesAt(I)) + Cardinality(BytesAt(J))
    BY <1>3, <1>7, Zenon
<1> QED  BY <1>1, <1>5, <1>6, <1>8, Zenon

(* The bytes of one row, or of a row to come, are as many as its size says.  *)
LEMMA BytesOfOne ==
    ASSUME NEW token \in Downloads, NEW size \in Sizes
    PROVE  /\ IsFiniteSet({token} \X (1 .. size))
           /\ Cardinality({token} \X (1 .. size)) = size
<1>1. size \in Nat
    BY DownloadLimitsAssumption
<1>2. IsFiniteSet(1 .. size) /\ Cardinality(1 .. size) = size
    BY <1>1, FS_Interval
<1>3. IsFiniteSet({token}) /\ Cardinality({token}) = 1
    BY FS_Singleton
<1> QED  BY <1>1, <1>2, <1>3, FS_Product

LEMMA BytesAtOne ==
    ASSUME DownloadsTypeOK, NEW i \in 1 .. Len(table)
    PROVE  Cardinality(BytesAt({i})) = table[i].size
<1>1. BytesAt({i}) = {table[i].token} \X (1 .. table[i].size)
    BY Zenon DEF BytesAt
<1> QED  BY <1>1, TableRows, BytesOfOne

(* What the counter must be after n rows were popped.                        *)
LEMMA BytesOfPopped ==
    ASSUME DownloadsInv, WithinCapacity, NEW n \in 0 .. Len(table)
    PROVE  /\ Bytes(Without(n)) = BytesAt(n + 1 .. Len(table))
           /\ BytesWithout(n) = BytesOf(Without(n))
           /\ BytesWithout(n) \in Nat /\ BytesWithout(n) <= totalBytes
<1>1. DownloadsTypeOK /\ Len(table) \in Nat /\ DOMAIN table = 1 .. Len(table)
    BY DEF DownloadsInv, DownloadsTypeOK
<1>2. Bytes(table) = BytesAt(1 .. Len(table))
    BY <1>1 DEF Bytes, BytesAt
<1>3. Bytes(SubSeq(table, 1, n)) = BytesAt(1 .. n)
  <2> DEFINE first == SubSeq(table, 1, n)
  <2>1. DOMAIN first = 1 .. n /\ \A i \in 1 .. n : first[i] = table[i]
      BY <1>1, PoppedRows
  <2> HIDE DEF first
  <2>2. Bytes(first) = BytesAt(1 .. n)
      BY <2>1 DEF Bytes, BytesAt
  <2> QED  BY <2>2 DEF first
<1>4. Bytes(Without(n)) = BytesAt(n + 1 .. Len(table))
  <2> DEFINE rest == Without(n)
             Part(i) == {table[i].token} \X (1 .. table[i].size)
  <2>1. /\ DOMAIN rest = 1 .. Len(table) - n
        /\ \A i \in 1 .. Len(table) - n : rest[i] = table[n + i]
    <3>1. /\ rest \in Seq(Row) /\ Len(rest) = Len(table) - n
          /\ \A i \in 1 .. Len(table) - n : rest[i] = table[n + i]
        BY <1>1, WithoutFacts
    <3> HIDE DEF rest
    <3> QED  BY <3>1
  <2> HIDE DEF rest
  <2>2. Bytes(rest) = UNION {Part(n + i) : i \in 1 .. Len(table) - n}
      BY <2>1 DEF Bytes
  <2>3. {Part(n + i) : i \in 1 .. Len(table) - n}
          = {Part(k) : k \in n + 1 .. Len(table)}
    <3> HIDE DEF Part
    <3>1. \A i \in 1 .. Len(table) - n : n + i \in n + 1 .. Len(table)
        BY <1>1
    <3>2. \A k \in n + 1 .. Len(table) :
             k - n \in 1 .. Len(table) - n /\ n + (k - n) = k
        BY <1>1
    <3> QED  BY <3>1, <3>2
  <2> QED  BY <2>2, <2>3, Zenon DEF BytesAt, rest
<1>5. /\ 1 .. n \in SUBSET (1 .. Len(table))
      /\ n + 1 .. Len(table) \in SUBSET (1 .. Len(table))
      /\ (1 .. n) \cap (n + 1 .. Len(table)) = {}
      /\ (1 .. n) \cup (n + 1 .. Len(table)) = 1 .. Len(table)
    BY <1>1
<1>6. BytesOf(table) = BytesOf(SubSeq(table, 1, n)) + BytesOf(Without(n))
  <2>1. Cardinality(BytesAt((1 .. n) \cup (n + 1 .. Len(table))))
          = Cardinality(BytesAt(1 .. n)) + Cardinality(BytesAt(n + 1 .. Len(table)))
      BY <1>5, BytesAdd
  <2> QED  BY <1>2, <1>3, <1>4, <1>5, <2>1 DEF BytesOf
<1>7. BytesOf(SubSeq(table, 1, n)) \in Nat /\ BytesOf(Without(n)) \in Nat
    BY <1>1, <1>3, <1>4, <1>5, BytesAtFinite DEF BytesOf
<1>8. totalBytes = BytesOf(table)
    BY DEF WithinCapacity
<1> QED  BY <1>4, <1>6, <1>7, <1>8 DEF BytesWithout

LEMMA CapacityInitially == Init => WithinCapacity
<1> SUFFICES ASSUME Init PROVE WithinCapacity
    OBVIOUS
<1>1. table = <<>> /\ totalBytes = 0
    BY DEF Init
<1>2. Bytes(<<>>) = {}
    BY DEF Bytes
<1>3. BytesOf(table) = 0
    BY <1>1, <1>2, FS_EmptySet DEF BytesOf
<1> QED  BY <1>1, <1>3, DownloadLimitsAssumption DEF WithinCapacity

(* Popping the n oldest rows keeps the counter true.                         *)
LEMMA PoppingCounts ==
    ASSUME DownloadsInv, WithinCapacity, NEW n \in 0 .. Len(table),
           table' = Without(n), totalBytes' = BytesWithout(n)
    PROVE  WithinCapacity'
<1>1. BytesOf(table)' = BytesOf(Without(n))
    BY DEF BytesOf, Bytes
<1>2. Len(table') = Len(table) - n /\ Len(table) \in Nat /\ totalBytes \in Int
    BY WithoutFacts DEF DownloadsInv, DownloadsTypeOK
<1> QED  BY <1>1, <1>2, BytesOfPopped, DownloadLimitsAssumption DEF WithinCapacity

LEMMA PruneCounts ==
    ASSUME DownloadsInv, WithinCapacity, Prune
    PROVE  WithinCapacity'
BY PrunedCountFacts, PoppingCounts DEF Prune, DownloadsInv

LEMMA ServedCounts ==
    ASSUME DownloadsInv, WithinCapacity, NEW g \in Gets, NEW token \in Downloads,
           Served(g, token)
    PROVE  WithinCapacity'
<1> DEFINE n == PrunedCount
<1>1. PICK i \in Positions(token) :
        /\ table' = RemoveAt(Without(n), i - n)
        /\ totalBytes' = BytesWithout(n) - table[i].size
    BY DEF Served
<1>2. /\ DownloadsTypeOK /\ Len(table) \in Nat /\ n \in 0 .. Len(table)
      /\ totalBytes \in Int
    BY PrunedCountFacts DEF DownloadsInv, DownloadsTypeOK
<1>3. i \in n + 1 .. Len(table) /\ i \in 1 .. Len(table) /\ i - n \in 1 .. Len(table) - n
    BY <1>1, <1>2 DEF Positions
<1> HIDE DEF n
<1>4. /\ Len(table') = Len(table) - n - 1
      /\ DOMAIN table' = 1 .. Len(table) - n - 1
      /\ \A j \in 1 .. Len(table) - n - 1 :
            table'[j] = table[IF j < i - n THEN n + j ELSE n + j + 1]
  <2> DEFINE rest == RemoveAt(Without(n), i - n)
  <2>1. /\ rest \in Seq(Row) /\ Len(rest) = Len(table) - n - 1
        /\ \A j \in 1 .. Len(table) - n - 1 :
              rest[j] = table[IF j < i - n THEN n + j ELSE n + j + 1]
      BY <1>2, <1>3, RemovedFacts
  <2>2. table' = rest
      BY <1>1
  <2> HIDE DEF rest
  <2> QED  BY <2>1, <2>2
<1> DEFINE I == (n + 1 .. Len(table)) \ {i}
           Part(k) == {table[k].token} \X (1 .. table[k].size)
           at(j) == IF j < i - n THEN n + j ELSE n + j + 1
<1>5. Bytes(table') = BytesAt(I)
  <2>1. Bytes(table') = UNION {Part(at(j)) : j \in 1 .. Len(table) - n - 1}
      BY <1>4 DEF Bytes
  <2>2. \A j \in 1 .. Len(table) - n - 1 : at(j) \in I
      BY <1>2, <1>3
  <2>3. ASSUME NEW k \in I
        PROVE  \E j \in 1 .. Len(table) - n - 1 : at(j) = k
    <3>1. CASE k < i
      <4>1. k - n \in 1 .. Len(table) - n - 1 /\ at(k - n) = k
          BY <1>2, <1>3, <3>1
      <4> QED  BY <4>1
    <3>2. CASE k > i
      <4>1. k - n - 1 \in 1 .. Len(table) - n - 1 /\ at(k - n - 1) = k
          BY <1>2, <1>3, <3>2
      <4> QED  BY <4>1
    <3> QED  BY <1>2, <1>3, <3>1, <3>2
  <2> HIDE DEF Part, at, I
  <2>4. {Part(at(j)) : j \in 1 .. Len(table) - n - 1} = {Part(k) : k \in I}
      BY <2>2, <2>3
  <2> QED  BY <2>1, <2>4, Zenon DEF BytesAt, Part
<1>6. /\ I \in SUBSET (1 .. Len(table)) /\ {i} \in SUBSET (1 .. Len(table))
      /\ I \cap {i} = {} /\ I \cup {i} = n + 1 .. Len(table)
    BY <1>2, <1>3
<1> HIDE DEF I
<1>7. Cardinality(BytesAt(I \cup {i}))
        = Cardinality(BytesAt(I)) + Cardinality(BytesAt({i}))
    BY <1>6, BytesAdd
<1>8. Cardinality(BytesAt({i})) = table[i].size /\ table[i].size \in Sizes
    BY <1>2, <1>3, BytesAtOne, TableRows
<1>9. Cardinality(BytesAt(I)) \in Nat
    BY <1>2, <1>6, BytesAtFinite
<1>10. BytesWithout(n) = Cardinality(BytesAt(I)) + table[i].size
    BY <1>2, <1>6, <1>7, <1>8, BytesOfPopped DEF BytesOf
<1>11. BytesWithout(n) <= totalBytes /\ BytesWithout(n) \in Nat
    BY <1>2, BytesOfPopped
<1>12. table[i].size \in Nat
  <2>1. \A size \in Sizes : size \in Nat
      BY DownloadLimitsAssumption
  <2> QED  BY <1>8, <2>1
<1>13. BytesOf(table)' = Cardinality(BytesAt(I))
    BY <1>5 DEF BytesOf, Bytes
<1>14. totalBytes' = BytesOf(table)'
  <2>1. totalBytes' = BytesWithout(n) - table[i].size
      BY <1>1
  <2> QED  BY <1>9, <1>10, <1>12, <1>13, <2>1
<1>15. totalBytes' <= MaxTotalBytes
  <2>1. totalBytes' = BytesWithout(n) - table[i].size /\ totalBytes <= MaxTotalBytes
      BY <1>1 DEF WithinCapacity
  <2> QED  BY <1>2, <1>11, <1>12, <2>1, DownloadLimitsAssumption
<1>16. Len(table') <= MaxItems
    BY <1>2, <1>4, DownloadLimitsAssumption DEF WithinCapacity
<1> QED  BY <1>14, <1>15, <1>16 DEF WithinCapacity

LEMMA IssueCounts ==
    ASSUME DownloadsInv, WithinCapacity, NEW d \in Downloads, NEW size \in Sizes,
           Issue(d, size)
    PROVE  WithinCapacity'
<1> DEFINE n == EvictedCount(size)
           old == Without(n)
           row == [token |-> d, size |-> size, expiresAt |-> clock + Ttl]
<1>1. /\ DownloadsTypeOK /\ Len(table) \in Nat /\ totalBytes \in Int /\ clock \in Nat
      /\ issued[d] = None
      /\ table' = Append(old, row) /\ totalBytes' = BytesWithout(n) + size
      /\ size \in Nat /\ size <= MaxTotalBytes
    BY DownloadLimitsAssumption DEF Issue, DownloadsInv, DownloadsTypeOK
<1>2. n \in 0 .. Len(table) /\ (Fits(size, n) \/ n = Len(table))
    BY <1>1, EvictedCountFacts, PrunedCountFacts
<1>3. row \in Row /\ row.token = d /\ row.size = size
    BY <1>1, DownloadLimitsAssumption DEF Row
<1> HIDE DEF n
<1>4. /\ old \in Seq(Row) /\ Len(old) = Len(table) - n
      /\ \A i \in 1 .. Len(old) : old[i] = table[n + i] /\ n + i \in 1 .. Len(table)
    BY <1>1, <1>2, WithoutFacts
<1>5. /\ BytesWithout(n) = BytesOf(old) /\ BytesWithout(n) \in Nat
      /\ IsFiniteSet(Bytes(old))
    BY <1>2, <1>4, BytesOfPopped, BytesAreFinite
<1> HIDE DEF old, row
<1>6. /\ Len(table') = Len(old) + 1 /\ DOMAIN table' = 1 .. Len(old) + 1
      /\ \A i \in 1 .. Len(old) : table'[i] = old[i]
      /\ table'[Len(old) + 1] = row
    BY <1>1, <1>3, <1>4, AppendProperties
<1> DEFINE new == {d} \X (1 .. size)
<1>7. Bytes(table') = Bytes(old) \cup new
  <2> DEFINE Part(i) == {table'[i].token} \X (1 .. table'[i].size)
  <2>1. Bytes(table') = UNION {Part(i) : i \in 1 .. Len(old) + 1}
      BY <1>6 DEF Bytes
  <2>2. Bytes(old) = UNION {Part(i) : i \in 1 .. Len(old)}
      BY <1>4, <1>6 DEF Bytes
  <2>3. Part(Len(old) + 1) = new
      BY <1>3, <1>6
  <2>4. 1 .. Len(old) + 1 = (1 .. Len(old)) \cup {Len(old) + 1}
      BY <1>4
  <2> HIDE DEF Part, new
  <2>5. UNION {Part(i) : i \in (1 .. Len(old)) \cup {Len(old) + 1}}
          = (UNION {Part(i) : i \in 1 .. Len(old)}) \cup Part(Len(old) + 1)
      BY Zenon
  <2> QED  BY <2>1, <2>2, <2>3, <2>4, <2>5
<1>8. Bytes(old) \cap new = {}
  <2> SUFFICES ASSUME NEW b \in Bytes(old) PROVE b \notin new
      OBVIOUS
  <2>1. PICK i \in DOMAIN old : b \in {old[i].token} \X (1 .. old[i].size)
      BY Zenon DEF Bytes
  <2>2. b[1] = old[i].token /\ i \in 1 .. Len(old)
      BY <1>4, <2>1
  <2>3. n + i \in 1 .. Len(table) /\ old[i] = table[n + i]
      BY <1>4, <2>2
  <2>4. table[n + i] \in Row /\ issued[table[n + i].token] = table[n + i]
      BY <1>1, <2>3, TableRows DEF DownloadsInv, InOrder
  <2>5. table[n + i].token # d
      BY <1>1, <2>4, DownloadNamesAssumption
  <2> QED  BY <2>2, <2>3, <2>5
<1>9. IsFiniteSet(new) /\ Cardinality(new) = size
    BY BytesOfOne
<1> HIDE DEF new
<1>10. Cardinality(Bytes(old) \cup new) = Cardinality(Bytes(old)) + size
  <2>1. Cardinality(Bytes(old) \cup new)
          = Cardinality(Bytes(old)) + Cardinality(new) - Cardinality(Bytes(old) \cap new)
      BY <1>5, <1>9, FS_Union
  <2>2. Cardinality(Bytes(old) \cap new) = 0
      BY <1>8, FS_EmptySet
  <2>3. Cardinality(Bytes(old)) \in Nat
      BY <1>5, FS_CardinalityType
  <2> QED  BY <1>1, <1>9, <2>1, <2>2, <2>3
<1>11. BytesOf(table)' = BytesOf(old) + size
    BY <1>7, <1>10 DEF BytesOf, Bytes
<1>12. Len(old) < MaxItems /\ BytesOf(old) + size <= MaxTotalBytes
  <2>1. CASE Fits(size, n)
      BY <1>4, <1>5, <2>1 DEF Fits
  <2>2. CASE n = Len(table)
    <3>1. Len(old) = 0 /\ old = <<>>
        BY <1>1, <1>4, <2>2, EmptySeq
    <3>2. BytesOf(old) = 0
        BY <3>1, FS_EmptySet DEF BytesOf, Bytes
    <3> QED  BY <1>1, <3>1, <3>2, DownloadLimitsAssumption
  <2> QED  BY <1>2, <2>1, <2>2
<1> QED  BY <1>1, <1>4, <1>5, <1>6, <1>11, <1>12, DownloadLimitsAssumption DEF WithinCapacity

LEMMA CapacityPreserved ==
    DownloadsInv /\ WithinCapacity /\ [Next]_vars => WithinCapacity'
<1> SUFFICES ASSUME DownloadsInv, WithinCapacity, [Next]_vars PROVE WithinCapacity'
    OBVIOUS
<1>1. CASE UNCHANGED vars
    BY <1>1 DEF vars, WithinCapacity, BytesOf, Bytes
<1>2. CASE Tick
    BY <1>2 DEF Tick, WithinCapacity, BytesOf, Bytes
<1>3. CASE Cleanup
    BY <1>3, PruneCounts DEF Cleanup
<1>4. CASE Restart
  <2>1. table' = <<>> /\ totalBytes' = 0
      BY <1>4 DEF Restart
  <2>2. BytesOf(table)' = 0
      BY <2>1, FS_EmptySet DEF BytesOf, Bytes
  <2> QED  BY <2>1, <2>2, DownloadLimitsAssumption DEF WithinCapacity
<1>5. ASSUME NEW d \in Downloads, NEW size \in Sizes, Issue(d, size)
      PROVE  WithinCapacity'
    BY <1>5, IssueCounts
<1>6. ASSUME NEW g \in Gets, NEW token \in Downloads,
             Served(g, token) \/ NotFound(g, token)
      PROVE  WithinCapacity'
    BY <1>6, ServedCounts, PruneCounts DEF NotFound
<1> QED  BY <1>1, <1>2, <1>3, <1>4, <1>5, <1>6 DEF Next

(* After any sequence of issues, evictions, expiries, downloads and restarts *)
(* the byte counter is the number of bytes in the table, and neither limit of *)
(* the store is exceeded.                                                    *)
THEOREM CapacityHolds == Spec => []WithinCapacity
<1>1. Init => DownloadsInv /\ WithinCapacity
    BY InitialState, CapacityInitially
<1>2. (DownloadsInv /\ WithinCapacity) /\ [Next]_vars => (DownloadsInv /\ WithinCapacity)'
    BY StepsKeep, CapacityPreserved
<1> QED  BY <1>1, <1>2, PTL DEF Spec
-----------------------------------------------------------------------------
(* Refinement: the store implements SingleUseHandles *)

\* the tickets that a step takes out of the table
Released == Tickets \ Tickets'

\* the abstract module counts as this one does
LEMMA SameCardinality == \A S : Abstract!Cardinality(S) = Cardinality(S)
BY DEF Abstract!Cardinality, Cardinality

LEMMA TicketsOf ==
    ASSUME NEW t \in Seq(Row)
    PROVE  LET T == {t[i].token : i \in 1 .. Len(t)}
           IN  IsFiniteSet(T) /\ Cardinality(T) \in Nat /\ Cardinality(T) <= Len(t)
<1> DEFINE T == {t[i].token : i \in 1 .. Len(t)}
           f == [i \in 1 .. Len(t) |-> t[i].token]
<1>1. Len(t) \in Nat
    OBVIOUS
<1>2. f \in Surjection(1 .. Len(t), T)
    BY DEF Surjection
<1>3. IsFiniteSet(1 .. Len(t)) /\ Cardinality(1 .. Len(t)) = Len(t)
    BY <1>1, FS_Interval
<1> HIDE DEF f, T
<1>4. IsFiniteSet(T) /\ Cardinality(T) <= Len(t)
    BY <1>2, <1>3, FS_Surjection
<1>5. Cardinality(T) \in Nat
    BY <1>4, FS_CardinalityType
<1> QED  BY <1>4, <1>5 DEF T

LEMMA TicketsAreMinted ==
    ASSUME DownloadsInv
    PROVE  Tickets \subseteq Minted /\ Tickets \subseteq Downloads
<1> SUFFICES ASSUME NEW i \in 1 .. Len(table)
             PROVE  table[i].token \in Minted
    BY DEF Tickets, Minted
<1>1. table[i] \in Row /\ table[i].token \in Downloads
    BY TableRows DEF DownloadsInv
<1>2. issued[table[i].token] = table[i]
    BY DEF DownloadsInv, InOrder
<1> QED  BY <1>1, <1>2, DownloadNamesAssumption DEF Minted

(* A step that only takes tickets out drops them.                            *)
LEMMA FewerTickets ==
    ASSUME DownloadsInv, Tickets' \subseteq Tickets, issued' = issued, Takers' = Takers
    PROVE  Abstract!Next
<1>1. Minted' = Minted /\ Promises' = Promises
    BY DEF Minted, Promises
<1>2. /\ Tickets' = Tickets \ Released /\ Released \in SUBSET Downloads
      /\ Gone' = Gone \cup (Released \cap Tickets)
    BY <1>1, TicketsAreMinted DEF Released, Gone
<1>3. Abstract!Drop(Released)
    BY <1>1, <1>2 DEF Abstract!Drop, Abstract!Dropped
<1> QED  BY <1>2, <1>3 DEF Abstract!Next

LEMMA PruneTickets ==
    ASSUME DownloadsInv, Prune
    PROVE  Tickets' \subseteq Tickets
<1>1. DownloadsTypeOK /\ PrunedCount \in 0 .. Len(table) /\ Len(table) \in Nat
    BY PrunedCountFacts DEF DownloadsInv, DownloadsTypeOK
<1>2. /\ Len(table') = Len(table) - PrunedCount
      /\ \A i \in 1 .. Len(table') : table'[i] = table[PrunedCount + i]
    BY <1>1, WithoutFacts DEF Prune
<1>3. \A i \in 1 .. Len(table') : PrunedCount + i \in 1 .. Len(table)
    BY <1>1, <1>2
<1> QED  BY <1>2, <1>3 DEF Tickets

LEMMA NotFoundDrops ==
    ASSUME DownloadsInv, NEW g \in Gets, NEW token \in Downloads, NotFound(g, token)
    PROVE  Abstract!Next
<1>1. /\ Prune /\ issued' = issued /\ gets[g].answer = "none"
      /\ gets' = [gets EXCEPT ![g] =
            [token |-> token, answer |-> "notFound", size |-> None, at |-> clock]]
    BY DEF NotFound, Answered
<1>2. \A h \in Gets, d \in Downloads :
         gets'[h].answer = "served" /\ gets'[h].token = d
           <=> gets[h].answer = "served" /\ gets[h].token = d
    BY <1>1 DEF DownloadsInv, DownloadsTypeOK
<1>3. Takers' = Takers
    BY <1>2 DEF Takers
<1> QED  BY <1>1, <1>3, PruneTickets, FewerTickets

LEMMA ServedTakes ==
    ASSUME DownloadsInv, NEW g \in Gets, NEW token \in Downloads, Served(g, token)
    PROVE  Abstract!Next
<1>1. DownloadsTypeOK /\ Len(table) \in Nat /\ PrunedCount \in 0 .. Len(table)
    BY PrunedCountFacts DEF DownloadsInv, DownloadsTypeOK
<1>2. PICK i \in Positions(token) :
        /\ table' = RemoveAt(Without(PrunedCount), i - PrunedCount)
        /\ IF table[i].expiresAt > clock
           THEN Answered(g, token, "served", table[i].size)
           ELSE Answered(g, token, "notFound", None)
        /\ issued' = issued
    BY DEF Served
<1>3. /\ i \in PrunedCount + 1 .. Len(table) /\ i \in 1 .. Len(table)
      /\ i - PrunedCount \in 1 .. Len(table) - PrunedCount
      /\ table[i].token = token /\ table[i].expiresAt > clock
    BY <1>1, KeptIsLive DEF Positions
<1>4. Tickets' \subseteq Tickets /\ token \notin Tickets' /\ token \in Tickets
  <2> DEFINE at(j) == IF j < i - PrunedCount THEN PrunedCount + j ELSE PrunedCount + j + 1
  <2>1. /\ Len(table') = Len(table) - PrunedCount - 1
        /\ \A j \in 1 .. Len(table) - PrunedCount - 1 : table'[j] = table[at(j)]
      BY <1>1, <1>2, <1>3, RemovedFacts
  <2>2. \A j \in 1 .. Len(table) - PrunedCount - 1 : at(j) \in 1 .. Len(table)
      BY <1>1, <1>3
  <2> HIDE DEF at
  <2>3. Tickets' \subseteq Tickets
      BY <2>1, <2>2 DEF Tickets
  <2>4. \A j \in 1 .. Len(table') : table'[j].token # token
      BY <1>1, <1>2, <1>3, RemovedInOrder
  <2> QED  BY <1>3, <2>3, <2>4 DEF Tickets
<1>5. /\ gets[g].answer = "none"
      /\ gets' = [gets EXCEPT ![g] =
            [token |-> token, answer |-> "served", size |-> table[i].size, at |-> clock]]
    BY <1>2, <1>3 DEF Answered
<1>6. Takers' = [Takers EXCEPT ![token] = @ \cup {g}]
  <2>1. /\ gets'[g].answer = "served" /\ gets'[g].token = token
        /\ \A h \in Gets \ {g} : gets'[h] = gets[h]
      BY <1>1, <1>5 DEF DownloadsTypeOK
  <2>2. \A d \in Downloads :
            {h \in Gets : gets'[h].answer = "served" /\ gets'[h].token = d}
              = {h \in Gets : gets[h].answer = "served" /\ gets[h].token = d}
                  \cup (IF d = token THEN {g} ELSE {})
      BY <1>5, <2>1
  <2>3. /\ Takers \in [Downloads -> SUBSET Gets]
        /\ Takers' \in [Downloads -> SUBSET Gets]
      BY DEF Takers
  <2>4. \A d \in Downloads : Takers'[d] = Takers[d] \cup (IF d = token THEN {g} ELSE {})
      BY <2>2 DEF Takers
  <2> QED  BY <2>3, <2>4
<1>7. Minted' = Minted /\ Promises' = Promises
    BY <1>2 DEF Minted, Promises
<1> DEFINE D == Released \ {token}
<1>8. /\ D \in SUBSET Downloads /\ D \cup {token} = Released
      /\ token \in Tickets \ D /\ Tickets' = Tickets \ Released
      /\ Gone' = Gone \cup (Released \cap Tickets)
    BY <1>4, <1>7, TicketsAreMinted DEF Released, Gone
<1> HIDE DEF D
<1>9. Abstract!Take(token, g, D)
    BY <1>6, <1>7, <1>8 DEF Abstract!Take, Abstract!Dropped
<1> QED  BY <1>8, <1>9 DEF Abstract!Next

LEMMA IssueStages ==
    ASSUME DownloadsInv, WithinCapacity, NEW d \in Downloads, NEW size \in Sizes,
           Issue(d, size)
    PROVE  Abstract!Next
<1> DEFINE n == EvictedCount(size)
           old == Without(n)
           row == [token |-> d, size |-> size, expiresAt |-> clock + Ttl]
<1>1. /\ DownloadsTypeOK /\ Len(table) \in Nat /\ issued[d] = None
      /\ table' = Append(old, row) /\ issued' = [issued EXCEPT ![d] = row]
      /\ gets' = gets
    BY DEF Issue, DownloadsInv, DownloadsTypeOK
<1>2. row \in Row /\ row.token = d /\ row.size = size
    BY <1>1, DownloadLimitsAssumption DEF Row, DownloadsTypeOK
<1>3. n \in 0 .. Len(table)
    BY <1>1, EvictedCountFacts, PrunedCountFacts
<1> HIDE DEF n
<1>4. /\ old \in Seq(Row) /\ Len(old) = Len(table) - n
      /\ \A i \in 1 .. Len(old) : old[i] = table[n + i] /\ n + i \in 1 .. Len(table)
    BY <1>1, <1>3, WithoutFacts
<1> HIDE DEF old, row
<1>5. /\ table' \in Seq(Row) /\ Len(table') = Len(old) + 1 /\ Len(old) \in Nat
      /\ \A i \in 1 .. Len(old) : table'[i] = old[i]
      /\ table'[Len(old) + 1] = row
    BY <1>1, <1>2, <1>4, AppendProperties
<1> DEFINE rest == {old[i].token : i \in 1 .. Len(old)}
<1>6. rest \subseteq Tickets
    BY <1>4 DEF Tickets
<1>7. d \notin Minted /\ d \notin Tickets
    BY <1>1, TicketsAreMinted DEF Minted
<1>8. Tickets' = rest \cup {d}
  <2>1. 1 .. Len(table') = (1 .. Len(old)) \cup {Len(old) + 1}
      BY <1>5
  <2>2. {table'[i].token : i \in 1 .. Len(old)} = rest
      BY <1>5
  <2> HIDE DEF rest
  <2> QED  BY <1>2, <1>5, <2>1, <2>2 DEF Tickets
<1> HIDE DEF rest
<1>9. Tickets \ Released = rest /\ Released \in SUBSET Downloads
    BY <1>6, <1>7, <1>8, TicketsAreMinted DEF Released
<1>10. Cardinality(rest) < MaxItems
  <2>1. Len(table') <= MaxItems
      BY IssueCounts DEF WithinCapacity
  <2>2. IsFiniteSet(rest) /\ Cardinality(rest) \in Nat /\ Cardinality(rest) <= Len(old)
      BY <1>4, TicketsOf DEF rest
  <2> QED  BY <1>5, <2>1, <2>2, DownloadLimitsAssumption
<1>11. issued'[d] = row /\ row # None /\ \A x \in Downloads \ {d} : issued'[x] = issued[x]
    BY <1>1, <1>2, DownloadNamesAssumption DEF DownloadsTypeOK
<1>12. Minted' = Minted \cup {d}
    BY <1>11 DEF Minted
<1>13. Promises[d] = None /\ Promises' = [Promises EXCEPT ![d] = size]
    BY <1>2, <1>7, <1>11, <1>12 DEF Promises
<1>14. Gone' = Gone \cup (Released \cap Tickets)
    BY <1>6, <1>7, <1>8, <1>12, TicketsAreMinted DEF Gone, Released
<1>15. Takers' = Takers
    BY <1>1 DEF Takers
<1>16. Abstract!Stage(d, size, Released)
    BY <1>8, <1>9, <1>10, <1>13, <1>14, <1>15, SameCardinality
       DEF Abstract!Stage, Abstract!Fresh
<1> QED  BY <1>9, <1>16 DEF Abstract!Next

(* To the outside the table, its pruning and its evictions are a store of     *)
(* single-use handles: a ticket is minted once, stands for one attachment, is *)
(* served once, and is then gone for good.                                   *)
THEOREM TicketsImplementSingleUse == Spec => TicketsAreSingleUse
<1>1. Init => DownloadsInv /\ WithinCapacity /\ Abstract!Init
  <2> SUFFICES ASSUME Init PROVE Abstract!Init
      BY InitialState, CapacityInitially
  <2>1. Tickets = {} /\ Minted = {}
      BY DEF Init, Tickets, Minted
  <2>2. Promises = [d \in Downloads |-> None]
      BY <2>1 DEF Promises
  <2>3. Takers = [d \in Downloads |-> {}]
      BY DEF Init, Takers
  <2> QED  BY <2>1, <2>2, <2>3 DEF Abstract!Init, Gone
<1>2. (DownloadsInv /\ WithinCapacity) /\ [Next]_vars => (DownloadsInv /\ WithinCapacity)'
    BY StepsKeep, CapacityPreserved
<1>3. (DownloadsInv /\ WithinCapacity) /\ [Next]_vars => [Abstract!Next]_(Abstract!vars)
  <2> SUFFICES ASSUME DownloadsInv, WithinCapacity, [Next]_vars PROVE Abstract!Next
      OBVIOUS
  <2>1. CASE Tick \/ UNCHANGED vars
    <3>1. UNCHANGED <<table, issued, gets>>
        BY <2>1 DEF Tick, vars
    <3> QED  BY <3>1, FewerTickets DEF Tickets, Takers
  <2>2. CASE Cleanup
    <3>1. Prune /\ UNCHANGED <<issued, gets>>
        BY <2>2 DEF Cleanup
    <3> QED  BY <3>1, PruneTickets, FewerTickets DEF Takers
  <2>3. CASE Restart
    <3>1. table' = <<>> /\ UNCHANGED <<issued, gets>>
        BY <2>3 DEF Restart
    <3> QED  BY <3>1, FewerTickets DEF Tickets, Takers
  <2> QED  BY <2>1, <2>2, <2>3, IssueStages, ServedTakes, NotFoundDrops DEF Next
<1> QED  BY <1>1, <1>2, <1>3, PTL DEF Spec, TicketsAreSingleUse, Abstract!Spec
-----------------------------------------------------------------------------
(* What a ticket is lost to *)

\* the row at position i leaves the table in this step
Leaves(i) == \A j \in 1 .. Len(table') : table'[j].token # table[i].token

\* a row that has not expired survives pruning
LEMMA LiveIsKept ==
    ASSUME DownloadsInv, NEW i \in 1 .. Len(table), table[i].expiresAt > clock
    PROVE  /\ PrunedCount \in 0 .. Len(table)
           /\ i \in PrunedCount + 1 .. Len(table)
<1>1. /\ PrunedCount \in 0 .. Len(table) /\ Len(table) \in Nat /\ clock \in Nat
      /\ \A k \in 1 .. PrunedCount : table[k].expiresAt <= clock
    BY PrunedCountFacts DEF DownloadsInv, DownloadsTypeOK
<1>2. table[i].expiresAt \in Nat
    BY TableRows DEF DownloadsInv
<1>3. ~ (i \in 1 .. PrunedCount)
    BY <1>1, <1>2
<1> QED  BY <1>1, <1>3

\* popping n rows takes the first n
LEMMA PoppingLeaves ==
    ASSUME DownloadsTypeOK, NEW n \in 0 .. Len(table), NEW i \in n + 1 .. Len(table),
           table' = Without(n)
    PROVE  ~ Leaves(i)
<1>1. Len(table) \in Nat
    BY DEF DownloadsTypeOK
<1>2. i - n \in 1 .. Len(table) - n /\ n + (i - n) = i
    BY <1>1
<1>3. Len(table') = Len(table) - n /\ table'[i - n] = table[n + (i - n)]
    BY <1>2, WithoutFacts
<1> QED  BY <1>2, <1>3 DEF Leaves

LEMMA PruneLeaves ==
    ASSUME DownloadsInv, NEW i \in 1 .. Len(table), table[i].expiresAt > clock, Prune
    PROVE  ~ Leaves(i)
BY LiveIsKept, PoppingLeaves DEF Prune, DownloadsInv

\* a request takes the ticket it presents
LEMMA ServedLeaves ==
    ASSUME DownloadsInv, NEW g \in Gets, NEW token \in Downloads, Served(g, token),
           NEW i \in 1 .. Len(table), table[i].expiresAt > clock, Leaves(i)
    PROVE  /\ gets[g].answer = "none"
           /\ gets'[g].answer = "served"
           /\ gets'[g].token = table[i].token
<1> DEFINE n == PrunedCount
<1>1. PICK k \in Positions(token) :
        /\ table' = RemoveAt(Without(n), k - n)
        /\ IF table[k].expiresAt > clock
           THEN Answered(g, token, "served", table[k].size)
           ELSE Answered(g, token, "notFound", None)
    BY DEF Served
<1>2. /\ DownloadsTypeOK /\ Len(table) \in Nat
      /\ n \in 0 .. Len(table) /\ i \in n + 1 .. Len(table)
    BY LiveIsKept DEF DownloadsInv, DownloadsTypeOK
<1>3. /\ k \in n + 1 .. Len(table) /\ table[k].token = token
      /\ k - n \in 1 .. Len(table) - n
    BY <1>1, <1>2 DEF Positions
<1> HIDE DEF n
<1> DEFINE at(j) == IF j < k - n THEN n + j ELSE n + j + 1
<1>4. /\ Len(table') = Len(table) - n - 1
      /\ \A j \in 1 .. Len(table) - n - 1 : table'[j] = table[at(j)]
    BY <1>1, <1>2, <1>3, RemovedFacts
<1>5. i = k
  <2>1. CASE i < k
    <3>1. i - n \in 1 .. Len(table) - n - 1 /\ at(i - n) = i
        BY <1>2, <1>3, <2>1
    <3> HIDE DEF at
    <3> QED  BY <1>4, <3>1 DEF Leaves
  <2>2. CASE i > k
    <3>1. i - n - 1 \in 1 .. Len(table) - n - 1 /\ at(i - n - 1) = i
        BY <1>2, <1>3, <2>2
    <3> HIDE DEF at
    <3> QED  BY <1>4, <3>1 DEF Leaves
  <2> QED  BY <1>2, <1>3, <2>1, <2>2
<1>6. Answered(g, token, "served", table[i].size)
    BY <1>1, <1>5
<1>7. gets \in [Gets -> Get]
    BY <1>2 DEF DownloadsTypeOK
<1> QED  BY <1>3, <1>5, <1>6, <1>7 DEF Answered

\* issue pops an unexpired row only when the new one does not fit beside it
LEMMA IssueLeaves ==
    ASSUME DownloadsInv, WithinCapacity, NEW d \in Downloads, NEW size \in Sizes,
           Issue(d, size),
           NEW i \in 1 .. Len(table), table[i].expiresAt > clock, Leaves(i)
    PROVE  /\ issued[d] = None /\ issued'[d] # None
           /\ \A j \in 1 .. Len(table') :
                 \A older \in 1 .. i : table'[j].token # table[older].token
           /\ \/ Len(table) - i + 1 >= MaxItems
              \/ BytesOf(SubSeq(table, i, Len(table))) + issued'[d].size > MaxTotalBytes
<1> DEFINE n == EvictedCount(size)
           old == Without(n)
           row == [token |-> d, size |-> size, expiresAt |-> clock + Ttl]
<1>1. /\ DownloadsTypeOK /\ Len(table) \in Nat /\ clock \in Nat
      /\ issued \in [Downloads -> Row \cup {None}]
      /\ issued[d] = None
      /\ table' = Append(old, row)
      /\ issued' = [issued EXCEPT ![d] = row]
    BY DEF Issue, DownloadsInv, DownloadsTypeOK
<1>2. /\ PrunedCount \in 0 .. Len(table) /\ n \in PrunedCount .. Len(table)
      /\ \A fewer \in PrunedCount .. n - 1 : ~ Fits(size, fewer)
    BY <1>1, EvictedCountFacts, PrunedCountFacts
<1>3. row \in Row /\ row.token = d /\ row.size = size
    BY <1>1, DownloadLimitsAssumption DEF Row
<1> HIDE DEF n
<1>4. DownloadsTypeOK /\ Len(table) \in Nat /\ n \in 0 .. Len(table)
    BY <1>1, <1>2
<1>5. /\ old \in Seq(Row) /\ Len(old) = Len(table) - n
      /\ \A j \in 1 .. Len(old) : old[j] = table[n + j] /\ n + j \in 1 .. Len(table)
  <2>1. /\ old \in Seq(Row) /\ Len(old) = Len(table) - n
        /\ \A j \in 1 .. Len(table) - n : old[j] = table[n + j]
      BY <1>4, WithoutFacts
  <2> HIDE DEF old
  <2>2. \A j \in 1 .. Len(table) - n : n + j \in 1 .. Len(table)
      BY <1>4
  <2> QED  BY <2>1, <2>2
<1>6. table' = Append(old, row) /\ old \in Seq(Row) /\ row \in Row
    BY <1>1, <1>3, <1>5
<1> HIDE DEF old, row
<1>7. /\ Len(table') = Len(old) + 1
      /\ \A j \in 1 .. Len(old) : table'[j] = old[j]
      /\ table'[Len(old) + 1] = row
    BY <1>6, AppendProperties
<1>8. i <= n
  <2>1. CASE i > n
    <3>1. i - n \in 1 .. Len(old) /\ n + (i - n) = i /\ i - n \in 1 .. Len(old) + 1
        BY <1>1, <1>5, <1>4, <2>1
    <3>2. table'[i - n] = table[i]
        BY <1>5, <1>7, <3>1
    <3> QED  BY <1>7, <3>1, <3>2 DEF Leaves
  <2> QED  BY <1>1, <1>4, <2>1
<1>9. issued'[d] = row /\ issued'[d] # None
    BY <1>1, <1>3, DownloadNamesAssumption
<1>10. ASSUME NEW j \in 1 .. Len(table'), NEW older \in 1 .. i
      PROVE  table'[j].token # table[older].token
  <2>1. older \in 1 .. Len(table) /\ older <= n
      BY <1>1, <1>5, <1>4, <1>8
  <2>2. CASE j \in 1 .. Len(old)
    <3>1. table'[j] = table[n + j] /\ n + j \in 1 .. Len(table) /\ n + j # older
        BY <1>5, <1>7, <1>4, <2>1, <2>2
    <3> QED  BY <2>1, <3>1 DEF DownloadsInv, InOrder
  <2>3. CASE j = Len(old) + 1
    <3>1. table'[j].token = d
        BY <1>3, <1>7, <2>3
    <3>2. table[older] \in Row /\ issued[table[older].token] = table[older]
        BY <1>1, <2>1, TableRows DEF DownloadsInv, InOrder
    <3> QED  BY <1>1, <3>1, <3>2, DownloadNamesAssumption
  <2>4. j \in 1 .. Len(old) \/ j = Len(old) + 1
    <3>1. Len(old) \in Nat
        BY <1>5
    <3>2. j \in 1 .. Len(old) + 1
        BY <1>7, <1>10
    <3> QED  BY <3>1, <3>2
  <2> QED  BY <2>2, <2>3, <2>4
<1>11. ~ Fits(size, i - 1)
  <2>1. i - 1 \in PrunedCount .. n - 1
      BY <1>1, <1>5, <1>4, <1>8, LiveIsKept
  <2> QED  BY <1>2, <2>1
<1>12. /\ i - 1 \in 0 .. Len(table)
       /\ BytesWithout(i - 1) = BytesOf(SubSeq(table, i, Len(table)))
       /\ BytesWithout(i - 1) \in Nat
  <2>1. i - 1 \in 0 .. Len(table) /\ i - 1 + 1 = i
      BY <1>1
  <2> QED  BY <2>1, BytesOfPopped DEF Without
<1>13. size \in Nat /\ MaxItems \in Nat /\ MaxTotalBytes \in Nat
    BY DownloadLimitsAssumption
<1>14. \/ Len(table) - (i - 1) >= MaxItems
       \/ BytesWithout(i - 1) + size > MaxTotalBytes
    BY <1>1, <1>11, <1>12, <1>13 DEF Fits
<1>15. Len(table) - (i - 1) = Len(table) - i + 1
    BY <1>1
<1> QED  BY <1>1, <1>3, <1>9, <1>10, <1>12, <1>14, <1>15

(* A ticket that is still valid leaves the store by its own request, by a    *)
(* restart, or by a newer ticket that needs its place, oldest first: for all *)
(* limits and sizes, eviction never drops more than the new file needs.      *)
THEOREM TicketsEvictedForRoom == Spec => EvictedForRoom
<1> DEFINE Cause(i) ==
              \/ \E g \in Gets :
                    /\ gets[g].answer = "none"
                    /\ gets'[g].answer = "served"
                    /\ gets'[g].token = table[i].token
              \/ \E d \in Downloads :
                    /\ issued[d] = None /\ issued'[d] # None
                    /\ \A j \in 1 .. Len(table') :
                          \A older \in 1 .. i : table'[j].token # table[older].token
                    /\ \/ Len(table) - i + 1 >= MaxItems
                       \/ BytesOf(SubSeq(table, i, Len(table))) + issued'[d].size
                             > MaxTotalBytes
           Evicted == \/ Restart
                      \/ \A i \in 1 .. Len(table) :
                            /\ table[i].expiresAt > clock
                            /\ \A j \in 1 .. Len(table') : table'[j].token # table[i].token
                            => Cause(i)
<1>1. DownloadsInv /\ WithinCapacity /\ [Next]_vars => [Evicted]_vars
  <2> SUFFICES ASSUME DownloadsInv, WithinCapacity, Next, ~ Restart,
                      NEW i \in 1 .. Len(table), table[i].expiresAt > clock, Leaves(i)
               PROVE  Cause(i)
      BY DEF Leaves
  <2>1. CASE Tick
      BY <2>1 DEF Tick, Leaves
  <2>2. CASE Cleanup
      BY <2>2, PruneLeaves DEF Cleanup
  <2>3. ASSUME NEW d \in Downloads, NEW size \in Sizes, Issue(d, size)
        PROVE  Cause(i)
      BY <2>3, IssueLeaves
  <2>4. ASSUME NEW g \in Gets, NEW token \in Downloads, Served(g, token)
        PROVE  Cause(i)
      BY <2>4, ServedLeaves
  <2>5. ASSUME NEW g \in Gets, NEW token \in Downloads, NotFound(g, token)
        PROVE  Cause(i)
      BY <2>5, PruneLeaves DEF NotFound
  <2> HIDE DEF Cause
  <2> QED  BY <2>1, <2>2, <2>3, <2>4, <2>5 DEF Next
<1>2. Spec => [](DownloadsInv /\ WithinCapacity)
    BY DownloadsCorrect, CapacityHolds, PTL
<1> QED  BY <1>1, <1>2, PTL DEF Spec, EvictedForRoom
=============================================================================
