---------------------- MODULE TransactionTrackerProofs ----------------------
(***************************************************************************)
(* The safety of TransactionTracker for any number of clients, tasks and   *)
(* xids, any retention period and any limits.                              *)
(***************************************************************************)
EXTENDS TransactionTracker, FiniteSetTheorems, SequenceTheorems, FunctionTheorems, TLAPS

-----------------------------------------------------------------------------
(* What the operations on a client's table return, preserve and drop, for  *)
(* every table.                                                            *)

\* A set of positions that is closed towards the front of the deque is the
\* interval its cardinality says: the loops that pop the front, and the binary
\* search, are defined by such sets.
LEMMA FrontSet ==
    ASSUME NEW n \in Nat, NEW P \in SUBSET (1..n), \A i \in P : 1..i \subseteq P
    PROVE  /\ Cardinality(P) \in 0..n
           /\ \A j \in 1..n : j \in P <=> j <= Cardinality(P)
<1>1. IsFiniteSet(1..n) /\ Cardinality(1..n) = n
  BY FS_Interval
<1>2. IsFiniteSet(P) /\ Cardinality(P) \in Nat /\ Cardinality(P) <= n
  BY <1>1, FS_Subset, FS_CardinalityType
<1>3. ASSUME NEW j \in 1..n
      PROVE  j \in P <=> j <= Cardinality(P)
  <2>1. CASE j \in P
    <3>1. 1..j \in SUBSET P
      BY <2>1
    <3>2. Cardinality(1..j) = j
      BY FS_Interval
    <3>3. j <= Cardinality(P)
      BY <1>2, <3>1, <3>2, FS_Subset
    <3>. QED  BY <2>1, <3>3
  <2>2. CASE j \notin P
    <3>1. P \in SUBSET (1..(j-1))
      <4>1. ASSUME NEW i \in P PROVE i \in 1..(j-1)
        <5>1. i \in 1..n /\ 1..i \subseteq P
          OBVIOUS
        <5>2. j \notin 1..i
          BY <2>2, <5>1
        <5>. QED  BY <5>1, <5>2
      <4>. QED  BY <4>1
    <3>2. IsFiniteSet(1..(j-1)) /\ Cardinality(1..(j-1)) = j - 1
      BY FS_Interval
    <3>3. Cardinality(P) <= j - 1
      BY <3>1, <3>2, FS_Subset
    <3>. QED  BY <2>2, <1>2, <3>3
  <2>. QED  BY <2>1, <2>2
<1>. QED  BY <1>2, <1>3

\* The pop loops stop within the deque and pop only what they may.
LEMMA PrefixLengthProperties ==
    ASSUME NEW n \in Nat, NEW S \in SUBSET (1..n)
    PROVE  /\ PrefixLength(S) \in 0..n
           /\ 1..PrefixLength(S) \subseteq S
<1>. DEFINE P == {i \in S : 1..i \subseteq S}
<1>1. P \in SUBSET (1..n)
  OBVIOUS
<1>2. \A i \in P : 1..i \subseteq P
  <2>1. ASSUME NEW i \in P, NEW j \in 1..i PROVE j \in P
    <3>1. i \in 1..n /\ j \in S
      OBVIOUS
    <3>2. 1..j \subseteq 1..i
      BY <3>1
    <3>. QED  BY <3>1, <3>2
  <2>. QED  BY <2>1
<1>3. Cardinality(P) \in 0..n /\ \A j \in 1..n : j \in P <=> j <= Cardinality(P)
  <2>. HIDE DEF P
  <2>. QED  BY <1>1, <1>2, FrontSet
<1>4. 1..Cardinality(P) \subseteq P
  <2>. HIDE DEF P
  <2>. QED  BY <1>3
<1>5. PrefixLength(S) = Cardinality(P)
  BY DEF PrefixLength
<1>. QED  BY <1>3, <1>4, <1>5

\* The first k entries go, the others move up in their order.
LEMMA PopFrontProperties ==
    ASSUME NEW txs \in Seq(Transaction), NEW k \in 0..Len(txs)
    PROVE  /\ PopFront(txs, k) \in Seq(Transaction)
           /\ Len(PopFront(txs, k)) = Len(txs) - k
           /\ \A i \in 1..(Len(txs) - k) : PopFront(txs, k)[i] = txs[i + k]
<1>1. Len(txs) \in Nat /\ \A i \in 1..Len(txs) : txs[i] \in Transaction
  BY LenProperties, ElementOfSeq
<1>2. \A i \in (k+1)..Len(txs) : txs[i] \in Transaction
  BY <1>1
<1>3. /\ SubSeq(txs, k+1, Len(txs)) \in Seq(Transaction)
      /\ Len(SubSeq(txs, k+1, Len(txs))) =
            IF k+1 <= Len(txs) THEN Len(txs) - (k+1) + 1 ELSE 0
      /\ \A i \in 1..(Len(txs) - (k+1) + 1) :
            SubSeq(txs, k+1, Len(txs))[i] = txs[(k+1) + i - 1]
  BY <1>1, <1>2, SubSeqProperties
<1>. QED  BY <1>1, <1>3 DEF PopFront

\* Popping the longest front part whose positions are in S keeps the order and
\* everything that is not at a position in S.
LEMMA PopPrefix ==
    ASSUME NEW txs \in Seq(Transaction), Sorted(txs), NEW S \in SUBSET (1..Len(txs))
    PROVE  LET k == PrefixLength(S)
               r == PopFront(txs, k)
           IN  /\ r \in Seq(Transaction)
               /\ Sorted(r)
               /\ Len(r) = Len(txs) - k
               /\ k \in 0..Len(txs)
               /\ k # 0 => k \in S
               /\ ToSet(r) \subseteq ToSet(txs)
               /\ \A tx \in ToSet(txs) \ ToSet(r) : \E i \in S : tx = txs[i]
<1>. DEFINE k == PrefixLength(S)
            r == PopFront(txs, k)
<1>1. Len(txs) \in Nat /\ DOMAIN txs = 1..Len(txs)
  BY LenProperties
<1>2. k \in 0..Len(txs) /\ 1..k \subseteq S
  BY <1>1, PrefixLengthProperties
<1>. HIDE DEF k
<1>3. /\ r \in Seq(Transaction)
      /\ Len(r) = Len(txs) - k
      /\ \A i \in 1..(Len(txs) - k) : r[i] = txs[i + k]
  BY <1>2, PopFrontProperties
<1>. HIDE DEF r
<1>4. DOMAIN r = 1..(Len(txs) - k)
  BY <1>3, LenProperties
<1>5. Sorted(r)
  <2>1. ASSUME NEW i \in 1..Len(r), NEW j \in 1..Len(r), i < j
        PROVE  r[i].xid < r[j].xid
    <3>1. /\ i + k \in 1..Len(txs) /\ j + k \in 1..Len(txs) /\ i + k < j + k
          /\ r[i] = txs[i + k] /\ r[j] = txs[j + k]
      BY <1>1, <1>2, <1>3, <2>1
    <3>. QED  BY <3>1 DEF Sorted
  <2>. QED  BY <2>1 DEF Sorted
<1>6. ToSet(r) \subseteq ToSet(txs)
  <2>1. ASSUME NEW i \in DOMAIN r PROVE r[i] \in ToSet(txs)
    <3>1. i + k \in DOMAIN txs /\ r[i] = txs[i + k]
      BY <1>1, <1>2, <1>3, <1>4
    <3>. QED  BY <3>1 DEF ToSet
  <2>. QED  BY <2>1 DEF ToSet
<1>7. ASSUME NEW tx \in ToSet(txs) \ ToSet(r) PROVE \E i \in S : tx = txs[i]
  <2>1. PICK i \in DOMAIN txs : tx = txs[i]
    BY DEF ToSet
  <2>2. CASE i \in 1..k
    BY <1>2, <2>1, <2>2
  <2>3. CASE i \notin 1..k
    <3>1. i - k \in DOMAIN r /\ r[i - k] = txs[i]
      BY <1>1, <1>2, <1>3, <1>4, <2>3
    <3>. QED  BY <2>1, <3>1 DEF ToSet
  <2>. QED  BY <2>2, <2>3
<1>8. k # 0 => k \in S
  BY <1>1, <1>2
<1>. QED  BY <1>2, <1>3, <1>5, <1>6, <1>7, <1>8 DEF k, r

\* remove_old_transactions drops nothing but stale entries.
LEMMA RemoveOldProperties ==
    ASSUME NEW txs \in Seq(Transaction), Sorted(txs), NEW now \in Instant
    PROVE  LET r == RemoveOldTransactions(txs, now)
           IN  /\ r \in Seq(Transaction)
               /\ Sorted(r)
               /\ ToSet(r) \subseteq ToSet(txs)
               /\ \A tx \in ToSet(txs) \ ToSet(r) : IsStale(tx, now)
<1>. DEFINE S == {i \in 1..Len(txs) : IsStale(txs[i], now)}
            r == PopFront(txs, PrefixLength(S))
<1>1. /\ r \in Seq(Transaction)
      /\ Sorted(r)
      /\ ToSet(r) \subseteq ToSet(txs)
      /\ \A tx \in ToSet(txs) \ ToSet(r) : \E i \in S : tx = txs[i]
  <2>. HIDE DEF S
  <2>1. S \in SUBSET (1..Len(txs))
    BY DEF S
  <2>. QED  BY <2>1, PopPrefix
<1>2. r = RemoveOldTransactions(txs, now)
  BY DEF RemoveOldTransactions
<1>3. \A tx \in ToSet(txs) \ ToSet(r) : IsStale(tx, now)
  BY <1>1
<1>. QED  BY <1>1, <1>2, <1>3

\* trim_if_needed drops nothing but completed entries, and none below the limit.
LEMMA TrimProperties ==
    ASSUME NEW txs \in Seq(Transaction), Sorted(txs)
    PROVE  LET r == TrimIfNeeded(txs)
           IN  /\ r \in Seq(Transaction)
               /\ Sorted(r)
               /\ ToSet(r) \subseteq ToSet(txs)
               /\ \A tx \in ToSet(txs) \ ToSet(r) : tx.state = "Completed"
               /\ ToSet(r) # ToSet(txs) => Len(r) >= TrimLimit
<1>. DEFINE S == {i \in 1..Len(txs) : /\ i + TrimLimit <= Len(txs)
                                      /\ txs[i].state = "Completed"}
            k == PrefixLength(S)
            r == PopFront(txs, k)
<1>1. /\ r \in Seq(Transaction)
      /\ Sorted(r)
      /\ Len(r) = Len(txs) - k
      /\ k \in 0..Len(txs)
      /\ k # 0 => k \in S
      /\ ToSet(r) \subseteq ToSet(txs)
      /\ \A tx \in ToSet(txs) \ ToSet(r) : \E i \in S : tx = txs[i]
  <2>. HIDE DEF S
  <2>1. S \in SUBSET (1..Len(txs))
    BY DEF S
  <2>. QED  BY <2>1, PopPrefix
<1>2. r = TrimIfNeeded(txs)
  BY DEF TrimIfNeeded
<1>3. \A tx \in ToSet(txs) \ ToSet(r) : tx.state = "Completed"
  BY <1>1
<1>4. ASSUME ToSet(r) # ToSet(txs) PROVE Len(r) >= TrimLimit
  <2>1. Len(txs) \in Nat
    BY LenProperties
  <2>2. k # 0
    <3>1. ASSUME k = 0 PROVE FALSE
      <4>1. PopFront(txs, 0) = txs
        BY <2>1, SubSeqFull DEF PopFront
      <4>. QED  BY <1>4, <3>1, <4>1
    <3>. QED  BY <3>1
  <2>3. k \in 1..Len(txs) /\ k + TrimLimit <= Len(txs)
    BY <1>1, <2>2
  <2>. QED  BY <1>1, <2>1, <2>3, TableAssumption
<1>. QED  BY <1>1, <1>2, <1>3, <1>4

\* A table by its entries.
LEMMA Entries ==
    ASSUME NEW txs \in Seq(Transaction)
    PROVE  /\ Len(txs) \in Nat
           /\ DOMAIN txs = 1..Len(txs)
           /\ \A i \in 1..Len(txs) :
                txs[i] \in Transaction /\ txs[i].xid \in Nat /\ txs[i].at \in Nat
           /\ ToSet(txs) = {txs[i] : i \in 1..Len(txs)}
<1>1. Len(txs) \in Nat /\ DOMAIN txs = 1..Len(txs)
  BY LenProperties
<1>2. \A i \in 1..Len(txs) : txs[i] \in Transaction
  BY ElementOfSeq
<1>3. \A tx \in Transaction : tx.xid \in Nat /\ tx.at \in Nat
  BY TableAssumption DEF Transaction, Instant
<1>. QED  BY <1>1, <1>2, <1>3 DEF ToSet

\* In a sorted table find_transaction finds every transaction there is.
LEMMA ExistsIsMembership ==
    ASSUME NEW txs \in Seq(Transaction), Sorted(txs), NEW x \in Xids
    PROVE  Exists(txs, x) <=> \E tx \in ToSet(txs) : tx.xid = x
<1>1. Len(txs) \in Nat /\ DOMAIN txs = 1..Len(txs)
  BY Entries
<1>2. \A i \in 1..Len(txs) : txs[i].xid \in Nat
  BY Entries
<1>3. ASSUME NEW i \in 1..Len(txs), txs[i].xid = x PROVE Exists(txs, x)
  <2>1. Len(txs) \in 1..Len(txs)
    BY <1>1
  <2>2. i = Len(txs) \/ txs[i].xid < txs[Len(txs)].xid
    <3>1. \A n \in Nat : \A k \in 1..n : k = n \/ k < n
      OBVIOUS
    <3>2. i = Len(txs) \/ i < Len(txs)
      BY <1>1, <3>1
    <3>. QED  BY <2>1, <3>2 DEF Sorted
  <2>3. txs[Len(txs)].xid >= x
    BY <1>2, <1>3, <2>1, <2>2
  <2>4. txs # << >>
    <3>1. Len(<< >>) = 0
      OBVIOUS
    <3>. QED  BY <1>1, <3>1
  <2>. QED  BY <1>3, <2>3, <2>4 DEF Exists
<1>4. Exists(txs, x) => \E i \in 1..Len(txs) : txs[i].xid = x
  BY DEF Exists
<1>5. (\E tx \in ToSet(txs) : tx.xid = x) <=> (\E i \in 1..Len(txs) : txs[i].xid = x)
  BY <1>1 DEF ToSet
<1>. QED  BY <1>3, <1>4, <1>5

\* Inserting where the binary search says keeps the table sorted.
LEMMA InsertProperties ==
    ASSUME NEW txs \in Seq(Transaction), Sorted(txs), NEW x \in Xids,
           \A tx \in ToSet(txs) : tx.xid # x
    PROVE  LET r == InsertAt(txs, InsertionPoint(txs, x), InProgress(x))
           IN  /\ r \in Seq(Transaction)
               /\ Sorted(r)
               /\ ToSet(r) = ToSet(txs) \cup {InProgress(x)}
<1>. DEFINE n == Len(txs)
            S == {i \in 1..n : txs[i].xid < x}
            p == 1 + Cardinality(S)
            e == InProgress(x)
            left == SubSeq(txs, 1, p - 1)
            right == SubSeq(txs, p, n)
            mid == left \o <<e>>
            r == mid \o right
<1>1. n \in Nat /\ DOMAIN txs = 1..n
  BY LenProperties
<1>2. \A i \in 1..n : txs[i] \in Transaction /\ txs[i].xid \in Nat /\ txs[i].xid # x
  BY <1>1, Entries
<1>3. x \in Nat /\ e \in Transaction /\ e.xid = x
  BY TableAssumption DEF Transaction, InProgress, Instant
<1>4. Cardinality(S) \in 0..n /\ \A j \in 1..n : j \in S <=> j <= Cardinality(S)
  <2>1. S \in SUBSET (1..n)
    OBVIOUS
  <2>2. \A i \in S : 1..i \subseteq S
    <3>1. ASSUME NEW i \in S, NEW j \in 1..i PROVE j \in S
      <4>1. i \in 1..n /\ j \in 1..n /\ txs[i].xid < x /\ (j = i \/ j < i)
        BY <1>1
      <4>2. j = i \/ txs[j].xid < txs[i].xid
        BY <4>1 DEF Sorted
      <4>. QED  BY <1>2, <1>3, <4>1, <4>2
    <3>. QED  BY <3>1
  <2>. HIDE DEF S
  <2>. QED  BY <1>1, <2>1, <2>2, FrontSet
<1>5. p \in 1..(n+1)
  BY <1>1, <1>4
<1>6. ASSUME NEW j \in 1..n PROVE txs[j].xid < x <=> j < p
  <2>1. j \in S <=> j <= Cardinality(S)
    BY <1>4
  <2>2. j \in S <=> txs[j].xid < x
    OBVIOUS
  <2>. HIDE DEF S
  <2>. QED  BY <1>1, <1>4, <2>1, <2>2
<1>. HIDE DEF S
<1>7. /\ left \in Seq(Transaction) /\ Len(left) = p - 1
      /\ \A i \in 1..(p-1) : left[i] = txs[i]
  <2>1. p - 1 \in Int /\ \A i \in 1..(p-1) : txs[i] \in Transaction
    BY <1>1, <1>2, <1>5
  <2>2. /\ left \in Seq(Transaction)
        /\ Len(left) = IF 1 <= p - 1 THEN (p - 1) - 1 + 1 ELSE 0
        /\ \A i \in 1..((p - 1) - 1 + 1) : left[i] = txs[1 + i - 1]
    BY <2>1, SubSeqProperties
  <2>. QED  BY <1>5, <2>1, <2>2
<1>8. /\ right \in Seq(Transaction) /\ Len(right) = n - p + 1
      /\ \A i \in 1..(n-p+1) : right[i] = txs[p + i - 1]
  <2>1. p \in Int /\ n \in Int /\ \A i \in p..n : txs[i] \in Transaction
    BY <1>1, <1>2, <1>5
  <2>2. /\ right \in Seq(Transaction)
        /\ Len(right) = IF p <= n THEN n - p + 1 ELSE 0
        /\ \A i \in 1..(n - p + 1) : right[i] = txs[p + i - 1]
    BY <2>1, SubSeqProperties
  <2>. QED  BY <1>5, <2>1, <2>2
<1>. HIDE DEF left, right, p, e
<1>9. /\ <<e>> \in Seq(Transaction) /\ Len(<<e>>) = 1 /\ <<e>>[1] = e
  BY <1>3
<1>10. /\ mid \in Seq(Transaction) /\ Len(mid) = p
       /\ \A i \in 1..p : mid[i] = IF i < p THEN txs[i] ELSE e
  <2>1. /\ mid \in Seq(Transaction)
        /\ Len(mid) = Len(left) + Len(<<e>>)
        /\ \A i \in 1..(Len(left) + Len(<<e>>)) : mid[i] =
                IF i <= Len(left) THEN left[i] ELSE <<e>>[i - Len(left)]
    BY <1>7, <1>9, ConcatProperties
  <2>. QED  BY <1>1, <1>5, <1>7, <1>9, <2>1
<1>. HIDE DEF mid
<1>11. /\ r \in Seq(Transaction) /\ Len(r) = n + 1
       /\ \A i \in 1..(n+1) : r[i] = IF i < p THEN txs[i]
                                     ELSE IF i = p THEN e ELSE txs[i - 1]
  <2>1. /\ r \in Seq(Transaction)
        /\ Len(r) = Len(mid) + Len(right)
        /\ \A i \in 1..(Len(mid) + Len(right)) : r[i] =
                IF i <= Len(mid) THEN mid[i]
                ELSE right[i - Len(mid)]
    BY <1>8, <1>10, ConcatProperties
  <2>. HIDE DEF r
  <2>2. Len(r) = n + 1
    BY <1>1, <1>5, <1>8, <1>10, <2>1
  <2>3. ASSUME NEW i \in 1..(n+1), i <= p
        PROVE  r[i] = IF i < p THEN txs[i] ELSE e
    BY <1>1, <1>5, <1>8, <1>10, <2>1, <2>3
  <2>4. ASSUME NEW i \in 1..(n+1), i > p
        PROVE  r[i] = txs[i - 1]
    <3>1. i - p \in 1..(n - p + 1) /\ r[i] = right[i - p]
      BY <1>1, <1>5, <1>8, <1>10, <2>1, <2>4
    <3>2. right[i - p] = txs[p + (i - p) - 1]
      BY <1>8, <3>1
    <3>3. p + (i - p) - 1 = i - 1
      BY <1>1, <1>5
    <3>. QED  BY <3>1, <3>2, <3>3
  <2>. QED  BY <1>5, <2>1, <2>2, <2>3, <2>4
<1>. HIDE DEF r
<1>12. Sorted(r)
  <2>1. ASSUME NEW i \in 1..(n+1), NEW j \in 1..(n+1), i < j
        PROVE  r[i].xid < r[j].xid
    <3>1. CASE j < p
      <4>1. i \in 1..n /\ j \in 1..n /\ r[i] = txs[i] /\ r[j] = txs[j]
        BY <1>1, <1>5, <1>11, <2>1, <3>1
      <4>. QED  BY <2>1, <4>1 DEF Sorted
    <3>2. CASE j = p
      <4>1. i \in 1..n /\ r[i] = txs[i] /\ r[j] = e /\ i < p
        BY <1>1, <1>5, <1>11, <2>1, <3>2
      <4>. QED  BY <1>3, <1>6, <4>1
    <3>3. CASE j > p /\ i < p
      <4>1. i \in 1..n /\ j - 1 \in 1..n /\ i < j - 1
            /\ r[i] = txs[i] /\ r[j] = txs[j - 1]
        BY <1>1, <1>5, <1>11, <2>1, <3>3
      <4>. QED  BY <4>1 DEF Sorted
    <3>4. CASE j > p /\ i = p
      <4>1. j - 1 \in 1..n /\ ~(j - 1 < p) /\ r[i] = e /\ r[j] = txs[j - 1]
        BY <1>1, <1>5, <1>11, <2>1, <3>4
      <4>2. ~(txs[j - 1].xid < x) /\ txs[j - 1].xid # x /\ txs[j - 1].xid \in Nat
        BY <1>2, <1>6, <4>1
      <4>. QED  BY <1>3, <4>1, <4>2
    <3>5. CASE j > p /\ i > p
      <4>1. i - 1 \in 1..n /\ j - 1 \in 1..n /\ i - 1 < j - 1
            /\ r[i] = txs[i - 1] /\ r[j] = txs[j - 1]
        BY <1>1, <1>5, <1>11, <2>1, <3>5
      <4>. QED  BY <4>1 DEF Sorted
    <3>6. \/ j < p \/ j = p \/ (j > p /\ i < p) \/ (j > p /\ i = p)
          \/ (j > p /\ i > p)
      BY <1>1, <1>5
    <3>. QED  BY <3>1, <3>2, <3>3, <3>4, <3>5, <3>6
  <2>. QED  BY <1>11, <2>1 DEF Sorted
<1>13. ToSet(r) = ToSet(txs) \cup {e}
  <2>1. ToSet(r) = {r[i] : i \in 1..(n+1)} /\ ToSet(txs) = {txs[i] : i \in 1..n}
    BY <1>11, Entries
  <2>2. ASSUME NEW i \in 1..(n+1) PROVE r[i] \in ToSet(txs) \cup {e}
    <3>1. CASE i < p
      BY <1>1, <1>5, <1>11, <2>1, <3>1
    <3>2. CASE i = p
      BY <1>11, <3>2
    <3>3. CASE i > p
      <4>1. i - 1 \in 1..n /\ r[i] = txs[i - 1]
        BY <1>1, <1>5, <1>11, <3>3
      <4>. QED  BY <2>1, <4>1
    <3>. QED  BY <1>1, <1>5, <3>1, <3>2, <3>3
  <2>3. ASSUME NEW i \in 1..n PROVE txs[i] \in ToSet(r)
    <3>1. CASE i < p
      <4>1. i \in 1..(n+1) /\ r[i] = txs[i]
        BY <1>1, <1>11, <3>1
      <4>. QED  BY <2>1, <4>1
    <3>2. CASE ~(i < p)
      <4>1. i + 1 \in 1..(n+1) /\ r[i + 1] = txs[i]
        BY <1>1, <1>5, <1>11, <3>2
      <4>. QED  BY <2>1, <4>1
    <3>. QED  BY <3>1, <3>2
  <2>4. e \in ToSet(r)
    <3>1. p \in 1..(n+1) /\ r[p] = e
      BY <1>5, <1>11
    <3>. QED  BY <2>1, <3>1
  <2>. QED  BY <2>1, <2>2, <2>3, <2>4
<1>14. r = InsertAt(txs, InsertionPoint(txs, x), InProgress(x))
  BY DEF r, mid, left, right, p, e, S, InsertAt, InsertionPoint
<1>. QED  BY <1>11, <1>12, <1>13, <1>14 DEF e

\* Admitting a transaction adds it in progress, keeps every other transaction
\* in progress, and drops completed ones only down to the limit.
LEMMA AddProperties ==
    ASSUME NEW tab \in Table, Sorted(tab.transactions), NEW x \in Xids,
           NEW now \in Instant, ~Exists(tab.transactions, x)
    PROVE  LET r == AddTransaction(tab, x, now)
               all == ToSet(tab.transactions) \cup {InProgress(x)}
           IN  /\ r \in Table
               /\ Sorted(r.transactions)
               /\ r.active_transactions = tab.active_transactions + 1
               /\ InProgress(x) \in ToSet(r.transactions)
               /\ ToSet(r.transactions) \subseteq all
               /\ \A tx \in all \ ToSet(r.transactions) : tx.state = "Completed"
               /\ ToSet(r.transactions) # all => Len(r.transactions) >= TrimLimit
<1>. DEFINE txs == tab.transactions
            ins == InsertAt(txs, InsertionPoint(txs, x), InProgress(x))
            res == TrimIfNeeded(ins)
            all == ToSet(txs) \cup {InProgress(x)}
<1>1. txs \in Seq(Transaction) /\ tab.active_transactions \in Nat
  BY DEF Table
<1>2. \A tx \in ToSet(txs) : tx.xid # x
  BY <1>1, ExistsIsMembership
<1>3. ins \in Seq(Transaction) /\ Sorted(ins) /\ ToSet(ins) = all
  <2>. HIDE DEF txs
  <2>1. Sorted(txs)
    BY DEF txs
  <2>. QED  BY <1>1, <1>2, <2>1, InsertProperties
<1>. HIDE DEF ins, all
<1>4. /\ res \in Seq(Transaction)
      /\ Sorted(res)
      /\ ToSet(res) \subseteq ToSet(ins)
      /\ \A tx \in ToSet(ins) \ ToSet(res) : tx.state = "Completed"
      /\ ToSet(res) # ToSet(ins) => Len(res) >= TrimLimit
  BY <1>3, TrimProperties
<1>. HIDE DEF res
<1>5. InProgress(x) \in ToSet(res)
  <2>1. InProgress(x) \in all /\ InProgress(x).state # "Completed"
    BY DEF all, InProgress
  <2>. QED  BY <1>3, <1>4, <2>1
<1>6. AddTransaction(tab, x, now) =
        [transactions |-> res, last_active |-> now,
         active_transactions |-> tab.active_transactions + 1]
  BY DEF AddTransaction, res, ins
<1>7. AddTransaction(tab, x, now) \in Table
  BY <1>1, <1>4, <1>6 DEF Table
<1>. QED  BY <1>3, <1>4, <1>5, <1>6, <1>7 DEF all

\* Dropping a TransactionLock completes its transaction, touches no other, and
\* then removes stale ones only.
LEMMA DroppedProperties ==
    ASSUME NEW tab \in Table, Sorted(tab.transactions), NEW x \in Xids,
           NEW now \in Instant, InProgress(x) \in ToSet(tab.transactions),
           tab.active_transactions > 0
    PROVE  LET r == Dropped(tab, x, now)
               all == (ToSet(tab.transactions) \ {InProgress(x)})
                        \cup {CompletedAt(x, now)}
           IN  /\ r \in Table
               /\ Sorted(r.transactions)
               /\ r.active_transactions = tab.active_transactions - 1
               /\ ToSet(r.transactions) \subseteq all
               /\ \A tx \in all \ ToSet(r.transactions) : IsStale(tx, now)
<1>. DEFINE txs == tab.transactions
            n == Len(txs)
            done == CompletedAt(x, now)
            com == [i \in 1..n |-> IF txs[i].xid = x THEN done ELSE txs[i]]
            res == RemoveOldTransactions(com, now)
            all == (ToSet(txs) \ {InProgress(x)}) \cup {done}
<1>1. txs \in Seq(Transaction) /\ tab.active_transactions \in Nat /\ Sorted(txs)
  BY DEF Table
<1>. HIDE DEF txs
<1>2. /\ n \in Nat /\ ToSet(txs) = {txs[i] : i \in 1..n}
      /\ \A i \in 1..n : txs[i] \in Transaction /\ txs[i].xid \in Nat
  BY <1>1, Entries
<1>3. done \in Transaction /\ done.xid = x
  BY DEF Transaction, CompletedAt
<1>4. PICK p \in 1..n : txs[p] = InProgress(x)
  BY <1>2 DEF txs
<1>5. \A i \in 1..n : txs[i].xid = x <=> i = p
  <2>1. txs[p].xid = x
    BY <1>4 DEF InProgress
  <2>2. ASSUME NEW i \in 1..n, i # p PROVE txs[i].xid # x
    <3>1. i < p \/ p < i
      BY <1>2, <2>2
    <3>2. txs[i].xid < txs[p].xid \/ txs[p].xid < txs[i].xid
      BY <1>1, <3>1 DEF Sorted
    <3>. QED  BY <1>2, <2>1, <3>2
  <2>. QED  BY <2>1, <2>2
<1>. HIDE DEF done
<1>6. com \in Seq(Transaction) /\ Len(com) = n
  BY <1>2, <1>3
<1>7. \A i \in 1..n : com[i].xid = txs[i].xid /\ com[i] = IF i = p THEN done ELSE txs[i]
  BY <1>3, <1>5
<1>. HIDE DEF com
<1>8. Sorted(com)
  BY <1>1, <1>6, <1>7 DEF Sorted
<1>9. ToSet(com) = all
  <2>1. ToSet(com) = {com[i] : i \in 1..n}
    BY <1>6, Entries
  <2>2. ASSUME NEW i \in 1..n PROVE com[i] \in all
    <3>1. i # p => txs[i] # InProgress(x)
      BY <1>5 DEF InProgress
    <3>. QED  BY <1>2, <1>7, <3>1
  <2>3. ASSUME NEW tx \in all PROVE tx \in ToSet(com)
    <3>1. CASE tx = done
      BY <1>7, <2>1, <3>1
    <3>2. CASE tx # done
      <4>1. PICK i \in 1..n : tx = txs[i] /\ i # p
        BY <1>2, <1>4, <3>2
      <4>. QED  BY <1>7, <2>1, <4>1
    <3>. QED  BY <3>1, <3>2
  <2>. QED  BY <2>2, <2>3, <2>1
<1>. HIDE DEF all
<1>10. /\ res \in Seq(Transaction)
       /\ Sorted(res)
       /\ ToSet(res) \subseteq all
       /\ \A tx \in all \ ToSet(res) : IsStale(tx, now)
  BY <1>6, <1>8, <1>9, RemoveOldProperties
<1>. HIDE DEF res
<1>11. Exists(txs, x)
  <2>1. txs[p] \in ToSet(txs) /\ txs[p].xid = x
    BY <1>2, <1>5
  <2>. QED  BY <1>1, <2>1, ExistsIsMembership
<1>12. CompleteTransaction(tab, x, now) =
        [transactions |-> com, last_active |-> now,
         active_transactions |-> tab.active_transactions - 1]
  BY <1>11 DEF CompleteTransaction, com, txs, n, done
<1>13. Dropped(tab, x, now) =
        [transactions |-> res, last_active |-> now,
         active_transactions |-> tab.active_transactions - 1]
  BY <1>12 DEF Dropped, res
<1>14. Dropped(tab, x, now) \in Table
  BY <1>1, <1>10, <1>13 DEF Table
<1>. QED  BY <1>10, <1>13, <1>14 DEF all, txs, done

-----------------------------------------------------------------------------
(* The inductive invariant.                                                *)

\* A task that is not idle has a request, and a lock refers to a cell.
TaskShape ==
    \A t \in Tasks :
        /\ task[t].pc # "idle" => task[t].req \in Request
        /\ t \in Holders => task[t].lock \in Cells

\* No table serves two clients.
CellsDistinct ==
    \A a, b \in Addrs : transactions[a] # None /\ transactions[a] = transactions[b] => a = b

\* The inductive invariant.  NoConcurrentDuplicate holds because a lock's
\* transaction is in the table its client is looked up in (LockedIsInProgress),
\* which holds because the cleaner keeps a table with a transaction in progress
\* and because the pop loops never pop one.
IInv ==
    /\ TypeOK
    /\ TaskShape
    /\ CellsDistinct
    /\ SortedByXid
    /\ NoConcurrentDuplicate
    /\ LockedIsInProgress
    /\ InProgressIsHeld
    /\ ActiveCountExact

USE TableAssumption, TrackerAssumption

\* TransactionTable::new: an empty table, hence sorted and with no active transaction.
LEMMA NewTableProperties ==
    ASSUME NEW now \in Instant
    PROVE  /\ NewTable(now) \in Table
           /\ Sorted(NewTable(now).transactions)
           /\ ToSet(NewTable(now).transactions) = {}
           /\ NewTable(now).active_transactions = 0
<1>1. << >> \in Seq(Transaction) /\ Len(<< >>) = 0 /\ DOMAIN << >> = {}
  OBVIOUS
<1>. QED  BY <1>1 DEF NewTable, Table, Sorted, ToSet, Instant

\* A tracker just created has no client table and no lock, so every part holds.
LEMMA InitIInv == Init => IInv
<1>. SUFFICES ASSUME Init PROVE IInv
  OBVIOUS
<1>1. \A c \in Cells : /\ heap[c] \in Table
                       /\ Sorted(heap[c].transactions)
                       /\ heap[c].active_transactions = 0
  BY NewTableProperties DEF Init, Instant
<1>2. Holders = {}
  BY DEF Init, Holders, Idle
<1>3. TypeOK
  BY <1>1 DEF Init, TypeOK, Idle, Task, Cleaner, Instant
<1>4. TaskShape /\ CellsDistinct /\ SortedByXid
  BY <1>1, <1>2 DEF Init, TaskShape, CellsDistinct, SortedByXid, Idle
<1>5. NoConcurrentDuplicate /\ LockedIsInProgress /\ InProgressIsHeld
  BY <1>2 DEF Init, NoConcurrentDuplicate, LockedIsInProgress, InProgressIsHeld
<1>6. ActiveCountExact
  <2>1. \A c \in Cells : LocksOn(c) = {}
    BY <1>2 DEF LocksOn
  <2>2. Cardinality({}) = 0
    BY FS_EmptySet
  <2>. QED  BY <1>1, <2>1, <2>2 DEF ActiveCountExact
<1>. QED  BY <1>3, <1>4, <1>5, <1>6 DEF IInv

\* A step that leaves the tables, the map and what the tasks hold alone.
LEMMA SameLocks ==
    ASSUME IInv, TypeOK', TaskShape', UNCHANGED <<transactions, heap>>,
           Holders' = Holders,
           \A t \in Holders : task'[t].req = task[t].req /\ task'[t].lock = task[t].lock
    PROVE  IInv'
<1>1. CellsDistinct' /\ SortedByXid'
  BY DEF IInv, CellsDistinct, SortedByXid
<1>2. NoConcurrentDuplicate'
  BY DEF IInv, NoConcurrentDuplicate
<1>3. LockedIsInProgress'
  BY DEF IInv, LockedIsInProgress
<1>4. InProgressIsHeld'
  BY DEF IInv, InProgressIsHeld
<1>5. ActiveCountExact'
  <2>1. ASSUME NEW c \in Cells
        PROVE  LocksOn(c)' = LocksOn(c)
    BY DEF LocksOn
  <2>. QED  BY <2>1 DEF IInv, ActiveCountExact
<1>. QED  BY <1>1, <1>2, <1>3, <1>4, <1>5 DEF IInv

\* A step that replaces the table of client a, in cell c, by tab, and changes
\* what is held of no other client.
Replaces(a, c, tab) ==
    /\ heap' = [heap EXCEPT ![c] = tab]
    /\ transactions'[a] = c
    /\ \A b \in Addrs : b # a => transactions'[b] = transactions[b] /\ transactions[b] # c
    /\ \A u \in Holders : task[u].req.addr = a => task[u].lock = c
    /\ \A u \in Holders : task[u].req.addr # a =>
            u \in Holders' /\ task'[u].req = task[u].req /\ task'[u].lock = task[u].lock
    /\ \A u \in Holders' : task'[u].req.addr # a =>
            u \in Holders /\ task'[u].req = task[u].req /\ task'[u].lock = task[u].lock
    /\ \A u \in Holders' : task'[u].req.addr = a =>
            /\ task'[u].lock = c
            /\ InProgress(task'[u].req.xid) \in ToSet(tab.transactions)
    /\ \A tx \in ToSet(tab.transactions) : tx.state = "InProgress" =>
            \E u \in Holders' : task'[u].req = [addr |-> a, xid |-> tx.xid]

\* A step that replaces one table keeps the invariant, when the new table lists
\* exactly the locks that are held on it.
LEMMA TableReplaced ==
    ASSUME IInv, TypeOK', TaskShape', NoConcurrentDuplicate',
           NEW a \in Addrs, NEW c \in Cells, NEW tab \in Table, Sorted(tab.transactions),
           Replaces(a, c, tab),
           tab.active_transactions = Cardinality(LocksOn(c)'),
           tab.active_transactions <= MaxActiveTransactions
    PROVE  IInv'
<1>. USE DEF Replaces
<1>1. /\ heap \in [Cells -> Table] /\ transactions' \in [Addrs -> Cells \cup {None}]
      /\ \A d \in Cells : heap'[d] = IF d = c THEN tab ELSE heap[d]
  BY DEF IInv, TypeOK
<1>2. CellsDistinct'
  BY <1>1 DEF IInv, CellsDistinct
<1>3. SortedByXid'
  BY <1>1 DEF IInv, SortedByXid
<1>4. \A u \in Holders : task[u].req.addr \in Addrs /\ task[u].lock \in Cells
  BY DEF IInv, TaskShape, Holders, Request
<1>5. \A u \in Holders' : task'[u].req.addr \in Addrs /\ task'[u].lock \in Cells
  BY DEF TaskShape, Holders, Request
<1>6. LockedIsInProgress'
  <2>1. ASSUME NEW u \in Holders'
        PROVE  /\ transactions'[task'[u].req.addr] = task'[u].lock
               /\ InProgress(task'[u].req.xid) \in ToSet(heap'[task'[u].lock].transactions)
    <3>1. CASE task'[u].req.addr = a
      BY <1>1, <3>1
    <3>2. CASE task'[u].req.addr # a
      <4>1. u \in Holders /\ task'[u].req = task[u].req /\ task'[u].lock = task[u].lock
        BY <3>2
      <4>2. /\ transactions[task[u].req.addr] = task[u].lock
            /\ InProgress(task[u].req.xid) \in ToSet(heap[task[u].lock].transactions)
        BY <4>1 DEF IInv, LockedIsInProgress
      <4>3. /\ transactions'[task[u].req.addr] = transactions[task[u].req.addr]
            /\ transactions[task[u].req.addr] # c
        BY <1>5, <3>2, <4>1
      <4>. QED  BY <1>1, <1>5, <4>1, <4>2, <4>3
    <3>. QED  BY <3>1, <3>2
  <2>. QED  BY <2>1 DEF LockedIsInProgress
<1>7. InProgressIsHeld'
  <2>1. ASSUME NEW b \in Addrs, transactions'[b] # None,
               NEW tx \in ToSet(heap'[transactions'[b]].transactions),
               tx.state = "InProgress"
        PROVE  \E u \in Holders' : task'[u].req = [addr |-> b, xid |-> tx.xid]
    <3>1. CASE b = a
      BY <1>1, <2>1, <3>1
    <3>2. CASE b # a
      <4>1. transactions'[b] = transactions[b] /\ transactions[b] # c
        BY <3>2
      <4>2. transactions'[b] \in Cells
        BY <1>1, <2>1
      <4>3. tx \in ToSet(heap[transactions[b]].transactions)
        BY <1>1, <2>1, <4>1, <4>2
      <4>4. PICK u \in Holders : task[u].req = [addr |-> b, xid |-> tx.xid]
        BY <2>1, <4>1, <4>3 DEF IInv, InProgressIsHeld
      <4>5. task[u].req.addr # a
        BY <3>2, <4>4
      <4>. QED  BY <4>4, <4>5
    <3>. QED  BY <3>1, <3>2
  <2>. QED  BY <2>1 DEF InProgressIsHeld
<1>8. ActiveCountExact'
  <2>1. ASSUME NEW d \in Cells, d # c PROVE LocksOn(d)' = LocksOn(d)
    <3>1. ASSUME NEW u \in LocksOn(d)' PROVE u \in LocksOn(d)
      BY <2>1, <3>1 DEF LocksOn
    <3>2. ASSUME NEW u \in LocksOn(d) PROVE u \in LocksOn(d)'
      BY <2>1, <3>2 DEF LocksOn
    <3>. QED  BY <3>1, <3>2
  <2>2. ASSUME NEW d \in Cells
        PROVE  /\ heap'[d].active_transactions = Cardinality(LocksOn(d)')
               /\ heap'[d].active_transactions <= MaxActiveTransactions
    <3>1. CASE d = c
      BY <1>1, <3>1
    <3>2. CASE d # c
      BY <1>1, <2>1, <3>2 DEF IInv, ActiveCountExact
    <3>. QED  BY <3>1, <3>2
  <2>. QED  BY <2>2 DEF ActiveCountExact
<1>. QED  BY <1>2, <1>3, <1>6, <1>7, <1>8 DEF IInv

\* The locks on a table are held by tasks, so they can be counted.
LEMMA LocksFinite == \A c : IsFiniteSet(LocksOn(c)) /\ Cardinality(LocksOn(c)) \in Nat
<1>1. \A c : LocksOn(c) \in SUBSET Tasks
  BY DEF LocksOn, Holders
<1>. QED  BY <1>1, FS_Subset, FS_CardinalityType

\* add_transaction on the table tab of the client, which is in cell c.
LEMMA RegisterIInv ==
    ASSUME IInv, NEW t \in Tasks, task[t].pc \in {"arrived", "unknown"},
           NEW c \in Cells, NEW tab \in Table, Sorted(tab.transactions),
           transactions' \in [Addrs -> Cells \cup {None}],
           transactions'[task[t].req.addr] = c,
           \A b \in Addrs : b # task[t].req.addr =>
                transactions'[b] = transactions[b] /\ transactions[b] # c,
           tab.active_transactions = Cardinality(LocksOn(c)),
           tab.active_transactions <= MaxActiveTransactions,
           \A u \in Holders : task[u].req.addr = task[t].req.addr =>
                /\ task[u].lock = c
                /\ InProgress(task[u].req.xid) \in ToSet(tab.transactions),
           \A tx \in ToSet(tab.transactions) : tx.state = "InProgress" =>
                \E u \in Holders : task[u].req = [addr |-> task[t].req.addr, xid |-> tx.xid],
           Register(t, c, tab), UNCHANGED <<clock, cleaner, listening>>
    PROVE  IInv'
<1>. DEFINE a == task[t].req.addr
            x == task[t].req.xid
            now == task[t].now
<1>1. /\ task \in [Tasks -> Task] /\ heap \in [Cells -> Table]
      /\ t \notin Holders /\ task[t].req \in Request /\ task[t] \in Task
  BY DEF IInv, TypeOK, TaskShape, Holders
<1>2. a \in Addrs /\ x \in Xids /\ now \in Instant /\ task[t].req = [addr |-> a, xid |-> x]
  BY <1>1 DEF Request, Task
<1>3. tab.active_transactions \in Nat
  BY DEF Table
<1>4. CASE AlreadyExists(t, c, tab) \/ TooMany(t, c, tab)
  <2>. DEFINE new == Touch(tab, now)
  <2>1. heap' = [heap EXCEPT ![c] = new] /\ task' = [task EXCEPT ![t] = Idle]
    BY <1>4 DEF AlreadyExists, TooMany
  <2>2. /\ new \in Table /\ new.transactions = tab.transactions
        /\ new.active_transactions = tab.active_transactions
    BY <1>2 DEF Touch, Table
  <2>. HIDE DEF new
  <2>3. /\ Holders' = Holders
        /\ \A u \in Tasks : u # t => task'[u] = task[u]
    BY <1>1, <2>1 DEF Holders, Idle
  <2>4. \A u \in Holders : task'[u] = task[u]
    BY <1>1, <2>3 DEF Holders
  <2>5. TypeOK'
    BY <1>1, <2>1, <2>2 DEF IInv, TypeOK, Idle, Task, Instant
  <2>6. TaskShape'
    BY <1>1, <2>1, <2>3, <2>4 DEF IInv, TaskShape, Idle
  <2>7. NoConcurrentDuplicate'
    BY <2>3, <2>4 DEF IInv, NoConcurrentDuplicate
  <2>8. LocksOn(c)' = LocksOn(c)
    BY <2>3, <2>4 DEF LocksOn
  <2>9. Sorted(new.transactions)
    BY <2>2
  <2>10. Replaces(a, c, new)
    BY <2>1, <2>2, <2>3, <2>4 DEF Replaces
  <2>. HIDE DEF a
  <2>. QED  BY <1>2, <2>2, <2>5, <2>6, <2>7, <2>8, <2>9, <2>10, TableReplaced
<1>5. CASE Admit(t, c, tab)
  <2>. DEFINE new == AddTransaction(tab, x, now)
  <2>1. /\ ~Exists(tab.transactions, x) /\ ~TooManyRequests(tab)
        /\ heap' = [heap EXCEPT ![c] = new]
        /\ task' = [task EXCEPT ![t].pc = "running", ![t].lock = c]
    BY <1>5 DEF Admit
  <2>2. /\ new \in Table /\ Sorted(new.transactions)
        /\ new.active_transactions = tab.active_transactions + 1
        /\ InProgress(x) \in ToSet(new.transactions)
        /\ ToSet(new.transactions) \subseteq ToSet(tab.transactions) \cup {InProgress(x)}
        /\ \A tx \in (ToSet(tab.transactions) \cup {InProgress(x)}) \ ToSet(new.transactions) :
                tx.state = "Completed"
    <3>1. /\ tab \in Table /\ Sorted(tab.transactions) /\ x \in Xids /\ now \in Instant
          /\ ~Exists(tab.transactions, x)
      BY <1>2, <2>1
    <3>. HIDE DEF a, x, now
    <3>. QED  BY ONLY <3>1, AddProperties, SMTT(60)
  <2>. HIDE DEF new
  <2>3. /\ task'[t] = [task[t] EXCEPT !.pc = "running", !.lock = c]
        /\ \A u \in Tasks : u # t => task'[u] = task[u]
    BY <1>1, <2>1
  <2>4. task'[t].req = task[t].req /\ task'[t].lock = c /\ task'[t].pc = "running"
        /\ task'[t] \in Task
    BY <1>1, <2>3 DEF Task
  <2>5. Holders' = Holders \cup {t} /\ \A u \in Holders : task'[u] = task[u]
    <3>1. \A u : u \in Holders <=> u \in Tasks /\ task[u].pc \in {"running", "dropping"}
      BY DEF Holders
    <3>2. \A u : u \in Holders' <=> u \in Tasks /\ task'[u].pc \in {"running", "dropping"}
      BY DEF Holders
    <3>3. t \notin Holders
      BY <1>1
    <3>4. \A u \in Holders : u # t /\ task'[u] = task[u]
      BY <2>3, <3>1, <3>3
    <3>5. t \in Holders'
      BY <2>4, <3>2
    <3>6. \A u : u # t => (u \in Holders' <=> u \in Holders)
      BY <2>3, <3>1, <3>2
    <3>. QED  BY <3>4, <3>5, <3>6
  <2>6. TypeOK'
    BY <1>1, <2>1, <2>2 DEF IInv, TypeOK, Task, Instant
  <2>7. TaskShape'
    <3>1. ASSUME NEW u \in Tasks, u # t
          PROVE  /\ task'[u].pc # "idle" => task'[u].req \in Request
                 /\ u \in Holders' => task'[u].lock \in Cells
      BY <2>3, <2>5, <3>1 DEF IInv, TaskShape
    <3>2. task'[t].req \in Request /\ task'[t].lock \in Cells
      BY <1>1, <2>4
    <3>. QED  BY <3>1, <3>2 DEF TaskShape
  <2>8. \A u \in Holders : task[u].req # task[t].req
    <3>1. ASSUME NEW u \in Holders, task[u].req = task[t].req PROVE FALSE
      <4>1. InProgress(x) \in ToSet(tab.transactions)
        BY <3>1
      <4>2. InProgress(x).xid = x
        BY DEF InProgress
      <4>3. tab.transactions \in Seq(Transaction)
        BY DEF Table
      <4>. QED  BY <1>2, <2>1, <4>1, <4>2, <4>3, ExistsIsMembership
    <3>. QED  BY <3>1
  <2>9. NoConcurrentDuplicate'
    BY <2>4, <2>5, <2>8 DEF IInv, NoConcurrentDuplicate
  <2>10. /\ LocksOn(c)' = LocksOn(c) \cup {t} /\ t \notin LocksOn(c)
    BY <1>1, <2>4, <2>5 DEF LocksOn
  <2>11. Cardinality(LocksOn(c)') = Cardinality(LocksOn(c)) + 1
    <3>1. IsFiniteSet(LocksOn(c))
      BY LocksFinite
    <3>2. Cardinality(LocksOn(c) \cup {t}) = Cardinality(LocksOn(c)) + 1
      BY <2>10, <3>1, FS_AddElement
    <3>. QED  BY <2>10, <3>2
  <2>12. /\ new.active_transactions = Cardinality(LocksOn(c)')
         /\ new.active_transactions <= MaxActiveTransactions
    BY <1>3, <2>1, <2>2, <2>11 DEF TooManyRequests
  <2>13. \A tx \in ToSet(new.transactions) : tx.state = "InProgress" =>
            \E u \in Holders' : task'[u].req = [addr |-> a, xid |-> tx.xid]
    <3>1. ASSUME NEW tx \in ToSet(tab.transactions), tx.state = "InProgress"
          PROVE  \E u \in Holders' : task'[u].req = [addr |-> a, xid |-> tx.xid]
      BY <2>5, <3>1
    <3>2. /\ InProgress(x).xid = x /\ t \in Holders'
          /\ task'[t].req = [addr |-> a, xid |-> x]
      BY <1>2, <2>4, <2>5 DEF InProgress
    <3>. QED  BY <2>2, <3>1, <3>2
  <2>14. \A u \in Holders' : task'[u].req.addr = a =>
                /\ task'[u].lock = c
                /\ InProgress(task'[u].req.xid) \in ToSet(new.transactions)
    <3>1. ASSUME NEW u \in Holders, task[u].req.addr = a
          PROVE  /\ task[u].lock = c
                 /\ InProgress(task[u].req.xid) \in ToSet(new.transactions)
      <4>1. InProgress(task[u].req.xid) \in ToSet(tab.transactions) /\ task[u].lock = c
        BY <3>1
      <4>2. InProgress(task[u].req.xid).state # "Completed"
        BY DEF InProgress
      <4>. QED  BY <2>2, <4>1, <4>2
    <3>. QED  BY <2>2, <2>4, <2>5, <3>1
  <2>15. task'[t].req.addr = a
    BY <2>4
  <2>16. Replaces(a, c, new)
    BY <2>1, <2>5, <2>13, <2>14, <2>15 DEF Replaces
  <2>. HIDE DEF a
  <2>. QED  BY <1>2, <2>2, <2>6, <2>7, <2>9, <2>12, <2>16, TableReplaced
<1>. QED  BY <1>4, <1>5 DEF Register

\* The client is known: its table is in the cell of the map.
LEMMA KnownIInv ==
    ASSUME IInv, NEW t \in Tasks, StartKnown(t) \/ StartInserted(t)
    PROVE  IInv'
<1>. DEFINE a == task[t].req.addr
<1>1. PICK c : c = transactions[a]
  OBVIOUS
<1>2. /\ task[t].pc \in {"arrived", "unknown"} /\ c # None
      /\ Register(t, c, heap[c]) /\ UNCHANGED <<clock, transactions, cleaner, listening>>
  BY <1>1 DEF StartKnown, StartInserted
<1>3. task[t].req \in Request /\ a \in Addrs
  BY <1>2 DEF IInv, TaskShape, Request
<1>4. /\ transactions \in [Addrs -> Cells \cup {None}] /\ heap \in [Cells -> Table]
      /\ c \in Cells
  BY <1>1, <1>2, <1>3 DEF IInv, TypeOK
<1>5. PICK tab \in Table : tab = heap[c]
  BY <1>4
<1>6. Sorted(tab.transactions)
  BY <1>4, <1>5 DEF IInv, SortedByXid
<1>7. \A b \in Addrs : b # a => transactions'[b] = transactions[b] /\ transactions[b] # c
  BY <1>1, <1>2, <1>3 DEF IInv, CellsDistinct
<1>8. /\ tab.active_transactions = Cardinality(LocksOn(c))
      /\ tab.active_transactions <= MaxActiveTransactions
  BY <1>4, <1>5 DEF IInv, ActiveCountExact
<1>9. \A u \in Holders : task[u].req.addr = a =>
        task[u].lock = c /\ InProgress(task[u].req.xid) \in ToSet(tab.transactions)
  BY <1>1, <1>5 DEF IInv, LockedIsInProgress
<1>10. \A tx \in ToSet(tab.transactions) : tx.state = "InProgress" =>
        \E u \in Holders : task[u].req = [addr |-> a, xid |-> tx.xid]
  BY <1>1, <1>2, <1>3, <1>5 DEF IInv, InProgressIsHeld
<1>11. transactions' \in [Addrs -> Cells \cup {None}] /\ transactions'[a] = c
  BY <1>1, <1>2, <1>4
<1>12. Register(t, c, tab) /\ UNCHANGED <<clock, cleaner, listening>>
  BY <1>2, <1>5
<1>. QED
  BY <1>2, <1>4, <1>6, <1>7, <1>8, <1>9, <1>10, <1>11, <1>12, RegisterIInv

\* The client is new: its table is in a cell that nothing refers to.
LEMMA InsertIInv ==
    ASSUME IInv, NEW t \in Tasks, StartInsert(t)
    PROVE  IInv'
<1>. DEFINE a == task[t].req.addr
<1>1. /\ task[t].pc \in {"arrived", "unknown"} /\ transactions[a] = None
      /\ UNCHANGED <<clock, cleaner, listening>>
  BY DEF StartInsert
<1>2. PICK c \in Cells \ (Mapped \cup Locked) :
        /\ transactions' = [transactions EXCEPT ![a] = c]
        /\ Register(t, c, NewTable(task[t].now))
  BY DEF StartInsert
<1>3. task[t].req \in Request /\ a \in Addrs /\ task[t].now \in Instant
  BY <1>1 DEF IInv, TypeOK, TaskShape, Request, Task
<1>4. PICK tab : tab = NewTable(task[t].now)
  OBVIOUS
<1>5. /\ tab \in Table /\ Sorted(tab.transactions)
      /\ ToSet(tab.transactions) = {} /\ tab.active_transactions = 0
  BY <1>3, <1>4, NewTableProperties
<1>6. transactions \in [Addrs -> Cells \cup {None}]
  BY DEF IInv, TypeOK
<1>7. transactions' \in [Addrs -> Cells \cup {None}] /\ transactions'[a] = c
  BY <1>2, <1>3, <1>6
<1>8. \A b \in Addrs : b # a => transactions'[b] = transactions[b] /\ transactions[b] # c
  BY <1>2, <1>6 DEF Mapped
<1>9. /\ tab.active_transactions = Cardinality(LocksOn(c))
      /\ tab.active_transactions <= MaxActiveTransactions
  <2>1. LocksOn(c) = {}
    BY <1>2 DEF LocksOn, Locked
  <2>2. Cardinality({}) = 0
    BY FS_EmptySet
  <2>. QED  BY <1>5, <2>1, <2>2
<1>10. \A u \in Holders : task[u].req.addr # a
  <2>1. ASSUME NEW u \in Holders, task[u].req.addr = a PROVE FALSE
    <3>1. transactions[a] = task[u].lock /\ task[u].lock \in Cells
      BY <2>1 DEF IInv, LockedIsInProgress, TaskShape, Holders
    <3>. QED  BY <1>1, <3>1
  <2>. QED  BY <2>1
<1>11. Register(t, c, tab)
  BY <1>2, <1>4
<1>. QED
  BY <1>1, <1>2, <1>5, <1>7, <1>8, <1>9, <1>10, <1>11, RegisterIInv

\* TransactionLock::drop: the record is completed and the count goes down by one,
\* in the table the lock refers to, even if the client has another by now.
LEMMA DropLockIInv ==
    ASSUME IInv, NEW t \in Tasks, DropLock(t)
    PROVE  IInv'
<1>1. PICK a, x, now, c : /\ task[t].req = [addr |-> a, xid |-> x]
                          /\ now = task[t].now /\ c = task[t].lock
  BY DEF DropLock, IInv, TaskShape, Request
<1>2. /\ task[t].pc = "dropping" /\ t \in Holders
      /\ UNCHANGED <<clock, transactions, cleaner, listening>>
      /\ task' = [task EXCEPT ![t] = Idle]
  BY DEF DropLock, Holders
<1>3. /\ a \in Addrs /\ x \in Xids /\ now \in Instant /\ c \in Cells
      /\ task[t].req.addr = a /\ task[t].req.xid = x
      /\ task \in [Tasks -> Task] /\ heap \in [Cells -> Table]
      /\ transactions \in [Addrs -> Cells \cup {None}]
  BY <1>1, <1>2 DEF IInv, TypeOK, TaskShape, Request, Task
<1>4. transactions[a] = c /\ InProgress(x) \in ToSet(heap[c].transactions)
  BY <1>1, <1>2, <1>3 DEF IInv, LockedIsInProgress
<1>5. PICK new : new = Dropped(heap[c], x, now)
  OBVIOUS
<1>6. heap' = [heap EXCEPT ![c] = new]
  BY <1>1, <1>3, <1>5 DEF DropLock
<1>7. /\ heap[c] \in Table /\ Sorted(heap[c].transactions)
      /\ heap[c].active_transactions = Cardinality(LocksOn(c))
      /\ heap[c].active_transactions <= MaxActiveTransactions
  BY <1>3 DEF IInv, SortedByXid, ActiveCountExact
<1>8. t \in LocksOn(c) /\ IsFiniteSet(LocksOn(c)) /\ Cardinality(LocksOn(c)) \in Nat
  BY <1>1, <1>2, LocksFinite DEF LocksOn
<1>9. Cardinality(LocksOn(c) \ {t}) = Cardinality(LocksOn(c)) - 1
  BY <1>8, FS_RemoveElement
<1>10. IsFiniteSet(LocksOn(c) \ {t}) /\ Cardinality(LocksOn(c) \ {t}) \in Nat
  BY <1>8, FS_RemoveElement, FS_CardinalityType
<1>11. heap[c].active_transactions > 0
  BY <1>7, <1>8, <1>9, <1>10
<1>12. /\ new \in Table /\ Sorted(new.transactions)
       /\ new.active_transactions = heap[c].active_transactions - 1
       /\ ToSet(new.transactions) \subseteq
            (ToSet(heap[c].transactions) \ {InProgress(x)}) \cup {CompletedAt(x, now)}
       /\ \A tx \in ((ToSet(heap[c].transactions) \ {InProgress(x)})
                        \cup {CompletedAt(x, now)}) \ ToSet(new.transactions) :
                IsStale(tx, now)
  BY <1>3, <1>4, <1>5, <1>7, <1>11, DroppedProperties
<1>13. \A u \in Tasks : u # t => task'[u] = task[u]
  BY <1>2, <1>3
<1>14. task'[t] = Idle
  BY <1>2, <1>3
<1>15. Holders' = Holders \ {t} /\ \A u \in Holders' : u # t /\ task'[u] = task[u]
  <2>1. \A u : u \in Holders <=> u \in Tasks /\ task[u].pc \in {"running", "dropping"}
    BY DEF Holders
  <2>2. \A u : u \in Holders' <=> u \in Tasks /\ task'[u].pc \in {"running", "dropping"}
    BY DEF Holders
  <2>3. t \notin Holders'
    BY <1>14, <2>2 DEF Idle
  <2>4. \A u : u # t => (u \in Holders' <=> u \in Holders)
    BY <1>13, <2>1, <2>2
  <2>. QED  BY <1>13, <2>1, <2>3, <2>4
<1>16. TypeOK'
  BY <1>2, <1>3, <1>6, <1>12 DEF IInv, TypeOK, Idle, Task, Instant
<1>17. TaskShape'
  <2>1. ASSUME NEW u \in Tasks, u # t
        PROVE  /\ task'[u].pc # "idle" => task'[u].req \in Request
               /\ u \in Holders' => task'[u].lock \in Cells
    BY <1>13, <1>15, <2>1 DEF IInv, TaskShape
  <2>2. task'[t].pc = "idle" /\ t \notin Holders'
    BY <1>14, <1>15 DEF Idle
  <2>. QED  BY <2>1, <2>2 DEF TaskShape
<1>18. NoConcurrentDuplicate'
  BY <1>15 DEF IInv, NoConcurrentDuplicate
<1>19. LocksOn(c)' = LocksOn(c) \ {t}
  BY <1>15 DEF LocksOn
<1>20. /\ new.active_transactions = Cardinality(LocksOn(c)')
       /\ new.active_transactions <= MaxActiveTransactions
  BY <1>7, <1>8, <1>9, <1>10, <1>12, <1>19
<1>21. \A u \in Holders : task[u].req \in Request
  BY DEF IInv, TaskShape, Holders
<1>22. \A u \in Holders' : task'[u].req.addr = a =>
        /\ task'[u].lock = c
        /\ InProgress(task'[u].req.xid) \in ToSet(new.transactions)
  <2>1. ASSUME NEW u \in Holders', task'[u].req.addr = a
        PROVE  /\ task'[u].lock = c
               /\ InProgress(task'[u].req.xid) \in ToSet(new.transactions)
    <3>1. u \in Holders /\ u # t /\ task'[u] = task[u]
      BY <1>15
    <3>2. task[u].req # task[t].req
      BY <1>2, <3>1 DEF IInv, NoConcurrentDuplicate
    <3>3. task[u].req.xid # x
      BY <1>3, <1>21, <1>2, <2>1, <3>1, <3>2 DEF Request
    <3>4. task[u].lock = c /\ InProgress(task[u].req.xid) \in ToSet(heap[c].transactions)
      BY <1>4, <2>1, <3>1 DEF IInv, LockedIsInProgress
    <3>5. /\ InProgress(task[u].req.xid) # InProgress(x)
          /\ ~IsStale(InProgress(task[u].req.xid), now)
      BY <3>3 DEF InProgress, IsStale
    <3>. QED  BY <1>12, <3>1, <3>4, <3>5
  <2>. QED  BY <2>1
<1>23. \A tx \in ToSet(new.transactions) : tx.state = "InProgress" =>
        \E u \in Holders' : task'[u].req = [addr |-> a, xid |-> tx.xid]
  <2>1. ASSUME NEW tx \in ToSet(new.transactions), tx.state = "InProgress"
        PROVE  \E u \in Holders' : task'[u].req = [addr |-> a, xid |-> tx.xid]
    <3>1. tx \in ToSet(heap[c].transactions) /\ tx # InProgress(x)
      BY <1>12, <2>1 DEF CompletedAt
    <3>2. PICK u \in Holders : task[u].req = [addr |-> a, xid |-> tx.xid]
      BY <1>3, <1>4, <2>1, <3>1 DEF IInv, InProgressIsHeld
    <3>3. tx.xid # x
      <4>1. heap[c].transactions \in Seq(Transaction)
        BY <1>7 DEF Table
      <4>2. PICK i, j \in 1..Len(heap[c].transactions) :
                tx = heap[c].transactions[i] /\ InProgress(x) = heap[c].transactions[j]
        BY <1>4, <3>1, <4>1, Entries
      <4>3. /\ i < j \/ j < i
            /\ heap[c].transactions[i].xid \in Nat /\ heap[c].transactions[j].xid \in Nat
        BY <3>1, <4>1, <4>2, Entries
      <4>4. tx.xid < InProgress(x).xid \/ InProgress(x).xid < tx.xid
        BY <1>7, <4>2, <4>3 DEF Sorted
      <4>. QED  BY <4>2, <4>3, <4>4 DEF InProgress
    <3>4. u # t
      BY <1>1, <3>2, <3>3
    <3>. QED  BY <1>15, <3>2, <3>4
  <2>. QED  BY <2>1
<1>24. Replaces(a, c, new)
  <2>1. \A b \in Addrs : b # a => transactions'[b] = transactions[b] /\ transactions[b] # c
    BY <1>2, <1>3, <1>4 DEF IInv, CellsDistinct
  <2>2. \A u \in Holders : task[u].req.addr = a => task[u].lock = c
    BY <1>4 DEF IInv, LockedIsInProgress
  <2>3. \A u \in Holders : task[u].req.addr # a => u \in Holders' /\ task'[u] = task[u]
    BY <1>3, <1>15
  <2>4. \A u \in Holders' : u \in Holders /\ task'[u] = task[u]
    BY <1>15
  <2>5. transactions'[a] = c
    BY <1>2, <1>4
  <2>. QED  BY <1>6, <1>22, <1>23, <2>1, <2>2, <2>3, <2>4, <2>5 DEF Replaces
<1>. QED
  BY <1>3, <1>12, <1>16, <1>17, <1>18, <1>20, <1>24, TableReplaced

\* The steps that touch no table.
QuietStep ==
    \/ Tick \/ CleanerStart \/ Wake \/ DropListener
    \/ \E t \in Tasks, r \in Request : Receive(t, r)
    \/ \E t \in Tasks : StartUnknown(t) \/ Finish(t)

\* These steps touch no table and no lock.
LEMMA QuietIInv ==
    ASSUME IInv, QuietStep
    PROVE  IInv'
<1>1. /\ task \in [Tasks -> Task] /\ cleaner \in Cleaner /\ clock \in Nat /\ TypeOK
      /\ TaskShape
  BY DEF IInv, TypeOK, Instant
<1>2. CASE Tick \/ CleanerStart \/ Wake \/ DropListener
  <2>1. UNCHANGED <<transactions, heap, task>>
    BY <1>2 DEF Tick, CleanerStart, Wake, DropListener
  <2>2. /\ clock' \in Nat
        /\ cleaner' \in Cleaner
        /\ listening' \in BOOLEAN
    <3>1. CASE Tick
      BY <1>1, <3>1 DEF Tick, TypeOK
    <3>2. CASE CleanerStart \/ Wake
      BY <1>1, <3>2 DEF CleanerStart, Wake, TypeOK, Cleaner, Instant
    <3>3. CASE DropListener
      <4>1. /\ clock' = clock /\ listening' = FALSE
            /\ cleaner' = [pc |-> "stopped", now |-> 0] \/ cleaner' = cleaner
        BY <3>3 DEF DropListener
      <4>2. [pc |-> "stopped", now |-> 0] \in Cleaner
        BY DEF Cleaner, Instant
      <4>. QED  BY <1>1, <4>1, <4>2
    <3>. QED  BY <1>2, <3>1, <3>2, <3>3
  <2>3. TypeOK'
    BY <1>1, <2>1, <2>2 DEF TypeOK, Instant
  <2>4. Holders' = Holders /\ TaskShape'
    BY <1>1, <2>1 DEF Holders, TaskShape
  <2>. QED  BY <2>1, <2>3, <2>4, SameLocks
<1>3. ASSUME NEW t \in Tasks, NEW r \in Request, Receive(t, r)
      PROVE  IInv'
  <2>1. /\ task[t].pc = "idle" /\ UNCHANGED <<clock, transactions, heap, cleaner, listening>>
        /\ task' = [task EXCEPT ![t] =
                [pc |-> "arrived", req |-> r, now |-> clock, lock |-> None]]
    BY <1>3 DEF Receive
  <2>2. \A u \in Tasks : u # t => task'[u] = task[u]
    BY <1>1, <2>1
  <2>3. task'[t] = [pc |-> "arrived", req |-> r, now |-> clock, lock |-> None]
    BY <1>1, <2>1
  <2>4. task'[t].pc = "arrived" /\ task'[t].req = r /\ task'[t] \in Task
    BY <1>1, <2>3 DEF Task, Instant
  <2>5. Holders' = Holders /\ t \notin Holders
    BY <2>1, <2>2, <2>4 DEF Holders
  <2>6. TypeOK'
    BY <1>1, <2>1, <2>4 DEF TypeOK
  <2>7. TaskShape'
    BY <1>1, <2>2, <2>4, <2>5 DEF TaskShape
  <2>8. \A u \in Holders : task'[u] = task[u]
    BY <2>2, <2>5 DEF Holders
  <2>. QED  BY <2>1, <2>5, <2>6, <2>7, <2>8, SameLocks
<1>4. ASSUME NEW t \in Tasks, StartUnknown(t) \/ Finish(t)
      PROVE  IInv'
  <2>1. UNCHANGED <<clock, transactions, heap, cleaner, listening>>
    BY <1>4 DEF StartUnknown, Finish
  <2>2. \A u \in Tasks : u # t => task'[u] = task[u]
    BY <1>1, <1>4 DEF StartUnknown, Finish
  <2>3. /\ task'[t].req = task[t].req /\ task'[t].lock = task[t].lock
        /\ task'[t] \in Task /\ task[t].pc # "idle"
        /\ task'[t].pc \in {"running", "dropping"} <=> task[t].pc \in {"running", "dropping"}
    BY <1>1, <1>4 DEF StartUnknown, Finish, Task, Instant
  <2>4. task' \in [Tasks -> Task]
    BY <1>1, <1>4, <2>3 DEF StartUnknown, Finish
  <2>5. Holders' = Holders
    BY <2>2, <2>3 DEF Holders
  <2>6. \A u \in Tasks : task'[u].req = task[u].req /\ task'[u].lock = task[u].lock
    BY <2>2, <2>3
  <2>7. TypeOK'
    BY <1>1, <2>1, <2>4 DEF TypeOK
  <2>8. TaskShape'
    BY <1>1, <2>2, <2>3, <2>5, <2>6 DEF TaskShape
  <2>9. \A u \in Holders : u \in Tasks
    BY DEF Holders
  <2>. QED  BY <2>1, <2>5, <2>6, <2>7, <2>8, <2>9, SameLocks
<1>. QED  BY <1>2, <1>3, <1>4 DEF QuietStep

\* The cleaner keeps every table that has a transaction in progress.
LEMMA CleanupIInv ==
    ASSUME IInv, Cleanup
    PROVE  IInv'
<1>. DEFINE kept == {a \in Addrs : /\ transactions[a] # None
                                   /\ IsActive(heap[transactions[a]], cleaner.now)}
            keptCells == {transactions[a] : a \in kept}
            swept(c) == [heap[c] EXCEPT
                            !.transactions = RemoveOldTransactions(@, cleaner.now)]
<1>1. /\ transactions' = [a \in Addrs |-> IF a \in kept THEN transactions[a] ELSE None]
      /\ heap' = [c \in Cells |-> IF c \in keptCells THEN swept(c)
                                  ELSE IF c \in Locked THEN heap[c] ELSE NewTable(0)]
      /\ cleaner' = [pc |-> "waiting", now |-> 0]
      /\ UNCHANGED <<clock, task, listening>>
  BY DEF Cleanup
<1>2. /\ transactions \in [Addrs -> Cells \cup {None}] /\ heap \in [Cells -> Table]
      /\ cleaner.now \in Instant
  BY DEF IInv, TypeOK, Cleaner
<1>3. Holders' = Holders /\ TaskShape'
  BY <1>1 DEF IInv, TaskShape, Holders
<1>4. ASSUME NEW c \in Cells
      PROVE  /\ swept(c) \in Table
             /\ Sorted(swept(c).transactions)
             /\ swept(c).active_transactions = heap[c].active_transactions
             /\ ToSet(swept(c).transactions) \subseteq ToSet(heap[c].transactions)
             /\ \A tx \in ToSet(heap[c].transactions) \ ToSet(swept(c).transactions) :
                    IsStale(tx, cleaner.now)
  <2>. DEFINE rest == RemoveOldTransactions(heap[c].transactions, cleaner.now)
  <2>1. heap[c] \in Table /\ heap[c].transactions \in Seq(Transaction)
        /\ Sorted(heap[c].transactions)
    BY <1>2 DEF IInv, SortedByXid, Table
  <2>2. /\ rest \in Seq(Transaction)
        /\ Sorted(rest)
        /\ ToSet(rest) \subseteq ToSet(heap[c].transactions)
        /\ \A tx \in ToSet(heap[c].transactions) \ ToSet(rest) : IsStale(tx, cleaner.now)
    BY <1>2, <2>1, RemoveOldProperties
  <2>. HIDE DEF rest
  <2>3. /\ swept(c).transactions = rest /\ swept(c) \in Table
        /\ swept(c).active_transactions = heap[c].active_transactions
    BY <2>1, <2>2 DEF Table, rest
  <2>. QED  BY <2>2, <2>3
<1>. HIDE DEF swept
<1>5. \A u \in Holders : task[u].req.addr \in kept /\ task[u].lock \in keptCells
  <2>1. ASSUME NEW u \in Holders PROVE task[u].req.addr \in kept /\ task[u].lock \in keptCells
    <3>. DEFINE a == task[u].req.addr
                c == task[u].lock
    <3>1. a \in Addrs /\ c \in Cells
      BY DEF IInv, TaskShape, Holders, Request
    <3>2. transactions[a] = c /\ InProgress(task[u].req.xid) \in ToSet(heap[c].transactions)
      BY DEF IInv, LockedIsInProgress
    <3>3. PICK i \in 1..Len(heap[c].transactions) :
            heap[c].transactions[i] = InProgress(task[u].req.xid)
      <4>1. heap[c].transactions \in Seq(Transaction)
        BY <1>2, <3>1 DEF Table
      <4>. QED  BY <3>2, <4>1, Entries
    <3>4. ~IsStale(InProgress(task[u].req.xid), cleaner.now)
      BY DEF IsStale, InProgress
    <3>5. IsActive(heap[c], cleaner.now)
      BY <3>3, <3>4 DEF IsActive, HasActiveTransactions
    <3>6. c # None
      BY <3>1
    <3>. QED  BY <3>1, <3>2, <3>5, <3>6
  <2>. QED  BY <2>1
<1>. HIDE DEF kept, keptCells
<1>6. \A c \in Locked : c \in keptCells
  BY <1>5 DEF Locked
<1>7. \A c \in Cells : heap'[c] = IF c \in keptCells THEN swept(c) ELSE NewTable(0)
  BY <1>1, <1>6
<1>8. \A a \in Addrs : /\ a \in kept => transactions'[a] = transactions[a]
                       /\ a \notin kept => transactions'[a] = None
  BY <1>1
<1>9. \A a \in kept : a \in Addrs /\ transactions[a] \in keptCells /\ transactions[a] \in Cells
  BY <1>2 DEF kept, keptCells
<1>10. /\ NewTable(0) \in Table /\ Sorted(NewTable(0).transactions)
       /\ NewTable(0).active_transactions = 0
  BY NewTableProperties DEF Instant
<1>11. TypeOK'
  <2>1. heap' \in [Cells -> Table]
    BY <1>1, <1>4, <1>7, <1>10
  <2>2. transactions' \in [Addrs -> Cells \cup {None}]
    BY <1>1, <1>2
  <2>. QED  BY <1>1, <2>1, <2>2 DEF IInv, TypeOK, Cleaner, Instant
<1>12. CellsDistinct'
  BY <1>8 DEF IInv, CellsDistinct
<1>13. SortedByXid'
  BY <1>4, <1>7, <1>10 DEF SortedByXid
<1>14. NoConcurrentDuplicate'
  BY <1>1, <1>3 DEF IInv, NoConcurrentDuplicate
<1>15. LockedIsInProgress'
  <2>1. ASSUME NEW u \in Holders
        PROVE  /\ transactions'[task[u].req.addr] = task[u].lock
               /\ InProgress(task[u].req.xid) \in ToSet(heap'[task[u].lock].transactions)
    <3>1. /\ transactions[task[u].req.addr] = task[u].lock
          /\ InProgress(task[u].req.xid) \in ToSet(heap[task[u].lock].transactions)
      BY DEF IInv, LockedIsInProgress
    <3>2. task[u].req.addr \in kept /\ task[u].lock \in keptCells /\ task[u].lock \in Cells
      BY <1>5 DEF IInv, TaskShape, Holders
    <3>3. ~IsStale(InProgress(task[u].req.xid), cleaner.now)
      BY DEF IsStale, InProgress
    <3>. QED  BY <1>4, <1>7, <1>8, <1>9, <3>1, <3>2, <3>3
  <2>. QED  BY <1>1, <1>3, <2>1 DEF LockedIsInProgress
<1>16. InProgressIsHeld'
  <2>1. ASSUME NEW a \in Addrs, transactions'[a] # None,
               NEW tx \in ToSet(heap'[transactions'[a]].transactions),
               tx.state = "InProgress"
        PROVE  \E u \in Holders : task[u].req = [addr |-> a, xid |-> tx.xid]
    <3>1. a \in kept /\ transactions'[a] = transactions[a]
      BY <1>8, <2>1
    <3>2. transactions[a] \in keptCells /\ transactions[a] \in Cells /\ transactions[a] # None
      BY <1>9, <2>1, <3>1
    <3>3. tx \in ToSet(heap[transactions[a]].transactions)
      BY <1>4, <1>7, <2>1, <3>1, <3>2
    <3>. QED  BY <2>1, <3>2, <3>3 DEF IInv, InProgressIsHeld
  <2>. QED  BY <1>1, <1>3, <2>1 DEF InProgressIsHeld
<1>17. ActiveCountExact'
  <2>1. ASSUME NEW c \in Cells
        PROVE  /\ heap'[c].active_transactions = Cardinality(LocksOn(c))
               /\ heap'[c].active_transactions <= MaxActiveTransactions
    <3>1. /\ heap[c].active_transactions = Cardinality(LocksOn(c))
          /\ heap[c].active_transactions <= MaxActiveTransactions
      BY DEF IInv, ActiveCountExact
    <3>2. CASE c \in keptCells
      BY <1>4, <1>7, <3>1, <3>2
    <3>3. CASE c \notin keptCells
      <4>1. LocksOn(c) = {}
        BY <1>6, <3>3 DEF LocksOn, Locked
      <4>2. Cardinality({}) = 0
        BY FS_EmptySet
      <4>. QED  BY <1>7, <1>10, <3>3, <4>1, <4>2
    <3>. QED  BY <3>2, <3>3
  <2>2. \A c : LocksOn(c)' = LocksOn(c)
    BY <1>1, <1>3 DEF LocksOn
  <2>. QED  BY <2>1, <2>2 DEF ActiveCountExact
<1>. QED
  BY <1>3, <1>11, <1>12, <1>13, <1>14, <1>15, <1>16, <1>17 DEF IInv

\* Every step of the tracker keeps the inductive invariant.
LEMMA NextIInv == IInv /\ [Next]_vars => IInv'
<1>. SUFFICES ASSUME IInv, [Next]_vars PROVE IInv'
  OBVIOUS
<1>1. CASE QuietStep
  BY <1>1, QuietIInv
<1>2. ASSUME NEW t \in Tasks, StartKnown(t) \/ StartInserted(t) PROVE IInv'
  BY <1>2, KnownIInv
<1>3. ASSUME NEW t \in Tasks, StartInsert(t) PROVE IInv'
  BY <1>3, InsertIInv
<1>4. ASSUME NEW t \in Tasks, DropLock(t) PROVE IInv'
  BY <1>4, DropLockIInv
<1>5. CASE Cleanup
  BY <1>5, CleanupIInv
<1>6. CASE UNCHANGED vars
  <2>1. /\ UNCHANGED <<clock, transactions, heap, task, cleaner, listening>>
        /\ Holders' = Holders
    BY <1>6 DEF vars, Holders
  <2>2. TypeOK'
    BY <2>1 DEF IInv, TypeOK
  <2>3. TaskShape'
    BY <2>1 DEF IInv, TaskShape
  <2>. QED  BY <2>1, <2>2, <2>3, SameLocks
<1>. QED  BY <1>1, <1>2, <1>3, <1>4, <1>5, <1>6 DEF Next, TaskStep, QuietStep

\* The inductive invariant holds in every state of every behaviour.
LEMMA Invariance == Spec => []IInv
  BY InitIInv, NextIInv, PTL DEF Spec

\* The tables, the tasks and the cleaner keep their types.
THEOREM TypeCorrect == Spec => []TypeOK
<1>1. IInv => TypeOK
  BY DEF IInv
<1>. QED  BY <1>1, Invariance, PTL

\* start_transaction never admits a request that is being executed.
THEOREM NoDuplicateExecution == Spec => []NoConcurrentDuplicate
<1>1. IInv => NoConcurrentDuplicate
  BY DEF IInv
<1>. QED  BY <1>1, Invariance, PTL

\* The assertion in Transaction::complete never fails, and the cleaner never
\* replaces a table that a TransactionLock will complete.
THEOREM LockFindsItsTransaction == Spec => []LockedIsInProgress
<1>1. IInv => LockedIsInProgress
  BY DEF IInv
<1>. QED  BY <1>1, Invariance, PTL

\* active_transactions neither leaks nor underflows nor passes its limit.
THEOREM SlotsAreReturned == Spec => []ActiveCountExact
<1>1. IInv => ActiveCountExact
  BY DEF IInv
<1>. QED  BY <1>1, Invariance, PTL

\* An entry in progress in the table in the map has a task that holds its lock
\* and will complete it, so no xid stays blocked for good.
THEOREM EntriesInProgressAreHeld == Spec => []InProgressIsHeld
<1>1. IInv => InProgressIsHeld
  BY DEF IInv
<1>. QED  BY <1>1, Invariance, PTL

\* The deque the binary search runs on is always sorted.
THEOREM TablesStaySorted == Spec => []SortedByXid
<1>1. IInv => SortedByXid
  BY DEF IInv
<1>. QED  BY <1>1, Invariance, PTL
-----------------------------------------------------------------------------
(* The refinement of DuplicateFilter.  Besides the invariant it needs that *)
(* every instant a task or the cleaner works with has passed.              *)

TimesPast ==
    /\ \A t \in Tasks : task[t].now <= clock
    /\ cleaner.now <= clock

Records == [addr : Addrs, xid : Xids, at : Nat]
Lock(t) == [task |-> t, addr |-> task[t].req.addr, xid |-> task[t].req.xid]

\* Instant::now never goes back, so no instant read before lies ahead.
LEMMA TimesInit == Init => TimesPast
BY DEF Init, TimesPast, Idle

\* A task and the cleaner read the clock as it is, and the clock only advances.
LEMMA TimesStep ==
    ASSUME IInv, TimesPast, [Next]_vars
    PROVE  TimesPast'
<1>1. clock \in Nat /\ task \in [Tasks -> Task] /\ cleaner \in Cleaner
  BY DEF IInv, TypeOK, Instant
<1>2. \A u \in Tasks : task[u] \in Task /\ task[u].now \in Nat /\ task[u].now <= clock
  BY <1>1 DEF TimesPast, Task, Instant
<1>3. cleaner.now \in Nat /\ cleaner.now <= clock
  BY <1>1 DEF TimesPast, Cleaner, Instant
<1>4. Idle.now = 0
  BY DEF Idle
<1>5. ASSUME clock' = clock, cleaner'.now \in {0, clock, cleaner.now},
             \A u \in Tasks : task'[u].now \in {0, clock, task[u].now}
      PROVE  TimesPast'
  BY <1>1, <1>2, <1>3, <1>5 DEF TimesPast
<1>6. CASE Tick
  BY <1>1, <1>2, <1>3, <1>6 DEF Tick, TimesPast
<1>7. ASSUME NEW t \in Tasks, NEW c, NEW tab, Register(t, c, tab), UNCHANGED <<clock, cleaner>>
      PROVE  TimesPast'
  <2>1. \A u \in Tasks : task'[u].now \in {0, task[u].now}
    BY <1>1, <1>4, <1>7 DEF Register, AlreadyExists, TooMany, Admit, Task
  <2>. QED  BY <1>5, <1>7, <2>1
<1>8. ASSUME NEW t \in Tasks, TaskStep(t) PROVE TimesPast'
  <2>1. CASE StartKnown(t) \/ StartInserted(t)
    BY <1>7, <2>1 DEF StartKnown, StartInserted
  <2>2. CASE StartInsert(t)
    BY <1>7, <2>2 DEF StartInsert
  <2>3. CASE StartUnknown(t) \/ Finish(t) \/ DropLock(t)
    <3>1. \A u \in Tasks : task'[u].now \in {0, clock, task[u].now}
      BY <1>1, <1>4, <2>3 DEF StartUnknown, Finish, DropLock, Task
    <3>2. UNCHANGED <<clock, cleaner>>
      BY <2>3 DEF StartUnknown, Finish, DropLock
    <3>. QED  BY <1>5, <3>1, <3>2
  <2>. QED  BY <1>8, <2>1, <2>2, <2>3 DEF TaskStep
<1>9. ASSUME NEW t \in Tasks, NEW r \in Request, Receive(t, r) PROVE TimesPast'
  <2>1. \A u \in Tasks : task'[u].now \in {clock, task[u].now}
    BY <1>1, <1>9 DEF Receive
  <2>. QED  BY <1>5, <1>9, <2>1 DEF Receive
<1>10. CASE CleanerStart \/ Wake \/ Cleanup \/ DropListener
  <2>1. cleaner'.now \in {0, clock, cleaner.now} /\ UNCHANGED <<clock, task>>
    BY <1>10 DEF CleanerStart, Wake, Cleanup, DropListener
  <2>. QED  BY <1>5, <2>1
<1>11. CASE UNCHANGED vars
  BY <1>5, <1>11 DEF vars
<1>. QED  BY <1>6, <1>8, <1>9, <1>10, <1>11 DEF Next

\* The module's own copy of Cardinality counts as ours does.
LEMMA SameCardinality == \A S : Filter!Cardinality(S) = Cardinality(S)
BY DEF Filter!Cardinality, Cardinality

\* What is remembered, entry by entry.
LEMMA RememberedIff ==
    TypeOK => /\ Remembered \subseteq Records
              /\ \A r \in Records : r \in Remembered <=>
                    /\ transactions[r.addr] # None
                    /\ CompletedAt(r.xid, r.at) \in ToSet(heap[transactions[r.addr]].transactions)
<1>. SUFFICES ASSUME TypeOK
             PROVE  /\ Remembered \subseteq Records
                    /\ \A r \in Records : r \in Remembered <=>
                        /\ transactions[r.addr] # None
                        /\ CompletedAt(r.xid, r.at) \in
                               ToSet(heap[transactions[r.addr]].transactions)
  OBVIOUS
<1>1. ASSUME NEW a \in Addrs, transactions[a] # None
      PROVE  \A tx \in ToSet(heap[transactions[a]].transactions) :
                /\ tx \in Transaction
                /\ tx.state = "Completed" => tx = CompletedAt(tx.xid, tx.at)
  <2>1. heap[transactions[a]].transactions \in Seq(Transaction)
    BY <1>1 DEF TypeOK, Table
  <2>2. \A tx \in ToSet(heap[transactions[a]].transactions) : tx \in Transaction
    BY <2>1, Entries
  <2>. QED  BY <2>2 DEF Transaction, CompletedAt
<1>2. ASSUME NEW r \in Remembered
      PROVE  /\ r \in Records /\ transactions[r.addr] # None
             /\ CompletedAt(r.xid, r.at) \in ToSet(heap[transactions[r.addr]].transactions)
  <2>1. PICK a \in Addrs : r \in RememberedOf(a)
    BY <1>2 DEF Remembered
  <2>2. transactions[a] # None
    BY <2>1 DEF RememberedOf
  <2>3. PICK tx \in Completed(heap[transactions[a]].transactions) :
            r = [addr |-> a, xid |-> tx.xid, at |-> tx.at]
    BY <2>1, <2>2 DEF RememberedOf
  <2>4. /\ tx \in ToSet(heap[transactions[a]].transactions)
        /\ tx \in Transaction /\ tx = CompletedAt(tx.xid, tx.at)
    BY <1>1, <2>2, <2>3 DEF Completed
  <2>. QED  BY <2>2, <2>3, <2>4 DEF Records, Transaction, Instant
<1>3. ASSUME NEW r \in Records, transactions[r.addr] # None,
             CompletedAt(r.xid, r.at) \in ToSet(heap[transactions[r.addr]].transactions)
      PROVE  r \in Remembered
  <2>. DEFINE tx == CompletedAt(r.xid, r.at)
  <2>1. tx.state = "Completed" /\ tx.xid = r.xid /\ tx.at = r.at
    BY DEF CompletedAt
  <2>2. tx \in Completed(heap[transactions[r.addr]].transactions)
    BY <1>3, <2>1 DEF Completed
  <2>3. r = [addr |-> r.addr, xid |-> tx.xid, at |-> tx.at] /\ r.addr \in Addrs
    BY <2>1 DEF Records
  <2>. HIDE DEF tx
  <2>4. r \in RememberedOf(r.addr)
    BY <1>3, <2>2, <2>3 DEF RememberedOf
  <2>. QED  BY <2>3, <2>4 DEF Remembered
<1>. QED  BY <1>2, <1>3

\* A step that puts the table new of client a into cell c changes what is
\* remembered of no other client.
LEMMA RememberedSwap ==
    ASSUME TypeOK, TypeOK', NEW a \in Addrs, NEW c \in Cells, NEW new,
           heap' = [heap EXCEPT ![c] = new], transactions'[a] = c,
           \A b \in Addrs : b # a => transactions'[b] = transactions[b] /\ transactions[b] # c
    PROVE  /\ Remembered \subseteq Records /\ Remembered' \subseteq Records
           /\ \A r \in Records :
                /\ r.addr = a =>
                    (r \in Remembered' <=> CompletedAt(r.xid, r.at) \in ToSet(new.transactions))
                /\ r.addr # a => (r \in Remembered' <=> r \in Remembered)
<1>1. TypeOK' => /\ Remembered' \subseteq Records
                 /\ \A r \in Records : r \in Remembered' <=>
                    /\ transactions'[r.addr] # None
                    /\ CompletedAt(r.xid, r.at) \in ToSet(heap'[transactions'[r.addr]].transactions)
  <2>1. (/\ Remembered \subseteq Records
         /\ \A r \in Records : r \in Remembered <=>
                    /\ transactions[r.addr] # None
                    /\ CompletedAt(r.xid, r.at) \in ToSet(heap[transactions[r.addr]].transactions))'
    BY RememberedIff, PTL
  <2>. QED  BY <2>1
<1>2. heap'[c] = new /\ \A d \in Cells : d # c => heap'[d] = heap[d]
  BY DEF TypeOK
<1>3. c # None
  OBVIOUS
<1>4. \A b \in Addrs : transactions[b] # None => transactions[b] \in Cells
  BY DEF TypeOK
<1>5. \A r \in Records : r.addr \in Addrs
  BY DEF Records
<1>. QED  BY <1>1, <1>2, <1>3, <1>4, <1>5, RememberedIff

\* A step that leaves the locks and everything remembered alone is a stutter.
LEMMA StutterSim ==
    ASSUME Holders' = Holders, \A u \in Holders : task'[u].req = task[u].req,
           UNCHANGED clock, Remembered' = Remembered
    PROVE  UNCHANGED Filter!vars
<1>1. Executing' = Executing
  BY DEF Executing
<1>. QED  BY <1>1 DEF Filter!vars

\* A client whose locks are all on one cell executes no more than they are.
LEMMA ExecutingBound ==
    ASSUME NEW a, NEW c, \A u \in Holders : task[u].req.addr = a => task[u].lock = c
    PROVE  /\ Cardinality({e \in Executing : e.addr = a}) \in Nat
           /\ Cardinality({e \in Executing : e.addr = a}) <= Cardinality(LocksOn(c))
<1>. DEFINE E == {e \in Executing : e.addr = a}
            f == [e \in E |-> e.task]
<1>1. \A e \in E : e.task \in Holders /\ e = Lock(e.task) /\ task[e.task].req.addr = a
  BY DEF Executing, Lock
<1>2. \A e \in E : e.task \in LocksOn(c)
  BY <1>1 DEF LocksOn
<1>3. f \in [E -> LocksOn(c)] /\ \A d, e \in E : f[d] = f[e] => d = e
  <2>. HIDE DEF E
  <2>. QED  BY <1>1, <1>2
<1>4. f \in Injection(E, LocksOn(c))
  <2>. HIDE DEF E, f
  <2>. QED  BY <1>3, Fun_IsInj
<1>5. IsFiniteSet(LocksOn(c))
  BY LocksFinite
<1>. HIDE DEF E, f
<1>6. IsFiniteSet(E) /\ Cardinality(E) <= Cardinality(LocksOn(c))
  BY <1>4, <1>5, FS_Injection
<1>7. Cardinality(E) \in Nat
  BY <1>6, FS_CardinalityType
<1>. QED  BY <1>6, <1>7 DEF E

\* The requests that are recognised, one by one.
LEMMA RecognisedIff ==
    ASSUME NEW a
    PROVE  \A x : x \in Filter!Recognised(a, Executing, Remembered) <=>
                    \/ \E u \in Holders : task[u].req.addr = a /\ task[u].req.xid = x
                    \/ \E r \in Remembered : r.addr = a /\ r.xid = x
<1>1. \A x : x \in Filter!Recognised(a, Executing, Remembered) <=>
                \/ \E e \in Executing : e.addr = a /\ e.xid = x
                \/ \E r \in Remembered : r.addr = a /\ r.xid = x
  BY DEF Filter!Recognised
<1>2. \A u \in Holders : /\ Lock(u) \in Executing
                          /\ Lock(u).addr = task[u].req.addr /\ Lock(u).xid = task[u].req.xid
  BY DEF Executing, Lock
<1>3. \A e \in Executing : \E u \in Holders : e = Lock(u)
  BY DEF Executing, Lock
<1>. QED  BY <1>1, <1>2, <1>3

\* The client of a table recognises the xids in it, one for each entry.
LEMMA RecognisedCount ==
    ASSUME IInv, NEW a \in Addrs, transactions[a] # None
    PROVE  Cardinality(Filter!Recognised(a, Executing, Remembered))
                = Len(heap[transactions[a]].transactions)
<1>. DEFINE c == transactions[a]
            txs == heap[c].transactions
            R == Filter!Recognised(a, Executing, Remembered)
            f == [i \in 1..Len(txs) |-> txs[i].xid]
<1>1. c \in Cells /\ txs \in Seq(Transaction) /\ Sorted(txs)
  BY DEF IInv, TypeOK, SortedByXid, Table
<1>2. /\ Len(txs) \in Nat /\ ToSet(txs) = {txs[i] : i \in 1..Len(txs)}
      /\ \A i \in 1..Len(txs) : txs[i] \in Transaction /\ txs[i].xid \in Nat
  BY <1>1, Entries
<1>3. \A x : x \in R <=> \/ \E u \in Holders : task[u].req.addr = a /\ task[u].req.xid = x
                         \/ \E r \in Remembered : r.addr = a /\ r.xid = x
  BY RecognisedIff
<1>. HIDE DEF R
<1>4. ASSUME NEW i \in 1..Len(txs) PROVE txs[i].xid \in R
  <2>1. txs[i] \in ToSet(txs) /\ txs[i] \in Transaction
    BY <1>2
  <2>2. CASE txs[i].state = "InProgress"
    <3>1. PICK u \in Holders : task[u].req = [addr |-> a, xid |-> txs[i].xid]
      BY <2>1, <2>2 DEF IInv, InProgressIsHeld
    <3>. QED  BY <1>3, <3>1
  <2>3. CASE txs[i].state = "Completed"
    <3>. DEFINE r == [addr |-> a, xid |-> txs[i].xid, at |-> txs[i].at]
    <3>1. r \in Records /\ r.addr = a /\ r.xid = txs[i].xid /\ r.at = txs[i].at
      BY <2>1 DEF Records, Transaction, Instant
    <3>2. CompletedAt(r.xid, r.at) = txs[i]
      BY <2>1, <2>3 DEF CompletedAt, Transaction
    <3>. HIDE DEF r
    <3>3. r \in Remembered
      BY <2>1, <3>1, <3>2, RememberedIff DEF IInv
    <3>. QED  BY <1>3, <3>1, <3>3
  <2>. QED  BY <2>1, <2>2, <2>3 DEF Transaction
<1>5. ASSUME NEW x \in R PROVE \E i \in 1..Len(txs) : txs[i].xid = x
  <2>1. ASSUME NEW u \in Holders, task[u].req.addr = a, task[u].req.xid = x
        PROVE  \E i \in 1..Len(txs) : txs[i].xid = x
    <3>1. InProgress(x) \in ToSet(txs)
      BY <2>1 DEF IInv, LockedIsInProgress
    <3>. QED  BY <1>2, <3>1 DEF InProgress
  <2>2. ASSUME NEW r \in Remembered, r.addr = a, r.xid = x
        PROVE  \E i \in 1..Len(txs) : txs[i].xid = x
    <3>1. r \in Records /\ CompletedAt(r.xid, r.at) \in ToSet(txs)
      BY <2>2, RememberedIff DEF IInv
    <3>. QED  BY <1>2, <2>2, <3>1 DEF CompletedAt
  <2>. QED  BY <1>3, <2>1, <2>2
<1>6. f \in [1..Len(txs) -> R] /\ \A x \in R : \E i \in 1..Len(txs) : f[i] = x
  <2>. HIDE DEF txs
  <2>. QED  BY <1>4, <1>5
<1>7. \A i, j \in 1..Len(txs) : f[i] = f[j] => i = j
  <2>1. ASSUME NEW i \in 1..Len(txs), NEW j \in 1..Len(txs), i # j
        PROVE  txs[i].xid # txs[j].xid
    <3>1. i < j \/ j < i
      BY <1>2, <2>1
    <3>. QED  BY <1>1, <1>2, <3>1 DEF Sorted
  <2>. HIDE DEF txs
  <2>. QED  BY <2>1
<1>8. f \in Surjection(1..Len(txs), R) /\ f \in Injection(1..Len(txs), R)
  <2>. HIDE DEF f, txs
  <2>. QED  BY <1>6, <1>7, Fun_IsInj, Fun_IsSurj
<1>9. IsFiniteSet(1..Len(txs)) /\ Cardinality(1..Len(txs)) = Len(txs)
  <2>1. \A n \in Nat : IsFiniteSet(1..n) /\ Cardinality(1..n) = n
    BY FS_Interval
  <2>. QED  BY <1>2, <2>1
<1>10. Cardinality(R) = Len(txs)
  <2>. HIDE DEF f, txs
  <2>. QED  BY <1>8, <1>9, FS_Surjection
<1>. QED  BY <1>10 DEF R, txs, c

\* add_transaction: a lock is a Begin, a refusal a stutter.
LEMMA RegisterSim ==
    ASSUME IInv, IInv', NEW t \in Tasks, task[t].pc \in {"arrived", "unknown"},
           NEW c \in Cells, NEW tab \in Table, Sorted(tab.transactions),
           transactions'[task[t].req.addr] = c,
           \A b \in Addrs : b # task[t].req.addr =>
                transactions'[b] = transactions[b] /\ transactions[b] # c,
           tab.active_transactions = Cardinality(LocksOn(c)),
           \A u \in Holders : task[u].req.addr = task[t].req.addr =>
                /\ task[u].lock = c
                /\ InProgress(task[u].req.xid) \in ToSet(tab.transactions),
           \A r \in Records : r.addr = task[t].req.addr =>
                (r \in Remembered <=> CompletedAt(r.xid, r.at) \in ToSet(tab.transactions)),
           Register(t, c, tab), UNCHANGED clock
    PROVE  Filter!Next \/ UNCHANGED Filter!vars
<1>1. PICK a \in Addrs, x \in Xids, now \in Instant :
        task[t].req = [addr |-> a, xid |-> x] /\ now = task[t].now
  <2>1. task[t].req \in Request /\ task[t] \in Task
    BY DEF IInv, TypeOK, TaskShape
  <2>. QED  BY <2>1 DEF Request, Task
<1>2. /\ task[t].req.addr = a /\ task[t].req.xid = x
      /\ task \in [Tasks -> Task] /\ heap \in [Cells -> Table] /\ t \notin Holders
  BY <1>1 DEF IInv, TypeOK, Holders
<1>3. TypeOK /\ TypeOK'
  BY DEF IInv
<1>4. ASSUME NEW new, heap' = [heap EXCEPT ![c] = new]
      PROVE  /\ Remembered \subseteq Records /\ Remembered' \subseteq Records
             /\ \A r \in Records :
                /\ r.addr = a =>
                    (r \in Remembered' <=> CompletedAt(r.xid, r.at) \in ToSet(new.transactions))
                /\ r.addr # a => (r \in Remembered' <=> r \in Remembered)
  <2>1. /\ transactions'[a] = c
        /\ \A b \in Addrs : b # a => transactions'[b] = transactions[b] /\ transactions[b] # c
    BY <1>2
  <2>. QED  BY ONLY <1>3, <1>4, <2>1, a \in Addrs, c \in Cells, RememberedSwap
<1>5. CASE AlreadyExists(t, c, tab) \/ TooMany(t, c, tab)
  <2>1. heap' = [heap EXCEPT ![c] = Touch(tab, now)] /\ task' = [task EXCEPT ![t] = Idle]
    BY <1>1, <1>5 DEF AlreadyExists, TooMany
  <2>2. Touch(tab, now).transactions = tab.transactions
    BY DEF Touch, Table
  <2>3. \A r \in Records : r \in Remembered' <=> r \in Remembered
    BY <1>2, <1>4, <2>1, <2>2
  <2>4. Remembered' = Remembered
    BY <1>4, <2>1, <2>3
  <2>5. Holders' = Holders /\ \A u \in Holders : task'[u].req = task[u].req
    BY <1>2, <2>1 DEF Holders, Idle
  <2>. QED  BY <2>4, <2>5, StutterSim
<1>6. CASE Admit(t, c, tab)
  <2>1. PICK new : new = AddTransaction(tab, x, now)
    OBVIOUS
  <2>2. /\ ~Exists(tab.transactions, x) /\ ~TooManyRequests(tab)
        /\ heap' = [heap EXCEPT ![c] = new]
        /\ task' = [task EXCEPT ![t].pc = "running", ![t].lock = c]
    BY <1>1, <1>2, <1>6, <2>1 DEF Admit
  <2>3. /\ InProgress(x) \in ToSet(new.transactions)
        /\ ToSet(new.transactions) \subseteq ToSet(tab.transactions) \cup {InProgress(x)}
        /\ \A tx \in (ToSet(tab.transactions) \cup {InProgress(x)}) \ ToSet(new.transactions) :
                tx.state = "Completed"
        /\ ToSet(new.transactions) # ToSet(tab.transactions) \cup {InProgress(x)} =>
                Len(new.transactions) >= TrimLimit
        /\ new.transactions \in Seq(Transaction)
    <3>1. new \in Table => new.transactions \in Seq(Transaction)
      BY DEF Table
    <3>2. /\ tab \in Table /\ Sorted(tab.transactions) /\ x \in Xids /\ now \in Instant
          /\ ~Exists(tab.transactions, x)
      BY <2>2
    <3>. QED  BY ONLY <2>1, <3>1, <3>2, AddProperties, SMTT(60)
  <2>4. \A r : CompletedAt(r.xid, r.at) # InProgress(x)
    BY DEF CompletedAt, InProgress
  <2>5. Remembered' \subseteq Remembered /\ \A r \in Remembered \ Remembered' : r.addr = a
    BY <1>2, <1>4, <2>2, <2>3, <2>4
  <2>6. Remembered' = Remembered
            \/ Cardinality(Filter!Recognised(a, Executing, Remembered)') >= TrimLimit
    <3>1. CASE ToSet(new.transactions) = ToSet(tab.transactions) \cup {InProgress(x)}
      <4>1. \A r : CompletedAt(r.xid, r.at) \in ToSet(new.transactions) <=>
                        CompletedAt(r.xid, r.at) \in ToSet(tab.transactions)
        BY <2>4, <3>1
      <4>2. \A r \in Records : r \in Remembered' <=> r \in Remembered
        BY <1>2, <1>4, <2>2, <4>1
      <4>. QED  BY <1>4, <2>2, <4>2
    <3>2. CASE ToSet(new.transactions) # ToSet(tab.transactions) \cup {InProgress(x)}
      <4>1. (IInv /\ transactions[a] # None =>
                Cardinality(Filter!Recognised(a, Executing, Remembered))
                    = Len(heap[transactions[a]].transactions))'
        BY RecognisedCount, PTL
      <4>2. transactions'[a] = c /\ c # None /\ heap'[c] = new
        BY <1>2, <2>2
      <4>3. Cardinality(Filter!Recognised(a, Executing, Remembered)') = Len(new.transactions)
        BY <4>1, <4>2
      <4>. QED  BY <2>3, <3>2, <4>3
    <3>. QED  BY <3>1, <3>2
  <2>7. Holders' = Holders \cup {t} /\ \A u \in Holders' : task'[u].req = task[u].req
    BY <1>2, <2>2 DEF Holders, Task
  <2>8. Executing' = Executing \cup {[task |-> t, addr |-> a, xid |-> x]}
    BY <1>2, <2>7 DEF Executing
  <2>9. \A e \in Executing : e.task # t
    BY <1>2 DEF Executing
  <2>10. x \notin Filter!Recognised(a, Executing, Remembered)
    <3>1. tab.transactions \in Seq(Transaction)
      BY DEF Table
    <3>2. \A tx \in ToSet(tab.transactions) : tx.xid # x
      BY <2>2, <3>1, ExistsIsMembership
    <3>3. \A u \in Holders : task[u].req.addr = a => task[u].req.xid # x
      BY <1>2, <3>2 DEF InProgress
    <3>4. \A r \in Remembered : r.addr = a => r.xid # x
      BY <1>2, <1>4, <2>2, <3>2 DEF CompletedAt
    <3>. QED  BY <3>3, <3>4 DEF Filter!Recognised, Executing
  <2>11. Cardinality({e \in Executing : e.addr = a}) < MaxActiveTransactions
    <3>1. \A u \in Holders : task[u].req.addr = a => task[u].lock = c
      BY <1>2
    <3>2. PICK n : n = Cardinality({e \in Executing : e.addr = a})
      OBVIOUS
    <3>3. n \in Nat /\ n <= Cardinality(LocksOn(c))
      BY ONLY <3>1, <3>2, ExecutingBound
    <3>4. tab.active_transactions \in Nat /\ tab.active_transactions < MaxActiveTransactions
      BY <2>2 DEF Table, TooManyRequests
    <3>. QED  BY <3>2, <3>3, <3>4
  <2>12. Filter!Begin(t, a, x)
    BY <2>5, <2>6, <2>8, <2>9, <2>10, <2>11, SameCardinality DEF Filter!Begin
  <2>. QED  BY <2>12 DEF Filter!Next
<1>. QED  BY <1>5, <1>6 DEF Register

\* The client is known.
LEMMA KnownSim ==
    ASSUME IInv, IInv', NEW t \in Tasks, StartKnown(t) \/ StartInserted(t)
    PROVE  Filter!Next \/ UNCHANGED Filter!vars
<1>. DEFINE a == task[t].req.addr
<1>1. PICK c : c = transactions[a]
  OBVIOUS
<1>2. /\ task[t].pc \in {"arrived", "unknown"} /\ c # None
      /\ Register(t, c, heap[c]) /\ UNCHANGED <<clock, transactions>>
  BY <1>1 DEF StartKnown, StartInserted
<1>3. a \in Addrs
  BY <1>2 DEF IInv, TaskShape, Request
<1>4. c \in Cells /\ heap \in [Cells -> Table]
  BY <1>1, <1>2, <1>3 DEF IInv, TypeOK
<1>5. PICK tab \in Table : tab = heap[c]
  BY <1>4
<1>6. Sorted(tab.transactions) /\ tab.active_transactions = Cardinality(LocksOn(c))
  BY <1>4, <1>5 DEF IInv, SortedByXid, ActiveCountExact
<1>7. \A b \in Addrs : b # a => transactions'[b] = transactions[b] /\ transactions[b] # c
  BY <1>1, <1>2, <1>3 DEF IInv, CellsDistinct
<1>8. \A u \in Holders : task[u].req.addr = a =>
        task[u].lock = c /\ InProgress(task[u].req.xid) \in ToSet(tab.transactions)
  BY <1>1, <1>5 DEF IInv, LockedIsInProgress
<1>9. \A r \in Records : r.addr = a =>
        (r \in Remembered <=> CompletedAt(r.xid, r.at) \in ToSet(tab.transactions))
  BY <1>1, <1>2, <1>5, RememberedIff DEF IInv
<1>10. transactions'[a] = c /\ Register(t, c, tab) /\ UNCHANGED clock
  BY <1>1, <1>2, <1>5
<1>. QED  BY <1>2, <1>4, <1>6, <1>7, <1>8, <1>9, <1>10, RegisterSim

\* The client is new: nothing of it is remembered.
LEMMA InsertSim ==
    ASSUME IInv, IInv', NEW t \in Tasks, StartInsert(t)
    PROVE  Filter!Next \/ UNCHANGED Filter!vars
<1>. DEFINE a == task[t].req.addr
<1>1. task[t].pc \in {"arrived", "unknown"} /\ transactions[a] = None /\ UNCHANGED clock
  BY DEF StartInsert
<1>2. PICK c \in Cells \ (Mapped \cup Locked) :
        /\ transactions' = [transactions EXCEPT ![a] = c]
        /\ Register(t, c, NewTable(task[t].now))
  BY DEF StartInsert
<1>3. a \in Addrs /\ task[t].now \in Instant
  BY <1>1 DEF IInv, TypeOK, TaskShape, Request, Task
<1>4. PICK tab : tab = NewTable(task[t].now)
  OBVIOUS
<1>5. /\ tab \in Table /\ Sorted(tab.transactions)
      /\ ToSet(tab.transactions) = {} /\ tab.active_transactions = 0
  BY <1>3, <1>4, NewTableProperties
<1>6. transactions \in [Addrs -> Cells \cup {None}]
  BY DEF IInv, TypeOK
<1>7. transactions'[a] = c
  BY <1>2, <1>3, <1>6
<1>8. \A b \in Addrs : b # a => transactions'[b] = transactions[b] /\ transactions[b] # c
  BY <1>2, <1>6 DEF Mapped
<1>9. tab.active_transactions = Cardinality(LocksOn(c))
  <2>1. LocksOn(c) = {}
    BY <1>2 DEF LocksOn, Locked
  <2>2. Cardinality({}) = 0
    BY FS_EmptySet
  <2>. QED  BY <1>5, <2>1, <2>2
<1>10. \A u \in Holders : task[u].req.addr # a
  <2>1. ASSUME NEW u \in Holders, task[u].req.addr = a PROVE FALSE
    <3>1. transactions[a] = task[u].lock /\ task[u].lock \in Cells
      BY <2>1 DEF IInv, LockedIsInProgress, TaskShape, Holders
    <3>. QED  BY <1>1, <3>1
  <2>. QED  BY <2>1
<1>11. \A r \in Records : r.addr = a =>
        (r \in Remembered <=> CompletedAt(r.xid, r.at) \in ToSet(tab.transactions))
  BY <1>1, <1>5, RememberedIff DEF IInv
<1>12. Register(t, c, tab)
  BY <1>2, <1>4
<1>. QED
  BY <1>1, <1>2, <1>5, <1>7, <1>8, <1>9, <1>10, <1>11, <1>12, RegisterSim

\* The drop of a TransactionLock is an End, at the instant the drop has read.
LEMMA DropLockSim ==
    ASSUME IInv, IInv', TimesPast, NEW t \in Tasks, DropLock(t)
    PROVE  Filter!Next
<1>1. PICK a, x, now, c : /\ task[t].req = [addr |-> a, xid |-> x]
                          /\ now = task[t].now /\ c = task[t].lock
  BY DEF DropLock, IInv, TaskShape, Request
<1>2. /\ t \in Holders /\ UNCHANGED <<clock, transactions>>
      /\ task' = [task EXCEPT ![t] = Idle]
  BY DEF DropLock, Holders
<1>3. /\ a \in Addrs /\ x \in Xids /\ now \in Nat /\ c \in Cells
      /\ task[t].req.addr = a /\ task[t].req.xid = x
      /\ task \in [Tasks -> Task] /\ heap \in [Cells -> Table]
  BY <1>1, <1>2 DEF IInv, TypeOK, TaskShape, Request, Task, Instant, DropLock
<1>4. transactions[a] = c /\ InProgress(x) \in ToSet(heap[c].transactions)
  BY <1>1, <1>2, <1>3 DEF IInv, LockedIsInProgress
<1>5. PICK tab \in Table : tab = heap[c]
  BY <1>3
<1>6. PICK new : new = Dropped(tab, x, now)
  OBVIOUS
<1>7. heap' = [heap EXCEPT ![c] = new]
  BY <1>1, <1>3, <1>5, <1>6 DEF DropLock
<1>8. Sorted(tab.transactions) /\ tab.active_transactions > 0
  <2>1. t \in LocksOn(c) /\ IsFiniteSet(LocksOn(c)) /\ Cardinality(LocksOn(c)) \in Nat
    BY <1>1, <1>2, LocksFinite DEF LocksOn
  <2>2. Cardinality(LocksOn(c)) # 0
    BY <2>1, FS_EmptySet
  <2>3. Sorted(tab.transactions) /\ tab.active_transactions = Cardinality(LocksOn(c))
    BY <1>3, <1>5 DEF IInv, SortedByXid, ActiveCountExact
  <2>. QED  BY <2>1, <2>2, <2>3
<1>9. /\ ToSet(new.transactions) \subseteq
            (ToSet(tab.transactions) \ {InProgress(x)}) \cup {CompletedAt(x, now)}
      /\ \A tx \in ((ToSet(tab.transactions) \ {InProgress(x)})
                        \cup {CompletedAt(x, now)}) \ ToSet(new.transactions) :
                IsStale(tx, now)
  <2>1. InProgress(x) \in ToSet(tab.transactions) /\ now \in Instant /\ tab \in Table
    BY <1>3, <1>4, <1>5 DEF Instant
  <2>. QED  BY ONLY <1>3, <1>6, <1>8, <2>1, DroppedProperties, SMTT(60)
<1>10. clock \in Nat /\ now <= clock
  BY <1>1, <1>2 DEF IInv, TypeOK, TimesPast, Instant
<1>11. \A y, at : at \in Nat /\ IsStale(CompletedAt(y, at), now) => clock > at + RetentionPeriod
  BY <1>3, <1>10 DEF IsStale, CompletedAt, Elapsed
<1>12. /\ Remembered \subseteq Records /\ Remembered' \subseteq Records
       /\ \A r \in Records :
            /\ r.addr = a =>
                (r \in Remembered' <=> CompletedAt(r.xid, r.at) \in ToSet(new.transactions))
            /\ r.addr # a => (r \in Remembered' <=> r \in Remembered)
  <2>1. \A b \in Addrs : b # a => transactions'[b] = transactions[b] /\ transactions[b] # c
    BY <1>2, <1>3, <1>4 DEF IInv, CellsDistinct
  <2>2. TypeOK /\ TypeOK' /\ transactions'[a] = c
    BY <1>2, <1>4 DEF IInv
  <2>. QED  BY ONLY <1>3, <1>7, <2>1, <2>2, RememberedSwap
<1>13. \A r \in Records : r.addr = a =>
            (r \in Remembered <=> CompletedAt(r.xid, r.at) \in ToSet(tab.transactions))
  BY <1>3, <1>4, <1>5, RememberedIff DEF IInv
<1>. DEFINE e == Lock(t)
            done == [addr |-> a, xid |-> x, at |-> now]
<1>14. e.addr = a /\ e.xid = x /\ e.task = t /\ e \in Executing
  BY <1>2, <1>3 DEF Lock, Executing
<1>15. done \in Records /\ done.addr = a /\ done.xid = x /\ done.at = now
  BY <1>3 DEF Records
<1>16. Executing' = Executing \ {e}
  <2>1. Holders' = Holders \ {t} /\ \A u \in Holders' : task'[u] = task[u]
    BY <1>2, <1>3 DEF Holders, Idle
  <2>2. \A u \in Holders : Lock(u).task = u
    BY DEF Lock
  <2>3. Executing = {Lock(u) : u \in Holders} /\ Executing' = {Lock(u) : u \in Holders'}
    BY <2>1 DEF Executing, Lock
  <2>. QED  BY <1>2, <2>1, <2>2, <2>3
<1>17. \A r \in Records : /\ CompletedAt(r.xid, r.at) # InProgress(x)
                          /\ CompletedAt(r.xid, r.at) = CompletedAt(x, now) /\ r.addr = a =>
                                r = done
  BY <1>15 DEF CompletedAt, InProgress, Records
<1>. HIDE DEF e, done
<1>18. Remembered' \subseteq Remembered \cup {done}
  BY <1>9, <1>12, <1>13, <1>17
<1>19. ASSUME NEW r \in (Remembered \cup {done}) \ Remembered'
       PROVE  clock > r.at + RetentionPeriod
  <2>1. r \in Records /\ r.at \in Nat
    BY <1>12, <1>15, <1>19 DEF Records
  <2>2. r.addr = a
    BY <1>12, <1>15, <1>19, <2>1
  <2>3. CompletedAt(r.xid, r.at) \notin ToSet(new.transactions)
    BY <1>12, <1>19, <2>1, <2>2
  <2>4. CompletedAt(r.xid, r.at) \in
            (ToSet(tab.transactions) \ {InProgress(x)}) \cup {CompletedAt(x, now)}
    BY <1>13, <1>15, <1>17, <1>19, <2>1, <2>2
  <2>5. IsStale(CompletedAt(r.xid, r.at), now)
    BY <1>9, <2>3, <2>4
  <2>. QED  BY <1>11, <2>1, <2>5
<1>20. Filter!End(e, now)
  BY <1>2, <1>10, <1>14, <1>16, <1>18, <1>19 DEF Filter!End, done
<1>. QED  BY <1>3, <1>10, <1>14, <1>20 DEF Filter!Next

\* The cleaner forgets what has expired, and nothing else.
LEMMA CleanupSim ==
    ASSUME IInv, IInv', TimesPast, Cleanup
    PROVE  Filter!Next
<1>. DEFINE kept == {a \in Addrs : /\ transactions[a] # None
                                   /\ IsActive(heap[transactions[a]], cleaner.now)}
            keptCells == {transactions[a] : a \in kept}
            swept(c) == [heap[c] EXCEPT
                            !.transactions = RemoveOldTransactions(@, cleaner.now)]
<1>1. /\ transactions' = [a \in Addrs |-> IF a \in kept THEN transactions[a] ELSE None]
      /\ heap' = [c \in Cells |-> IF c \in keptCells THEN swept(c)
                                  ELSE IF c \in Locked THEN heap[c] ELSE NewTable(0)]
      /\ UNCHANGED <<clock, task>>
  BY DEF Cleanup
<1>2. /\ transactions \in [Addrs -> Cells \cup {None}] /\ heap \in [Cells -> Table]
      /\ cleaner.now \in Nat /\ clock \in Nat /\ cleaner.now <= clock
  BY DEF IInv, TypeOK, Cleaner, TimesPast, Instant
<1>3. \A y, at : at \in Nat /\ IsStale(CompletedAt(y, at), cleaner.now) =>
            clock > at + RetentionPeriod
  BY <1>2 DEF IsStale, CompletedAt, Elapsed
<1>4. ASSUME NEW c \in Cells
      PROVE  /\ ToSet(swept(c).transactions) \subseteq ToSet(heap[c].transactions)
             /\ \A tx \in ToSet(heap[c].transactions) \ ToSet(swept(c).transactions) :
                    IsStale(tx, cleaner.now)
  <2>1. /\ heap[c] \in Table /\ heap[c].transactions \in Seq(Transaction)
        /\ Sorted(heap[c].transactions) /\ cleaner.now \in Instant
    BY <1>2 DEF IInv, SortedByXid, Table, Instant
  <2>2. swept(c).transactions = RemoveOldTransactions(heap[c].transactions, cleaner.now)
    BY <2>1 DEF Table
  <2>. QED  BY <2>1, <2>2, RemoveOldProperties
<1>5. \A a \in kept : /\ a \in Addrs /\ transactions[a] \in Cells
                      /\ transactions'[a] = transactions[a]
                      /\ heap'[transactions[a]] = swept(transactions[a])
  BY <1>1, <1>2
<1>6. ASSUME NEW a \in Addrs, a \notin kept, transactions[a] # None,
             NEW tx \in ToSet(heap[transactions[a]].transactions)
      PROVE  IsStale(tx, cleaner.now)
  <2>1. heap[transactions[a]].transactions \in Seq(Transaction)
    BY <1>2, <1>6 DEF Table
  <2>2. PICK i \in 1..Len(heap[transactions[a]].transactions) :
            heap[transactions[a]].transactions[i] = tx
    BY <1>6, <2>1, Entries
  <2>3. ~IsActive(heap[transactions[a]], cleaner.now)
    BY <1>6
  <2>. QED  BY <2>2, <2>3 DEF IsActive, HasActiveTransactions
<1>7. \A a \in Addrs : a \notin kept => transactions'[a] = None
  BY <1>1
<1>. HIDE DEF kept, keptCells, swept
<1>8. /\ Remembered \subseteq Records
      /\ \A r \in Records : r \in Remembered <=>
            /\ transactions[r.addr] # None
            /\ CompletedAt(r.xid, r.at) \in ToSet(heap[transactions[r.addr]].transactions)
  BY RememberedIff DEF IInv
<1>9. /\ Remembered' \subseteq Records
      /\ \A r \in Records : r \in Remembered' <=>
            /\ transactions'[r.addr] # None
            /\ CompletedAt(r.xid, r.at) \in ToSet(heap'[transactions'[r.addr]].transactions)
  <2>1. TypeOK'
    BY DEF IInv
  <2>2. (/\ Remembered \subseteq Records
         /\ \A r \in Records : r \in Remembered <=>
                /\ transactions[r.addr] # None
                /\ CompletedAt(r.xid, r.at) \in ToSet(heap[transactions[r.addr]].transactions))'
    BY <2>1, RememberedIff, PTL
  <2>. QED  BY <2>2
<1>10. ASSUME NEW r \in Remembered' PROVE r \in Remembered
  <2>1. r \in Records /\ r.addr \in Addrs /\ r.addr \in kept
    BY <1>7, <1>9, <1>10 DEF Records
  <2>. QED  BY <1>4, <1>5, <1>8, <1>9, <1>10, <2>1
<1>11. ASSUME NEW r \in Remembered, r \notin Remembered'
       PROVE  clock > r.at + RetentionPeriod
  <2>1. /\ r \in Records /\ r.addr \in Addrs /\ r.at \in Nat /\ transactions[r.addr] # None
        /\ CompletedAt(r.xid, r.at) \in ToSet(heap[transactions[r.addr]].transactions)
    BY <1>8, <1>11 DEF Records
  <2>2. CASE r.addr \in kept
    <3>1. CompletedAt(r.xid, r.at) \notin ToSet(swept(transactions[r.addr]).transactions)
      BY <1>5, <1>9, <1>11, <2>1, <2>2
    <3>. QED  BY <1>3, <1>4, <1>5, <2>1, <2>2, <3>1
  <2>3. CASE r.addr \notin kept
    BY <1>3, <1>6, <2>1, <2>3
  <2>. QED  BY <2>2, <2>3
<1>12. Executing' = Executing
  BY <1>1 DEF Executing, Holders
<1>13. Filter!Expire
  BY <1>1, <1>10, <1>11, <1>12 DEF Filter!Expire, Filter!Expired
<1>. QED  BY <1>13 DEF Filter!Next

\* Every step is a step of DuplicateFilter, or nothing happens there.
LEMMA NextSim ==
    ASSUME IInv, IInv', TimesPast, [Next]_vars
    PROVE  Filter!Next \/ UNCHANGED Filter!vars
<1>1. task \in [Tasks -> Task]
  BY DEF IInv, TypeOK
<1>2. ASSUME UNCHANGED <<transactions, heap>> PROVE Remembered' = Remembered
  BY <1>2 DEF Remembered, RememberedOf
<1>3. ASSUME NEW t \in Tasks, TaskStep(t) PROVE Filter!Next \/ UNCHANGED Filter!vars
  <2>1. CASE StartUnknown(t) \/ Finish(t)
    <3>1. Holders' = Holders /\ \A u \in Holders : task'[u].req = task[u].req
      BY <1>1, <2>1 DEF StartUnknown, Finish, Holders, Task
    <3>. QED  BY <1>2, <2>1, <3>1, StutterSim DEF StartUnknown, Finish
  <2>. QED  BY <1>3, <2>1, KnownSim, InsertSim, DropLockSim DEF TaskStep
<1>4. ASSUME NEW t \in Tasks, NEW r \in Request, Receive(t, r) PROVE UNCHANGED Filter!vars
  <2>1. Holders' = Holders /\ \A u \in Holders : task'[u].req = task[u].req
    BY <1>1, <1>4 DEF Receive, Holders
  <2>. QED  BY <1>2, <1>4, <2>1, StutterSim DEF Receive
<1>5. CASE Tick
  <2>1. Executing' = Executing
    BY <1>5 DEF Tick, Executing, Holders
  <2>2. Filter!Tick
    BY <1>2, <1>5, <2>1 DEF Tick, Filter!Tick
  <2>. QED  BY <2>2 DEF Filter!Next
<1>6. CASE CleanerStart \/ Wake \/ DropListener \/ UNCHANGED vars
  <2>1. UNCHANGED <<clock, transactions, heap, task>>
    BY <1>6 DEF CleanerStart, Wake, DropListener, vars
  <2>2. Holders' = Holders
    BY <2>1 DEF Holders
  <2>. QED  BY <1>2, <2>1, <2>2, StutterSim
<1>. QED  BY <1>3, <1>4, <1>5, <1>6, CleanupSim DEF Next

\* Whatever tasks, cleaner and retransmissions do to each other, no request is
\* executed again while it runs or within the retention period, and only
\* trim_if_needed, above its limit, shortens what is remembered.
THEOREM TrackerImplementsFilter == Spec => ImplementsFilter
<1>1. Init => Filter!Init
  <2>. SUFFICES ASSUME Init PROVE Filter!Init
    OBVIOUS
  <2>1. Executing = {} /\ Remembered = {}
    BY DEF Init, Executing, Holders, Idle, Remembered, RememberedOf
  <2>. QED  BY <2>1 DEF Init, Filter!Init
<1>2. IInv /\ TimesPast /\ [Next]_vars => TimesPast'
  BY TimesStep
<1>3. Spec => []TimesPast
  BY <1>2, TimesInit, Invariance, PTL DEF Spec
<1>4. IInv /\ IInv' /\ TimesPast /\ [Next]_vars => [Filter!Next]_(Filter!vars)
  BY NextSim
<1>. QED  BY <1>1, <1>3, <1>4, Invariance, PTL DEF Spec, ImplementsFilter, Filter!Spec
============================================================================
