-------------------------- MODULE MemReadDirProofs --------------------------
(***************************************************************************)
(* Listing a directory of MemFs while others change it: what a client has  *)
(* at the end and when its cookie is refused, for any ids and mtimes, any  *)
(* number of changes and any size of page.                                 *)
(***************************************************************************)
EXTENDS MemReadDir, FiniteSetTheorems, SequenceTheorems, TLAPS

USE MemReadDirAssumption

\* s repeats nothing, as the iteration order of a HashSet.
Distinct(s) == \A i, j \in DOMAIN s : s[i] = s[j] => i = j

\* x comes before y in s.
Before(s, x, y) == \E i, j \in DOMAIN s : i < j /\ s[i] = x /\ s[j] = y

\* s repeats nothing, and what the directory still lists of it is in its order.
Along(s, content) ==
    /\ Distinct(s)
    /\ \A i, j \in DOMAIN s :
        i < j /\ s[i] \in ToSet(content) /\ s[j] \in ToSet(content) =>
            Before(content, s[i], s[j])

\* What the listing has met: sent, in the page, copied by the iterator.
Met == listing.listed \o listing.page \o listing.todo

\* The records of directory and listing; the iterator and the page never
\* repeat an id, and exist only while a page is filled.
Shape ==
    /\ dir \in [exists : BOOLEAN, content : SomeOrders, capacity : Nat \ {0}, mtime : Mtimes]
    /\ listing \in Listing
    /\ Distinct(listing.page \o listing.todo)
    /\ listing.pc # "next" => listing.page = <<>> /\ listing.todo = <<>>

\* A directory that is gone was empty, and what stayed is listed.
StayListed ==
    /\ listing.stay \subseteq ToSet(dir.content)
    /\ ~dir.exists => dir.content = <<>>

\* The cookie is the last entry the client has.
CookieIsLast ==
    /\ listing.cookie = 0 <=> listing.listed = <<>>
    /\ listing.listed # <<>> => listing.cookie = Last(listing.listed)

\* As long as the directory exists and its mtime has not been set, the verifiers
\* are made of its mtime.
VerfOfMtime ==
    dir.exists /\ ~listing.touched =>
        /\ listing.cookieverf \in {NONE_COOKIE_VERF, dir.mtime}
        /\ listing.pc \in {"make_iter", "next"} => listing.dirversion = dir.mtime

\* A listing ends with an error, or at the end of the directory.
StatAtEnd ==
    listing.stat = "BAD_COOKIE" => listing.pc = "over"

\* Between two pages, what the client lacks comes after its cookie.
Covered ==
    LET lacking == listing.stay \ ToSet(listing.listed)
    IN  /\ listing.pc = "next" => listing.stay \subseteq ToSet(Met)
        /\ listing.pc \in {"client", "getattr", "make_iter"} =>
            (listing.cookie = 0 \/ listing.cookie \notin ToSet(dir.content) \/
                \A id \in lacking : Before(dir.content, listing.cookie, id))
        /\ listing.pc = "over" /\ listing.stat = "OK" => lacking = {}

\* The inductive invariant.
IInv ==
    /\ TypeOK /\ Shape /\ StayListed /\ CookieIsLast /\ VerfOfMtime /\ StatAtEnd
    /\ BadCookieOnlyIfStale
    /\ ~listing.moved => Along(Met, dir.content) /\ Covered

-----------------------------------------------------------------------------
(* Orders of a HashSet, and sequences without repetition.                  *)

\* A sequence by its elements.
LEMMA Elements ==
    ASSUME NEW s \in Seq(Ids)
    PROVE  /\ Len(s) \in Nat /\ DOMAIN s = 1..Len(s)
           /\ \A i \in 1..Len(s) : s[i] \in Ids /\ s[i] \in ToSet(s)
           /\ ToSet(s) = {s[i] : i \in 1..Len(s)}
           /\ ToSet(s) \subseteq Ids
           /\ s = <<>> <=> Len(s) = 0
<1>1. Len(s) \in Nat /\ DOMAIN s = 1..Len(s) /\ \A i \in 1..Len(s) : s[i] \in Ids
  BY LenProperties, ElementOfSeq
<1>2. ToSet(s) = {s[i] : i \in 1..Len(s)}
  BY <1>1 DEF ToSet
<1>3. s = <<>> <=> Len(s) = 0
  BY EmptySeq
<1>. QED  BY <1>1, <1>2, <1>3

\* It has as many places as elements if it repeats nothing.
LEMMA DistinctCardinality ==
    ASSUME NEW s \in Seq(Ids), Distinct(s)
    PROVE  Cardinality(ToSet(s)) = Len(s)
<1>1. Len(s) \in Nat /\ DOMAIN s = 1..Len(s) /\ s \in [1..Len(s) -> ToSet(s)]
  BY Elements, LenProperties
<1>2. s \in Injection(1..Len(s), ToSet(s)) /\ s \in Surjection(1..Len(s), ToSet(s))
  BY <1>1 DEF Injection, IsInjective, Surjection, Distinct, ToSet
<1>3. ExistsBijection(1..Len(s), ToSet(s))
  BY <1>2 DEF ExistsBijection, Bijection
<1>. QED  BY <1>1, <1>3, FS_CountingElements

\* An order of S lists S, each element once.
LEMMA OrdersOf ==
    ASSUME NEW S \in SUBSET Ids, NEW s \in Orders(S)
    PROVE  /\ s \in Seq(Ids) /\ Distinct(s) /\ ToSet(s) = S
           /\ Len(s) = Cardinality(S) /\ s \in SomeOrders
<1>1. IsFiniteSet(S) /\ Cardinality(S) \in Nat
  BY FS_Subset, FS_CardinalityType
<1>2. s \in [1..Cardinality(S) -> S] /\ s \in Injection(1..Cardinality(S), S)
  BY DEF Orders, Injection
<1>3. s \in Seq(Ids) /\ Len(s) = Cardinality(S) /\ DOMAIN s = 1..Cardinality(S)
  <2>1. s \in [1..Cardinality(S) -> Ids]
    BY <1>2
  <2>. QED  BY <1>1, <2>1
<1>4. Distinct(s)
  BY <1>2, <1>3 DEF Injection, IsInjective, Distinct
<1>5. Cardinality(1..Cardinality(S)) = Cardinality(S)
  BY <1>1, FS_Interval
<1>6. s \in Surjection(1..Cardinality(S), S)
  BY <1>1, <1>2, <1>5, FS_Injection
<1>7. ToSet(s) = S
  BY <1>2, <1>3, <1>6 DEF Surjection, ToSet
<1>. QED  BY <1>3, <1>4, <1>7 DEF SomeOrders

\* The iteration orders are the sequences of ids without repetition.
LEMMA OrderIff == \A s : s \in SomeOrders <=> s \in Seq(Ids) /\ Distinct(s)
<1>1. ASSUME NEW s \in SomeOrders PROVE s \in Seq(Ids) /\ Distinct(s)
  <2>1. PICK S \in SUBSET Ids : s \in Orders(S)
    BY DEF SomeOrders
  <2>. QED  BY <2>1, OrdersOf
<1>2. ASSUME NEW s \in Seq(Ids), Distinct(s) PROVE s \in SomeOrders
  <2>. DEFINE S == ToSet(s)
  <2>1. Len(s) \in Nat /\ DOMAIN s = 1..Len(s) /\ S \in SUBSET Ids /\ s \in [1..Len(s) -> S]
    BY Elements, LenProperties
  <2>2. s \in Injection(1..Len(s), S)
    BY <1>2, <2>1 DEF Injection, IsInjective, Distinct
  <2>3. Cardinality(S) = Len(s)
    BY <1>2, DistinctCardinality
  <2>4. s \in Orders(S)
    BY <2>2, <2>3 DEF Orders
  <2>. QED  BY <2>1, <2>4 DEF SomeOrders
<1>. QED  BY <1>1, <1>2

\* The elements of a concatenation.
LEMMA ConcatElements ==
    ASSUME NEW s \in Seq(Ids), NEW t \in Seq(Ids)
    PROVE  /\ s \o t \in Seq(Ids) /\ Len(s \o t) = Len(s) + Len(t)
           /\ Len(s) \in Nat /\ Len(t) \in Nat
           /\ \A i \in 1..Len(s) : (s \o t)[i] = s[i]
           /\ \A i \in 1..Len(t) : (s \o t)[Len(s) + i] = t[i]
           /\ \A i \in 1..(Len(s) + Len(t)) : i > Len(s) =>
                i - Len(s) \in 1..Len(t) /\ (s \o t)[i] = t[i - Len(s)]
           /\ ToSet(s \o t) = ToSet(s) \cup ToSet(t)
<1>. DEFINE r == s \o t
<1>1. /\ r \in Seq(Ids) /\ Len(r) = Len(s) + Len(t)
      /\ Len(s) \in Nat /\ Len(t) \in Nat
      /\ \A i \in 1..(Len(s) + Len(t)) : r[i] = IF i <= Len(s) THEN s[i] ELSE t[i - Len(s)]
  BY ConcatProperties, Elements
<1>. HIDE DEF r
<1>2. \A i \in 1..Len(s) : i \in 1..(Len(s) + Len(t)) /\ r[i] = s[i]
  BY <1>1
<1>3. \A i \in 1..Len(t) : Len(s) + i \in 1..(Len(s) + Len(t)) /\ r[Len(s) + i] = t[i]
  BY <1>1
<1>4. \A i \in 1..(Len(s) + Len(t)) : i > Len(s) =>
                i - Len(s) \in 1..Len(t) /\ r[i] = t[i - Len(s)]
  BY <1>1
<1>5. ToSet(r) = ToSet(s) \cup ToSet(t)
  <2>1. /\ ToSet(r) = {r[i] : i \in 1..(Len(s) + Len(t))}
        /\ ToSet(s) = {s[i] : i \in 1..Len(s)}
        /\ ToSet(t) = {t[i] : i \in 1..Len(t)}
    BY <1>1, Elements
  <2>2. \A i \in 1..(Len(s) + Len(t)) : r[i] \in ToSet(s) \cup ToSet(t)
    <3>1. ASSUME NEW i \in 1..(Len(s) + Len(t)) PROVE r[i] \in ToSet(s) \cup ToSet(t)
      <4>1. CASE i <= Len(s)
        <5>1. i \in 1..Len(s)
          BY <1>1, <4>1
        <5>. QED  BY <1>2, <2>1, <5>1
      <4>2. CASE i > Len(s)
        BY <1>4, <2>1, <4>2
      <4>. QED  BY <1>1, <4>1, <4>2
    <3>. QED  BY <3>1
  <2>3. ToSet(r) \subseteq ToSet(s) \cup ToSet(t)
    BY <2>1, <2>2
  <2>4. ToSet(s) \subseteq ToSet(r)
    BY <1>2, <2>1
  <2>5. ToSet(t) \subseteq ToSet(r)
    BY <1>3, <2>1
  <2>. QED  BY <2>3, <2>4, <2>5
<1>. QED  BY <1>1, <1>2, <1>3, <1>4, <1>5 DEF r

\* In a sequence without repetition no two elements come before each other.
LEMMA BeforeAsymmetric ==
    ASSUME NEW s \in Seq(Ids), Distinct(s), NEW x, NEW y, Before(s, x, y)
    PROVE  ~Before(s, y, x) /\ x # y /\ x \in ToSet(s) /\ y \in ToSet(s)
<1>1. Len(s) \in Nat /\ DOMAIN s = 1..Len(s)
  BY Elements
<1>2. PICK i, j \in 1..Len(s) : i < j /\ s[i] = x /\ s[j] = y
  BY <1>1 DEF Before
<1>3. ASSUME Before(s, y, x) PROVE FALSE
  <2>1. PICK k, l \in 1..Len(s) : k < l /\ s[k] = y /\ s[l] = x
    BY <1>1, <1>3 DEF Before
  <2>2. k = j /\ l = i
    BY <1>1, <1>2, <2>1 DEF Distinct
  <2>. QED  BY <1>2, <2>1, <2>2
<1>4. x # y
  BY <1>1, <1>2 DEF Distinct
<1>5. x \in ToSet(s) /\ y \in ToSet(s)
  BY <1>1, <1>2 DEF ToSet
<1>. QED  BY <1>3, <1>4, <1>5

\* A step that keeps the order keeps what comes before what.
LEMMA BeforeKept ==
    ASSUME NEW s \in Seq(Ids), NEW t \in Seq(Ids), SameOrder(s, t),
           NEW x \in ToSet(t), NEW y \in ToSet(t), Before(s, x, y)
    PROVE  Before(t, x, y)
<1>1. /\ Len(s) \in Nat /\ DOMAIN s = 1..Len(s)
      /\ Len(t) \in Nat /\ DOMAIN t = 1..Len(t)
  BY Elements
<1>2. PICK i, j \in DOMAIN s : i < j /\ s[i] = x /\ s[j] = y
  BY DEF Before
<1>3. PICK k, l \in DOMAIN t : t[k] = x /\ t[l] = y
  BY DEF ToSet
<1>4. k < l
  BY <1>2, <1>3 DEF SameOrder
<1>. QED  BY <1>3, <1>4 DEF Before

\* The listing stays along the directory when the order is kept and nothing it
\* has met comes back.
LEMMA AlongKept ==
    ASSUME NEW m \in Seq(Ids), NEW s \in Seq(Ids), NEW t \in Seq(Ids),
           Along(m, s), SameOrder(s, t), ToSet(m) \cap ToSet(t) \subseteq ToSet(s)
    PROVE  Along(m, t)
<1>1. DOMAIN m = 1..Len(m) /\ \A i \in DOMAIN m : m[i] \in ToSet(m)
  BY Elements
<1>2. ASSUME NEW i \in DOMAIN m, NEW j \in DOMAIN m, i < j,
             m[i] \in ToSet(t), m[j] \in ToSet(t)
      PROVE  Before(t, m[i], m[j])
  <2>1. m[i] \in ToSet(s) /\ m[j] \in ToSet(s)
    BY <1>1, <1>2
  <2>2. Before(s, m[i], m[j])
    BY <1>2, <2>1 DEF Along
  <2>. QED  BY <1>2, <2>2, BeforeKept
<1>. QED  BY <1>2 DEF Along

\* A part of what is along the directory is along it too.
LEMMA AlongPart ==
    ASSUME NEW m \in Seq(Ids), NEW p \in Seq(Ids), NEW c,
           NEW f \in [DOMAIN p -> DOMAIN m],
           \A i \in DOMAIN p : p[i] = m[f[i]],
           \A i, j \in DOMAIN p : i < j => f[i] < f[j]
    PROVE  /\ Distinct(m) => Distinct(p)
           /\ Along(m, c) => Along(p, c)
<1>1. /\ Len(m) \in Nat /\ DOMAIN m = 1..Len(m)
      /\ Len(p) \in Nat /\ DOMAIN p = 1..Len(p)
  BY Elements
<1>2. ASSUME Distinct(m) PROVE Distinct(p)
  <2>1. ASSUME NEW i \in DOMAIN p, NEW j \in DOMAIN p, p[i] = p[j] PROVE i = j
    <3>1. f[i] = f[j] /\ f[i] \in 1..Len(m)
      BY <1>1, <1>2, <2>1 DEF Distinct
    <3>. QED  BY <1>1, <3>1
  <2>. QED  BY <2>1 DEF Distinct
<1>3. ASSUME Along(m, c), NEW i \in DOMAIN p, NEW j \in DOMAIN p, i < j,
             p[i] \in ToSet(c), p[j] \in ToSet(c)
      PROVE  Before(c, p[i], p[j])
  BY <1>3 DEF Along
<1>. QED  BY <1>2, <1>3 DEF Along

\* The iterator skips an id.
LEMMA AlongSkip ==
    ASSUME NEW s \in Seq(Ids), NEW t \in Seq(Ids), t # <<>>, NEW c
    PROVE  /\ Distinct(s \o t) => Distinct(s \o Tail(t))
           /\ Along(s \o t, c) => Along(s \o Tail(t), c)
<1>. DEFINE m == s \o t
            p == s \o Tail(t)
            a == Len(s)
            f == [i \in DOMAIN p |-> IF i <= a THEN i ELSE i + 1]
<1>1. /\ Tail(t) \in Seq(Ids) /\ Len(Tail(t)) = Len(t) - 1 /\ Len(t) \in Nat \ {0}
      /\ \A i \in 1..(Len(t) - 1) : Tail(t)[i] = t[i + 1]
  BY HeadTailProperties, EmptySeq, Elements
<1>2. /\ m \in Seq(Ids) /\ DOMAIN m = 1..(a + Len(t)) /\ a \in Nat
      /\ \A i \in 1..a : m[i] = s[i]
      /\ \A i \in 1..Len(t) : m[a + i] = t[i]
  BY ConcatElements, Elements
<1>3. /\ p \in Seq(Ids) /\ DOMAIN p = 1..(a + Len(t) - 1)
      /\ \A i \in 1..a : p[i] = s[i]
      /\ \A i \in 1..(a + Len(t) - 1) : i > a =>
            i - a \in 1..(Len(t) - 1) /\ p[i] = Tail(t)[i - a]
  <2>1. /\ p \in Seq(Ids) /\ Len(p) = a + Len(Tail(t)) /\ a \in Nat
        /\ \A i \in 1..a : p[i] = s[i]
        /\ \A i \in 1..(a + Len(Tail(t))) : i > a =>
            i - a \in 1..Len(Tail(t)) /\ p[i] = Tail(t)[i - a]
    BY <1>1, ConcatElements
  <2>2. a + Len(Tail(t)) = a + Len(t) - 1
    BY <1>1, <1>2
  <2>3. DOMAIN p = 1..Len(p)
    BY <2>1, Elements
  <2>. HIDE DEF p, a
  <2>. QED  BY <1>1, <2>1, <2>2, <2>3
<1>. HIDE DEF m, p, a
<1>4. f \in [DOMAIN p -> DOMAIN m]
  BY <1>1, <1>2, <1>3
<1>5. ASSUME NEW i \in DOMAIN p PROVE p[i] = m[f[i]]
  <2>1. CASE i <= a
    <3>1. i \in 1..a /\ f[i] = i
      BY <1>2, <1>3, <2>1
    <3>. QED  BY <1>2, <1>3, <3>1
  <2>2. CASE i > a
    <3>1. i - a \in 1..(Len(t) - 1) /\ p[i] = Tail(t)[i - a]
      BY <1>3, <2>2
    <3>2. p[i] = t[i - a + 1] /\ i - a + 1 \in 1..Len(t)
      BY <1>1, <1>2, <3>1
    <3>3. m[a + (i - a + 1)] = t[i - a + 1]
      BY <1>2, <3>2
    <3>4. a + (i - a + 1) = i + 1
      BY <1>2, <1>3
    <3>5. f[i] = i + 1
      BY <1>2, <1>3, <2>2
    <3>. QED  BY <3>2, <3>3, <3>4, <3>5
  <2>. QED  BY <1>2, <1>3, <2>1, <2>2
<1>6. \A i, j \in DOMAIN p : i < j => f[i] < f[j]
  BY <1>2, <1>3
<1>. HIDE DEF f
<1>7. (Distinct(m) => Distinct(p)) /\ (Along(m, c) => Along(p, c))
  BY <1>2, <1>3, <1>4, <1>5, <1>6, AlongPart
<1>. QED  BY <1>7 DEF m, p

\* The iterator is dropped.
LEMMA AlongPrefix ==
    ASSUME NEW s \in Seq(Ids), NEW t \in Seq(Ids), NEW c
    PROVE  /\ Distinct(s \o t) => Distinct(s)
           /\ Along(s \o t, c) => Along(s, c)
<1>. DEFINE m == s \o t
            f == [i \in DOMAIN s |-> i]
<1>1. /\ m \in Seq(Ids) /\ DOMAIN m = 1..(Len(s) + Len(t)) /\ DOMAIN s = 1..Len(s)
      /\ Len(s) \in Nat /\ Len(t) \in Nat
      /\ \A i \in 1..Len(s) : m[i] = s[i]
  BY ConcatElements, Elements
<1>. HIDE DEF m
<1>2. /\ f \in [DOMAIN s -> DOMAIN m] /\ \A i \in DOMAIN s : s[i] = m[f[i]]
      /\ \A i, j \in DOMAIN s : i < j => f[i] < f[j]
  BY <1>1
<1>. HIDE DEF f
<1>3. (Distinct(m) => Distinct(s)) /\ (Along(m, c) => Along(s, c))
  BY <1>1, <1>2, AlongPart
<1>. QED  BY <1>3 DEF m

\* Before is transitive.
LEMMA BeforeTransitive ==
    ASSUME NEW s \in Seq(Ids), Distinct(s), NEW x, NEW y, NEW z,
           Before(s, x, y), Before(s, y, z)
    PROVE  Before(s, x, z)
<1>1. Len(s) \in Nat /\ DOMAIN s = 1..Len(s)
  BY Elements
<1>2. PICK i, j \in 1..Len(s) : i < j /\ s[i] = x /\ s[j] = y
  BY <1>1 DEF Before
<1>3. PICK k, l \in 1..Len(s) : k < l /\ s[k] = y /\ s[l] = z
  BY <1>1 DEF Before
<1>4. j = k
  BY <1>1, <1>2, <1>3 DEF Distinct
<1>5. i < l
  BY <1>2, <1>3, <1>4
<1>. QED  BY <1>1, <1>2, <1>3, <1>5 DEF Before

\* The directory is along itself.
LEMMA AlongSelf ==
    ASSUME NEW s \in Seq(Ids), Distinct(s)
    PROVE  Along(s, s)
BY DEF Along, Before

\* An iterator joins what the client has if it lies behind it.
LEMMA AlongJoin ==
    ASSUME NEW s \in Seq(Ids), NEW t \in Seq(Ids), NEW c, Along(s, c), Along(t, c),
           \A x \in ToSet(s), y \in ToSet(t) :
                x # y /\ (x \in ToSet(c) /\ y \in ToSet(c) => Before(c, x, y))
    PROVE  Along(s \o t, c)
<1>. DEFINE m == s \o t
            a == Len(s)
<1>1. /\ m \in Seq(Ids) /\ DOMAIN m = 1..(a + Len(t)) /\ a \in Nat /\ Len(t) \in Nat
      /\ DOMAIN s = 1..a /\ DOMAIN t = 1..Len(t)
      /\ \A i \in 1..a : m[i] = s[i] /\ s[i] \in ToSet(s)
      /\ \A i \in 1..(a + Len(t)) : i > a => i - a \in 1..Len(t) /\ m[i] = t[i - a]
      /\ \A i \in 1..Len(t) : t[i] \in ToSet(t)
  BY ConcatElements, Elements
<1>. HIDE DEF m, a
<1>2. ASSUME NEW i \in DOMAIN m, NEW j \in DOMAIN m, i < j
      PROVE  /\ m[i] # m[j]
             /\ m[i] \in ToSet(c) /\ m[j] \in ToSet(c) => Before(c, m[i], m[j])
  <2>1. CASE j <= a
    <3>1. i \in 1..a /\ j \in 1..a
      BY <1>1, <1>2, <2>1
    <3>. QED  BY <1>1, <1>2, <3>1 DEF Along, Distinct
  <2>2. CASE i <= a /\ j > a
    <3>1. i \in 1..a /\ j - a \in 1..Len(t) /\ m[j] = t[j - a]
      BY <1>1, <1>2, <2>2
    <3>. QED  BY <1>1, <3>1
  <2>3. CASE i > a
    <3>1. j > a
      BY <1>1, <1>2, <2>3
    <3>2. /\ i - a \in 1..Len(t) /\ m[i] = t[i - a]
          /\ j - a \in 1..Len(t) /\ m[j] = t[j - a]
      BY <1>1, <2>3, <3>1
    <3>3. i - a < j - a
      BY <1>1, <1>2
    <3>4. t[i - a] # t[j - a]
      BY <1>1, <3>2, <3>3 DEF Along, Distinct
    <3>5. t[i - a] \in ToSet(c) /\ t[j - a] \in ToSet(c) => Before(c, t[i - a], t[j - a])
      BY <1>1, <3>2, <3>3 DEF Along
    <3>. QED  BY <3>2, <3>4, <3>5
  <2>. QED  BY <1>1, <2>1, <2>2, <2>3
<1>3. Distinct(m)
  <2>1. ASSUME NEW i \in DOMAIN m, NEW j \in DOMAIN m, i # j PROVE m[i] # m[j]
    <3>1. i < j \/ j < i
      BY <1>1, <2>1
    <3>. QED  BY <1>2, <3>1
  <2>. QED  BY <2>1 DEF Distinct
<1>4. Along(m, c)
  BY <1>2, <1>3 DEF Along
<1>. QED  BY <1>4 DEF m

\* MemFs::make_iter copies the ids that come after the cookie, in their order.
LEMMA AfterCookie ==
    ASSUME NEW c \in Seq(Ids), Distinct(c), NEW x \in ToSet(c)
    PROVE  /\ IdsAfter(c, x) \in Seq(Ids) /\ Along(IdsAfter(c, x), c)
           /\ \A y : y \in ToSet(IdsAfter(c, x)) <=> Before(c, x, y)
<1>. DEFINE n == CHOOSE i \in DOMAIN c : c[i] = x
            r == IdsAfter(c, x)
<1>1. Len(c) \in Nat /\ DOMAIN c = 1..Len(c) /\ \A i \in 1..Len(c) : c[i] \in Ids
  BY Elements
<1>2. n \in 1..Len(c) /\ c[n] = x
  BY <1>1 DEF ToSet
<1>3. r = SubSeq(c, 1 + n, Len(c))
  BY DEF IdsAfter
<1>. HIDE DEF n, r
<1>4. /\ r \in Seq(Ids) /\ Len(r) = Len(c) - n
      /\ \A i \in 1..(Len(c) - n) : r[i] = c[n + i] /\ n + i \in 1..Len(c)
  <2>1. 1 + n \in Int /\ Len(c) \in Int /\ \A i \in (1 + n)..Len(c) : c[i] \in Ids
    BY <1>1, <1>2
  <2>2. /\ r \in Seq(Ids)
        /\ Len(r) = IF 1 + n <= Len(c) THEN Len(c) - (1 + n) + 1 ELSE 0
        /\ \A i \in 1..(Len(c) - (1 + n) + 1) : r[i] = c[1 + n + i - 1]
    BY <1>3, <2>1, SubSeqProperties
  <2>3. n \in Int /\ Len(c) \in Int /\ 1 <= n /\ n <= Len(c)
    BY <1>1, <1>2
  <2>4. Len(r) = IF 1 + n <= Len(c) THEN Len(c) - (1 + n) + 1 ELSE 0
    BY <2>2
  <2>5. Len(r) = Len(c) - n
    BY <2>3, <2>4
  <2>6. ASSUME NEW i \in 1..(Len(c) - n) PROVE r[i] = c[n + i] /\ n + i \in 1..Len(c)
    <3>1. i \in 1..(Len(c) - (1 + n) + 1) /\ 1 + n + i - 1 = n + i
      BY <1>1, <1>2
    <3>2. r[i] = c[1 + n + i - 1]
      BY <2>2, <3>1
    <3>3. n + i \in 1..Len(c)
      BY <2>3
    <3>. QED  BY <3>1, <3>2, <3>3
  <2>. QED  BY <2>2, <2>5, <2>6
<1>5. DOMAIN r = 1..(Len(c) - n)
  BY <1>4, Elements
<1>6. Along(r, c)
  <2>. DEFINE f == [i \in DOMAIN r |-> n + i]
  <2>1. /\ f \in [DOMAIN r -> DOMAIN c] /\ \A i \in DOMAIN r : r[i] = c[f[i]]
        /\ \A i, j \in DOMAIN r : i < j => f[i] < f[j]
    BY <1>1, <1>2, <1>4, <1>5
  <2>. HIDE DEF f
  <2>2. Along(c, c)
    BY AlongSelf
  <2>. QED  BY <1>4, <2>1, <2>2, AlongPart
<1>7. ASSUME NEW y, y \in ToSet(r) PROVE Before(c, x, y)
  <2>1. PICK i \in 1..(Len(c) - n) : r[i] = y
    BY <1>5, <1>7 DEF ToSet
  <2>2. n < n + i
    BY <1>2
  <2>. QED  BY <1>1, <1>2, <1>4, <2>1, <2>2 DEF Before
<1>8. ASSUME NEW y, Before(c, x, y) PROVE y \in ToSet(r)
  <2>1. PICK i, j \in 1..Len(c) : i < j /\ c[i] = x /\ c[j] = y
    BY <1>1, <1>8 DEF Before
  <2>2. i = n
    BY <1>1, <1>2, <2>1 DEF Distinct
  <2>3. j - n \in 1..(Len(c) - n) /\ n + (j - n) = j
    BY <1>1, <1>2, <2>1, <2>2
  <2>4. r[j - n] = y
    BY <1>4, <2>1, <2>3
  <2>. QED  BY <1>5, <2>3, <2>4 DEF ToSet
<1>. QED  BY <1>4, <1>6, <1>7, <1>8 DEF r

-----------------------------------------------------------------------------
(* The invariant: its parts, the start, and the steps of other clients.    *)

\* The sequences of a state.
LEMMA Parts ==
    ASSUME Shape
    PROVE  /\ dir.content \in Seq(Ids) /\ Distinct(dir.content)
           /\ listing.listed \in Seq(Ids) /\ listing.page \in Seq(Ids) /\ listing.todo \in Seq(Ids)
           /\ listing.listed \o listing.page \in Seq(Ids)
           /\ Met \in Seq(Ids)
           /\ ToSet(Met) = ToSet(listing.listed) \cup ToSet(listing.page) \cup ToSet(listing.todo)
           /\ listing.pc # "next" => Met = listing.listed
<1>1. /\ dir.content \in SomeOrders /\ listing.listed \in Seq(Ids)
      /\ listing.page \in SomeOrders /\ listing.todo \in SomeOrders
  BY DEF Shape, Listing
<1>2. /\ dir.content \in Seq(Ids) /\ Distinct(dir.content)
      /\ listing.page \in Seq(Ids) /\ listing.todo \in Seq(Ids)
  BY <1>1, OrderIff
<1>3. /\ listing.listed \o listing.page \in Seq(Ids)
      /\ ToSet(listing.listed \o listing.page) = ToSet(listing.listed) \cup ToSet(listing.page)
  BY <1>1, <1>2, ConcatElements
<1>4. /\ Met \in Seq(Ids)
      /\ ToSet(Met) = ToSet(listing.listed \o listing.page) \cup ToSet(listing.todo)
  BY <1>2, <1>3, ConcatElements DEF Met
<1>5. listing.pc # "next" => Met = listing.listed
  BY <1>1, ConcatEmptySeq DEF Met, Shape
<1>. QED  BY <1>1, <1>2, <1>3, <1>4, <1>5

\* The cookie has been met.
LEMMA CookieMet ==
    ASSUME Shape, CookieIsLast, listing.cookie # 0
    PROVE  /\ Len(listing.listed) \in Nat \ {0}
           /\ listing.cookie = listing.listed[Len(listing.listed)]
           /\ listing.cookie \in ToSet(listing.listed) /\ listing.cookie \in ToSet(Met)
<1>1. listing.listed # <<>> /\ listing.listed \in Seq(Ids)
  BY Parts DEF CookieIsLast
<1>2. Len(listing.listed) \in Nat \ {0}
  BY <1>1, EmptySeq
<1>3. listing.cookie = listing.listed[Len(listing.listed)]
  BY <1>1 DEF CookieIsLast, Last
<1>4. listing.cookie \in ToSet(listing.listed)
  BY <1>1, <1>2, <1>3, Elements
<1>. QED  BY <1>2, <1>3, <1>4, Parts

\* A listing begins with a directory as it is.
LEMMA InitIInv == Init => IInv
<1>. SUFFICES ASSUME Init PROVE IInv
  OBVIOUS
<1>1. PICK s \in SomeOrders, t \in Mtimes, p \in Procs :
        /\ Len(s) <= Capacity
        /\ dir = [exists |-> TRUE, content |-> s, capacity |-> Capacity, mtime |-> t]
        /\ fs = ToSet(s) /\ unborn = Ids \ ToSet(s) /\ changes = 0
        /\ listing = NewListing(p, s)
  BY DEF Init
<1>2. s \in Seq(Ids) /\ Distinct(s) /\ ToSet(s) \subseteq Ids
  BY OrderIff, Elements
<1>3. /\ <<>> \in Seq(Ids) /\ <<>> \o <<>> = <<>> /\ DOMAIN <<>> = {} /\ ToSet(<<>>) = {}
      /\ Distinct(<<>>) /\ <<>> \in SomeOrders
  <2>1. <<>> \in Seq(Ids) /\ <<>> \o <<>> = <<>> /\ DOMAIN <<>> = {}
    BY EmptySeq, ConcatEmptySeq
  <2>2. Distinct(<<>>) /\ ToSet(<<>>) = {}
    BY <2>1 DEF Distinct, ToSet
  <2>. QED  BY <2>1, <2>2, OrderIff
<1>4. /\ listing.page = <<>> /\ listing.todo = <<>> /\ listing.listed = <<>>
      /\ listing.cookie = 0 /\ listing.cookieverf = 0 /\ listing.stat = "OK"
      /\ listing.pc = "client" /\ listing.stay = ToSet(s)
  BY <1>1 DEF NewListing, NONE_COOKIE_VERF
<1>5. listing \in Listing
  BY <1>1, <1>2, <1>3 DEF NewListing, Listing, NONE_COOKIE_VERF, Procs
<1>6. /\ dir \in [exists : BOOLEAN, content : SomeOrders, capacity : Nat \ {0}, mtime : Mtimes]
      /\ dir.exists /\ dir.content = s /\ dir.capacity = Capacity /\ dir.mtime = t
  BY <1>1
<1>7. TypeOK
  BY <1>1, <1>2, <1>5, <1>6 DEF TypeOK
<1>8. Shape
  BY <1>3, <1>4, <1>5, <1>6 DEF Shape
<1>9. StayListed /\ CookieIsLast /\ VerfOfMtime /\ StatAtEnd /\ BadCookieOnlyIfStale
  BY <1>4, <1>6 DEF StayListed, CookieIsLast, VerfOfMtime, StatAtEnd, BadCookieOnlyIfStale,
     NONE_COOKIE_VERF
<1>10. Met = <<>>
  BY <1>3, <1>4 DEF Met
<1>11. Along(Met, dir.content)
  BY <1>3, <1>10 DEF Along
<1>12. Covered
  BY <1>4 DEF Covered
<1>. QED  BY <1>7, <1>8, <1>9, <1>11, <1>12 DEF IInv

\* What a step of another client leaves of the listing.
ListingKept ==
    /\ listing'.proc = listing.proc /\ listing'.pc = listing.pc
    /\ listing'.cookie = listing.cookie /\ listing'.cookieverf = listing.cookieverf
    /\ listing'.dirversion = listing.dirversion /\ listing'.stat = listing.stat
    /\ listing'.todo = listing.todo /\ listing'.page = listing.page
    /\ listing'.listed = listing.listed

\* A step of another client that keeps the order of the directory, or is noted
\* as one that moved its entries.
LEMMA OthersStep ==
    ASSUME IInv, TypeOK', ListingKept,
           dir' \in [exists : BOOLEAN, content : SomeOrders, capacity : Nat \ {0}, mtime : Mtimes],
           dir'.exists => dir.exists, listing.touched => listing'.touched,
           dir'.mtime = dir.mtime \/ listing'.touched,
           listing'.stay \subseteq listing.stay, StayListed', listing.moved => listing'.moved,
           ~listing'.moved =>
                /\ SameOrder(dir.content, dir'.content)
                /\ ToSet(Met) \cap ToSet(dir'.content) \subseteq ToSet(dir.content)
    PROVE  IInv'
<1>. USE DEF ListingKept
<1>1. Met' = Met
  BY DEF Met
<1>2. Shape'
  BY DEF IInv, Shape, TypeOK
<1>3. CookieIsLast' /\ StatAtEnd'
  BY DEF IInv, CookieIsLast, StatAtEnd
<1>4. VerfOfMtime'
  BY DEF IInv, VerfOfMtime
<1>5. BadCookieOnlyIfStale'
  BY DEF IInv, BadCookieOnlyIfStale
<1>6. ASSUME ~listing'.moved PROVE Along(Met, dir.content)' /\ Covered'
  <2>1. /\ Met \in Seq(Ids) /\ dir.content \in Seq(Ids) /\ dir'.content \in Seq(Ids)
        /\ ToSet(listing.listed) \subseteq ToSet(Met)
    BY <1>2, Parts, OrderIff DEF IInv, Shape
  <2>2. Along(Met, dir.content) /\ Covered
    BY <1>6 DEF IInv
  <2>3. Along(Met, dir'.content)
    BY <1>6, <2>1, <2>2, AlongKept
  <2>4. ASSUME listing.pc \in {"client", "getattr", "make_iter"}, listing.cookie # 0,
               listing.cookie \in ToSet(dir'.content),
               NEW id \in listing'.stay \ ToSet(listing.listed)
        PROVE  Before(dir'.content, listing.cookie, id)
    <3>1. listing.cookie \in ToSet(Met)
      BY <2>4, CookieMet DEF IInv
    <3>2. listing.cookie \in ToSet(dir.content)
      BY <1>6, <2>4, <3>1
    <3>3. Before(dir.content, listing.cookie, id)
      BY <2>2, <2>4, <3>2 DEF Covered
    <3>4. id \in ToSet(dir'.content)
      BY <2>4 DEF StayListed
    <3>. QED  BY <1>6, <2>1, <2>4, <3>3, <3>4, BeforeKept
  <2>5. Covered'
    BY <1>1, <2>2, <2>4 DEF Covered
  <2>. QED  BY <1>1, <2>3, <2>5
<1>. QED  BY <1>2, <1>3, <1>4, <1>5, <1>6 DEF IInv

\* HashSet::insert of an id the directory does not list.
LEMMA InsertIInv ==
    ASSUME IInv, NEW id \in Ids, id \notin ToSet(dir.content), InsertIn(id),
           fs' = fs \cup {id}, unborn' \subseteq unborn \ {id}, changes' \in 0..MaxChanges
    PROVE  IInv'
<1>. DEFINE content == ToSet(dir.content) \cup {id}
<1>1. PICK s \in Orders(content), rehashed \in BOOLEAN,
           cap \in {dir.capacity, 2 * dir.capacity} :
        /\ Len(s) <= cap
        /\ rehashed \/ SameOrder(dir.content, s)
        /\ dir' = [dir EXCEPT !.content = s, !.capacity = cap]
        /\ listing' = [listing EXCEPT !.moved =
            @ \/ rehashed \/ id \in ToSet(listing.listed \o listing.page \o listing.todo)]
  BY DEF InsertIn
<1>2. dir.exists
  BY DEF InsertIn
<1>3. /\ dir.content \in Seq(Ids) /\ Distinct(dir.content)
      /\ dir \in [exists : BOOLEAN, content : SomeOrders, capacity : Nat \ {0}, mtime : Mtimes]
      /\ listing \in Listing
  BY Parts DEF IInv, Shape
<1>4. ToSet(dir.content) \subseteq Ids /\ Len(dir.content) \in Nat
  BY <1>3, Elements
<1>5. /\ s \in Seq(Ids) /\ Distinct(s) /\ ToSet(s) = content /\ s \in SomeOrders
      /\ Len(s) = Cardinality(content)
  BY <1>1, <1>4, OrdersOf
<1>7. /\ dir' \in [exists : BOOLEAN, content : SomeOrders, capacity : Nat \ {0}, mtime : Mtimes]
      /\ dir'.exists = dir.exists /\ dir'.mtime = dir.mtime /\ dir'.content = s
      /\ dir'.capacity = cap
  <2>1. dir.capacity \in Nat \ {0}
    BY <1>3
  <2>2. cap \in Nat \ {0}
    BY <2>1
  <2>. QED  BY <1>1, <1>3, <1>5, <2>2
<1>8. Len(s) <= dir'.capacity
  BY <1>1, <1>7
<1>9. /\ listing' \in Listing /\ ListingKept
      /\ listing'.stay = listing.stay /\ listing'.touched = listing.touched
      /\ listing'.moved = (listing.moved \/ rehashed \/ id \in ToSet(Met))
  <2>1. listing' = [listing EXCEPT !.moved = listing.moved \/ rehashed \/ id \in ToSet(Met)]
    BY <1>1 DEF Met
  <2>2. listing.moved \in BOOLEAN
    BY <1>3 DEF Listing
  <2>3. (listing.moved \/ rehashed \/ id \in ToSet(Met)) \in BOOLEAN
    OBVIOUS
  <2>. QED  BY <1>3, <2>1, <2>3 DEF Listing, ListingKept
<1>10. TypeOK'
  <2>1. /\ fs \subseteq Ids /\ ToSet(dir.content) \subseteq fs /\ unborn \subseteq Ids
        /\ unborn \cap fs = {}
    BY DEF IInv, TypeOK
  <2>2. /\ fs' \subseteq Ids /\ ToSet(s) \subseteq fs' /\ unborn' \subseteq Ids
        /\ unborn' \cap fs' = {}
    BY <1>5, <2>1
  <2>. QED  BY <1>5, <1>7, <1>8, <1>9, <2>2 DEF TypeOK
<1>11. StayListed'
  BY <1>2, <1>5, <1>7, <1>9 DEF IInv, StayListed
<1>12. ~listing'.moved =>
            /\ SameOrder(dir.content, dir'.content)
            /\ ToSet(Met) \cap ToSet(dir'.content) \subseteq ToSet(dir.content)
  <2>1. ASSUME ~listing'.moved
        PROVE  ~rehashed /\ id \notin ToSet(Met)
    BY <1>9, <2>1
  <2>2. ~rehashed => SameOrder(dir.content, s)
    BY <1>1
  <2>. QED  BY <1>5, <1>7, <2>1, <2>2
<1>13. listing.moved => listing'.moved
  BY <1>9
<1>. QED  BY <1>2, <1>7, <1>9, <1>10, <1>11, <1>12, <1>13, OthersStep

\* HashSet::remove of an id the directory lists.
LEMMA RemoveIInv ==
    ASSUME IInv, NEW id \in ToSet(dir.content), RemoveFrom(id),
           fs \ {id} \subseteq fs', fs' \subseteq fs, unborn' = unborn, changes' \in 0..MaxChanges
    PROVE  IInv'
<1>. DEFINE content == ToSet(dir.content) \ {id}
<1>1. PICK s \in Orders(content) :
        SameOrder(dir.content, s) /\ dir' = [dir EXCEPT !.content = s]
  BY DEF RemoveFrom
<1>2. listing' = [listing EXCEPT !.stay = @ \ {id}]
  BY DEF RemoveFrom
<1>3. /\ dir.content \in Seq(Ids) /\ Distinct(dir.content)
      /\ dir \in [exists : BOOLEAN, content : SomeOrders, capacity : Nat \ {0}, mtime : Mtimes]
      /\ listing \in Listing
  BY Parts DEF IInv, Shape
<1>4. ToSet(dir.content) \subseteq Ids /\ Len(dir.content) \in Nat
  BY <1>3, Elements
<1>5. /\ s \in Seq(Ids) /\ Distinct(s) /\ ToSet(s) = content /\ s \in SomeOrders
      /\ Len(s) = Cardinality(content)
  BY <1>1, <1>4, OrdersOf
<1>6. Len(s) <= Len(dir.content)
  <2>1. Cardinality(ToSet(dir.content)) = Len(dir.content)
    BY <1>3, DistinctCardinality
  <2>2. IsFiniteSet(ToSet(dir.content)) /\ Cardinality(ToSet(dir.content)) \in Nat
    BY <1>4, FS_Subset, FS_CardinalityType
  <2>3. Cardinality(content) <= Cardinality(ToSet(dir.content)) /\ Cardinality(content) \in Nat
    BY <2>2, FS_Subset, FS_CardinalityType
  <2>. HIDE DEF content
  <2>. QED  BY <1>4, <1>5, <2>1, <2>2, <2>3
<1>7. /\ dir' \in [exists : BOOLEAN, content : SomeOrders, capacity : Nat \ {0}, mtime : Mtimes]
      /\ dir'.exists = dir.exists /\ dir'.mtime = dir.mtime /\ dir'.content = s
      /\ dir'.capacity = dir.capacity
  BY <1>1, <1>3, <1>5
<1>8. Len(s) <= dir'.capacity
  <2>1. Len(dir.content) <= dir.capacity /\ dir.capacity \in Nat \ {0} /\ Len(s) \in Nat
    BY <1>3, <1>5, Elements DEF IInv, TypeOK
  <2>. QED  BY <1>4, <1>6, <1>7, <2>1
<1>9. /\ listing' \in Listing /\ ListingKept
      /\ listing'.stay = listing.stay \ {id} /\ listing'.touched = listing.touched
      /\ listing'.moved = listing.moved
  BY <1>2, <1>3 DEF Listing, ListingKept
<1>10. TypeOK'
  <2>1. /\ fs \subseteq Ids /\ ToSet(dir.content) \subseteq fs /\ unborn \subseteq Ids
        /\ unborn \cap fs = {}
    BY DEF IInv, TypeOK
  <2>2. /\ fs' \subseteq Ids /\ ToSet(s) \subseteq fs' /\ unborn' \subseteq Ids
        /\ unborn' \cap fs' = {}
    BY <1>5, <2>1
  <2>. QED  BY <1>5, <1>7, <1>8, <1>9, <2>2 DEF TypeOK
<1>11. StayListed'
  <2>1. dir.exists
    BY <1>3, <1>4, Elements DEF IInv, StayListed
  <2>. QED  BY <1>5, <1>7, <1>9, <2>1 DEF IInv, StayListed
<1>12. /\ SameOrder(dir.content, dir'.content)
       /\ ToSet(Met) \cap ToSet(dir'.content) \subseteq ToSet(dir.content)
  BY <1>1, <1>5, <1>7
<1>. QED  BY <1>7, <1>9, <1>10, <1>11, <1>12, OthersStep

\* SETATTR of the directory is noted, and changes no entry.
LEMMA SetMtimeIInv ==
    ASSUME IInv, NEW t \in Mtimes, SetMtime(t), changes' \in 0..MaxChanges
    PROVE  IInv'
<1>1. /\ dir.content \in Seq(Ids) /\ Distinct(dir.content)
      /\ dir \in [exists : BOOLEAN, content : SomeOrders, capacity : Nat \ {0}, mtime : Mtimes]
      /\ listing \in Listing
  BY Parts DEF IInv, Shape
<1>2. /\ dir' \in [exists : BOOLEAN, content : SomeOrders, capacity : Nat \ {0}, mtime : Mtimes]
      /\ dir'.exists = dir.exists /\ dir'.content = dir.content /\ dir'.capacity = dir.capacity
  BY <1>1 DEF SetMtime
<1>3. /\ listing' \in Listing /\ ListingKept /\ listing'.stay = listing.stay
      /\ listing'.touched /\ listing'.moved = listing.moved
  BY <1>1 DEF SetMtime, Listing, ListingKept
<1>4. TypeOK'
  BY <1>2, <1>3 DEF IInv, TypeOK, SetMtime
<1>5. StayListed'
  BY <1>2, <1>3 DEF IInv, StayListed
<1>6. SameOrder(dir.content, dir.content)
  <2>1. Len(dir.content) \in Nat /\ DOMAIN dir.content = 1..Len(dir.content)
    BY <1>1, Elements
  <2>. QED  BY <1>1, <2>1 DEF SameOrder, Distinct
<1>. QED  BY <1>2, <1>3, <1>4, <1>5, <1>6, OthersStep

\* RMDIR of the directory: nothing has stayed in it.
LEMMA RemoveDirIInv ==
    ASSUME IInv, RemoveDir, changes' \in 0..MaxChanges
    PROVE  IInv'
<1>1. /\ dir.content \in Seq(Ids) /\ Distinct(dir.content)
      /\ dir \in [exists : BOOLEAN, content : SomeOrders, capacity : Nat \ {0}, mtime : Mtimes]
  BY Parts DEF IInv, Shape
<1>2. /\ dir' \in [exists : BOOLEAN, content : SomeOrders, capacity : Nat \ {0}, mtime : Mtimes]
      /\ ~dir'.exists /\ dir'.content = dir.content /\ dir'.capacity = dir.capacity
      /\ dir'.mtime = dir.mtime /\ dir.content = <<>>
  BY <1>1 DEF RemoveDir
<1>3. listing' = listing /\ ListingKept
  BY DEF RemoveDir, ListingKept
<1>4. TypeOK'
  BY <1>2, <1>3 DEF IInv, TypeOK, RemoveDir
<1>5. StayListed'
  BY <1>2, <1>3 DEF IInv, StayListed
<1>6. SameOrder(dir.content, dir.content)
  <2>1. Len(dir.content) \in Nat /\ DOMAIN dir.content = 1..Len(dir.content)
    BY <1>1, Elements
  <2>. QED  BY <1>1, <2>1 DEF SameOrder, Distinct
<1>. QED  BY <1>2, <1>3, <1>4, <1>5, <1>6, OthersStep

\* A step of another client.
LEMMA OthersIInv ==
    ASSUME IInv, Others
    PROVE  IInv'
<1>1. changes' \in 0..MaxChanges
  BY DEF Others, IInv, TypeOK
<1>2. ASSUME NEW id \in Ids, Create(id) PROVE IInv'
  <2>1. id \notin ToSet(dir.content)
    BY <1>2 DEF Create, IInv, TypeOK
  <2>. QED  BY <1>1, <1>2, <2>1, InsertIInv DEF Create
<1>3. ASSUME NEW id \in Ids, RenameIn(id) PROVE IInv'
  <2>1. id \notin ToSet(dir.content) /\ fs' = fs \cup {id} /\ unborn' \subseteq unborn \ {id}
    BY <1>3 DEF RenameIn, IInv, TypeOK
  <2>. QED  BY <1>1, <1>3, <2>1, InsertIInv DEF RenameIn
<1>4. ASSUME NEW id \in Ids, RemoveEntry(id) \/ RenameOut(id) PROVE IInv'
  BY <1>1, <1>4, RemoveIInv DEF RemoveEntry, RenameOut
<1>. QED  BY <1>1, <1>2, <1>3, <1>4, SetMtimeIInv, RemoveDirIInv DEF Others

-----------------------------------------------------------------------------
(* The steps of the client and of the handler of its call.                 *)

\* What a step of the listing leaves alone.
HistoryKept ==
    /\ UNCHANGED ServerVars
    /\ listing'.proc = listing.proc /\ listing'.stay = listing.stay
    /\ listing'.moved = listing.moved /\ listing'.touched = listing.touched

\* The parts of the invariant that a step of the listing cannot disturb.
LEMMA ListingStep ==
    ASSUME IInv, HistoryKept, listing' \in Listing,
           Distinct(listing'.page \o listing'.todo),
           listing'.pc # "next" => listing'.page = <<>> /\ listing'.todo = <<>>,
           CookieIsLast', VerfOfMtime', StatAtEnd', BadCookieOnlyIfStale',
           ~listing.moved => Along(Met', dir.content) /\ Covered'
    PROVE  IInv'
<1>1. TypeOK' /\ Shape' /\ StayListed'
  BY DEF IInv, HistoryKept, ServerVars, TypeOK, Shape, StayListed
<1>2. ~listing'.moved => Along(Met, dir.content)' /\ Covered'
  BY DEF HistoryKept, ServerVars
<1>. QED  BY <1>1, <1>2 DEF IInv

\* The client calls again; the handler reads the attributes.
LEMMA CallIInv ==
    ASSUME IInv, (\E room \in -1..MaxRoom : Call(room)) \/ GetAttr
    PROVE  IInv'
<1>1. /\ listing \in Listing /\ dir.mtime \in Mtimes /\ UNCHANGED ServerVars
      /\ listing.pc \in {"client", "getattr"}
  BY DEF IInv, TypeOK, Call, GetAttr
<1>2. PICK v \in Mtimes \cup {0, -1}, room \in -1..MaxRoom, pc \in {"getattr", "make_iter"} :
        /\ listing' = [listing EXCEPT !.pc = pc, !.room = room, !.dirversion = v]
        /\ pc = "make_iter" /\ dir.exists => v = dir.mtime
  <2>1. CASE \E room \in -1..MaxRoom : Call(room)
    <3>1. PICK room \in -1..MaxRoom : listing' = [listing EXCEPT !.pc = "getattr", !.room = room]
      BY <2>1 DEF Call
    <3>2. /\ listing' = [listing EXCEPT !.pc = "getattr", !.room = room,
                                        !.dirversion = listing.dirversion]
          /\ listing.dirversion \in Mtimes \cup {0, -1}
      BY <1>1, <3>1 DEF Listing
    <3>. QED  BY <3>2
  <2>2. CASE GetAttr
    <3>1. PICK v : v = FromAttr(IF dir.exists THEN {dir.mtime} ELSE {})
      OBVIOUS
    <3>2. v \in Mtimes \cup {0, -1} /\ (dir.exists => v = dir.mtime)
      BY <1>1, <3>1 DEF FromAttr, SOME_COOKIE_VERF
    <3>3. listing' = [listing EXCEPT !.pc = "make_iter", !.dirversion = v]
      BY <2>2, <3>1 DEF GetAttr
    <3>4. /\ listing' = [listing EXCEPT !.pc = "make_iter", !.room = listing.room, !.dirversion = v]
          /\ listing.room \in -1..MaxRoom
      BY <1>1, <3>3 DEF Listing
    <3>. QED  BY <3>2, <3>4
  <2>. QED  BY <2>1, <2>2
<1>3. listing' \in Listing
  BY <1>1, <1>2 DEF Listing
<1>4. /\ listing'.pc = pc /\ listing'.dirversion = v
      /\ listing'.cookie = listing.cookie /\ listing'.cookieverf = listing.cookieverf
      /\ listing'.listed = listing.listed /\ listing'.page = listing.page
      /\ listing'.todo = listing.todo /\ listing'.stat = listing.stat
  BY <1>1, <1>2 DEF Listing
<1>5. HistoryKept
  BY <1>1, <1>2 DEF Listing, HistoryKept
<1>6. Met' = Met
  BY <1>4 DEF Met
<1>7. listing.page = <<>> /\ listing.todo = <<>> /\ Distinct(listing.page \o listing.todo)
  BY <1>1 DEF IInv, Shape
<1>8. CookieIsLast' /\ StatAtEnd'
  BY <1>1, <1>4 DEF IInv, CookieIsLast, StatAtEnd
<1>9. VerfOfMtime'
  BY <1>1, <1>2, <1>4, <1>5 DEF IInv, VerfOfMtime, HistoryKept, ServerVars
<1>10. BadCookieOnlyIfStale'
  BY <1>1, <1>4 DEF IInv, BadCookieOnlyIfStale, StatAtEnd
<1>11. ~listing.moved => Along(Met, dir.content) /\ Covered'
  BY <1>1, <1>4, <1>5 DEF IInv, Covered, HistoryKept, ServerVars
<1>. QED
  BY <1>2, <1>3, <1>4, <1>5, <1>6, <1>7, <1>8, <1>9, <1>10, <1>11, ListingStep

\* A call that fails before a page is begun.
LEMMA FailIInv ==
    ASSUME IInv, UNCHANGED ServerVars, listing.pc = "make_iter",
           NEW stat \in {"TOOSMALL", "BAD_COOKIE", "NOENT"}, listing' = Fail(listing, stat),
           stat = "BAD_COOKIE" =>
                \/ listing.cookie \notin listing.stay
                \/ /\ listing.proc = "READDIR"
                   /\ listing.touched \/ listing.cookieverf = NONE_COOKIE_VERF
    PROVE  IInv'
<1>1. listing \in Listing
  BY DEF IInv, TypeOK
<1>2. PICK pc : pc = IF stat = "TOOSMALL" THEN "client" ELSE "over"
  OBVIOUS
<1>3. listing' = [listing EXCEPT !.pc = pc, !.stat = stat] /\ pc \in {"client", "over"}
  BY <1>2 DEF Fail
<1>4. listing' \in Listing
  BY <1>1, <1>3 DEF Listing
<1>5. /\ listing'.pc = pc /\ listing'.stat = stat /\ listing'.dirversion = listing.dirversion
      /\ listing'.cookie = listing.cookie /\ listing'.cookieverf = listing.cookieverf
      /\ listing'.listed = listing.listed /\ listing'.page = listing.page
      /\ listing'.todo = listing.todo
  BY <1>1, <1>3 DEF Listing
<1>6. HistoryKept
  BY <1>1, <1>3 DEF Listing, HistoryKept
<1>7. Met' = Met
  BY <1>5 DEF Met
<1>8. listing.page = <<>> /\ listing.todo = <<>> /\ Distinct(listing.page \o listing.todo)
  BY DEF IInv, Shape
<1>9. CookieIsLast' /\ StatAtEnd' /\ VerfOfMtime'
  BY <1>2, <1>3, <1>5, <1>6
     DEF IInv, CookieIsLast, StatAtEnd, VerfOfMtime, HistoryKept, ServerVars
<1>10. BadCookieOnlyIfStale'
  BY <1>5, <1>6 DEF BadCookieOnlyIfStale, HistoryKept
<1>11. ~listing.moved => Along(Met, dir.content) /\ Covered'
  BY <1>2, <1>3, <1>5, <1>6 DEF IInv, Covered, HistoryKept, ServerVars
<1>. QED
  BY <1>4, <1>5, <1>6, <1>7, <1>8, <1>9, <1>10, <1>11, ListingStep

\* A page is begun: the ids after the cookie continue what the client has.
LEMMA BeginIInv ==
    ASSUME IInv, UNCHANGED ServerVars, listing.pc = "make_iter",
           KnownCookie(dir.content, listing.cookie),
           NEW ids, ids = IF listing.cookie = 0 THEN dir.content
                          ELSE IdsAfter(dir.content, listing.cookie),
           listing' = [listing EXCEPT !.pc = "next", !.page = <<>>, !.todo = ids]
    PROVE  IInv'
<1>1. /\ listing \in Listing /\ dir.content \in Seq(Ids) /\ Distinct(dir.content)
      /\ listing.listed \in Seq(Ids) /\ Met = listing.listed
      /\ <<>> \in SomeOrders /\ listing.page = <<>>
  BY Parts DEF IInv, TypeOK, Shape, Listing
<1>2. ids \in Seq(Ids) /\ Along(ids, dir.content)
  <2>1. CASE listing.cookie = 0
    BY <1>1, <2>1, AlongSelf
  <2>2. CASE listing.cookie # 0
    <3>1. listing.cookie \in ToSet(dir.content)
      BY <2>2 DEF KnownCookie
    <3>. QED  BY <1>1, <2>2, <3>1, AfterCookie
  <2>. QED  BY <2>1, <2>2
<1>3. ids \in SomeOrders
  BY <1>2, OrderIff DEF Along
<1>4. listing' \in Listing
  BY <1>1, <1>3 DEF Listing
<1>5. /\ listing'.pc = "next" /\ listing'.page = <<>> /\ listing'.todo = ids
      /\ listing'.stat = listing.stat /\ listing'.dirversion = listing.dirversion
      /\ listing'.cookie = listing.cookie /\ listing'.cookieverf = listing.cookieverf
      /\ listing'.listed = listing.listed
  BY <1>1 DEF Listing
<1>6. HistoryKept
  BY <1>1 DEF Listing, HistoryKept
<1>7. Distinct(listing'.page \o listing'.todo)
  BY <1>2, <1>5, ConcatEmptySeq DEF Along
<1>8. Met' = listing.listed \o ids
  BY <1>1, <1>5, ConcatEmptySeq DEF Met
<1>9. CookieIsLast' /\ StatAtEnd' /\ VerfOfMtime' /\ BadCookieOnlyIfStale'
  BY <1>5, <1>6 DEF IInv, CookieIsLast, StatAtEnd, VerfOfMtime, BadCookieOnlyIfStale,
     HistoryKept, ServerVars
<1>10. ASSUME ~listing.moved PROVE Along(Met', dir.content) /\ Covered'
  <2>1. Along(listing.listed, dir.content) /\ Covered
    BY <1>1, <1>10 DEF IInv
  <2>2. CASE listing.cookie = 0
    <3>1. listing.listed = <<>> /\ ids = dir.content
      BY <2>2 DEF IInv, CookieIsLast
    <3>2. Met' = dir.content
      BY <1>1, <1>8, <3>1, ConcatEmptySeq
    <3>3. Covered'
      BY <1>5, <1>6, <3>2 DEF Covered, HistoryKept, ServerVars, IInv, StayListed
    <3>. QED  BY <1>1, <3>2, <3>3, AlongSelf
  <2>3. CASE listing.cookie # 0
    <3>1. /\ listing.cookie \in ToSet(dir.content)
          /\ \A y : y \in ToSet(ids) <=> Before(dir.content, listing.cookie, y)
      BY <1>1, <2>3, AfterCookie DEF KnownCookie
    <3>2. /\ Len(listing.listed) \in Nat \ {0}
          /\ listing.cookie = listing.listed[Len(listing.listed)]
          /\ DOMAIN listing.listed = 1..Len(listing.listed)
      BY <1>1, <2>3, CookieMet, Elements DEF IInv
    <3>3. ASSUME NEW x \in ToSet(listing.listed), NEW y \in ToSet(ids)
          PROVE  x # y /\ (x \in ToSet(dir.content) => Before(dir.content, x, y))
      <4>1. Before(dir.content, listing.cookie, y) /\ y \in ToSet(dir.content)
        BY <1>1, <3>1, BeforeAsymmetric
      <4>2. PICK i \in 1..Len(listing.listed) : x = listing.listed[i]
        BY <3>2 DEF ToSet
      <4>3. x \in ToSet(dir.content) =>
                x = listing.cookie \/ Before(dir.content, x, listing.cookie)
        <5>1. i = Len(listing.listed) \/ i < Len(listing.listed)
          BY <3>2
        <5>. QED  BY <2>1, <3>1, <3>2, <4>2, <5>1 DEF Along
      <4>4. x \in ToSet(dir.content) => Before(dir.content, x, y)
        BY <1>1, <4>1, <4>3, BeforeTransitive
      <4>5. x # y
        BY <1>1, <4>1, <4>4, BeforeAsymmetric
      <4>. QED  BY <4>4, <4>5
    <3>4. Along(Met', dir.content)
      BY <1>1, <1>2, <1>8, <2>1, <3>3, AlongJoin
    <3>5. ASSUME NEW id \in listing.stay PROVE id \in ToSet(Met')
      <4>1. ToSet(Met') = ToSet(listing.listed) \cup ToSet(ids)
        BY <1>1, <1>2, <1>8, ConcatElements
      <4>2. id \notin ToSet(listing.listed) => Before(dir.content, listing.cookie, id)
        BY <2>1, <2>3, <3>1, <3>5 DEF Covered
      <4>. QED  BY <3>1, <4>1, <4>2
    <3>6. Covered'
      BY <1>5, <1>6, <3>5 DEF Covered, HistoryKept
    <3>. QED  BY <3>4, <3>6
  <2>. QED  BY <2>2, <2>3
<1>. QED
  BY <1>4, <1>5, <1>6, <1>7, <1>9, <1>10, ListingStep

\* make_iter, with the refusals before it.
LEMMA MakeIterIInv ==
    ASSUME IInv, MakeIter
    PROVE  IInv'
<1>1. listing.pc = "make_iter" /\ UNCHANGED ServerVars
  BY DEF MakeIter
<1>2. CASE Refusal(listing) # "OK"
  <2>1. listing' = Fail(listing, Refusal(listing))
    BY <1>2 DEF MakeIter
  <2>2. Refusal(listing) \in {"TOOSMALL", "BAD_COOKIE"}
    BY <1>2 DEF Refusal
  <2>3. ASSUME Refusal(listing) = "BAD_COOKIE", listing.cookie \in listing.stay,
               ~listing.touched, listing.cookieverf # NONE_COOKIE_VERF
        PROVE  FALSE
    <3>1. listing.cookieverf \notin {NONE_COOKIE_VERF, listing.dirversion}
      BY <2>3 DEF Refusal
    <3>2. ~dir.exists
      BY <1>1, <2>3, <3>1 DEF IInv, VerfOfMtime
    <3>3. ToSet(dir.content) = {}
      BY <3>2 DEF IInv, StayListed, ToSet
    <3>. QED  BY <2>3, <3>3 DEF IInv, StayListed
  <2>4. Refusal(listing) = "BAD_COOKIE" => listing.proc = "READDIR"
    BY DEF Refusal
  <2>. QED  BY <1>1, <2>1, <2>2, <2>3, <2>4, FailIInv
<1>3. CASE Refusal(listing) = "OK" /\ ~dir.exists
  BY <1>1, <1>3, FailIInv DEF MakeIter
<1>4. CASE Refusal(listing) = "OK" /\ dir.exists /\ ~KnownCookie(dir.content, listing.cookie)
  <2>1. listing' = Fail(listing, "BAD_COOKIE")
    BY <1>4 DEF MakeIter
  <2>2. listing.cookie \notin listing.stay
    BY <1>4 DEF KnownCookie, IInv, StayListed
  <2>. QED  BY <1>1, <2>1, <2>2, FailIInv
<1>5. CASE Refusal(listing) = "OK" /\ dir.exists /\ KnownCookie(dir.content, listing.cookie)
  BY <1>1, <1>5, BeginIInv DEF MakeIter
<1>. QED  BY <1>2, <1>3, <1>4, <1>5

\* What the listing has met after s comes after the end of s.
LEMMA LaterPart ==
    ASSUME NEW s \in Seq(Ids), NEW t \in Seq(Ids), NEW content, Along(s \o t, content),
           Len(s) # 0, s[Len(s)] \in ToSet(content), NEW id \in ToSet(t), id \in ToSet(content)
    PROVE  Before(content, s[Len(s)], id)
<1>. DEFINE r == s \o t
            n == Len(s)
<1>1. /\ r \in Seq(Ids) /\ Len(r) = n + Len(t) /\ n \in Nat /\ Len(t) \in Nat
      /\ \A i \in 1..n : r[i] = s[i]
      /\ \A i \in 1..Len(t) : r[n + i] = t[i]
  BY ConcatElements
<1>2. DOMAIN r = 1..Len(r) /\ ToSet(t) = {t[i] : i \in 1..Len(t)}
  BY <1>1, Elements
<1>3. n # 0 /\ s[n] = s[Len(s)] /\ Along(r, content)
  OBVIOUS
<1>. HIDE DEF r, n
<1>4. PICK i \in 1..Len(t) : t[i] = id
  BY <1>2
<1>5. n \in 1..n /\ n \in 1..Len(r) /\ n + i \in 1..Len(r) /\ n < n + i
  BY <1>1, <1>3
<1>6. r[n] = s[n] /\ r[n + i] = id
  BY <1>1, <1>4, <1>5
<1>. QED  BY <1>2, <1>3, <1>5, <1>6 DEF Along

\* The end of a concatenation.
LEMMA ConcatLast ==
    ASSUME NEW s \in Seq(Ids), NEW t \in Seq(Ids), t # <<>>
    PROVE  /\ Len(s \o t) # 0 /\ s \o t # <<>>
           /\ (s \o t)[Len(s \o t)] = t[Len(t)] /\ t[Len(t)] \in Ids
<1>. DEFINE r == s \o t
<1>1. /\ r \in Seq(Ids) /\ Len(r) = Len(s) + Len(t) /\ Len(s) \in Nat /\ Len(t) \in Nat
      /\ \A i \in 1..Len(t) : r[Len(s) + i] = t[i]
  BY ConcatElements
<1>2. Len(t) # 0 /\ (r = <<>> => Len(r) = 0) /\ \A i \in 1..Len(t) : t[i] \in Ids
  BY <1>1, Elements
<1>. HIDE DEF r
<1>3. Len(t) \in 1..Len(t) /\ Len(r) # 0
  BY <1>1, <1>2
<1>4. r[Len(r)] = t[Len(t)] /\ t[Len(t)] \in Ids /\ r # <<>>
  BY <1>1, <1>2, <1>3
<1>. QED  BY <1>3, <1>4 DEF r

\* Concatenation of sequences of ids is associative.
LEMMA ConcatThree ==
    ASSUME NEW s \in Seq(Ids), NEW t \in Seq(Ids), NEW u \in Seq(Ids)
    PROVE  (s \o t) \o u = s \o (t \o u)
  BY ConcatAssociative

\* The head and the tail of a sequence of ids.
LEMMA HeadAndTail ==
    ASSUME NEW s \in Seq(Ids), s # <<>>
    PROVE  /\ Head(s) \in Ids /\ Tail(s) \in Seq(Ids) /\ s = <<Head(s)>> \o Tail(s)
           /\ ToSet(s) \subseteq {Head(s)} \cup ToSet(Tail(s))
<1>1. /\ Tail(s) \in Seq(Ids) /\ Len(Tail(s)) = Len(s) - 1
      /\ \A i \in 1..Len(Tail(s)) : Tail(s)[i] = s[i + 1]
      /\ Len(s) \in Nat \ {0} /\ Head(s) = s[1]
  BY HeadTailProperties, EmptySeq, Elements
<1>2. Head(s) \in Ids /\ ToSet(s) = {s[i] : i \in 1..Len(s)}
  BY HeadTailProperties, Elements
<1>3. \A i \in 1..Len(Tail(s)) : Tail(s)[i] \in ToSet(Tail(s))
  BY <1>1, Elements
<1>. DEFINE t == Tail(s)
<1>4. ASSUME NEW i \in 1..Len(s), i # 1 PROVE s[i] \in ToSet(t)
  <2>. HIDE DEF t
  <2>1. /\ Len(t) = Len(s) - 1 /\ Len(s) \in Nat
        /\ \A k \in 1..Len(t) : t[k] = s[k + 1] /\ t[k] \in ToSet(t)
    BY <1>1, <1>3 DEF t
  <2>2. i - 1 \in 1..Len(t) /\ (i - 1) + 1 = i
    BY <1>4, <2>1
  <2>. QED  BY <2>1, <2>2
<1>5. ToSet(s) \subseteq {Head(s)} \cup ToSet(t)
  BY <1>1, <1>2, <1>4
<1>6. s = <<Head(s)>> \o Tail(s)
  BY <1>1, <1>2
<1>. QED  BY <1>1, <1>2, <1>5, <1>6

\* A reply keeps the type of a listing.
LEMMA ReplyType ==
    ASSUME NEW l \in Listing, NEW pc \in {"client", "getattr", "make_iter", "next", "over"},
           NEW all \in Seq(Ids), NEW e \in SomeOrders, NEW c \in Ids \cup {0},
           NEW v \in Mtimes \cup {0, -1}
    PROVE  [l EXCEPT !.pc = pc, !.stat = "OK", !.listed = all, !.page = e,
                     !.todo = e, !.cookie = c, !.cookieverf = v] \in Listing
  BY DEF Listing

\* The page goes to the client: at the end of the directory, or before an
\* entry that does not fit.
LEMMA ReplyIInv ==
    ASSUME IInv, UNCHANGED ServerVars, listing.pc = "next", NEW pc \in {"client", "over"},
           pc = "over" => listing.todo = <<>>, pc = "client" => listing.page # <<>>,
           listing' = [listing EXCEPT !.pc = pc, !.stat = "OK",
                            !.listed = listing.listed \o listing.page,
                            !.page = <<>>, !.todo = <<>>,
                            !.cookie = IF listing.page = <<>> THEN @ ELSE Last(listing.page),
                            !.cookieverf = listing.dirversion]
    PROVE  IInv'
<1>. DEFINE all == listing.listed \o listing.page
<1>1. /\ listing \in Listing /\ dir.content \in Seq(Ids) /\ Distinct(dir.content)
      /\ listing.listed \in Seq(Ids) /\ listing.page \in Seq(Ids) /\ listing.todo \in Seq(Ids)
      /\ all \in Seq(Ids) /\ Met \in Seq(Ids) /\ Met = all \o listing.todo
  BY Parts DEF IInv, TypeOK, Met
<1>3. <<>> \in Seq(Ids) /\ Distinct(<<>>) /\ <<>> \in SomeOrders /\ <<>> \o <<>> = <<>>
  <2>1. <<>> \in Seq(Ids) /\ <<>> \o <<>> = <<>> /\ DOMAIN <<>> = {}
    BY EmptySeq, ConcatEmptySeq
  <2>2. Distinct(<<>>)
    BY <2>1 DEF Distinct
  <2>. QED  BY <2>1, <2>2, OrderIff
<1>4. PICK c : c = IF listing.page = <<>> THEN listing.cookie ELSE Last(listing.page)
  OBVIOUS
<1>5. /\ c \in Ids \cup {0}
      /\ c = 0 <=> all = <<>>
      /\ all # <<>> => c = Last(all)
  <2>1. CASE listing.page = <<>>
    <3>1. all = listing.listed /\ c = listing.cookie
      BY <1>1, <1>4, <2>1, ConcatEmptySeq
    <3>. QED  BY <1>1, <3>1 DEF IInv, CookieIsLast, Listing
  <2>2. CASE listing.page # <<>>
    <3>1. Len(all) # 0 /\ all # <<>> /\ all[Len(all)] = listing.page[Len(listing.page)]
          /\ listing.page[Len(listing.page)] \in Ids
      BY <1>1, <2>2, ConcatLast
    <3>2. c = listing.page[Len(listing.page)] /\ c \in Ids /\ c # 0
      BY <1>4, <2>2, <3>1 DEF Last
    <3>. HIDE DEF all
    <3>. QED  BY <3>1, <3>2 DEF Last
  <2>. QED  BY <2>1, <2>2
<1>. HIDE DEF all
<1>6. listing' = [listing EXCEPT !.pc = pc, !.stat = "OK", !.listed = all, !.page = <<>>,
                    !.todo = <<>>, !.cookie = c, !.cookieverf = listing.dirversion]
  BY <1>4 DEF all
<1>7. listing' \in Listing
  <2>1. pc \in {"client", "getattr", "make_iter", "next", "over"}
    OBVIOUS
  <2>2. listing.dirversion \in Mtimes \cup {0, -1}
    BY <1>1 DEF Listing
  <2>3. PICK e : e = <<>>
    OBVIOUS
  <2>4. e \in SomeOrders /\ all \in Seq(Ids) /\ c \in Ids \cup {0}
    BY <1>1, <1>3, <1>5, <2>3
  <2>5. [listing EXCEPT !.pc = pc, !.stat = "OK", !.listed = all, !.page = e, !.todo = e,
                    !.cookie = c, !.cookieverf = listing.dirversion] \in Listing
    BY <1>1, <2>1, <2>2, <2>4, ReplyType
  <2>. QED  BY <1>6, <2>3, <2>5
<1>8. /\ listing'.pc = pc /\ listing'.stat = "OK" /\ listing'.listed = all
      /\ listing'.page = <<>> /\ listing'.todo = <<>> /\ listing'.cookie = c
      /\ listing'.cookieverf = listing.dirversion /\ listing'.dirversion = listing.dirversion
  BY <1>1, <1>6 DEF Listing
<1>9. HistoryKept
  BY <1>1, <1>6 DEF Listing, HistoryKept
<1>10. Met' = all
  <2>1. PICK a \in Seq(Ids) : a = all
    BY <1>1
  <2>2. (a \o <<>>) \o <<>> = a
    BY ConcatEmptySeq
  <2>3. Met' = (a \o <<>>) \o <<>>
    BY <1>8, <2>1 DEF Met
  <2>. QED  BY <2>1, <2>2, <2>3
<1>11. CookieIsLast'
  BY <1>5, <1>8 DEF CookieIsLast
<1>12. VerfOfMtime' /\ StatAtEnd' /\ BadCookieOnlyIfStale'
  BY <1>8, <1>9 DEF IInv, VerfOfMtime, StatAtEnd, BadCookieOnlyIfStale, HistoryKept, ServerVars
<1>13. ASSUME ~listing.moved PROVE Along(Met', dir.content) /\ Covered'
  <2>1. Along(Met, dir.content) /\ listing.stay \subseteq ToSet(Met)
    BY <1>13 DEF IInv, Covered
  <2>2. Along(all, dir.content)
    BY <1>1, <2>1, AlongPrefix
  <2>3. ToSet(Met) = ToSet(all) \cup ToSet(listing.todo)
    BY <1>1, ConcatElements
  <2>4. CASE pc = "over"
    <3>1. Met = all
      BY <1>1, <2>4, ConcatEmptySeq
    <3>2. Covered'
      BY <1>8, <1>9, <2>1, <2>4, <3>1 DEF Covered, HistoryKept
    <3>. QED  BY <1>10, <2>2, <3>2
  <2>5. CASE pc = "client"
    <3>1. Len(all) # 0 /\ c = all[Len(all)]
      <4>1. Len(all) # 0 /\ all # <<>>
        BY <1>1, <2>5, ConcatLast DEF all
      <4>. QED  BY <1>5, <4>1 DEF Last
    <3>2. ASSUME c \in ToSet(dir.content), NEW id \in listing.stay \ ToSet(all)
          PROVE  Before(dir.content, c, id)
      <4>1. id \in ToSet(listing.todo) /\ id \in ToSet(dir.content)
        BY <2>1, <2>3, <3>2 DEF IInv, StayListed
      <4>. QED  BY <1>1, <2>1, <3>1, <3>2, <4>1, LaterPart
    <3>3. Covered'
      BY <1>8, <1>9, <2>5, <3>2 DEF Covered, HistoryKept, ServerVars
    <3>. QED  BY <1>10, <2>2, <3>3
  <2>. QED  BY <2>4, <2>5
<1>. QED
  BY <1>3, <1>7, <1>8, <1>9, <1>11, <1>12, <1>13, ListingStep

\* The first entry does not fit: the client is where it was.
LEMMA TooSmallIInv ==
    ASSUME IInv, UNCHANGED ServerVars, listing.pc = "next", listing.page = <<>>,
           listing' = [listing EXCEPT !.pc = "client", !.stat = "TOOSMALL", !.todo = <<>>]
    PROVE  IInv'
<1>1. /\ listing \in Listing /\ dir.content \in Seq(Ids)
      /\ listing.listed \in Seq(Ids) /\ listing.todo \in Seq(Ids)
      /\ Met \in Seq(Ids) /\ Met = listing.listed \o listing.todo
  BY Parts, ConcatEmptySeq DEF IInv, TypeOK, Met
<1>2. <<>> \in Seq(Ids) /\ Distinct(<<>>) /\ <<>> \in SomeOrders /\ <<>> \o <<>> = <<>>
  <2>1. <<>> \in Seq(Ids) /\ <<>> \o <<>> = <<>> /\ DOMAIN <<>> = {}
    BY EmptySeq, ConcatEmptySeq
  <2>2. Distinct(<<>>)
    BY <2>1 DEF Distinct
  <2>. QED  BY <2>1, <2>2, OrderIff
<1>3. listing' \in Listing
  BY <1>1, <1>2 DEF Listing
<1>4. /\ listing'.pc = "client" /\ listing'.stat = "TOOSMALL" /\ listing'.listed = listing.listed
      /\ listing'.page = <<>> /\ listing'.todo = <<>> /\ listing'.cookie = listing.cookie
      /\ listing'.cookieverf = listing.cookieverf /\ listing'.dirversion = listing.dirversion
  BY <1>1 DEF Listing
<1>5. HistoryKept
  BY <1>1 DEF Listing, HistoryKept
<1>6. Met' = listing.listed
  BY <1>1, <1>4, ConcatEmptySeq DEF Met
<1>7. CookieIsLast' /\ VerfOfMtime' /\ StatAtEnd' /\ BadCookieOnlyIfStale'
  BY <1>4, <1>5 DEF IInv, CookieIsLast, VerfOfMtime, StatAtEnd, BadCookieOnlyIfStale,
     HistoryKept, ServerVars
<1>8. ASSUME ~listing.moved PROVE Along(Met', dir.content) /\ Covered'
  <2>1. Along(Met, dir.content) /\ listing.stay \subseteq ToSet(Met)
    BY <1>8 DEF IInv, Covered
  <2>2. Along(listing.listed, dir.content)
    BY <1>1, <2>1, AlongPrefix
  <2>3. ToSet(Met) = ToSet(listing.listed) \cup ToSet(listing.todo)
    BY <1>1, ConcatElements
  <2>4. ASSUME listing.cookie # 0, listing.cookie \in ToSet(dir.content),
               NEW id \in listing.stay \ ToSet(listing.listed)
        PROVE  Before(dir.content, listing.cookie, id)
    <3>1. Len(listing.listed) # 0 /\ listing.cookie = listing.listed[Len(listing.listed)]
      BY <2>4, CookieMet DEF IInv
    <3>2. id \in ToSet(listing.todo) /\ id \in ToSet(dir.content)
      BY <2>1, <2>3, <2>4 DEF IInv, StayListed
    <3>. QED  BY <1>1, <2>1, <2>4, <3>1, <3>2, LaterPart
  <2>5. Covered'
    BY <1>4, <1>5, <2>4 DEF Covered, HistoryKept, ServerVars
  <2>. QED  BY <1>6, <2>2, <2>5
<1>. QED
  BY <1>2, <1>3, <1>4, <1>5, <1>7, <1>8, ListingStep

\* MemFs no longer has the next id, so the directory does not list it.
LEMMA SkipIInv ==
    ASSUME IInv, UNCHANGED ServerVars, listing.pc = "next", listing.todo # <<>>,
           Head(listing.todo) \notin fs,
           listing' = [listing EXCEPT !.todo = Tail(listing.todo)]
    PROVE  IInv'
<1>1. /\ listing \in Listing /\ dir.content \in Seq(Ids)
      /\ listing.listed \in Seq(Ids) /\ listing.page \in Seq(Ids) /\ listing.todo \in Seq(Ids)
      /\ listing.listed \o listing.page \in Seq(Ids)
      /\ Distinct(listing.page \o listing.todo) /\ Distinct(listing.todo)
  BY Parts, OrderIff DEF IInv, TypeOK, Shape, Listing
<1>2. /\ Tail(listing.todo) \in Seq(Ids)
      /\ ToSet(listing.todo) \subseteq {Head(listing.todo)} \cup ToSet(Tail(listing.todo))
  BY <1>1, HeadAndTail
<1>3. Distinct(Tail(listing.todo)) /\ Tail(listing.todo) \in SomeOrders
  <2>1. Distinct(<<>> \o listing.todo) => Distinct(<<>> \o Tail(listing.todo))
    BY <1>1, EmptySeq, AlongSkip
  <2>2. Distinct(Tail(listing.todo))
    BY <1>1, <1>2, <2>1, ConcatEmptySeq
  <2>. QED  BY <1>2, <2>2, OrderIff
<1>4. listing' \in Listing
  BY <1>1, <1>3 DEF Listing
<1>5. /\ listing'.pc = listing.pc /\ listing'.stat = listing.stat
      /\ listing'.listed = listing.listed /\ listing'.page = listing.page
      /\ listing'.todo = Tail(listing.todo) /\ listing'.cookie = listing.cookie
      /\ listing'.cookieverf = listing.cookieverf /\ listing'.dirversion = listing.dirversion
  BY <1>1 DEF Listing
<1>6. HistoryKept
  BY <1>1 DEF Listing, HistoryKept
<1>7. Distinct(listing.page \o Tail(listing.todo))
  BY <1>1, AlongSkip
<1>8. CookieIsLast' /\ VerfOfMtime' /\ StatAtEnd' /\ BadCookieOnlyIfStale'
  BY <1>5, <1>6 DEF IInv, CookieIsLast, VerfOfMtime, StatAtEnd, BadCookieOnlyIfStale,
     HistoryKept, ServerVars
<1>9. Met' = listing.listed \o listing.page \o Tail(listing.todo)
  BY <1>5 DEF Met
<1>10. ASSUME ~listing.moved PROVE Along(Met', dir.content) /\ Covered'
  <2>1. Along(Met, dir.content) /\ listing.stay \subseteq ToSet(Met)
    BY <1>10 DEF IInv, Covered
  <2>2. Along(Met', dir.content)
    BY <1>1, <1>9, <2>1, AlongSkip DEF Met
  <2>. DEFINE sent == listing.listed \o listing.page
  <2>3. /\ ToSet(Met) = ToSet(sent) \cup ToSet(listing.todo)
        /\ ToSet(Met') = ToSet(sent) \cup ToSet(Tail(listing.todo))
    <3>1. sent \in Seq(Ids) /\ Met = sent \o listing.todo /\ Met' = sent \o Tail(listing.todo)
      BY <1>1, <1>9 DEF Met
    <3>. HIDE DEF sent
    <3>. QED  BY <1>1, <1>2, <3>1, ConcatElements
  <2>. HIDE DEF sent
  <2>4. Head(listing.todo) \notin listing.stay
    BY DEF IInv, StayListed, TypeOK
  <2>5. listing.stay \subseteq ToSet(Met')
    BY <1>2, <2>1, <2>3, <2>4
  <2>6. Covered'
    BY <1>5, <1>6, <2>5 DEF Covered, HistoryKept
  <2>. QED  BY <2>2, <2>6
<1>. QED
  BY <1>4, <1>5, <1>6, <1>7, <1>8, <1>10, ListingStep

\* An entry goes from the iterator to the page.
LEMMA PushIInv ==
    ASSUME IInv, UNCHANGED ServerVars, listing.pc = "next", listing.todo # <<>>,
           listing' = [listing EXCEPT !.page = Append(listing.page, Head(listing.todo)),
                                      !.todo = Tail(listing.todo)]
    PROVE  IInv'
<1>. DEFINE h == Head(listing.todo)
            t == Tail(listing.todo)
            page == Append(listing.page, h)
<1>1. /\ listing \in Listing /\ dir.content \in Seq(Ids)
      /\ listing.listed \in Seq(Ids) /\ listing.page \in Seq(Ids) /\ listing.todo \in Seq(Ids)
      /\ listing.listed \o listing.page \in Seq(Ids)
      /\ Distinct(listing.page \o listing.todo) /\ Distinct(listing.todo)
  BY Parts, OrderIff DEF IInv, TypeOK, Shape, Listing
<1>2. /\ h \in Ids /\ t \in Seq(Ids) /\ <<h>> \in Seq(Ids)
      /\ page = listing.page \o <<h>> /\ page \in Seq(Ids)
      /\ listing.todo = <<h>> \o t
  <2>1. h \in Ids /\ t \in Seq(Ids) /\ <<h>> \in Seq(Ids)
    BY <1>1, HeadAndTail
  <2>2. page = listing.page \o <<h>> /\ page \in Seq(Ids)
    BY <1>1, <2>1, AppendIsConcat, AppendProperties
  <2>3. listing.todo = <<h>> \o t
    BY <1>1, HeadAndTail
  <2>. QED  BY <2>1, <2>2, <2>3
<1>. DEFINE one == <<h>>
<1>. HIDE DEF h, t, page
<1>3. page \o t = listing.page \o listing.todo /\ t \in Seq(Ids) /\ page \in Seq(Ids)
  <2>1. /\ t \in Seq(Ids) /\ one \in Seq(Ids) /\ listing.todo = one \o t
        /\ page = listing.page \o one /\ page \in Seq(Ids)
    BY <1>2
  <2>. HIDE DEF one
  <2>2. PICK p, o, u \in Seq(Ids) : p = listing.page /\ o = one /\ u = t
    BY <1>1, <2>1
  <2>3. (p \o o) \o u = p \o (o \o u)
    BY ConcatThree
  <2>. QED  BY <2>1, <2>2, <2>3
<1>4. listing.listed \o page \o t = Met
  <2>1. PICK l, p, q, u, v \in Seq(Ids) :
            l = listing.listed /\ p = page /\ u = t /\ q = listing.page /\ v = listing.todo
    BY <1>1, <1>3
  <2>2. (l \o p) \o u = l \o (p \o u)
    BY ConcatThree
  <2>3. (l \o q) \o v = l \o (q \o v)
    BY ConcatThree
  <2>4. p \o u = q \o v
    BY <1>3, <2>1
  <2>5. Met = (l \o q) \o v /\ listing.listed \o page \o t = (l \o p) \o u
    BY <2>1 DEF Met
  <2>. QED  BY <2>2, <2>3, <2>4, <2>5
<1>5. page \in SomeOrders /\ t \in SomeOrders
  <2>1. Distinct(page)
    BY <1>1, <1>2, <1>3, AlongPrefix
  <2>2. Distinct(<<>> \o listing.todo) => Distinct(<<>> \o t)
    BY <1>1, EmptySeq, AlongSkip DEF t
  <2>3. Distinct(t)
    BY <1>1, <1>2, <2>2, ConcatEmptySeq
  <2>. QED  BY <1>2, <2>1, <2>3, OrderIff
<1>6. listing' = [listing EXCEPT !.page = page, !.todo = t]
  BY DEF page, t, h
<1>7. listing' \in Listing
  BY <1>1, <1>5, <1>6 DEF Listing
<1>8. /\ listing'.pc = listing.pc /\ listing'.stat = listing.stat
      /\ listing'.listed = listing.listed /\ listing'.page = page
      /\ listing'.todo = t /\ listing'.cookie = listing.cookie
      /\ listing'.cookieverf = listing.cookieverf /\ listing'.dirversion = listing.dirversion
  BY <1>1, <1>6 DEF Listing
<1>9. HistoryKept
  BY <1>1, <1>6 DEF Listing, HistoryKept
<1>10. CookieIsLast' /\ VerfOfMtime' /\ StatAtEnd' /\ BadCookieOnlyIfStale'
  BY <1>8, <1>9 DEF IInv, CookieIsLast, VerfOfMtime, StatAtEnd, BadCookieOnlyIfStale,
     HistoryKept, ServerVars
<1>11. Met' = Met
  BY <1>4, <1>8 DEF Met
<1>12. ~listing.moved => Along(Met', dir.content) /\ Covered'
  BY <1>8, <1>9, <1>11 DEF IInv, Covered, HistoryKept
<1>. QED
  BY <1>1, <1>3, <1>7, <1>8, <1>9, <1>10, <1>12, ListingStep

\* One turn of the handler's loop.
LEMMA NextEntryIInv ==
    ASSUME IInv, NextEntry
    PROVE  IInv'
<1>1. listing.pc = "next" /\ UNCHANGED ServerVars
  BY DEF NextEntry
<1>2. CASE listing.todo = <<>>
  <2>1. listing' = Reply(listing, TRUE)
    BY <1>2 DEF NextEntry
  <2>. QED  BY <1>1, <1>2, <2>1, ReplyIInv DEF Reply
<1>3. CASE listing.todo # <<>> /\ Head(listing.todo) \notin fs
  BY <1>1, <1>3, SkipIInv DEF NextEntry
<1>4. CASE listing.todo # <<>> /\ Head(listing.todo) \in fs /\ Len(listing.page) = listing.room
  <2>1. listing' = [Reply(listing, FALSE) EXCEPT !.todo = <<>>]
    BY <1>4 DEF NextEntry
  <2>2. CASE listing.page = <<>>
    <3>1. Reply(listing, FALSE) = [listing EXCEPT !.pc = "client", !.stat = "TOOSMALL"]
      BY <2>2 DEF Reply
    <3>2. listing' = [listing EXCEPT !.pc = "client", !.stat = "TOOSMALL", !.todo = <<>>]
      BY <2>1, <3>1
    <3>. QED  BY <1>1, <2>2, <3>2, TooSmallIInv
  <2>3. CASE listing.page # <<>>
    <3>1. Reply(listing, FALSE) =
            [listing EXCEPT !.pc = "client", !.stat = "OK",
                            !.listed = listing.listed \o listing.page,
                            !.page = <<>>, !.todo = <<>>,
                            !.cookie = IF listing.page = <<>> THEN @ ELSE Last(listing.page),
                            !.cookieverf = listing.dirversion]
      BY <2>3 DEF Reply
    <3>2. listing' = Reply(listing, FALSE)
      BY <2>1, <3>1
    <3>. QED  BY <1>1, <2>3, <3>1, <3>2, ReplyIInv
  <2>. QED  BY <2>2, <2>3
<1>5. CASE listing.todo # <<>> /\ Head(listing.todo) \in fs /\ Len(listing.page) # listing.room
  BY <1>1, <1>5, PushIInv DEF NextEntry
<1>. QED  BY <1>2, <1>3, <1>4, <1>5

-----------------------------------------------------------------------------
\* Every step keeps the inductive invariant.
LEMMA NextIInv == IInv /\ [Next]_vars => IInv'
<1>. SUFFICES ASSUME IInv, [Next]_vars PROVE IInv'
  OBVIOUS
<1>1. CASE UNCHANGED vars
  BY <1>1 DEF vars, IInv, TypeOK, Shape, StayListed, CookieIsLast, VerfOfMtime, StatAtEnd,
     BadCookieOnlyIfStale, Covered, Met
<1>. QED  BY <1>1, OthersIInv, CallIInv, MakeIterIInv, NextEntryIInv DEF Next

\* The inductive invariant holds in every state of every behaviour.
LEMMA Invariance == Spec => []IInv
  BY InitIInv, NextIInv, PTL DEF Spec

\* Directory, file system and listing keep their types: whatever others do, a
\* directory lists only objects that exist, each once (Fs::push, remove and
\* rename), and no page and no iterator repeats an entry.
THEOREM ListingTypeOK == Spec => []TypeOK
<1>1. IInv => TypeOK
  BY DEF IInv
<1>. QED  BY <1>1, Invariance, PTL

\* MemFs refuses a cookie it has given out only if its entry has left, the mtime
\* was set, or the mtime is the epoch (nfsproc3_readdir, make_iter).
THEOREM CookieRefusedOnlyIfStale == Spec => []BadCookieOnlyIfStale
<1>1. IInv => BadCookieOnlyIfStale
  BY DEF IInv
<1>. QED  BY <1>1, Invariance, PTL

\* A finished listing of MemFs has every entry that stayed, exactly once, unless
\* the HashSet was rehashed or an entry the listing had met came back.
THEOREM EveryEntryListedOnce == Spec => []ListedOnce
<1>1. ASSUME IInv PROVE ListedOnce
  <2>1. ASSUME listing.pc = "over", listing.stat = "OK", ~listing.moved, NEW id \in listing.stay
        PROVE  Cardinality(Occurrences(id)) = 1
    <3>1. id \in ToSet(listing.listed)
      BY <1>1, <2>1 DEF IInv, Covered
    <3>2. Distinct(listing.listed)
      BY <1>1, <2>1, Parts DEF IInv, Along
    <3>3. PICK i \in DOMAIN listing.listed : listing.listed[i] = id
      BY <3>1 DEF ToSet
    <3>4. Occurrences(id) = {i}
      BY <3>2, <3>3 DEF Occurrences, Distinct
    <3>. QED  BY <3>4, FS_Singleton
  <2>. QED  BY <2>1 DEF ListedOnce
<1>. QED  BY <1>1, Invariance, PTL
============================================================================
