----------------------------- MODULE MCNfsWire ------------------------------
\* Bounds for the wire: samples of every message and small directories.
EXTENDS NfsWire, FiniteSets, SequencesExt

\* Samples of a type: the values of an enum, the lengths that need 0 to 3 bytes
\* of padding, one digit and every digit of a number, and for a struct the
\* samples of its fields side by side.
RECURSIVE Samples(_)

\* The same sequence, which TLC evaluates at once.
Strict(s) == <<>> \o s

Most(samples) == Max({Len(samples[i]) : i \in DOMAIN samples})
Pick(samples, i) == samples[(i % Len(samples)) + 1]

Beside(samples) ==
    Strict([j \in 1..Most(samples) |-> Strict([i \in DOMAIN samples |-> Pick(samples[i], i + j)])])

InOrder(S) == [i \in 1..Cardinality(S) |-> CHOOSE n \in S : Cardinality({m \in S : m < n}) = i - 1]
Arms(T) == InOrder(DOMAIN T.arms)

\* At most two samples of each arm.
ArmSamples(T, tag) ==
    LET s == Samples(T.arms[tag])
        few == SubSeq(s, 1, Min({2, Len(s)}))
    IN  Strict([j \in DOMAIN few |-> [tag |-> tag, val |-> few[j]]])

Samples(T) ==
    CASE T.k = "u32"    -> <<1, ByteBase^4 - 1, 0>>
      [] T.k = "u64"    -> <<2, ByteBase^8 - 1, ByteBase^4>>
      [] T.k = "bool"   -> <<TRUE, FALSE>>
      [] T.k = "void"   -> <<<<>>>>
      [] T.k = "opaque" -> <<<<1>>, <<1, 2, 3, 4>>, <<>>, <<5, 6, 7>>, <<8, 9>>>>
      [] T.k = "bytes"  -> <<Strict([i \in 1..T.n |-> i])>>
      [] T.k = "vec"    -> <<<<>>, <<7>>, <<0, 1, 300>>>>
      [] T.k = "enum"   -> InOrder(T.values)
      [] T.k = "list"   -> LET s == Samples(T.of) IN <<<<>>, <<s[1]>>, s>>
      [] T.k = "struct" -> Beside(Strict([i \in DOMAIN T.fields |-> Samples(T.fields[i])]))
      [] T.k = "union"  -> FlattenSeq(Strict([a \in DOMAIN Arms(T) |-> ArmSamples(T, Arms(T)[a])]))

MCSamples == [type \in DOMAIN Layout |-> Samples(Layout[type])]

\* Room for the empty page or one byte less, for one to three entries, or for
\* one byte less than that.
MCRequests ==
    [plus : {FALSE}, count : {23, 24, 52, 55, 56, 80, 83, 84, 108, 112, 116}, dircount : {0}, attrs : {FALSE}]
    \cup [plus : {FALSE}, count : {107, 108, 140, 196}, dircount : {0}, attrs : {TRUE}]
    \cup [plus : {TRUE}, count : {127, 128, 168, 204, 240, 400}, dircount : {27, 28, 60, 200}, attrs : BOOLEAN]

MCEntries ==
    {<<1, n, 1, Attributes([attrs |-> a]), h>> :
        n \in {<<1>>, <<1, 2, 3, 4, 5>>}, a \in BOOLEAN,
        h \in {[tag |-> 0, val |-> <<>>], [tag |-> 1, val |-> <<[i \in 1..16 |-> i % 8]>>]}}
============================================================================
