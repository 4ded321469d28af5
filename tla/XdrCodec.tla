------------------------------ MODULE XdrCodec ------------------------------
(***************************************************************************)
(* nfs3_types::xdr_codec and what #[derive(XdrCodec)] generates: pack,     *)
(* packed_size and unpack, as operators over a description of the type.    *)
(*                                                                         *)
(* A byte is a digit of ByteBase, most significant first, so a u32 is      *)
(* below ByteBase^4 and a u64 below ByteBase^8.  A struct is the sequence  *)
(* of its fields, a value of an enum with data a record of tag and val.    *)
(***************************************************************************)
EXTENDS Integers, Sequences

CONSTANT ByteBase

ASSUME ByteBaseAssumption == ByteBase \in Nat \ {0} /\ ByteBase % 2 = 0

U32 == [k |-> "u32"]
U64 == [k |-> "u64"]
Bool == [k |-> "bool"]
Void == [k |-> "void"]
Opaque == [k |-> "opaque"]
VecU32 == [k |-> "vec"]
Bytes(n) == [k |-> "bytes", n |-> n]
List(T) == [k |-> "list", of |-> T]
Struct(fields) == [k |-> "struct", fields |-> fields]

\* A simple enum, by its values, and an enum with data, by the type of each
\* tag.  lax: a tag that is not known is taken for the variant without data.
Enum(values) == [k |-> "enum", values |-> values]
Union(arms) == [k |-> "union", arms |-> arms, lax |-> FALSE]
LaxUnion(arms) == [k |-> "union", arms |-> arms, lax |-> TRUE]

-----------------------------------------------------------------------------
add_padding(sz) == ((sz + 3) \div 4) * 4
get_padding(len) == (-len) % 4
zero_padding(len) == [i \in 1..get_padding(len) |-> 0]

to_be_bytes(n, width) == [i \in 1..width |-> (n \div ByteBase^(width - i)) % ByteBase]
from_be_bytes(bytes) ==
    LET value[n \in 0..Len(bytes)] == IF n = 0 THEN 0 ELSE value[n - 1] * ByteBase + bytes[n]
    IN  value[Len(bytes)]

\* n items of one type.
Times(n, T) == [i \in 1..n |-> T]

RECURSIVE packed_size(_, _), pack(_, _), unpack(_, _, _)

\* The same for a sequence of values of the given types.
RECURSIVE size_items(_, _), pack_items(_, _), unpack_items(_, _, _)

size_items(types, v) ==
    IF types = <<>> THEN 0 ELSE packed_size(Head(types), Head(v)) + size_items(Tail(types), Tail(v))

\* packed_size: BoundedList and the limits of READDIR rely on it.
packed_size(T, v) ==
    CASE T.k \in {"u32", "bool", "enum"} -> 4
      [] T.k = "u64"    -> 8
      [] T.k = "void"   -> 0
      [] T.k = "opaque" -> 4 + add_padding(Len(v))
      [] T.k = "bytes"  -> add_padding(T.n)
      [] T.k = "vec"    -> 4 + Len(v) * 4
      [] T.k = "list"   -> 4 * Len(v) + size_items(Times(Len(v), T.of), v) + 4
      [] T.k = "struct" -> size_items(T.fields, v)
      [] T.k = "union"  -> 4 + packed_size(T.arms[v.tag], v.val)

PackBool(v) == to_be_bytes(IF v THEN 1 ELSE 0, 4)
PackOpaque(v) == to_be_bytes(Len(v), 4) \o v \o zero_padding(Len(v))
PackBytes(v) == v \o zero_padding(Len(v))

pack_items(types, v) ==
    IF types = <<>> THEN <<>> ELSE pack(Head(types), Head(v)) \o pack_items(Tail(types), Tail(v))

PackVec(v) == to_be_bytes(Len(v), 4) \o pack_items(Times(Len(v), U32), v)

\* Every item is announced by true, the end by false.
PackList(T, v) ==
    LET marked == [i \in DOMAIN v |-> <<TRUE, v[i]>>]
    IN  pack_items(Times(Len(v), Struct(<<Bool, T.of>>)), marked) \o PackBool(FALSE)

PackVariant(T, v) == to_be_bytes(v.tag, 4) \o pack(T.arms[v.tag], v.val)

pack(T, v) ==
    CASE T.k \in {"u32", "enum"} -> to_be_bytes(v, 4)
      [] T.k = "u64"    -> to_be_bytes(v, 8)
      [] T.k = "bool"   -> PackBool(v)
      [] T.k = "void"   -> <<>>
      [] T.k = "opaque" -> PackOpaque(v)
      [] T.k = "bytes"  -> PackBytes(v)
      [] T.k = "vec"    -> PackVec(v)
      [] T.k = "list"   -> PackList(T, v)
      [] T.k = "struct" -> pack_items(T.fields, v)
      [] T.k = "union"  -> PackVariant(T, v)

-----------------------------------------------------------------------------
(* Unpacking starts at place i of the input and gives the value and the    *)
(* next place, or Err.                                                     *)

Ok(v, i) == [ok |-> TRUE, v |-> v, next |-> i]
Err == [ok |-> FALSE]

\* read_exact: the input must have n more bytes.
Enough(s, i, n) == i + n <= Len(s) + 1
Taken(s, i, n) == SubSeq(s, i, i + n - 1)

UnpackInt(s, i, width) ==
    IF Enough(s, i, width) THEN Ok(from_be_bytes(Taken(s, i, width)), i + width) ELSE Err

UnpackBool(s, i) ==
    LET n == UnpackInt(s, i, 4) IN
    IF n.ok /\ n.v \in {0, 1} THEN Ok(n.v = 1, n.next) ELSE Err

\* n bytes and their padding, whose content is not looked at.
UnpackPadded_Short(s, i, n) == IF Enough(s, i, n) THEN Ok(Taken(s, i, n), i + n) ELSE Err

UnpackPadded(s, i, n) ==
    IF Enough(s, i, n + get_padding(n)) THEN Ok(Taken(s, i, n), i + n + get_padding(n)) ELSE Err

UnpackOpaque(s, i) ==
    LET n == UnpackInt(s, i, 4) IN IF n.ok THEN UnpackPadded(s, n.next, n.v) ELSE Err

unpack_items(types, s, i) ==
    IF types = <<>> THEN Ok(<<>>, i)
    ELSE LET first == unpack(Head(types), s, i) IN
         IF ~first.ok THEN Err
         ELSE LET rest == unpack_items(Tail(types), s, first.next) IN
              IF rest.ok THEN Ok(<<first.v>> \o rest.v, rest.next) ELSE Err

UnpackVec(s, i) ==
    LET n == UnpackInt(s, i, 4) IN
    IF ~n.ok \/ ~Enough(s, n.next, 4 * n.v) THEN Err
    ELSE unpack_items(Times(n.v, U32), s, n.next)

UnpackList(T, s, i) ==
    LET more == UnpackBool(s, i) IN
    IF ~more.ok THEN Err
    ELSE IF ~more.v THEN Ok(<<>>, more.next)
    ELSE LET r == unpack_items(<<T.of, T>>, s, more.next) IN
         IF r.ok THEN Ok(<<r.v[1]>> \o r.v[2], r.next) ELSE Err

UnpackEnum(T, s, i) ==
    LET n == UnpackInt(s, i, 4) IN IF n.ok /\ n.v \in T.values THEN n ELSE Err

UnpackVariant(T, s, i) ==
    LET tag == UnpackInt(s, i, 4) IN
    IF ~tag.ok \/ (tag.v \notin DOMAIN T.arms /\ ~T.lax) THEN Err
    ELSE IF tag.v \notin DOMAIN T.arms THEN Ok([tag |-> -1, val |-> <<>>], tag.next)
    ELSE LET val == unpack(T.arms[tag.v], s, tag.next) IN
         IF val.ok THEN Ok([tag |-> tag.v, val |-> val.v], val.next) ELSE Err

unpack(T, s, i) ==
    CASE T.k = "u32"    -> UnpackInt(s, i, 4)
      [] T.k = "u64"    -> UnpackInt(s, i, 8)
      [] T.k = "bool"   -> UnpackBool(s, i)
      [] T.k = "void"   -> Ok(<<>>, i)
      [] T.k = "opaque" -> UnpackOpaque(s, i)
      [] T.k = "bytes"  -> UnpackPadded(s, i, T.n)
      [] T.k = "vec"    -> UnpackVec(s, i)
      [] T.k = "list"   -> UnpackList(T, s, i)
      [] T.k = "enum"   -> UnpackEnum(T, s, i)
      [] T.k = "struct" -> unpack_items(T.fields, s, i)
      [] T.k = "union"  -> UnpackVariant(T, s, i)
============================================================================
