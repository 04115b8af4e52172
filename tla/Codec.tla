------------------------------- MODULE Codec --------------------------------
(***************************************************************************)
(* What the descriptors of Operands and the tables of Messages mean: the   *)
(* trait OperandEncodable and the code that the derive macros generate.    *)
(* Decode, Encode and LenOf are try_from_bytes, to_bytes and len. They are *)
(* separate pieces of code, and nothing but care keeps them in step.       *)
(*                                                                         *)
(* A decoder ends in a value, an error, or a panic (a slice that starts    *)
(* behind the end, a todo! or an unreachable!).                            *)
(***************************************************************************)
EXTENDS Messages, Results, SequencesExt

\* &bytes[n..], for n <= Len(bytes)
From(bytes, n) == SubSeq(bytes, n + 1, Len(bytes))

\* x | bit, for a power of two.
SetBit(x, bit) == IF (x \div bit) % 2 = 1 THEN x ELSE x + bit

\* Two bytes, the higher one first.
WordOf(bytes) == bytes[1] * 256 + bytes[2]
BytesOf(word) == <<word \div 256, word % 256>>

Total(s) == FoldLeft(LAMBDA x, y : x + y, 0, s)

\* A number of one or two bytes, and the bit fields that Packed cuts it into.
NumberOf(n, bytes) == IF n = 1 THEN bytes[1] ELSE WordOf(bytes)
Weight(t, i) == 2^Total(From(t.widths, i))

Split(t, number) ==
    [i \in 1..Len(t.widths) |->
        IF i \in t.keep THEN (number \div Weight(t, i)) % 2^t.widths[i] ELSE 0]

Join(t, fields) == Total([i \in 1..Len(fields) |-> fields[i] * Weight(t, i)])

-----------------------------------------------------------------------------
(* Lengths.                                                                *)

\* size_of::<T>(), for the types that a struct or a buffer has as elements.
RECURSIVE SizeOf(_)
SizeOf(t) ==
    CASE t.kind \in {"byte", "bool"} -> 1
      [] t.kind = "word"    -> 2
      [] t.kind = "packed"  -> t.bytes
      [] t.kind = "array"   -> t.size
      [] t.kind = "channel" -> 4
      [] t.kind = "union"   -> t.least
      [] t.kind = "struct"  -> Total([i \in 1..Len(t.fields) |-> SizeOf(t.fields[i])])

\* OperandEncodable::expected_len
ExpectedLen(t) ==
    CASE t.kind \in {"option", "bounded"}  -> AtLeast(0)
      [] t.kind \in {"tagged", "message"}  -> AtLeast(1)
      [] t.kind = "bylength"               -> Only(DOMAIN t.alternatives)
      [] OTHER                             -> AtLeast(SizeOf(t))

\* The fold in the generated Message::expected_len. A length that is not open
\* at its end can only be the last one.
Todo == [kind |-> "todo", bound |-> {}]

AddLen(accum, new) ==
    IF accum.kind # "AtLeast" \/ new.kind \notin {"AtLeast", "Only"} THEN Todo
    ELSE [kind |-> new.kind, bound |-> {x + y : x \in accum.bound, y \in new.bound}]

MessageLen(fields) ==
    FoldLeft(LAMBDA accum, t : AddLen(accum, ExpectedLen(t)), AtLeast(1), fields)

\* OperandEncodable::len
RECURSIVE LenOf(_, _)
LenOf(t, v) ==
    CASE t.kind = "option"   -> IF v = <<>> THEN 0 ELSE LenOf(t.of, v[1])
      [] t.kind = "bounded"  -> (IF Len(v) < t.max THEN Len(v) ELSE t.max) * SizeOf(t.of)
      [] t.kind = "tagged"   -> 1 + Len(v[2])
      [] t.kind = "bylength" -> v[1]
      [] t.kind = "union"    -> SizeOf(t.head) + LenOf(t.rest[v[1]], v[2])
      [] t.kind = "message"  -> LET fields == t.table[v[1]].fields IN
                                1 + Total([i \in 1..Len(fields) |-> LenOf(fields[i], v[i + 1])])
      [] OTHER               -> SizeOf(t)

-----------------------------------------------------------------------------
(* Encoding: to_bytes.                                                     *)

EncodeTagged_OnlyFirst(head, extra) ==
    IF extra = <<>> THEN <<head % 128>> ELSE <<SetBit(head, 128)>> \o extra

\* TaggedLengthBuffer: every byte but the last has bit 7 set.
EncodeTagged(head, extra) ==
    IF extra = <<>> THEN <<head % 128>>
    ELSE <<SetBit(head, 128)>>
         \o [i \in 1..Len(extra) - 1 |-> SetBit(extra[i], 128)]
         \o <<Last(extra) % 128>>

Fmt == OneTouchRecord.CHANNEL_NUMBER_FMT

\* The format is or-ed into the six bits above the first number.
EncodeChannel(v) ==
    IF v[1] = Fmt.PART_1 THEN BytesOf(Fmt.PART_1 * 1024) \o BytesOf(v[2])
    ELSE BytesOf(SetBit(v[2], Fmt.PART_2 * 1024)) \o BytesOf(v[3])

RECURSIVE Encode(_, _)
EncodeAll(ts, vs) == FlattenSeq([i \in 1..Len(vs) |-> Encode(ts[i], vs[i])])

Encode(t, v) ==
    CASE t.kind \in {"byte", "bool"} -> <<v>>
      [] t.kind = "word"     -> BytesOf(v)
      [] t.kind = "packed"   -> IF t.bytes = 1 THEN <<Join(t, v)>> ELSE BytesOf(Join(t, v))
      [] t.kind = "array"    -> v
      [] t.kind = "struct"   -> EncodeAll(t.fields, v)
      [] t.kind = "option"   -> IF v = <<>> THEN <<>> ELSE Encode(t.of, v[1])
      [] t.kind = "bounded"  -> EncodeAll([i \in 1..Len(v) |-> t.of], v)
      [] t.kind = "union"    -> Encode(t.head, v[1]) \o Encode(t.rest[v[1]], v[2])
      [] t.kind = "bylength" -> Encode(t.alternatives[v[1]], v[2])
      [] t.kind = "tagged"   -> EncodeTagged(v[1][2], v[2])
      [] t.kind = "channel"  -> EncodeChannel(v)
      [] t.kind = "message"  -> <<v[1]>> \o EncodeAll(t.table[v[1]].fields, Tail(v))

-----------------------------------------------------------------------------
(* Decoding: try_from_bytes.                                               *)

Extra_Unmasked(bytes) ==
    LET last == SelectInSubSeq(bytes, 2, Len(bytes), LAMBDA b : b < 128)
        n    == IF last = 0 THEN Len(bytes) ELSE last
    IN  IF bytes[1] < 128 THEN <<>> ELSE SubSeq(bytes, 2, n)

\* The bytes behind the first one, up to the one without bit 7, without it.
Extra(bytes) ==
    LET last == SelectInSubSeq(bytes, 2, Len(bytes), LAMBDA b : b < 128)
        n    == IF last = 0 THEN Len(bytes) ELSE last
    IN  IF bytes[1] < 128 THEN <<>> ELSE [i \in 1..n - 1 |-> bytes[i + 1] % 128]

DecodeTagged(first, bytes) ==
    LET head  == bytes[1] % 128
        extra == Extra(bytes)
    IN  IF head \in DOMAIN first
        THEN Ok(<<first[head], IF Len(extra) > 14 THEN SubSeq(extra, 1, 14) ELSE extra>>)
        ELSE Err

DecodeChannel(bytes) ==
    LET high == WordOf(bytes)
        low  == WordOf(From(bytes, 2))
    IN  CASE high \div 1024 = Fmt.PART_1 -> Ok(<<Fmt.PART_1, low>>)
          [] high \div 1024 = Fmt.PART_2 -> Ok(<<Fmt.PART_2, high % 1024, low>>)
          [] OTHER                       -> Err

\* The result of r with something done to its value.
Map(r, Op(_)) == IF r.is = "ok" THEN Ok(Op(r.val)) ELSE r

RECURSIVE Decode(_, _), DecodeFields(_, _, _, _)

\* Field after field; each starts where len() says that the last one ended.
DecodeFields(ts, bytes, offset, done) ==
    IF ts = <<>> THEN Ok(done)
    ELSE IF offset > Len(bytes) THEN Panic
    ELSE LET r == Decode(Head(ts), From(bytes, offset)) IN
         IF r.is # "ok" THEN r
         ELSE DecodeFields(Tail(ts), bytes, offset + LenOf(Head(ts), r.val),
                           Append(done, r.val))

\* Whole elements, as long as there is one and there is room for it.
DecodeElements(t, bytes) ==
    LET whole == Len(bytes) \div SizeOf(t.of)
        n     == IF whole < t.max THEN whole ELSE t.max
    IN  DecodeFields([i \in 1..n |-> t.of], bytes, 0, <<>>)

\* The generated Message::try_from_bytes.
DecodeMessage(table, bytes) ==
    LET fields == table[bytes[1]].fields
        len    == MessageLen(fields)
    IN  IF bytes[1] \notin DOMAIN table THEN Err
        ELSE IF len = Todo THEN Panic
        ELSE IF ~Check(len, Len(bytes)) THEN Err
        ELSE DecodeFields(fields, bytes, 1, <<bytes[1]>>)

Decode(t, bytes) ==
    IF ~Check(ExpectedLen(t), Len(bytes)) THEN Err
    ELSE
    CASE t.kind = "byte"     -> IF bytes[1] \in t.ok THEN Ok(bytes[1]) ELSE Err
      [] t.kind = "bool"     -> Ok(IF bytes[1] = 0 THEN 0 ELSE 1)
      [] t.kind = "word"     -> Ok(WordOf(bytes))
      [] t.kind = "packed"   -> LET f == Split(t, NumberOf(t.bytes, bytes)) IN
                                IF f \in t.ok THEN Ok(f) ELSE Err
      [] t.kind = "array"    -> Ok(SubSeq(bytes, 1, t.size))
      [] t.kind = "struct"   -> DecodeFields(t.fields, bytes, 0, <<>>)
      [] t.kind = "option"   -> IF Len(bytes) < t.least THEN Ok(<<>>)
                                ELSE Map(Decode(t.of, bytes), LAMBDA v : <<v>>)
      [] t.kind = "bounded"  -> DecodeElements(t, bytes)
      [] t.kind = "union"    -> LET h == Decode(t.head, bytes) IN
                                IF h.is # "ok" THEN h
                                ELSE Map(Decode(t.rest[h.val], From(bytes, SizeOf(t.head))),
                                         LAMBDA v : <<h.val, v>>)
      [] t.kind = "bylength" -> Map(Decode(t.alternatives[Len(bytes)], bytes),
                                    LAMBDA v : <<Len(bytes), v>>)
      [] t.kind = "tagged"   -> DecodeTagged(t.first, bytes)
      [] t.kind = "channel"  -> DecodeChannel(bytes)
      [] t.kind = "message"  -> DecodeMessage(t.table, bytes)

=============================================================================
