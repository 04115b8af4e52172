---------------------------- MODULE Conversions -----------------------------
(***************************************************************************)
(* Everything that linux-cec converts on its way between the bus and the   *)
(* program, messages to frames and back and frames that other devices      *)
(* send, with the steps of Settings beside them. Each step converts one    *)
(* input; the properties compare the outcome with what the input was made  *)
(* from.                                                                   *)
(***************************************************************************)
EXTENDS Frames, Settings

CONSTANT
    Values       \* bytes that a foreign frame may have in place of its own

-----------------------------------------------------------------------------
(* Values of the operand types, as a sequence: the bounds of a byte, each  *)
(* variant of a union, an option with and without its value, buffers that  *)
(* are empty and full. A struct takes the values of its fields in turn.    *)

LeastOf(S)    == CHOOSE x \in S : \A y \in S : x <= y
GreatestOf(S) == CHOOSE x \in S : \A y \in S : x >= y
ListOf(S)     == FoldSet(LAMBDA x, list : Append(list, x), <<>>, S)
Turn(s, k)    == s[((k - 1) % Len(s)) + 1]

\* f, as a tuple of values.
Tuple(f) == <<>> \o f

\* The values of the fields in turn.
InTurn(ss) ==
    LET n == GreatestOf({1} \cup {Len(ss[i]) : i \in DOMAIN ss}) IN
    Tuple([k \in 1..n |-> Tuple([i \in 1..Len(ss) |-> Turn(ss[i], k)])])

\* h with each of its values.
Each(h, vs) == Tuple([k \in 1..Len(vs) |-> <<h, vs[k]>>])

PackedValues(t) ==
    ListOf({f \in {Split(t, b) : b \in IF t.bytes = 1 THEN 0..255 ELSE {0, \h4001, \h3FFF, \h7FFF}} :
                f \in t.ok})

ChannelValues == <<<<Fmt.PART_1, \h1234>>, <<Fmt.PART_2, 0, 1>>, <<Fmt.PART_2, \h3FF, \hFFFF>>>>

\* A source that has no menu at all is told from a TV by nothing.
TaggedValues(t) ==
    LET heads == ListOf({v \in {t.first[f] : f \in DOMAIN t.first} : v[1] # "source" \/ v[2] > 64}) IN
    Tuple([k \in 1..Len(heads) |-> <<heads[k], Turn(<<<<>>, <<1>>, <<127, 0>>>>, k)>>])

RECURSIVE ValuesOf(_)
ValuesOf(t) ==
    CASE t.kind = "byte"     -> <<LeastOf(t.ok), GreatestOf(t.ok)>>
      [] t.kind = "bool"     -> <<0, 1>>
      [] t.kind = "word"     -> <<\h1002, \hFFFF, 0>>
      [] t.kind = "packed"   -> PackedValues(t)
      [] t.kind = "array"    -> <<Tuple([i \in 1..t.size |-> i]), Tuple([i \in 1..t.size |-> 255])>>
      [] t.kind = "struct"   -> InTurn(Tuple([i \in 1..Len(t.fields) |-> ValuesOf(t.fields[i])]))
      [] t.kind = "option"   -> LET vs == ValuesOf(t.of) IN
                                <<<<>>>> \o [k \in 1..Len(vs) |-> <<vs[k]>>]
      [] t.kind = "bounded"  -> LET vs == ValuesOf(t.of) IN
                                Tuple([k \in 1..t.max + 1 |->
                                        Tuple([i \in 1..k - 1 |-> Turn(vs, i + k)])])
      [] t.kind = "tagged"   -> TaggedValues(t)
      [] t.kind = "channel"  -> ChannelValues
      [] t.kind = "union"    -> LET heads == IF t.head.kind = "byte" THEN ListOf(t.head.ok)
                                             ELSE PackedValues(t.head)
                                IN  FlattenSeq([h \in 1..Len(heads) |->
                                        Each(heads[h], ValuesOf(t.rest[heads[h]]))])
      [] t.kind = "bylength" -> LET ns == ListOf(DOMAIN t.alternatives) IN
                                FlattenSeq([n \in 1..Len(ns) |->
                                    Each(ns[n], ValuesOf(t.alternatives[ns[n]]))])
      [] t.kind = "message"  -> LET ops == ListOf(DOMAIN t.table) IN
                                FlattenSeq([o \in 1..Len(ops) |->
                                    LET vs == ValuesOf(Struct(t.table[ops[o]].fields)) IN
                                    Tuple([k \in 1..Len(vs) |-> <<ops[o]>> \o vs[k]])])

\* The messages of an opcode.
MessagesOf(op) ==
    LET vs == ValuesOf(Struct(AllMessages[op].fields)) IN
    Tuple([k \in 1..Len(vs) |-> <<op>> \o vs[k]])

\* The shortest message of an opcode, the longest one, and one between.
Examples(op) ==
    LET ms == MessagesOf(op) IN {ms[1], ms[(Len(ms) + 1) \div 2], ms[Len(ms)]}

Tv       == 0
Playback == 4

-----------------------------------------------------------------------------
(* Messages.                                                               *)

\* Device::tx_message, and the conversion of the frame that was sent.
Transmit(m) ==
    LET wire == ToFrame(Playback, Tv, m) IN
    Converts([of |-> "message", message |-> m, wire |-> wire], TxResult(wire))

\* Device::rx_message. The frame is another device's, or noise.
ReceiveFrame(bytes, status) ==
    LET wire == <<Tv * 16 + Playback>> \o bytes IN
    Converts([of |-> "frame", status |-> status, wire |-> wire], Envelope(wire, status))

\* A frame with one byte changed, cut short, or with one byte more.
Garbled(bytes) ==
    {[bytes EXCEPT ![i] = b] : i \in DOMAIN bytes, b \in Values}
        \cup {SubSeq(bytes, 1, n) : n \in 0..Len(bytes)}
        \cup {Append(bytes, b) : b \in Values}

Compose == \E op \in DOMAIN AllMessages : \E m \in Range(MessagesOf(op)) : Transmit(m)

Receive ==
    \/ \E op \in DOMAIN AllMessages : \E m \in Examples(op) :
         \E bytes \in Garbled(Encode(Message, m)) : ReceiveFrame(bytes, {"OK"})
    \/ \E status \in {"TIMEOUT", "ABORTED", "FEATURE_ABORT"} :
         ReceiveFrame(<<Routing.STANDBY>>, {status})

-----------------------------------------------------------------------------
(* CecDevice1.SetOsdName, while the device is in use. A byte of a name is  *)
(* a letter, whatever character it is part of.                             *)

NameOperand(n) == <<Osd.SET_OSD_NAME, [i \in 1..n |-> 65]>>

\* Device::set_osd_name with an address: the name is sent to the TV as well.
SetOsdName(n) ==
    IF n > 14 THEN Err ELSE TxResult(ToFrame(Playback, Tv, NameOperand(n)))

ChangeName(n) == Converts([of |-> "osd", bytes |-> n], SetOsdName(n))

Name == \E n \in 0..15 : ChangeName(n)

-----------------------------------------------------------------------------

Convert == Compose \/ Receive \/ Name \/ Next

ConvertSpec == Init /\ [][Convert]_vars

-----------------------------------------------------------------------------
(* Properties.                                                             *)

\* A message is sent with the length that len() says, and unless its frame is
\* sixteen bytes long, what the receiver decodes is the message that was sent.
ComposedArrives ==
    input.of = "message" =>
        /\ Len(input.wire) = 1 + LenOf(Message, input.message)
        /\ Len(input.wire) < CEC_MAX_MSG_SIZE => outcome = Ok(<<"valid", input.message>>)

\* What was read from another device's frame can be sent on: it encodes to no
\* more bytes than came in, as many as len() says, and decodes to itself.
\* An unreadable frame is kept byte by byte.
ForeignStable ==
    input.of = "frame" /\ outcome.is = "ok" =>
        LET kind == outcome.val[1]
            m    == outcome.val[2]
        IN  IF kind = "invalid" THEN m = Tail(input.wire)
            ELSE LET bytes == Encode(Message, m) IN
                 /\ Len(bytes) = LenOf(Message, m)
                 /\ Len(bytes) <= Len(input.wire) - 1
                 /\ Decode(Message, bytes) = Ok(m)

\* "The maximum length allowed is only 14 bytes" (linux-cec/src/device.rs:607):
\* a name of at most that length is accepted.
OsdNameAccepted == input.of = "osd" /\ input.bytes <= 14 => outcome.is = "ok"

=============================================================================
