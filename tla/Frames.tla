------------------------------- MODULE Frames -------------------------------
(***************************************************************************)
(* Device's conversions between messages and what the kernel is given or   *)
(* gives: frames (cec_msg) and receive statuses.                           *)
(* A frame is its bytes, the first of which names initiator and            *)
(* destination.                                                            *)
(***************************************************************************)
EXTENDS Codec

Message == MessageOf(AllMessages)

Smaller(x, y) == IF x < y THEN x ELSE y

\* cec_msg::new and tx_rx_message: at most 15 bytes follow the first one.
ToFrame(initiator, destination, m) ==
    LET bytes == Encode(Message, m) IN
    <<initiator * 16 + destination>> \o SubSeq(bytes, 1, Smaller(Len(bytes), CEC_MAX_MSG_SIZE - 1))

\* MessageData::Invalid keeps the bytes in an array of 14.
Invalid(bytes) == IF Len(bytes) > 14 THEN Panic ELSE Ok(<<"invalid", bytes>>)

MessageData(bytes) ==
    LET r == Decode(Message, bytes) IN
    CASE r.is = "ok"    -> Ok(<<"valid", r.val>>)
      [] r.is = "error" -> Invalid(bytes)
      [] r.is = "panic" -> Panic

Envelope_AcceptsFull(frame, status) ==
    IF status \cap {"TIMEOUT", "ABORTED", "FEATURE_ABORT"} # {} THEN Err
    ELSE IF Len(frame) \notin 2..16 THEN Err
    ELSE MessageData(Tail(frame))

\* TryFrom<cec_msg> for Envelope: the sixteenth byte of a frame is one too many.
Envelope(frame, status) ==
    IF status \cap {"TIMEOUT", "ABORTED", "FEATURE_ABORT"} # {} THEN Err
    ELSE IF Len(frame) \notin 2..15 THEN Err
    ELSE MessageData(Tail(frame))

\* What tx_message makes of its own frame after a successful transmission.
TxResult(frame) == Envelope(frame, {})

=============================================================================
