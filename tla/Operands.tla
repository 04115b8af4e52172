------------------------------ MODULE Operands ------------------------------
(***************************************************************************)
(* The operand types of linux-cec as data: one descriptor per Rust type.   *)
(* Codec gives the descriptors their meaning (OperandEncodable).           *)
(*                                                                         *)
(* A value is a number (an enumeration or a set of flags is known by its   *)
(* bits) or a tuple of values.                                             *)
(***************************************************************************)
EXTENDS Constants, Integers, Sequences

\* lib.rs's Range: the lengths (or values) a check accepts.
AtMost(n)          == [kind |-> "AtMost", bound |-> {n}]
AtLeast(n)         == [kind |-> "AtLeast", bound |-> {n}]
Only(ns)           == [kind |-> "Only", bound |-> ns]
Interval(min, max) == [kind |-> "Interval", bound |-> {min, max}]

Check(range, n) ==
    CASE range.kind = "AtMost"   -> \A max \in range.bound : n <= max
      [] range.kind = "AtLeast"  -> \A min \in range.bound : n >= min
      [] range.kind = "Only"     -> n \in range.bound
      [] range.kind = "Interval" -> /\ \E min \in range.bound : n >= min
                                    /\ \E max \in range.bound : n <= max

u8Values == 0..255

-----------------------------------------------------------------------------
(* The shapes of operands.                                                 *)

\* One byte that must be one of ok and is kept as it is.
Byte(ok) == [kind |-> "byte", ok |-> ok]
u8 == Byte(u8Values)

\* One byte, read as zero or not.
bool == [kind |-> "bool"]

\* n bytes read as one number whose bits are cut into fields, the highest
\* first. Only the fields in keep are read; the tuple of fields must be in ok.
Packed(n, widths, keep, ok) ==
    [kind |-> "packed", bytes |-> n, widths |-> widths, keep |-> keep, ok |-> ok]

u16 == [kind |-> "word"]

\* [u8; S]
Array(n) == [kind |-> "array", size |-> n]

\* Fields one after the other.
Struct(fields) == [kind |-> "struct", fields |-> fields]
Unit == Struct(<<>>)

\* Option<T>: there if at least so many bytes are left.
OptionFrom(least, t) == [kind |-> "option", least |-> least, of |-> t]
Option(t) == OptionFrom(1, t)

\* BoundedBufferOperand<S, T>: as many whole elements as there are, at most S.
Bounded(S, t) == [kind |-> "bounded", max |-> S, of |-> t]
BufferOperand == Bounded(14, u8)

\* A head, and a rest whose type depends on the value of the head.
Union(least, head, rest) ==
    [kind |-> "union", least |-> least, head |-> head, rest |-> rest]

\* The number of bytes there are selects the type.
ByLength(alternatives) == [kind |-> "bylength", alternatives |-> alternatives]

\* TaggedLengthBuffer: bit 7 of a byte says that another one follows. first
\* maps the low bits of the first byte to a variant and the bits it keeps.
Tagged(first) == [kind |-> "tagged", first |-> first]

-----------------------------------------------------------------------------
(* Numbers with a range of their own.                                      *)

PhysicalAddress == u16
VendorId == Array(3)
AnalogueFrequency == u16
ShortAudioDescriptor == Array(3)

Delay == Byte({b \in u8Values : Check(Interval(1, 251), b)})

AudioVolumeLevel == Byte({\h7F} \cup {b \in u8Values : Check(Interval(0, 100), b)})

BcdByte(min, max) ==
    Byte({b \in u8Values : /\ Check(Interval(0, 9), b % 16)
                           /\ Check(Interval(0, 9), b \div 16)
                           /\ Check(Interval(min, max), (b \div 16) * 10 + (b % 16))})

DurationHours == BcdByte(0, 99)
Hour == BcdByte(0, 23)
Minute == BcdByte(0, 59)

-----------------------------------------------------------------------------
(* Enumerations and flags.                                                 *)

AbortReason == Byte(PowerAndAbort.ABORT_REASON)
AnalogueBroadcastType == Byte(OneTouchRecord.ANA_BCAST_TYPE)
AudioRate == Byte(SystemAudio.AUD_RATE)
BroadcastSystem == Byte(OneTouchRecord.BCAST_SYSTEM)
DayOfMonth == Byte(1..31)
DeckControlMode == Byte(DeckControlFeature.DECK_CTL_MODE)
DeckInfo == Byte(DeckControlFeature.DECK_INFO)
DisplayControl == Byte(Osd.DISP_CTL)
MenuRequestType == Byte(DeviceMenu.MENU_REQ)
MenuState == Byte(DeviceMenu.MENU_STATE)
MonthOfYear == Byte(1..12)
PlayMode == Byte(DeckControlFeature.PLAY_MODE)
PowerStatus == Byte(PowerAndAbort.POWER_STATUS)
PrimaryDeviceType == Byte({SystemInformation.PRIM_DEVTYPE[d] :
                           d \in DOMAIN SystemInformation.PRIM_DEVTYPE})
RecordStatusInfo == Byte(OneTouchRecord.STATUS_INFO)
StatusRequest == Byte(DeckControlFeature.STATUS_REQ)
TimerClearedStatusData == Byte(TimerProgramming.TIMER_CLR_STAT)
UiBroadcastType == Byte(DeviceMenu.UI_BCAST_TYPE)
UiSoundPresentationControl == Byte(DeviceMenu.UI_SND_PRES_CTL)

\* The versions before 1.3a are not in the specification.
Version == Byte(0..3 \cup SystemInformation.VERSION)

\* bitflags and bitfields retain every bit of their byte.
AllDeviceTypes == u8
RecordingSequence == u8
AudioFormatIdAndCode == u8
AudioStatus == u8
LatencyFlags == u8
HecState == u8
InputPortHpdState == u8
HpdStateErrorCode == u8

-----------------------------------------------------------------------------
(* Composite operands.                                                     *)

Time == Struct(<<Hour, Minute>>)
Duration == Struct(<<DurationHours, Minute>>)

AnalogueServiceId ==
    Struct(<<AnalogueBroadcastType, AnalogueFrequency, BroadcastSystem>>)

AribData == Struct(<<u16, u16, u16>>)
DvbData == Struct(<<u16, u16, u16>>)

\* The last word of an ATSC service is zero.
Zero == Packed(2, <<8, 8>>, {1, 2}, {<<0, 0>>})
AtscData == Struct(<<u16, u16, Zero>>)

\* A format, and one number or two. With one number the other ten bits are
\* not looked at.
ChannelId == [kind |-> "channel"]

Method == OneTouchRecord.SERVICE_ID_METHOD
DigitalServiceBroadcastSystem ==
    OneTouchRecord.DIG_SERVICE_ARIB \cup OneTouchRecord.DIG_SERVICE_ATSC
        \cup OneTouchRecord.DIG_SERVICE_DVB

\* The method is the top bit of the byte that holds the broadcast system.
DigitalHead ==
    Packed(1, <<1, 7>>, {1, 2},
           {Method.BY_DIG_ID, Method.BY_CHANNEL} \X DigitalServiceBroadcastSystem)

DigitalServiceId ==
    Union(7, DigitalHead, [f \in DigitalHead.ok |->
        CASE f[1] = Method.BY_CHANNEL                 -> Struct(<<ChannelId, u16>>)
          [] f[2] \in OneTouchRecord.DIG_SERVICE_ARIB -> AribData
          [] f[2] \in OneTouchRecord.DIG_SERVICE_ATSC -> AtscData
          [] f[2] \in OneTouchRecord.DIG_SERVICE_DVB  -> DvbData])

\* Overlap, medium, programmed or not, and what came of it. The duration is
\* there if both of its bytes are.
ProgrammedInfo == {TimerProgramming.PROG_INFO[i] : i \in DOMAIN TimerProgramming.PROG_INFO}
NotProgrammedErrorInfo == TimerProgramming.PROG_ERROR

TimerHead ==
    Packed(1, <<1, 2, 1, 4>>, 1..4,
           ({0, 1} \X TimerProgramming.MEDIA_INFO \X {1} \X ProgrammedInfo)
           \cup ({0, 1} \X TimerProgramming.MEDIA_INFO \X {0} \X NotProgrammedErrorInfo))

DurationAvailable(f) ==
    IF f[3] = 1
    THEN f[4] \in {TimerProgramming.PROG_INFO.NOT_ENOUGH_SPACE,
                   TimerProgramming.PROG_INFO.MIGHT_NOT_BE_ENOUGH_SPACE}
    ELSE f[4] = TimerProgramming.PROG_ERROR_DUPLICATE

TimerStatusData ==
    Union(1, TimerHead, [f \in TimerHead.ok |->
        IF DurationAvailable(f) THEN OptionFrom(2, Duration) ELSE Unit])

TunerHead ==
    Packed(1, <<1, 7>>, {1, 2}, {0, 1} \X TunerControl.TUNER_DISPLAY_INFO)

\* recording, display info and a service: analogue or digital by its length.
TunerDeviceInfo ==
    ByLength([n \in {5, 8} |->
        Struct(<<TunerHead, IF n = 5 THEN AnalogueServiceId ELSE DigitalServiceId>>)])

ExternalSource == ByLength([n \in {1, 2} |-> IF n = 1 THEN u8 ELSE PhysicalAddress])

Src == OneTouchRecord.RECORD_SRC
RecordSourceType == Byte({Src[s] : s \in DOMAIN Src})

RecordSource ==
    Union(1, RecordSourceType, [s \in RecordSourceType.ok |->
        CASE s = Src.OWN           -> Unit
          [] s = Src.DIGITAL       -> DigitalServiceId
          [] s = Src.ANALOG        -> AnalogueServiceId
          [] s = Src.EXT_PLUG      -> u8
          [] s = Src.EXT_PHYS_ADDR -> PhysicalAddress])

\* Seven of the commands have a parameter, which may be missing.
UiCommand ==
    Union(1, Byte(DeviceMenu.UI_CMD), [c \in DeviceMenu.UI_CMD |->
        CASE c = DeviceMenu.UI_CMD_SELECT_BROADCAST_TYPE -> Option(UiBroadcastType)
          [] c = DeviceMenu.UI_CMD_SELECT_SOUND_PRESENTATION ->
                Option(UiSoundPresentationControl)
          [] c = DeviceMenu.UI_CMD_PLAY_FUNCTION -> Option(PlayMode)
          [] c = DeviceMenu.UI_CMD_TUNE_FUNCTION -> Option(ChannelId)
          [] c \in DeviceMenu.UI_CMD_SELECT_INPUT -> Option(u8)
          [] OTHER -> Unit])

\* from_bits_retain
DeviceFeatures == Tagged([f \in 0..127 |-> <<"features", f>>])

\* Bit 6 tells a source from a TV, whose profile is the low four bits.
RcProfile1 ==
    [f \in {f \in 0..127 : f >= 64 \/ f % 16 \in SystemInformation.FEAT_RC_TV_PROFILE} |->
        IF f >= 64 THEN <<"source", f>> ELSE <<"tv", f % 16>>]
RcProfile == Tagged(RcProfile1)

\* Fourteen inputs and an output; the top bit means nothing.
HecField == Packed(2, <<1, 1, 14>>, {2, 3}, {0} \X {0, 1} \X (0..16383))

=============================================================================
