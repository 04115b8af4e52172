------------------------------ MODULE Messages ------------------------------
(***************************************************************************)
(* The message tables: for each opcode the fields that follow it and how   *)
(* the message may be addressed. One definition per feature of the enum    *)
(* Message, and the enum of CDC messages, which are the operand of one.    *)
(***************************************************************************)
EXTENDS Operands, TLC

\* A variant of the enum: its addressing attribute and its fields.
Direct(fields)    == [to |-> "direct", fields |-> fields]
Broadcast(fields) == [to |-> "broadcast", fields |-> fields]
Either(fields)    == [to |-> "either", fields |-> fields]

CdcMessages ==
    Cdc.HEC_INQUIRE_STATE        :> Direct(<<PhysicalAddress, PhysicalAddress>>)
 @@ Cdc.HEC_REPORT_STATE         :> Direct(<<PhysicalAddress, HecState, Option(HecField)>>)
 @@ Cdc.HEC_SET_STATE_ADJACENT   :> Direct(<<PhysicalAddress, bool>>)
 @@ Cdc.HEC_SET_STATE            :> Direct(<<PhysicalAddress, PhysicalAddress, bool,
                                             Bounded(3, PhysicalAddress)>>)
 @@ Cdc.HEC_REQUEST_DEACTIVATION :> Direct(<<PhysicalAddress, PhysicalAddress,
                                             PhysicalAddress>>)
 @@ Cdc.HEC_NOTIFY_ALIVE         :> Direct(<<>>)
 @@ Cdc.HEC_DISCOVER             :> Direct(<<>>)
 @@ Cdc.HPD_SET_STATE            :> Direct(<<InputPortHpdState>>)
 @@ Cdc.HPD_REPORT_STATE         :> Direct(<<HpdStateErrorCode>>)

\* A message as an operand: its opcode selects its fields.
MessageOf(table) == [kind |-> "message", table |-> table]

RoutingMessages ==
    Routing.ACTIVE_SOURCE         :> Broadcast(<<PhysicalAddress>>)
 @@ Routing.IMAGE_VIEW_ON         :> Direct(<<>>)
 @@ Routing.TEXT_VIEW_ON          :> Direct(<<>>)
 @@ Routing.INACTIVE_SOURCE       :> Direct(<<PhysicalAddress>>)
 @@ Routing.REQUEST_ACTIVE_SOURCE :> Broadcast(<<>>)
 @@ Routing.ROUTING_CHANGE        :> Broadcast(<<PhysicalAddress, PhysicalAddress>>)
 @@ Routing.ROUTING_INFORMATION   :> Broadcast(<<PhysicalAddress>>)
 @@ Routing.SET_STREAM_PATH       :> Broadcast(<<PhysicalAddress>>)
 @@ Routing.STANDBY               :> Either(<<>>)

\* When and how often a timer records.
When == <<DayOfMonth, MonthOfYear, Time, Duration, RecordingSequence>>

RecordAndTimerMessages ==
    OneTouchRecord.RECORD_OFF                :> Direct(<<>>)
 @@ OneTouchRecord.RECORD_ON                 :> Direct(<<RecordSource>>)
 @@ OneTouchRecord.RECORD_STATUS             :> Direct(<<RecordStatusInfo>>)
 @@ OneTouchRecord.RECORD_TV_SCREEN          :> Direct(<<>>)
 @@ TimerProgramming.CLEAR_ANALOGUE_TIMER    :> Direct(When \o <<AnalogueServiceId>>)
 @@ TimerProgramming.CLEAR_DIGITAL_TIMER     :> Direct(When \o <<DigitalServiceId>>)
 @@ TimerProgramming.CLEAR_EXT_TIMER         :> Direct(When \o <<ExternalSource>>)
 @@ TimerProgramming.SET_ANALOGUE_TIMER      :> Direct(When \o <<AnalogueServiceId>>)
 @@ TimerProgramming.SET_DIGITAL_TIMER       :> Direct(When \o <<DigitalServiceId>>)
 @@ TimerProgramming.SET_EXT_TIMER           :> Direct(When \o <<ExternalSource>>)
 @@ TimerProgramming.SET_TIMER_PROGRAM_TITLE :> Direct(<<BufferOperand>>)
 @@ TimerProgramming.TIMER_CLEARED_STATUS    :> Direct(<<TimerClearedStatusData>>)
 @@ TimerProgramming.TIMER_STATUS            :> Direct(<<TimerStatusData>>)

InformationMessages ==
    SystemInformation.CEC_VERSION          :> Direct(<<Version>>)
 @@ SystemInformation.GET_CEC_VERSION      :> Direct(<<>>)
 @@ SystemInformation.GIVE_PHYSICAL_ADDR   :> Direct(<<>>)
 @@ SystemInformation.GET_MENU_LANGUAGE    :> Direct(<<>>)
 @@ SystemInformation.REPORT_PHYSICAL_ADDR :> Broadcast(<<PhysicalAddress, PrimaryDeviceType>>)
 @@ SystemInformation.SET_MENU_LANGUAGE    :> Broadcast(<<Array(3)>>)

DeckAndTunerMessages ==
    DeckControlFeature.DECK_CONTROL        :> Direct(<<DeckControlMode>>)
 @@ DeckControlFeature.DECK_STATUS         :> Direct(<<DeckInfo>>)
 @@ DeckControlFeature.GIVE_DECK_STATUS    :> Direct(<<StatusRequest>>)
 @@ DeckControlFeature.PLAY                :> Direct(<<PlayMode>>)
 @@ TunerControl.GIVE_TUNER_DEVICE_STATUS  :> Direct(<<StatusRequest>>)
 @@ TunerControl.SELECT_ANALOGUE_SERVICE   :> Direct(<<AnalogueServiceId>>)
 @@ TunerControl.SELECT_DIGITAL_SERVICE    :> Direct(<<DigitalServiceId>>)
 @@ TunerControl.TUNER_DEVICE_STATUS       :> Direct(<<TunerDeviceInfo>>)
 @@ TunerControl.TUNER_STEP_DECREMENT      :> Direct(<<>>)
 @@ TunerControl.TUNER_STEP_INCREMENT      :> Direct(<<>>)

VendorAndOsdMessages ==
    VendorCommands.DEVICE_VENDOR_ID          :> Broadcast(<<VendorId>>)
 @@ VendorCommands.GIVE_DEVICE_VENDOR_ID     :> Direct(<<>>)
 @@ VendorCommands.VENDOR_COMMAND            :> Direct(<<BufferOperand>>)
 @@ VendorCommands.VENDOR_COMMAND_WITH_ID    :> Either(<<VendorId, Bounded(11, u8)>>)
 @@ VendorCommands.VENDOR_REMOTE_BUTTON_DOWN :> Either(<<BufferOperand>>)
 @@ VendorCommands.VENDOR_REMOTE_BUTTON_UP   :> Either(<<>>)
 @@ Osd.SET_OSD_STRING                       :> Direct(<<DisplayControl, Bounded(13, u8)>>)
 @@ Osd.GIVE_OSD_NAME                        :> Direct(<<>>)
 @@ Osd.SET_OSD_NAME                         :> Direct(<<BufferOperand>>)

ControlAndPowerMessages ==
    DeviceMenu.MENU_REQUEST                :> Direct(<<MenuRequestType>>)
 @@ DeviceMenu.MENU_STATUS                 :> Direct(<<MenuState>>)
 @@ DeviceMenu.USER_CONTROL_PRESSED        :> Direct(<<UiCommand>>)
 @@ DeviceMenu.USER_CONTROL_RELEASED       :> Direct(<<>>)
 @@ PowerAndAbort.GIVE_DEVICE_POWER_STATUS :> Direct(<<>>)
 @@ PowerAndAbort.REPORT_POWER_STATUS      :> Either(<<PowerStatus>>)
 @@ PowerAndAbort.FEATURE_ABORT            :> Direct(<<u8, AbortReason>>)
 @@ PowerAndAbort.ABORT                    :> Direct(<<>>)

AudioMessages ==
    SystemAudio.GIVE_AUDIO_STATUS              :> Direct(<<>>)
 @@ SystemAudio.GIVE_SYSTEM_AUDIO_MODE_STATUS  :> Direct(<<>>)
 @@ SystemAudio.REPORT_AUDIO_STATUS            :> Direct(<<AudioStatus>>)
 @@ SystemAudio.REPORT_SHORT_AUDIO_DESCRIPTOR  :> Direct(<<Bounded(4, ShortAudioDescriptor)>>)
 @@ SystemAudio.REQUEST_SHORT_AUDIO_DESCRIPTOR :> Direct(<<Bounded(4, AudioFormatIdAndCode)>>)
 @@ SystemAudio.SET_SYSTEM_AUDIO_MODE          :> Either(<<bool>>)
 @@ SystemAudio.SYSTEM_AUDIO_MODE_REQUEST      :> Direct(<<PhysicalAddress>>)
 @@ SystemAudio.SYSTEM_AUDIO_MODE_STATUS       :> Direct(<<bool>>)
 @@ SystemAudio.SET_AUDIO_RATE                 :> Direct(<<AudioRate>>)
 @@ SystemAudio.SET_AUDIO_VOLUME_LEVEL         :> Direct(<<AudioVolumeLevel>>)

HdmiMessages ==
    ArcAndLatency.INITIATE_ARC             :> Direct(<<>>)
 @@ ArcAndLatency.REPORT_ARC_INITIATED     :> Direct(<<>>)
 @@ ArcAndLatency.REPORT_ARC_TERMINATED    :> Direct(<<>>)
 @@ ArcAndLatency.REQUEST_ARC_INITIATION   :> Direct(<<>>)
 @@ ArcAndLatency.REQUEST_ARC_TERMINATION  :> Direct(<<>>)
 @@ ArcAndLatency.TERMINATE_ARC            :> Direct(<<>>)
 @@ Cdc.CDC_MESSAGE                        :> Broadcast(<<PhysicalAddress,
                                                          MessageOf(CdcMessages)>>)
 @@ SystemInformation.REPORT_FEATURES      :> Broadcast(<<Version, AllDeviceTypes, RcProfile,
                                                          DeviceFeatures>>)
 @@ SystemInformation.GIVE_FEATURES        :> Direct(<<>>)
 @@ ArcAndLatency.REQUEST_CURRENT_LATENCY  :> Broadcast(<<PhysicalAddress>>)
 @@ ArcAndLatency.REPORT_CURRENT_LATENCY   :> Broadcast(<<PhysicalAddress, Delay, LatencyFlags,
                                                          Option(Delay)>>)

AllMessages ==
    RoutingMessages @@ RecordAndTimerMessages @@ InformationMessages @@ DeckAndTunerMessages
        @@ VendorAndOsdMessages @@ ControlAndPowerMessages @@ AudioMessages @@ HdmiMessages

\* can_directly_address, can_broadcast
CanDirectlyAddress(opcode) == AllMessages[opcode].to \in {"direct", "either"}
CanBroadcast(opcode)       == AllMessages[opcode].to \in {"broadcast", "either"}

=============================================================================
