----------------------------- MODULE Constants -----------------------------
(***************************************************************************)
(* The numbers of linux-cec-sys: one definition per section of the header. *)
(* A field of a section is an opcode (a number) or an operand: the set of  *)
(* the values the header names for it. The name of a single value is left  *)
(* out where nothing depends on it.                                        *)
(***************************************************************************)
EXTENDS Naturals

CEC_MAX_MSG_SIZE == 16
CEC_MAX_LOG_ADDRS == 4

\* Bit positions of cec_msg.tx_status and cec_msg.rx_status.
CEC_TX_STATUS == [OK |-> 0, ARB_LOST |-> 1, NACK |-> 2, LOW_DRIVE |-> 3,
    ERROR |-> 4, MAX_RETRIES |-> 5, ABORTED |-> 6, TIMEOUT |-> 7]

CEC_RX_STATUS == [OK |-> 0, TIMEOUT |-> 1, FEATURE_ABORT |-> 2, ABORTED |-> 3]

CEC_PHYS_ADDR_INVALID == \hFFFF

\* The logical addresses of each kind of device.
CEC_LOG_ADDR == [TV |-> {0}, RECORD |-> {1, 2, 9}, TUNER |-> {3, 6, 7, 10},
    PLAYBACK |-> {4, 8, 11}, AUDIOSYSTEM |-> {5}, BACKUP |-> {12, 13},
    SPECIFIC |-> {14}, UNREGISTERED |-> {15}]

CEC_LOG_ADDR_TYPE == [TV |-> 0, RECORD |-> 1, TUNER |-> 2, PLAYBACK |-> 3,
    AUDIOSYSTEM |-> 4, SPECIFIC |-> 5, UNREGISTERED |-> 6]

\* The message handling modes of a file handle, as the two halves of a byte.
CEC_MODE_INITIATOR == [NO |-> 0, INITIATOR |-> 1, EXCL |-> 2]
CEC_MODE_FOLLOWER == [NO |-> 0, FOLLOWER |-> 1, EXCL |-> 2,
    EXCL_PASSTHRU |-> 3, MONITOR_PIN |-> 13, MONITOR |-> 14, MONITOR_ALL |-> 15]

CEC_EVENT == [STATE_CHANGE |-> 1, LOST_MSGS |-> 2, PIN |-> 3..8]

-----------------------------------------------------------------------------

\* One Touch Play, Routing Control and Standby.
Routing == [ACTIVE_SOURCE |-> \h82, IMAGE_VIEW_ON |-> \h04,
    TEXT_VIEW_ON |-> \h0d, INACTIVE_SOURCE |-> \h9d,
    REQUEST_ACTIVE_SOURCE |-> \h85, ROUTING_CHANGE |-> \h80,
    ROUTING_INFORMATION |-> \h81, SET_STREAM_PATH |-> \h86, STANDBY |-> \h36]

OneTouchRecord == [RECORD_OFF |-> \h0b, RECORD_ON |-> \h09,
    RECORD_STATUS |-> \h0a, RECORD_TV_SCREEN |-> \h0f,
    RECORD_SRC |-> [OWN |-> 1, DIGITAL |-> 2, ANALOG |-> 3, EXT_PLUG |-> 4,
                    EXT_PHYS_ADDR |-> 5],
    SERVICE_ID_METHOD |-> [BY_DIG_ID |-> 0, BY_CHANNEL |-> 1],
    DIG_SERVICE_ARIB |-> {0} \cup \h08..\h0a,
    DIG_SERVICE_ATSC |-> {1} \cup \h10..\h12,
    DIG_SERVICE_DVB |-> {2} \cup \h18..\h1b,
    ANA_BCAST_TYPE |-> 0..2,
    BCAST_SYSTEM |-> 0..8 \cup {\h1f},
    CHANNEL_NUMBER_FMT |-> [PART_1 |-> 1, PART_2 |-> 2],
    STATUS_INFO |-> 1..7 \cup 9..\h0e \cup \h10..\h17 \cup {\h1a, \h1b, \h1f}]

TimerProgramming == [CLEAR_ANALOGUE_TIMER |-> \h33,
    CLEAR_DIGITAL_TIMER |-> \h99, CLEAR_EXT_TIMER |-> \ha1,
    SET_ANALOGUE_TIMER |-> \h34, SET_DIGITAL_TIMER |-> \h97,
    SET_EXT_TIMER |-> \ha2, SET_TIMER_PROGRAM_TITLE |-> \h67,
    TIMER_CLEARED_STATUS |-> \h43, TIMER_STATUS |-> \h35,
    EXT_SRC |-> {4, 5},
    TIMER_CLR_STAT |-> 0..2 \cup {\h80},
    MEDIA_INFO |-> 0..2,
    PROG_INFO |-> [ENOUGH_SPACE |-> 8, NOT_ENOUGH_SPACE |-> 9,
                   MIGHT_NOT_BE_ENOUGH_SPACE |-> \h0b, NONE_AVAILABLE |-> \h0a],
    PROG_ERROR |-> 1..\h0a \cup {\h0e},
    PROG_ERROR_DUPLICATE |-> \h0e]

SystemInformation == [CEC_VERSION |-> \h9e, GET_CEC_VERSION |-> \h9f,
    GIVE_PHYSICAL_ADDR |-> \h83, GET_MENU_LANGUAGE |-> \h91,
    REPORT_PHYSICAL_ADDR |-> \h84, SET_MENU_LANGUAGE |-> \h32,
    REPORT_FEATURES |-> \ha6, GIVE_FEATURES |-> \ha5,
    VERSION |-> 4..6,
    PRIM_DEVTYPE |-> [TV |-> 0, RECORD |-> 1, TUNER |-> 3, PLAYBACK |-> 4,
                      AUDIOSYSTEM |-> 5, SWITCH |-> 6, PROCESSOR |-> 7],
    FEAT_EXT |-> \h80,
    FEAT_RC_TV_PROFILE |-> {0, 2, 6, \h0a, \h0e},
    FEAT_RC_SRC |-> {\h50, \h48, \h44, \h42, \h41}]

DeckControlFeature == [DECK_CONTROL |-> \h42, DECK_STATUS |-> \h1b,
    GIVE_DECK_STATUS |-> \h1a, PLAY |-> \h41,
    DECK_CTL_MODE |-> 1..4,
    DECK_INFO |-> \h11..\h1f,
    STATUS_REQ |-> 1..3,
    PLAY_MODE |-> {\h20, \h24, \h25} \cup 5..7 \cup 9..\h0b
                    \cup \h15..\h17 \cup \h19..\h1b]

TunerControl == [GIVE_TUNER_DEVICE_STATUS |-> \h08,
    SELECT_ANALOGUE_SERVICE |-> \h92, SELECT_DIGITAL_SERVICE |-> \h93,
    TUNER_DEVICE_STATUS |-> \h07, TUNER_STEP_DECREMENT |-> \h06,
    TUNER_STEP_INCREMENT |-> \h05, TUNER_DISPLAY_INFO |-> 0..2]

VendorCommands == [DEVICE_VENDOR_ID |-> \h87, GIVE_DEVICE_VENDOR_ID |-> \h8c,
    VENDOR_COMMAND |-> \h89, VENDOR_COMMAND_WITH_ID |-> \ha0,
    VENDOR_REMOTE_BUTTON_DOWN |-> \h8a, VENDOR_REMOTE_BUTTON_UP |-> \h8b]

Osd == [SET_OSD_STRING |-> \h64, GIVE_OSD_NAME |-> \h46, SET_OSD_NAME |-> \h47,
    DISP_CTL |-> {0, \h40, \h80}]

DeviceMenu == [MENU_REQUEST |-> \h8d, MENU_STATUS |-> \h8e,
    USER_CONTROL_PRESSED |-> \h44, USER_CONTROL_RELEASED |-> \h45,
    MENU_REQ |-> 0..2,
    MENU_STATE |-> 0..1,
    UI_CMD |-> \h00..\h0d \cup {\h10, \h11} \cup \h1d..\h2c \cup \h2f..\h38
                 \cup \h40..\h4e \cup \h50..\h5a \cup \h60..\h6d \cup \h71..\h76,
    UI_CMD_SELECT_BROADCAST_TYPE |-> \h56,
    UI_CMD_SELECT_SOUND_PRESENTATION |-> \h57,
    UI_CMD_PLAY_FUNCTION |-> \h60, UI_CMD_TUNE_FUNCTION |-> \h67,
    UI_CMD_SELECT_INPUT |-> \h68..\h6a,
    UI_BCAST_TYPE |-> {0, 1, \h10, \h20, \h30, \h40, \h50, \h60, \h70, \h80,
                       \h90, \h91, \ha0},
    UI_SND_PRES_CTL |-> {\h10, \h20, \h80, \h90, \ha0} \cup \hb1..\hb3
                          \cup \hc1..\hc3]

PowerAndAbort == [GIVE_DEVICE_POWER_STATUS |-> \h8f,
    REPORT_POWER_STATUS |-> \h90, FEATURE_ABORT |-> \h00, ABORT |-> \hff,
    POWER_STATUS |-> 0..3,
    ABORT_REASON |-> 0..5]

SystemAudio == [GIVE_AUDIO_STATUS |-> \h71,
    GIVE_SYSTEM_AUDIO_MODE_STATUS |-> \h7d, REPORT_AUDIO_STATUS |-> \h7a,
    REPORT_SHORT_AUDIO_DESCRIPTOR |-> \ha3,
    REQUEST_SHORT_AUDIO_DESCRIPTOR |-> \ha4, SET_SYSTEM_AUDIO_MODE |-> \h72,
    SYSTEM_AUDIO_MODE_REQUEST |-> \h70, SYSTEM_AUDIO_MODE_STATUS |-> \h7e,
    SET_AUDIO_VOLUME_LEVEL |-> \h73, SET_AUDIO_RATE |-> \h9a,
    AUD_FMT_ID |-> 0..1,
    AUD_RATE |-> 0..6]

ArcAndLatency == [INITIATE_ARC |-> \hc0, REPORT_ARC_INITIATED |-> \hc1,
    REPORT_ARC_TERMINATED |-> \hc2, REQUEST_ARC_INITIATION |-> \hc3,
    REQUEST_ARC_TERMINATION |-> \hc4, TERMINATE_ARC |-> \hc5,
    REQUEST_CURRENT_LATENCY |-> \ha7, REPORT_CURRENT_LATENCY |-> \ha8,
    AUD_OUT_COMPENSATED |-> 0..3]

Cdc == [CDC_MESSAGE |-> \hf8, HEC_INQUIRE_STATE |-> 0, HEC_REPORT_STATE |-> 1,
    HEC_SET_STATE_ADJACENT |-> 2, HEC_SET_STATE |-> 3,
    HEC_REQUEST_DEACTIVATION |-> 4, HEC_NOTIFY_ALIVE |-> 5, HEC_DISCOVER |-> 6,
    HPD_SET_STATE |-> \h10, HPD_REPORT_STATE |-> \h11,
    HEC_FUNC_STATE |-> 0..3, ENC_FUNC_STATE |-> 0..2, HPD_STATE |-> 0..5,
    HPD_ERROR |-> 0..4]

=============================================================================
