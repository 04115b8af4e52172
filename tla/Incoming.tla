------------------------------ MODULE Incoming ------------------------------
(***************************************************************************)
(* What DeviceTask does with a message that arrives (handle_message): the  *)
(* virtual keyboard, the audio system's address, the active source, the    *)
(* client that handles an opcode and its time limit, and the reply with    *)
(* its retries. The task does one thing at a time: the next message, or a  *)
(* reload of the configuration, waits until this one has been dealt with.  *)
(***************************************************************************)
EXTENDS Integers, FiniteSets

CONSTANTS
    Commands,      \* what a remote control can say (UiCommand)
    Mappings,      \* configured mappings: functions from some Commands to keys
    Initiators,    \* the other devices on the bus, the TV among them
    Tv,
    REPLY_RETRIES

ASSUME IncomingAssumption == Tv \in Initiators /\ REPLY_RETRIES \in Nat \ {0}

VARIABLES
    uinput,        \* the virtual device: open or not, and its mapping
    held,          \* the keys that the input subsystem sees held down on it
    activeKey,     \* active_key: the last command pressed, or none ({})
    config,        \* the configuration: uinput, mappings and allow_standby
    reload,        \* a ReloadConfig waits for the task
    active,        \* whether this is the active source
    awaiting,      \* awaiting_wake
    audio,         \* audio_log_addr
    cachedAudio,   \* the same, as D-Bus shows it
    handler,       \* whether a client handles the other opcodes
    job,           \* the message in hand: "idle", "remote" or "reply"
    verdict        \* what has become of the last message

vars == <<uinput, held, activeKey, config, reload, active, awaiting, audio,
          cachedAudio, handler, job, verdict>>

keyVars    == <<uinput, held, activeKey>>
outerVars  == <<config, reload, handler>>
sourceVars == <<active, awaiting, audio, cachedAudio>>

Closed == [open |-> FALSE, map |-> <<>>]
Idle   == [st |-> "idle"]

\* A message is for this device or for all.
Messages ==
    [op : {"press"}, key : Commands, from : Initiators, to : {"me"}]
        \cup [op : {"release", "power", "abort", "other"}, from : Initiators, to : {"me"}]
        \cup [op : {"standby", "other", "request"}, from : Initiators, to : {"me", "all"}]
        \cup [op : {"path", "source", "routing"}, ours : BOOLEAN, from : Initiators, to : {"all"}]
        \cup [op : {"audio"}, status : BOOLEAN, from : Initiators, to : {"me", "all"}]

Configs == [uinput : BOOLEAN, map : Mappings, allowStandby : BOOLEAN]

NoVerdict == [ended |-> FALSE, directed |-> FALSE, accepted |-> FALSE, aborts |-> FALSE,
              acks |-> 0, tries |-> 0, failed |-> FALSE]

\* configure_uinput, for a mapping that may turn out not to be usable.
Opened(map) == [open |-> TRUE, map |-> map]

Init ==
    /\ config \in Configs
    /\ uinput \in {Closed} \cup (IF config.uinput /\ config.map # <<>> THEN {Opened(config.map)} ELSE {})
    /\ held = {} /\ activeKey = {}
    /\ reload = FALSE
    /\ active = FALSE /\ awaiting = FALSE
    /\ audio = Tv /\ cachedAudio = Tv
    /\ handler = FALSE
    /\ job = Idle
    /\ verdict = NoVerdict

-----------------------------------------------------------------------------
(* UInputDevice. A write may fail; a command without a mapping is not one. *)

Code(k) == IF k \in DOMAIN uinput.map THEN {uinput.map[k]} ELSE {}
Codes(ks) == UNION {Code(k) : k \in ks}

\* The message has been dealt with.
Ends(m, failed) ==
    /\ job' = Idle
    /\ verdict' = [NoVerdict EXCEPT !.ended = TRUE, !.directed = (m.op = "other" /\ m.to = "me"),
                                    !.failed = failed]

Starts(m) == job = Idle /\ m \in Messages

\* Nothing is done: a signal cannot be sent, or the address cannot be read.
Dropped(m) ==
    /\ Starts(m)
    /\ Ends(m, TRUE)
    /\ UNCHANGED <<keyVars, outerVars, sourceVars>>

\* The old key goes up and the new one down.
PressKey(k) ==
    /\ activeKey' = {k}
    /\ held' = (held \ Codes(activeKey)) \cup Code(k)

Press(m) ==
    /\ Starts(m) /\ m.op = "press"
    /\ \/ PressKey(m.key) /\ Ends(m, FALSE)
       \/ /\ uinput.open /\ Codes(activeKey) # {}
          /\ Ends(m, TRUE)
          /\ UNCHANGED <<held, activeKey>>
       \/ /\ uinput.open /\ Code(m.key) # {}
          /\ held' = held \ Codes(activeKey)
          /\ Ends(m, TRUE)
          /\ UNCHANGED activeKey
    /\ UNCHANGED <<uinput, outerVars, sourceVars>>

Release(m) ==
    /\ Starts(m) /\ m.op = "release"
    /\ \/ /\ held' = held \ Codes(activeKey)
          /\ activeKey' = {}
          /\ Ends(m, FALSE)
       \/ /\ uinput.open /\ Codes(activeKey) # {}
          /\ Ends(m, TRUE)
          /\ UNCHANGED <<held, activeKey>>
    /\ UNCHANGED <<uinput, outerVars, sourceVars>>

Reopened_InPlace(map) == uinput' = Opened(map) /\ UNCHANGED held

\* A new virtual device; destroying the old one lifts its keys.
Reopened(map) == uinput' = Opened(map) /\ held' = {}

\* ReloadConfig: configure_dev, then configure_uinput, each of which may fail.
Reload ==
    /\ job = Idle /\ reload
    /\ reload' = FALSE
    /\ \/ UNCHANGED <<uinput, held>>
       \/ uinput' = Closed /\ held' = {}
       \/ config.uinput /\ config.map # <<>> /\ Reopened(config.map)
    /\ UNCHANGED <<activeKey, config, handler, sourceVars, job, verdict>>

-----------------------------------------------------------------------------
(* Messages about sources, audio and power.                                *)

\* The message is to be answered.
Replies(m, to, abort) ==
    job' = [st |-> "reply", msg |-> m, to |-> to, tries |-> 0]
    /\ verdict' = [NoVerdict EXCEPT !.directed = (m.op = "other" /\ m.to = "me"), !.aborts = abort]

PowerStatus(m) ==
    /\ Starts(m) /\ m.op = "power"
    /\ Replies(m, m.from, FALSE)
    /\ UNCHANGED <<keyVars, outerVars, sourceVars>>

\* A property takes another value, and the signal that says so may fail.
Announced(m, changes) == \E failed \in BOOLEAN : (failed => changes) /\ Ends(m, failed)

SetStreamPath(m) ==
    /\ Starts(m) /\ m.op = "path"
    /\ active' = m.ours
    /\ \/ m.ours /\ Replies(m, "all", FALSE)
       \/ m.ours /\ ~active /\ Ends(m, TRUE)
       \/ ~m.ours /\ Announced(m, active)
    /\ UNCHANGED <<keyVars, outerVars, awaiting, audio, cachedAudio>>

\* ActiveSource and RoutingChange; the latter also ends the wait for a wake-up.
SourceChange(m) ==
    /\ Starts(m) /\ m.op \in {"source", "routing"}
    /\ active' = m.ours
    /\ awaiting' = IF m.op = "routing" /\ m.ours THEN FALSE ELSE awaiting
    /\ Announced(m, active # m.ours)
    /\ UNCHANGED <<keyVars, outerVars, audio, cachedAudio>>

RequestActiveSource(m) ==
    /\ Starts(m) /\ m.op = "request"
    /\ awaiting \/ active
    /\ Replies(m, "all", FALSE)
    /\ UNCHANGED <<keyVars, outerVars, sourceVars>>

\* SetSystemAudioMode and SystemAudioModeStatus.
AudioMode(m) ==
    /\ Starts(m) /\ m.op = "audio"
    /\ audio' = IF m.status THEN m.from ELSE Tv
    /\ cachedAudio' = audio'
    /\ Announced(m, cachedAudio # audio')
    /\ UNCHANGED <<keyVars, outerVars, active, awaiting>>

\* Standby, if the configuration allows it: suspend may fail.
Standby(m) ==
    /\ Starts(m) /\ m.op = "standby" /\ config.allowStandby
    /\ \/ Ends(m, FALSE)
       \/ Replies(m, m.from, TRUE)
    /\ UNCHANGED <<keyVars, outerVars, sourceVars>>

-----------------------------------------------------------------------------
(* The other messages.                                                     *)

\* What none of the branches above takes.
Unclaimed(m) ==
    \/ m.op = "other"
    \/ m.op = "standby" /\ ~config.allowStandby
    \/ m.op = "request" /\ ~awaiting /\ ~active

\* A FeatureAbort, or a broadcast that nobody asked for, ends here.
Ignore(m) ==
    /\ Starts(m)
    /\ m.op = "abort" \/ (Unclaimed(m) /\ m.to = "all")
    /\ Ends(m, FALSE)
    /\ UNCHANGED <<keyVars, outerVars, sourceVars>>

\* Without a client the opcode is refused, with one the client is called.
Other(m) ==
    /\ Starts(m) /\ Unclaimed(m) /\ m.to = "me"
    /\ IF handler
       THEN /\ job' = [st |-> "remote", msg |-> m]
            /\ verdict' = [NoVerdict EXCEPT !.directed = (m.op = "other")]
       ELSE Replies(m, m.from, TRUE)
    /\ UNCHANGED <<keyVars, outerVars, sourceVars>>

\* The client answers in time: it has handled the message, or it has not (an
\* abort reason, an error, or it has left the bus).
ClientAccepts ==
    /\ job.st = "remote"
    /\ job' = Idle
    /\ verdict' = [verdict EXCEPT !.ended = TRUE, !.accepted = TRUE]
    /\ UNCHANGED <<keyVars, outerVars, sourceVars>>

Abort ==
    /\ job' = [st |-> "reply", msg |-> job.msg, to |-> job.msg.from, tries |-> 0]
    /\ verdict' = [verdict EXCEPT !.aborts = TRUE]
    /\ UNCHANGED <<keyVars, outerVars, sourceVars>>

ClientRefuses == job.st = "remote" /\ Abort

Timeout_Never == FALSE /\ UNCHANGED vars

\* The client takes too long; whatever it answers later is not heard.
Timeout == job.st = "remote" /\ Abort

-----------------------------------------------------------------------------
(* The reply.                                                              *)

\* From<CEC_TX_STATUS> for Error: the first of these that is set. No status
\* becomes TxError::UnknownError, TxError::Aborted or TxError::Timeout.
TxErrorOf(status) ==
    CASE "TIMEOUT" \in status     -> "Timeout"
      [] "ABORTED" \in status     -> "Abort"
      [] "ARB_LOST" \in status    -> "TxError::ArbLost"
      [] "NACK" \in status        -> "TxError::Nack"
      [] "LOW_DRIVE" \in status   -> "TxError::LowDrive"
      [] "MAX_RETRIES" \in status -> "TxError::MaxRetries"
      [] OTHER                    -> "UnknownError"

\* From<Errno> for Error
ErrnoErrorOf(errno) ==
    CASE errno = "ENONET" -> "NoLogicalAddress"
      [] errno = "ENODEV" -> "Disconnected"
      [] OTHER            -> "SystemError"

TxStatuses == {{"ARB_LOST", "MAX_RETRIES"}, {"NACK", "MAX_RETRIES"}, {"LOW_DRIVE", "MAX_RETRIES"},
               {"ERROR", "MAX_RETRIES"}, {"ERROR"}, {"ABORTED"}, {"TIMEOUT"}}

TxErrors == {TxErrorOf(s) : s \in TxStatuses} \cup {ErrnoErrorOf(e) : e \in {"ENONET", "ENODEV", "EBUSY"}}

IsRetried(error) == error \in {"TxError::UnknownError", "TxError::Aborted"}

ReplySent_GoesOn ==
    /\ job.st = "reply"
    /\ job' = IF job.tries = REPLY_RETRIES - 1 THEN Idle ELSE [job EXCEPT !.tries = @ + 1]
    /\ verdict' = [verdict EXCEPT !.acks = @ + 1, !.tries = @ + 1, !.ended = (job' = Idle)]
    /\ UNCHANGED <<keyVars, outerVars, sourceVars>>

ReplySent ==
    /\ job.st = "reply"
    /\ job' = Idle
    /\ verdict' = [verdict EXCEPT !.acks = @ + 1, !.tries = @ + 1, !.ended = TRUE]
    /\ UNCHANGED <<keyVars, outerVars, sourceVars>>

ReplyFails(error) ==
    /\ job.st = "reply"
    /\ IF job.tries = REPLY_RETRIES - 1 \/ ~IsRetried(error)
       THEN /\ job' = Idle
            /\ verdict' = [verdict EXCEPT !.tries = @ + 1, !.ended = TRUE, !.failed = TRUE]
       ELSE /\ job' = [job EXCEPT !.tries = @ + 1]
            /\ verdict' = [verdict EXCEPT !.tries = @ + 1]
    /\ UNCHANGED <<keyVars, outerVars, sourceVars>>

Reply == ReplySent \/ \E error \in TxErrors : ReplyFails(error)

-----------------------------------------------------------------------------
(* What else happens meanwhile.                                            *)

\* set_config replaces the configuration and tells the task.
NewConfig ==
    /\ config' \in Configs
    /\ reload' = TRUE
    /\ UNCHANGED <<keyVars, handler, sourceVars, job, verdict>>

\* A client registers or unregisters.
Register ==
    /\ handler' = ~handler
    /\ UNCHANGED <<keyVars, config, reload, sourceVars, job, verdict>>

\* The task wakes the TV, or gives that up because the adapter has gone.
Wakes ==
    /\ job = Idle /\ awaiting' \in BOOLEAN
    /\ UNCHANGED <<keyVars, outerVars, active, audio, cachedAudio, job, verdict>>

\* This device becomes the active source on its own account.
PendingActivate ==
    /\ job = Idle /\ active' = TRUE
    /\ UNCHANGED <<keyVars, outerVars, awaiting, audio, cachedAudio, job, verdict>>

HandleMessage(m) ==
    \/ Dropped(m) \/ Press(m) \/ Release(m) \/ PowerStatus(m) \/ SetStreamPath(m)
    \/ SourceChange(m) \/ RequestActiveSource(m) \/ AudioMode(m) \/ Standby(m)
    \/ Ignore(m) \/ Other(m)

Next ==
    \/ \E m \in Messages : HandleMessage(m)
    \/ ClientAccepts \/ ClientRefuses \/ Timeout \/ Reply
    \/ Reload \/ NewConfig \/ Register \/ Wakes \/ PendingActivate

\* The timer of the select! fires, and a transmission ends one way or another.
Fairness == WF_vars(Timeout) /\ WF_vars(Reply)

Spec == Init /\ [][Next]_vars /\ Fairness

-----------------------------------------------------------------------------
(* Properties.                                                             *)

\* A key that is held down on the virtual keyboard is the one that the last
\* command pressed is mapped to now, so that a release, the next press or a
\* reload lifts it: neither a failed write, nor a reload between a press and its
\* release with other mappings, leaves a key that nothing will lift.
HeldIsActive == held \subseteq Codes(activeKey)

\* No message is answered twice, retries included. A message for this device
\* that cecd does not know ends in exactly one way: a client took it within its
\* time, a FeatureAbort was sent, or the task reports an error.
OneVerdict ==
    /\ verdict.acks <= 1
    /\ verdict.ended /\ verdict.directed =>
         Cardinality({w \in {"accepted", "aborted", "failed"} :
                        \/ w = "accepted" /\ verdict.accepted
                        \/ w = "aborted" /\ verdict.aborts /\ verdict.acks = 1
                        \/ w = "failed" /\ verdict.failed}) = 1

\* The task gets back to its queues: a client that never answers, and a reply
\* that cannot be sent, only take it a while.
MessagesEnd == job.st # "idle" ~> job.st = "idle"

=============================================================================
