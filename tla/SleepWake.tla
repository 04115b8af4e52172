----------------------------- MODULE SleepWake -----------------------------
(***************************************************************************)
(* Suspend and resume: SystemHandle::run, which follows logind's           *)
(* PrepareForSleep signals, SystemHandle::suspend, which a device task     *)
(* calls when its TV sends Standby, and the broadcast channel by which     *)
(* System tells every device task to put its TV into standby or to wake it.*)
(*                                                                         *)
(* They share System.standby and the delay inhibitor under one mutex, but  *)
(* the call of logind's Suspend is made outside it, the signal that        *)
(* answers it comes from a queue, and the device tasks act on the channel  *)
(* in their own time. logind is external: it announces a sleep, waits for  *)
(* the inhibitor, sleeps (nothing of cecd runs), wakes up and announces    *)
(* that.                                                                   *)
(***************************************************************************)
EXTENDS Naturals, Sequences

CONSTANTS
    Devices,        \* the device tasks
    Capacity,       \* slots of the broadcast channel
    SuspendMayFail, \* logind may refuse a Suspend although it is awake
    DelayExpires,   \* logind may stop waiting for the inhibitor
    MaxSuspends,    \* bound on suspends requested by the user
    MaxStandbys,    \* bound on Standby messages of the TVs
    MaxCalls        \* bound on calls of D-Bus clients and reconfigurations

ASSUME SleepWakeAssumption ==
    /\ Capacity \in Nat \ {0}
    /\ SuspendMayFail \in BOOLEAN /\ DelayExpires \in BOOLEAN
    /\ MaxSuspends \in Nat /\ MaxStandbys \in Nat /\ MaxCalls \in Nat

VARIABLES
    logind,     \* "awake", "preparing" or "asleep"
    signals,    \* PrepareForSleep signals run() has not received yet
    standby,    \* System.standby
    inhibit,    \* System.inhibit_fd is held
    refused,    \* logind refused a Suspend since the flag was last cleared
    config,     \* the settings consulted here
    inbox,      \* what each device task has not received from the channel
    lagged,     \* the channel overwrote a message the task had not received
    pc,         \* what each device task is doing
    suspends, standbys, calls   \* counters for the bounds

system   == <<standby, inhibit, refused, config>>
channel  == <<inbox, lagged>>
counters == <<suspends, standbys, calls>>
vars     == <<logind, signals, system, channel, pc, counters>>

Configs == [allow_standby : BOOLEAN, suspend_tv : BOOLEAN]

\* What a signal says, and who asked logind for the sleep.
Signals == [sleep : {TRUE}, cause : {"user", "tv"}] \cup [sleep : {FALSE}]

\* SystemMessage. What a task transmits for wake_tv and force, and how it
\* reconfigures its adapter, is no matter here.
Wake == [type |-> "Wake"]
ReloadConfig == [type |-> "ReloadConfig"]
ReconfigureConnector == [type |-> "ReconfigureConnector"]
Standby(standby_tv) == [type |-> "Standby", standby_tv |-> standby_tv]
Messages == {Wake, ReloadConfig, ReconfigureConnector} \cup {Standby(b) : b \in BOOLEAN}

TypeOK ==
    /\ logind \in {"awake", "preparing", "asleep"}
    /\ signals \in Seq(Signals)
    /\ standby \in BOOLEAN /\ inhibit \in BOOLEAN /\ refused \in BOOLEAN
    /\ config \in Configs
    /\ inbox \in [Devices -> Seq(Messages)]
    /\ \A d \in Devices : Len(inbox[d]) <= Capacity
    /\ lagged \in [Devices -> BOOLEAN]
    /\ pc \in [Devices -> {"idle", "suspend", "call", "ended"}]
    /\ suspends \in 0..MaxSuspends
    /\ standbys \in 0..MaxStandbys
    /\ calls \in 0..MaxCalls

\* System::new takes the inhibitor. One that logind does not grant is one
\* that logind does not wait for (DelayExpires).
Init ==
    /\ logind = "awake"
    /\ signals = <<>>
    /\ standby = FALSE
    /\ inhibit = TRUE
    /\ refused = FALSE
    /\ config \in Configs
    /\ inbox = [d \in Devices |-> <<>>]
    /\ lagged = [d \in Devices |-> FALSE]
    /\ pc = [d \in Devices |-> "idle"]
    /\ suspends = 0 /\ standbys = 0 /\ calls = 0

\* cecd is frozen while the machine sleeps.
Running == logind # "asleep"

-----------------------------------------------------------------------------
(* logind.                                                                 *)

\* A sleep begins: the inhibitors are told.
Prepare(cause) ==
    /\ logind' = "preparing"
    /\ signals' = Append(signals, [sleep |-> TRUE, cause |-> cause])

\* Anyone but cecd suspends the machine. People and idle timers are slower
\* than cecd is at receiving the signals of the last time.
UserSuspend ==
    /\ logind = "awake" /\ signals = <<>>
    /\ suspends < MaxSuspends
    /\ suspends' = suspends + 1
    /\ Prepare("user")
    /\ UNCHANGED <<system, channel, pc, standbys, calls>>

\* Nobody delays the sleep any more.
Sleep ==
    /\ logind = "preparing"
    /\ ~inhibit \/ DelayExpires
    /\ logind' = "asleep"
    /\ UNCHANGED <<signals, system, channel, pc, counters>>

WakeUp ==
    /\ logind = "asleep"
    /\ logind' = "awake"
    /\ signals' = Append(signals, [sleep |-> FALSE])
    /\ UNCHANGED <<system, channel, pc, counters>>

-----------------------------------------------------------------------------
(* System.                                                                 *)

SendMessage_Unbounded(m) ==
    /\ inbox' = [d \in Devices |-> IF pc[d] = "ended" THEN <<>> ELSE Append(inbox[d], m)]
    /\ UNCHANGED lagged

\* send_message: a full channel drops its oldest message, and the receiver
\* that missed it will be told that it lags.
SendMessage(m) ==
    /\ inbox' = [d \in Devices |->
                    IF pc[d] = "ended" THEN <<>>
                    ELSE IF Len(inbox[d]) < Capacity THEN Append(inbox[d], m)
                    ELSE Append(Tail(inbox[d]), m)]
    /\ lagged' = [d \in Devices |-> \/ lagged[d]
                                    \/ pc[d] # "ended" /\ Len(inbox[d]) >= Capacity]

Received(sleep) ==
    /\ Running
    /\ signals # <<>> /\ Head(signals).sleep = sleep
    /\ signals' = Tail(signals)

RunSleep_KeepsFd ==
    /\ Received(TRUE)
    /\ SendMessage(Standby(config.suspend_tv /\ ~standby))
    /\ standby' = TRUE
    /\ UNCHANGED <<inhibit, refused, logind, config, pc, counters>>

\* run(), PrepareForSleep(true): tell the tasks, release the inhibitor.
RunSleep ==
    /\ Received(TRUE)
    /\ SendMessage(Standby(config.suspend_tv /\ ~standby))
    /\ standby' = TRUE
    /\ inhibit' = FALSE
    /\ UNCHANGED <<refused, logind, config, pc, counters>>

RunWake_KeepsFlag ==
    /\ Received(FALSE)
    /\ UNCHANGED <<standby, refused>>
    /\ SendMessage(Wake)
    /\ inhibit' = (logind = "awake")
    /\ UNCHANGED <<logind, config, pc, counters>>

\* run(), PrepareForSleep(false): tell the tasks, take the inhibitor again;
\* logind refuses it while the next sleep is already being prepared.
RunWake ==
    /\ Received(FALSE)
    /\ standby' = FALSE /\ refused' = FALSE
    /\ SendMessage(Wake)
    /\ inhibit' = (logind = "awake")
    /\ UNCHANGED <<logind, config, pc, counters>>

Call ==
    /\ Running
    /\ calls < MaxCalls
    /\ calls' = calls + 1
    /\ UNCHANGED <<logind, signals, system, pc, suspends, standbys>>

\* Daemon1.Wake: wake_all
WakeAll == Call /\ SendMessage(Wake)

\* Daemon1.Standby: standby_all
StandbyAll == Call /\ SendMessage(Standby(TRUE))

\* reconfig_connector: udev has seen a connector change.
ReconfigConnector == Call /\ SendMessage(ReconfigureConnector)

\* set_config, as far as the two settings go.
SetConfig ==
    /\ Running
    /\ calls < MaxCalls
    /\ calls' = calls + 1
    /\ config' \in Configs
    /\ SendMessage(ReloadConfig)
    /\ UNCHANGED <<logind, signals, standby, inhibit, refused, pc, suspends, standbys>>

-----------------------------------------------------------------------------
(* The device tasks.                                                       *)

Goto(d, label) == pc' = [pc EXCEPT ![d] = label]

\* handle_message, Standby: the TV switches off and takes us along, if the
\* configuration allows it.
TvStandby(d) ==
    /\ Running
    /\ pc[d] = "idle"
    /\ standbys < MaxStandbys
    /\ standbys' = standbys + 1
    /\ IF config.allow_standby THEN Goto(d, "suspend") ELSE UNCHANGED pc
    /\ UNCHANGED <<logind, signals, system, channel, suspends, calls>>

SuspendFlag_Forgets(d) ==
    /\ Running
    /\ pc[d] = "suspend"
    /\ \/ standby /\ Goto(d, "idle") /\ UNCHANGED standby
       \/ ~standby /\ Goto(d, "call") /\ UNCHANGED standby
    /\ UNCHANGED <<logind, signals, inhibit, refused, config, channel, counters>>

\* suspend() under the lock: nothing to do when a suspend is under way.
SuspendFlag(d) ==
    /\ Running
    /\ pc[d] = "suspend"
    /\ \/ standby /\ Goto(d, "idle") /\ UNCHANGED standby
       \/ ~standby /\ Goto(d, "call") /\ standby' = TRUE
    /\ UNCHANGED <<logind, signals, inhibit, refused, config, channel, counters>>

\* suspend() without the lock: logind's Suspend. A failure is answered with
\* FeatureAbort.
SuspendCall(d) ==
    /\ Running
    /\ pc[d] = "call"
    /\ Goto(d, "idle")
    /\ \/ logind = "awake" /\ Prepare("tv") /\ UNCHANGED refused
       \/ logind = "preparing" /\ UNCHANGED <<logind, signals, refused>>
       \/ SuspendMayFail /\ refused' = standby /\ UNCHANGED <<logind, signals>>
    /\ UNCHANGED <<standby, inhibit, config, channel, counters>>

\* handle_system_message: a Standby makes the task transmit InactiveSource
\* and, for its TV, Standby; the others are what DeviceTask models.
HandleSystemMessage(d) ==
    /\ Running
    /\ pc[d] = "idle" /\ ~lagged[d]
    /\ inbox[d] # <<>>
    /\ inbox' = [inbox EXCEPT ![d] = Tail(@)]
    /\ UNCHANGED <<logind, signals, system, lagged, pc, counters>>

\* RecvError::Lagged: the task leaves run() and the device is gone from the bus.
Lag(d) ==
    /\ Running
    /\ pc[d] = "idle" /\ lagged[d]
    /\ Goto(d, "ended")
    /\ inbox' = [inbox EXCEPT ![d] = <<>>]
    /\ lagged' = [lagged EXCEPT ![d] = FALSE]
    /\ UNCHANGED <<logind, signals, system, counters>>

-----------------------------------------------------------------------------

Run == RunSleep \/ RunWake

DeviceStep(d) ==
    SuspendFlag(d) \/ SuspendCall(d) \/ HandleSystemMessage(d) \/ Lag(d)

\* Nobody asks anything of cecd any more.
Quiet ==
    /\ logind = "awake" /\ signals = <<>>
    /\ \A d \in Devices : pc[d] \in {"idle", "ended"} /\ inbox[d] = <<>>
    /\ UNCHANGED vars

Next ==
    \/ UserSuspend \/ Sleep \/ WakeUp
    \/ Run \/ SetConfig \/ ReconfigConnector \/ WakeAll \/ StandbyAll
    \/ \E d \in Devices : TvStandby(d) \/ DeviceStep(d)
    \/ Quiet

Spec == Init /\ [][Next]_vars

\* run() and the device tasks are polled while the machine runs, and logind
\* sleeps once nobody delays it. Nobody has to wake the machine up.
Fairness ==
    /\ WF_vars(Run)
    /\ WF_vars(Sleep)
    /\ \A d \in Devices : WF_vars(DeviceStep(d))

FairSpec == Spec /\ Fairness

-----------------------------------------------------------------------------
(* Properties.                                                             *)

\* A suspend has been asked for, is announced, under way, or over without
\* run() knowing.
SuspendUnderWay ==
    logind # "awake" \/ signals # <<>> \/ \E d \in Devices : pc[d] = "call"

\* System.standby, which makes suspend() return at once and run() spare the
\* TV, is set only while there is a suspend it can refer to, or after one that
\* logind refused.
StandbyMeansSuspending == standby => SuspendUnderWay \/ refused

\* run() receives the announcement of a sleep that suspend() asked for.
ReceivesTvSleep ==
    /\ signals # <<>> /\ signals' = Tail(signals)
    /\ Head(signals) \in [sleep : {TRUE}, cause : {"tv"}]

TvSpared ==
    ReceivesTvSleep =>
        \A d \in Devices : inbox'[d] # <<>> => inbox'[d][Len(inbox'[d])] = Standby(FALSE)

\* The TV that puts us to sleep is not sent a Standby in return: when run()
\* receives the announcement of a sleep that suspend() asked for, it does not
\* tell the tasks to put their TVs into standby. This holds until somebody
\* else suspends the machine, which may cross a call of suspend().
NoEcho == [][suspends' = 0 => TvSpared]_vars

\* cecd never keeps the machine from sleeping: every sleep that is announced
\* comes, even if logind waits for the inhibitor for ever.
SleepComes == logind = "preparing" ~> logind = "asleep"

\* The flag is never stuck, unless logind refuses a suspend: it is cleared, or
\* the machine sleeps (again).
FlagClears == standby ~> (~standby \/ logind = "asleep" \/ refused)
=============================================================================
