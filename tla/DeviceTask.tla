----------------------------- MODULE DeviceTask -----------------------------
(***************************************************************************)
(* cecd's DeviceTask: the task that owns one adapter. It mirrors the       *)
(* adapter's addresses into the D-Bus object (cached_phys_addr,            *)
(* cached_log_addrs), retries a failed registration, defers work that      *)
(* needs a logical address, follows the active source and wakes the TV.    *)
(*                                                                         *)
(* The task is sequential, the kernel is not: every query, every callback  *)
(* and every wake attempt is a step of its own, and a hotplug or the end   *)
(* of a claim may fall between any two of them.                            *)
(***************************************************************************)
EXTENDS Adapter, Sequences

CONSTANTS
    LOG_ADDR_RETRIES,
    WAKE_TRIES,
    MaxHotplugs,    \* bound on kernel-initiated address changes
    MaxMessages     \* bound on system and routing messages handled

ASSUME DeviceTaskAssumption ==
    /\ LOG_ADDR_RETRIES \in Nat \ {0}
    /\ WAKE_TRIES \in Nat \ {0}
    /\ MaxHotplugs \in Nat
    /\ MaxMessages \in Nat

VARIABLES
    pc,             \* where in run() the task is
    snapPhys,       \* phys_addr read for a StateChange
    snapLogs,       \* log_addrs read for a StateChange
    missed,         \* history: the last state change was not handled to its
                    \* end, or not with what the adapter had
    cachedPhys,     \* CecDevice.cached_phys_addr
    cachedLogs,     \* CecDevice.cached_log_addrs
    logAddrTry,     \* log_addr_try
    queue,          \* with_logical_address_queue
    agenda,         \* what is left of the handler being executed
    active,         \* active
    awaitingWake,   \* awaiting_wake
    wakeTry,        \* attempts left of the loop in wake()
    retries,        \* registrations retried since the addresses were last lost
    hotplugs,       \* kernel-initiated changes so far
    messages        \* messages handled so far

snapshot == <<snapPhys, snapLogs, missed>>
cache    == <<cachedPhys, cachedLogs>>
retry    == <<logAddrTry, retries>>
work     == <<queue, agenda>>
wake     == <<awaitingWake, wakeTry>>
bounds   == <<hotplugs, messages>>
taskVars == <<pc, snapshot, cache, retry, work, wake, active>>
vars     == <<adapterVars, taskVars, bounds>>

Callbacks == {"report", "activate", "wake"}

\* An entry of the agenda: a call of with_logical_address, a callback that is
\* run, or what follows the drained queue.
With(cb) == <<"with", cb>>
Run(cb)  == <<"run", cb>>
Activate == <<"activate_if_configured", "activate">>
Items == {"with", "run", "activate_if_configured"} \X Callbacks

TypeOK ==
    /\ AdapterType
    /\ pc \in {"boot", "idle", "read", "readlogs", "apply", "wake", "done"}
    /\ snapPhys \in Phys /\ cachedPhys \in Phys
    /\ snapLogs \in Logs /\ cachedLogs \in Logs
    /\ missed \in BOOLEAN
    /\ logAddrTry \in 0..LOG_ADDR_RETRIES
    /\ queue \in Seq(Callbacks)
    /\ agenda \in Seq(Items)
    /\ active \in BOOLEAN
    /\ awaitingWake \in BOOLEAN
    /\ wakeTry \in 0..WAKE_TRIES
    /\ retries \in Nat
    /\ hotplugs \in 0..MaxHotplugs
    /\ messages \in 0..MaxMessages

\* CecDevice::open fills the caches from the adapter; DeviceTask::new, which
\* runs configure_dev first, is Boot.
Init ==
    /\ AdapterInit
    /\ pc = "boot"
    /\ snapPhys = phys /\ cachedPhys = phys
    /\ snapLogs = logs /\ cachedLogs = logs
    /\ missed = FALSE
    /\ logAddrTry = LOG_ADDR_RETRIES
    /\ queue = <<>>
    /\ agenda = <<>>
    /\ active = FALSE
    /\ awaitingWake = FALSE
    /\ wakeTry = 0
    /\ retries = 0
    /\ hotplugs = 0
    /\ messages = 0

\* The select! of run(): nothing of an earlier handler is left to do.
Selecting == pc = "idle" /\ agenda = <<>>

-----------------------------------------------------------------------------
(* DeviceTask::new and the prologue of run().                              *)

\* configure_dev, whose failure ends the task before it starts; then, if
\* request_active_source is configured, the first deferred activation. The
\* configuration may be reloaded at any time, so it is read as either value.
Boot ==
    /\ pc = "boot"
    /\ \/ ConfigureOk /\ pc' = "idle" /\ agenda' = <<Activate>>
       \/ ConfigureFails /\ pc' = "done" /\ UNCHANGED agenda
    /\ UNCHANGED <<snapshot, cache, retry, queue, wake, active, bounds>>

\* if config.request_active_source { with_logical_address(pending_activate) }
ActivateIfConfigured ==
    /\ pc = "idle" /\ agenda # <<>> /\ Head(agenda) = Activate
    /\ \E request_active_source \in BOOLEAN :
          agenda' = (IF request_active_source THEN <<With("activate")>> ELSE <<>>)
                    \o Tail(agenda)
    /\ UNCHANGED <<adapterVars, pc, snapshot, cache, retry, queue, wake, active, bounds>>

-----------------------------------------------------------------------------
(* poller.poll, handle_status and PollResult::StateChange.                 *)

\* handle_status returned a StateChange, handle_poll_result begins.
StateChange ==
    /\ Selecting /\ ~gone
    /\ DequeueEvent
    /\ pc' = "read"
    /\ missed' = FALSE
    /\ UNCHANGED <<snapPhys, snapLogs, cache, retry, work, wake, active, bounds>>

\* handle_status failed after the event was dequeued: the address query
\* failed, or a message was waiting too and receiving it failed. The task
\* logs a warning and the StateChange is lost.
StateChangeLost ==
    /\ Selecting /\ ~gone
    /\ \/ DequeueEventFails
       \/ "rx" \in Faults /\ DequeueEvent
    /\ missed' = TRUE
    /\ UNCHANGED <<pc, snapPhys, snapLogs, cache, retry, work, wake, active, bounds>>

ReadPhys ==
    /\ pc = "read"
    /\ pc' = "readlogs"
    /\ snapPhys' \in ReadOr(phys, NoPhys)
    /\ missed' = (missed \/ snapPhys' # phys)
    /\ UNCHANGED <<adapterVars, snapLogs, cache, retry, work, wake, active, bounds>>

ReadLogs_ThenDequeue ==
    /\ pc = "readlogs"
    /\ pc' = "apply"
    /\ snapLogs' = logs
    /\ event' = FALSE
    /\ UNCHANGED <<phys, want, logs, claiming, gone, txAddr, failed, snapPhys, missed,
                   cache, retry, work, wake, active, bounds>>

ReadLogs ==
    /\ pc = "readlogs"
    /\ pc' = "apply"
    /\ snapLogs' \in ReadOr(logs, NoLog)
    /\ missed' = (missed \/ snapLogs' # logs)
    /\ UNCHANGED <<adapterVars, snapPhys, cache, retry, work, wake, active, bounds>>

\* Emitting PhysicalAddressChanged or VendorIdChanged failed: the rest is
\* skipped.
ApplyAborted ==
    /\ pc = "apply" /\ pc' = "idle"
    /\ "emit" \in Faults
    /\ cachedPhys' = snapPhys
    /\ missed' = TRUE
    /\ UNCHANGED <<adapterVars, snapPhys, snapLogs, cachedLogs, retry, work, wake, active, bounds>>

\* The logical addresses are gone: start over with all the retries.
ApplyLost ==
    /\ pc = "apply" /\ pc' = "idle"
    /\ cachedLogs # snapLogs /\ snapLogs = NoLog
    /\ cachedPhys' = snapPhys
    /\ cachedLogs' = snapLogs
    /\ logAddrTry' = LOG_ADDR_RETRIES
    /\ retries' = 0
    /\ UNCHANGED <<adapterVars, snapshot, work, wake, active, bounds>>

\* The callbacks of the queue, in order, as the agenda of a drain.
Drained(q) == [i \in DOMAIN q |-> Run(q[i])]

\* There are new logical addresses: run everything that waited for them,
\* unless emitting LogicalAddressesChanged failed.
ApplyGained ==
    /\ pc = "apply" /\ pc' = "idle"
    /\ cachedLogs # snapLogs /\ snapLogs # NoLog
    /\ cachedPhys' = snapPhys
    /\ cachedLogs' = snapLogs
    /\ \/ /\ queue' = <<>>
          /\ agenda' = Drained(queue) \o <<Activate>>
       \/ "emit" \in Faults /\ UNCHANGED <<queue, agenda>>
    /\ UNCHANGED <<adapterVars, snapshot, retry, wake, active, bounds>>

Unregistered == snapLogs = NoLog /\ snapPhys # NoPhys

ApplyRetry_NoGuard ==
    /\ pc = "apply" /\ pc' = "idle"
    /\ cachedLogs = snapLogs
    /\ Unregistered
    /\ cachedPhys' = snapPhys
    /\ logAddrTry' = logAddrTry - 1
    /\ retries' = retries + 1
    /\ ConfigureDev
    /\ UNCHANGED <<snapshot, cachedLogs, work, wake, active, bounds>>

ApplyRetry_NoConfigure ==
    /\ pc = "apply" /\ pc' = "idle"
    /\ cachedLogs = snapLogs
    /\ Unregistered /\ logAddrTry > 0
    /\ cachedPhys' = snapPhys
    /\ logAddrTry' = logAddrTry - 1
    /\ retries' = retries + 1
    /\ UNCHANGED adapterVars
    /\ UNCHANGED <<snapshot, cachedLogs, work, wake, active, bounds>>

ApplyRetry_NoDecrement ==
    /\ pc = "apply" /\ pc' = "idle"
    /\ cachedLogs = snapLogs
    /\ Unregistered /\ logAddrTry > 0
    /\ cachedPhys' = snapPhys
    /\ UNCHANGED logAddrTry
    /\ retries' = retries + 1
    /\ ConfigureDev
    /\ UNCHANGED <<snapshot, cachedLogs, work, wake, active, bounds>>

ApplyRetry_Forever ==
    /\ pc = "apply" /\ pc' = "idle"
    /\ cachedLogs = snapLogs
    /\ Unregistered /\ logAddrTry > 0
    /\ cachedPhys' = snapPhys
    /\ UNCHANGED retry
    /\ ConfigureDev
    /\ UNCHANGED <<snapshot, cachedLogs, work, wake, active, bounds>>

\* Still no logical address: register again, a bounded number of times.
ApplyRetry ==
    /\ pc = "apply" /\ pc' = "idle"
    /\ cachedLogs = snapLogs
    /\ Unregistered /\ logAddrTry > 0
    /\ cachedPhys' = snapPhys
    /\ logAddrTry' = logAddrTry - 1
    /\ retries' = retries + 1
    /\ ConfigureDev
    /\ UNCHANGED <<snapshot, cachedLogs, work, wake, active, bounds>>

\* Nothing to do about the logical addresses.
ApplySame ==
    /\ pc = "apply" /\ pc' = "idle"
    /\ cachedLogs = snapLogs
    /\ ~(Unregistered /\ logAddrTry > 0)
    /\ cachedPhys' = snapPhys
    /\ UNCHANGED <<adapterVars, snapshot, cachedLogs, retry, work, wake, active, bounds>>

-----------------------------------------------------------------------------
(* with_logical_address and the callbacks.                                 *)

\* Run the callback now if the adapter has an address, else queue it.
WithLogicalAddress ==
    /\ pc = "idle" /\ agenda # <<>> /\ Head(agenda)[1] = "with"
    /\ LET cb == Head(agenda)[2] IN
       \E l \in ReadOr(logs, NoLog) :
          \/ /\ l = NoLog
             /\ queue' = Append(queue, cb)
             /\ agenda' = Tail(agenda)
          \/ /\ l # NoLog
             /\ agenda' = <<Run(cb)>> \o Tail(agenda)
             /\ UNCHANGED queue
    /\ UNCHANGED <<adapterVars, pc, snapshot, cache, retry, wake, active, bounds>>

\* Broadcast ReportPowerStatus; whether it was sent does not matter.
RunReport ==
    /\ pc = "idle" /\ agenda # <<>> /\ Head(agenda) = Run("report")
    /\ agenda' = Tail(agenda)
    /\ UNCHANGED <<adapterVars, pc, snapshot, cache, retry, queue, wake, active, bounds>>

\* pending_activate: ask for the active source in the background, and take
\* ourselves for it until another device answers.
RunActivate ==
    /\ pc = "idle" /\ agenda # <<>> /\ Head(agenda) = Run("activate")
    /\ agenda' = Tail(agenda)
    /\ active' = TRUE
    /\ UNCHANGED <<adapterVars, pc, snapshot, cache, retry, queue, wake, bounds>>

\* wake() up to its loop: ImageViewOn must be sent.
RunWake ==
    /\ pc = "idle" /\ agenda # <<>> /\ Head(agenda) = Run("wake")
    /\ agenda' = Tail(agenda)
    /\ \/ /\ CanTx
          /\ awaitingWake' = TRUE
          /\ wakeTry' = WAKE_TRIES
          /\ pc' = "wake"
       \/ UNCHANGED <<pc, wake>>
    /\ UNCHANGED <<adapterVars, snapshot, cache, retry, queue, active, bounds>>

\* One iteration of the loop is over; the last one ends wake().
NextWakeTry ==
    /\ wakeTry' = wakeTry - 1
    /\ pc' = IF wakeTry = 1 THEN "idle" ELSE "wake"
    /\ UNCHANGED awaitingWake

\* ActiveSource was sent, or failed to be, be it that the physical address
\* could not be read: done if the TV has answered.
WakeTrySent ==
    /\ pc = "wake" /\ ~gone
    /\ logs # NoLog \/ "read" \in Faults
    /\ \/ CanTx /\ ~awaitingWake /\ pc' = "idle" /\ wakeTry' = 0 /\ UNCHANGED awaitingWake
       \/ CanTx /\ awaitingWake /\ NextWakeTry
       \/ NextWakeTry
    /\ UNCHANGED <<adapterVars, snapshot, cache, retry, work, active, bounds>>

\* Error::NoLogicalAddress: configure the adapter again and go on.
WakeTryReconfigure ==
    /\ pc = "wake" /\ ~gone /\ logs = NoLog
    /\ ConfigureDev
    /\ NextWakeTry
    /\ UNCHANGED <<snapshot, cache, retry, work, active, bounds>>

WakeDisconnected_Continues ==
    pc = "wake" /\ gone /\ UNCHANGED vars

\* Error::Disconnected ends wake().
WakeDisconnected ==
    /\ pc = "wake" /\ gone
    /\ pc' = "idle"
    /\ awaitingWake' = FALSE
    /\ wakeTry' = 0
    /\ UNCHANGED <<adapterVars, snapshot, cache, retry, work, active, bounds>>

-----------------------------------------------------------------------------
(* Messages of the bus that name a source, and messages of the system.     *)

\* One more message, of those the bound allows, is taken in the select!.
Receive ==
    /\ Selecting
    /\ messages < MaxMessages
    /\ messages' = messages + 1

\* SetStreamPath and ActiveSource: we are active iff the path is ours. A
\* failed query of our own address is all that the handler then does.
SourceNamed(address) ==
    /\ Receive
    /\ ~gone
    /\ \/ active' = (address = phys)
       \/ "read" \in Faults /\ UNCHANGED active
    /\ UNCHANGED <<adapterVars, pc, snapshot, cache, retry, work, wake, hotplugs>>

\* RoutingChange: the same, and the answer that a wake waits for.
RoutingChange(new_address) ==
    /\ Receive
    /\ ~gone
    /\ \/ /\ active' = (new_address = phys)
          /\ awaitingWake' = (awaitingWake /\ new_address # phys)
       \/ "read" \in Faults /\ UNCHANGED <<active, awaitingWake>>
    /\ UNCHANGED <<adapterVars, pc, snapshot, cache, retry, work, wakeTry, hotplugs>>

\* SystemMessage::Wake
Wake(wake_tv, from_standby) ==
    /\ Receive
    /\ agenda' = (IF from_standby THEN <<With("report"), Activate>> ELSE <<>>)
                 \o (IF wake_tv THEN <<With("wake")>> ELSE <<>>)
    /\ UNCHANGED <<adapterVars, pc, snapshot, cache, retry, queue, wake, active, hotplugs>>

\* SystemMessage::ReloadConfig, and ReconfigureConnector for our connector.
Reconfigure ==
    /\ Receive
    /\ ConfigureDev
    /\ UNCHANGED <<taskVars, hotplugs>>

-----------------------------------------------------------------------------

\* The poller reports Destroyed: cancel the token, leave run().
Destroyed ==
    /\ Selecting /\ gone
    /\ pc' = "done"
    /\ UNCHANGED <<adapterVars, snapshot, cache, retry, work, wake, active, bounds>>

\* Closed from outside: the token is cancelled, or a channel is closed.
Cancelled ==
    /\ Selecting /\ ~gone
    /\ pc' = "done"
    /\ UNCHANGED <<adapterVars, snapshot, cache, retry, work, wake, active, bounds>>

\* The kernel's steps: at most MaxHotplugs changes, and the claims they start.
Plug ==
    /\ hotplugs < MaxHotplugs
    /\ hotplugs' = hotplugs + 1
    /\ (\E p \in Phys : Hotplug(p)) \/ Unplug
    /\ UNCHANGED <<taskVars, messages>>

ClaimEnds ==
    /\ \E l \in Logs : ClaimDone(l)
    /\ UNCHANGED <<taskVars, bounds>>

HandleStateChange ==
    \/ StateChange \/ StateChangeLost \/ ReadPhys \/ ReadLogs
    \/ ApplyAborted \/ ApplyLost \/ ApplyGained \/ ApplyRetry \/ ApplySame

RunCallbacks ==
    \/ ActivateIfConfigured \/ WithLogicalAddress
    \/ RunReport \/ RunActivate \/ RunWake
    \/ WakeTrySent \/ WakeTryReconfigure \/ WakeDisconnected

HandleMessage ==
    \/ \E a \in Phys : SourceNamed(a) \/ RoutingChange(a)
    \/ \E wake_tv, from_standby \in BOOLEAN : Wake(wake_tv, from_standby)
    \/ Reconfigure

Task == Boot \/ HandleStateChange \/ RunCallbacks \/ Destroyed

\* The object is removed from the bus, the task is over.
Stopped == pc = "done" /\ UNCHANGED vars

Next == Plug \/ ClaimEnds \/ Task \/ HandleMessage \/ Cancelled \/ Stopped

Spec == Init /\ [][Next]_vars

\* The task is polled by the runtime and a claim ends by itself; nothing
\* obliges the display, the bus or a client to do anything.
Fairness == WF_vars(Task) /\ WF_vars(ClaimEnds)

FairSpec == Spec /\ Fairness

-----------------------------------------------------------------------------
(* Properties.                                                             *)

\* The D-Bus properties PhysicalAddress and LogicalAddresses, which are read
\* from the caches, tell what the adapter has whenever the task waits and no
\* state change is pending, however hotplugs and claims interleave with the
\* queries, the retries and the reconfigurations (handle_poll_result). What a
\* failed query or signal spoilt is right again after the next state change.
CacheFresh ==
    Selecting /\ ~event /\ ~gone /\ ~missed => cachedPhys = phys /\ cachedLogs = logs

\* Device never transmits under an address the adapter no longer has, unless
\* a state change it has not dequeued yet says so (tx_logical_address is set
\* by set_logical_addresses, clear_logical_addresses and handle_status), or a
\* call that failed half way has kept it from learning so.
TxAddrFresh == ~event /\ ~gone /\ ~failed => txAddr = logs

\* Between two losses of the logical addresses, no more than LOG_ADDR_RETRIES
\* registrations are retried, whatever fails (log_addr_try).
RetryBound == retries <= LOG_ADDR_RETRIES

\* A registration that is being retried is never abandoned half way: when the
\* task waits with nothing pending and a valid physical address but no
\* logical one, it has either spent its retries or not begun to use them,
\* unless a call failed since the last state change.
RetriesContinue ==
    /\ Selecting /\ ~event /\ ~claiming /\ ~gone /\ ~missed /\ ~failed
    /\ logs = NoLog /\ phys # NoPhys
    => logAddrTry \in {0, LOG_ADDR_RETRIES}

\* Work deferred until there is a logical address is not left behind: when
\* the task waits, nothing is pending and the adapter has an address, the
\* queue of with_logical_address is empty.
NoStrandedCallback ==
    Selecting /\ ~event /\ ~gone /\ logs # NoLog => queue = <<>>

\* The task always comes to rest: state changes, failed registrations that
\* cause new state changes, deferred callbacks and wake attempts run out.
Settles == <>[](pc = "done" \/ (Selecting /\ ~event))

\* A task whose adapter was removed ends, even from inside wake().
EndsWhenGone == gone ~> pc = "done"
=============================================================================
