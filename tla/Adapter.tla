------------------------------ MODULE Adapter ------------------------------
(***************************************************************************)
(* One HDMI-CEC adapter as cecd sees it: the kernel's side of /dev/cecN    *)
(* (external, modelled from the ioctls the code issues) and the state the  *)
(* linux-cec Device keeps in user space about it.                          *)
(*                                                                         *)
(* The kernel owns the physical address, claims logical addresses and      *)
(* posts ONE coalesced state-change event; the file is opened in blocking  *)
(* mode, so setting logical addresses waits for the claim, while a claim   *)
(* triggered by a hotplug runs on its own.                                 *)
(***************************************************************************)
EXTENDS Naturals

CONSTANTS
    PhysAddrs,      \* the valid physical addresses
    NoPhys,         \* PhysicalAddress::INVALID, 0xFFFF
    LogAddrs,       \* the logical addresses the adapter may claim
    NoLog,          \* no claimed address; also LogicalAddress::Unregistered
    CapPhysAddr,    \* Capabilities::PHYS_ADDR: cecd must set the address
    CapLogAddrs,    \* Capabilities::LOG_ADDRS: cecd must request addresses
    Faults          \* which calls may fail besides those the adapter refuses

ASSUME AdapterAssumption ==
    /\ PhysAddrs # {} /\ NoPhys \notin PhysAddrs
    /\ LogAddrs # {} /\ NoLog \notin LogAddrs
    /\ CapPhysAddr \in BOOLEAN /\ CapLogAddrs \in BOOLEAN
    /\ Faults \subseteq {"rx", "read", "emit", "configure"}

VARIABLES
    phys,       \* the adapter's physical address
    want,       \* logical addresses have been requested (num_log_addrs > 0)
    logs,       \* the claimed logical address, or NoLog
    claiming,   \* a claim started by a hotplug is on the bus
    event,      \* a CEC_EVENT_STATE_CHANGE waits to be dequeued
    gone,       \* the device node was removed (POLLHUP, ENODEV)
    txAddr,     \* Device.tx_logical_address
    failed      \* history: since the last event was dequeued or the last
                \* configuration succeeded, a call failed for another
                \* reason than what the adapter refuses

adapterVars == <<phys, want, logs, claiming, event, gone, txAddr, failed>>

Phys == PhysAddrs \cup {NoPhys}
Logs == LogAddrs \cup {NoLog}

AdapterType ==
    /\ phys \in Phys
    /\ want \in BOOLEAN
    /\ logs \in Logs
    /\ claiming \in BOOLEAN
    /\ event \in BOOLEAN
    /\ gone \in BOOLEAN
    /\ txAddr \in Logs
    /\ failed \in BOOLEAN

\* Device::try_from: the device starts from whatever the kernel has. The
\* kernel queues the initial state as an event for a new file handle.
AdapterInit ==
    /\ phys \in Phys
    /\ want \in BOOLEAN
    /\ logs \in IF want /\ phys # NoPhys THEN Logs ELSE {NoLog}
    /\ claiming = FALSE
    /\ event = TRUE
    /\ gone = FALSE
    /\ txAddr = logs
    /\ failed = FALSE

-----------------------------------------------------------------------------
(* What the kernel does by itself.                                         *)

\* The kernel's effect of a new physical address: the claimed address is
\* given up, a requested one is claimed again once the address is valid.
MoveTo(p) ==
    /\ phys' = p
    /\ logs' = IF p = phys THEN logs ELSE NoLog
    /\ claiming' = IF p = phys THEN claiming ELSE want /\ p # NoPhys
    /\ event' = (event \/ p # phys)

\* The display is plugged in, unplugged or moved to another port.
Hotplug(p) ==
    /\ ~gone
    /\ p # phys
    /\ MoveTo(p)
    /\ UNCHANGED <<want, gone, txAddr, failed>>

\* A claim started by a hotplug ends, with an address or without one; both
\* are reported.
ClaimDone(l) ==
    /\ ~gone
    /\ claiming
    /\ claiming' = FALSE
    /\ logs' = l
    /\ event' = TRUE
    /\ UNCHANGED <<phys, want, gone, txAddr, failed>>

\* The device node disappears.
Unplug ==
    /\ ~gone
    /\ gone' = TRUE
    /\ UNCHANGED <<phys, want, logs, claiming, event, txAddr, failed>>

-----------------------------------------------------------------------------
(* What linux-cec's Device does for cecd.                                  *)

\* tx_message succeeds only while the adapter has an address and the
\* initiator that Device remembers is that address.
CanTx == ~gone /\ logs # NoLog /\ txAddr = logs

\* An address query that is answered by what the kernel has, or, with
\* unwrap_or_default, by the default when the ioctl fails.
ReadOr(value, default) ==
    IF gone THEN {default}
    ELSE {value} \cup (IF "read" \in Faults THEN {default} ELSE {})

DequeueEvent_NoRefresh ==
    /\ event
    /\ event' = FALSE
    /\ failed' = FALSE
    /\ UNCHANGED <<phys, want, logs, claiming, gone, txAddr>>

\* handle_status for a state change: dequeue the event, then refresh
\* tx_logical_address.
DequeueEvent ==
    /\ event
    /\ event' = FALSE
    /\ txAddr' = logs
    /\ failed' = FALSE
    /\ UNCHANGED <<phys, want, logs, claiming, gone>>

\* The same when the query behind the refresh fails: the event is consumed,
\* the error is all the caller gets.
DequeueEventFails ==
    /\ event
    /\ "read" \in Faults
    /\ event' = FALSE
    /\ failed' = TRUE
    /\ UNCHANGED <<phys, want, logs, claiming, gone, txAddr>>

\* The address the PHYS_ADDR branch of configure_dev may choose: from the
\* EDID of the connector, from the only connected display, the configured
\* fallback, or the default (invalid).
ConfiguredPhys == IF CapPhysAddr THEN Phys ELSE {phys}

\* clear_logical_addresses failed: EBUSY five times because a claim is still
\* running, or another error. Device has already forgotten its address.
ConfigureStops(p) ==
    /\ CapLogAddrs
    /\ MoveTo(p)
    /\ claiming' \/ "configure" \in Faults
    /\ txAddr' = NoLog
    /\ failed' = (failed \/ ~claiming')
    /\ UNCHANGED <<want, gone>>

\* clear_logical_addresses went through and requesting the new address
\* failed: the adapter is left without a request.
ConfigureCleared(p) ==
    /\ "configure" \in Faults /\ CapLogAddrs
    /\ phys' = p
    /\ want' = FALSE
    /\ logs' = NoLog
    /\ claiming' = FALSE
    /\ event' = (event \/ p # phys \/ logs # NoLog)
    /\ txAddr' = NoLog
    /\ failed' = TRUE
    /\ UNCHANGED gone

\* configure_dev to its end. With LOG_ADDRS: clear, request, and wait for
\* the claim l; a claim is only made, and reported, with a valid address.
ConfigureSucceeds(p, l) ==
    \/ /\ CapLogAddrs
       /\ p = NoPhys => l = NoLog
       /\ phys' = p
       /\ want' = TRUE
       /\ logs' = l
       /\ claiming' = FALSE
       /\ event' = (event \/ p # phys \/ logs # NoLog \/ p # NoPhys)
       /\ txAddr' = l
       /\ failed' = FALSE
       /\ UNCHANGED gone
    \/ /\ ~CapLogAddrs
       /\ l = NoLog
       /\ MoveTo(p)
       /\ UNCHANGED <<want, gone, txAddr, failed>>

\* One of configure_dev's first calls fails, and nothing has happened.
ConfigureRefused ==
    /\ gone \/ "configure" \in Faults
    /\ failed' = (failed \/ ~gone)
    /\ UNCHANGED <<phys, want, logs, claiming, event, gone, txAddr>>

\* System::configure_dev, run with the system and the device locked, when it
\* returns an error: at once, in between, or from set_follower_mode, its last
\* call, when everything else is done.
ConfigureFails ==
    \/ ConfigureRefused
    \/ ~gone /\ \E p \in ConfiguredPhys : ConfigureStops(p) \/ ConfigureCleared(p)
    \/ /\ ~gone /\ "configure" \in Faults
       /\ \E p \in ConfiguredPhys, l \in Logs : ConfigureSucceeds(p, l)

\* The same when it returns Ok.
ConfigureOk ==
    ~gone /\ \E p \in ConfiguredPhys, l \in Logs : ConfigureSucceeds(p, l)

ConfigureDev == ConfigureOk \/ ConfigureFails

=============================================================================
