-------------------------- MODULE DeviceTaskProofs --------------------------
(***************************************************************************)
(* Proofs about DeviceTask for every set of addresses, every number of     *)
(* retries and every bound.                                                *)
(***************************************************************************)
EXTENDS DeviceTask, TLAPS

USE AdapterAssumption, DeviceTaskAssumption

\* A claim that is running has not got an address yet.
ClaimInv == claiming => logs = NoLog

\* Retries spent and retries left always add up.
RetryInv == retries + logAddrTry = LOG_ADDR_RETRIES

\* Inside wake() there is an attempt left.
WakeInv == pc = "wake" => wakeTry > 0

TypeInv == TypeOK /\ ClaimInv /\ RetryInv /\ WakeInv

-----------------------------------------------------------------------------

\* What the handlers put on the agenda are agenda entries.
LEMMA ItemTypes ==
    /\ Activate \in Items
    /\ \A cb \in Callbacks : With(cb) \in Items /\ Run(cb) \in Items
BY DEF Activate, With, Run, Items, Callbacks

\* What the agenda is built with: one entry, an entry before a sequence, an
\* entry after it, and the rest of a sequence.
LEMMA SeqTypes ==
    ASSUME NEW S, NEW x \in S, NEW s \in Seq(S)
    PROVE  /\ <<x>> \in Seq(S)
           /\ <<x>> \o s \in Seq(S)
           /\ Append(s, x) \in Seq(S)
           /\ s # <<>> => Tail(s) \in Seq(S)
OBVIOUS

\* Drained(q) turns a queue of callbacks into agenda entries.
LEMMA DrainedType ==
    ASSUME NEW q \in Seq(Callbacks)
    PROVE  Drained(q) \in Seq(Items)
BY ItemTypes DEF Drained

\* configure_dev keeps the adapter's types, and a claim it leaves running
\* has no address.
LEMMA ConfigureType ==
    ASSUME AdapterType, ClaimInv, ConfigureDev
    PROVE  AdapterType' /\ ClaimInv'
<1>1. CASE ConfigureRefused
  BY <1>1 DEF AdapterType, ClaimInv, ConfigureRefused
<1>2. ASSUME NEW p \in ConfiguredPhys, ConfigureStops(p) \/ ConfigureCleared(p)
      PROVE  AdapterType' /\ ClaimInv'
  BY <1>2 DEF AdapterType, ClaimInv, ConfigureStops, ConfigureCleared, ConfiguredPhys,
              MoveTo, Phys, Logs
<1>3. ASSUME NEW p \in ConfiguredPhys, NEW l \in Logs, ConfigureSucceeds(p, l)
      PROVE  AdapterType' /\ ClaimInv'
  BY <1>3 DEF AdapterType, ClaimInv, ConfigureSucceeds, ConfiguredPhys,
              MoveTo, Phys, Logs
<1>4. QED
  BY <1>1, <1>2, <1>3 DEF ConfigureDev, ConfigureOk, ConfigureFails

\* TypeInv holds when CecDevice::open returns.
LEMMA TypeInvInit == Init => TypeInv
<1> SUFFICES ASSUME Init PROVE TypeInv
  OBVIOUS
<1>1. AdapterType /\ ClaimInv
  BY DEF Init, AdapterInit, AdapterType, ClaimInv, Phys, Logs
<1>2. active \in BOOLEAN /\ awaitingWake \in BOOLEAN /\ missed \in BOOLEAN
  BY DEF Init
<1>3. TypeOK
  BY <1>1, <1>2 DEF Init, TypeOK, AdapterType
<1>4. RetryInv /\ WakeInv
  BY DEF Init, RetryInv, WakeInv
<1>5. QED
  BY <1>1, <1>3, <1>4 DEF TypeInv

\* TypeInv is preserved by every step of the kernel and of the task.
LEMMA TypeInvNext == TypeInv /\ [Next]_vars => TypeInv'
<1> SUFFICES ASSUME TypeInv, [Next]_vars PROVE TypeInv'
  OBVIOUS
<1> USE DEF TypeInv, ClaimInv, RetryInv, WakeInv, TypeOK, snapshot, cache, retry, work,
            wake, bounds
<1>1. CASE Plug
  <2>1. ASSUME NEW p \in Phys, Hotplug(p) PROVE AdapterType' /\ ClaimInv'
    BY <2>1 DEF AdapterType, Hotplug, MoveTo, Phys, Logs
  <2>2. ASSUME Unplug PROVE AdapterType' /\ ClaimInv'
    BY <2>2 DEF AdapterType, Unplug
  <2>3. QED BY <1>1, <2>1, <2>2 DEF Plug, taskVars
<1>2. CASE ClaimEnds
  BY <1>2 DEF ClaimEnds, ClaimDone, AdapterType, taskVars
<1>3. CASE Boot
  <2>1. AdapterType' /\ ClaimInv'
    BY <1>3, ConfigureType DEF Boot, ConfigureDev
  <2>2. pc' \in {"idle", "done"} /\ (agenda' = <<Activate>> \/ agenda' = agenda)
    BY <1>3 DEF Boot
  <2>3. agenda' \in Seq(Items)
    <3>1. <<Activate>> \in Seq(Items)
      BY ItemTypes, SeqTypes
    <3>2. QED BY <2>2, <3>1
  <2>4. UNCHANGED <<snapshot, cache, retry, queue, wake, active, bounds>>
    BY <1>3 DEF Boot
  <2>5. QED BY <2>1, <2>2, <2>3, <2>4
<1>4. CASE StateChange
  BY <1>4 DEF StateChange, DequeueEvent, AdapterType
<1>5. CASE StateChangeLost
  <2>1. AdapterType' /\ ClaimInv'
    <3>1. CASE DequeueEventFails
      BY <3>1 DEF DequeueEventFails, AdapterType
    <3>2. CASE DequeueEvent
      BY <3>2 DEF DequeueEvent, AdapterType
    <3>3. QED BY <1>5, <3>1, <3>2 DEF StateChangeLost
  <2>2. /\ missed' = TRUE
        /\ UNCHANGED <<pc, snapPhys, snapLogs, cache, retry, work, wake, active, bounds>>
    BY <1>5 DEF StateChangeLost
  <2>3. QED BY <2>1, <2>2
<1>6. CASE ReadPhys
  BY <1>6 DEF ReadPhys, ReadOr, AdapterType, adapterVars, Phys
<1>7. CASE ReadLogs
  BY <1>7 DEF ReadLogs, ReadOr, AdapterType, adapterVars, Logs
<1>8. CASE ApplyAborted
  BY <1>8 DEF ApplyAborted, AdapterType, adapterVars
<1>9. CASE ApplyLost
  BY <1>9 DEF ApplyLost, AdapterType, adapterVars
<1>10. CASE ApplyGained
  <2>1. agenda' \in Seq(Items) /\ queue' \in Seq(Callbacks)
    <3>1. CASE queue' = <<>> /\ agenda' = Drained(queue) \o <<Activate>>
      BY <3>1, DrainedType, ItemTypes
    <3>2. CASE UNCHANGED <<queue, agenda>>
      BY <3>2
    <3>3. QED BY <1>10, <3>1, <3>2 DEF ApplyGained
  <2>2. QED BY <1>10, <2>1 DEF ApplyGained, AdapterType, adapterVars
<1>11. CASE ApplyRetry
  <2>1. AdapterType' /\ ClaimInv'
    BY <1>11, ConfigureType DEF ApplyRetry
  <2>2. QED BY <1>11, <2>1 DEF ApplyRetry
<1>12. CASE ApplySame
  BY <1>12 DEF ApplySame, AdapterType, adapterVars
<1>13. CASE ActivateIfConfigured
  <2>1. agenda' \in Seq(Items)
    BY <1>13, ItemTypes DEF ActivateIfConfigured, Callbacks
  <2>2. QED BY <1>13, <2>1 DEF ActivateIfConfigured, AdapterType, adapterVars
<1>14. CASE WithLogicalAddress
  <2>1. Head(agenda) \in Items
    BY <1>14 DEF WithLogicalAddress
  <2>2. Head(agenda)[2] \in Callbacks
    BY <2>1 DEF Items
  <2>3. PICK cb \in Callbacks :
            \/ queue' = Append(queue, cb) /\ agenda' = Tail(agenda)
            \/ agenda' = <<Run(cb)>> \o Tail(agenda) /\ UNCHANGED queue
    BY <1>14, <2>2 DEF WithLogicalAddress
  <2>4. agenda # <<>> /\ Run(cb) \in Items
    BY <1>14, ItemTypes DEF WithLogicalAddress
  <2>5. agenda' \in Seq(Items) /\ queue' \in Seq(Callbacks)
    <3>1. Tail(agenda) \in Seq(Items)
      BY <2>4, SeqTypes
    <3>2. <<Run(cb)>> \o Tail(agenda) \in Seq(Items)
      BY <2>4, <3>1, SeqTypes
    <3>3. Append(queue, cb) \in Seq(Callbacks)
      BY SeqTypes
    <3>4. QED BY <2>3, <3>1, <3>2, <3>3
  <2>6. QED BY <1>14, <2>5 DEF WithLogicalAddress, AdapterType, adapterVars
<1>15. CASE RunReport
  BY <1>15 DEF RunReport, AdapterType, adapterVars
<1>16. CASE RunActivate
  BY <1>16 DEF RunActivate, AdapterType, adapterVars
<1>17. CASE RunWake
  <2>1. (pc' = "wake" /\ awaitingWake' = TRUE /\ wakeTry' = WAKE_TRIES) \/ UNCHANGED <<pc, wake>>
    BY <1>17 DEF RunWake
  <2>2. awaitingWake' \in BOOLEAN
    BY <2>1, Zenon
  <2>3. QED BY <1>17, <2>1, <2>2 DEF RunWake, AdapterType, adapterVars
<1>18. CASE WakeTrySent
  <2>1. UNCHANGED awaitingWake
    BY <1>18 DEF WakeTrySent, NextWakeTry
  <2>2. (pc' = "idle" /\ wakeTry' = 0) \/ NextWakeTry
    BY <1>18 DEF WakeTrySent
  <2>3. QED BY <1>18, <2>1, <2>2 DEF WakeTrySent, NextWakeTry, AdapterType, adapterVars
<1>19. CASE WakeTryReconfigure
  <2>1. AdapterType' /\ ClaimInv'
    BY <1>19, ConfigureType DEF WakeTryReconfigure
  <2>2. QED BY <1>19, <2>1 DEF WakeTryReconfigure, NextWakeTry
<1>20. CASE WakeDisconnected
  <2>1. awaitingWake' \in BOOLEAN /\ pc' = "idle" /\ wakeTry' = 0
    BY <1>20 DEF WakeDisconnected
  <2>2. QED BY <1>20, <2>1 DEF WakeDisconnected, AdapterType, adapterVars
<1>21. CASE Destroyed
  BY <1>21 DEF Destroyed, AdapterType, adapterVars
<1>22. CASE HandleMessage
  <2>1. ASSUME NEW a \in Phys, SourceNamed(a) \/ RoutingChange(a) PROVE TypeInv'
    <3>1. active' \in BOOLEAN /\ awaitingWake' \in BOOLEAN
      BY <2>1 DEF SourceNamed, RoutingChange
    <3>2. /\ messages' = messages + 1 /\ messages < MaxMessages /\ pc = "idle"
          /\ UNCHANGED <<adapterVars, pc, snapshot, cache, retry, work, wakeTry, hotplugs>>
      BY <2>1 DEF SourceNamed, RoutingChange, Receive, Selecting
    <3>3. QED BY <3>1, <3>2 DEF AdapterType, adapterVars
  <2>2. ASSUME NEW wake_tv \in BOOLEAN, NEW from_standby \in BOOLEAN,
               Wake(wake_tv, from_standby)
        PROVE  TypeInv'
    <3>1. agenda' \in Seq(Items)
      BY <2>2, ItemTypes DEF Wake, Callbacks
    <3>2. QED BY <2>2, <3>1 DEF Wake, Receive, Selecting, AdapterType, adapterVars
  <2>3. CASE Reconfigure
    <3>1. AdapterType' /\ ClaimInv'
      BY <2>3, ConfigureType DEF Reconfigure
    <3>2. QED BY <2>3, <3>1 DEF Reconfigure, Receive, taskVars
  <2>4. QED BY <1>22, <2>1, <2>2, <2>3 DEF HandleMessage
<1>23. CASE Cancelled
  BY <1>23 DEF Cancelled, AdapterType, adapterVars
<1>24. CASE UNCHANGED vars
  BY <1>24 DEF vars, taskVars, AdapterType, adapterVars
<1>25. QED
  BY <1>1, <1>2, <1>3, <1>4, <1>5, <1>6, <1>7, <1>8, <1>9, <1>10, <1>11, <1>12, <1>13,
     <1>14, <1>15, <1>16, <1>17, <1>18, <1>19, <1>20, <1>21, <1>22, <1>23, <1>24
     DEF Next, Task, HandleStateChange, RunCallbacks, Stopped

\* Type correctness of the task and of the adapter it owns, whatever fails.
THEOREM TypeCorrect == Spec => []TypeOK
<1>1. TypeInv => TypeOK
  BY DEF TypeInv
<1>2. QED
  BY <1>1, TypeInvInit, TypeInvNext, PTL DEF Spec

-----------------------------------------------------------------------------
(* The bound on the retries, whatever fails.                               *)

\* TypeInv holds in every reachable state.
LEMMA TypeInvAlways == Spec => []TypeInv
BY TypeInvInit, TypeInvNext, PTL DEF Spec

\* The registration is retried at most LOG_ADDR_RETRIES times per loss.
THEOREM RetriesBounded == Spec => []RetryBound
<1>1. TypeInv => RetryBound
  BY DEF TypeInv, TypeOK, RetryInv, RetryBound
<1>2. QED
  BY <1>1, TypeInvAlways, PTL

-----------------------------------------------------------------------------
(* The caches behind the D-Bus properties.                                 *)

\* Unless a state change is pending or was missed, what the handler of the
\* last one has read so far, or has written to the caches, is what the adapter
\* has.
Mirrored ==
    \/ gone \/ event \/ missed
    \/ pc = "read"
    \/ pc = "readlogs" /\ snapPhys = phys
    \/ pc = "apply" /\ snapPhys = phys /\ snapLogs = logs
    \/ pc \notin {"read", "readlogs", "apply"} /\ cachedPhys = phys /\ cachedLogs = logs

\* configure_dev changes no address without an event, and brings no removed
\* node back.
LEMMA ConfigureReports ==
    ASSUME AdapterType, ClaimInv, ConfigureDev
    PROVE  (event' \/ UNCHANGED <<phys, logs>>) /\ gone' = gone /\ (event => event')
<1> DEFINE Reports == (event' \/ UNCHANGED <<phys, logs>>) /\ gone' = gone /\ (event => event')
<1>1. CASE ConfigureRefused
  BY <1>1 DEF ConfigureRefused
<1>2. ASSUME NEW p \in ConfiguredPhys, ConfigureStops(p) \/ ConfigureCleared(p)
      PROVE  Reports
  BY <1>2 DEF AdapterType, ConfigureStops, ConfigureCleared, MoveTo
<1>3. ASSUME NEW p \in ConfiguredPhys, NEW l \in Logs, ConfigureSucceeds(p, l)
      PROVE  Reports
  BY <1>3 DEF AdapterType, ConfigureSucceeds, MoveTo
<1>4. QED
  BY <1>1, <1>2, <1>3 DEF ConfigureDev, ConfigureOk, ConfigureFails

\* Every step keeps the mirror: the kernel's by posting an event, the
\* handler's by reading before it writes and by clearing the event first.
LEMMA MirroredNext ==
    ASSUME TypeInv, Mirrored, [Next]_vars
    PROVE  Mirrored'
<1> USE DEF Mirrored, snapshot, cache, work
<1>1. AdapterType /\ ClaimInv
  BY DEF TypeInv, TypeOK
<1>3. ASSUME ConfigureDev, pc \notin {"read", "readlogs"}, pc' \notin {"read", "readlogs", "apply"},
             UNCHANGED <<cachedLogs, missed>>,
             cachedPhys' = IF pc = "apply" THEN snapPhys ELSE cachedPhys,
             pc = "apply" => cachedLogs = snapLogs
      PROVE  Mirrored'
  BY <1>1, <1>3, ConfigureReports
<1>4. CASE Plug
  <2>1. ASSUME NEW p \in Phys, Hotplug(p) PROVE event'
    BY <2>1 DEF Hotplug, MoveTo
  <2>2. ASSUME Unplug PROVE gone'
    BY <2>2 DEF Unplug
  <2>3. QED BY <1>4, <2>1, <2>2 DEF Plug
<1>5. CASE ClaimEnds
  BY <1>5 DEF ClaimEnds, ClaimDone
<1>6. CASE Boot
  BY <1>3, <1>6 DEF Boot, ConfigureDev
<1>7. CASE StateChange
  BY <1>7 DEF StateChange
<1>8. CASE StateChangeLost
  BY <1>8 DEF StateChangeLost
<1>9. CASE ReadPhys
  BY <1>9 DEF ReadPhys, adapterVars
<1>10. CASE ReadLogs
  BY <1>10 DEF ReadLogs, adapterVars
<1>11. CASE ApplyAborted
  BY <1>11 DEF ApplyAborted
<1>12. CASE ApplyLost
  BY <1>12 DEF ApplyLost, adapterVars
<1>13. CASE ApplyGained
  BY <1>13 DEF ApplyGained, adapterVars
<1>14. CASE ApplyRetry
  BY <1>3, <1>14 DEF ApplyRetry
<1>15. CASE ApplySame
  BY <1>15 DEF ApplySame, adapterVars
<1>16. CASE ActivateIfConfigured \/ WithLogicalAddress \/ RunReport \/ RunActivate
  BY <1>16 DEF ActivateIfConfigured, WithLogicalAddress, RunReport, RunActivate, adapterVars
<1>17. CASE RunWake
  BY <1>17 DEF RunWake, wake, adapterVars
<1>18. CASE WakeTrySent
  BY <1>18 DEF WakeTrySent, NextWakeTry, adapterVars
<1>19. CASE WakeTryReconfigure
  BY <1>3, <1>19 DEF WakeTryReconfigure, NextWakeTry
<1>20. CASE WakeDisconnected
  BY <1>20 DEF WakeDisconnected, adapterVars
<1>21. CASE HandleMessage
  <2>1. ASSUME NEW a \in Phys, SourceNamed(a) \/ RoutingChange(a) PROVE Mirrored'
    BY <2>1 DEF SourceNamed, RoutingChange, Receive, Selecting, adapterVars
  <2>2. ASSUME NEW wake_tv \in BOOLEAN, NEW from_standby \in BOOLEAN,
               Wake(wake_tv, from_standby)
        PROVE  Mirrored'
    BY <2>2 DEF Wake, adapterVars
  <2>3. CASE Reconfigure
    BY <1>3, <2>3 DEF Reconfigure, Receive, Selecting, taskVars
  <2>4. QED BY <1>21, <2>1, <2>2, <2>3 DEF HandleMessage
<1>22. CASE Destroyed \/ Cancelled
  BY <1>22 DEF Destroyed, Cancelled, Selecting, adapterVars
<1>23. CASE UNCHANGED vars
  BY <1>23 DEF vars, taskVars, adapterVars
<1>24. QED
  BY <1>4, <1>5, <1>6, <1>7, <1>8, <1>9, <1>10, <1>11, <1>12, <1>13, <1>14, <1>15,
     <1>16, <1>17, <1>18, <1>19, <1>20, <1>21, <1>22, <1>23
     DEF Next, Task, HandleStateChange, RunCallbacks, Stopped

\* PhysicalAddress and LogicalAddresses on the bus are the adapter's whenever
\* the task waits and nothing is pending. Whatever failed before, the next
\* state change that is handled to its end makes them so again.
THEOREM CachesFresh == Spec => []CacheFresh
<1>1. Init => Mirrored
  BY DEF Init, AdapterInit, Mirrored
<1>2. TypeInv /\ Mirrored /\ [Next]_vars => Mirrored'
  BY MirroredNext
<1>3. Mirrored => CacheFresh
  BY DEF Mirrored, CacheFresh, Selecting
<1>4. QED
  BY <1>1, <1>2, <1>3, TypeInvAlways, PTL DEF Spec

-----------------------------------------------------------------------------
(* The address Device transmits under.                                     *)

\* configure_dev leaves Device with the adapter's address, or an event; a
\* busy adapter has no address that Device could have missed.
LEMMA ConfigureTxAddr ==
    ASSUME AdapterType, ClaimInv, TxAddrFresh, ConfigureDev
    PROVE  TxAddrFresh'
<1> USE DEF TxAddrFresh
<1>1. CASE ConfigureRefused
  BY <1>1 DEF ConfigureRefused
<1>2. ASSUME NEW p \in ConfiguredPhys, ConfigureStops(p) PROVE TxAddrFresh'
  <2>1. CASE claiming'
    <3>1. logs' = NoLog
      BY <1>2, <2>1 DEF ConfigureStops, MoveTo, ClaimInv
    <3>2. QED BY <1>2, <3>1 DEF ConfigureStops
  <2>2. CASE ~claiming'
    BY <1>2, <2>2 DEF ConfigureStops
  <2>3. QED BY <2>1, <2>2
<1>3. ASSUME NEW p \in ConfiguredPhys, ConfigureCleared(p) PROVE TxAddrFresh'
  BY <1>3 DEF ConfigureCleared
<1>4. ASSUME NEW p \in ConfiguredPhys, NEW l \in Logs, ConfigureSucceeds(p, l)
      PROVE  TxAddrFresh'
  BY <1>4 DEF AdapterType, ConfigureSucceeds, MoveTo
<1>5. QED
  BY <1>1, <1>2, <1>3, <1>4 DEF ConfigureDev, ConfigureOk, ConfigureFails

\* Every step keeps tx_logical_address current or an event pending.
LEMMA TxAddrNext ==
    ASSUME TypeInv, TxAddrFresh, [Next]_vars
    PROVE  TxAddrFresh'
<1>1. AdapterType /\ ClaimInv
  BY DEF TypeInv, TypeOK
<1>2. CASE ConfigureDev
  BY <1>1, <1>2, ConfigureTxAddr
<1>3. CASE UNCHANGED adapterVars
  BY <1>3 DEF adapterVars, TxAddrFresh
<1>4. CASE Plug
  BY <1>4 DEF Plug, Hotplug, MoveTo, Unplug, TxAddrFresh
<1>5. CASE ClaimEnds
  BY <1>5 DEF ClaimEnds, ClaimDone, TxAddrFresh
<1>6. CASE DequeueEvent
  BY <1>6 DEF DequeueEvent, TxAddrFresh
<1>7. CASE DequeueEventFails
  BY <1>7 DEF DequeueEventFails, TxAddrFresh
<1>8. CASE Boot
  BY <1>2, <1>8 DEF Boot, ConfigureDev
<1>9. CASE HandleStateChange
  BY <1>2, <1>3, <1>6, <1>7, <1>9
     DEF HandleStateChange, StateChange, StateChangeLost, ReadPhys, ReadLogs,
         ApplyAborted, ApplyLost, ApplyGained, ApplyRetry, ApplySame
<1>10. CASE RunCallbacks
  BY <1>2, <1>3, <1>10
     DEF RunCallbacks, ActivateIfConfigured, WithLogicalAddress, RunReport, RunActivate,
         RunWake, WakeTrySent, WakeTryReconfigure, WakeDisconnected
<1>11. CASE HandleMessage
  BY <1>2, <1>3, <1>11 DEF HandleMessage, SourceNamed, RoutingChange, Wake, Reconfigure
<1>12. CASE Destroyed \/ Cancelled
  BY <1>3, <1>12 DEF Destroyed, Cancelled
<1>13. CASE UNCHANGED vars
  BY <1>3, <1>13 DEF vars
<1>14. QED
  BY <1>4, <1>5, <1>8, <1>9, <1>10, <1>11, <1>12, <1>13 DEF Next, Task, Stopped

\* Device transmits under the adapter's address unless it has not dequeued
\* the state change that took the address away, or a call failed since the
\* last one.
THEOREM TxAddrIsFresh == Spec => []TxAddrFresh
<1>1. Init => TxAddrFresh
  BY DEF Init, AdapterInit, TxAddrFresh
<1>2. TypeInv /\ TxAddrFresh /\ [Next]_vars => TxAddrFresh'
  BY TxAddrNext
<1>3. QED
  BY <1>1, <1>2, TypeInvAlways, PTL DEF Spec

-----------------------------------------------------------------------------
(* A registration that is being retried goes on.                           *)

\* Some retries are spent and some are left only while something is still to
\* come that leads to the next one, or to an address, or while there is
\* nothing to retry: the adapter is gone or has lost its physical address. A
\* call that failed ends the chain until the next state change.
RetryPending ==
    \/ logAddrTry \in {0, LOG_ADDR_RETRIES}
    \/ gone \/ event \/ claiming \/ missed \/ failed
    \/ pc \in {"read", "readlogs", "apply"}
    \/ logs # NoLog \/ phys = NoPhys

\* configure_dev, which every retry runs, has the kernel report something or
\* finds a claim running, unless there is nothing to claim with.
LEMMA ConfigureContinues ==
    ASSUME CapLogAddrs, AdapterType, ConfigureDev
    PROVE  gone' \/ event' \/ claiming' \/ failed' \/ phys' = NoPhys
<1>1. CASE ConfigureRefused
  BY <1>1 DEF ConfigureRefused, AdapterType
<1>2. ASSUME NEW p \in ConfiguredPhys, ConfigureStops(p) \/ ConfigureCleared(p)
      PROVE  claiming' \/ failed'
  BY <1>2 DEF ConfigureStops, ConfigureCleared, AdapterType
<1>3. ASSUME NEW p \in ConfiguredPhys, NEW l \in Logs, ConfigureSucceeds(p, l)
      PROVE  event' \/ phys' = NoPhys
  BY <1>3 DEF ConfigureSucceeds
<1>4. QED
  BY <1>1, <1>2, <1>3 DEF ConfigureDev, ConfigureOk, ConfigureFails

\* Every step keeps RetryPending. The handler of a state change decides on
\* what it has read, which Mirrored says is what the adapter has.
LEMMA RetryPendingNext ==
    ASSUME CapLogAddrs, TypeInv, Mirrored, RetryPending, [Next]_vars
    PROVE  RetryPending'
<1>1. AdapterType /\ logAddrTry \in 0..LOG_ADDR_RETRIES
  BY DEF TypeInv, TypeOK
<1>3. CASE ConfigureDev
  BY <1>1, <1>3, ConfigureContinues DEF RetryPending
<1>4. CASE /\ UNCHANGED <<adapterVars, logAddrTry, missed>>
           /\ pc \in {"read", "readlogs", "apply"} => pc' \in {"read", "readlogs", "apply"}
  BY <1>4 DEF RetryPending, adapterVars
<1>5. CASE Plug
  BY <1>5 DEF Plug, Hotplug, MoveTo, Unplug, RetryPending
<1>6. CASE ClaimEnds
  BY <1>6 DEF ClaimEnds, ClaimDone, RetryPending
<1>7. CASE Boot \/ ApplyRetry \/ WakeTryReconfigure \/ Reconfigure
  BY <1>3, <1>7 DEF Boot, ConfigureDev, ApplyRetry, WakeTryReconfigure, Reconfigure
<1>8. CASE StateChange
  BY <1>8 DEF StateChange, RetryPending
<1>9. CASE StateChangeLost \/ ApplyAborted
  BY <1>9 DEF StateChangeLost, ApplyAborted, RetryPending
<1>10. CASE ReadPhys \/ ReadLogs
  BY <1>10 DEF ReadPhys, ReadLogs, RetryPending
<1>11. CASE ApplyLost
  BY <1>11 DEF ApplyLost, RetryPending
<1>12. CASE ApplyGained \/ ApplySame
  <2>1. gone \/ event \/ missed \/ (snapPhys = phys /\ snapLogs = logs)
    BY <1>12 DEF ApplyGained, ApplySame, Mirrored
  <2>2. UNCHANGED <<phys, logs, event, gone, logAddrTry, missed>>
    BY <1>12 DEF ApplyGained, ApplySame, adapterVars, retry, snapshot
  <2>3. snapLogs # NoLog \/ snapPhys = NoPhys \/ logAddrTry = 0
    BY <1>1, <1>12 DEF ApplyGained, ApplySame, Unregistered
  <2>4. QED BY <2>1, <2>2, <2>3 DEF RetryPending
<1>13. CASE RunCallbacks /\ ~WakeTryReconfigure
  BY <1>4, <1>13
     DEF RunCallbacks, ActivateIfConfigured, WithLogicalAddress, RunReport, RunActivate,
         RunWake, WakeTrySent, NextWakeTry, WakeDisconnected, retry, snapshot
<1>14. CASE HandleMessage /\ ~Reconfigure
  BY <1>4, <1>14 DEF HandleMessage, SourceNamed, RoutingChange, Wake, retry, snapshot
<1>15. CASE Destroyed \/ Cancelled
  BY <1>4, <1>15 DEF Destroyed, Cancelled, Selecting, retry, snapshot
<1>16. CASE UNCHANGED vars
  BY <1>4, <1>16 DEF vars, taskVars, retry, snapshot
<1>17. QED
  BY <1>5, <1>6, <1>7, <1>8, <1>9, <1>10, <1>11, <1>12, <1>13, <1>14, <1>15, <1>16
     DEF Next, Task, HandleStateChange, Stopped

\* No registration is abandoned half way, on an adapter whose addresses are
\* cecd's to register: without LOG_ADDRS a retry asks nothing of the kernel,
\* and gets no answer.
THEOREM RetriesGoOn ==
    ASSUME CapLogAddrs
    PROVE  Spec => []RetriesContinue
<1>1. Init => Mirrored /\ RetryPending
  BY DEF Init, AdapterInit, Mirrored, RetryPending
<1>2. TypeInv /\ Mirrored /\ [Next]_vars => Mirrored'
  BY MirroredNext
<1>3. TypeInv /\ Mirrored /\ RetryPending /\ [Next]_vars => RetryPending'
  BY RetryPendingNext
<1>4. RetryPending => RetriesContinue
  BY DEF RetryPending, RetriesContinue, Selecting
<1>5. QED
  BY <1>1, <1>2, <1>3, <1>4, TypeInvAlways, PTL DEF Spec
=============================================================================
