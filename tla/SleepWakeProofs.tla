-------------------------- MODULE SleepWakeProofs --------------------------
(***************************************************************************)
(* Proofs about SleepWake for every number of devices, every capacity of   *)
(* the channel and every bound.                                            *)
(***************************************************************************)
EXTENDS SleepWake, SequenceTheorems, TLAPS

USE SleepWakeAssumption

Labels == {"idle", "suspend", "call", "ended"}

\* The part of the state the suspend protocol runs on has its types.
CoreType ==
    /\ logind \in {"awake", "preparing", "asleep"}
    /\ signals \in Seq(Signals)
    /\ pc \in [Devices -> Labels]

\* A sequence of more than one element has a nonempty tail.
LEMMA TailNonEmpty ==
    ASSUME NEW S, NEW s \in Seq(S), s # <<>>, Len(s) # 1
    PROVE  Tail(s) # <<>>
<1>1. Len(s) \in Nat /\ Len(s) # 0
  OBVIOUS
<1>2. Tail(s) \in Seq(S) /\ Len(Tail(s)) = Len(s) - 1
  BY HeadTailProperties
<1>3. Len(Tail(s)) # 0
  BY <1>1, <1>2
<1>4. Len(<<>>) = 0
  BY EmptySeq
<1>5. QED
  BY <1>3, <1>4, Zenon

\* Nothing is under way when System has been created.
LEMMA CoreTypeInit == Init => CoreType
BY DEF Init, CoreType, Labels

\* Every step keeps those types.
LEMMA CoreTypeNext ==
    ASSUME CoreType, [Next]_vars
    PROVE  CoreType'
<1> USE DEF CoreType, Labels
<1>1. ASSUME NEW cause \in {"user", "tv"}, Prepare(cause)
      PROVE  logind' = "preparing" /\ signals' \in Seq(Signals)
  <2>1. [sleep |-> TRUE, cause |-> cause] \in Signals
    BY DEF Signals
  <2>2. QED BY <1>1, <2>1 DEF Prepare
<1>2. ASSUME NEW sleep \in BOOLEAN, Received(sleep) PROVE signals' \in Seq(Signals)
  BY <1>2 DEF Received
<1>3. CASE UserSuspend
  BY <1>1, <1>3 DEF UserSuspend
<1>4. CASE Sleep
  BY <1>4 DEF Sleep
<1>5. CASE WakeUp
  BY <1>5 DEF WakeUp, Signals
<1>6. CASE Run
  BY <1>2, <1>6 DEF Run, RunSleep, RunWake
<1>7. CASE SetConfig \/ ReconfigConnector \/ WakeAll \/ StandbyAll
  BY <1>7 DEF SetConfig, ReconfigConnector, WakeAll, StandbyAll, Call
<1>8. ASSUME NEW d \in Devices, TvStandby(d) \/ DeviceStep(d) PROVE CoreType'
  <2>1. CASE TvStandby(d)
    BY <2>1 DEF TvStandby, Goto
  <2>2. CASE SuspendFlag(d)
    BY <2>2 DEF SuspendFlag, Goto
  <2>3. CASE SuspendCall(d)
    BY <1>1, <2>3 DEF SuspendCall, Goto
  <2>4. CASE HandleSystemMessage(d) \/ Lag(d)
    BY <2>4 DEF HandleSystemMessage, Lag, Goto
  <2>5. QED BY <1>8, <2>1, <2>2, <2>3, <2>4 DEF DeviceStep
<1>9. CASE UNCHANGED vars
  BY <1>9 DEF vars
<1>10. QED
  BY <1>3, <1>4, <1>5, <1>6, <1>7, <1>8, <1>9 DEF Next, Quiet

-----------------------------------------------------------------------------
(* System.standby refers to a suspend, or to one that logind refused.      *)

\* When logind is awake, the last thing it announced was a wake-up: it is
\* what run() still has to receive after the announcement of the sleep.
WakeAnnounced ==
    logind = "awake" /\ signals # <<>> => signals[Len(signals)].sleep = FALSE

FlagInv == CoreType /\ WakeAnnounced /\ StandbyMeansSuspending

\* Every step keeps WakeAnnounced.
LEMMA WakeAnnouncedNext ==
    ASSUME CoreType, WakeAnnounced, [Next]_vars
    PROVE  WakeAnnounced'
<1> USE DEF CoreType, WakeAnnounced
<1>1. CASE UserSuspend \/ Sleep
  BY <1>1 DEF UserSuspend, Prepare, Sleep
<1>2. CASE WakeUp
  BY <1>2 DEF WakeUp
<1>3. CASE Run
  BY <1>3 DEF Run, RunSleep, RunWake, Received
<1>4. CASE UNCHANGED <<logind, signals>>
  BY <1>4
<1>5. CASE SetConfig \/ ReconfigConnector \/ WakeAll \/ StandbyAll
  BY <1>4, <1>5 DEF SetConfig, ReconfigConnector, WakeAll, StandbyAll, Call
<1>6. ASSUME NEW d \in Devices, TvStandby(d) \/ DeviceStep(d) PROVE WakeAnnounced'
  <2>1. CASE SuspendCall(d)
    BY <1>4, <2>1 DEF SuspendCall, Prepare
  <2>2. CASE ~SuspendCall(d)
    BY <1>4, <1>6, <2>2 DEF DeviceStep, TvStandby, SuspendFlag, HandleSystemMessage, Lag
  <2>3. QED BY <2>1, <2>2
<1>7. CASE UNCHANGED vars
  BY <1>4, <1>7 DEF vars
<1>8. QED
  BY <1>1, <1>2, <1>3, <1>5, <1>6, <1>7 DEF Next, Quiet

\* Every step keeps StandbyMeansSuspending.
LEMMA FlagNext ==
    ASSUME FlagInv, [Next]_vars
    PROVE  StandbyMeansSuspending'
<1> USE DEF FlagInv, CoreType, StandbyMeansSuspending, SuspendUnderWay
<1>1. CASE UserSuspend \/ Sleep
  BY <1>1 DEF UserSuspend, Prepare, Sleep
<1>2. CASE WakeUp
  BY <1>2 DEF WakeUp
<1>3. CASE RunSleep
  <2>1. CASE logind = "awake"
    <3>1. signals # <<>> /\ Head(signals).sleep = TRUE
      BY <1>3 DEF RunSleep, Received
    <3>2. Len(signals) # 1
      <4>1. signals[Len(signals)].sleep = FALSE
        BY <2>1, <3>1 DEF WakeAnnounced
      <4>2. Head(signals) = signals[1]
        BY <3>1
      <4>3. QED BY <3>1, <4>1, <4>2
    <3>3. Tail(signals) # <<>>
      BY <3>1, <3>2, TailNonEmpty
    <3>4. QED BY <1>3, <3>3 DEF RunSleep, Received
  <2>2. CASE logind # "awake"
    BY <1>3, <2>2 DEF RunSleep
  <2>3. QED BY <2>1, <2>2
<1>4. CASE RunWake
  BY <1>4 DEF RunWake
<1>5. CASE SetConfig \/ ReconfigConnector \/ WakeAll \/ StandbyAll
  BY <1>5 DEF SetConfig, ReconfigConnector, WakeAll, StandbyAll, Call, system
<1>6. ASSUME NEW d \in Devices, TvStandby(d) \/ DeviceStep(d) PROVE StandbyMeansSuspending'
  <2>1. CASE TvStandby(d)
    BY <2>1 DEF TvStandby, Goto, system
  <2>2. CASE SuspendFlag(d)
    BY <2>2 DEF SuspendFlag, Goto
  <2>3. CASE SuspendCall(d)
    BY <2>3 DEF SuspendCall, Prepare, Running, system
  <2>4. CASE HandleSystemMessage(d) \/ Lag(d)
    BY <2>4 DEF HandleSystemMessage, Lag, Goto, system
  <2>5. QED BY <1>6, <2>1, <2>2, <2>3, <2>4 DEF DeviceStep
<1>7. CASE UNCHANGED vars
  BY <1>7 DEF vars, system
<1>8. QED
  BY <1>1, <1>2, <1>3, <1>4, <1>5, <1>6, <1>7 DEF Next, Run, Quiet

\* The flag is set only while a suspend is asked for, announced, under way or
\* refused, whatever the TVs, the user, the clients and logind's patience do.
THEOREM FlagSound == Spec => []StandbyMeansSuspending
<1>1. Init => FlagInv
  BY CoreTypeInit DEF Init, FlagInv, WakeAnnounced, StandbyMeansSuspending
<1>2. FlagInv /\ [Next]_vars => FlagInv'
  BY CoreTypeNext, WakeAnnouncedNext, FlagNext DEF FlagInv
<1>3. FlagInv => StandbyMeansSuspending
  BY DEF FlagInv
<1>4. QED
  BY <1>1, <1>2, <1>3, PTL DEF Spec

-----------------------------------------------------------------------------
(* No echo of a TV's Standby, as long as only TVs suspend the machine.     *)

TvSleeps == [sleep |-> TRUE, cause |-> "tv"]
WokeUp   == [sleep |-> FALSE]

\* Receiving from, and adding to, a queue of at most two signals.
LEMMA ShortQueues ==
    ASSUME NEW x, NEW y
    PROVE  /\ Append(<<>>, x) = <<x>> /\ Append(<<y>>, x) = <<y, x>>
           /\ Head(<<x>>) = x /\ Tail(<<x>>) = <<>>
           /\ Head(<<y, x>>) = y /\ Tail(<<y, x>>) = <<x>>
<1>1. Append(<<>>, x) = <<x>>
  OBVIOUS
<1>2. Append(<<y>>, x) = <<y, x>>
  <2>1. <<y>> \in Seq({x, y}) /\ <<y, x>> \in Seq({x, y}) /\ x \in {x, y}
    OBVIOUS
  <2>2. /\ Append(<<y>>, x) \in Seq({x, y}) /\ Len(Append(<<y>>, x)) = 2
        /\ Append(<<y>>, x)[1] = y /\ Append(<<y>>, x)[2] = x
    BY <2>1, AppendProperties
  <2>3. Len(<<y, x>>) = 2 /\ <<y, x>>[1] = y /\ <<y, x>>[2] = x
    OBVIOUS
  <2>4. \A i \in 1..2 : Append(<<y>>, x)[i] = <<y, x>>[i]
    <3>1. \A i \in 1..2 : i = 1 \/ i = 2
      OBVIOUS
    <3>2. QED BY <2>2, <2>3, <3>1, Zenon
  <2>5. QED BY <2>1, <2>2, <2>3, <2>4, SeqEqual, Zenon
<1>3. Head(<<x>>) = x /\ Head(<<y, x>>) = y
  OBVIOUS
<1>4. Tail(<<x>>) = <<>>
  OBVIOUS
<1>5. Tail(<<y, x>>) = <<x>>
  OBVIOUS
<1>6. QED
  BY <1>1, <1>2, <1>3, <1>4, <1>5

\* An announcement is one of a sleep or one of a wake-up.
LEMMA SignalKinds == TvSleeps.sleep = TRUE /\ WokeUp.sleep = FALSE
BY DEF TvSleeps, WokeUp

\* The signals that can be waiting, by what logind does.
Phase ==
    \/ logind = "awake" /\ signals \in {<<>>, <<WokeUp>>, <<TvSleeps, WokeUp>>}
    \/ logind \in {"preparing", "asleep"} /\ signals \in {<<>>, <<TvSleeps>>}

\* From the moment suspend() claims the flag until run() hears of the
\* wake-up, the flag is set, and one task at most calls logind.
Claimed ==
    /\ logind # "awake" \/ signals # <<>> => standby = TRUE
    /\ \A d \in Devices : pc[d] = "call" =>
           /\ logind = "awake" /\ signals = <<>> /\ standby = TRUE
           /\ \A e \in Devices : pc[e] = "call" => e = d

EchoInv == pc \in [Devices -> Labels] /\ suspends \in Nat /\ Phase /\ Claimed

\* Nobody else has suspended the machine before a step after which nobody has.
LEMMA AloneBefore ==
    ASSUME suspends \in Nat, [Next]_vars
    PROVE  suspends' \in Nat /\ (suspends' = 0 => suspends = 0 /\ ~UserSuspend)
<1>1. CASE UserSuspend
  BY <1>1 DEF UserSuspend
<1>2. CASE ~UserSuspend
  <2>1. suspends' = suspends
    BY <1>2 DEF Next, Quiet, Sleep, WakeUp, Run, RunSleep, RunWake, SetConfig,
                ReconfigConnector, WakeAll, StandbyAll, Call, TvStandby, DeviceStep,
                SuspendFlag, SuspendCall, HandleSystemMessage, Lag, vars, counters
  <2>2. QED BY <1>2, <2>1
<1>3. QED BY <1>1, <1>2

\* Every step but a suspend of the user's keeps EchoInv.
LEMMA EchoInvNext ==
    ASSUME EchoInv, ~UserSuspend, [Next]_vars
    PROVE  EchoInv'
<1> USE DEF EchoInv
<1>2. CASE Sleep
  BY <1>2 DEF Sleep, Phase, Claimed, system, counters
<1>3. CASE WakeUp
  <2>1. signals' = <<WokeUp>> \/ signals' = <<TvSleeps, WokeUp>>
    <3>1. signals' = Append(signals, WokeUp) /\ signals \in {<<>>, <<TvSleeps>>}
      BY <1>3 DEF WakeUp, Phase, WokeUp
    <3>2. QED BY <3>1, ShortQueues, Zenon
  <2>2. QED BY <1>3, <2>1 DEF WakeUp, Phase, Claimed, system, counters
<1>4. CASE RunSleep
  <2>1. \/ logind = "awake" /\ signals' = <<WokeUp>>
        \/ logind = "preparing" /\ signals' = <<>>
    <3>1. /\ logind # "asleep" /\ signals # <<>>
          /\ Head(signals).sleep = TRUE /\ signals' = Tail(signals)
      BY <1>4 DEF RunSleep, Received, Running
    <3>2. signals # <<WokeUp>>
      BY <3>1, ShortQueues, SignalKinds
    <3>3. \/ logind = "awake" /\ signals = <<TvSleeps, WokeUp>>
          \/ logind = "preparing" /\ signals = <<TvSleeps>>
      BY <3>1, <3>2 DEF Phase
    <3>4. QED BY <3>1, <3>3, ShortQueues
  <2>2. \A d \in Devices : pc[d] # "call"
    BY <1>4 DEF RunSleep, Received, Claimed
  <2>3. QED BY <1>4, <2>1, <2>2 DEF RunSleep, Phase, Claimed, counters
<1>5. CASE RunWake
  <2>1. logind = "awake" /\ signals' = <<>>
    <3>1. /\ logind # "asleep" /\ signals # <<>>
          /\ Head(signals).sleep = FALSE /\ signals' = Tail(signals)
      BY <1>5 DEF RunWake, Received, Running
    <3>2. signals # <<TvSleeps>> /\ signals # <<TvSleeps, WokeUp>>
      BY <3>1, ShortQueues, SignalKinds
    <3>3. logind = "awake" /\ signals = <<WokeUp>>
      BY <3>1, <3>2 DEF Phase
    <3>4. QED BY <3>1, <3>3, ShortQueues
  <2>2. \A d \in Devices : pc[d] # "call"
    BY <1>5 DEF RunWake, Received, Claimed
  <2>3. QED BY <1>5, <2>1, <2>2 DEF RunWake, Phase, Claimed, counters
<1>6. CASE SetConfig \/ ReconfigConnector \/ WakeAll \/ StandbyAll
  BY <1>6 DEF SetConfig, ReconfigConnector, WakeAll, StandbyAll, Call, Phase, Claimed, system, counters
<1>7. ASSUME NEW d \in Devices, TvStandby(d) \/ DeviceStep(d) PROVE EchoInv'
  <2>1. CASE TvStandby(d)
    BY <2>1 DEF TvStandby, Goto, Labels, Phase, Claimed, system
  <2>2. CASE SuspendFlag(d)
    <3>1. pc' \in [Devices -> Labels] /\ suspends' \in Nat /\ Phase'
      BY <2>2 DEF SuspendFlag, Goto, Labels, Phase, counters
    <3>2. Claimed'
      BY <2>2 DEF SuspendFlag, Goto, Labels, Claimed
    <3>3. QED BY <3>1, <3>2
  <2>3. CASE SuspendCall(d)
    <3>1. logind = "awake" /\ signals = <<>> /\ standby' = TRUE
      BY <2>3 DEF SuspendCall, Claimed, system
    <3>2. \/ logind' = "preparing" /\ signals' = <<TvSleeps>>
          \/ UNCHANGED <<logind, signals>>
      <4>1. Prepare("tv") \/ UNCHANGED <<logind, signals>>
        BY <2>3, Zenon DEF SuspendCall
      <4>2. CASE Prepare("tv")
        <5>1. logind' = "preparing" /\ signals' = Append(<<>>, TvSleeps)
          BY <3>1, <4>2, Zenon DEF Prepare, TvSleeps
        <5>2. QED BY <5>1, ShortQueues, Zenon
      <4>3. QED BY <4>1, <4>2
    <3>3. pc' \in [Devices -> Labels] /\ \A e \in Devices : pc'[e] # "call"
      BY <2>3 DEF SuspendCall, Goto, Labels, Claimed
    <3>4. QED BY <2>3, <3>1, <3>2, <3>3 DEF SuspendCall, Phase, Claimed, counters
  <2>4. CASE HandleSystemMessage(d) \/ Lag(d)
    BY <2>4 DEF HandleSystemMessage, Lag, Goto, Labels, Phase, Claimed, system, counters
  <2>5. QED BY <1>7, <2>1, <2>2, <2>3, <2>4 DEF DeviceStep
<1>8. CASE UNCHANGED vars
  BY <1>8 DEF vars, Phase, Claimed, system, counters
<1>9. QED
  BY <1>2, <1>3, <1>4, <1>5, <1>6, <1>7, <1>8 DEF Next, Run, Quiet

InboxType == inbox \in [Devices -> Seq(Messages)]

\* The channel holds messages, and what was sent last is last in every inbox.
LEMMA SendMessageType ==
    ASSUME InboxType, NEW m \in Messages, SendMessage(m)
    PROVE  /\ InboxType'
           /\ \A d \in Devices : inbox'[d] # <<>> => inbox'[d][Len(inbox'[d])] = m
<1> DEFINE rest(d) == IF Len(inbox[d]) < Capacity THEN inbox[d] ELSE Tail(inbox[d])
<1>1. ASSUME NEW d \in Devices PROVE rest(d) \in Seq(Messages)
  <2>1. inbox[d] \in Seq(Messages)
    BY DEF InboxType
  <2>2. CASE Len(inbox[d]) < Capacity
    BY <2>1, <2>2
  <2>3. CASE ~(Len(inbox[d]) < Capacity)
    <3>1. Len(<<>>) = 0
      BY EmptySeq
    <3>2. inbox[d] # <<>>
      BY <2>3, <3>1
    <3>3. QED BY <2>1, <2>3, <3>2, HeadTailProperties
  <2>4. QED BY <2>2, <2>3
<1>2. /\ inbox' = [d \in Devices |-> inbox'[d]]
      /\ \A d \in Devices : inbox'[d] = <<>> \/ inbox'[d] = Append(rest(d), m)
  BY DEF SendMessage
<1> HIDE DEF rest
<1>3. ASSUME NEW d \in Devices
      PROVE  /\ Append(rest(d), m) \in Seq(Messages)
             /\ Append(rest(d), m)[Len(Append(rest(d), m))] = m
  BY <1>1, AppendProperties
<1>4. <<>> \in Seq(Messages)
  BY EmptySeq
<1>5. QED
  BY <1>2, <1>3, <1>4 DEF InboxType

\* Every step keeps InboxType.
LEMMA InboxTypeNext ==
    ASSUME InboxType, [Next]_vars
    PROVE  InboxType'
<1>1. \A b \in BOOLEAN : Standby(b) \in Messages
  BY DEF Messages
<1>2. {Wake, ReloadConfig, ReconfigureConnector} \subseteq Messages
  BY DEF Messages
<1>3. CASE Run \/ SetConfig \/ ReconfigConnector \/ WakeAll \/ StandbyAll
  BY <1>1, <1>2, <1>3, SendMessageType
     DEF Run, RunSleep, RunWake, SetConfig, ReconfigConnector, WakeAll, StandbyAll
<1>4. CASE UNCHANGED channel
  BY <1>4 DEF channel, InboxType
<1>5. CASE UserSuspend \/ Sleep \/ WakeUp \/ UNCHANGED vars
  BY <1>4, <1>5 DEF UserSuspend, Sleep, WakeUp, vars
<1>6. ASSUME NEW d \in Devices, TvStandby(d) \/ DeviceStep(d) PROVE InboxType'
  <2>1. CASE HandleSystemMessage(d)
    <3>1. Tail(inbox[d]) \in Seq(Messages)
      BY <2>1, HeadTailProperties DEF HandleSystemMessage, InboxType
    <3>2. QED BY <2>1, <3>1 DEF HandleSystemMessage, InboxType
  <2>2. CASE Lag(d)
    BY <2>2 DEF Lag, InboxType
  <2>3. CASE TvStandby(d) \/ SuspendFlag(d) \/ SuspendCall(d)
    BY <1>4, <2>3 DEF TvStandby, SuspendFlag, SuspendCall
  <2>4. QED BY <1>6, <2>1, <2>2, <2>3 DEF DeviceStep
<1>7. QED
  BY <1>3, <1>5, <1>6 DEF Next, Quiet

\* Only run() takes a signal from the queue, and it sends what is due.
LEMMA TvSparedNext ==
    ASSUME EchoInv, InboxType, [Next]_vars
    PROVE  TvSpared
<1> SUFFICES ASSUME ReceivesTvSleep
             PROVE  \A d \in Devices :
                        inbox'[d] # <<>> => inbox'[d][Len(inbox'[d])] = Standby(FALSE)
  BY DEF TvSpared
<1>1. signals # <<>> /\ signals' = Tail(signals) /\ Head(signals).sleep = TRUE
  BY DEF ReceivesTvSleep
<1>2. Len(signals') < Len(signals)
  <2>1. signals \in {<<WokeUp>>, <<TvSleeps, WokeUp>>, <<TvSleeps>>}
    BY <1>1 DEF EchoInv, Phase
  <2>2. /\ Len(<<WokeUp>>) = 1 /\ Len(<<TvSleeps>>) = 1
        /\ Len(<<TvSleeps, WokeUp>>) = 2 /\ Len(<<>>) = 0
    OBVIOUS
  <2>3. QED BY <1>1, <2>1, <2>2, ShortQueues
<1>3. signals' # signals
  BY <1>2
<1>4. \A x : signals' # Append(signals, x)
  <2>1. signals \in {<<WokeUp>>, <<TvSleeps, WokeUp>>, <<TvSleeps>>}
    BY <1>1 DEF EchoInv, Phase
  <2>2. \A x : Len(Append(signals, x)) > Len(signals)
    BY <2>1
  <2>3. QED BY <1>2, <2>1, <2>2
<1>5. Run
  BY <1>3, <1>4
     DEF Next, Quiet, UserSuspend, Prepare, Sleep, WakeUp, SetConfig, ReconfigConnector, WakeAll,
         StandbyAll, Call, TvStandby, DeviceStep, SuspendFlag, SuspendCall, HandleSystemMessage, Lag, vars
<1>6. RunSleep
  BY <1>1, <1>5 DEF Run, RunWake, Received
<1>7. standby = TRUE
  BY <1>1 DEF EchoInv, Claimed
<1>8. (config.suspend_tv /\ ~standby) = FALSE
  BY <1>7
<1>9. SendMessage(Standby(FALSE))
  BY <1>6, <1>8 DEF RunSleep
<1>10. QED
  BY <1>9, SendMessageType DEF Messages

\* EchoInv as long as nobody else has suspended the machine.
AloneInv == suspends \in Nat /\ (suspends = 0 => EchoInv) /\ InboxType

\* As long as only TVs put the machine to sleep, none of them is sent a Standby
\* in return, however many ask at once, however long logind waits for cecd and
\* whatever it refuses.
THEOREM TvNotEchoed == Spec => NoEcho
<1>1. Init => AloneInv
  BY DEF Init, AloneInv, EchoInv, Labels, Phase, Claimed, InboxType
<1>2. AloneInv /\ [Next]_vars => AloneInv'
  BY AloneBefore, EchoInvNext, InboxTypeNext DEF AloneInv
<1>3. AloneInv /\ [Next]_vars => [suspends' = 0 => TvSpared]_vars
  BY AloneBefore, TvSparedNext DEF AloneInv
<1>4. QED
  BY <1>1, <1>2, <1>3, PTL DEF Spec, NoEcho

-----------------------------------------------------------------------------
(* The channel never holds more than its capacity.                         *)

InboxBounded == \A d \in Devices : Len(inbox[d]) <= Capacity

\* What is sent to a full channel takes the place of its oldest message.
LEMMA SendMessageBounded ==
    ASSUME InboxType, InboxBounded, NEW m \in Messages, SendMessage(m)
    PROVE  InboxBounded'
<1> SUFFICES ASSUME NEW d \in Devices PROVE Len(inbox'[d]) <= Capacity
  BY DEF InboxBounded
<1>1. inbox[d] \in Seq(Messages) /\ Len(inbox[d]) \in Nat /\ Len(inbox[d]) <= Capacity
  BY DEF InboxType, InboxBounded
<1>2. CASE pc[d] = "ended"
  <2>1. inbox'[d] = <<>>
    BY <1>2 DEF SendMessage
  <2>2. QED BY <2>1, EmptySeq
<1>3. CASE pc[d] # "ended" /\ Len(inbox[d]) < Capacity
  <2>1. inbox'[d] = Append(inbox[d], m)
    BY <1>3 DEF SendMessage
  <2>2. Len(Append(inbox[d], m)) = Len(inbox[d]) + 1
    BY <1>1, AppendProperties
  <2>3. QED BY <1>1, <1>3, <2>1, <2>2
<1>4. CASE pc[d] # "ended" /\ ~(Len(inbox[d]) < Capacity)
  <2>1. inbox'[d] = Append(Tail(inbox[d]), m)
    BY <1>4 DEF SendMessage
  <2>2. inbox[d] # <<>>
    BY <1>1, <1>4, EmptySeq
  <2>3. Tail(inbox[d]) \in Seq(Messages) /\ Len(Tail(inbox[d])) = Len(inbox[d]) - 1
    BY <1>1, <2>2, HeadTailProperties
  <2>4. Len(Append(Tail(inbox[d]), m)) = Len(Tail(inbox[d])) + 1
    BY <2>3, AppendProperties
  <2>5. QED BY <1>1, <2>1, <2>3, <2>4
<1>5. QED
  BY <1>2, <1>3, <1>4

\* Every step keeps the channel within its capacity.
LEMMA InboxBoundedNext ==
    ASSUME InboxType, InboxBounded, [Next]_vars
    PROVE  InboxBounded'
<1>1. \A b \in BOOLEAN : Standby(b) \in Messages
  BY DEF Messages
<1>2. {Wake, ReloadConfig, ReconfigureConnector} \subseteq Messages
  BY DEF Messages
<1>3. CASE Run \/ SetConfig \/ ReconfigConnector \/ WakeAll \/ StandbyAll
  BY <1>1, <1>2, <1>3, SendMessageBounded
     DEF Run, RunSleep, RunWake, SetConfig, ReconfigConnector, WakeAll, StandbyAll
<1>4. CASE UNCHANGED channel
  BY <1>4 DEF channel, InboxBounded
<1>5. CASE UserSuspend \/ Sleep \/ WakeUp \/ UNCHANGED vars
  BY <1>4, <1>5 DEF UserSuspend, Sleep, WakeUp, vars
<1>6. ASSUME NEW d \in Devices, TvStandby(d) \/ DeviceStep(d) PROVE InboxBounded'
  <2>1. CASE HandleSystemMessage(d)
    <3>1. inbox[d] \in Seq(Messages) /\ inbox[d] # <<>> /\ Len(inbox[d]) \in Nat
      BY <2>1 DEF HandleSystemMessage, InboxType
    <3>2. Len(Tail(inbox[d])) = Len(inbox[d]) - 1
      BY <3>1, HeadTailProperties
    <3>3. Len(Tail(inbox[d])) <= Capacity
      BY <3>1, <3>2 DEF InboxBounded
    <3>4. QED BY <2>1, <3>3 DEF HandleSystemMessage, InboxType, InboxBounded
  <2>2. CASE Lag(d)
    BY <2>2, EmptySeq DEF Lag, InboxType, InboxBounded
  <2>3. CASE TvStandby(d) \/ SuspendFlag(d) \/ SuspendCall(d)
    BY <1>4, <2>3 DEF TvStandby, SuspendFlag, SuspendCall
  <2>4. QED BY <1>6, <2>1, <2>2, <2>3 DEF DeviceStep
<1>7. QED
  BY <1>3, <1>5, <1>6 DEF Next, Quiet

\* What System keeps besides, and the counters.
RestType ==
    /\ standby \in BOOLEAN /\ inhibit \in BOOLEAN /\ refused \in BOOLEAN
    /\ config \in Configs
    /\ lagged \in [Devices -> BOOLEAN]
    /\ suspends \in 0..MaxSuspends
    /\ standbys \in 0..MaxStandbys
    /\ calls \in 0..MaxCalls

\* Every step keeps RestType.
LEMMA RestTypeNext ==
    ASSUME RestType, [Next]_vars
    PROVE  RestType'
<1> USE DEF RestType, system, channel, counters
<1>1. ASSUME NEW m, SendMessage(m) PROVE lagged' \in [Devices -> BOOLEAN]
  BY <1>1 DEF SendMessage
<1>2. CASE UserSuspend \/ Sleep \/ WakeUp
  BY <1>2 DEF UserSuspend, Sleep, WakeUp
<1>3. CASE RunSleep
  BY <1>1, <1>3 DEF RunSleep
<1>4. CASE RunWake
  BY <1>1, <1>4 DEF RunWake
<1>5. CASE SetConfig
  BY <1>1, <1>5 DEF SetConfig
<1>6. CASE ReconfigConnector \/ WakeAll \/ StandbyAll
  <2>1. lagged' \in [Devices -> BOOLEAN]
    BY <1>1, <1>6, Zenon DEF ReconfigConnector, WakeAll, StandbyAll
  <2>2. Call
    BY <1>6 DEF ReconfigConnector, WakeAll, StandbyAll
  <2>3. QED BY <2>1, <2>2 DEF Call
<1>7. ASSUME NEW d \in Devices, TvStandby(d) \/ DeviceStep(d) PROVE RestType'
  <2>1. CASE TvStandby(d)
    BY <2>1 DEF TvStandby
  <2>2. CASE SuspendFlag(d)
    BY <2>2 DEF SuspendFlag
  <2>3. CASE SuspendCall(d)
    BY <2>3 DEF SuspendCall
  <2>4. CASE HandleSystemMessage(d) \/ Lag(d)
    BY <2>4 DEF HandleSystemMessage, Lag
  <2>5. QED BY <1>7, <2>1, <2>2, <2>3, <2>4 DEF DeviceStep
<1>8. CASE UNCHANGED vars
  BY <1>8 DEF vars
<1>9. QED
  BY <1>2, <1>3, <1>4, <1>5, <1>6, <1>7, <1>8 DEF Next, Run, Quiet

\* Type correctness, and with it the bound on what a device task may have
\* waiting: a slow task is told that it lags, it does not fill the memory.
THEOREM ChannelBounded == Spec => []TypeOK
<1> DEFINE Parts == CoreType /\ InboxType /\ InboxBounded /\ RestType
<1>1. Init => Parts
  <2> SUFFICES ASSUME Init PROVE Parts
    OBVIOUS
  <2>1. InboxType /\ InboxBounded
    BY EmptySeq DEF Init, InboxType, InboxBounded
  <2>2. standby \in BOOLEAN /\ inhibit \in BOOLEAN /\ refused \in BOOLEAN
    BY Zenon DEF Init
  <2>3. QED BY <2>1, <2>2, CoreTypeInit DEF Init, RestType
<1>2. Parts /\ [Next]_vars => Parts'
  BY CoreTypeNext, InboxTypeNext, InboxBoundedNext, RestTypeNext
<1>3. Parts => TypeOK
  BY DEF CoreType, Labels, InboxType, InboxBounded, RestType, TypeOK
<1> HIDE DEF Parts
<1>4. QED
  BY <1>1, <1>2, <1>3, PTL DEF Spec
=============================================================================
