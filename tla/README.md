# A TLA+ model of cecd

This directory holds TLA+ modules, TLC configurations and TLAPS proofs about
**cecd**, the HDMI-CEC daemon of the linux-cec repository, and about the part of
the **linux-cec** library it drives, its codec included. `PROJECT.json` maps every definition that
models code to the lines it models.

To reproduce a result, in this directory:

    tlc -workers 2 -config KeyRepeat_repeats.cfg MCKeyRepeat
    tlapm KeyRepeatProofs.tla

Every run below ends within two minutes on two workers.

## 1. The system and its parts

cecd is one process on tokio. `System` holds the shared state behind one async
mutex. For every `/dev/cecN` there is a `DeviceTask`, and a `CecDevice` D-Bus
object with its own lock. A linux-cec `Device` issues the ioctls.
A thread per device executes them on commands from a channel (`AsyncDevice`), and
another one polls. `System` talks to the device tasks over a broadcast channel of ten slots. logind,
the kernel, other CEC devices and D-Bus clients are the environment.

| Component (source) | State | Operations | Talks to |
|---|---|---|---|
| Kernel adapter (external) | physical address, claimed logical addresses, one coalesced state-change event | hotplug, claim, removal | Device by ioctl and poll |
| Device (`linux-cec/src/device.rs`) | `tx_logical_address`, internal pipe | set and clear addresses, `handle_status`, transmit, poll | kernel |
| AsyncDevice (`linux-cec/src/async_support.rs`) | a thread and a command channel per device | every method of Device, relayed | Device |
| DeviceTask (`cecd/src/device.rs`) | `log_addr_try`, `with_logical_address_queue`, `active`, `awaiting_wake`, `active_key`, audio address | `run`, `handle_poll_result`, `handle_message`, `handle_system_message`, `wake`, `standby` | Device, CecDevice, System |
| CecDevice1 (`cecd/src/dbus.rs`) | cached addresses, vendor id, `key_repeat` | user control, volume, raw messages, properties | Device, KeyRepeat tasks |
| KeyRepeat (`cecd/src/device.rs`) | key, target, token | press until cancelled, then release | Device |
| System: sleep and wake (`cecd/src/system.rs`) | `standby`, `inhibit_fd` | `run`, `suspend`, `wake_all`, `standby_all`, `set_config`, `reconfig_connector` | logind, DeviceTasks |
| System: message handlers (`system.rs`, `message_handler.rs`, `dbus.rs`) | `message_handlers`, one MessageHandlerTask each | register, unregister, watch the client | D-Bus clients |
| System: device registry (`system.rs`, `udev.rs`, `main.rs`) | `devs`, tokens | `find_dev`, `find_devs`, `close_dev`, hotplug | udev |
| Configuration (`config.rs`, `dbus.rs`) | merged settings | load, reload, properties | System |
| uinput (`uinput.rs`) | virtual keyboard, key mapping | press, release | DeviceTask |
| DRM connector and EDID (`cecd/src/device.rs`) | connector identity | find the physical address | file system |
| Codec (`linux-cec/src/{operand,message,cdc,lib}.rs`, `linux-cec-macros`) | none | encode, decode | Device |
| linux-cec-sys, cecd-proxy, cectool | none | bindings, proxies, a command line tool | |

**What is hard.** The device task is sequential, but the kernel moves
between any two of its queries. Deferred callbacks wait for a change of a *cached*
value. Failed registrations are retried from the event they cause themselves.
`wake()` loops inside the only task that could see the answer. The suspend flag
is set under a lock and the call it announces is made outside it. A D-Bus method
waits for a task with a mutex locked. A client may leave at any moment. A key is
repeated by a task that a method cancels and awaits. A configuration is reloaded
while a device is being registered, a node comes back while its first task is on
its way out, and four kinds of locks are held across awaits. Futures that wait for
a thread are dropped by `select!`. Encoder, decoder and length of an operand are
separate code. The hazards of `PROJECT.json` list these with their lines.

**What makes each component correct.**

* DeviceTask: caches equal to the adapter at rest, no stale initiator address,
  bounded and complete retries, no deferred work left behind, the task comes to
  rest and ends with its adapter.
* Sleep and wake: the flag refers to a suspend, no echo to the TV, the sleep is
  never blocked, the TV is told before it.
* Message handlers: every handler is watched, taken only from its owner, removed
  with its client, announced, and every call is answered.
* User control: one repeater per target, no stuck key, calls return, closing
  stops everything.
* Incoming messages: no key left down, one outcome per message, the task gets back
  to its queues.
* Registry: one task per node, no object without a task, no reload lost, no
  circular wait.
* AsyncDevice: calls are atomic, what a poll found is there, every wait ends.
* Codec and parsers: what is composed arrives, what is read can be sent on, nothing
  panics at any length, an address is found exactly if it is there.

## 2. The modules

| Module | Models | Uses |
|---|---|---|
| `Adapter` | the kernel's side of a CEC node, Device's `tx_logical_address`, `System::configure_dev` | |
| `DeviceTask` | DeviceTask's main loop over an adapter | extends `Adapter` |
| `SleepWake` | `SystemHandle::run`, `suspend`, the flag, the inhibitor, the channel | |
| `MessageHandlers` | registration, removal and the watching tasks | |
| `KeyRepeat` | user control methods and KeyRepeat tasks | |
| `Incoming` | `handle_message`, the virtual keyboard, remote handlers and replies | |
| `Registry` | `main`, `System.devs`, registration, hotplug, reloads, and every lock held across an await | |
| `Calls` | what AsyncDevice promises: atomic calls (abstract) | |
| `Relay` | AsyncDevice's and AsyncDevicePoller's threads and channels, DeviceTask's `select!` | instantiates `Calls` |
| `Constants` | the constants of linux-cec-sys that have a meaning in the codec | |
| `Results` | how a conversion ends | |
| `Operands` | one descriptor per operand type | extends `Constants` |
| `Messages` | the fields and the addressing of every message | extends `Operands` |
| `Codec` | lengths, encoding, decoding: `OperandEncodable` and the generated code | extends `Messages`, `Results` |
| `Frames` | `cec_msg`, `Envelope` | extends `Codec` |
| `Discovery` | the EDID parser and connectors | extends `Constants`, `Results` |
| `Settings` | the OSD name, addresses and vendors as text, EDIDs, handling modes, claims, each a step from an input to its outcome | extends `Discovery` |
| `Conversions` | the conversions of the codec, beside those of `Settings` | extends `Frames`, `Settings` |
| `MC…` | model values and symmetry for TLC | extends the module |
| `…Proofs` | theorems | extends the module and TLAPS |

Definitions named `X_Something` next to a definition `X` are variants of it with
a plausible mistake (a guard dropped, a reset forgotten). No specification uses
them. With `X` replaced by one of them, TLC finds the property violated that
`PROJECT.json` names under `mutants`, so no property holds vacuously.

### Adapter and DeviceTask

State: `phys`, `want`, `logs`, `claiming`, `event`, `gone` are the kernel's,
`txAddr` is Device's, and the rest are DeviceTask's fields and locals. `agenda` is what is
left of the handler being executed, so that every `.await` that talks to the
adapter is a step of its own. `snapPhys` and `snapLogs` are the two values
`handle_poll_result` has read and not yet compared with the caches. `retries`
counts the registrations tried again. `failed` and `missed` are histories of what went
wrong: since the last event was dequeued or the last configuration succeeded, a call to the adapter failed half way or for another
reason than the adapter's own state (`failed`); the last state change was not handled
to its end, or not with what the adapter had at that time (`missed`). No guard reads these three;
they appear only in properties.

`StateChange` is `handle_status`'s dequeuing of the event. `ReadPhys` and
`ReadLogs` are the queries, and the `Apply…` actions are the branches of
`handle_poll_result` (addresses lost, gained, retry, same, error).
`WithLogicalAddress` runs or queues a callback. `RunReport`, `RunActivate` and
`RunWake` are the callbacks, `WakeTry…` the iterations of `wake()`.
`SourceNamed` and `RoutingChange` are the messages that change the active source,
`Wake` and `Reconfigure` the messages of System. `configure_dev` is one step: it
runs with the system and the device locked, and the kernel's own step, the end
of a claim, is what makes clearing the addresses fail with EBUSY. It may fail at each of its
calls: before anything was done (`ConfigureRefused`), with the physical address set, with the
logical addresses cleared, and with an address claimed but no follower mode set (`ConfigureFails`).

The data is reduced: one logical address at a time, addresses as model values,
messages without contents. The fault classes are `"rx"` (receiving a message
fails after the event was dequeued), `"read"` (an address query fails), `"emit"`
(a D-Bus signal fails) and `"configure"` (a call in `configure_dev` fails).

### SleepWake

`logind`, `signals` and the actions `UserSuspend`, `Sleep`, `WakeUp` are
external. `signals` is the queue of `PrepareForSleep` signals that `run()` has
not received. `SuspendFlag` and `SuspendCall` are the two halves of `suspend()`, inside and
outside the mutex. `SendMessage` is tokio's broadcast channel: it
overwrites the oldest message, and the receiver that missed it gets
`RecvError::Lagged`, which ends the device task (`Lag`). `refused` and the
`cause` of a signal appear only in properties.

### MessageHandlers

The methods of Daemon1 take `&mut self`, so there is one call at a time: `pc`,
`caller`, `op`, `new`. `Start` spawns the task with System's mutex held and
`Register` goes on when the task has subscribed. `Subscribe`, `ClientGone` and
`TaskUnregisters` are the task. Fault classes: `"subscribe"`
(NameOwnerChanged cannot be subscribed to), `"proxy"` (the handler's proxy
cannot be built), `"emit"` (the change signal cannot be sent, and the call is answered
with an error although the handler was added or removed). `unsaid` has the opcodes of such
calls and appears only in properties. `LeavesEarly` lets a client leave while its call is served.

### KeyRepeat

One entry per target. `CancelAndWait` removes the entry, cancels the task and
awaits its handle in `Awaited`. `Click` is press and release under one lock.
`held` is what the target believes, and `lost` the targets that missed a
transmission since the last release they heard. Tasks that have ended are used
again, so the number of presses is not bounded.

### Incoming

`job` is the message in hand: nothing, a call of a remote handler, or a reply.
Every branch of `handle_message` is an action, and `Dropped` is the error of a
signal or a query before anything was done. `held` is what the input subsystem
sees: a key that goes down stays down until it goes up or the virtual device is
destroyed. A press that fails half way leaves the old key up and `active_key` as it
was. `Reload` drops the device and opens another one with the mappings of the
moment, or fails at any point of that. `verdict` records what came of the last
message and appears only in properties. The conversion of the kernel's status to
an error (`TxErrorOf`, `ErrnoErrorOf`) is modelled as it is, and with it the
retries that never happen.

### Registry

Whoever holds a lock across an await has a *program*, a sequence of steps each of
which waits for a lock, does something and frees locks; `prog` is what is left of
it and `owner` who holds a lock. `Register` is the program of `CecDevice::register`
with `DeviceTask::new`, `ReloadConfig` and `RetryRegistration` are those of the
task, `DeviceMethod` that of a D-Bus method. A device, its token and its task
share a number; `opened` maps it to the path. `object` is what the object server
has at a path: `Publish` leaves an object that is there alone, and `Deregister`
removes whatever is there, as zbus does. `applied`, `mapped` and `shown` are the
versions of the configuration that an adapter, a keyboard and Config1 have. Only
what matters for locks, registry and reloads is kept of each handler. Readers of a
D-Bus object count as writers, and `configure_uinput` always waits for the device:
both only add waiting.

### Calls and Relay

`Calls` has no queue and no thread: a call takes effect once, between its invocation
and its return, and a caller may stop waiting. `Relay` has both, with the poller and
the `select!` of the task that polls. The mapping takes `todo` of `Calls` from the
commands that are still in the channel, caller by caller; device and answers are
the same. `RelaysCalls` is the abstract specification as a property of `Relay`.

### The codec

A Rust type is a record (`Operands`), a message a sequence of types (`Messages`),
and `Codec` says once what the trait and the macros do with them: `SizeOf`,
`ExpectedLen`, `LenOf`, `Encode`, `Decode`. Enumerations and flags are known by their
bits, so that a value is a number or a tuple. The types that derive `BitfieldSpecifier` are
their bytes; their accessors are not modelled. A decoder ends in a value, an error
or a panic; slices behind the end and `todo!` are panics. The operators are recursive,
and nothing is proved about them.

`Conversions` feeds them. `Compose` sends every message with the bounds of its
operands. `Receive` takes messages of every opcode with one byte changed, cut short or
added. `Name` is SetOsdName of CecDevice1 with 0 to 15 bytes.

### Settings

What is configured, read from displays or asked of Device, on its way to the kernel.
`ConfigureName` trims a name and sets it, `ParseAddress` and `ParseVendor` read texts,
`ParseEdid` looks for the physical address in an EDID and `Search` in all connectors,
`SetMode` changes one half of a mode byte, `Claim` fills `cec_log_addrs`. A name is the sequence of the widths of its
characters. A text is a sequence of numbers: a hexadecimal digit is its value, any
other character a number above 15. An EDID is its bytes.
`EdidExact` compares the parser with a definition that has no loop: where the data blocks of
an extension begin (`Starts`), which of them hold an address (`HoldingIn`), the first of all
of them (`AddressIn`). CTA extensions of version 3 or newer count (`CtaBlocks`). One that has only the
tag or only the version is doubtful: whether it counts is left open (`Told`), and `OnlyCta3` says
that it does not. Running sums, the value of digits and the parser's two loops are
recursive functions and not RECURSIVE operators, so that the module can be proved about.
`Conversions` takes the steps of `Settings` beside its own (`Convert`), with the same two
variables, and its run checks the properties of both.

## 3. What TLC checks

| Run | Expect | What it shows |
|---|---|---|
| `device_mirror` | pass | `CacheFresh`, `TxAddrFresh`: caches and initiator address are never silently stale. `RetriesContinue`: no retry cycle is abandoned. `Settles`: the cycle of state change, retry and state change ends. `EndsWhenGone`: a removed adapter ends the task. `TypeOK`, `RetryBound`. All of them with every call failing at any time. |
| `device_stranded` | violation | `NoStrandedCallback`: see finding 1. |
| `sleep_suspend` | pass | `TypeOK`, `StandbyMeansSuspending`, `NoEcho`, `SleepComes`, `FlagClears`, with refused suspends and lagging tasks. |
| `handlers` | pass | `HandlerWatched`, `GoneIsNoticed`, `NothingUnannounced`, `OnlyOwnersLose`, `CallsReturn`, `CleanedUp`, with proxies and signals that fail. |
| `handlers_deadlock` | violation | `CallsReturn` when a subscription fails: finding 2. |
| `keys` | pass | `OneRepeater`, `HeldIsRepeated`, `CallsReturn`, `RepeatsStop`, with presses and releases that fail. |
| `input` | pass | `HeldIsActive`, `OneVerdict`, `MessagesEnd`, with failing writes, reloads between press and release, clients that answer late or never. |
| `registry` | pass | `NoCircularWait`, `NoReloadLost`, `OneServer`, `PublishedIsOwned`, with failing calls and a node that is replugged while it is being registered. |
| `relay` | pass | `RelaysCalls` (the refinement), `StatusStillTrue`, `EveryWaitEnds`, with dropped futures, abandoned polls and a panic of the thread. |
| `conversions` | pass | `NeverPanics`, `ComposedArrives`, `ForeignStable`, `EdidExact`, `NameTrimmed`, `TextExact`, `SettingsKept`. |
| `osd_name` | violation | `OsdNameAccepted`: finding 3. |
| `edid_version` | violation | `OnlyCta3`: finding 4. |

**Findings.** Each is a `violation` run, and TLC's trace is the scenario.

1. A callback deferred by `with_logical_address` stays in the queue although the
   adapter has an address. The queue is drained only when the *cached* addresses
   change, and a loss and a new claim seen as one event do not change them.
2. When the subscription fails, `register_message_handler` waits for its task
   with System locked, and the task waits for that lock.
3. `tx_rx_message` converts the frame it has sent with `Envelope::try_from`, which
   refuses frames of 16 bytes. A name of 14 bytes, the documented maximum, is
   transmitted and then reported as `InvalidData`. (`configure_dev` sets the name
   before an address is claimed and does not transmit; `SetOsdName` of CecDevice1 does.)
   Received frames of 16 bytes, a digital timer for instance, are errors too.
4. The EDID parser skips an extension whose tag is not 2 *and* whose revision is below 3
   (`device.rs:761`), so that it takes an address from tag 2 with any revision and from
   revision 3 with any tag. The comment in that branch says "Requires CTA EDID version 3
   or newer".

**Observed while modelling, without a run.**

* Sleep: `suspend()` does not clear the flag when logind refuses, so that the next
  Standby of a TV is dropped (`system.rs:580`). The inhibitor is released when the
  message is queued, not when the TV has been told (`system.rs:568`). A user's suspend
  and resume between the two halves of `suspend()` makes cecd send the TV a Standby
  (`NoEcho` is therefore stated for behaviours without such a suspend).
* Handlers: a client that leaves before its task has subscribed keeps its handler
  (`message_handler.rs:131`; `GoneIsNoticed` is stated for clients that wait for their
  answers). A handler may be registered for an opcode of `STATIC_HANDLERS` and is
  never called. Nobody is told that `HandledMessages` changed when a client leaves. When
  the signal cannot be sent, the caller gets an error for a handler that is registered.
* Keys: a press that fails ends the repetition without a release, and
  `ReleaseUserControl` then sends none (`device.rs:878`); the entry stays, so that
  pressing the same key again does nothing.
* Device task: when receiving a message fails, a StateChange dequeued together with it is
  lost. `wake()` ends early when `awaiting_wake` is cleared (`device.rs:472`, `:504`), but only the
  task that is inside `wake()` handles the RoutingChange that clears it, so every wake
  makes all its tries.
* Replies: no status of the kernel becomes one of the two errors that are retried
  (`device.rs:452`), and the `TxError::Timeout` that `pending_activate` looks for
  (`device.rs:652`) is never produced. A broadcast Standby whose suspend fails is
  answered with a FeatureAbort.
* Registry: a device whose registration failed, or whose task lagged, keeps its entry
  and is refused when it is announced again (`system.rs:254`). A node that is
  replugged before its first task has ended is registered on the old object, with
  a cancelled token, and its task ends at once (`dbus.rs:455`). A task that ends by
  lag does not cancel its token, so that `main` without hotplugging goes on for ever
  (`device.rs:170`). A node that appears between `find_devs` and the start of the
  udev loop is missed (`main.rs:184`). One registration that fails drops the other
  devices of a search, whose entries stay (`system.rs:484`). A SIGHUP with a bad file
  ends the daemon (`main.rs:206`). `devs` is keyed by the path given, so that a
  symbolic link and its node are two devices. `main.rs:117` says that `-d` is ignored
  with hotplugging and that the first device is used; the code uses `-d`, and else
  all devices.
* AsyncDevice: dropping the poller waits for every abandoned poll, up to two seconds
  each (`async_support.rs:483`).
* Codec and parsers: the addressing type of a message is never enforced. An
  `RcProfile` of a source without any flag decodes as a TV's. The first number of a two-part
  channel is or-ed into the format when it exceeds ten bits. `from_str_radix` accepts
  `+123` as an address. `reload_physical_address` does not check for a root or invalid address.

### Bounds

* DeviceTask: two hotplugs are enough for a loss and a new claim between any two
  queries, and for a removal after a change. `device_mirror` has one valid physical address
  beside the invalid one and two logical ones, which tell a new claim from the old one;
  `device_stranded` has two valid physical addresses, which tell a move from a loss.
  Two retries and two wake attempts (the code has more of each)
  reach the first, a middle and the last attempt. One message puts a
  callback into every phase. `CapPhysAddr` is TRUE in `device_mirror`
  (cecd sets the address, to any of its choices) and FALSE in `device_stranded` (the
  kernel sets it). `CapLogAddrs` is TRUE. The proofs cover every value
  (`RetriesGoOn` assumes `CapLogAddrs`).
* SleepWake: two devices are enough for two TVs to race, a capacity of two for the
  channel to overflow, one user suspend to cross a TV's. `DelayExpires` is FALSE,
  so that `SleepComes` says that cecd itself releases the inhibitor.
* MessageHandlers: two clients compete for an opcode, two opcodes keep one
  handler apart from another, three tasks allow a handler to be registered again
  while a task of the first registration still exists.
* KeyRepeat: two targets, two keys, two tasks.
* Incoming: two commands, mappings that share a key, move a key or have none, two
  devices on the bus, four tries for a reply (as the code has).
* Registry: one node that is opened twice, two changes of hardware, two versions of
  the configuration, a channel of one slot, so that lagging happens. Two opens of one
  node are what `OneServer` and a replug need. With three versions the run also
  passes, in 3.3 million states. Two nodes would need two running tasks at once,
  beyond what the run can afford; tasks of different nodes share only the lock of
  System.
* Relay: two callers, two values, one pending event and message each, three commands and two
  polls in the channels: a poll that was given up behind one that is awaited, and a
  command that was given up before one of the same caller.
* Conversions: inputs as described above; a message takes every value of a
  packed byte and the bounds of its other operands, its operands in turn and not in all
  combinations. Bytes that replace others are the bounds of the operand
  types and of bit 7.
* Settings: names of 6 to 14 single bytes and then up to three characters of one to four
  bytes put every kind of character across the limit of 14. Texts have one character
  replaced, added or missing, which includes signs, dots, dashes and 0x in every place.
  EDIDs are built in `MCConversions` from descriptions of extension and data blocks, with
  odd offsets of the timings, blocks that cross them, lengths at the limit of an address
  and EDIDs that are cut. All mode bytes, claims of
  up to two types and one of five (four is the limit).

Symmetry is used only in runs without liveness. Deadlock checking is off only in
`handlers_deadlock`, where the stopped call is the subject, in `registry`, where the
daemon ends and the bounds run out (`NoCircularWait` states the absence of deadlock
directly), and in `relay`, where everything may have been dropped.

### Fairness

Weak fairness for the steps of cecd's own tasks: tokio polls a task that is ready
(`Task`, `Run`, `DeviceStep`, `Serve`, `TaskStep`, `Awaited`). Weak fairness for the end of
a claim, which the kernel bounds by timeouts, and for logind's sleep once nobody
delays it. Strong fairness only for `TaskCancelled`: `select!` polls its branches
in random order, so a cancellation that is pending again and again beside an
elapsed delay is not passed over for ever. In Relay, weak fairness for the two
threads (their polls and ioctls have timeouts), for `join` and for a caller that has
its answer; in Incoming for the timer of the remote call and for the end of a
transmission, which the kernel bounds. Nothing is assumed of clients, TVs,
users, or the wake-up of the machine.

## 4. What is proved

The theorems hold for every value of the constants: any number of addresses, devices,
clients, opcodes, tasks, targets, keys, retries, slots and any bound. The
assumptions on constants are the named `ASSUME`s of the modules, which TLC
evaluates in every run. They say that bounds are numbers, that the values used by name are
members of their sets, that a set of nodes is finite, and that a character of UTF-8 has one to four bytes.

**DeviceTaskProofs.** `TypeInv` is `TypeOK` with `ClaimInv` (a running claim has no
address yet), `RetryInv` (retries spent and retries left add up to
`LOG_ADDR_RETRIES`) and `WakeInv` (inside `wake()` an attempt is left). It gives
`TypeCorrect` and `RetriesBounded`. `RetryBound` alone is not
inductive: it needs the sum. `CachesFresh` rests on `Mirrored`, which says for
each place of the task what a value already read owes to the pending event: if
no event is pending and nothing was `missed`, the snapshot of a query that has been made agrees
with the adapter, and at rest the caches do. `missed` cannot be left out: after a failed query or signal the code
drops the change. `TxAddrIsFresh` needs no such place by place account, since Device learns
its address when the event is dequeued, unless a call `failed`. None of these has an
assumption on which calls fail.
`RetriesGoOn` (`RetriesContinue`) needs `RetryPending`: while retries are being spent, the
next state change is pending, being read or about to be caused by the kernel, unless
there is nothing left to do or a call has failed. It uses `Mirrored`, because a retry is decided
from values that were read earlier, and assumes an
adapter with `LOG_ADDRS`: without that capability `configure_dev` (`system.rs:405`) asks nothing of the
kernel, and a retry has no answer to be continued by.

**SleepWakeProofs.** `FlagSound` (`StandbyMeansSuspending`) needs `WakeAnnounced`: when
logind is awake, the last signal still in the queue is a wake-up, so that
receiving the announcement of a sleep never leaves the flag set with nothing
under way. `TvNotEchoed` (`NoEcho`) uses `EchoInv`, which holds until the user suspends:
the queue has at most the two signals of one cycle (`Phase`), and the flag is
set whenever a task is at the call or a TV's sleep is announced (`Claimed`).
Neither has an assumption on failures. `ChannelBounded` (`TypeOK`) says that
no task has more messages waiting than the channel has slots (`InboxBounded`).

**MessageHandlersProofs.** `RegistryInv` ties the call being served to its task
(`Registering`), says that a task that has not subscribed is the one the call
waits for (`Unsubscribed`), and that a task that unregisters after a signal has
lost its client (`LeavingIsGone`). From it: `HandlersAreWatched`,
`OwnersKeepHandlers` and, with `ListenerLives` and for clients that do not
leave early, `NoStaleHandler`. `HandlersAreAnnounced` (`NothingUnannounced`) needs `Told`:
every opcode handled has been announced, is that of a call whose signal failed, or is about to
be announced.

**KeyRepeatProofs.** `Owned`: a task that runs is the entry of its target or the
one being awaited for it. From it, `NeverTwoRepeaters`. `Heard` relates what a target holds
to that task, for targets that missed nothing. From it, `NoStuckKey`, whatever fails.

**IncomingProofs.** `NoKeyLeftDown` (`HeldIsActive`) is inductive as it stands: every
change of the virtual device empties `held`. It holds for any mappings.
`EveryMessageHasOneVerdict` (`OneVerdict`) needs `VerdictInv`, which relates what the
task waits for to what has come of the message: nothing so far while a client or a
transmission is awaited, and a reply to an unknown message is a FeatureAbort. It holds
for any number of tries and would hold if the retries happened.

**RegistryProofs.** `Inv` has three parts, which give the four invariants of the
run for any finite set of nodes, any number of devices and any length of the channel.

* `DataInv`: of the devices opened for a node only the last one may have a token
  that is not cancelled, and it is the one in `devs` (`Tokens`); nothing is opened while
  a registration goes on (`Latest`); a task works for an object of its own path that is not newer than itself
  (`Tasks`); and `MainAt` says where `main` is in a search or in the ten steps of a
  registration, and what task and object are at each of them. From it: `OneTaskServesANode`
  (`OneServer`) and `ObjectsAreServed` (`PublishedIsOwned`).
* `LockOrder`: objects on D-Bus and Config1 come before System, and System before
  devices. Every program frees what it takes and until then takes only what comes later, and
  so does what is left of a program that holds a lock. A circle of waiting actors would
  have a lock of highest rank, whose owner waits for a higher one:
  `NobodyWaitsInACircle` (`NoCircularWait`).
* `Reloads`: whoever has not applied the latest configuration has a reload in its
  channel, has lagged, or has the step in its program; a registration subscribes before it
  reads the configuration. From it, `ReloadsArrive` (`NoReloadLost`).

**RelayProofs.** `RelayInv`: a thread that has stopped has no channel, and nothing follows a `Drop`
(`Closed`); a command somebody waits for is the last call of its caller, and whoever waits
has one (`Newest`); at most one poll is heard, and `handle_status` is in the channel
only while the task waits for it (`OneHandler`). With it `FoundStaysThere`
(`StatusStillTrue`): nobody else takes the event or message a poll found. `AsyncDeviceIsAtomic` is the
refinement: Relay's initial states are those of `Calls`, and every step is one of `Calls` or
leaves its variables alone. `CallsOf`, the calls of one caller in the channel, is a recursive function;
that it commutes with sending and receiving is proved by induction, in the form "a set of
numbers that has 0 and with n also n + 1 has all" (from the well-foundedness of the naturals),
which needs no operator as a parameter.

**SettingsProofs.** The invariant `Converted` says that every outcome is that of its input
(`Conversion`); the rest is about the operators, for inputs of any length. `NamesAreTrimmed`
(`NameTrimmed`): the running sums of widths exist, are unique and grow by at most four,
so that a name of more than 14 bytes has a boundary in 11..14 and the `unreachable!` is not reached.
`TextsAreExact` (`TextExact`): four digits of base 16 exist for every address and are unique, and a
text that is read has one of the five shapes. `SettingsAreKept` (`SettingsKept`): the two halves of a
byte and the tables of types and addresses.

`EdidsAreExact` (`EdidExact`) is about EDIDs of any bytes and any length. A loop that moves up
comes to something from every place (`LoopDefined`), so each of the parser's loops satisfies its
equation (`DataBlocksAre`, `ExtensionsAre`). The starts of the data blocks exist, grow, and reach
the timings within 123 steps (`StartsAre`). Until the first data block that holds an address
the loop is where `Starts` says, or it has ended at a block that crosses the timings, behind
which no block counts (`ExtensionAddress`); the extensions are 128 bytes apart, so
the first hit of the first extension with a hit is the least one (`Parsed`): the parser finds
what the definition says with every doubtful extension counted (`ParsedIsTold`). A data block that passes the
parser's tests ends ahead of the timings, and these within the extension, so that the reads of
four and six bytes stay within the EDID (`TestsAre`). With this and
`NameTrimmed`, `NothingPanics` (`NeverPanics`) holds for every input of `Settings`.

**Only model-checked:** the liveness properties (`Settles`, `EndsWhenGone`,
`SleepComes`, `FlagClears`, `CallsReturn`, `CleanedUp`, `RepeatsStop`, `MessagesEnd`,
`EveryWaitEnds`), since TLAPS here has no reasoning about fairness and ENABLED; and
`ComposedArrives` and `ForeignStable`, and `NeverPanics` as far as it is about frames, since
the operators of `Codec` recur over types within types (RECURSIVE operators, and induction
over such data, are out of the prover's reach). Every other property of a passing run is a theorem.

## 5. What is not modelled

* Reading and merging TOML files, and the change signal of each property of Config1:
  a configuration is a version number in `Registry` and a record of three fields in
  `Incoming`.
* Pin and lost-message events, capabilities other than the two that `configure_dev`
  asks for, monitor modes: nothing in cecd acts on them.
* The D-Bus methods that pass a raw message through to the device and keep no state.
* The key codes of uinput (a table), the texts of `Display` other than those of
  addresses and vendors, serde of everything else, the accessors that `BitfieldSpecifier`
  generates.
* The layouts of the ABI's structures, the ioctl numbers, cecd-proxy (generated) and
  cectool (one call, one line of output).
* The device task is modelled three times, in `DeviceTask`, `Incoming` and `Registry`, each
  time with the state that its properties need. The three share no variable that one of
  them changes and another one's properties read, except `active` and `awaiting_wake`
  (in `Incoming` they may change at any time) and the moment at which the task ends.

## 6. Plan

1. Adapter, DeviceTask, SleepWake, MessageHandlers, KeyRepeat: done.
2. Incoming, Registry, Calls and Relay, the codec, frames and parsers: done.
3. Proofs of every safety property that is not about the codec's recursive operators, and
   of the refinement of `Calls` by `Relay`: done.
4. Left out: an abstract specification of what CecDevice1's properties promise (they
   follow the adapter), refined by DeviceTask. It would say no more than `CacheFresh`, which is
   proved, and `Settles`, which is checked.
