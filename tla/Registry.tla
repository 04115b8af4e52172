------------------------------ MODULE Registry ------------------------------
(***************************************************************************)
(* The devices that cecd knows and who serves them: System.devs, the       *)
(* CecDevice objects on D-Bus, the device tasks, the hotplug loop, the     *)
(* reloads of the configuration, and the order in which all of them take   *)
(* the locks of System, of a D-Bus object and of a Device.                 *)
(*                                                                         *)
(* Whatever holds a lock across an await is a program: a sequence of steps *)
(* that take a lock, or do something and free locks. Between two steps of  *)
(* one actor any other actor may run. A reader of a D-Bus object counts as *)
(* a writer.                                                               *)
(***************************************************************************)
EXTENDS Integers, Sequences, FiniteSets

CONSTANTS
    Paths,         \* device nodes, /dev/cec0 and so on
    MaxOpens,      \* how many times a node is opened
    MaxReloads,    \* how many versions of the configuration there are
    MaxPlugs,      \* how many times the kernel adds or removes a node
    Backlog        \* slots of the broadcast channel (ten in the code)

ASSUME RegistryAssumption ==
    /\ IsFiniteSet(Paths)
    /\ {MaxOpens, MaxReloads, MaxPlugs, Backlog} \subseteq Nat /\ Backlog > 0

Ids == 1..MaxOpens

\* Actors and locks are pairs. A CecDevice, its token and the task that its
\* registration starts have one number.
Main    == <<"main", 0>>       \* main(), and then udev_hotplug()
Reload  == <<"reload", 0>>     \* SIGHUP, or a call of Config1.Reload
Config  == <<"config", 0>>     \* ConfigTask
Client  == <<"client", 0>>     \* a D-Bus client that calls a device
Task(n) == <<"task", n>>
Nobody  == <<"nobody", 0>>

Actors == {Main, Reload, Config, Client} \cup {Task(n) : n \in Ids}

NoLock   == <<"nolock", 0>>    \* what a step takes that waits for nothing
System   == <<"system", 0>>    \* the mutex of SystemHandle
Config1  == <<"config1", 0>>   \* the object of Config1
Obj(n)   == <<"object", n>>    \* the object of a CecDevice
Dev(n)   == <<"device", n>>    \* the mutex of its ArcDevice

Locks == {NoLock, System, Config1} \cup {Obj(n) : n \in Ids} \cup {Dev(n) : n \in Ids}

VARIABLES
    present, plugs,      \* the nodes there are; how often that has changed
    opened,              \* the path of every CecDevice that was opened
    gone,                \* those whose hardware was removed
    devs,                \* System.devs: from a path to the number of its token, or 0
    cancelled,           \* tokens that were cancelled
    object,              \* the CecDevice published at a path's D-Bus path, or 0
    iface,               \* the object that a task works for
    task,                \* what has become of the task
    inbox,               \* its receiver of the broadcast channel
    config,              \* System.config: which version
    applied, mapped,     \* the version a task has configured its adapter and its keys
                         \* for (0: that failed, and was reported)
    shown, confInbox, confAlive,   \* CecConfig.cached_config and its task
    hotplug, byName,     \* the arguments -e and -d
    phase,               \* how far main() is
    events,              \* what udev has queued
    reg, cur,            \* the devices to register, and the one being registered
    joined,              \* the tokens whose cancellation ends main()
    up,                  \* the process runs
    prog, owner          \* the rest of each actor's program; who holds a lock

hwVars    == <<present, plugs, gone>>
devVars   == <<opened, devs, cancelled, object>>
taskVars  == <<iface, task, inbox, applied, mapped>>
confVars  == <<config, shown, confInbox, confAlive>>
mainVars  == <<hotplug, byName, phase, events, reg, cur, joined, up>>
lockVars  == <<prog, owner>>
vars == <<hwVars, devVars, taskVars, confVars, mainVars, lockVars>>

-----------------------------------------------------------------------------
(* Programs. A step waits for a lock, does something, and then frees locks  *)
(* (the one it waited for, if it is a short one).                          *)

Step(l, what, frees)     == [takes |-> l, does |-> what, frees |-> frees, node |-> {}]
StepOn(p, l, what)       == [takes |-> l, does |-> what, frees |-> {l}, node |-> {p}]
Lock(l)                  == Step(l, "lock", {})
Short(l, what)           == Step(l, what, {l})

\* System::configure_dev, called with System locked; `also` is freed after it
ConfigureDev(m, also) ==
    <<Lock(System), Step(Dev(m), "configure", {System, Dev(m)} \cup also)>>

ConfigureUinput(m) ==
    <<Lock(Obj(m)), Short(System, "map"), Step(Dev(m), "uinput", {Obj(m), Dev(m)})>>

ReloadConfig(m) == ConfigureDev(m, {}) \o ConfigureUinput(m)

StateChange_HoldsDevice(m) ==
    <<Lock(Dev(m)), Step(Obj(m), "read", {Obj(m), Dev(m)})>>

\* A state change, without and with another attempt to register: the second
\* attempt is made with the D-Bus object still locked.
StateChange(m) == <<Short(Dev(m), "read"), Short(Obj(m), "read")>>
RetryRegistration(m) ==
    <<Short(Dev(m), "read"), Lock(Obj(m))>> \o ConfigureDev(m, {Obj(m)})

\* DeviceTask::run before its loop: request_active_source and set_active
TaskStart(m) == <<Short(System, "read")>> \o StateChange(m)

\* A method of CecDevice1
DeviceMethod(m) == <<Lock(Obj(m)), Step(Dev(m), "read", {Obj(m), Dev(m)})>>

Register_SubscribesLate(m) ==
    <<Short(Obj(m), "read"), Short(Dev(m), "read")>> \o ReloadConfig(m)
        \o <<Short(System, "subscribe"), Short(NoLock, "spawn"), Short(Obj(m), "registered")>>

\* CecDevice::register once it has an interface, DeviceTask::new included
Register(m) ==
    <<Short(System, "subscribe"), Short(Obj(m), "read"), Short(Dev(m), "read")>>
        \o ReloadConfig(m)
        \o <<Short(NoLock, "spawn"), Short(Obj(m), "registered")>>

-----------------------------------------------------------------------------

Wants(a)    == Head(prog[a]).takes
At(a, what) == prog[a] # <<>> /\ Head(prog[a]).does = what /\ owner[Wants(a)] = Nobody
IsIdle(a)   == prog[a] = <<>>
Begins(a, steps) == IsIdle(a) /\ prog' = [prog EXCEPT ![a] = steps] /\ UNCHANGED owner

\* The step of a is done, and `rest` is what is left
Continues(a, rest) ==
    /\ prog' = [prog EXCEPT ![a] = rest]
    /\ LET step == Head(prog[a])
       IN owner' = [l \in Locks |-> CASE l \in step.frees -> Nobody
                                     [] l \notin step.frees /\ l = step.takes -> a
                                     [] OTHER -> owner[l]]

Advances(a) == Continues(a, Tail(prog[a]))

\* An error: every guard is dropped
Abandons(a, rest) ==
    /\ prog' = [prog EXCEPT ![a] = rest]
    /\ owner' = [l \in Locks |-> IF owner[l] = a THEN Nobody ELSE owner[l]]

\* The task, or the registration, that a program of a is about
Of(a) == IF a = Main THEN cur ELSE a[2]

Lagged(q) == Len(q) > Backlog
Push(q, m) == IF Lagged(q) THEN q ELSE Append(q, m)

\* System::send_message
Broadcast(m) ==
    /\ inbox' = [n \in Ids |-> IF task[n] \in {"subscribed", "run"} THEN Push(inbox[n], m) ELSE inbox[n]]
    /\ confInbox' = IF confAlive THEN Push(confInbox, m) ELSE confInbox

Init ==
    /\ present \in SUBSET Paths /\ plugs = 0 /\ gone = {}
    /\ opened = <<>> /\ cancelled = {}
    /\ devs = [p \in Paths |-> 0] /\ object = [p \in Paths |-> 0]
    /\ iface = [n \in Ids |-> 0] /\ task = [n \in Ids |-> "none"]
    /\ inbox = [n \in Ids |-> <<>>]
    /\ config = 1 /\ shown = 1 /\ confInbox = <<>> /\ confAlive = TRUE
    /\ applied = [n \in Ids |-> 0] /\ mapped = [n \in Ids |-> 0]
    /\ hotplug \in BOOLEAN /\ byName \in BOOLEAN
    /\ phase = "start" /\ events = <<>> /\ reg = {} /\ cur = 0 /\ joined = {}
    /\ up = TRUE
    /\ prog = [a \in Actors |-> <<>>] /\ owner = [l \in Locks |-> Nobody]

\* Only the lock is taken, or nothing is changed that matters here.
Passes(a) ==
    /\ At(a, "lock") \/ At(a, "read")
    /\ Advances(a)
    /\ UNCHANGED <<hwVars, devVars, taskVars, confVars, mainVars>>

-----------------------------------------------------------------------------
(* Finding and registering devices.                                        *)

\* What main() does with an error of its first search: it returns, unless it
\* searches all of /dev and hotplugging is enabled.
MainFails == up' = ~(phase = "scan" /\ (byName \/ ~hotplug))

MainStarts ==
    /\ phase = "start" /\ phase' = "scan"
    /\ IF byName
       THEN \E p \in Paths : Begins(Main, <<StepOn(p, System, "find")>>)
       ELSE Begins(Main, <<Short(System, "scan")>>)
    /\ UNCHANGED <<hwVars, devVars, taskVars, confVars, hotplug, byName, events, reg, cur, joined, up>>

\* Paths are opened in the order `new`, under new tokens.
Opens(new) ==
    LET base == Len(opened)
        ids  == base + 1 .. base + Len(new)
    IN /\ Len(opened) + Len(new) <= MaxOpens
       /\ opened' = opened \o new
       /\ devs' = [p \in Paths |-> IF \E i \in DOMAIN new : new[i] = p
                                   THEN base + CHOOSE i \in DOMAIN new : new[i] = p
                                   ELSE devs[p]]
       /\ reg' = ids
       /\ joined' = IF phase = "scan" /\ ~hotplug THEN ids ELSE joined
       /\ UNCHANGED up

\* System::find_devs: one node that cannot be opened fails the search.
FindDevs ==
    LET found == {p \in present : devs[p] = 0}
    IN /\ At(Main, "scan")
       /\ \/ \E new \in [1..Cardinality(found) -> found] :
                /\ {new[i] : i \in DOMAIN new} = found
                /\ Opens(new)
          \/ found # {} /\ MainFails /\ UNCHANGED <<opened, devs, reg, joined>>
       /\ Advances(Main)
       /\ UNCHANGED <<hwVars, cancelled, object, taskVars, confVars, hotplug, byName, phase, events, cur>>

Unknown_Always(p) == TRUE

Unknown(p) == devs[p] = 0

\* System::find_dev
FindDev ==
    /\ At(Main, "find")
    /\ \E p \in Head(prog[Main]).node :
          \/ Unknown(p) /\ p \in present /\ Opens(<<p>>)
          \/ MainFails /\ UNCHANGED <<opened, devs, reg, joined>>
    /\ Advances(Main)
    /\ UNCHANGED <<hwVars, cancelled, object, taskVars, confVars, hotplug, byName, phase, events, cur>>

\* close_dev
CloseDev ==
    /\ At(Main, "close")
    /\ \E p \in Head(prog[Main]).node :
          devs' = [devs EXCEPT ![p] = 0] /\ cancelled' = cancelled \cup ({devs[p]} \ {0})
    /\ Advances(Main)
    /\ UNCHANGED <<hwVars, opened, object, taskVars, confVars, mainVars>>

\* reconfig_connector
Notify ==
    /\ At(Main, "notify")
    /\ Broadcast("connector")
    /\ Advances(Main)
    /\ UNCHANGED <<hwVars, devVars, iface, task, applied, mapped, config, shown, confAlive, mainVars>>

\* CecDevice::register, with System unlocked
NextDevice ==
    /\ cur = 0 /\ cur' \in reg /\ reg' = reg \ {cur'}
    /\ Begins(Main, <<Short(NoLock, "publish"), Short(NoLock, "interface")>>)
    /\ UNCHANGED <<hwVars, devVars, taskVars, confVars, hotplug, byName, phase, events, joined, up>>

\* ObjectServer::at leaves an object alone that is there already.
Publish ==
    /\ At(Main, "publish")
    /\ object' = [object EXCEPT ![opened[cur]] = IF @ = 0 THEN cur ELSE @]
    /\ Advances(Main)
    /\ UNCHANGED <<hwVars, opened, devs, cancelled, taskVars, confVars, mainVars>>

\* An error of register: what is left of the search is dropped.
Gives(outcome) ==
    /\ cur' = 0
    /\ IF outcome = "ok" THEN UNCHANGED <<reg, up>> ELSE reg' = {} /\ MainFails
    /\ UNCHANGED <<hotplug, byName, phase, events, joined>>

Interface ==
    LET m == object[opened[cur]]
    IN /\ At(Main, "interface")
       /\ IF m = 0
          THEN Continues(Main, <<>>) /\ Gives("error") /\ UNCHANGED iface
          ELSE /\ iface' = [iface EXCEPT ![cur] = m]
               /\ Continues(Main, Register(m))
               /\ UNCHANGED mainVars
       /\ UNCHANGED <<hwVars, devVars, task, inbox, applied, mapped, confVars>>

Subscribe ==
    /\ At(Main, "subscribe")
    /\ task' = [task EXCEPT ![cur] = "subscribed"]
    /\ Advances(Main)
    /\ UNCHANGED <<hwVars, devVars, iface, inbox, applied, mapped, confVars, mainVars>>

Spawn ==
    /\ At(Main, "spawn")
    /\ task' = [task EXCEPT ![cur] = "run"]
    /\ prog' = [prog EXCEPT ![Main] = Tail(@), ![Task(cur)] = TaskStart(iface[cur])]
    /\ UNCHANGED <<owner, hwVars, devVars, iface, inbox, applied, mapped, confVars, mainVars>>

Registered ==
    /\ At(Main, "registered")
    /\ Advances(Main) /\ Gives("ok")
    /\ UNCHANGED <<hwVars, devVars, taskVars, confVars>>

Withdraw_Nothing == UNCHANGED object

\* DeviceTask::new has failed: the object is taken off the bus again.
Withdraw == object' = [object EXCEPT ![opened[cur]] = 0]

Withdrawn ==
    /\ At(Main, "withdraw")
    /\ Withdraw
    /\ Continues(Main, <<>>) /\ Gives("error")
    /\ UNCHANGED <<hwVars, opened, devs, cancelled, taskVars, confVars>>

-----------------------------------------------------------------------------
(* Configuring a device, in a registration or in its task.                 *)

Fails(a) ==
    /\ Abandons(a, IF a = Main THEN <<Short(NoLock, "withdraw")>> ELSE <<>>)
    /\ task' = IF a = Main THEN [task EXCEPT ![cur] = "ended"] ELSE task
    /\ applied' = [applied EXCEPT ![Of(a)] = 0]
    /\ mapped' = [mapped EXCEPT ![Of(a)] = 0]

Configures(a) ==
    /\ At(a, "configure")
    /\ \/ /\ iface[Of(a)] \notin gone
          /\ applied' = [applied EXCEPT ![Of(a)] = config]
          /\ Advances(a)
          /\ UNCHANGED <<task, mapped>>
       \/ Fails(a)
    /\ UNCHANGED <<hwVars, devVars, iface, inbox, confVars, mainVars>>

Maps(a) ==
    /\ At(a, "map")
    /\ mapped' = [mapped EXCEPT ![Of(a)] = config]
    /\ Advances(a)
    /\ UNCHANGED <<hwVars, devVars, iface, task, inbox, applied, confVars, mainVars>>

OpensUinput(a) ==
    /\ At(a, "uinput")
    /\ \/ Advances(a) /\ UNCHANGED <<task, applied, mapped>>
       \/ Fails(a)
    /\ UNCHANGED <<hwVars, devVars, iface, inbox, confVars, mainVars>>

-----------------------------------------------------------------------------
(* The device task.                                                        *)

Selects(n) == task[n] = "run" /\ IsIdle(Task(n))

HandleStatus(n) ==
    /\ Selects(n) /\ iface[n] \notin gone
    /\ \E steps \in {StateChange(iface[n]), RetryRegistration(iface[n])} : Begins(Task(n), steps)
    /\ UNCHANGED <<hwVars, devVars, taskVars, confVars, mainVars>>

\* A message of the broadcast channel; a connector may be another device's.
HandleBroadcast(n) ==
    /\ Selects(n) /\ inbox[n] # <<>> /\ ~Lagged(inbox[n])
    /\ inbox' = [inbox EXCEPT ![n] = Tail(@)]
    /\ IF Head(inbox[n]) = "reload"
       THEN Begins(Task(n), ReloadConfig(iface[n]))
       ELSE \E steps \in {<<>>, ConfigureDev(iface[n], {})} : Begins(Task(n), steps)
    /\ UNCHANGED <<hwVars, devVars, iface, task, applied, mapped, confVars, mainVars>>

\* PollStatus::Destroyed cancels the token; the loop also ends when the token
\* is cancelled and when the channel has lagged.
LeaveLoop(n) ==
    /\ Selects(n)
    /\ \/ iface[n] \in gone /\ cancelled' = cancelled \cup {iface[n]}
       \/ iface[n] \in cancelled /\ UNCHANGED cancelled
       \/ Lagged(inbox[n]) /\ UNCHANGED cancelled
    /\ task' = [task EXCEPT ![n] = "ending"]
    /\ UNCHANGED <<hwVars, opened, devs, object, iface, inbox, applied, mapped, confVars, mainVars, lockVars>>

\* Whatever CecDevice is at the path is removed.
Deregister(n) ==
    /\ task[n] = "ending"
    /\ object' = [object EXCEPT ![opened[iface[n]]] = 0]
    /\ task' = [task EXCEPT ![n] = "ended"]
    /\ inbox' = [inbox EXCEPT ![n] = <<>>]
    /\ applied' = [applied EXCEPT ![n] = 0] /\ mapped' = [mapped EXCEPT ![n] = 0]
    /\ UNCHANGED <<hwVars, opened, devs, cancelled, iface, confVars, mainVars, lockVars>>

CallMethod(p) ==
    /\ object[p] # 0
    /\ Begins(Client, DeviceMethod(object[p]))
    /\ UNCHANGED <<hwVars, devVars, taskVars, confVars, mainVars>>

-----------------------------------------------------------------------------
(* The configuration.                                                      *)

AskReload ==
    /\ config < MaxReloads
    /\ \/ Begins(Reload, <<Lock(Config1), Step(System, "reload", {System, Config1})>>)
       \/ phase \in {"listen", "join"} /\ Begins(Reload, <<Short(System, "sighup")>>)
    /\ UNCHANGED <<hwVars, devVars, taskVars, confVars, mainVars>>

\* System::reconfig. A file that cannot be read fails a call of Reload, and
\* ends the daemon after a SIGHUP.
Reconfig ==
    /\ At(Reload, "reload") \/ At(Reload, "sighup")
    /\ \/ config' = config + 1 /\ Broadcast("reload") /\ UNCHANGED up
       \/ up' = ~At(Reload, "sighup") /\ UNCHANGED <<config, inbox, confInbox>>
    /\ Advances(Reload)
    /\ UNCHANGED <<hwVars, devVars, iface, task, applied, mapped, shown, confAlive, hotplug, byName,
                   phase, events, reg, cur, joined>>

\* ConfigTask::run: one message, or the end of the task after a lag
ConfigTask ==
    /\ confAlive /\ IsIdle(Config) /\ confInbox # <<>>
    /\ IF Lagged(confInbox)
       THEN confAlive' = FALSE /\ UNCHANGED <<confInbox, lockVars>>
       ELSE /\ confInbox' = Tail(confInbox)
            /\ Begins(Config, IF Head(confInbox) = "reload"
                              THEN <<Lock(Config1), Step(System, "show", {System, Config1})>>
                              ELSE <<>>)
            /\ UNCHANGED confAlive
    /\ UNCHANGED <<hwVars, devVars, taskVars, config, shown, mainVars>>

\* CecConfig::reconfigure
Reconfigure ==
    /\ At(Config, "show")
    /\ shown' = config
    /\ Advances(Config)
    /\ UNCHANGED <<hwVars, devVars, taskVars, config, confInbox, confAlive, mainVars>>

-----------------------------------------------------------------------------
(* main() and the hotplug loop.                                            *)

\* The search is over.
MainGoesOn ==
    /\ phase = "scan" /\ IsIdle(Main) /\ cur = 0 /\ reg = {}
    /\ phase' = IF hotplug THEN "listen" ELSE "join"
    /\ UNCHANGED <<hwVars, devVars, taskVars, confVars, hotplug, byName, events, reg, cur, joined, up, lockVars>>

\* Without hotplugging, the daemon ends with its last device.
MainEnds ==
    /\ phase = "join" /\ joined \subseteq cancelled
    /\ up' = FALSE
    /\ UNCHANGED <<hwVars, devVars, taskVars, confVars, hotplug, byName, phase, events, reg, cur, joined, lockVars>>

HandleEvent ==
    /\ phase = "listen" /\ cur = 0 /\ reg = {} /\ events # <<>>
    /\ LET ev == Head(events)
       IN Begins(Main, <<CASE ev.type = "add"    -> StepOn(ev.node, System, "find")
                           [] ev.type = "remove" -> StepOn(ev.node, System, "close")
                           [] ev.type = "drm"    -> Short(System, "notify")>>)
    /\ events' = Tail(events)
    /\ UNCHANGED <<hwVars, devVars, taskVars, confVars, hotplug, byName, phase, reg, cur, joined, up>>

\* The kernel adds or removes a node, udev is made to announce again one that is
\* there, or a monitor is plugged in; whoever listens by then is told.
Plug(p) ==
    /\ plugs < MaxPlugs /\ plugs' = plugs + 1
    /\ \E type \in (IF phase = "listen" THEN {"drm", "add"} ELSE {}) \cup {IF p \in present THEN "remove" ELSE "add"} :
         /\ present' = CASE type = "add"    -> present \cup {p}
                         [] type = "remove" -> present \ {p}
                         [] OTHER           -> present
         /\ gone' = gone \cup {n \in DOMAIN opened : type = "remove" /\ opened[n] = p}
         /\ events' = IF phase = "listen" THEN Append(events, [type |-> type, node |-> p]) ELSE events
    /\ UNCHANGED <<devVars, taskVars, confVars, hotplug, byName, phase, reg, cur, joined, up, lockVars>>

-----------------------------------------------------------------------------

MainStep ==
    \/ MainStarts \/ FindDevs \/ FindDev \/ CloseDev \/ Notify \/ NextDevice \/ Publish \/ Interface
    \/ Subscribe \/ Spawn \/ Registered \/ Withdrawn \/ MainGoesOn \/ MainEnds \/ HandleEvent

\* A step of the program of an actor
Proceed(a) == Passes(a) \/ Configures(a) \/ Maps(a) \/ OpensUinput(a)

Next ==
    /\ up
    /\ \/ MainStep
       \/ \E a \in Actors : Proceed(a)
       \/ \E n \in Ids : HandleStatus(n) \/ HandleBroadcast(n) \/ LeaveLoop(n) \/ Deregister(n)
       \/ \E p \in Paths : CallMethod(p) \/ Plug(p)
       \/ AskReload \/ Reconfig \/ ConfigTask \/ Reconfigure

Spec == Init /\ [][Next]_vars

-----------------------------------------------------------------------------
(* Properties.                                                             *)

\* No actors wait for each other's locks: registering again after a state
\* change takes System and the Device with the D-Bus object locked, configuring
\* the keys takes System with it locked, configuring an adapter takes the Device
\* with System locked, and clients, reloads and registrations come in between.
NoCircularWait ==
    \A S \in (SUBSET Actors) \ {{}} :
        \E a \in S : prog[a] = <<>> \/ owner[Wants(a)] \notin S

\* A change of the configuration reaches every device, also one that is being
\* registered meanwhile, and Config1: who is not up to date has the message
\* before it, has reported a failure, or has lagged and is about to end.
NoReloadLost ==
    LET waits(q) == Lagged(q) \/ \E i \in DOMAIN q : q[i] = "reload"
    IN /\ \A n \in Ids : task[n] = "run" /\ IsIdle(Task(n)) =>
             {applied[n], mapped[n]} \subseteq {0, config} \/ waits(inbox[n])
       /\ confAlive /\ IsIdle(Config) => shown = config \/ waits(confInbox)

\* Two tasks never serve one node, whatever was added, removed and found: at
\* most one task of a path has a token that is not cancelled and hardware that
\* is there.
OneServer ==
    \A i, j \in Ids :
        /\ task[i] \in {"run", "ending"} /\ task[j] \in {"run", "ending"}
        /\ {iface[i], iface[j]} \cap (cancelled \cup gone) = {}
        /\ opened[iface[i]] = opened[iface[j]]
        => i = j

\* Nothing stays on D-Bus for good that nobody serves: an object that is
\* published, also one that was published before its node went and came back, is
\* about to be given a task, or has one, which takes it off the bus at its end.
PublishedIsOwned ==
    \A p \in Paths : object[p] # 0 =>
        \/ cur # 0 /\ opened[cur] = p
        \/ \E n \in Ids : task[n] \in {"run", "ending"} /\ iface[n] = object[p]

=============================================================================
