-------------------------- MODULE MessageHandlers --------------------------
(***************************************************************************)
(* Remote message handlers: D-Bus clients register an object for a CEC     *)
(* opcode (Daemon1.RegisterMessageHandler), a MessageHandlerTask watches   *)
(* the client and takes the handler away when the client leaves the bus.   *)
(*                                                                         *)
(* The methods of Daemon1 take &mut self, so one call is served at a time. *)
(* Registering holds System's mutex while it waits for its new task to     *)
(* have subscribed to NameOwnerChanged; removing a handler takes the mutex *)
(* too. Clients come and go on their own: the bus is external.             *)
(***************************************************************************)
EXTENDS Naturals

CONSTANTS
    Clients,        \* unique bus names
    Opcodes,
    StaticHandlers, \* the opcodes of DeviceTask::STATIC_HANDLERS
    Tasks,          \* the MessageHandlerTasks that may be started (a bound)
    NoTask,
    NoClient,
    Faults,         \* which D-Bus calls of cecd may fail
    LeavesEarly     \* a client may leave the bus while its call is served

ASSUME MessageHandlersAssumption ==
    /\ StaticHandlers \subseteq Opcodes
    /\ NoTask \notin Tasks /\ NoClient \notin Clients
    /\ Faults \subseteq {"subscribe", "proxy", "emit"}
    /\ LeavesEarly \in BOOLEAN

VARIABLES
    alive,      \* the clients that are on the bus
    pc,         \* where the call being served is
    caller,     \* its sender
    op,         \* its opcode
    new,        \* the task that it has started
    handlers,   \* System.message_handlers: the task in each handle
    state,      \* what each task is doing
    owner,      \* its bus_name
    opcode,     \* its opcode
    announced,  \* HandledMessages as last told by PropertiesChanged
    unsaid      \* history: the opcodes whose call failed to tell since then

call   == <<pc, caller, op, new>>
tasks  == <<state, owner, opcode>>
signal == <<announced, unsaid>>
vars   == <<alive, call, handlers, tasks, signal>>

TypeOK ==
    /\ alive \subseteq Clients
    /\ pc \in {"none", "check", "lock", "wait", "unregister", "announce"}
    /\ caller \in Clients \cup {NoClient}
    /\ op \in Opcodes
    /\ new \in Tasks \cup {NoTask}
    /\ handlers \in [Opcodes -> Tasks \cup {NoTask}]
    /\ state \in [Tasks -> {"unused", "starting", "listening", "leaving", "failed", "ended"}]
    /\ owner \in [Tasks -> Clients \cup {NoClient}]
    /\ opcode \in [Tasks -> Opcodes]
    /\ announced \subseteq Opcodes
    /\ unsaid \subseteq Opcodes

Handled == {o \in Opcodes : handlers[o] # NoTask} \cup StaticHandlers

Init ==
    /\ alive = Clients
    /\ pc = "none" /\ caller = NoClient /\ op \in Opcodes /\ new = NoTask
    /\ handlers = [o \in Opcodes |-> NoTask]
    /\ state = [t \in Tasks |-> "unused"]
    /\ owner = [t \in Tasks |-> NoClient]
    /\ opcode = [t \in Tasks |-> op]
    /\ announced = StaticHandlers
    /\ unsaid = {}

\* System's mutex is held across steps only by register_message_handler, from
\* starting the task until the handler is stored.
Locked == pc = "wait"

-----------------------------------------------------------------------------
(* Daemon1.RegisterMessageHandler.                                         *)

Request(c, o, label) ==
    /\ pc = "none"
    /\ c \in alive
    /\ pc' = label /\ caller' = c /\ op' = o /\ new' = NoTask
    /\ UNCHANGED <<alive, handlers, tasks, signal>>

\* list_handled_messages: somebody else has it, or go on.
Check ==
    /\ pc = "check"
    /\ pc' = IF handlers[op] = NoTask THEN "lock" ELSE "none"
    /\ UNCHANGED <<alive, caller, op, new, handlers, tasks, signal>>

\* register_message_handler: lock, check again, spawn the task. The second
\* check cannot fail: nobody else registers between the two.
Start ==
    /\ pc = "lock"
    /\ handlers[op] = NoTask
    /\ \E t \in Tasks :
          /\ state[t] = "unused"
          /\ new' = t
          /\ state' = [state EXCEPT ![t] = "starting"]
          /\ owner' = [owner EXCEPT ![t] = caller]
          /\ opcode' = [opcode EXCEPT ![t] = op]
    /\ pc' = "wait"
    /\ UNCHANGED <<alive, caller, op, handlers, signal>>

Register_WithoutWaiting ==
    /\ pc = "wait"
    /\ handlers' = [handlers EXCEPT ![op] = new]
    /\ pc' = "announce"
    /\ UNCHANGED <<alive, caller, op, new, tasks, signal>>

\* The task has said that it listens: store the handler and unlock. When the
\* proxy cannot be built nothing is stored, and the task is left to itself.
Register ==
    /\ pc = "wait"
    /\ state[new] \in {"listening", "leaving"}
    /\ \/ handlers' = [handlers EXCEPT ![op] = new] /\ pc' = "announce"
       \/ "proxy" \in Faults /\ pc' = "none" /\ UNCHANGED handlers
    /\ UNCHANGED <<alive, caller, op, new, tasks, signal>>

Announce_Never ==
    /\ pc = "announce"
    /\ pc' = "none"
    /\ UNCHANGED <<alive, caller, op, new, handlers, tasks, signal>>

\* handled_messages_changed. When the signal cannot be sent, the call returns
\* an error although the handler was added or removed.
Announce ==
    /\ pc = "announce"
    /\ pc' = "none"
    /\ \/ announced' = Handled /\ unsaid' = {}
       \/ "emit" \in Faults /\ unsaid' = unsaid \cup {op} /\ UNCHANGED announced
    /\ UNCHANGED <<alive, caller, op, new, handlers, tasks>>

-----------------------------------------------------------------------------
(* Removing a handler.                                                     *)

\* unregister_message_handler under the mutex: remove the handler of opcode o
\* if it belongs to c, and abort its task.
Removes(o, c) == handlers[o] # NoTask /\ owner[handlers[o]] = c

Remove(o) == handlers' = [handlers EXCEPT ![o] = NoTask]

Unregister_Anyones ==
    /\ pc = "unregister"
    /\ \/ /\ handlers[op] # NoTask
          /\ Remove(op)
          /\ state' = [state EXCEPT ![handlers[op]] = "ended"]
          /\ pc' = "announce"
       \/ handlers[op] = NoTask /\ pc' = "none" /\ UNCHANGED <<handlers, state>>
    /\ UNCHANGED <<alive, caller, op, new, owner, opcode, signal>>

\* Daemon1.UnregisterMessageHandler
Unregister ==
    /\ pc = "unregister"
    /\ \/ /\ Removes(op, caller)
          /\ Remove(op)
          /\ state' = [state EXCEPT ![handlers[op]] = "ended"]
          /\ pc' = "announce"
       \/ ~Removes(op, caller) /\ pc' = "none" /\ UNCHANGED <<handlers, state>>
    /\ UNCHANGED <<alive, caller, op, new, owner, opcode, signal>>

\* run() after run_impl(): the same, from the task itself.
TaskUnregisters(t) ==
    /\ state[t] \in {"leaving", "failed"}
    /\ ~Locked
    /\ \/ /\ Removes(opcode[t], owner[t])
          /\ Remove(opcode[t])
          /\ state' = [state EXCEPT ![handlers[opcode[t]]] = "ended", ![t] = "ended"]
       \/ /\ ~Removes(opcode[t], owner[t])
          /\ state' = [state EXCEPT ![t] = "ended"]
          /\ UNCHANGED handlers
    /\ UNCHANGED <<alive, call, owner, opcode, signal>>

-----------------------------------------------------------------------------
(* MessageHandlerTask::run_impl and the bus.                               *)

Subscribe_Silent(t) ==
    /\ state[t] = "starting"
    /\ state' = [state EXCEPT ![t] = "failed"]
    /\ UNCHANGED <<alive, call, handlers, owner, opcode, signal>>

\* Subscribe to NameOwnerChanged and tell start(). When that fails, run()
\* goes on to unregister and start() is told nothing: the sender it waits for
\* is not dropped before run() ends.
Subscribe(t) ==
    /\ state[t] = "starting"
    /\ \E s \in {"listening"} \cup (IF "subscribe" \in Faults THEN {"failed"} ELSE {}) :
          state' = [state EXCEPT ![t] = s]
    /\ UNCHANGED <<alive, call, handlers, owner, opcode, signal>>

ClientGone_Unnoticed(c) ==
    /\ c \in alive
    /\ LeavesEarly \/ pc = "none" \/ caller # c
    /\ alive' = alive \ {c}
    /\ UNCHANGED <<call, handlers, tasks, signal>>

\* A client leaves the bus; the tasks that listen are told. One that has not
\* subscribed yet never hears of it.
ClientGone(c) ==
    /\ c \in alive
    /\ LeavesEarly \/ pc = "none" \/ caller # c
    /\ alive' = alive \ {c}
    /\ state' = [t \in Tasks |->
                    IF state[t] = "listening" /\ owner[t] = c THEN "leaving" ELSE state[t]]
    /\ UNCHANGED <<call, handlers, owner, opcode, signal>>

-----------------------------------------------------------------------------

Serve == Check \/ Start \/ Register \/ Announce \/ Unregister

TaskStep(t) == Subscribe(t) \/ TaskUnregisters(t)

\* Every task that may be started has been, and the next one would be beyond
\* the bound.
OutOfTasks ==
    /\ pc = "lock" /\ \A t \in Tasks : state[t] # "unused"
    /\ pc' = "none"
    /\ UNCHANGED <<alive, caller, op, new, handlers, tasks, signal>>

\* Nobody is left to call.
Deserted == alive = {} /\ pc = "none" /\ UNCHANGED vars

Next ==
    \/ \E c \in Clients, o \in Opcodes, label \in {"check", "unregister"} : Request(c, o, label)
    \/ Serve \/ OutOfTasks
    \/ \E t \in Tasks : TaskStep(t)
    \/ \E c \in Clients : ClientGone(c)
    \/ Deserted

Spec == Init /\ [][Next]_vars

\* The tasks of cecd are polled; clients owe nothing.
Fairness == WF_vars(Serve \/ OutOfTasks) /\ \A t \in Tasks : WF_vars(TaskStep(t))

FairSpec == Spec /\ Fairness

-----------------------------------------------------------------------------
(* Properties.                                                             *)

\* Every handler has a task that has subscribed and is still there to take it
\* away when its client leaves (start() waits for the subscription, aborting
\* a task and removing its handler is one critical section).
HandlerWatched ==
    \A o \in Opcodes : handlers[o] # NoTask =>
        state[handlers[o]] \in {"listening", "leaving"} /\ opcode[handlers[o]] = o

OwnersLose ==
    \A o \in Opcodes : handlers[o] # NoTask /\ handlers'[o] # handlers[o] =>
        \/ owner[handlers[o]] \notin alive
        \/ pc = "unregister" /\ caller = owner[handlers[o]]

\* A handler is taken away only from a client that asked for it or has left.
OnlyOwnersLose == [][OwnersLose]_vars

\* The handler of a client that has left is about to be removed: waiting for
\* the subscription is enough not to miss the signal.
GoneIsNoticed ==
    \A o \in Opcodes : handlers[o] # NoTask /\ owner[handlers[o]] \notin alive =>
        state[handlers[o]] = "leaving"

\* A call of Daemon1 is always answered, and so the next one is served.
CallsReturn == pc # "none" ~> pc = "none"

\* The handlers of a client that has left disappear.
CleanedUp ==
    \A c \in Clients : c \notin alive ~> \A o \in Opcodes : ~Removes(o, c)

\* Clients that follow the changes of HandledMessages know every opcode that
\* is handled when no call is being served, but for those whose own signal
\* failed and which no later one has made up for. They may believe in more:
\* nobody is told when a handler disappears with its client.
NothingUnannounced == pc = "none" => Handled \subseteq announced \cup unsaid
=============================================================================
