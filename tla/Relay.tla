-------------------------------- MODULE Relay --------------------------------
(***************************************************************************)
(* AsyncDevice and AsyncDevicePoller: each has a thread that does the      *)
(* blocking work and a channel of commands, and each command brings its    *)
(* own channel for the answer. The task that polls (DeviceTask::run) waits *)
(* for the poller in a select!, so that it gives up a poll whenever        *)
(* something else comes first; the poller's thread polls on.               *)
(***************************************************************************)
EXTENDS Integers, Sequences

CONSTANTS
    Callers,       \* the tasks that share an AsyncDevice
    Task,          \* the one that polls
    Values,        \* what a setter sets
    MaxPending,    \* bound on the kernel's queues
    MaxQueue,      \* bound on commands in the device's channel
    MaxPolls       \* bound on commands in the poller's channel

ASSUME RelayAssumption == Task \in Callers /\ Values # {} /\ MaxPending \in Nat

VARIABLES
    dev,       \* the Device, which the thread owns
    queue,     \* DeviceThread.rx: commands, "live" while the answer is awaited
    call,      \* by caller: what relay! waits for
    thread,    \* "running", "ended" or "panicked"
    owner,     \* the AsyncDevice: "shared", "joining" its thread, or "gone"
    polls,     \* the poller's channel: the answers awaited or not, or "drop"
    task,      \* the polling task: where it is, and the status it has
    poller     \* the AsyncDevicePoller: "open", "joining" or "gone"

vars == <<dev, queue, call, thread, owner, polls, task, poller>>

deviceVars == <<dev, queue, call, thread, owner>>
pollerVars == <<polls, task, poller>>

\* A command of c that is not Drop.
IsCall(e, c) == e.from = c /\ e.op.kind # "drop"

\* The calls of c among the commands in q, oldest first.
CallsOf(q, c) ==
    LET upTo[n \in 0..Len(q)] ==
            IF n = 0 THEN <<>>
            ELSE IF IsCall(q[n], c) THEN Append(upTo[n - 1], q[n].op)
            ELSE upTo[n - 1]
    IN  upTo[Len(q)]

C == INSTANCE Calls WITH todo <- [c \in Callers |-> CallsOf(queue, c)]

At(st) == [st |-> st, status |-> {}]

Init ==
    /\ \E v \in Values : dev = [val |-> v, events |-> 0, messages |-> 0]
    /\ queue = <<>>
    /\ call = [c \in Callers |-> C!Idle]
    /\ thread = "running"
    /\ owner = "shared"
    /\ polls = <<>>
    /\ task = At("loop")
    /\ poller = "open"

-----------------------------------------------------------------------------
(* The device's thread.                                                    *)

Entry(c, op) == [from |-> c, op |-> op, live |-> TRUE]

\* relay!: without a thread that receives, the command cannot be sent.
Relayed(c, op) ==
    /\ owner = "shared"
    /\ call[c] = C!Idle
    /\ IF thread = "running"
       THEN /\ Len(queue) < MaxQueue
            /\ queue' = Append(queue, Entry(c, op))
            /\ call' = [call EXCEPT ![c] = C!Waiting]
       ELSE /\ call' = [call EXCEPT ![c] = C!Answered(C!Failed)]
            /\ UNCHANGED queue
    /\ UNCHANGED <<dev, thread, owner>>

\* A getter or a setter. The polling task calls them too, between two polls.
Call(c) ==
    /\ c = Task => task.st = "loop"
    /\ \E op \in [kind : {"set"}, val : Values] \cup {[kind |-> "get"]} : Relayed(c, op)
    /\ UNCHANGED pollerVars

Cancels_Any(c) == TRUE

\* The futures that may be dropped while they wait. The polling task awaits
\* handle_status in the body of its select!, which nothing interrupts.
Cancels(c) == c # Task

Abandon(c) ==
    /\ Cancels(c)
    /\ call[c] = C!Waiting
    /\ call' = [call EXCEPT ![c] = C!Idle]
    /\ queue' = [i \in DOMAIN queue |->
                    IF queue[i].from = c THEN [queue[i] EXCEPT !.live = FALSE] ELSE queue[i]]
    /\ task' = IF c = Task THEN At("loop") ELSE task
    /\ UNCHANGED <<dev, thread, owner, polls, poller>>

Expects_Anyone(entry) == call[entry.from] = C!Waiting

\* The command's own channel still has its other end.
Expects(entry) == entry.live

\* DeviceThread::run: one command.
RunCommand ==
    /\ thread = "running"
    /\ queue # <<>>
    /\ Head(queue).op.kind # "drop"
    /\ C!CanRun(Head(queue).op, dev)
    /\ dev' = C!Apply(Head(queue).op, dev)
    /\ call' = IF Expects(Head(queue))
               THEN [call EXCEPT ![Head(queue).from] = C!Answered(C!Result(Head(queue).op, dev))]
               ELSE call
    /\ queue' = Tail(queue)
    /\ UNCHANGED <<thread, owner, pollerVars>>

\* DeviceCommand::Drop
RunDrop ==
    /\ thread = "running"
    /\ queue # <<>>
    /\ Head(queue).op.kind = "drop"
    /\ thread' = "ended"
    /\ queue' = Tail(queue)
    /\ UNCHANGED <<dev, call, owner, pollerVars>>

\* A panic ends the thread, and with it both ends of every channel it holds.
Panic ==
    /\ thread = "running"
    /\ queue # <<>>
    /\ Head(queue).op.kind # "drop"
    /\ thread' = "panicked"
    /\ queue' = <<>>
    /\ call' = [c \in Callers |-> IF call[c] = C!Waiting THEN C!Answered(C!Failed) ELSE call[c]]
    /\ UNCHANGED <<dev, owner, pollerVars>>

Return(c) ==
    /\ call[c].st = "answered"
    /\ call' = [call EXCEPT ![c] = C!Idle]
    /\ task' = IF c = Task /\ task.st = "handling" THEN At("loop") ELSE task
    /\ UNCHANGED <<dev, queue, thread, owner, polls, poller>>

DropDevice_Silent ==
    /\ owner = "shared"
    /\ task.st = "ended"
    /\ \A c \in Callers : call[c] = C!Idle
    /\ owner' = "joining"
    /\ UNCHANGED <<dev, queue, call, thread, pollerVars>>

\* AsyncDevice::drop and close, once nobody borrows it. The sender lives on
\* until the thread is joined, so the thread has to be told.
DropDevice ==
    /\ owner = "shared"
    /\ task.st = "ended"
    /\ \A c \in Callers : call[c] = C!Idle
    /\ owner' = "joining"
    /\ queue' = IF thread = "running" THEN Append(queue, Entry(Task, [kind |-> "drop"])) ELSE queue
    /\ UNCHANGED <<dev, call, thread, pollerVars>>

Join ==
    /\ owner = "joining"
    /\ thread # "running"
    /\ owner' = "gone"
    /\ UNCHANGED <<dev, queue, call, thread, pollerVars>>

-----------------------------------------------------------------------------
(* The poller's thread and the task that polls.                            *)

\* AsyncDevicePoller::poll, as the first branch of the select!.
Poll ==
    /\ task.st = "loop"
    /\ call[Task] = C!Idle
    /\ Len(polls) < MaxPolls
    /\ polls' = Append(polls, "live")
    /\ task' = At("polling")
    /\ UNCHANGED <<deviceVars, poller>>

\* Nobody waits for the poll any more.
Unheard(s) == [i \in DOMAIN s |-> IF s[i] = "live" THEN "dead" ELSE s[i]]

\* Another branch comes first: the poll is given up.
OtherBranch ==
    /\ task.st = "polling"
    /\ polls' = Unheard(polls)
    /\ task' = At("loop")
    /\ UNCHANGED <<deviceVars, poller>>

\* DevicePoller::poll: what is there now, or an error after two seconds.
Found == (IF dev.events > 0 THEN {"event"} ELSE {})
             \cup (IF dev.messages > 0 THEN {"message"} ELSE {})

RunPoll ==
    /\ polls # <<>>
    /\ Head(polls) # "drop"
    /\ polls' = Tail(polls)
    /\ task' = IF Head(polls) = "dead" THEN task
               ELSE IF Found = {} THEN At("loop")
               ELSE [st |-> "found", status |-> Found]
    /\ UNCHANGED <<deviceVars, poller>>

\* handle_status, in the body of the select!.
Handle ==
    /\ task.st = "found"
    /\ Relayed(Task, [kind |-> "handle", status |-> task.status])
    /\ task' = [task EXCEPT !.st = "handling"]
    /\ UNCHANGED <<polls, poller>>

\* The task ends and drops its poller, whose thread first works off all the
\* polls that were given up.
TaskEnds(rest) ==
    /\ task.st = "polling"
    /\ task' = At("ended")
    /\ polls' = Append(rest, "drop")
    /\ poller' = "joining"
    /\ UNCHANGED deviceVars

\* The token is cancelled, or the poll says that the adapter is gone (POLLHUP).
Cancelled == TaskEnds(Unheard(polls))
Destroyed == polls # <<>> /\ Head(polls) = "live" /\ TaskEnds(Tail(polls))

RunPollerDrop ==
    /\ polls # <<>>
    /\ Head(polls) = "drop"
    /\ polls' = Tail(polls)
    /\ poller' = "gone"
    /\ UNCHANGED <<deviceVars, task>>

\* The bus and the kernel.
Arrival ==
    /\ \/ dev.events < MaxPending /\ dev' = [dev EXCEPT !.events = @ + 1]
       \/ dev.messages < MaxPending /\ dev' = [dev EXCEPT !.messages = @ + 1]
    /\ UNCHANGED <<queue, call, thread, owner, pollerVars>>

-----------------------------------------------------------------------------

Next ==
    \/ \E c \in Callers : Call(c) \/ Abandon(c) \/ Return(c)
    \/ RunCommand \/ RunDrop \/ Panic \/ DropDevice \/ Join
    \/ Poll \/ OtherBranch \/ RunPoll \/ Handle \/ Cancelled \/ Destroyed \/ RunPollerDrop
    \/ Arrival

\* Both threads run whenever they have something to do, a blocked join returns
\* when its thread has ended, and a caller takes its answer.
Fairness ==
    /\ WF_vars(RunCommand) /\ WF_vars(RunDrop) /\ WF_vars(Join)
    /\ WF_vars(RunPoll) /\ WF_vars(RunPollerDrop)
    /\ \A c \in Callers : WF_vars(Return(c))

Spec == Init /\ [][Next]_vars /\ Fairness

-----------------------------------------------------------------------------
(* Properties.                                                             *)

\* AsyncDevice behaves as Calls says: queue, thread and abandoned futures do
\* not show. An answer is the one to the caller's own last call.
RelaysCalls == C!CallsSpec

\* What a poll found is still there when handle_status asks the kernel for it,
\* although another thread found it: else dequeue_event would block the thread
\* of the device for all callers.
StatusStillTrue ==
    /\ task.st = "found" => task.status \subseteq Found
    /\ \A i \in DOMAIN queue : queue[i].op.kind = "handle" => queue[i].op.status \subseteq Found

\* Whoever waits stops waiting: a caller for its answer, the last owner for the
\* device's thread, the task for the poller's.
EveryWaitEnds ==
    /\ \A c \in Callers : call[c] = C!Waiting ~> call[c] # C!Waiting
    /\ owner = "joining" ~> owner = "gone"
    /\ poller = "joining" ~> poller = "gone"

=============================================================================
