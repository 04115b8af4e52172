-------------------------------- MODULE Calls --------------------------------
(***************************************************************************)
(* What AsyncDevice promises: the methods of a Device, each of which takes *)
(* effect once and at one moment between its call and its return, and the  *)
(* calls of one caller in their order. A caller may stop waiting; the call *)
(* then still takes effect, but nobody learns of it. There is no queue and *)
(* no thread here.                                                         *)
(***************************************************************************)
EXTENDS Integers, Sequences

CONSTANTS
    Callers,
    Values,        \* what a setter sets
    MaxPending     \* bound on the kernel's queues

VARIABLES
    dev,       \* the device: a setting, and what the kernel has queued for it
    todo,      \* by caller, the calls that have not taken effect yet
    call       \* by caller, the call it waits for

callsVars == <<dev, todo, call>>

\* A setter, a getter, or handle_status for what poll has found.
Statuses == (SUBSET {"event", "message"}) \ {{}}
Ops == [kind : {"set"}, val : Values] \cup {[kind |-> "get"]}
           \cup [kind : {"handle"}, status : Statuses]

Idle == [st |-> "idle"]
Waiting == [st |-> "waiting"]
Answered(res) == [st |-> "answered", res |-> res]
Failed == [is |-> "error"]

\* handle_status: the file blocks, so an event that is not there is waited for.
CanRun(op, d) == op.kind = "handle" /\ "event" \in op.status => d.events > 0

Less(n) == IF n = 0 THEN 0 ELSE n - 1

Apply(op, d) ==
    CASE op.kind = "set"    -> [d EXCEPT !.val = op.val]
      [] op.kind = "get"    -> d
      [] op.kind = "handle" ->
            [d EXCEPT !.events = IF "event" \in op.status THEN Less(@) ELSE @,
                      !.messages = IF "message" \in op.status THEN Less(@) ELSE @]

\* Receiving a message that is not there is a timeout.
Result(op, d) ==
    CASE op.kind = "set"    -> [is |-> "ok"]
      [] op.kind = "get"    -> [is |-> "ok", val |-> d.val]
      [] op.kind = "handle" -> IF "message" \in op.status /\ d.messages = 0
                               THEN Failed ELSE [is |-> "ok", got |-> op.status]

CallsInit ==
    /\ \E v \in Values : dev = [val |-> v, events |-> 0, messages |-> 0]
    /\ todo = [c \in Callers |-> <<>>]
    /\ call = [c \in Callers |-> Idle]

\* The bus and the kernel: something is there to be handled.
Arrival ==
    /\ \/ dev.events < MaxPending /\ dev' = [dev EXCEPT !.events = @ + 1]
       \/ dev.messages < MaxPending /\ dev' = [dev EXCEPT !.messages = @ + 1]
    /\ UNCHANGED <<todo, call>>

Invoke(c, op) ==
    /\ call[c] = Idle
    /\ todo' = [todo EXCEPT ![c] = Append(@, op)]
    /\ call' = [call EXCEPT ![c] = Waiting]
    /\ UNCHANGED dev

\* The oldest call of c takes effect. If it is also the newest one, and c
\* waits for it, c has its answer.
TakeEffect(c) ==
    /\ todo[c] # <<>>
    /\ CanRun(Head(todo[c]), dev)
    /\ dev' = Apply(Head(todo[c]), dev)
    /\ todo' = [todo EXCEPT ![c] = Tail(@)]
    /\ call' = IF Len(todo[c]) = 1 /\ call[c] = Waiting
               THEN [call EXCEPT ![c] = Answered(Result(Head(todo[c]), dev))]
               ELSE call

Return(c) ==
    /\ call[c].st = "answered"
    /\ call' = [call EXCEPT ![c] = Idle]
    /\ UNCHANGED <<dev, todo>>

\* The future is dropped.
GiveUp(c) ==
    /\ call[c] = Waiting
    /\ call' = [call EXCEPT ![c] = Idle]
    /\ UNCHANGED <<dev, todo>>

\* The device is lost: whoever waits gets an error, at once or when it calls.
Lose ==
    /\ todo' = [c \in Callers |-> <<>>]
    /\ call' = [c \in Callers |-> IF call[c] = Waiting THEN Answered(Failed) ELSE call[c]]
    /\ UNCHANGED dev

Refuse(c) ==
    /\ call[c] = Idle
    /\ call' = [call EXCEPT ![c] = Answered(Failed)]
    /\ UNCHANGED <<dev, todo>>

CallsNext ==
    \/ Arrival
    \/ Lose
    \/ \E c \in Callers :
         \/ \E op \in Ops : Invoke(c, op)
         \/ TakeEffect(c) \/ Return(c) \/ GiveUp(c) \/ Refuse(c)

CallsSpec == CallsInit /\ [][CallsNext]_callsVars

=============================================================================
