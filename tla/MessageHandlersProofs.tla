----------------------- MODULE MessageHandlersProofs -----------------------
(***************************************************************************)
(* Proofs about MessageHandlers for any clients, opcodes and number of     *)
(* tasks.                                                                  *)
(***************************************************************************)
EXTENDS MessageHandlers, TLAPS

USE MessageHandlersAssumption

\* Type correctness of the registry, its tasks and the call being served.
LEMMA TypeOKNext ==
    ASSUME TypeOK, [Next]_vars
    PROVE  TypeOK'
<1> USE DEF TypeOK, signal
<1>1. ASSUME NEW c \in Clients, NEW o \in Opcodes, NEW label \in {"check", "unregister"},
             Request(c, o, label)
      PROVE  TypeOK'
  BY <1>1 DEF Request, tasks
<1>2. CASE Check \/ OutOfTasks
  BY <1>2 DEF Check, OutOfTasks, tasks
<1>3. CASE Start
  BY <1>3 DEF Start
<1>4. CASE Register
  BY <1>4 DEF Register, tasks
<1>5. CASE Announce
  BY <1>5 DEF Announce, Handled, tasks
<1>6. CASE Unregister
  BY <1>6 DEF Unregister, Remove
<1>7. ASSUME NEW t \in Tasks, TaskStep(t) PROVE TypeOK'
  <2>1. CASE Subscribe(t)
    BY <2>1 DEF Subscribe, call
  <2>2. CASE TaskUnregisters(t)
    BY <2>2 DEF TaskUnregisters, Remove, call
  <2>3. QED BY <1>7, <2>1, <2>2 DEF TaskStep
<1>8. ASSUME NEW c \in Clients, ClientGone(c) PROVE TypeOK'
  BY <1>8 DEF ClientGone, call
<1>9. CASE UNCHANGED vars
  BY <1>9 DEF vars, call, tasks
<1>10. QED
  BY <1>1, <1>2, <1>3, <1>4, <1>5, <1>6, <1>7, <1>8, <1>9 DEF Next, Serve, Deserted

-----------------------------------------------------------------------------

\* While register_message_handler holds the mutex, its task belongs to the
\* call, and the opcode is free.
Registering ==
    pc = "wait" =>
        /\ new \in Tasks
        /\ state[new] \in {"starting", "listening", "leaving", "failed"}
        /\ opcode[new] = op /\ owner[new] = caller
        /\ handlers[op] = NoTask
        /\ \A o \in Opcodes : handlers[o] # new

\* A task that has not subscribed is the one the call waits for.
Unsubscribed ==
    \A t \in Tasks : state[t] \in {"starting", "failed"} => pc = "wait" /\ new = t

\* A task that unregisters after a signal has lost its client.
LeavingIsGone ==
    \A t \in Tasks : state[t] = "leaving" => owner[t] \notin alive

RegistryInv == TypeOK /\ HandlerWatched /\ Registering /\ Unsubscribed /\ LeavingIsGone

\* Every step keeps RegistryInv.
LEMMA RegistryInvNext ==
    ASSUME RegistryInv, [Next]_vars
    PROVE  RegistryInv'
<1> USE DEF RegistryInv
<1>0. TypeOK'
  BY TypeOKNext
<1> USE DEF HandlerWatched, Registering, Unsubscribed, LeavingIsGone
<1>1. ASSUME NEW c \in Clients, NEW o \in Opcodes, NEW label \in {"check", "unregister"},
             Request(c, o, label)
      PROVE  RegistryInv'
  BY <1>0, <1>1 DEF Request, tasks
<1>2. CASE Check \/ OutOfTasks
  BY <1>0, <1>2 DEF Check, OutOfTasks, tasks
<1>3. CASE Start
  <2>1. PICK t \in Tasks :
            /\ state[t] = "unused"
            /\ new' = t
            /\ state' = [state EXCEPT ![t] = "starting"]
            /\ owner' = [owner EXCEPT ![t] = caller]
            /\ opcode' = [opcode EXCEPT ![t] = op]
    BY <1>3 DEF Start
  <2>2. pc' = "wait" /\ pc # "wait" /\ handlers[op] = NoTask /\ UNCHANGED <<alive, caller, op, handlers>>
    BY <1>3 DEF Start
  <2>3. \A o \in Opcodes : handlers[o] # t
    BY <2>1
  <2>4. HandlerWatched' /\ Registering'
    BY <2>1, <2>2, <2>3 DEF TypeOK
  <2>5. Unsubscribed' /\ LeavingIsGone'
    BY <2>1, <2>2 DEF TypeOK
  <2>6. QED BY <1>0, <2>4, <2>5
<1>4. CASE Register
  BY <1>0, <1>4 DEF Register, tasks, TypeOK
<1>5. CASE Announce
  BY <1>0, <1>5 DEF Announce, tasks
<1>6. CASE Unregister
  BY <1>0, <1>6 DEF Unregister, Removes, Remove, TypeOK
<1>7. ASSUME NEW t \in Tasks, TaskStep(t) PROVE RegistryInv'
  <2>1. CASE Subscribe(t)
    BY <1>0, <2>1 DEF Subscribe, call, TypeOK
  <2>2. CASE TaskUnregisters(t)
    BY <1>0, <2>2 DEF TaskUnregisters, Removes, Remove, Locked, call, TypeOK
  <2>3. QED BY <1>7, <2>1, <2>2 DEF TaskStep
<1>8. ASSUME NEW c \in Clients, ClientGone(c) PROVE RegistryInv'
  BY <1>0, <1>8 DEF ClientGone, call, TypeOK
<1>9. CASE UNCHANGED vars
  BY <1>0, <1>9 DEF vars, call, tasks
<1>10. QED
  BY <1>1, <1>2, <1>3, <1>4, <1>5, <1>6, <1>7, <1>8, <1>9 DEF Next, Serve, Deserted

\* RegistryInv holds in every reachable state.
LEMMA RegistryInvAlways == Spec => []RegistryInv
<1>1. Init => RegistryInv
  BY DEF Init, RegistryInv, TypeOK, HandlerWatched, Registering, Unsubscribed, LeavingIsGone
<1>2. RegistryInv /\ [Next]_vars => RegistryInv'
  BY RegistryInvNext
<1>3. QED
  BY <1>1, <1>2, PTL DEF Spec

\* No handler is ever without a task that can take it away, whichever calls
\* fail and whenever clients leave.
THEOREM HandlersAreWatched == Spec => []HandlerWatched
<1>1. RegistryInv => HandlerWatched
  BY DEF RegistryInv
<1>2. QED
  BY <1>1, RegistryInvAlways, PTL

-----------------------------------------------------------------------------

\* Every step takes handlers away only as OwnersLose allows.
LEMMA OwnersLoseNext ==
    ASSUME RegistryInv, [Next]_vars
    PROVE  OwnersLose
<1> SUFFICES ASSUME NEW o \in Opcodes, handlers[o] # NoTask, handlers'[o] # handlers[o]
             PROVE  \/ owner[handlers[o]] \notin alive
                    \/ pc = "unregister" /\ caller = owner[handlers[o]]
  BY DEF OwnersLose
<1> USE DEF RegistryInv, TypeOK
<1>1. \/ Register \/ Unregister
      \/ \E t \in Tasks : TaskUnregisters(t)
  BY DEF Next, Request, Serve, Check, Start, Announce, OutOfTasks, TaskStep, Subscribe,
         ClientGone, Deserted, vars
<1>2. CASE Register
  BY <1>2 DEF Register, Registering
<1>3. CASE Unregister
  BY <1>3 DEF Unregister, Removes, Remove
<1>4. ASSUME NEW t \in Tasks, TaskUnregisters(t)
      PROVE  owner[handlers[o]] \notin alive
  <2>1. o = opcode[t] /\ owner[handlers[o]] = owner[t]
    BY <1>4 DEF TaskUnregisters, Removes, Remove
  <2>2. state[t] = "leaving"
    BY <1>4 DEF TaskUnregisters, Locked, Unsubscribed
  <2>3. QED BY <2>1, <2>2 DEF LeavingIsGone
<1>5. QED
  BY <1>1, <1>2, <1>3, <1>4

\* No client can take another's handler, and no task a living client's.
THEOREM OwnersKeepHandlers == Spec => OnlyOwnersLose
<1>1. RegistryInv /\ [Next]_vars => [OwnersLose]_vars
  BY OwnersLoseNext
<1>2. QED
  BY <1>1, RegistryInvAlways, PTL DEF Spec, OnlyOwnersLose

\* A task that waits for its client's end, or is about to, has a living one,
\* and so has the call being served.
ListenerLives ==
    /\ pc # "none" => caller \in alive
    /\ \A t \in Tasks : state[t] \in {"starting", "listening"} => owner[t] \in alive

\* Every step keeps ListenerLives if clients stay for their answers.
LEMMA ListenerLivesNext ==
    ASSUME ~LeavesEarly, RegistryInv, ListenerLives, [Next]_vars
    PROVE  ListenerLives'
<1> USE DEF RegistryInv, TypeOK, ListenerLives
<1>1. ASSUME NEW c \in Clients, NEW o \in Opcodes, NEW label \in {"check", "unregister"},
             Request(c, o, label)
      PROVE  ListenerLives'
  BY <1>1 DEF Request, tasks
<1>2. CASE Check \/ OutOfTasks \/ Register \/ Announce
  BY <1>2 DEF Check, OutOfTasks, Register, Announce, tasks
<1>3. CASE Start
  BY <1>3 DEF Start
<1>4. CASE Unregister
  BY <1>4 DEF Unregister, Removes
<1>5. ASSUME NEW t \in Tasks, TaskStep(t) PROVE ListenerLives'
  BY <1>5 DEF TaskStep, Subscribe, TaskUnregisters, Removes, call
<1>6. ASSUME NEW c \in Clients, ClientGone(c) PROVE ListenerLives'
  BY <1>6 DEF ClientGone, call, Unsubscribed, Registering
<1>7. CASE UNCHANGED vars
  BY <1>7 DEF vars, call, tasks
<1>8. QED
  BY <1>1, <1>2, <1>3, <1>4, <1>5, <1>6, <1>7 DEF Next, Serve, Deserted

\* If clients wait for the answers to their calls, no handler outlives its
\* client unnoticed.
THEOREM NoStaleHandler ==
    ASSUME ~LeavesEarly
    PROVE  Spec => []GoneIsNoticed
<1>1. Init => ListenerLives
  BY DEF Init, ListenerLives
<1>2. RegistryInv /\ ListenerLives /\ [Next]_vars => ListenerLives'
  BY ListenerLivesNext
<1>3. RegistryInv /\ ListenerLives => GoneIsNoticed
  BY DEF RegistryInv, TypeOK, HandlerWatched, ListenerLives, GoneIsNoticed
<1>4. QED
  BY <1>1, <1>2, <1>3, RegistryInvAlways, PTL DEF Spec

-----------------------------------------------------------------------------

\* The announced list lacks nothing but what a failed signal has left out and
\* the opcode of a call that is about to tell. Only these calls add a handler:
\* a task takes away what its client had.
Told ==
    \A o \in Handled : o \in announced \cup unsaid \/ (pc = "announce" /\ o = op)

\* Every step keeps Told.
LEMMA ToldNext ==
    ASSUME TypeOK, Told, [Next]_vars
    PROVE  Told'
<1> USE DEF TypeOK, Told, Handled, signal
<1>1. ASSUME NEW c \in Clients, NEW o \in Opcodes, NEW label \in {"check", "unregister"},
             Request(c, o, label)
      PROVE  Told'
  BY <1>1 DEF Request
<1>2. CASE Check \/ OutOfTasks \/ Start \/ Register
  BY <1>2 DEF Check, OutOfTasks, Start, Register
<1>3. CASE Announce
  BY <1>3 DEF Announce
<1>4. CASE Unregister
  BY <1>4 DEF Unregister, Remove
<1>5. ASSUME NEW t \in Tasks, TaskStep(t) PROVE Told'
  <2>1. CASE Subscribe(t)
    BY <2>1 DEF Subscribe, call
  <2>2. CASE TaskUnregisters(t)
    <3>1. \A o \in Opcodes : handlers'[o] # NoTask => handlers[o] # NoTask
      BY <2>2 DEF TaskUnregisters, Remove
    <3>2. QED BY <2>2, <3>1 DEF TaskUnregisters, call
  <2>3. QED BY <1>5, <2>1, <2>2 DEF TaskStep
<1>6. ASSUME NEW c \in Clients, ClientGone(c) PROVE Told'
  BY <1>6 DEF ClientGone, call
<1>7. CASE UNCHANGED vars
  BY <1>7 DEF vars, call
<1>8. QED
  BY <1>1, <1>2, <1>3, <1>4, <1>5, <1>6, <1>7 DEF Next, Serve, Deserted

\* Between two calls, whoever follows the signals knows every handled opcode
\* but those whose signal failed since the last one that was sent.
THEOREM HandlersAreAnnounced == Spec => []NothingUnannounced
<1>1. Init => Told
  BY DEF Init, Told, Handled
<1>2. RegistryInv /\ Told /\ [Next]_vars => Told'
  BY ToldNext DEF RegistryInv
<1>3. Told => NothingUnannounced
  BY DEF Told, NothingUnannounced
<1>4. QED
  BY <1>1, <1>2, <1>3, RegistryInvAlways, PTL DEF Spec
=============================================================================
