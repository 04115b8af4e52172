----------------------------- MODULE KeyRepeat -----------------------------
(***************************************************************************)
(* Remote control keys sent to other devices: CecDevice1.PressUserControl, *)
(* ReleaseUserControl, PressOnceUserControl and the volume methods, and    *)
(* the KeyRepeat tasks that repeat a pressed key until they are cancelled. *)
(*                                                                         *)
(* The first three take &mut self: one is served at a time and none of the *)
(* volume methods meanwhile. Each transmission of a task is one critical   *)
(* section of the device's mutex; so are both transmissions of a click.    *)
(***************************************************************************)
EXTENDS Naturals

CONSTANTS
    Targets,    \* logical addresses keys are sent to
    Keys,       \* UI commands
    NoKey,
    Tasks,      \* spawned KeyRepeat tasks; ended ones are used again
    NoTask,
    Faults      \* which transmissions may fail: of presses, of releases

ASSUME KeyRepeatAssumption ==
    /\ NoKey \notin Keys /\ NoTask \notin Tasks
    /\ Faults \subseteq {"press", "release"}

VARIABLES
    entry,      \* CecDevice.key_repeat: the task of each target's entry
    key,        \* each task's key
    target,     \* its log_addr
    state,      \* what it is doing
    cancelled,  \* its token is cancelled
    closed,     \* the device's token, parent of the tasks', is cancelled
    pc,         \* "none", or the method that awaits a task
    callKey,    \* its arguments
    callTarget,
    waitFor,    \* the task it awaits
    held,       \* the key each target takes for pressed (external)
    lost        \* the targets that missed something since their last release

call  == <<pc, callKey, callTarget, waitFor>>
tasks == <<key, target, state, cancelled>>
bus   == <<held, lost>>
vars  == <<entry, tasks, closed, call, bus>>

Running == {"pressing", "waiting", "releasing"}

Init ==
    /\ entry = [a \in Targets |-> NoTask]
    /\ key = [t \in Tasks |-> NoKey]
    /\ \E a \in Targets : target = [t \in Tasks |-> a] /\ callTarget = a
    /\ state = [t \in Tasks |-> "ended"]
    /\ cancelled = [t \in Tasks |-> FALSE]
    /\ closed = FALSE
    /\ pc = "none" /\ callKey = NoKey /\ waitFor = NoTask
    /\ held = [a \in Targets |-> NoKey]
    /\ lost = {}

-----------------------------------------------------------------------------
(* Transmissions. A target that does not acknowledge has not heard us.     *)

PressSent(k, a) == held' = [held EXCEPT ![a] = k] /\ UNCHANGED lost
ReleaseSent(a)  == held' = [held EXCEPT ![a] = NoKey] /\ lost' = lost \ {a}
PressFails(a)   == "press" \in Faults /\ lost' = lost \cup {a} /\ UNCHANGED held
ReleaseFails(a) == "release" \in Faults /\ lost' = lost \cup {a} /\ UNCHANGED held

\* press_user_control and release_user_control with the device locked; the
\* release is not sent when the press fails.
Click(k, a) ==
    \/ ReleaseSent(a)
    \/ "release" \in Faults /\ held' = [held EXCEPT ![a] = k] /\ lost' = lost \cup {a}
    \/ PressFails(a)

-----------------------------------------------------------------------------
(* KeyRepeat::run.                                                         *)

\* A failed press ends the task, without a release.
TaskPress(t) ==
    /\ state[t] = "pressing"
    /\ \/ PressSent(key[t], target[t]) /\ state' = [state EXCEPT ![t] = "waiting"]
       \/ PressFails(target[t]) /\ state' = [state EXCEPT ![t] = "failed"]
    /\ UNCHANGED <<entry, key, target, cancelled, closed, call>>

\* The delay is over. That may also be noticed before a cancellation is.
TaskDelay(t) ==
    /\ state[t] = "waiting"
    /\ state' = [state EXCEPT ![t] = "pressing"]
    /\ UNCHANGED <<entry, key, target, cancelled, closed, call, bus>>

TaskCancelled_Never(t) ==
    state[t] = "waiting" /\ cancelled[t] /\ UNCHANGED vars

TaskCancelled_JustEnds(t) ==
    /\ state[t] = "waiting" /\ cancelled[t]
    /\ state' = [state EXCEPT ![t] = "ended"]
    /\ UNCHANGED <<entry, key, target, cancelled, closed, call, bus>>

TaskCancelled(t) ==
    /\ state[t] = "waiting" /\ cancelled[t]
    /\ state' = [state EXCEPT ![t] = "releasing"]
    /\ UNCHANGED <<entry, key, target, cancelled, closed, call, bus>>

TaskRelease(t) ==
    /\ state[t] = "releasing"
    /\ \/ ReleaseSent(target[t]) /\ state' = [state EXCEPT ![t] = "ended"]
       \/ ReleaseFails(target[t]) /\ state' = [state EXCEPT ![t] = "failed"]
    /\ UNCHANGED <<entry, key, target, cancelled, closed, call>>

-----------------------------------------------------------------------------
(* The D-Bus methods.                                                      *)

\* A task of which nothing is left, neither an entry nor a running future. The
\* handle that Awaited has awaited is used up.
Free(t) ==
    /\ state[t] \notin Running
    /\ \A a \in Targets : entry[a] # t

\* spawn(task.run()), with a child of the device's token.
Spawn(k, a) ==
    \E t \in Tasks :
        /\ Free(t)
        /\ key' = [key EXCEPT ![t] = k]
        /\ target' = [target EXCEPT ![t] = a]
        /\ state' = [state EXCEPT ![t] = "pressing"]
        /\ cancelled' = [cancelled EXCEPT ![t] = closed]
        /\ entry' = [entry EXCEPT ![a] = t]

\* The entry is removed, its token cancelled, and its task awaited.
CancelAndWait(label, k, a) ==
    /\ entry[a] # NoTask
    /\ pc' = label /\ callKey' = k /\ callTarget' = a /\ waitFor' = entry[a]
    /\ cancelled' = [cancelled EXCEPT ![entry[a]] = TRUE]
    /\ entry' = [entry EXCEPT ![a] = NoTask]
    /\ UNCHANGED <<key, target, state, closed, bus>>

PressUserControl_NoWait(k, a) ==
    /\ pc = "none"
    /\ entry[a] # NoTask => key[entry[a]] # k
    /\ Spawn(k, a)
    /\ UNCHANGED <<closed, call, bus>>

\* Pressing the key that is already repeated does nothing.
PressUserControl(k, a) ==
    /\ pc = "none"
    /\ \/ entry[a] = NoTask /\ Spawn(k, a) /\ UNCHANGED <<closed, call, bus>>
       \/ entry[a] # NoTask /\ key[entry[a]] # k /\ CancelAndWait("press", k, a)

ReleaseUserControl(a) ==
    /\ pc = "none"
    /\ \/ CancelAndWait("release", NoKey, a)
       \/ /\ entry[a] = NoTask
          /\ ReleaseSent(a) \/ ReleaseFails(a)
          /\ UNCHANGED <<entry, tasks, closed, call>>

PressOnceUserControl(k, a) ==
    /\ pc = "none"
    /\ \/ CancelAndWait("once", k, a)
       \/ entry[a] = NoTask /\ Click(k, a) /\ UNCHANGED <<entry, tasks, closed, call>>

\* handle.await??: the task has ended; its error becomes that of the call.
Awaited ==
    /\ pc # "none"
    /\ state[waitFor] \notin Running
    /\ pc' = "none" /\ waitFor' = NoTask
    /\ \/ /\ pc = "press" /\ state[waitFor] = "ended"
          /\ Spawn(callKey, callTarget)
          /\ UNCHANGED bus
       \/ /\ pc = "once" /\ state[waitFor] = "ended" /\ key[waitFor] # callKey
          /\ Click(callKey, callTarget)
          /\ UNCHANGED <<entry, tasks>>
       \/ /\ \/ pc = "release"
             \/ pc = "once" /\ key[waitFor] = callKey
             \/ state[waitFor] = "failed"
          /\ UNCHANGED <<entry, tasks, bus>>
    /\ UNCHANGED <<closed, callKey, callTarget>>

\* volume_up, volume_down and mute take &self.
Volume(k, a) ==
    /\ pc = "none"
    /\ Click(k, a)
    /\ UNCHANGED <<entry, tasks, closed, call>>

\* The device is removed or closed: its token cancels all the children.
CloseDevice ==
    /\ ~closed
    /\ closed' = TRUE
    /\ cancelled' = [t \in Tasks |-> TRUE]
    /\ UNCHANGED <<entry, key, target, state, call, bus>>

-----------------------------------------------------------------------------

TaskStep(t) == TaskPress(t) \/ TaskDelay(t) \/ TaskRelease(t)

Next ==
    \/ \E t \in Tasks : TaskStep(t) \/ TaskCancelled(t)
    \/ Awaited
    \/ \E k \in Keys, a \in Targets :
          PressUserControl(k, a) \/ PressOnceUserControl(k, a) \/ Volume(k, a)
    \/ \E a \in Targets : ReleaseUserControl(a)
    \/ CloseDevice

Spec == Init /\ [][Next]_vars

\* Tasks and calls are polled. select! chooses at random between a delay that
\* is over and a cancellation, so the latter is not passed over for ever.
Fairness ==
    /\ \A t \in Tasks : WF_vars(TaskStep(t)) /\ SF_vars(TaskCancelled(t))
    /\ WF_vars(Awaited)

FairSpec == Spec /\ Fairness

-----------------------------------------------------------------------------
(* Properties.                                                             *)

\* Two keys are never repeated to the same target at the same time, not even
\* while one is being replaced by the other, whatever fails.
OneRepeater ==
    \A t, u \in Tasks :
        state[t] \in Running /\ state[u] \in Running /\ target[t] = target[u] => t = u

\* No key gets stuck: when no call is served, a target holds a key only if
\* that key is being repeated to it, so a ReleaseUserControl, or the press of
\* another key, has told the target that the key was released. A target that
\* has missed a transmission since its last release is excepted.
HeldIsRepeated ==
    pc = "none" =>
        \A a \in Targets \ lost : held[a] # NoKey =>
            /\ entry[a] # NoTask /\ key[entry[a]] = held[a]
            /\ state[entry[a]] \in Running

\* A call that waits for a task returns.
CallsReturn == pc # "none" ~> pc = "none"

\* When the device goes away, every repetition stops.
RepeatsStop ==
    \A a \in Targets :
        closed ~> \A t \in Tasks : target[t] = a => state[t] \notin Running
=============================================================================
