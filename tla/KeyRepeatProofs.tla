-------------------------- MODULE KeyRepeatProofs --------------------------
(***************************************************************************)
(* Proofs about KeyRepeat, for any number of targets, keys and tasks: two  *)
(* keys are never repeated to one target, and no key gets stuck at a       *)
(* target that answers.                                                    *)
(***************************************************************************)
EXTENDS KeyRepeat, TLAPS

\* The type invariant without the Boolean flags, which neither result needs.
Types ==
    /\ entry \in [Targets -> Tasks \cup {NoTask}]
    /\ key \in [Tasks -> Keys \cup {NoKey}]
    /\ target \in [Tasks -> Targets]
    /\ state \in [Tasks -> Running \cup {"ended", "failed"}]
    /\ pc \in {"none", "press", "release", "once"}
    /\ callKey \in Keys \cup {NoKey}
    /\ callTarget \in Targets
    /\ waitFor \in Tasks \cup {NoTask}
    /\ pc = "none" <=> waitFor = NoTask
    /\ held \in [Targets -> Keys \cup {NoKey}]

\* Every step keeps the types.
LEMMA TypesNext == Types /\ [Next]_vars => Types'
<1> SUFFICES ASSUME Types, [Next]_vars PROVE Types'
    OBVIOUS
<1> USE KeyRepeatAssumption DEF Types, Running, call, tasks, bus, KeyRepeatAssumption
<1>0. ASSUME NEW k \in Keys \cup {NoKey}, NEW a \in Targets, Spawn(k, a)
      PROVE  /\ entry' \in [Targets -> Tasks \cup {NoTask}]
             /\ key' \in [Tasks -> Keys \cup {NoKey}]
             /\ target' \in [Tasks -> Targets]
             /\ state' \in [Tasks -> Running \cup {"ended", "failed"}]
    BY <1>0 DEF Spawn
<1>1. ASSUME NEW t \in Tasks, TaskStep(t) \/ TaskCancelled(t) PROVE Types'
    BY <1>1 DEF TaskStep, TaskPress, TaskDelay, TaskRelease, TaskCancelled,
                PressSent, ReleaseSent, PressFails, ReleaseFails
<1>2. ASSUME NEW l \in {"press", "release", "once"}, NEW k \in Keys \cup {NoKey},
             NEW a \in Targets, CancelAndWait(l, k, a)
      PROVE  Types'
    BY <1>2 DEF CancelAndWait
<1>3. ASSUME NEW k \in Keys \cup {NoKey}, NEW a \in Targets, Click(k, a)
      PROVE  held' \in [Targets -> Keys \cup {NoKey}]
    BY <1>3 DEF Click, PressSent, ReleaseSent, PressFails
<1>4. ASSUME NEW k \in Keys, NEW a \in Targets, PressUserControl(k, a) PROVE Types'
    BY <1>0, <1>2, <1>4 DEF PressUserControl
<1>5. ASSUME NEW k \in Keys, NEW a \in Targets, PressOnceUserControl(k, a) \/ Volume(k, a)
      PROVE  Types'
    BY <1>2, <1>3, <1>5 DEF PressOnceUserControl, Volume
<1>6. ASSUME NEW a \in Targets, ReleaseUserControl(a) PROVE Types'
    BY <1>2, <1>6 DEF ReleaseUserControl, ReleaseSent, ReleaseFails
<1>7. CASE Awaited
    BY <1>0, <1>3, <1>7 DEF Awaited
<1>8. CASE CloseDevice
    BY <1>8 DEF CloseDevice
<1>9. CASE UNCHANGED vars
    BY <1>9 DEF vars
<1> QED
    BY <1>1, <1>4, <1>5, <1>6, <1>7, <1>8, <1>9 DEF Next

-----------------------------------------------------------------------------

\* A running task belongs to the entry of its target, or to the call that has
\* removed that entry, cancelled the task and awaits it.
Owned ==
    /\ \A a \in Targets : entry[a] # NoTask => target[entry[a]] = a
    /\ pc # "none" => entry[callTarget] = NoTask /\ target[waitFor] = callTarget
    /\ \A t \in Tasks : state[t] \in Running =>
          entry[target[t]] = t \/ (pc # "none" /\ waitFor = t)

\* Every step keeps the running tasks owned.
LEMMA OwnedNext == Types /\ Owned /\ [Next]_vars => Owned'
<1> SUFFICES ASSUME Types, Owned, [Next]_vars PROVE Owned'
    OBVIOUS
<1> USE KeyRepeatAssumption DEF Types, Owned, Running, call, tasks, bus, KeyRepeatAssumption
<1>0. ASSUME NEW k \in Keys \cup {NoKey}, NEW a \in Targets, Spawn(k, a),
             entry[a] = NoTask, pc' = "none",
             pc = "none" \/ state[waitFor] \notin Running
      PROVE  Owned'
  <2>1. PICK t \in Tasks :
            /\ Free(t)
            /\ target' = [target EXCEPT ![t] = a]
            /\ state' = [state EXCEPT ![t] = "pressing"]
            /\ entry' = [entry EXCEPT ![a] = t]
    BY <1>0 DEF Spawn
  <2>2. \A b \in Targets : entry[b] # t
    BY <2>1 DEF Free
  <2> QED
    BY <1>0, <2>1, <2>2
<1>1. ASSUME NEW t \in Tasks, TaskStep(t) \/ TaskCancelled(t) PROVE Owned'
  <2>1. /\ \A u \in Tasks : state'[u] \in Running => state[u] \in Running
        /\ UNCHANGED <<entry, target, call>>
    BY <1>1 DEF TaskStep, TaskPress, TaskDelay, TaskRelease, TaskCancelled
  <2> QED
    BY <2>1
<1>2. ASSUME NEW l \in {"press", "release", "once"}, NEW k \in Keys \cup {NoKey},
             NEW a \in Targets, CancelAndWait(l, k, a), pc = "none"
      PROVE  Owned'
    BY <1>2 DEF CancelAndWait
<1>4. ASSUME NEW k \in Keys, NEW a \in Targets, PressUserControl(k, a) PROVE Owned'
    BY <1>0, <1>2, <1>4 DEF PressUserControl
<1>5. ASSUME NEW k \in Keys, NEW a \in Targets, PressOnceUserControl(k, a) \/ Volume(k, a)
      PROVE  Owned'
    BY <1>2, <1>5 DEF PressOnceUserControl, Volume
<1>6. ASSUME NEW a \in Targets, ReleaseUserControl(a) PROVE Owned'
    BY <1>2, <1>6 DEF ReleaseUserControl
<1>7. CASE Awaited
    BY <1>0, <1>7 DEF Awaited
<1>8. CASE CloseDevice
    BY <1>8 DEF CloseDevice
<1>9. CASE UNCHANGED vars
    BY <1>9 DEF vars
<1> QED
    BY <1>1, <1>4, <1>5, <1>6, <1>7, <1>8, <1>9 DEF Next

\* Whatever fails, two keys are never repeated to one target at a time: the
\* methods that replace or end a repetition await its task before they go on.
THEOREM NeverTwoRepeaters == Spec => []OneRepeater
<1> USE KeyRepeatAssumption DEF KeyRepeatAssumption
<1>1. Init => Types /\ Owned
    BY DEF Init, Types, Owned, Running
<1>2. Types /\ Owned /\ [Next]_vars => (Types /\ Owned)'
    BY TypesNext, OwnedNext
<1>3. Types /\ Owned => OneRepeater
    BY DEF Types, Owned, OneRepeater
<1> QED
    BY <1>1, <1>2, <1>3, PTL DEF Spec

-----------------------------------------------------------------------------

\* The task that repeats a key to target a, as far as the methods know: that
\* of its entry, or the one a call has removed from there and awaits.
Repeater(a) == IF pc # "none" /\ callTarget = a THEN waitFor ELSE entry[a]

\* A target that has missed nothing only holds the key of its repeater, and
\* only until that has ended.
Heard ==
    \A a \in Targets \ lost : held[a] # NoKey =>
        /\ Repeater(a) # NoTask /\ key[Repeater(a)] = held[a]
        /\ state[Repeater(a)] \in Running

\* Every step leaves a target with a key only if the repeater of that key is
\* still there to release it, or if the target did not answer.
LEMMA HeardNext ==
    ASSUME Types, Owned, Heard, [Next]_vars
    PROVE  Heard'
<1> USE KeyRepeatAssumption
    DEF Types, Owned, Heard, Repeater, Running, call, tasks, bus, KeyRepeatAssumption
<1>0. ASSUME NEW k \in Keys \cup {NoKey}, NEW a \in Targets, Spawn(k, a),
             entry[a] = NoTask, pc' = "none", UNCHANGED bus,
             pc = "none" \/ (state[waitFor] \notin Running /\ callTarget = a)
      PROVE  Heard'
  <2>1. PICK t \in Tasks :
            /\ Free(t)
            /\ key' = [key EXCEPT ![t] = k]
            /\ state' = [state EXCEPT ![t] = "pressing"]
            /\ entry' = [entry EXCEPT ![a] = t]
    BY <1>0 DEF Spawn
  <2>2. \A b \in Targets : entry[b] # t
    BY <2>1 DEF Free
  <2>3. held[a] = NoKey \/ a \in lost
    BY <1>0
  <2>4. ASSUME NEW b \in Targets, b # a PROVE Repeater(b) = entry[b] /\ entry'[b] = entry[b]
    BY <1>0, <2>1, <2>4
  <2> QED
    BY <1>0, <2>1, <2>2, <2>3, <2>4
<1>1. ASSUME NEW t \in Tasks, TaskStep(t) \/ TaskCancelled(t) PROVE Heard'
  <2>1. ASSUME state[t] \in Running PROVE Repeater(target[t]) = t
    BY <2>1
  <2>2. ASSUME NEW a \in Targets, a # target[t] PROVE Repeater(a) # t
    BY <2>2
  <2>3. CASE TaskPress(t)
    BY <2>1, <2>2, <2>3 DEF TaskPress, PressSent, PressFails
  <2>4. CASE TaskDelay(t) \/ TaskCancelled(t)
    BY <2>4 DEF TaskDelay, TaskCancelled
  <2>5. CASE TaskRelease(t)
    BY <2>1, <2>2, <2>5 DEF TaskRelease, ReleaseSent, ReleaseFails
  <2> QED
    BY <1>1, <2>3, <2>4, <2>5 DEF TaskStep
<1>2. ASSUME NEW l \in {"press", "release", "once"}, NEW k \in Keys \cup {NoKey},
             NEW a \in Targets, CancelAndWait(l, k, a), pc = "none"
      PROVE  Heard'
    BY <1>2 DEF CancelAndWait
<1>3. ASSUME NEW k \in Keys \cup {NoKey}, NEW a \in Targets, Click(k, a)
      PROVE  /\ \A b \in Targets : b # a => held'[b] = held[b] /\ (b \in lost <=> b \in lost')
             /\ a \notin lost' => held'[a] = NoKey
    BY <1>3 DEF Click, ReleaseSent, PressFails
<1>4. ASSUME NEW k \in Keys, NEW a \in Targets, PressUserControl(k, a) PROVE Heard'
    BY <1>0, <1>2, <1>4 DEF PressUserControl
<1>5. ASSUME NEW k \in Keys, NEW a \in Targets, PressOnceUserControl(k, a) \/ Volume(k, a)
      PROVE  Heard'
    BY <1>2, <1>3, <1>5 DEF PressOnceUserControl, Volume
<1>6. ASSUME NEW a \in Targets, ReleaseUserControl(a) PROVE Heard'
    BY <1>2, <1>6 DEF ReleaseUserControl, ReleaseSent, ReleaseFails
<1>7. CASE Awaited
  <2>1. waitFor \in Tasks /\ (held[callTarget] = NoKey \/ callTarget \in lost)
    BY <1>7 DEF Awaited
  <2>2. CASE pc = "press" /\ state[waitFor] = "ended" /\ Spawn(callKey, callTarget)
             /\ UNCHANGED bus
    BY <1>0, <1>7, <2>2 DEF Awaited
  <2>3. CASE UNCHANGED <<entry, tasks>> /\ (UNCHANGED bus \/ Click(callKey, callTarget))
    BY <1>3, <1>7, <2>1, <2>3 DEF Awaited
  <2> QED
    BY <1>7, <2>2, <2>3 DEF Awaited
<1>8. CASE CloseDevice
    BY <1>8 DEF CloseDevice
<1>9. CASE UNCHANGED vars
    BY <1>9 DEF vars
<1> QED
    BY <1>1, <1>4, <1>5, <1>6, <1>7, <1>8, <1>9 DEF Next

\* No key gets stuck: with no call under way, a target that has missed nothing
\* since its last release holds a key only while that key is repeated to it.
THEOREM NoStuckKey == Spec => []HeldIsRepeated
<1> USE KeyRepeatAssumption DEF KeyRepeatAssumption
<1> DEFINE Inv == Types /\ Owned /\ Heard
<1>1. Init => Inv
    BY DEF Init, Types, Owned, Heard, Repeater, Running
<1>2. Inv /\ [Next]_vars => Inv'
    BY TypesNext, OwnedNext, HeardNext
<1>3. Inv => HeldIsRepeated
    BY DEF Types, Heard, Repeater, HeldIsRepeated
<1> QED
    BY <1>1, <1>2, <1>3, PTL DEF Spec
=============================================================================
