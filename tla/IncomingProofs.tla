--------------------------- MODULE IncomingProofs ---------------------------
(***************************************************************************)
(* Proofs about Incoming, for any commands, mappings, devices on the bus   *)
(* and number of tries: no key is left down that nothing will lift, and    *)
(* every message for this device has exactly one outcome.                  *)
(***************************************************************************)
EXTENDS Incoming, FiniteSetTheorems, TLAPS

\* No step leaves a key down: a press lifts the old key of the same device, and
\* a new device starts with none. The property is inductive as it stands.
LEMMA HeldNext == HeldIsActive /\ [Next]_vars => HeldIsActive'
<1> SUFFICES ASSUME HeldIsActive, [Next]_vars PROVE HeldIsActive'
    OBVIOUS
<1> USE DEF HeldIsActive, keyVars
<1>1. ASSUME UNCHANGED <<uinput, held, activeKey>> PROVE HeldIsActive'
    BY <1>1 DEF Codes, Code
<1>2. ASSUME NEW m \in Messages, Press(m) PROVE HeldIsActive'
  <2>1. uinput' = uinput
      BY <1>2 DEF Press
  <2>2. CASE PressKey(m.key)
    <3>1. held' \subseteq Code(m.key)
        BY <2>2 DEF PressKey
    <3>2. activeKey' = {m.key}
        BY <2>2 DEF PressKey
    <3> QED
        BY <2>1, <3>1, <3>2 DEF Codes, Code
  <2>3. CASE UNCHANGED <<held, activeKey>>
      BY <1>1, <2>1, <2>3
  <2>4. CASE held' = held \ Codes(activeKey)
      BY <2>4
  <2> QED
      BY <1>2, <2>2, <2>3, <2>4 DEF Press
<1>3. ASSUME NEW m \in Messages, Release(m) PROVE HeldIsActive'
  <2>1. CASE held' = held \ Codes(activeKey)
      BY <2>1
  <2>2. CASE UNCHANGED <<held, activeKey>>
      BY <1>1, <1>3, <2>2 DEF Release
  <2> QED
      BY <1>3, <2>1, <2>2 DEF Release
<1>4. CASE Reload
    BY <1>1, <1>4 DEF Reload, Reopened
<1>5. ASSUME NEW m \in Messages,
             \/ Dropped(m) \/ PowerStatus(m) \/ SetStreamPath(m) \/ SourceChange(m)
             \/ RequestActiveSource(m) \/ AudioMode(m) \/ Standby(m) \/ Ignore(m) \/ Other(m)
      PROVE  HeldIsActive'
  <2>1. UNCHANGED keyVars
      BY <1>5 DEF Dropped, PowerStatus, SetStreamPath, SourceChange, RequestActiveSource,
                  AudioMode, Standby, Ignore, Other
  <2> QED
      BY <1>1, <2>1
<1>6. CASE ClientAccepts \/ ClientRefuses \/ Timeout \/ Reply \/ NewConfig \/ Register
             \/ Wakes \/ PendingActivate
  <2>1. UNCHANGED keyVars
      BY <1>6 DEF ClientAccepts, ClientRefuses, Timeout, Abort, Reply, ReplySent, ReplyFails,
                  NewConfig, Register, Wakes, PendingActivate
  <2> QED
      BY <1>1, <2>1
<1>7. CASE UNCHANGED vars
    BY <1>1, <1>7 DEF vars
<1> QED
    BY <1>2, <1>3, <1>4, <1>5, <1>6, <1>7 DEF Next, HandleMessage

\* A key held down on the virtual keyboard is the one the last command pressed
\* is mapped to, whatever writes fail and however a reload changes the mappings
\* between a press and its release.
THEOREM NoKeyLeftDown == Spec => []HeldIsActive
<1>1. Init => HeldIsActive
    BY DEF Init, HeldIsActive
<1> QED
    BY <1>1, HeldNext, PTL DEF Spec

-----------------------------------------------------------------------------
(* One outcome for every message.                                          *)

Verdicts == [ended : BOOLEAN, directed : BOOLEAN, accepted : BOOLEAN, aborts : BOOLEAN,
             acks : Nat, tries : Nat, failed : BOOLEAN]

Jobs == {Idle} \cup [st : {"remote"}, msg : Messages]
        \cup [st : {"reply"}, msg : Messages, to : Initiators \cup {"all"}, tries : Nat]

\* Nothing has come of the message so far.
Open(v) == ~v.ended /\ ~v.accepted /\ ~v.failed /\ v.acks = 0

\* One of the three outcomes.
Accepted(v) == v.accepted /\ ~v.failed /\ ~(v.aborts /\ v.acks = 1)
Aborted(v)  == ~v.accepted /\ ~v.failed /\ v.aborts /\ v.acks = 1
Failed(v)   == ~v.accepted /\ v.failed /\ ~(v.aborts /\ v.acks = 1)

Decided(v) == v.ended /\ v.directed => Accepted(v) \/ Aborted(v) \/ Failed(v)

\* While a client or a reply is waited for, nothing has come of the message; a
\* reply to one that cecd does not know is a FeatureAbort.
VerdictInv ==
    /\ verdict \in Verdicts
    /\ job \in Jobs
    /\ job.st = "idle" => verdict.acks <= 1 /\ Decided(verdict)
    /\ job.st = "remote" => Open(verdict)
    /\ job.st = "reply" => Open(verdict) /\ (verdict.directed => verdict.aborts)

\* The three outcomes exclude each other.
LEMMA VerdictIsOne == VerdictInv => OneVerdict
<1> SUFFICES ASSUME VerdictInv PROVE OneVerdict
    OBVIOUS
<1> DEFINE W == {w \in {"accepted", "aborted", "failed"} :
                    \/ w = "accepted" /\ verdict.accepted
                    \/ w = "aborted" /\ verdict.aborts /\ verdict.acks = 1
                    \/ w = "failed" /\ verdict.failed}
<1>0. job.st \in {"idle", "remote", "reply"}
    BY DEF VerdictInv, Jobs, Idle
<1>1. verdict.acks <= 1
    BY <1>0 DEF VerdictInv, Open
<1>2. Decided(verdict)
    BY <1>0 DEF VerdictInv, Open, Decided
<1>3. ASSUME verdict.ended, verdict.directed PROVE Cardinality(W) = 1
  <2>1. CASE Accepted(verdict)
    <3>1. W = {"accepted"}
        BY <2>1 DEF Accepted
    <3> QED
        BY <3>1, FS_Singleton
  <2>2. CASE Aborted(verdict)
    <3>1. W = {"aborted"}
        BY <2>2 DEF Aborted
    <3> QED
        BY <3>1, FS_Singleton
  <2>3. CASE Failed(verdict)
    <3>1. W = {"failed"}
        BY <2>3 DEF Failed
    <3> QED
        BY <3>1, FS_Singleton
  <2> QED
      BY <1>2, <1>3, <2>1, <2>2, <2>3 DEF Decided
<1> QED
    BY <1>1, <1>3 DEF OneVerdict

\* A message that is through has failed, or is not one that must have an outcome.
LEMMA EndsVerdict ==
    ASSUME NEW m \in Messages, NEW failed \in BOOLEAN, Ends(m, failed),
           failed \/ m.op # "other" \/ m.to # "me"
    PROVE  VerdictInv'
<1>1. verdict' = [ended |-> TRUE, directed |-> (m.op = "other" /\ m.to = "me"),
                  accepted |-> FALSE, aborts |-> FALSE, acks |-> 0, tries |-> 0,
                  failed |-> failed]
    BY Zenon DEF Ends, NoVerdict
<1>2. job' = Idle
    BY DEF Ends
<1>3. verdict' \in Verdicts
    BY <1>1 DEF Verdicts
<1>4. Decided(verdict')
    BY <1>1 DEF Decided, Failed
<1>5. verdict'.acks <= 1
    BY <1>1
<1> QED
    BY <1>2, <1>3, <1>4, <1>5 DEF VerdictInv, Jobs, Idle

\* Before the reply nothing has come of the message.
LEMMA RepliesVerdict ==
    ASSUME NEW m \in Messages, NEW to \in Initiators \cup {"all"}, NEW abort \in BOOLEAN,
           Replies(m, to, abort), abort \/ m.op # "other" \/ m.to # "me"
    PROVE  VerdictInv'
<1>1. verdict' = [ended |-> FALSE, directed |-> (m.op = "other" /\ m.to = "me"),
                  accepted |-> FALSE, aborts |-> abort, acks |-> 0, tries |-> 0,
                  failed |-> FALSE]
    BY Zenon DEF Replies, NoVerdict
<1>2. job' = [st |-> "reply", msg |-> m, to |-> to, tries |-> 0]
    BY DEF Replies
<1>3. verdict' \in Verdicts
    BY <1>1 DEF Verdicts
<1>4. Open(verdict') /\ (verdict'.directed => verdict'.aborts)
    BY <1>1 DEF Open
<1>5. job' \in Jobs
    BY <1>2 DEF Jobs
<1> QED
    BY <1>2, <1>3, <1>4, <1>5 DEF VerdictInv

\* Every step keeps the relation between what the task waits for and the verdict.
LEMMA VerdictNext == VerdictInv /\ [Next]_vars => VerdictInv'
<1> SUFFICES ASSUME VerdictInv, [Next]_vars PROVE VerdictInv'
    OBVIOUS
<1>0. ASSUME NEW m \in Messages PROVE m.from \in Initiators
    BY <1>0 DEF Messages
<1>1. ASSUME NEW m \in Messages, Dropped(m) PROVE VerdictInv'
    BY <1>1, EndsVerdict DEF Dropped
<1>2. ASSUME NEW m \in Messages, Press(m) \/ Release(m) PROVE VerdictInv'
    BY <1>2, EndsVerdict DEF Press, Release
<1>3. ASSUME NEW m \in Messages, SourceChange(m) \/ AudioMode(m) PROVE VerdictInv'
    BY <1>3, EndsVerdict DEF SourceChange, AudioMode, Announced
<1>4. ASSUME NEW m \in Messages, SetStreamPath(m) PROVE VerdictInv'
    BY <1>4, EndsVerdict, RepliesVerdict DEF SetStreamPath, Announced
<1>5. ASSUME NEW m \in Messages, PowerStatus(m) PROVE VerdictInv'
    BY <1>0, <1>5, RepliesVerdict DEF PowerStatus
<1>6. ASSUME NEW m \in Messages, RequestActiveSource(m) PROVE VerdictInv'
    BY <1>6, RepliesVerdict DEF RequestActiveSource
<1>7. ASSUME NEW m \in Messages, Standby(m) PROVE VerdictInv'
    BY <1>0, <1>7, EndsVerdict, RepliesVerdict DEF Standby
<1>8. ASSUME NEW m \in Messages, Ignore(m) PROVE VerdictInv'
    BY <1>8, EndsVerdict DEF Ignore
<1>9. ASSUME NEW m \in Messages, Other(m) PROVE VerdictInv'
  <2>1. CASE handler
    <3>1. verdict' = [ended |-> FALSE, directed |-> (m.op = "other"), accepted |-> FALSE,
                      aborts |-> FALSE, acks |-> 0, tries |-> 0, failed |-> FALSE]
        BY <1>9, <2>1, Zenon DEF Other, NoVerdict
    <3>2. job' = [st |-> "remote", msg |-> m]
        BY <1>9, <2>1 DEF Other
    <3>3. verdict' \in Verdicts
        BY <3>1 DEF Verdicts
    <3>4. Open(verdict')
        BY <3>1 DEF Open
    <3> QED
        BY <3>2, <3>3, <3>4 DEF VerdictInv, Jobs
  <2>2. CASE ~handler
      BY <1>0, <1>9, <2>2, RepliesVerdict DEF Other
  <2> QED
      BY <2>1, <2>2
<1>10. CASE ClientAccepts
  <2>1. verdict \in Verdicts /\ Open(verdict)
      BY <1>10 DEF ClientAccepts, VerdictInv
  <2>2. verdict' \in Verdicts
      BY <1>10, <2>1 DEF ClientAccepts, Verdicts
  <2>3. verdict'.acks = 0 /\ verdict'.accepted /\ ~verdict'.failed
      BY <1>10, <2>1 DEF ClientAccepts, Verdicts, Open
  <2>4. verdict'.acks <= 1 /\ Decided(verdict')
      BY <2>3 DEF Decided, Accepted
  <2>5. job' = Idle
      BY <1>10 DEF ClientAccepts
  <2> QED
      BY <2>2, <2>4, <2>5 DEF VerdictInv, Jobs, Idle
<1>11. CASE ClientRefuses \/ Timeout
  <2>1. verdict \in Verdicts /\ Open(verdict) /\ job \in [st : {"remote"}, msg : Messages]
      BY <1>11 DEF ClientRefuses, Timeout, VerdictInv, Jobs, Idle
  <2>2. verdict' \in Verdicts
      BY <1>11, <2>1 DEF ClientRefuses, Timeout, Abort, Verdicts
  <2>3. Open(verdict') /\ verdict'.aborts
      BY <1>11, <2>1 DEF ClientRefuses, Timeout, Abort, Verdicts, Open
  <2>4. job' = [st |-> "reply", msg |-> job.msg, to |-> job.msg.from, tries |-> 0]
      BY <1>11 DEF ClientRefuses, Timeout, Abort
  <2>5. job' \in Jobs
      BY <1>0, <2>1, <2>4 DEF Jobs
  <2> QED
      BY <2>2, <2>3, <2>4, <2>5 DEF VerdictInv
<1>12. CASE ReplySent
  <2>1. verdict \in Verdicts /\ Open(verdict) /\ (verdict.directed => verdict.aborts)
      BY <1>12 DEF ReplySent, VerdictInv
  <2> DEFINE acks == verdict.acks + 1
             tries == verdict.tries + 1
  <2>a. acks \in Nat /\ tries \in Nat
      BY <2>1 DEF Verdicts
  <2>b. verdict' = [verdict EXCEPT !.acks = acks, !.tries = tries, !.ended = TRUE]
      BY <1>12 DEF ReplySent
  <2>2. verdict' \in Verdicts
    <3> HIDE DEF acks, tries
    <3> QED
        BY <2>1, <2>a, <2>b DEF Verdicts
  <2>3. verdict'.acks = 1 /\ ~verdict'.accepted /\ ~verdict'.failed
      BY <1>12, <2>1 DEF ReplySent, Verdicts, Open
  <2>4. verdict'.directed => verdict'.aborts
      BY <1>12, <2>1 DEF ReplySent, Verdicts
  <2>5. verdict'.acks <= 1 /\ Decided(verdict')
      BY <2>3, <2>4 DEF Decided, Aborted
  <2>6. job' = Idle
      BY <1>12 DEF ReplySent
  <2> QED
      BY <2>2, <2>5, <2>6 DEF VerdictInv, Jobs, Idle
<1>13. ASSUME NEW error \in TxErrors, ReplyFails(error) PROVE VerdictInv'
  <2>1. /\ verdict \in Verdicts /\ Open(verdict) /\ (verdict.directed => verdict.aborts)
        /\ job \in [st : {"reply"}, msg : Messages, to : Initiators \cup {"all"}, tries : Nat]
      BY <1>13 DEF ReplyFails, VerdictInv, Jobs, Idle
  <2>2. CASE job.tries = REPLY_RETRIES - 1 \/ ~IsRetried(error)
    <3> DEFINE tries == verdict.tries + 1
    <3>a. tries \in Nat
        BY <2>1 DEF Verdicts
    <3>b. verdict' = [verdict EXCEPT !.tries = tries, !.ended = TRUE, !.failed = TRUE]
        BY <1>13, <2>2 DEF ReplyFails
    <3>1. verdict' \in Verdicts
      <4> HIDE DEF tries
      <4> QED
          BY <2>1, <3>a, <3>b DEF Verdicts
    <3>2. verdict'.acks = 0 /\ ~verdict'.accepted /\ verdict'.failed
        BY <1>13, <2>1, <2>2 DEF ReplyFails, Verdicts, Open
    <3>3. verdict'.acks <= 1 /\ Decided(verdict')
        BY <3>2 DEF Decided, Failed
    <3>4. job' = Idle
        BY <1>13, <2>2 DEF ReplyFails
    <3> QED
        BY <3>1, <3>3, <3>4 DEF VerdictInv, Jobs, Idle
  <2>3. CASE ~(job.tries = REPLY_RETRIES - 1 \/ ~IsRetried(error))
    <3>1. verdict' = [verdict EXCEPT !.tries = @ + 1] /\ job' = [job EXCEPT !.tries = @ + 1]
        BY <1>13, <2>3 DEF ReplyFails
    <3>2. verdict' \in Verdicts
        BY <2>1, <3>1 DEF Verdicts
    <3>3. Open(verdict') /\ (verdict'.directed => verdict'.aborts)
        BY <2>1, <3>1 DEF Verdicts, Open
    <3>4. job' \in [st : {"reply"}, msg : Messages, to : Initiators \cup {"all"}, tries : Nat]
        BY <2>1, <3>1
    <3> QED
        BY <3>2, <3>3, <3>4 DEF VerdictInv, Jobs
  <2> QED
      BY <2>2, <2>3
<1>14. CASE UNCHANGED <<job, verdict>>
    BY <1>14 DEF VerdictInv
<1>15. CASE Reload \/ NewConfig \/ Register \/ Wakes \/ PendingActivate \/ UNCHANGED vars
    BY <1>14, <1>15 DEF Reload, NewConfig, Register, Wakes, PendingActivate, vars
<1> QED
    BY <1>1, <1>2, <1>3, <1>4, <1>5, <1>6, <1>7, <1>8, <1>9, <1>10, <1>11, <1>12, <1>13, <1>15
    DEF Next, HandleMessage, Reply

\* However a client and the timer race, and however the transmission ends, a
\* message is answered at most once, and one that cecd does not know itself ends
\* in exactly one way: accepted, aborted or reported as failed.
THEOREM EveryMessageHasOneVerdict == Spec => []OneVerdict
<1>1. Init => VerdictInv
    BY DEF Init, VerdictInv, NoVerdict, Idle, Jobs, Verdicts, Decided
<1> QED
    BY <1>1, VerdictNext, VerdictIsOne, PTL DEF Spec

=============================================================================
