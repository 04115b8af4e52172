---------------------------- MODULE RelayProofs ----------------------------
(***************************************************************************)
(* Proofs about Relay, for any number of callers, values, commands, polls  *)
(* and pending events: what a poll has found stays there until the task    *)
(* handles it, and AsyncDevice implements Calls.                           *)
(*                                                                         *)
(* The refinement mapping is computed by recursion from the channel, so    *)
(* the first part is about recursion: that the function exists, and how it *)
(* changes when the channel does.                                          *)
(***************************************************************************)
EXTENDS Relay, SequenceTheorems, WellFoundedInduction, TLAPS

\* Induction, for a set of numbers: the least number outside has none before it.
LEMMA NatSetInduction ==
    ASSUME NEW S, 0 \in S, \A n \in Nat : n \in S => n + 1 \in S
    PROVE  Nat \subseteq S
<1> DEFINE T == Nat \ S
           R == {ss \in Nat \X Nat : ss[1] < ss[2]}
<1> SUFFICES ASSUME T # {} PROVE FALSE
    OBVIOUS
<1>0. OpToRel(<, Nat) = R
    BY Zenon DEF OpToRel
<1>1. IsWellFoundedOn(R, Nat)
    BY <1>0, NatLessThanWellFounded, Zenon
<1> HIDE DEF R
<1>2. PICK x \in T : \A y \in T : ~(<<y, x>> \in R)
  <2>1. T \subseteq Nat
      OBVIOUS
  <2> HIDE DEF T
  <2> QED
      BY <1>1, <2>1, WFMin
<1>3. x # 0 /\ x \in Nat /\ x - 1 \in Nat
    OBVIOUS
<1>4. <<x - 1, x>> \in R
    BY <1>3, SMT DEF R
<1>5. x - 1 \notin T
    BY <1>2, <1>4, Zenon
<1> QED
    BY <1>3, <1>5

\* Functions can be defined by recursion up to a number.
LEMMA Iteration ==
    ASSUME NEW S, NEW a \in S, NEW N \in Nat, NEW h \in [1..N -> [S -> S]]
    PROVE  \E f \in [0..N -> S] : f[0] = a /\ \A n \in 1..N : f[n] = h[n][f[n - 1]]
<1> DEFINE Good(k, f) == f \in [0..k -> S] /\ f[0] = a /\ \A n \in 1..k : f[n] = h[n][f[n - 1]]
           K == {k \in Nat : k <= N => \E f : Good(k, f)}
<1>1. 0 \in K
  <2>1. Good(0, [i \in 0..0 |-> a])
      OBVIOUS
  <2> QED
      BY <2>1
<1>2. ASSUME NEW k \in Nat, k \in K PROVE k + 1 \in K
  <2> SUFFICES ASSUME k + 1 <= N PROVE \E f : Good(k + 1, f)
      OBVIOUS
  <2>1. PICK f : Good(k, f)
      BY <1>2
  <2> DEFINE g == [i \in 0..k + 1 |-> IF i = k + 1 THEN h[k + 1][f[k]] ELSE f[i]]
  <2>2. g \in [0..k + 1 -> S] /\ g[0] = a
      BY <2>1
  <2>3. \A n \in 1..k + 1 : g[n] = h[n][g[n - 1]]
      BY <2>1
  <2>4. Good(k + 1, g)
      BY <2>2, <2>3
  <2> QED
      BY <2>4
<1>3. N \in K
  <2> HIDE DEF K
  <2> QED
      BY <1>1, <1>2, NatSetInduction
<1> QED
    BY <1>3

-----------------------------------------------------------------------------
(* The calls among the commands of a channel.                              *)

Entries == [from : Callers, op : C!Ops \cup {[kind |-> "drop"]}, live : BOOLEAN]

\* The calls of c among the first n commands, for every n.
Counted(q, c, u) ==
    /\ u \in [0..Len(q) -> Seq(C!Ops)]
    /\ u[0] = <<>>
    /\ \A n \in 1..Len(q) :
          u[n] = IF IsCall(q[n], c) THEN Append(u[n - 1], q[n].op) ELSE u[n - 1]

\* What is not Drop is a call.
LEMMA IsCallOp ==
    ASSUME NEW e \in Entries, NEW c, IsCall(e, c)
    PROVE  e.op \in C!Ops
  BY DEF Entries, IsCall

\* The recursive definition of CallsOf is one of such a function.
LEMMA CallsOfIsCounted ==
    ASSUME NEW q \in Seq(Entries), NEW c
    PROVE  \E u : Counted(q, c, u) /\ CallsOf(q, c) = u[Len(q)]
<1> DEFINE S == Seq(C!Ops)
           N == Len(q)
           none == <<>>
           is(n) == IsCall(q[n], c)
           with(s, n) == Append(s, q[n].op)
           step(u, n) == IF n = 0 THEN none
                         ELSE IF is(n) THEN with(u[n - 1], n)
                         ELSE u[n - 1]
           Eq(u) == u = [n \in 0..N |-> step(u, n)]
           h == [n \in 1..N |-> [s \in S |-> IF is(n) THEN with(s, n) ELSE s]]
           g == CHOOSE u : Eq(u)
<1>0. N \in Nat
    OBVIOUS
<1>1. \A n \in 1..N : is(n) => q[n].op \in C!Ops
    BY IsCallOp
<1>2. CallsOf(q, c) = g[N]
    BY DEF CallsOf
<1>3. \A n \in 1..N, s \in S : is(n) => with(s, n) \in S
    BY <1>1
<1>4. none \in S
    OBVIOUS
<1> HIDE DEF N, none, is, with, S
<1>5. h \in [1..N -> [S -> S]]
    BY <1>3
<1>6. PICK f \in [0..N -> S] : f[0] = none /\ \A n \in 1..N : f[n] = h[n][f[n - 1]]
  <2> HIDE DEF h
  <2> QED
      BY <1>0, <1>4, <1>5, Iteration
<1>7. ASSUME NEW n \in 1..N PROVE f[n] = step(f, n)
  <2>1. f[n - 1] \in S /\ n # 0
      BY <1>0
  <2> QED
      BY <1>6, <2>1
<1>8. \A n \in 0..N : f[n] = step(f, n)
    BY <1>0, <1>6, <1>7
<1>9. Eq(f)
  <2> HIDE DEF step
  <2> QED
      BY <1>8
<1>10. Eq(g)
  <2> HIDE DEF Eq
  <2> QED
      BY <1>9
<1> HIDE DEF g
<1>11. DOMAIN g = 0..N /\ g = [n \in 0..N |-> g[n]] /\ \A n \in 0..N : g[n] = step(g, n)
  <2> HIDE DEF step
  <2> QED
      BY <1>10
<1>12. g[0] = none
    BY <1>0, <1>11
<1>13. \A n \in 1..N : g[n] = IF is(n) THEN with(g[n - 1], n) ELSE g[n - 1]
  <2> SUFFICES ASSUME NEW n \in 1..N
               PROVE  g[n] = IF is(n) THEN with(g[n - 1], n) ELSE g[n - 1]
      OBVIOUS
  <2>1. n \in 0..N /\ n # 0
      BY <1>0
  <2>2. g[n] = step(g, n)
    <3> HIDE DEF step
    <3> QED
      BY <1>11, <2>1
  <2> QED
      BY <2>1, <2>2
<1>14. \A n \in 0..N : g[n] \in S
  <2> DEFINE K == {n \in Nat : n <= N => g[n] \in S}
  <2>1. 0 \in K
      BY <1>4, <1>12
  <2>2. ASSUME NEW n \in Nat, n \in K PROVE n + 1 \in K
      BY <1>0, <1>3, <1>13, <2>2
  <2>3. Nat \subseteq K
    <3> HIDE DEF K
    <3> QED
      BY <2>1, <2>2, NatSetInduction
  <2> QED
      BY <1>0, <2>3
<1>15. Counted(q, c, g)
  <2>1. g \in [0..N -> S]
      BY <1>11, <1>14
  <2> QED
      BY <1>12, <1>13, <2>1 DEF Counted, N, none, is, with, S
<1> QED
    BY <1>2, <1>15 DEF N

\* Appending to the second of two sequences.
LEMMA ConcatAppend ==
    ASSUME NEW s \in Seq(C!Ops), NEW t \in Seq(C!Ops), NEW e \in C!Ops
    PROVE  Append(s \o t, e) = s \o Append(t, e)
<1>1. s \o t \in Seq(C!Ops) /\ <<e>> \in Seq(C!Ops)
    OBVIOUS
<1>2. Append(s \o t, e) = (s \o t) \o <<e>>
    BY <1>1, AppendIsConcat
<1>3. Append(t, e) = t \o <<e>>
    BY AppendIsConcat
<1>4. (s \o t) \o <<e>> = s \o (t \o <<e>>)
    BY <1>1, ConcatAssociative
<1> QED
    BY <1>2, <1>3, <1>4

\* Two channels with the same calls at the start have the same calls up to there.
LEMMA SameStart ==
    ASSUME NEW q \in Seq(Entries), NEW r \in Seq(Entries), NEW c, NEW u, NEW v,
           Counted(q, c, u), Counted(r, c, v), Len(q) <= Len(r),
           \A i \in 1..Len(q) : q[i].from = r[i].from /\ q[i].op = r[i].op
    PROVE  \A n \in 0..Len(q) : u[n] = v[n]
<1> DEFINE K == {n \in Nat : n <= Len(q) => u[n] = v[n]}
<1>0. Len(q) \in Nat /\ Len(r) \in Nat
    OBVIOUS
<1>1. 0 \in K
    BY DEF Counted
<1>2. ASSUME NEW n \in Nat, n \in K PROVE n + 1 \in K
  <2> SUFFICES ASSUME n + 1 <= Len(q) PROVE u[n + 1] = v[n + 1]
      OBVIOUS
  <2>1. n + 1 \in 1..Len(q) /\ n + 1 \in 1..Len(r) /\ (n + 1) - 1 = n /\ u[n] = v[n]
      BY <1>0, <1>2
  <2>2. IsCall(q[n + 1], c) = IsCall(r[n + 1], c)
      BY <2>1 DEF IsCall
  <2>3. u[n + 1] = IF IsCall(q[n + 1], c) THEN Append(u[n], q[n + 1].op) ELSE u[n]
      BY <2>1 DEF Counted
  <2>4. v[n + 1] = IF IsCall(r[n + 1], c) THEN Append(v[n], r[n + 1].op) ELSE v[n]
      BY <2>1 DEF Counted
  <2> QED
      BY <2>1, <2>2, <2>3, <2>4
<1>3. Nat \subseteq K
  <2> HIDE DEF K
  <2> QED
      BY <1>1, <1>2, NatSetInduction
<1> QED
    BY <1>0, <1>3

\* What becomes of the calls when a command is sent,
LEMMA CallsOfAppend ==
    ASSUME NEW q \in Seq(Entries), NEW e \in Entries, NEW c
    PROVE  CallsOf(Append(q, e), c) =
               IF IsCall(e, c) THEN Append(CallsOf(q, c), e.op) ELSE CallsOf(q, c)
<1> DEFINE r == Append(q, e)
<1>0. /\ Len(q) \in Nat /\ r \in Seq(Entries) /\ Len(r) = Len(q) + 1 /\ r[Len(q) + 1] = e
      /\ \A i \in 1..Len(q) : r[i] = q[i]
    OBVIOUS
<1> HIDE DEF r
<1>1. PICK u : Counted(q, c, u) /\ CallsOf(q, c) = u[Len(q)]
    BY CallsOfIsCounted
<1>2. PICK v : Counted(r, c, v) /\ CallsOf(r, c) = v[Len(r)]
    BY <1>0, CallsOfIsCounted
<1>3. u[Len(q)] = v[Len(q)]
    BY <1>0, <1>1, <1>2, SameStart
<1>4. Len(q) + 1 \in 1..Len(r) /\ (Len(q) + 1) - 1 = Len(q)
    BY <1>0
<1>5. v[Len(q) + 1] = IF IsCall(e, c) THEN Append(v[Len(q)], e.op) ELSE v[Len(q)]
    BY <1>0, <1>2, <1>4 DEF Counted
<1> QED
    BY <1>0, <1>1, <1>2, <1>3, <1>5 DEF r

\* when its future is dropped,
LEMMA CallsOfSame ==
    ASSUME NEW q \in Seq(Entries), NEW r \in Seq(Entries), NEW c, Len(q) = Len(r),
           \A i \in 1..Len(q) : q[i].from = r[i].from /\ q[i].op = r[i].op
    PROVE  CallsOf(r, c) = CallsOf(q, c)
<1>1. PICK u : Counted(q, c, u) /\ CallsOf(q, c) = u[Len(q)]
    BY CallsOfIsCounted
<1>2. PICK v : Counted(r, c, v) /\ CallsOf(r, c) = v[Len(r)]
    BY CallsOfIsCounted
<1>3. Len(q) \in Nat
    OBVIOUS
<1>4. u[Len(q)] = v[Len(q)]
    BY <1>1, <1>2, <1>3, SameStart
<1> QED
    BY <1>1, <1>2, <1>4

\* and when the thread takes it.
LEMMA CallsOfTail ==
    ASSUME NEW q \in Seq(Entries), q # <<>>, NEW c
    PROVE  /\ CallsOf(Tail(q), c) \in Seq(C!Ops)
           /\ CallsOf(q, c) = IF IsCall(Head(q), c) THEN <<Head(q).op>> \o CallsOf(Tail(q), c)
                              ELSE CallsOf(Tail(q), c)
<1> DEFINE r == Tail(q)
<1>0. /\ r \in Seq(Entries) /\ Len(r) \in Nat /\ Len(q) = Len(r) + 1 /\ Head(q) = q[1]
      /\ Head(q) \in Entries
      /\ \A i \in 1..Len(r) : r[i] = q[i + 1]
    OBVIOUS
<1> HIDE DEF r
<1>1. PICK u : Counted(q, c, u) /\ CallsOf(q, c) = u[Len(q)]
    BY CallsOfIsCounted
<1>2. PICK v : Counted(r, c, v) /\ CallsOf(r, c) = v[Len(r)]
    BY <1>0, CallsOfIsCounted
<1>3. v[Len(r)] \in Seq(C!Ops)
    BY <1>0, <1>2 DEF Counted
<1> DEFINE first == IF IsCall(Head(q), c) THEN <<Head(q).op>> ELSE <<>>
           K == {n \in Nat : n <= Len(r) => u[n + 1] = first \o v[n]}
<1>4. first \in Seq(C!Ops)
    BY <1>0, IsCallOp
<1>5. 0 \in K
  <2>1. v[0] = <<>> /\ u[0] = <<>>
      BY <1>1, <1>2 DEF Counted
  <2>0. 1 \in 1..Len(q) /\ 1 - 1 = 0 /\ 0 + 1 = 1
      BY <1>0
  <2>2. u[1] = IF IsCall(Head(q), c) THEN Append(u[0], Head(q).op) ELSE u[0]
      BY <1>0, <1>1, <2>0 DEF Counted
  <2>3. u[1] = first
      BY <2>1, <2>2
  <2>4. first \o v[0] = first
    <3> HIDE DEF first
    <3> QED
      BY <1>4, <2>1, ConcatEmptySeq
  <2> HIDE DEF first
  <2> QED
      BY <2>0, <2>3, <2>4
<1> HIDE DEF first
<1>6. ASSUME NEW n \in Nat, n \in K PROVE n + 1 \in K
  <2> SUFFICES ASSUME n + 1 <= Len(r) PROVE u[n + 2] = first \o v[n + 1]
      OBVIOUS
  <2>1. /\ n + 1 \in 1..Len(r) /\ n + 2 \in 1..Len(q) /\ n \in 0..Len(r) /\ n + 1 \in 0..Len(q)
        /\ (n + 1) - 1 = n /\ (n + 2) - 1 = n + 1 /\ (n + 1) + 1 = n + 2
        /\ u[n + 1] = first \o v[n]
      BY <1>0, <1>6
  <2>2. q[n + 2] = r[n + 1] /\ r[n + 1] \in Entries
      BY <1>0, <2>1
  <2>3. u[n + 2] = IF IsCall(r[n + 1], c) THEN Append(u[n + 1], r[n + 1].op) ELSE u[n + 1]
      BY <1>1, <2>1, <2>2 DEF Counted
  <2>4. v[n + 1] = IF IsCall(r[n + 1], c) THEN Append(v[n], r[n + 1].op) ELSE v[n]
      BY <1>2, <2>1, <2>2 DEF Counted
  <2>5. v[n] \in Seq(C!Ops)
      BY <1>2, <2>1 DEF Counted
  <2>6. CASE IsCall(r[n + 1], c)
    <3>1. r[n + 1].op \in C!Ops
        BY <2>2, <2>6, IsCallOp
    <3>2. Append(first \o v[n], r[n + 1].op) = first \o Append(v[n], r[n + 1].op)
        BY <1>4, <2>5, <3>1, ConcatAppend
    <3> QED
        BY <2>1, <2>3, <2>4, <2>6, <3>2
  <2>7. CASE ~IsCall(r[n + 1], c)
      BY <2>1, <2>3, <2>4, <2>7
  <2> QED
      BY <2>6, <2>7
<1>7. Nat \subseteq K
  <2> HIDE DEF K
  <2> QED
      BY <1>5, <1>6, NatSetInduction
<1>8. u[Len(q)] = first \o v[Len(r)]
    BY <1>0, <1>7
<1>9. CallsOf(q, c) = first \o CallsOf(r, c) /\ CallsOf(r, c) \in Seq(C!Ops)
    BY <1>1, <1>2, <1>3, <1>8
<1> QED
    BY <1>9, ConcatEmptySeq DEF first, r

\* There are none exactly if no command is one.
LEMMA CallsOfEmpty ==
    ASSUME NEW q \in Seq(Entries), NEW c
    PROVE  CallsOf(q, c) = <<>> <=> \A i \in 1..Len(q) : ~IsCall(q[i], c)
<1>0. Len(q) \in Nat
    OBVIOUS
<1>1. PICK u : Counted(q, c, u) /\ CallsOf(q, c) = u[Len(q)]
    BY CallsOfIsCounted
<1>2. ASSUME \A i \in 1..Len(q) : ~IsCall(q[i], c) PROVE u[Len(q)] = <<>>
  <2> DEFINE K == {n \in Nat : n <= Len(q) => u[n] = <<>>}
  <2>1. 0 \in K
      BY <1>1 DEF Counted
  <2>2. ASSUME NEW n \in Nat, n \in K PROVE n + 1 \in K
    <3> SUFFICES ASSUME n + 1 <= Len(q) PROVE u[n + 1] = <<>>
        OBVIOUS
    <3>1. n + 1 \in 1..Len(q) /\ (n + 1) - 1 = n /\ u[n] = <<>>
        BY <1>0, <2>2
    <3> QED
        BY <1>1, <1>2, <3>1 DEF Counted
  <2>3. Nat \subseteq K
    <3> HIDE DEF K
    <3> QED
        BY <2>1, <2>2, NatSetInduction
  <2> QED
      BY <1>0, <2>3
<1>3. ASSUME NEW i \in 1..Len(q), IsCall(q[i], c) PROVE u[Len(q)] # <<>>
  <2> DEFINE K == {n \in Nat : i <= n /\ n <= Len(q) => u[n] # <<>>}
  <2>1. 0 \in K
      BY <1>0
  <2>2. ASSUME NEW n \in Nat, n \in K PROVE n + 1 \in K
    <3> SUFFICES ASSUME i <= n + 1, n + 1 <= Len(q) PROVE u[n + 1] # <<>>
        OBVIOUS
    <3>1. n + 1 \in 1..Len(q) /\ (n + 1) - 1 = n /\ n \in 0..Len(q)
        BY <1>0, <2>2
    <3>2. u[n] \in Seq(C!Ops) /\ q[n + 1] \in Entries
        BY <1>1, <3>1 DEF Counted
    <3>3. u[n + 1] = IF IsCall(q[n + 1], c) THEN Append(u[n], q[n + 1].op) ELSE u[n]
        BY <1>1, <3>1 DEF Counted
    <3>4. CASE IsCall(q[n + 1], c)
      <4>1. q[n + 1].op \in C!Ops
          BY <3>2, <3>4, IsCallOp
      <4> DEFINE e == q[n + 1].op
      <4> HIDE DEF e
      <4>2. Append(u[n], e) # <<>>
          BY <3>2, <4>1
      <4> QED
          BY <3>3, <3>4, <4>2 DEF e
    <3>5. CASE ~IsCall(q[n + 1], c)
      <4>1. i <= n
          BY <1>0, <1>3, <3>1, <3>5
      <4> QED
          BY <2>2, <3>1, <3>3, <3>5, <4>1
    <3> QED
        BY <3>4, <3>5
  <2>3. Nat \subseteq K
    <3> HIDE DEF K
    <3> QED
        BY <2>1, <2>2, NatSetInduction
  <2> QED
      BY <1>0, <2>3
<1> QED
    BY <1>1, <1>2, <1>3

\* An empty channel has no calls.
LEMMA CallsOfNothing ==
    ASSUME NEW c
    PROVE  CallsOf(<<>>, c) = <<>>
<1> DEFINE q == <<>>
<1>1. q \in Seq(Entries) /\ 1..Len(q) = {}
    OBVIOUS
<1> HIDE DEF q
<1>2. CallsOf(q, c) = <<>>
    BY <1>1, CallsOfEmpty
<1> QED
    BY <1>2 DEF q

-----------------------------------------------------------------------------
(* Who waits, and for which command.                                       *)

Results == {[is |-> "error"], [is |-> "ok"]} \cup [is : {"ok"}, val : Values]
               \cup [is : {"ok"}, got : C!Statuses]

Types ==
    /\ dev \in [val : Values, events : Nat, messages : Nat]
    /\ queue \in Seq(Entries)
    /\ call \in [Callers -> {C!Idle, C!Waiting} \cup [st : {"answered"}, res : Results]]
    /\ thread \in {"running", "ended", "panicked"}
    /\ owner \in {"shared", "joining", "gone"}
    /\ polls \in Seq({"live", "dead", "drop"})
    /\ task \in [st : {"loop", "polling", "found", "handling", "ended"},
                 status : SUBSET {"event", "message"}]
    /\ task.st = "found" => task.status # {}

\* A thread that does not run has no channel, and nothing is sent after Drop.
Closed ==
    /\ thread # "running" => queue = <<>>
    /\ \A i \in 1..Len(queue) : queue[i].op.kind = "drop" => i = Len(queue) /\ owner # "shared"

\* A command somebody waits for is the last call of its caller, and whoever
\* waits waits for such a command.
Newest ==
    /\ \A i \in 1..Len(queue) : queue[i].live /\ queue[i].op.kind # "drop" =>
          /\ call[queue[i].from] = C!Waiting
          /\ \A j \in 1..Len(queue) : j > i => ~IsCall(queue[j], queue[i].from)
    /\ \A c \in Callers : call[c] = C!Waiting =>
          \E i \in 1..Len(queue) : IsCall(queue[i], c) /\ queue[i].live

\* Only the poll that the task waits for is heard, and handle_status is in the
\* channel only while the task waits for it.
OneHandler ==
    /\ \A i \in 1..Len(polls) : polls[i] = "live" =>
          task.st = "polling" /\ \A j \in 1..Len(polls) : polls[j] = "live" => j = i
    /\ \A i \in 1..Len(queue) : queue[i].op.kind = "handle" =>
          queue[i].from = Task /\ queue[i].live /\ task.st = "handling"

RelayInv == Types /\ Closed /\ Newest /\ OneHandler /\ StatusStillTrue

\* What sending a command does.
LEMMA Sent ==
    ASSUME Types, NEW c \in Callers, NEW op \in C!Ops, Relayed(c, op)
    PROVE  /\ call[c] = C!Idle /\ owner = "shared" /\ UNCHANGED <<dev, thread, owner>>
           /\ \/ /\ thread = "running"
                 /\ queue' = Append(queue, Entry(c, op))
                 /\ Entry(c, op) \in Entries
                 /\ queue' \in Seq(Entries)
                 /\ Len(queue) \in Nat /\ Len(queue') = Len(queue) + 1
                 /\ \A i \in 1..Len(queue) : queue'[i] = queue[i]
                 /\ queue'[Len(queue) + 1] = Entry(c, op)
                 /\ call' = [call EXCEPT ![c] = C!Waiting]
              \/ /\ thread # "running"
                 /\ queue' = queue
                 /\ call' = [call EXCEPT ![c] = C!Answered(C!Failed)]
<1>1. Entry(c, op) \in Entries
    BY DEF Entry, Entries
<1>2. queue \in Seq(Entries)
    BY DEF Types
<1>3. CASE thread = "running"
  <2> DEFINE e == Entry(c, op)
  <2>1. e \in Entries
      BY <1>1
  <2> HIDE DEF e
  <2>2. queue' = Append(queue, e) /\ call' = [call EXCEPT ![c] = C!Waiting]
      BY <1>3 DEF Relayed, e
  <2>3. /\ queue' \in Seq(Entries) /\ Len(queue) \in Nat /\ Len(queue') = Len(queue) + 1
        /\ \A i \in 1..Len(queue) : queue'[i] = queue[i]
        /\ queue'[Len(queue) + 1] = e
      BY <1>2, <2>1, <2>2
  <2> QED
      BY <1>1, <1>3, <2>2, <2>3 DEF Relayed, e
<1>4. CASE thread # "running"
    BY <1>4 DEF Relayed
<1> QED
    BY <1>3, <1>4

\* What taking one does.
LEMMA Taken ==
    ASSUME Types, queue # <<>>, queue' = Tail(queue)
    PROVE  /\ Head(queue) \in Entries /\ Head(queue) = queue[1]
           /\ Len(queue) \in Nat \ {0} /\ Len(queue') = Len(queue) - 1
           /\ queue' \in Seq(Entries)
           /\ \A i \in 1..Len(queue') : i + 1 \in 1..Len(queue) /\ queue'[i] = queue[i + 1]
    BY DEF Types

\* What dropping a future does.
LEMMA Muted ==
    ASSUME Types, NEW c \in Callers, Abandon(c)
    PROVE  /\ queue' \in Seq(Entries) /\ Len(queue) \in Nat /\ Len(queue') = Len(queue)
           /\ \A i \in 1..Len(queue) :
                 /\ queue'[i].from = queue[i].from
                 /\ queue'[i].op = queue[i].op
                 /\ queue'[i].live <=> queue[i].live /\ queue[i].from # c
<1>1. queue' = [i \in 1..Len(queue) |->
                    IF queue[i].from = c THEN [queue[i] EXCEPT !.live = FALSE] ELSE queue[i]]
    BY DEF Abandon, Types
<1>2. \A i \in 1..Len(queue) : queue[i] \in Entries
    BY DEF Types
<1>3. Len(queue) \in Nat
    BY DEF Types
<1>4. \A i \in 1..Len(queue) :
          (IF queue[i].from = c THEN [queue[i] EXCEPT !.live = FALSE] ELSE queue[i]) \in Entries
    BY <1>2 DEF Entries
<1>5. queue' \in Seq(Entries) /\ Len(queue') = Len(queue)
    BY <1>1, <1>3, <1>4
<1>6. \A i \in 1..Len(queue) :
          queue'[i] = IF queue[i].from = c THEN [queue[i] EXCEPT !.live = FALSE] ELSE queue[i]
    BY <1>1
<1> QED
    BY <1>2, <1>3, <1>5, <1>6 DEF Entries

\* Every command has a sender.
LEMMA Senders ==
    ASSUME NEW q \in Seq(Entries)
    PROVE  \A i \in 1..Len(q) : q[i] \in Entries /\ q[i].from \in Callers
<1>1. \A i \in 1..Len(q) : q[i] \in Entries
    OBVIOUS
<1>2. \A e \in Entries : e.from \in Callers
    BY DEF Entries
<1> QED
    BY <1>1, <1>2

\* Results of calls are results.
LEMMA ResultType ==
    ASSUME NEW op \in C!Ops, NEW d \in [val : Values, events : Nat, messages : Nat]
    PROVE  /\ C!Result(op, d) \in Results
           /\ C!Apply(op, d) \in [val : Values, events : Nat, messages : Nat]
<1>1. CASE op \in [kind : {"set"}, val : Values] \/ op = [kind |-> "get"]
    BY <1>1 DEF C!Result, C!Apply, Results
<1>2. CASE op \in [kind : {"handle"}, status : C!Statuses]
  <2>1. op.kind = "handle" /\ op.status \in C!Statuses
      BY <1>2
  <2>2. C!Result(op, d) \in Results
      BY <2>1 DEF C!Result, C!Failed, Results
  <2>3. \A n \in Nat : C!Less(n) \in Nat
      BY DEF C!Less
  <2>4. C!Apply(op, d) = [d EXCEPT !.events = IF "event" \in op.status THEN C!Less(@) ELSE @,
                                   !.messages = IF "message" \in op.status THEN C!Less(@) ELSE @]
      BY <2>1 DEF C!Apply
  <2> QED
      BY <2>2, <2>3, <2>4
<1> QED
    BY <1>1, <1>2 DEF C!Ops

\* Every step keeps the types.
LEMMA TypesNext == Types /\ [Next]_vars => Types'
<1> SUFFICES ASSUME Types, [Next]_vars PROVE Types'
    OBVIOUS
<1> USE RelayAssumption DEF RelayAssumption, Results, C!Idle, C!Waiting, C!Answered, C!Failed,
        deviceVars, pollerVars, At
<1>1. ASSUME NEW c \in Callers, NEW op \in C!Ops, Relayed(c, op), polls' = polls,
             task' \in [st : {"loop", "polling", "found", "handling", "ended"},
                        status : SUBSET {"event", "message"}],
             task'.st = "found" => task'.status # {}
      PROVE  Types'
    BY <1>1, Sent DEF Types
<1>2. ASSUME NEW c \in Callers, Call(c) PROVE Types'
  <2>1. PICK op \in C!Ops : Relayed(c, op)
      BY <1>2 DEF Call, C!Ops
  <2> QED
      BY <1>1, <1>2, <2>1 DEF Call, Types
<1>3. ASSUME NEW c \in Callers, Abandon(c) PROVE Types'
    BY <1>3, Muted DEF Abandon, Types
<1>4. ASSUME NEW c \in Callers, Return(c) PROVE Types'
    BY <1>4 DEF Return, Types
<1>5. CASE RunCommand
  <2>1. queue' = Tail(queue) /\ queue # <<>>
      BY <1>5 DEF RunCommand
  <2>2. Head(queue) \in Entries /\ queue' \in Seq(Entries)
      BY <2>1, Taken
  <2>3. Head(queue).op \in C!Ops /\ Head(queue).from \in Callers
      BY <1>5, <2>2 DEF RunCommand, Entries
  <2>4. /\ C!Result(Head(queue).op, dev) \in Results
        /\ C!Apply(Head(queue).op, dev) \in [val : Values, events : Nat, messages : Nat]
      BY <2>3, ResultType DEF Types
  <2> QED
      BY <1>5, <2>2, <2>3, <2>4 DEF RunCommand, Types
<1>6. CASE RunDrop
    BY <1>6, Taken DEF RunDrop, Types
<1>7. CASE Panic
    BY <1>7 DEF Panic, Types
<1>8. CASE DropDevice
  <2>1. Entry(Task, [kind |-> "drop"]) \in Entries
      BY DEF Entry, Entries
  <2> QED
      BY <1>8, <2>1 DEF DropDevice, Types
<1>9. CASE Join \/ Arrival
    BY <1>9 DEF Join, Arrival, Types
<1>10. Unheard(polls) \in Seq({"live", "dead", "drop"})
  <2>1. \A i \in 1..Len(polls) : polls[i] \in {"live", "dead", "drop"}
      BY DEF Types
  <2>2. DOMAIN polls = 1..Len(polls) /\ Len(polls) \in Nat
      BY DEF Types
  <2>3. \A i \in 1..Len(polls) : (IF polls[i] = "live" THEN "dead" ELSE polls[i]) \in {"live", "dead", "drop"}
      BY <2>1
  <2> QED
      BY <2>2, <2>3 DEF Unheard
<1>11. CASE Poll \/ OtherBranch \/ RunPollerDrop
  <2>1. polls' \in Seq({"live", "dead", "drop"})
    <3>1. CASE Poll
        BY <3>1 DEF Poll, Types
    <3>2. CASE OtherBranch
        BY <1>10, <3>2 DEF OtherBranch
    <3>3. CASE RunPollerDrop
        BY <3>3 DEF RunPollerDrop, Types
    <3> QED
        BY <1>11, <3>1, <3>2, <3>3
  <2> QED
      BY <1>11, <2>1 DEF Poll, OtherBranch, RunPollerDrop, Types
<1>12. CASE RunPoll
  <2>1. polls' \in Seq({"live", "dead", "drop"})
      BY <1>12 DEF RunPoll, Types
  <2>2. Found \in SUBSET {"event", "message"}
      BY DEF Found
  <2>3. task' \in [st : {"loop", "polling", "found", "handling", "ended"},
                    status : SUBSET {"event", "message"}]
      BY <1>12, <2>2 DEF RunPoll, Types
  <2>4. task'.st = "found" => task'.status # {}
      BY <1>12 DEF RunPoll, Types
  <2> QED
      BY <1>12, <2>1, <2>3, <2>4 DEF RunPoll, Types
<1>13. CASE Handle
  <2>1. [kind |-> "handle", status |-> task.status] \in C!Ops
      BY <1>13 DEF Handle, Types, C!Ops, C!Statuses
  <2> QED
      BY <1>1, <1>13, <2>1 DEF Handle, Types
<1>14. CASE Cancelled \/ Destroyed
  <2>1. PICK rest \in Seq({"live", "dead", "drop"}) : TaskEnds(rest)
    <3>1. CASE Cancelled
        BY <1>10, <3>1 DEF Cancelled
    <3>2. CASE Destroyed
      <4>1. Tail(polls) \in Seq({"live", "dead", "drop"})
          BY <3>2 DEF Destroyed, Types
      <4> QED
          BY <3>2, <4>1 DEF Destroyed
    <3> QED
        BY <1>14, <3>1, <3>2
  <2>2. polls' \in Seq({"live", "dead", "drop"})
      BY <2>1 DEF TaskEnds
  <2> QED
      BY <2>1, <2>2 DEF TaskEnds, Types
<1>15. CASE UNCHANGED vars
    BY <1>15 DEF vars, Types
<1> QED
    BY <1>2, <1>3, <1>4, <1>5, <1>6, <1>7, <1>8, <1>9, <1>11, <1>12, <1>13, <1>14, <1>15 DEF Next

\* The steps that leave the device's channel and whoever waits alone.
Elsewhere ==
    \/ Join \/ Poll \/ OtherBranch \/ RunPoll \/ Cancelled \/ Destroyed \/ RunPollerDrop
    \/ Arrival \/ UNCHANGED vars

\* So they do.
LEMMA ElsewhereKeeps ==
    Elsewhere => UNCHANGED <<queue, call, thread>> /\ (owner # "shared" => owner' # "shared")
  BY DEF Elsewhere, Join, Poll, OtherBranch, RunPoll, Cancelled, Destroyed, TaskEnds,
         RunPollerDrop, Arrival, vars, deviceVars, pollerVars

\* Every step, by what it does to the channel.
LEMMA Steps ==
    ASSUME Types, [Next]_vars
    PROVE  \/ \E c \in Callers, op \in C!Ops : Relayed(c, op)
           \/ \E c \in Callers : Abandon(c) \/ Return(c)
           \/ RunCommand \/ RunDrop \/ Panic \/ DropDevice \/ Elsewhere
<1>1. ASSUME NEW c \in Callers, Call(c) PROVE \E op \in C!Ops : Relayed(c, op)
    BY <1>1 DEF Call, C!Ops
<1>2. ASSUME Handle PROVE \E op \in C!Ops : Relayed(Task, op)
  <2>1. [kind |-> "handle", status |-> task.status] \in C!Ops
      BY <1>2 DEF Handle, Types, C!Ops, C!Statuses
  <2> QED
      BY <1>2, <2>1 DEF Handle
<1> QED
    BY <1>1, <1>2, RelayAssumption DEF RelayAssumption, Next, Elsewhere

\* Drop is sent once nobody can send, and taken as the last one.
LEMMA ClosedNext == Types /\ Closed /\ [Next]_vars => Closed'
<1> SUFFICES ASSUME Types, Closed, [Next]_vars PROVE Closed'
    OBVIOUS
<1>1. ASSUME NEW c \in Callers, NEW op \in C!Ops, Relayed(c, op) PROVE Closed'
  <2>1. op.kind # "drop"
      BY DEF C!Ops
  <2>2. CASE thread = "running"
    <3>1. /\ Len(queue) \in Nat /\ Len(queue') = Len(queue) + 1
          /\ \A i \in 1..Len(queue) : queue'[i] = queue[i]
          /\ queue'[Len(queue) + 1] = Entry(c, op)
          /\ owner = "shared" /\ thread' = thread
        BY <1>1, <2>2, Sent
    <3>2. \A i \in 1..Len(queue) : queue[i].op.kind # "drop"
        BY <3>1 DEF Closed
    <3>3. Entry(c, op).op.kind # "drop"
        BY <2>1 DEF Entry
    <3>4. \A i \in 1..Len(queue') : queue'[i].op.kind # "drop"
        BY <3>1, <3>2, <3>3
    <3> QED
        BY <2>2, <3>1, <3>4 DEF Closed
  <2>3. CASE thread # "running"
      BY <1>1, <2>3, Sent DEF Closed
  <2> QED
      BY <2>2, <2>3
<1>2. ASSUME NEW c \in Callers, Abandon(c) PROVE Closed'
  <2>1. UNCHANGED <<thread, owner>>
      BY <1>2 DEF Abandon
  <2>2. queue = <<>> => queue' = <<>>
      BY <1>2, Muted DEF Types
  <2> QED
      BY <1>2, <2>1, <2>2, Muted DEF Closed
<1>3. ASSUME NEW c \in Callers, Return(c) PROVE Closed'
    BY <1>3 DEF Return, Closed
<1>4. CASE RunCommand \/ RunDrop
  <2>1. queue # <<>> /\ queue' = Tail(queue) /\ owner' = owner
      BY <1>4 DEF RunCommand, RunDrop
  <2>2. CASE RunCommand
    <3>1. thread' = "running"
        BY <2>2 DEF RunCommand
    <3>2. ASSUME NEW i \in 1..Len(queue'), queue'[i].op.kind = "drop"
          PROVE  i = Len(queue') /\ owner' # "shared"
      <4>1. /\ i + 1 \in 1..Len(queue) /\ queue'[i] = queue[i + 1]
            /\ Len(queue) \in Nat /\ Len(queue') = Len(queue) - 1
          BY <2>1, Taken
      <4>2. i + 1 = Len(queue) /\ owner # "shared"
          BY <3>2, <4>1 DEF Closed
      <4>3. owner' = owner
          BY <2>1
      <4> QED
          BY <4>1, <4>2, <4>3
    <3> QED
        BY <3>1, <3>2 DEF Closed
  <2>3. CASE RunDrop
    <3>1. queue[1].op.kind = "drop" /\ 1 \in 1..Len(queue)
        BY <2>1, <2>3, Taken DEF RunDrop
    <3>2. Len(queue) = 1
        BY <3>1 DEF Closed
    <3>3. queue' = <<>>
        BY <2>1, <3>2, Taken
    <3> QED
        BY <2>1, <3>3 DEF Closed
  <2> QED
      BY <1>4, <2>2, <2>3
<1>5. CASE Panic
    BY <1>5 DEF Panic, Closed
<1>6. CASE DropDevice
  <2> DEFINE e == Entry(Task, [kind |-> "drop"])
  <2>1. e \in Entries
      BY RelayAssumption DEF Entry, Entries, RelayAssumption
  <2> HIDE DEF e
  <2>2. queue' = IF thread = "running" THEN Append(queue, e) ELSE queue
      BY <1>6 DEF DropDevice, e
  <2>3. thread' = thread /\ owner = "shared" /\ owner' # "shared"
      BY <1>6 DEF DropDevice
  <2> QED
      BY <2>1, <2>2, <2>3 DEF Closed, Types
<1>7. CASE Elsewhere
    BY <1>7, ElsewhereKeeps DEF Closed
<1> QED
    BY <1>1, <1>2, <1>3, <1>4, <1>5, <1>6, <1>7, Steps

\* A caller sends when it waits for nothing, and waits until its command is
\* taken, the thread is lost, or it gives up.
LEMMA NewestNext == Types /\ Closed /\ Newest /\ [Next]_vars => Newest'
<1> SUFFICES ASSUME Types, Closed, Newest, [Next]_vars PROVE Newest'
    OBVIOUS
<1> USE DEF C!Idle, C!Waiting, C!Answered
<1>1. ASSUME NEW c \in Callers, NEW op \in C!Ops, Relayed(c, op) PROVE Newest'
  <2>1. op.kind # "drop"
      BY DEF C!Ops
  <2>2. \A i \in 1..Len(queue) : queue[i].from \in Callers
      BY Senders DEF Types
  <2>3. \A i \in 1..Len(queue) : IsCall(queue[i], c) => ~queue[i].live
      BY <1>1, Sent DEF Newest, IsCall
  <2>4. CASE thread = "running"
    <3>1. /\ queue' \in Seq(Entries)
          /\ Len(queue) \in Nat /\ Len(queue') = Len(queue) + 1
          /\ \A i \in 1..Len(queue) : queue'[i] = queue[i]
          /\ queue'[Len(queue) + 1] = Entry(c, op)
          /\ call' = [call EXCEPT ![c] = C!Waiting]
        BY <1>1, <2>4, Sent
    <3>2. IsCall(Entry(c, op), c) /\ Entry(c, op).live /\ \A d : IsCall(Entry(c, op), d) => d = c
        BY <2>1 DEF IsCall, Entry
    <3>3. ASSUME NEW i \in 1..Len(queue'), queue'[i].live, queue'[i].op.kind # "drop"
          PROVE  /\ call'[queue'[i].from] = C!Waiting
                 /\ \A j \in 1..Len(queue') : j > i => ~IsCall(queue'[j], queue'[i].from)
      <4>1. CASE i = Len(queue) + 1
          BY <3>1, <4>1 DEF Entry, Types
      <4>2. CASE i # Len(queue) + 1
        <5>1. i \in 1..Len(queue) /\ queue'[i] = queue[i]
            BY <3>1, <4>2
        <5>2. queue[i].from # c
            BY <2>3, <3>3, <5>1 DEF IsCall
        <5>3. call'[queue[i].from] = call[queue[i].from]
            BY <2>2, <3>1, <5>1, <5>2 DEF Types
        <5>4. /\ call[queue[i].from] = C!Waiting
              /\ \A j \in 1..Len(queue) : j > i => ~IsCall(queue[j], queue[i].from)
            BY <3>3, <5>1 DEF Newest
        <5>5. ASSUME NEW j \in 1..Len(queue'), j > i PROVE ~IsCall(queue'[j], queue[i].from)
          <6>1. CASE j = Len(queue) + 1
              BY <3>1, <3>2, <5>2, <6>1
          <6>2. CASE j # Len(queue) + 1
              BY <3>1, <5>4, <5>5, <6>2
          <6> QED
              BY <6>1, <6>2
        <5> QED
            BY <5>1, <5>3, <5>4, <5>5
      <4> QED
          BY <4>1, <4>2
    <3>4. ASSUME NEW d \in Callers, call'[d] = C!Waiting
          PROVE  \E i \in 1..Len(queue') : IsCall(queue'[i], d) /\ queue'[i].live
      <4>1. CASE d = c
          BY <3>1, <3>2, <4>1
      <4>2. CASE d # c
          BY <3>1, <3>4, <4>2 DEF Newest, Types
      <4> QED
          BY <4>1, <4>2
    <3> QED
        BY <3>3, <3>4 DEF Newest
  <2>5. CASE thread # "running"
    <3>1. queue' = queue /\ call' = [call EXCEPT ![c] = C!Answered(C!Failed)]
        BY <1>1, <2>5, Sent
    <3>2. queue = <<>>
        BY <2>5 DEF Closed
    <3> QED
        BY <3>1, <3>2 DEF Newest, Types
  <2> QED
      BY <2>4, <2>5
<1>2. ASSUME NEW c \in Callers, Abandon(c) PROVE Newest'
  <2>1. call' = [call EXCEPT ![c] = C!Idle]
      BY <1>2 DEF Abandon
  <2>2. \A i \in 1..Len(queue) : queue[i].from \in Callers
      BY Senders DEF Types
  <2>3. \A i \in 1..Len(queue), d \in Callers : IsCall(queue'[i], d) <=> IsCall(queue[i], d)
      BY <1>2, Muted DEF IsCall
  <2>4. ASSUME NEW i \in 1..Len(queue'), queue'[i].live, queue'[i].op.kind # "drop"
        PROVE  /\ call'[queue'[i].from] = C!Waiting
               /\ \A j \in 1..Len(queue') : j > i => ~IsCall(queue'[j], queue'[i].from)
    <3>1. /\ i \in 1..Len(queue) /\ queue'[i].from = queue[i].from /\ Len(queue') = Len(queue)
          /\ queue'[i].op = queue[i].op /\ queue[i].live /\ queue[i].from # c
        BY <1>2, <2>4, Muted
    <3>2. /\ call[queue[i].from] = C!Waiting
          /\ \A j \in 1..Len(queue) : j > i => ~IsCall(queue[j], queue[i].from)
        BY <2>4, <3>1 DEF Newest
    <3> QED
        BY <2>1, <2>2, <2>3, <3>1, <3>2 DEF Types
  <2>5. ASSUME NEW d \in Callers, call'[d] = C!Waiting
        PROVE  \E i \in 1..Len(queue') : IsCall(queue'[i], d) /\ queue'[i].live
    <3>1. d # c /\ call[d] = C!Waiting
        BY <2>1, <2>5 DEF Types
    <3>2. PICK i \in 1..Len(queue) : IsCall(queue[i], d) /\ queue[i].live
        BY <3>1 DEF Newest
    <3> QED
        BY <1>2, <2>3, <3>1, <3>2, Muted DEF IsCall
  <2> QED
      BY <2>4, <2>5 DEF Newest
<1>3. ASSUME NEW c \in Callers, Return(c) PROVE Newest'
  <2>1. queue' = queue /\ call[c] # C!Waiting /\ call' = [call EXCEPT ![c] = C!Idle]
      BY <1>3 DEF Return
  <2> QED
      BY <2>1 DEF Newest, Types
<1>4. CASE RunCommand
  <2> DEFINE e == Head(queue)
  <2>1. queue # <<>> /\ queue' = Tail(queue) /\ e.op.kind # "drop"
      BY <1>4 DEF RunCommand
  <2>2. e \in Entries /\ e = queue[1] /\ e.from \in Callers /\ 1 \in 1..Len(queue)
      BY <2>1, Taken DEF Entries
  <2>3. \A i \in 1..Len(queue') : queue'[i] \in Entries /\ queue'[i].from \in Callers
    <3>1. queue' \in Seq(Entries)
        BY <2>1, Taken
    <3> QED
        BY <3>1, Senders
  <2> HIDE DEF e
  <2>4. CASE e.live
    <3>1. \E r : call' = [call EXCEPT ![e.from] = C!Answered(r)]
        BY <1>4, <2>4 DEF RunCommand, Expects, e
    <3>2. \A i \in 1..Len(queue') : ~IsCall(queue'[i], e.from)
        BY <2>1, <2>2, <2>4, Taken DEF Newest
    <3>3. ASSUME NEW i \in 1..Len(queue'), queue'[i].live, queue'[i].op.kind # "drop"
          PROVE  /\ call'[queue'[i].from] = C!Waiting
                 /\ \A j \in 1..Len(queue') : j > i => ~IsCall(queue'[j], queue'[i].from)
      <4>1. queue'[i].from # e.from
          BY <3>2, <3>3 DEF IsCall
      <4>2. call'[queue'[i].from] = call[queue'[i].from]
          BY <2>3, <3>1, <4>1 DEF Types
      <4>3. i + 1 \in 1..Len(queue) /\ queue'[i] = queue[i + 1]
          BY <2>1, Taken
      <4> QED
          BY <2>1, <3>3, <4>2, <4>3, Taken DEF Newest
    <3>4. ASSUME NEW d \in Callers, call'[d] = C!Waiting
          PROVE  \E i \in 1..Len(queue') : IsCall(queue'[i], d) /\ queue'[i].live
      <4>1. d # e.from /\ call[d] = C!Waiting
          BY <2>2, <3>1, <3>4 DEF Types
      <4>2. PICK i \in 1..Len(queue) : IsCall(queue[i], d) /\ queue[i].live
          BY <4>1 DEF Newest
      <4>3. i # 1
          BY <2>2, <4>1, <4>2 DEF IsCall
      <4>4. i - 1 \in 1..Len(queue') /\ queue'[i - 1] = queue[i]
          BY <2>1, <4>3, Taken
      <4> QED
          BY <4>2, <4>4
    <3> QED
        BY <3>3, <3>4 DEF Newest
  <2>5. CASE ~e.live
    <3>1. call' = call
        BY <1>4, <2>5 DEF RunCommand, Expects, e
    <3>3. ASSUME NEW i \in 1..Len(queue'), queue'[i].live, queue'[i].op.kind # "drop"
          PROVE  /\ call'[queue'[i].from] = C!Waiting
                 /\ \A j \in 1..Len(queue') : j > i => ~IsCall(queue'[j], queue'[i].from)
      <4>1. i + 1 \in 1..Len(queue) /\ queue'[i] = queue[i + 1]
          BY <2>1, Taken
      <4> QED
          BY <2>1, <3>1, <3>3, <4>1, Taken DEF Newest
    <3>4. ASSUME NEW d \in Callers, call'[d] = C!Waiting
          PROVE  \E i \in 1..Len(queue') : IsCall(queue'[i], d) /\ queue'[i].live
      <4>1. PICK i \in 1..Len(queue) : IsCall(queue[i], d) /\ queue[i].live
          BY <3>1, <3>4 DEF Newest
      <4>2. i # 1
          BY <2>2, <2>5, <4>1
      <4>3. i - 1 \in 1..Len(queue') /\ queue'[i - 1] = queue[i]
          BY <2>1, <4>2, Taken
      <4> QED
          BY <4>1, <4>3
    <3> QED
        BY <3>3, <3>4 DEF Newest
  <2> QED
      BY <2>4, <2>5
<1>5. CASE RunDrop
  <2>1. queue # <<>> /\ queue' = Tail(queue) /\ call' = call /\ Head(queue).op.kind = "drop"
      BY <1>5 DEF RunDrop
  <2>2. Len(queue) = 1 /\ 1 \in 1..Len(queue) /\ queue[1].op.kind = "drop"
    <3>1. 1 \in 1..Len(queue) /\ queue[1].op.kind = "drop"
        BY <2>1, Taken
    <3> QED
        BY <3>1 DEF Closed
  <2>3. Len(queue') = 0
      BY <2>1, <2>2, Taken
  <2>4. \A d \in Callers : call[d] # C!Waiting
      BY <2>2 DEF Newest, IsCall
  <2> QED
      BY <2>1, <2>3, <2>4 DEF Newest
<1>6. CASE Panic
    BY <1>6 DEF Panic, Newest, Types
<1>7. CASE DropDevice
  <2> DEFINE e == Entry(Task, [kind |-> "drop"])
  <2>1. e \in Entries /\ e.op.kind = "drop" /\ \A d : ~IsCall(e, d)
      BY RelayAssumption DEF Entry, Entries, RelayAssumption, IsCall
  <2> HIDE DEF e
  <2>2. queue' = IF thread = "running" THEN Append(queue, e) ELSE queue
      BY <1>7 DEF DropDevice, e
  <2>3. call' = call
      BY <1>7 DEF DropDevice
  <2>4. CASE thread = "running"
    <3>1. /\ Len(queue) \in Nat /\ Len(queue') = Len(queue) + 1
          /\ \A i \in 1..Len(queue) : queue'[i] = queue[i]
          /\ queue'[Len(queue) + 1] = e
        BY <2>1, <2>2, <2>4 DEF Types
    <3> QED
        BY <2>1, <2>3, <3>1 DEF Newest
  <2>5. CASE thread # "running"
      BY <2>2, <2>3, <2>5 DEF Newest
  <2> QED
      BY <2>4, <2>5
<1>8. CASE Elsewhere
    BY <1>8, ElsewhereKeeps DEF Newest
<1> QED
    BY <1>1, <1>2, <1>3, <1>4, <1>5, <1>6, <1>7, <1>8, Steps

\* The task gives a poll up before it starts another one, and it never gives up
\* handle_status.
LEMMA OneHandlerNext == Types /\ Newest /\ OneHandler /\ [Next]_vars => OneHandler'
<1> SUFFICES ASSUME Types, Newest, OneHandler, [Next]_vars PROVE OneHandler'
    OBVIOUS
<1> DEFINE Polling == \A i \in 1..Len(polls) : polls[i] = "live" =>
               task.st = "polling" /\ \A j \in 1..Len(polls) : polls[j] = "live" => j = i
           Handling == \A i \in 1..Len(queue) : queue[i].op.kind = "handle" =>
               queue[i].from = Task /\ queue[i].live /\ task.st = "handling"
<1>0. Polling /\ Handling /\ (Polling' /\ Handling' => OneHandler')
    BY DEF OneHandler
<1>a. Len(polls) \in Nat /\ Len(queue) \in Nat
    BY DEF Types
<1> USE DEF pollerVars, deviceVars, At, C!Idle, C!Waiting
<1>1. ASSUME NEW c \in Callers, Call(c) PROVE OneHandler'
  <2>1. PICK op \in C!Ops : op.kind # "handle" /\ Relayed(c, op)
      BY <1>1 DEF Call, C!Ops
  <2>2. UNCHANGED <<polls, task>>
      BY <1>1 DEF Call
  <2>3. CASE thread = "running"
    <3>1. /\ Len(queue') = Len(queue) + 1
          /\ \A i \in 1..Len(queue) : queue'[i] = queue[i]
          /\ queue'[Len(queue) + 1] = Entry(c, op)
        BY <2>1, <2>3, Sent
    <3>2. Entry(c, op).op.kind # "handle"
        BY <2>1 DEF Entry
    <3>3. ASSUME NEW i \in 1..Len(queue'), queue'[i].op.kind = "handle"
          PROVE  i \in 1..Len(queue) /\ queue'[i] = queue[i]
        BY <1>a, <3>1, <3>2, <3>3
    <3> QED
        BY <1>0, <2>2, <3>3
  <2>4. CASE thread # "running"
      BY <1>0, <2>1, <2>2, <2>4, Sent
  <2> QED
      BY <2>3, <2>4
<1>2. ASSUME NEW c \in Callers, Abandon(c) PROVE OneHandler'
  <2>1. c # Task /\ UNCHANGED <<polls, task>>
      BY <1>2 DEF Abandon, Cancels
  <2>2. ASSUME NEW i \in 1..Len(queue'), queue'[i].op.kind = "handle"
        PROVE  queue'[i].from = Task /\ queue'[i].live /\ task'.st = "handling"
      BY <1>0, <1>2, <2>1, <2>2, Muted
  <2> QED
      BY <1>0, <2>1, <2>2
<1>3. ASSUME NEW c \in Callers, Return(c) PROVE OneHandler'
  <2>1. UNCHANGED <<queue, polls>> /\ call[c].st = "answered"
      BY <1>3 DEF Return
  <2>2. CASE c = Task /\ task.st = "handling"
    <3>1. \A i \in 1..Len(queue) : queue[i].op.kind # "handle"
        BY <1>0, <2>1, <2>2 DEF Newest
    <3>2. \A i \in 1..Len(polls) : polls[i] # "live"
        BY <1>0, <2>2
    <3> QED
        BY <1>0, <2>1, <3>1, <3>2
  <2>3. CASE ~(c = Task /\ task.st = "handling")
    <3>1. task' = task
        BY <1>3, <2>3 DEF Return
    <3> QED
        BY <1>0, <2>1, <3>1
  <2> QED
      BY <2>2, <2>3
<1>4. CASE RunCommand \/ RunDrop
  <2>1. queue # <<>> /\ queue' = Tail(queue) /\ UNCHANGED <<polls, task>>
      BY <1>4 DEF RunCommand, RunDrop
  <2> QED
      BY <1>0, <2>1, Taken
<1>5. CASE Panic
  <2>1. queue' = <<>> /\ UNCHANGED <<polls, task>>
      BY <1>5 DEF Panic
  <2> QED
      BY <1>0, <2>1
<1>6. CASE DropDevice
  <2> DEFINE e == Entry(Task, [kind |-> "drop"])
  <2>1. e \in Entries /\ e.op.kind # "handle"
      BY RelayAssumption DEF Entry, Entries, RelayAssumption
  <2> HIDE DEF e
  <2>2. queue' = IF thread = "running" THEN Append(queue, e) ELSE queue
      BY <1>6 DEF DropDevice, e
  <2>3. UNCHANGED <<polls, task>>
      BY <1>6 DEF DropDevice
  <2>4. CASE thread = "running"
    <3>1. /\ Len(queue') = Len(queue) + 1
          /\ \A i \in 1..Len(queue) : queue'[i] = queue[i]
          /\ queue'[Len(queue) + 1] = e
        BY <2>1, <2>2, <2>4 DEF Types
    <3> QED
        BY <1>0, <1>a, <2>1, <2>3, <3>1
  <2>5. CASE thread # "running"
      BY <1>0, <2>2, <2>3, <2>5
  <2> QED
      BY <2>4, <2>5
<1>7. CASE Join \/ Arrival \/ UNCHANGED vars
  <2>1. UNCHANGED <<queue, polls, task>>
      BY <1>7 DEF Join, Arrival, vars
  <2> QED
      BY <1>0, <2>1
<1>8. CASE Poll
  <2>1. /\ queue' = queue /\ task.st = "loop" /\ task'.st = "polling"
        /\ Len(polls') = Len(polls) + 1
        /\ \A i \in 1..Len(polls) : polls'[i] = polls[i]
      BY <1>8 DEF Poll, Types
  <2>2. \A i \in 1..Len(polls) : polls[i] # "live"
      BY <1>0, <2>1
  <2>3. Polling'
      BY <1>a, <2>1, <2>2
  <2>4. Handling'
      BY <1>0, <2>1
  <2> QED
      BY <1>0, <2>3, <2>4
<1>9. Len(Unheard(polls)) = Len(polls) /\ \A i \in 1..Len(polls) : Unheard(polls)[i] # "live"
  <2>1. DOMAIN polls = 1..Len(polls)
      BY DEF Types
  <2> QED
      BY <1>a, <2>1 DEF Unheard
<1>10. CASE OtherBranch
    BY <1>0, <1>9, <1>10 DEF OtherBranch
<1>11. \A i \in 1..Len(polls) : polls # <<>> => Len(Tail(polls)) = Len(polls) - 1
    BY DEF Types
<1>12. CASE RunPoll
  <2>1. /\ polls # <<>> /\ polls' = Tail(polls) /\ queue' = queue
        /\ 1 \in 1..Len(polls) /\ Head(polls) = polls[1] /\ Len(polls') = Len(polls) - 1
        /\ \A i \in 1..Len(polls') : i + 1 \in 1..Len(polls) /\ polls'[i] = polls[i + 1]
      BY <1>12 DEF RunPoll, Types
  <2>2. CASE polls[1] = "live"
    <3>1. task.st = "polling"
        BY <1>0, <2>1, <2>2
    <3>2. \A i \in 1..Len(polls') : polls'[i] # "live"
        BY <1>0, <1>a, <2>1, <2>2
    <3>3. Handling'
        BY <1>0, <2>1, <3>1
    <3> QED
        BY <1>0, <3>2, <3>3
  <2>3. CASE polls[1] # "live"
    <3>1. task' = task
      <4>1. polls[1] \in {"live", "dead", "drop"}
          BY <2>1 DEF Types
      <4> QED
          BY <1>12, <2>1, <2>3, <4>1 DEF RunPoll
    <3>2. Polling'
        BY <1>0, <1>a, <2>1, <3>1
    <3>3. Handling'
        BY <1>0, <2>1, <3>1
    <3> QED
        BY <1>0, <3>2, <3>3
  <2> QED
      BY <2>2, <2>3
<1>13. CASE Handle
  <2>1. [kind |-> "handle", status |-> task.status] \in C!Ops /\ Task \in Callers
      BY <1>13, RelayAssumption DEF Handle, Types, C!Ops, C!Statuses, RelayAssumption
  <2>2. task.st = "found" /\ task'.st = "handling" /\ polls' = polls
      BY <1>13 DEF Handle, Types
  <2>3. \A i \in 1..Len(polls) : polls[i] # "live"
      BY <1>0, <2>2
  <2>4. \A i \in 1..Len(queue) : queue[i].op.kind # "handle"
      BY <1>0, <2>2
  <2> DEFINE op == [kind |-> "handle", status |-> task.status]
  <2>5. Relayed(Task, op)
      BY <1>13 DEF Handle
  <2> HIDE DEF op
  <2>6. \/ queue' = queue
        \/ /\ Len(queue') = Len(queue) + 1
           /\ \A i \in 1..Len(queue) : queue'[i] = queue[i]
           /\ queue'[Len(queue) + 1] = Entry(Task, op)
      BY <2>1, <2>5, Sent DEF op
  <2>7. Entry(Task, op).from = Task /\ Entry(Task, op).live
      BY DEF Entry
  <2>8. Handling'
    <3> SUFFICES ASSUME NEW i \in 1..Len(queue'), queue'[i].op.kind = "handle"
                 PROVE  queue'[i].from = Task /\ queue'[i].live
        BY <2>2
    <3> QED
        BY <1>a, <2>4, <2>6, <2>7
  <2> QED
      BY <1>0, <2>2, <2>3, <2>8
<1>14. CASE RunPollerDrop
  <2>1. /\ queue' = queue /\ task' = task /\ polls # <<>>
        /\ Len(polls') = Len(polls) - 1
        /\ \A i \in 1..Len(polls') : i + 1 \in 1..Len(polls) /\ polls'[i] = polls[i + 1]
      BY <1>14 DEF RunPollerDrop, Types
  <2>2. Polling'
      BY <1>0, <1>a, <2>1
  <2>3. Handling'
      BY <1>0, <2>1
  <2> QED
      BY <1>0, <2>2, <2>3
<1>15. CASE Cancelled \/ Destroyed
  <2>1. PICK rest \in Seq({"live", "dead", "drop"}) :
            TaskEnds(rest) /\ \A i \in 1..Len(rest) : rest[i] # "live"
    <3>1. CASE Cancelled
      <4>1. Unheard(polls) \in Seq({"live", "dead", "drop"})
        <5>1. DOMAIN polls = 1..Len(polls)
            BY DEF Types
        <5>2. \A i \in 1..Len(polls) : polls[i] \in {"live", "dead", "drop"}
            BY DEF Types
        <5> QED
            BY <1>a, <5>1, <5>2 DEF Unheard
      <4> QED
          BY <1>9, <3>1, <4>1 DEF Cancelled
    <3>2. CASE Destroyed
      <4>1. /\ Tail(polls) \in Seq({"live", "dead", "drop"}) /\ polls[1] = "live"
            /\ 1 \in 1..Len(polls)
            /\ \A i \in 1..Len(Tail(polls)) : i + 1 \in 1..Len(polls) /\ Tail(polls)[i] = polls[i + 1]
          BY <3>2 DEF Destroyed, Types
      <4>2. \A i \in 1..Len(Tail(polls)) : Tail(polls)[i] # "live"
          BY <1>0, <1>a, <4>1
      <4> QED
          BY <3>2, <4>1, <4>2 DEF Destroyed
    <3> QED
        BY <1>15, <3>1, <3>2
  <2>2. polls' = Append(rest, "drop") /\ task.st = "polling" /\ queue' = queue
      BY <2>1 DEF TaskEnds
  <2>3. \A i \in 1..Len(polls') : polls'[i] # "live"
      BY <2>1, <2>2
  <2> QED
      BY <1>0, <2>2, <2>3
<1> QED
    BY <1>1, <1>2, <1>3, <1>4, <1>5, <1>6, <1>7, <1>8, <1>10, <1>12, <1>13, <1>14, <1>15 DEF Next

\* Nothing but handle_status takes away what a poll has found.
LEMMA StatusNext ==
    Types /\ Newest /\ OneHandler /\ StatusStillTrue /\ [Next]_vars => StatusStillTrue'
<1> SUFFICES ASSUME Types, Newest, OneHandler, StatusStillTrue, [Next]_vars PROVE StatusStillTrue'
    OBVIOUS
<1> USE DEF At, pollerVars, deviceVars
<1> DEFINE Kept == \A i \in 1..Len(queue') : queue'[i].op.kind = "handle" =>
                      \/ \E j \in 1..Len(queue) : queue[j].op = queue'[i].op
                      \/ task.st = "found" /\ queue'[i].op.status = task.status
<1>a. DOMAIN queue = 1..Len(queue) /\ Len(queue) \in Nat
    BY DEF Types
<1>b. DOMAIN queue' = 1..Len(queue')
    BY TypesNext DEF Types
<1>1. ASSUME Found \subseteq Found', Kept,
             task'.st = "found" => task'.status \subseteq Found'
      PROVE  StatusStillTrue'
    BY <1>1, <1>a, <1>b DEF StatusStillTrue
<1>2. ASSUME dev' = dev PROVE Found' = Found
    BY <1>2 DEF Found
<1>3. ASSUME dev' = dev, task' = task \/ task'.st # "found", Kept PROVE StatusStillTrue'
  <2>1. Found' = Found
      BY <1>2, <1>3
  <2> QED
      BY <1>1, <1>3, <2>1 DEF StatusStillTrue
<1>4. queue' = queue => Kept
    OBVIOUS
<1>5. ASSUME NEW c \in Callers, NEW op \in C!Ops, Relayed(c, op),
             op.kind = "handle" => task.st = "found" /\ op.status = task.status
      PROVE  Kept
  <2>1. \/ queue' = queue
        \/ /\ Len(queue') = Len(queue) + 1
           /\ \A i \in 1..Len(queue) : queue'[i] = queue[i]
           /\ queue'[Len(queue) + 1] = Entry(c, op)
      BY <1>5, Sent
  <2>2. Entry(c, op).op = op
      BY DEF Entry
  <2> QED
      BY <1>5, <1>a, <2>1, <2>2
<1>6. ASSUME NEW c \in Callers, Call(c) PROVE StatusStillTrue'
  <2>1. PICK op \in C!Ops : op.kind # "handle" /\ Relayed(c, op)
      BY <1>6 DEF Call, C!Ops
  <2>2. dev' = dev /\ task' = task
      BY <1>6, <2>1 DEF Call, Relayed
  <2>3. Kept
      BY <1>5, <2>1
  <2> QED
      BY <1>3, <2>2, <2>3
<1>7. ASSUME NEW c \in Callers, Abandon(c) PROVE StatusStillTrue'
  <2>1. dev' = dev /\ (task' = task \/ task'.st # "found")
      BY <1>7 DEF Abandon
  <2>2. Kept
      BY <1>7, Muted
  <2> QED
      BY <1>3, <2>1, <2>2
<1>8. ASSUME NEW c \in Callers, Return(c) PROVE StatusStillTrue'
  <2>1. dev' = dev /\ queue' = queue /\ (task' = task \/ task'.st # "found")
      BY <1>8 DEF Return
  <2> QED
      BY <1>3, <1>4, <2>1
<1>9. CASE RunCommand
  <2> DEFINE e == Head(queue)
  <2>1. queue # <<>> /\ queue' = Tail(queue) /\ task' = task
      BY <1>9 DEF RunCommand
  <2>2. e.op.kind # "drop" /\ dev' = C!Apply(e.op, dev)
      BY <1>9 DEF RunCommand
  <2>3. e \in Entries /\ e = queue[1] /\ 1 \in 1..Len(queue)
      BY <2>1, Taken
  <2> HIDE DEF e
  <2>4. e.op \in C!Ops
      BY <2>2, <2>3 DEF Entries
  <2>5. Kept
      BY <2>1, Taken
  <2>6. CASE e.op.kind = "handle"
    <3>1. e.from = Task /\ e.live /\ task.st = "handling"
        BY <2>3, <2>6 DEF OneHandler
    <3>2. \A j \in 1..Len(queue) : j > 1 => ~IsCall(queue[j], Task)
        BY <2>2, <2>3, <3>1 DEF Newest
    <3>3. ASSUME NEW i \in 1..Len(queue') PROVE queue'[i].op.kind # "handle"
      <4>1. i + 1 \in 1..Len(queue) /\ queue'[i] = queue[i + 1]
          BY <2>1, Taken
      <4>2. ~IsCall(queue[i + 1], Task)
          BY <3>2, <4>1
      <4> QED
          BY <4>1, <4>2 DEF OneHandler, IsCall
    <3> QED
        BY <1>b, <2>1, <3>1, <3>3 DEF StatusStillTrue
  <2>7. CASE e.op.kind # "handle"
    <3>1. dev'.events = dev.events /\ dev'.messages = dev.messages
        BY <2>2, <2>4, <2>7 DEF C!Ops, C!Apply, Types
    <3>2. Found' = Found
        BY <3>1 DEF Found
    <3> QED
        BY <1>1, <2>1, <2>5, <3>2 DEF StatusStillTrue
  <2> QED
      BY <2>6, <2>7
<1>10. CASE RunDrop
  <2>1. queue # <<>> /\ queue' = Tail(queue) /\ task' = task /\ dev' = dev
      BY <1>10 DEF RunDrop
  <2>2. Kept
      BY <2>1, Taken
  <2> QED
      BY <1>3, <2>1, <2>2
<1>11. CASE Panic
  <2>1. queue' = <<>> /\ task' = task /\ dev' = dev
      BY <1>11 DEF Panic
  <2> QED
      BY <1>3, <2>1
<1>12. CASE DropDevice
  <2> DEFINE e == Entry(Task, [kind |-> "drop"])
  <2>1. e \in Entries /\ e.op.kind # "handle"
      BY RelayAssumption DEF Entry, Entries, RelayAssumption
  <2> HIDE DEF e
  <2>2. queue' = IF thread = "running" THEN Append(queue, e) ELSE queue
      BY <1>12 DEF DropDevice, e
  <2>3. dev' = dev /\ task' = task
      BY <1>12 DEF DropDevice
  <2>4. Kept
      BY <1>a, <2>1, <2>2 DEF Types
  <2> QED
      BY <1>3, <2>3, <2>4
<1>13. CASE Arrival
  <2>1. queue' = queue /\ task' = task
      BY <1>13 DEF Arrival
  <2>2. dev'.events >= dev.events /\ dev'.messages >= dev.messages
    <3>1. dev \in [val : Values, events : Nat, messages : Nat]
        BY DEF Types
    <3>2. CASE dev' = [dev EXCEPT !.events = @ + 1]
        BY <3>1, <3>2
    <3>3. CASE dev' = [dev EXCEPT !.messages = @ + 1]
        BY <3>1, <3>3
    <3> QED
        BY <1>13, <3>2, <3>3 DEF Arrival
  <2>3. Found \subseteq Found'
      BY <2>2, TypesNext DEF Found, Types
  <2> QED
      BY <1>1, <1>4, <2>1, <2>3 DEF StatusStillTrue
<1>14. CASE RunPoll
  <2>1. queue' = queue /\ dev' = dev
      BY <1>14 DEF RunPoll
  <2>2. Found' = Found
      BY <1>2, <2>1
  <2>3. task' = task \/ task'.st = "loop" \/ task'.status = Found
      BY <1>14 DEF RunPoll
  <2> QED
      BY <1>1, <1>4, <2>1, <2>2, <2>3 DEF StatusStillTrue
<1>15. CASE Handle
  <2>1. [kind |-> "handle", status |-> task.status] \in C!Ops /\ Task \in Callers
      BY <1>15, RelayAssumption DEF Handle, Types, C!Ops, C!Statuses, RelayAssumption
  <2>2. Kept
      BY <1>5, <1>15, <2>1 DEF Handle
  <2>3. dev' = dev /\ task'.st # "found"
      BY <1>15 DEF Handle, Relayed, Types
  <2> QED
      BY <1>3, <2>2, <2>3
<1>16. CASE Join \/ Poll \/ OtherBranch \/ RunPollerDrop \/ Cancelled \/ Destroyed \/ UNCHANGED vars
  <2>1. queue' = queue /\ dev' = dev /\ (task' = task \/ task'.st # "found")
      BY <1>16 DEF Join, Poll, OtherBranch, RunPollerDrop, Cancelled, Destroyed, TaskEnds, vars
  <2> QED
      BY <1>3, <1>4, <2>1
<1> QED
    BY <1>6, <1>7, <1>8, <1>9, <1>10, <1>11, <1>12, <1>13, <1>14, <1>15, <1>16 DEF Next

\* The invariant holds at the start
LEMMA RelayInvInit == Init => RelayInv
<1> SUFFICES ASSUME Init PROVE RelayInv
    OBVIOUS
<1>1. queue = <<>> /\ polls = <<>> /\ Len(queue) = 0 /\ Len(polls) = 0 /\ DOMAIN queue = {}
    BY DEF Init
<1>2. Types
    BY DEF Init, Types, At, C!Idle
<1>3. \A c \in Callers : call[c] # C!Waiting
    BY DEF Init, C!Idle, C!Waiting
<1> QED
    BY <1>1, <1>2, <1>3 DEF Init, RelayInv, Closed, Newest, OneHandler, StatusStillTrue, At

\* and every step keeps it.
LEMMA RelayInvNext == RelayInv /\ [Next]_vars => RelayInv'
    BY TypesNext, ClosedNext, NewestNext, OneHandlerNext, StatusNext DEF RelayInv

\* What a poll found is still there when handle_status asks for it, for any
\* number of callers, commands and polls, and whoever else gives up.
THEOREM FoundStaysThere == Spec => []StatusStillTrue
<1>1. RelayInv => StatusStillTrue
    BY DEF RelayInv
<1> QED
    BY <1>1, RelayInvInit, RelayInvNext, PTL DEF Spec

-----------------------------------------------------------------------------
(* The implementation of Calls.                                            *)

\* The calls that have not taken effect, as Calls sees them.
todoBar == [c \in Callers |-> CallsOf(queue, c)]

\* A step of Relay is a step of Calls, or one that Calls does not see.
LEMMA StepOfCalls ==
    ASSUME RelayInv, RelayInv', [Next]_vars
    PROVE  [C!CallsNext]_(C!callsVars)
<1> USE DEF C!callsVars
<1>0. queue \in Seq(Entries) /\ queue' \in Seq(Entries)
    BY DEF RelayInv, Types
<1>1. ASSUME NEW c \in Callers, NEW op \in C!Ops, Relayed(c, op) PROVE C!CallsNext
  <2>1. Types
      BY DEF RelayInv
  <2>2. CASE thread = "running"
    <3>1. /\ call[c] = C!Idle /\ dev' = dev /\ call' = [call EXCEPT ![c] = C!Waiting]
          /\ queue' = Append(queue, Entry(c, op)) /\ Entry(c, op) \in Entries
        BY <1>1, <2>1, <2>2, Sent
    <3>2. \A d \in Callers : IsCall(Entry(c, op), d) <=> d = c
        BY DEF IsCall, Entry, C!Ops
    <3>3. \A d \in Callers : CallsOf(queue', d) =
                IF d = c THEN Append(CallsOf(queue, c), op) ELSE CallsOf(queue, d)
        BY <1>0, <3>1, <3>2, CallsOfAppend DEF Entry
    <3>4. todoBar' = [todoBar EXCEPT ![c] = Append(@, op)]
        BY <3>3 DEF todoBar
    <3>5. C!Invoke(c, op)
        BY <3>1, <3>4 DEF C!Invoke, todoBar
    <3> QED
        BY <3>5 DEF C!CallsNext
  <2>3. CASE thread # "running"
    <3>1. /\ call[c] = C!Idle /\ dev' = dev /\ queue' = queue
          /\ call' = [call EXCEPT ![c] = C!Answered(C!Failed)]
        BY <1>1, <2>1, <2>3, Sent
    <3>2. C!Refuse(c)
        BY <3>1 DEF C!Refuse
    <3> QED
        BY <3>2 DEF C!CallsNext
  <2> QED
      BY <2>2, <2>3
<1>2. ASSUME NEW c \in Callers, Abandon(c) PROVE C!CallsNext
  <2>1. \A d \in Callers : CallsOf(queue', d) = CallsOf(queue, d)
      BY <1>0, <1>2, CallsOfSame, Muted DEF RelayInv
  <2>2. C!GiveUp(c)
      BY <1>2, <2>1 DEF Abandon, C!GiveUp
  <2> QED
      BY <2>2 DEF C!CallsNext
<1>3. ASSUME NEW c \in Callers, Return(c) PROVE C!CallsNext
  <2>1. C!Return(c)
      BY <1>3 DEF Return, C!Return
  <2> QED
      BY <2>1 DEF C!CallsNext
<1>4. CASE RunCommand
  <2> DEFINE e == Head(queue)
             c == e.from
             rest == CallsOf(queue', c)
  <2>1. /\ queue # <<>> /\ queue' = Tail(queue) /\ e.op.kind # "drop"
        /\ C!CanRun(e.op, dev) /\ dev' = C!Apply(e.op, dev)
        /\ call' = IF e.live THEN [call EXCEPT ![c] = C!Answered(C!Result(e.op, dev))] ELSE call
      BY <1>4 DEF RunCommand, Expects
  <2>2. /\ e \in Entries /\ e = queue[1] /\ 1 \in 1..Len(queue) /\ Len(queue) \in Nat
        /\ Len(queue') = Len(queue) - 1
        /\ \A i \in 1..Len(queue') : i + 1 \in 1..Len(queue) /\ queue'[i] = queue[i + 1]
      BY <2>1, Taken DEF RelayInv
  <2>3. c \in Callers /\ e.op \in C!Ops
      BY <2>1, <2>2 DEF Entries
  <2>4. /\ rest \in Seq(C!Ops)
        /\ \A d \in Callers : CallsOf(queue, d) = IF d = c THEN <<e.op>> \o rest ELSE CallsOf(queue', d)
    <3>1. \A d \in Callers : IsCall(e, d) <=> d = c
        BY <2>1 DEF IsCall
    <3> QED
        BY <1>0, <2>1, <2>3, <3>1, CallsOfTail
  <2>5. rest = <<>> <=> \A i \in 1..Len(queue') : ~IsCall(queue'[i], c)
      BY <1>0, CallsOfEmpty
  <2>6. e.live <=> rest = <<>> /\ call[c] = C!Waiting
    <3>1. ASSUME e.live PROVE rest = <<>> /\ call[c] = C!Waiting
      <4>1. call[c] = C!Waiting /\ \A j \in 1..Len(queue) : j > 1 => ~IsCall(queue[j], c)
          BY <2>1, <2>2, <3>1 DEF RelayInv, Newest
      <4>2. \A i \in 1..Len(queue') : ~IsCall(queue'[i], c)
          BY <2>2, <4>1
      <4> QED
          BY <2>5, <4>1, <4>2
    <3>2. ASSUME ~e.live, call[c] = C!Waiting PROVE rest # <<>>
      <4>1. PICK i \in 1..Len(queue) : IsCall(queue[i], c) /\ queue[i].live
          BY <2>3, <3>2 DEF RelayInv, Newest
      <4>2. i # 1
          BY <2>2, <3>2, <4>1
      <4>3. i - 1 \in 1..Len(queue') /\ queue'[i - 1] = queue[i]
          BY <2>2, <4>2
      <4> QED
          BY <2>5, <4>1, <4>3
    <3> QED
        BY <3>1, <3>2
  <2> DEFINE op == e.op
  <2>7. op \in C!Ops /\ todoBar[c] = <<op>> \o rest
      BY <2>3, <2>4 DEF todoBar
  <2>8. todoBar' = [todoBar EXCEPT ![c] = rest]
      BY <2>3, <2>4 DEF todoBar
  <2> HIDE DEF op, rest, c, e
  <2>9. /\ todoBar[c] # <<>> /\ Head(todoBar[c]) = op /\ Tail(todoBar[c]) = rest
        /\ Len(todoBar[c]) = 1 <=> rest = <<>>
      BY <2>4, <2>7
  <2>10. /\ C!CanRun(Head(todoBar[c]), dev)
         /\ dev' = C!Apply(Head(todoBar[c]), dev)
         /\ todoBar' = [todoBar EXCEPT ![c] = Tail(@)]
      BY <2>1, <2>8, <2>9 DEF op
  <2>11. call' = IF Len(todoBar[c]) = 1 /\ call[c] = C!Waiting
                 THEN [call EXCEPT ![c] = C!Answered(C!Result(Head(todoBar[c]), dev))]
                 ELSE call
      BY <2>1, <2>6, <2>9 DEF op
  <2>12. C!TakeEffect(c)
      BY <2>9, <2>10, <2>11 DEF C!TakeEffect, todoBar
  <2> QED
      BY <2>3, <2>12 DEF C!CallsNext
<1>5. CASE RunDrop
  <2>1. queue # <<>> /\ queue' = Tail(queue) /\ Head(queue).op.kind = "drop" /\ UNCHANGED <<dev, call>>
      BY <1>5 DEF RunDrop
  <2>2. \A d \in Callers : CallsOf(queue', d) = CallsOf(queue, d)
      BY <1>0, <2>1, CallsOfTail DEF IsCall
  <2> QED
      BY <2>1, <2>2
<1>6. CASE Panic
  <2>1. queue' = <<>>
      BY <1>6 DEF Panic
  <2>2. \A d \in Callers : CallsOf(queue', d) = <<>>
      BY <2>1, CallsOfNothing
  <2>3. C!Lose
      BY <1>6, <2>2 DEF Panic, C!Lose
  <2> QED
      BY <2>3 DEF C!CallsNext
<1>7. CASE DropDevice
  <2> DEFINE e == Entry(Task, [kind |-> "drop"])
  <2>1. e \in Entries /\ \A d : ~IsCall(e, d)
      BY RelayAssumption DEF Entry, Entries, RelayAssumption, IsCall
  <2> HIDE DEF e
  <2>2. queue' = (IF thread = "running" THEN Append(queue, e) ELSE queue) /\ UNCHANGED <<dev, call>>
      BY <1>7 DEF DropDevice, e
  <2>3. \A d \in Callers : CallsOf(queue', d) = CallsOf(queue, d)
      BY <1>0, <2>1, <2>2, CallsOfAppend
  <2> QED
      BY <2>2, <2>3
<1>8. CASE Arrival
  <2>1. C!Arrival
      BY <1>8 DEF Arrival, C!Arrival
  <2> QED
      BY <2>1 DEF C!CallsNext
<1>9. CASE Elsewhere /\ ~Arrival
  <2>1. UNCHANGED <<dev, queue, call>>
      BY <1>9 DEF Elsewhere, Join, Poll, OtherBranch, RunPoll, Cancelled, Destroyed, TaskEnds,
                  RunPollerDrop, vars, deviceVars
  <2> QED
      BY <2>1
<1> QED
    BY <1>1, <1>2, <1>3, <1>4, <1>5, <1>6, <1>7, <1>8, <1>9, Steps DEF RelayInv

\* AsyncDevice implements Calls: with a thread, a channel and futures that are
\* dropped, the calls take effect one at a time, each caller's in their order,
\* and an answer is the one to the caller's own last call.
THEOREM AsyncDeviceIsAtomic == Spec => RelaysCalls
<1>1. Init => C!CallsInit
  <2> SUFFICES ASSUME Init PROVE C!CallsInit
      OBVIOUS
  <2>1. queue = <<>>
      BY DEF Init
  <2>2. \A c \in Callers : CallsOf(queue, c) = <<>>
      BY <2>1, CallsOfNothing
  <2> QED
      BY <2>2 DEF Init, C!CallsInit
<1>2. RelayInv /\ RelayInv' /\ [Next]_vars => [C!CallsNext]_(C!callsVars)
    BY StepOfCalls
<1> QED
    BY <1>1, <1>2, RelayInvInit, RelayInvNext, PTL DEF Spec, RelaysCalls, C!CallsSpec
============================================================================
