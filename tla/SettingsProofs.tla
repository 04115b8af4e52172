--------------------------- MODULE SettingsProofs ---------------------------
(***************************************************************************)
(* The conversions of Settings are exact for every name, every text, every *)
(* EDID, every mode and every claim, and none of them panics. A conversion *)
(* that runs along its input is a recursive function: that it is defined   *)
(* for inputs of any length is shown by induction, stated for sets of      *)
(* numbers.                                                                *)
(***************************************************************************)
EXTENDS Settings, SequenceTheorems, WellFoundedInduction, TLAPS

\* Induction, as a fact about sets of numbers.
LEMMA Induction ==
    ASSUME NEW S, 0 \in S, \A n \in Nat : n \in S => n + 1 \in S
    PROVE  Nat \subseteq S
<1> DEFINE Out == Nat \ S
           Less == {p \in Nat \X Nat : p[1] < p[2]}
<1> SUFFICES ASSUME Out # {} PROVE FALSE
  OBVIOUS
<1>1. IsWellFoundedOn(Less, Nat)
  <2>1. OpToRel(<, Nat) = Less
    BY Zenon DEF OpToRel
  <2>2. QED BY <2>1, NatLessThanWellFounded, Zenon
<1> HIDE DEF Less
<1>2. PICK least \in Out : \A y \in Out : <<y, least>> \notin Less
  <2>1. Out \subseteq Nat
    OBVIOUS
  <2> HIDE DEF Out
  <2>2. QED BY <1>1, <2>1, WFMin
<1>3. least \in Nat /\ least - 1 \in Nat
  OBVIOUS
<1>4. <<least - 1, least>> \in Less
  BY <1>3, SMT DEF Less
<1>5. least - 1 \notin Out
  BY <1>2, <1>4, Zenon
<1>6. QED
  BY <1>3, <1>5

\* The running values of a sum, each step of which multiplies by a base.
Running(base, s, f) ==
    /\ f \in [0..Len(s) -> Nat]
    /\ f[0] = 0
    /\ \A n \in 1..Len(s) : f[n] = f[n - 1] * base + s[n]

\* They exist for every sequence of numbers.
LEMMA RunningExists ==
    ASSUME NEW base \in Nat, NEW s \in Seq(Nat)
    PROVE  \E f : Running(base, s, f)
<1> DEFINE Good(k, f) ==
               /\ f \in [0..k -> Nat]
               /\ f[0] = 0
               /\ \A n \in 1..k : f[n] = f[n - 1] * base + s[n]
           K == {k \in Nat : k <= Len(s) => \E f : Good(k, f)}
<1>1. 0 \in K
  <2>1. Good(0, [i \in 0..0 |-> 0])
    OBVIOUS
  <2>2. QED BY <2>1
<1>2. ASSUME NEW k \in Nat, k \in K PROVE k + 1 \in K
  <2> SUFFICES ASSUME k + 1 <= Len(s) PROVE \E f : Good(k + 1, f)
    <3> HIDE DEF Good
    <3>1. QED OBVIOUS
  <2>1. PICK f : Good(k, f)
    BY <1>2
  <2>2. s[k + 1] \in Nat /\ f[k] \in Nat
    BY <2>1
  <2>3. f[k] * base \in Nat
    BY <2>2
  <2> DEFINE next == f[k] * base + s[k + 1]
             g == [i \in 0..k + 1 |-> IF i = k + 1 THEN next ELSE f[i]]
  <2>4. next \in Nat
    BY <2>2, <2>3
  <2>5. g \in [0..k + 1 -> Nat] /\ g[0] = 0
    <3> HIDE DEF next
    <3>1. QED BY <2>1, <2>4
  <2>6. \A n \in 1..k + 1 : g[n] = g[n - 1] * base + s[n]
    <3>1. g[k + 1] = next /\ g[k] = f[k]
      OBVIOUS
    <3>2. \A n \in 1..k : g[n] = f[n] /\ g[n - 1] = f[n - 1]
      OBVIOUS
    <3> HIDE DEF g
    <3>3. \A n \in 1..k : g[n] = g[n - 1] * base + s[n]
      BY <2>1, <3>2
    <3>4. g[k + 1] = g[(k + 1) - 1] * base + s[k + 1]
      BY <3>1
    <3>5. QED BY <3>3, <3>4
  <2>7. QED BY <2>5, <2>6
<1>3. Len(s) \in K
  <2> HIDE DEF K
  <2>1. QED BY <1>1, <1>2, Induction
<1>4. QED
  BY <1>3 DEF Running

\* A function that satisfies the equation of a sum has numbers as values.
LEMMA RunningNat ==
    ASSUME NEW base \in Nat, NEW s \in Seq(Nat), NEW f,
           f = [n \in 0..Len(s) |-> f[n]], f[0] = 0,
           \A n \in 1..Len(s) : f[n] = f[n - 1] * base + s[n]
    PROVE  Running(base, s, f)
<1> DEFINE K == {n \in Nat : n <= Len(s) => f[n] \in Nat}
<1>1. 0 \in K
  OBVIOUS
<1>2. ASSUME NEW n \in Nat, n \in K PROVE n + 1 \in K
  <2> SUFFICES ASSUME n + 1 <= Len(s) PROVE f[n + 1] \in Nat
    OBVIOUS
  <2>1. n + 1 \in 1..Len(s) /\ (n + 1) - 1 = n /\ f[n] \in Nat /\ s[n + 1] \in Nat
    BY <1>2
  <2>2. f[n] * base \in Nat
    BY <2>1
  <2>3. f[n + 1] = f[n] * base + s[n + 1]
    BY <2>1
  <2>4. QED BY <2>1, <2>2, <2>3
<1>3. Nat \subseteq K
  <2> HIDE DEF K
  <2>1. QED BY <1>1, <1>2, Induction
<1>4. \A n \in 0..Len(s) : f[n] \in Nat
  BY <1>3
<1>5. f \in [0..Len(s) -> Nat]
  BY <1>4
<1>6. QED
  BY <1>5 DEF Running

-----------------------------------------------------------------------------
(* The name shown on screen.                                               *)

\* Offsets(name) has the end of every character.
LEMMA OffsetsDefined ==
    ASSUME NEW name \in Seq(Nat)
    PROVE  /\ Offsets(name) \in [0..Len(name) -> Nat]
           /\ Offsets(name)[0] = 0
           /\ \A n \in 1..Len(name) : Offsets(name)[n] = Offsets(name)[n - 1] + name[n]
<1> DEFINE N == Len(name)
           step(g, n) == IF n = 0 THEN 0 ELSE g[n - 1] + name[n]
           Eq(g) == g = [n \in 0..N |-> step(g, n)]
           at == CHOOSE g : Eq(g)
<1>1. N \in Nat
  OBVIOUS
<1>2. Offsets(name) = at
  BY DEF Offsets
<1>3. PICK g : Running(1, name, g)
  BY RunningExists
<1>4. Eq(g)
  <2>1. g = [n \in 0..N |-> g[n]]
    BY <1>3 DEF Running
  <2>2. ASSUME NEW n \in 1..N PROVE g[n] = g[n - 1] + name[n]
    <3>1. n - 1 \in 0..N
      BY <1>1
    <3>2. g[n - 1] \in Nat /\ g[n] = g[n - 1] * 1 + name[n]
      BY <1>3, <3>1 DEF Running
    <3>3. QED BY <3>2
  <2>3. \A n \in 0..N : g[n] = step(g, n)
    BY <1>1, <1>3, <2>2 DEF Running
  <2> HIDE DEF step
  <2>4. QED BY <2>1, <2>3
<1>5. Eq(at)
  <2> HIDE DEF Eq
  <2>1. QED BY <1>4
<1> HIDE DEF at
<1>6. at = [n \in 0..N |-> at[n]] /\ \A n \in 0..N : at[n] = step(at, n)
  <2> HIDE DEF step
  <2>1. QED BY <1>5
<1>7. at[0] = 0
  BY <1>1, <1>6
<1>8. ASSUME NEW n \in 1..N PROVE at[n] = at[n - 1] + name[n]
  <2>1. n \in 0..N /\ n # 0
    BY <1>1
  <2>2. at[n] = step(at, n)
    <3> HIDE DEF step
    <3>1. QED BY <1>6, <2>1
  <2>3. QED BY <2>1, <2>2
<1>9. \A n \in 0..N : at[n] \in Nat
  <2> DEFINE K == {n \in Nat : n <= N => at[n] \in Nat}
  <2>1. 0 \in K
    BY <1>7
  <2>2. ASSUME NEW n \in Nat, n \in K PROVE n + 1 \in K
    <3> SUFFICES ASSUME n + 1 <= N PROVE at[n + 1] \in Nat
      OBVIOUS
    <3>1. n + 1 \in 1..N /\ (n + 1) - 1 = n /\ at[n] \in Nat /\ name[n + 1] \in Nat
      BY <1>1, <2>2
    <3>2. QED BY <1>8, <3>1
  <2>3. Nat \subseteq K
    <3> HIDE DEF K
    <3>1. QED BY <2>1, <2>2, Induction
  <2>4. QED BY <1>1, <2>3
<1>10. at \in [0..N -> Nat]
  BY <1>6, <1>9
<1>11. QED
  BY <1>2, <1>7, <1>8, <1>10

\* The characters up to one are as long as the offset of its end says.
LEMMA PrefixBytes ==
    ASSUME NEW name \in Seq(Nat), NEW k \in 0..Len(name)
    PROVE  Bytes(SubSeq(name, 1, k)) = Offsets(name)[k]
<1> DEFINE pre == SubSeq(name, 1, k)
           at == Offsets(name)
           pa == Offsets(pre)
<1>1. pre \in Seq(Nat) /\ Len(pre) = k /\ \A n \in 1..k : pre[n] = name[n]
  OBVIOUS
<1> HIDE DEF pre
<1>2. /\ at[0] = 0 /\ pa[0] = 0
      /\ \A n \in 1..k : at[n] = at[n - 1] + name[n]
      /\ \A n \in 1..k : pa[n] = pa[n - 1] + name[n]
  <2>1. at[0] = 0 /\ \A n \in 1..Len(name) : at[n] = at[n - 1] + name[n]
    BY OffsetsDefined
  <2>2. pa[0] = 0 /\ \A n \in 1..k : pa[n] = pa[n - 1] + pre[n]
    BY <1>1, OffsetsDefined
  <2> HIDE DEF at, pa
  <2>3. QED BY <1>1, <2>1, <2>2
<1> HIDE DEF at, pa
<1>3. k \in Nat
  OBVIOUS
<1> DEFINE K == {n \in Nat : n <= k => pa[n] = at[n]}
<1>4. 0 \in K
  BY <1>2
<1>5. ASSUME NEW n \in Nat, n \in K PROVE n + 1 \in K
  <2> SUFFICES ASSUME n + 1 <= k PROVE pa[n + 1] = at[n + 1]
    OBVIOUS
  <2>1. n + 1 \in 1..k /\ (n + 1) - 1 = n /\ pa[n] = at[n]
    BY <1>3, <1>5
  <2>2. QED BY <1>2, <2>1
<1>6. k \in K
  <2> HIDE DEF K
  <2>1. QED BY <1>3, <1>4, <1>5, Induction
<1>7. QED
  BY <1>1, <1>3, <1>6 DEF Bytes, pre, at, pa

\* A later character ends later.
LEMMA OffsetsGrow ==
    ASSUME NEW name \in Seq(Nat), NEW m \in 0..Len(name), NEW k \in m..Len(name)
    PROVE  Offsets(name)[m] <= Offsets(name)[k]
<1> DEFINE at == Offsets(name)
           N == Len(name)
<1>1. /\ N \in Nat /\ m \in Nat /\ k \in Nat /\ m <= k /\ k <= N
      /\ at \in [0..N -> Nat] /\ \A n \in 1..N : at[n] = at[n - 1] + name[n] /\ name[n] \in Nat
  BY OffsetsDefined
<1> HIDE DEF at, N
<1> DEFINE K == {n \in Nat : m <= n /\ n <= N => at[m] <= at[n]}
<1>2. 0 \in K
  BY <1>1
<1>3. ASSUME NEW n \in Nat, n \in K PROVE n + 1 \in K
  <2> SUFFICES ASSUME m <= n + 1, n + 1 <= N PROVE at[m] <= at[n + 1]
    OBVIOUS
  <2>1. CASE m = n + 1
    BY <1>1, <2>1
  <2>2. CASE m # n + 1
    <3>1. n + 1 \in 1..N /\ (n + 1) - 1 = n /\ at[m] <= at[n] /\ n \in 0..N /\ m \in 0..N
      BY <1>1, <1>3, <2>2
    <3>2. at[n + 1] = at[n] + name[n + 1] /\ name[n + 1] \in Nat
      BY <1>1, <3>1
    <3>3. at[m] \in Nat /\ at[n] \in Nat
      BY <1>1, <3>1
    <3>4. QED BY <3>1, <3>2, <3>3
  <2>3. QED BY <2>1, <2>2
<1>4. k \in K
  <2> HIDE DEF K
  <2>1. QED BY <1>1, <1>2, <1>3, Induction
<1>5. QED
  BY <1>1, <1>4 DEF at, N

\* A name that is too long has a last character that fits.
LEMMA LastThatFits ==
    ASSUME NEW name \in Seq(1..4), Bytes(name) > 14
    PROVE  \E k \in 0..Len(name) - 1 :
               Offsets(name)[k] \in 11..14 /\ Offsets(name)[k + 1] > 14
<1> DEFINE at == Offsets(name)
           N == Len(name)
<1>1. N \in Nat /\ name \in Seq(Nat) /\ \A n \in 1..N : name[n] \in 1..4
  OBVIOUS
<1>2. /\ at \in [0..N -> Nat] /\ at[0] = 0
      /\ \A n \in 1..N : at[n] = at[n - 1] + name[n]
  BY <1>1, OffsetsDefined
<1>3. at[N] > 14
  BY DEF Bytes
<1> HIDE DEF at, N
<1>4. \E k \in 0..N - 1 : at[k] <= 14 /\ at[k + 1] > 14
  <2> SUFFICES ASSUME \A k \in 0..N - 1 : at[k] <= 14 => ~(at[k + 1] > 14) PROVE FALSE
    OBVIOUS
  <2> DEFINE K == {n \in Nat : n <= N => at[n] <= 14}
  <2>1. 0 \in K
    BY <1>2
  <2>2. ASSUME NEW n \in Nat, n \in K PROVE n + 1 \in K
    <3> SUFFICES ASSUME n + 1 <= N PROVE at[n + 1] <= 14
      OBVIOUS
    <3>1. n \in 0..N - 1 /\ at[n] <= 14
      BY <1>1, <2>2
    <3>2. n + 1 \in 0..N
      BY <1>1, <3>1
    <3>3. at[n + 1] \in Nat
      BY <1>2, <3>2
    <3>4. QED BY <3>1, <3>3
  <2>3. N \in K
    <3> HIDE DEF K
    <3>1. QED BY <1>1, <2>1, <2>2, Induction
  <2>4. N \in 0..N
    BY <1>1
  <2>5. at[N] \in Nat
    BY <1>2, <2>4
  <2>6. QED BY <1>1, <1>3, <2>3, <2>5
<1>5. PICK k \in 0..N - 1 : at[k] <= 14 /\ at[k + 1] > 14
  BY <1>4
<1>6. k \in 0..N /\ k + 1 \in 1..N /\ (k + 1) - 1 = k
  BY <1>1
<1>7. at[k] \in Nat /\ at[k + 1] = at[k] + name[k + 1] /\ name[k + 1] \in 1..4
  BY <1>1, <1>2, <1>6
<1>8. at[k] \in 11..14
  BY <1>5, <1>7
<1>9. QED
  BY <1>5, <1>8 DEF at, N

\* trimmed_osd_name ends where that character does.
LEMMA TrimmedName ==
    ASSUME NEW name \in Seq(1..4)
    PROVE  \E k \in 0..Len(name) :
               /\ TrimmedOsdName(name) = Ok(Offsets(name)[k])
               /\ Offsets(name)[k] \in 0..14
               /\ k < Len(name) => Offsets(name)[k + 1] > 14
<1> DEFINE at == Offsets(name)
           N == Len(name)
<1>1. N \in Nat /\ N \in 0..N /\ name \in Seq(Nat)
  OBVIOUS
<1>2. at \in [0..N -> Nat]
  BY <1>1, OffsetsDefined
<1>3. CASE Bytes(name) <= 14
  <2>1. TrimmedOsdName(name) = Ok(at[N]) /\ at[N] <= 14
    BY <1>3 DEF TrimmedOsdName, Bytes
  <2>2. at[N] \in 0..14
    BY <1>1, <1>2, <2>1, SMTT(30)
  <2>3. QED BY <1>1, <2>1, <2>2
<1>4. CASE ~(Bytes(name) <= 14)
  <2>1. Bytes(name) > 14
    <3>1. Bytes(name) \in Nat
      BY <1>1, <1>2 DEF Bytes
    <3>2. QED BY <1>4, <3>1
  <2>2. PICK k \in 0..N - 1 : at[k] \in 11..14 /\ at[k + 1] > 14
    BY <2>1, LastThatFits
  <2>3. k \in 0..N /\ k + 1 \in 0..N /\ k < N
    BY <1>1
  <2> DEFINE Last(i) == /\ IsCharBoundary(name, i)
                        /\ \A j \in i + 1..14 : ~IsCharBoundary(name, j)
             chosen == CHOOSE i \in 10..14 : Last(i)
  <2>4. ASSUME NEW i \in 10..14, IsCharBoundary(name, i) PROVE i <= at[k]
    <3>1. PICK m \in 0..N : at[m] = i
      BY <2>4 DEF IsCharBoundary
    <3>2. CASE m <= k
      <4>1. k \in m..N
        BY <1>1, <2>3, <3>2
      <4>2. QED BY <1>1, <3>1, <4>1, OffsetsGrow
    <3>3. CASE ~(m <= k)
      <4>1. m \in k + 1..N
        BY <1>1, <2>3, <3>3
      <4>2. at[k + 1] <= at[m]
        BY <1>1, <2>3, <4>1, OffsetsGrow
      <4>3. at[k + 1] \in Nat
        BY <1>2, <2>3
      <4>4. QED BY <2>2, <3>1, <4>2, <4>3
    <3>4. QED BY <3>2, <3>3
  <2>5. at[k] \in 10..14 /\ IsCharBoundary(name, at[k])
    BY <2>2, <2>3 DEF IsCharBoundary
  <2>6. Last(at[k])
    <3>1. ASSUME NEW j \in at[k] + 1..14, IsCharBoundary(name, j) PROVE FALSE
      <4>1. j \in 10..14 /\ j > at[k]
        BY <2>5
      <4>2. j <= at[k]
        BY <2>4, <3>1, <4>1
      <4>3. QED BY <2>5, <4>1, <4>2
    <3>2. QED BY <2>5, <3>1
  <2>7. ASSUME NEW i \in 10..14, Last(i) PROVE i = at[k]
    <3>1. i <= at[k]
      BY <2>4, <2>7
    <3>2. CASE i < at[k]
      <4>1. at[k] \in i + 1..14
        BY <2>5, <3>2
      <4>2. QED BY <2>5, <2>7, <4>1
    <3>3. QED BY <2>5, <3>1, <3>2
  <2>8. chosen = at[k]
    <3> HIDE DEF Last
    <3>1. QED BY <2>5, <2>6, <2>7
  <2>9. TrimmedOsdName(name) = Ok(chosen)
    BY <1>4, <2>5 DEF TrimmedOsdName
  <2>10. at[k] \in 0..14
    BY <2>5
  <2> HIDE DEF chosen
  <2>11. QED BY <2>2, <2>3, <2>8, <2>9, <2>10
<1>5. QED
  BY <1>3, <1>4

-----------------------------------------------------------------------------
(* Digits.                                                                 *)

\* The value of digits is their running value.
LEMMA ValueRuns ==
    ASSUME NEW d \in Seq(Nat)
    PROVE  \E f : Running(16, d, f) /\ Value(d) = f[Len(d)]
<1> DEFINE N == Len(d)
           step(g, n) == IF n = 0 THEN 0 ELSE g[n - 1] * 16 + d[n]
           Eq(g) == g = [n \in 0..N |-> step(g, n)]
           value == CHOOSE g : Eq(g)
<1>1. N \in Nat
  OBVIOUS
<1>2. Value(d) = value[N]
  BY DEF Value
<1>3. PICK g : Running(16, d, g)
  BY RunningExists
<1>4. Eq(g)
  <2>1. g = [n \in 0..N |-> g[n]]
    BY <1>3 DEF Running
  <2>2. \A n \in 0..N : g[n] = step(g, n)
    BY <1>1, <1>3 DEF Running
  <2> HIDE DEF step
  <2>3. QED BY <2>1, <2>2
<1>5. Eq(value)
  <2> HIDE DEF Eq
  <2>1. QED BY <1>4
<1> HIDE DEF value
<1>6. value = [n \in 0..N |-> value[n]] /\ \A n \in 0..N : value[n] = step(value, n)
  <2> HIDE DEF step
  <2>1. QED BY <1>5
<1>7. value[0] = 0
  BY <1>1, <1>6
<1>8. ASSUME NEW n \in 1..N PROVE value[n] = value[n - 1] * 16 + d[n]
  <2>1. n \in 0..N /\ n # 0
    BY <1>1
  <2>2. value[n] = step(value, n)
    <3> HIDE DEF step
    <3>1. QED BY <1>6, <2>1
  <2>3. QED BY <2>1, <2>2
<1>9. Running(16, d, value)
  BY <1>6, <1>7, <1>8, RunningNat
<1>10. QED
  BY <1>2, <1>9

\* The number with four given digits.
Sum(a, b, c, e) == a * 4096 + b * 256 + c * 16 + e

\* One digit.
LEMMA Value1 ==
    ASSUME NEW a \in Nat
    PROVE  Value(<<a>>) = a
<1> DEFINE d == <<a>>
<1>1. d \in Seq(Nat) /\ Len(d) = 1 /\ d[1] = a
  OBVIOUS
<1> HIDE DEF d
<1>2. PICK f : Running(16, d, f) /\ Value(d) = f[Len(d)]
  BY <1>1, ValueRuns
<1>3. f[0] = 0 /\ \A n \in 1..1 : f[n] = f[n - 1] * 16 + d[n]
  BY <1>1, <1>2 DEF Running
<1>4. f[1] = a
  <2>1. 1 \in 1..1 /\ 1 - 1 = 0
    OBVIOUS
  <2>2. f[1] = f[0] * 16 + d[1]
    BY <1>3, <2>1, Zenon
  <2>3. f[1] = (0) * 16 + a
    BY <1>1, <1>3, <2>2, Zenon
  <2>4. QED BY <2>3
<1>5. QED
  BY <1>1, <1>2, <1>4, Zenon DEF d

\* Two digits.
LEMMA Value2 ==
    ASSUME NEW a \in Nat, NEW b \in Nat
    PROVE  Value(<<a, b>>) = a * 16 + b
<1> DEFINE d == <<a, b>>
<1>1. d \in Seq(Nat) /\ Len(d) = 2 /\ d[1] = a /\ d[2] = b
  OBVIOUS
<1> HIDE DEF d
<1>2. PICK f : Running(16, d, f) /\ Value(d) = f[Len(d)]
  BY <1>1, ValueRuns
<1>3. f[0] = 0 /\ \A n \in 1..2 : f[n] = f[n - 1] * 16 + d[n]
  BY <1>1, <1>2 DEF Running
<1>4. f[1] = a
  <2>1. 1 \in 1..2 /\ 1 - 1 = 0
    OBVIOUS
  <2>2. f[1] = f[0] * 16 + d[1]
    BY <1>3, <2>1, Zenon
  <2>3. f[1] = (0) * 16 + a
    BY <1>1, <1>3, <2>2, Zenon
  <2>4. QED BY <2>3
<1>5. f[2] = a * 16 + b
  <2>1. 2 \in 1..2 /\ 2 - 1 = 1
    OBVIOUS
  <2>2. f[2] = f[1] * 16 + d[2]
    BY <1>3, <2>1, Zenon
  <2>3. f[2] = (a) * 16 + b
    BY <1>1, <1>4, <2>2, Zenon
  <2>4. QED BY <2>3
<1>6. QED
  BY <1>1, <1>2, <1>5, Zenon DEF d

\* Three digits.
LEMMA Value3 ==
    ASSUME NEW a \in Nat, NEW b \in Nat, NEW c \in Nat
    PROVE  Value(<<a, b, c>>) = Sum(0, a, b, c)
<1> DEFINE d == <<a, b, c>>
<1>1. d \in Seq(Nat) /\ Len(d) = 3 /\ d[1] = a /\ d[2] = b /\ d[3] = c
  OBVIOUS
<1> HIDE DEF d
<1>2. PICK f : Running(16, d, f) /\ Value(d) = f[Len(d)]
  BY <1>1, ValueRuns
<1>3. f[0] = 0 /\ \A n \in 1..3 : f[n] = f[n - 1] * 16 + d[n]
  BY <1>1, <1>2 DEF Running
<1>4. f[1] = a
  <2>1. 1 \in 1..3 /\ 1 - 1 = 0
    OBVIOUS
  <2>2. f[1] = f[0] * 16 + d[1]
    BY <1>3, <2>1, Zenon
  <2>3. f[1] = (0) * 16 + a
    BY <1>1, <1>3, <2>2, Zenon
  <2>4. QED BY <2>3
<1>5. f[2] = a * 16 + b
  <2>1. 2 \in 1..3 /\ 2 - 1 = 1
    OBVIOUS
  <2>2. f[2] = f[1] * 16 + d[2]
    BY <1>3, <2>1, Zenon
  <2>3. f[2] = (a) * 16 + b
    BY <1>1, <1>4, <2>2, Zenon
  <2>4. QED BY <2>3
<1>6. f[3] = a * 256 + b * 16 + c
  <2>1. 3 \in 1..3 /\ 3 - 1 = 2
    OBVIOUS
  <2>2. f[3] = f[2] * 16 + d[3]
    BY <1>3, <2>1, Zenon
  <2>3. f[3] = (a * 16 + b) * 16 + c
    BY <1>1, <1>5, <2>2, Zenon
  <2>4. QED BY <2>3
<1>7. Value(d) = f[3]
  BY <1>1, <1>2, Zenon
<1>8. Sum(0, a, b, c) = a * 256 + b * 16 + c
  BY DEF Sum
<1>9. QED
  BY <1>6, <1>7, <1>8 DEF d

\* Four digits.
LEMMA Value4 ==
    ASSUME NEW a \in Nat, NEW b \in Nat, NEW c \in Nat, NEW e \in Nat
    PROVE  Value(<<a, b, c, e>>) = Sum(a, b, c, e)
<1> DEFINE d == <<a, b, c, e>>
<1>1. d \in Seq(Nat) /\ Len(d) = 4 /\ d[1] = a /\ d[2] = b /\ d[3] = c /\ d[4] = e
  OBVIOUS
<1> HIDE DEF d
<1>2. PICK f : Running(16, d, f) /\ Value(d) = f[Len(d)]
  BY <1>1, ValueRuns
<1>3. f[0] = 0 /\ \A n \in 1..4 : f[n] = f[n - 1] * 16 + d[n]
  BY <1>1, <1>2 DEF Running
<1>4. f[1] = a
  <2>1. 1 \in 1..4 /\ 1 - 1 = 0
    OBVIOUS
  <2>2. f[1] = f[0] * 16 + d[1]
    BY <1>3, <2>1, Zenon
  <2>3. f[1] = (0) * 16 + a
    BY <1>1, <1>3, <2>2, Zenon
  <2>4. QED BY <2>3
<1>5. f[2] = a * 16 + b
  <2>1. 2 \in 1..4 /\ 2 - 1 = 1
    OBVIOUS
  <2>2. f[2] = f[1] * 16 + d[2]
    BY <1>3, <2>1, Zenon
  <2>3. f[2] = (a) * 16 + b
    BY <1>1, <1>4, <2>2, Zenon
  <2>4. QED BY <2>3
<1>6. f[3] = a * 256 + b * 16 + c
  <2>1. 3 \in 1..4 /\ 3 - 1 = 2
    OBVIOUS
  <2>2. f[3] = f[2] * 16 + d[3]
    BY <1>3, <2>1, Zenon
  <2>3. f[3] = (a * 16 + b) * 16 + c
    BY <1>1, <1>5, <2>2, Zenon
  <2>4. QED BY <2>3
<1>7. f[4] = a * 4096 + b * 256 + c * 16 + e
  <2>1. 4 \in 1..4 /\ 4 - 1 = 3
    OBVIOUS
  <2>2. f[4] = f[3] * 16 + d[4]
    BY <1>3, <2>1, Zenon
  <2>3. f[4] = (a * 256 + b * 16 + c) * 16 + e
    BY <1>1, <1>6, <2>2, Zenon
  <2>4. QED BY <2>3
<1>8. QED
  <2>1. Value(d) = f[4]
    BY <1>1, <1>2, Zenon
  <2>2. QED BY <1>7, <2>1 DEF d, Sum

\* from_str_radix on one, two and four characters.
LEMMA OneDigit ==
    ASSUME NEW c \in Nat
    PROVE  FromStrRadix(<<c>>) = IF c \in HexDigits THEN Ok(c) ELSE Err
<1> DEFINE t == <<c>>
<1>1. t[1] = c /\ DOMAIN t = {1} /\ t # <<>>
  OBVIOUS
<1>2. Digits(t) = t
  BY DEF Digits
<1>3. Value(t) = c
  BY Value1
<1> HIDE DEF t
<1>4. FromStrRadix(t) = IF c \in HexDigits THEN Ok(c) ELSE Err
  BY <1>1, <1>2, <1>3, Zenon DEF FromStrRadix
<1>5. QED
  BY <1>4 DEF t

\* Two characters, the first of which may be a sign.
LEMMA TwoDigits ==
    ASSUME NEW c \in Nat, NEW e \in Nat
    PROVE  /\ c # Plus => FromStrRadix(<<c, e>>) =
                             IF c \in HexDigits /\ e \in HexDigits THEN Ok(c * 16 + e) ELSE Err
           /\ c = Plus => FromStrRadix(<<c, e>>) = IF e \in HexDigits THEN Ok(e) ELSE Err
<1> DEFINE t == <<c, e>>
<1>1. t[1] = c /\ t[2] = e /\ t # <<>> /\ Head(t) = c /\ DOMAIN t = {1, 2} /\ Len(t) > 1
  OBVIOUS
<1>2. Tail(t) = <<e>>
  OBVIOUS
<1>3. Value(t) = c * 16 + e
  BY Value2
<1> HIDE DEF t
<1>4. CASE c # Plus
  <2>1. Digits(t) = t
    BY <1>1, <1>4, Zenon DEF Digits
  <2>2. FromStrRadix(t) = IF c \in HexDigits /\ e \in HexDigits THEN Ok(c * 16 + e) ELSE Err
    BY <1>1, <1>3, <2>1, Zenon DEF FromStrRadix
  <2>3. QED BY <1>4, <2>2 DEF t
<1>5. CASE c = Plus
  <2>1. Digits(t) = <<e>>
    BY <1>1, <1>2, <1>5, Zenon DEF Digits
  <2>2. Digits(<<e>>) = <<e>>
    BY DEF Digits
  <2>3. FromStrRadix(t) = FromStrRadix(<<e>>)
    BY <2>1, <2>2, Zenon DEF FromStrRadix
  <2>4. QED BY <1>5, <2>3, OneDigit DEF t
<1>6. QED
  BY <1>4, <1>5

\* Four characters, the first of which may be a sign.
LEMMA FourDigits ==
    ASSUME NEW a \in Nat, NEW b \in Nat, NEW c \in Nat, NEW e \in Nat
    PROVE  /\ a # Plus => FromStrRadix(<<a, b, c, e>>) =
                 IF a \in HexDigits /\ b \in HexDigits /\ c \in HexDigits /\ e \in HexDigits
                 THEN Ok(Sum(a, b, c, e)) ELSE Err
           /\ a = Plus => FromStrRadix(<<a, b, c, e>>) =
                 IF b \in HexDigits /\ c \in HexDigits /\ e \in HexDigits
                 THEN Ok(Sum(0, b, c, e)) ELSE Err
<1> DEFINE t == <<a, b, c, e>>
           d == <<b, c, e>>
<1>1. /\ t[1] = a /\ t[2] = b /\ t[3] = c /\ t[4] = e
      /\ t # <<>> /\ Head(t) = a /\ DOMAIN t = {1, 2, 3, 4} /\ Len(t) > 1
  OBVIOUS
<1>2. Tail(t) = d
  OBVIOUS
<1>3. d[1] = b /\ d[2] = c /\ d[3] = e /\ d # <<>> /\ DOMAIN d = {1, 2, 3}
  OBVIOUS
<1>4. Value(t) = Sum(a, b, c, e)
  BY Value4
<1>5. Value(d) = Sum(0, b, c, e)
  BY Value3
<1> HIDE DEF t, d
<1>6. CASE a # Plus
  <2>1. Digits(t) = t
    BY <1>1, <1>6, Zenon DEF Digits
  <2>2. FromStrRadix(t) =
            IF a \in HexDigits /\ b \in HexDigits /\ c \in HexDigits /\ e \in HexDigits
            THEN Ok(Sum(a, b, c, e)) ELSE Err
    <3> DEFINE hex == a \in HexDigits /\ b \in HexDigits /\ c \in HexDigits /\ e \in HexDigits
    <3>1. (\A i \in DOMAIN t : t[i] \in HexDigits) <=> hex
      BY <1>1
    <3>2. t # <<>>
      BY <1>1
    <3> HIDE DEF hex
    <3>3. FromStrRadix(t) = IF hex THEN Ok(Value(t)) ELSE Err
      BY <2>1, <3>1, <3>2 DEF FromStrRadix
    <3>4. QED BY <1>4, <3>3 DEF hex
  <2>3. QED BY <1>6, <2>2 DEF t
<1>7. CASE a = Plus
  <2>1. Digits(t) = d
    BY <1>1, <1>2, <1>7, Zenon DEF Digits
  <2>2. FromStrRadix(t) = IF b \in HexDigits /\ c \in HexDigits /\ e \in HexDigits
                          THEN Ok(Sum(0, b, c, e)) ELSE Err
    BY <1>3, <1>5, <2>1, Zenon DEF FromStrRadix
  <2>3. QED BY <1>7, <2>2 DEF t
<1>8. QED
  BY <1>6, <1>7
-----------------------------------------------------------------------------
(* Addresses as text.                                                      *)

\* A result is a value or an error, never both.
LEMMA OkIsNoError == \A v : Ok(v) # Err /\ Ok(v).val = v
<1>1. \A v : Ok(v).is = "ok" /\ Ok(v).val = v
  BY DEF Ok
<1>2. Err.is = "error"
  BY DEF Err
<1>3. QED
  <2>1. "ok" # "error"
    OBVIOUS
  <2>2. QED BY <1>1, <1>2, <2>1, Zenon

\* A text is a function from the places of its characters.
LEMMA Characters ==
    ASSUME NEW t \in Seq(Nat)
    PROVE  t \in [1..Len(t) -> Nat] /\ Len(t) \in Nat
  OBVIOUS

\* A text of four characters.
LEMMA Four ==
    ASSUME NEW t \in Seq(Nat), Len(t) = 4
    PROVE  t = <<t[1], t[2], t[3], t[4]>> /\ \A i \in 1..4 : t[i] \in Nat
<1>1. t \in [1..4 -> Nat]
  BY Characters
<1>2. QED
  BY ONLY <1>1

\* A text of six characters.
LEMMA Six ==
    ASSUME NEW t \in Seq(Nat), Len(t) = 6
    PROVE  t = <<t[1], t[2], t[3], t[4], t[5], t[6]>> /\ \A i \in 1..6 : t[i] \in Nat
<1>1. t \in [1..6 -> Nat]
  BY Characters
<1>2. QED
  BY ONLY <1>1

\* A text of seven characters.
LEMMA Seven ==
    ASSUME NEW t \in Seq(Nat), Len(t) = 7
    PROVE  t = <<t[1], t[2], t[3], t[4], t[5], t[6], t[7]>> /\ \A i \in 1..7 : t[i] \in Nat
<1>1. t \in [1..7 -> Nat]
  BY Characters
<1>2. QED
  BY ONLY <1>1

\* Every address has digits.
LEMMA DigitsExist ==
    ASSUME NEW v \in U16
    PROVE  \E a, b, c, e \in HexDigits : v = Sum(a, b, c, e)
<1> DEFINE a == v \div 4096
           b == (v % 4096) \div 256
           c == ((v % 4096) % 256) \div 16
           e == ((v % 4096) % 256) % 16
<1>1. v = Sum(a, b, c, e)
  BY DEF Sum, U16
<1>2. a \in HexDigits
  BY DEF U16, HexDigits
<1>3. b \in HexDigits /\ (v % 4096) % 256 \in 0..255
  <2> DEFINE n == v % 4096
  <2>1. n \in 0..4095
    BY DEF U16
  <2> HIDE DEF n
  <2>2. n \div 256 \in HexDigits
    BY ONLY <2>1 DEF HexDigits
  <2>3. n % 256 \in 0..255
    BY ONLY <2>1
  <2>4. QED BY ONLY <2>2, <2>3 DEF n
<1>4. c \in HexDigits /\ e \in HexDigits
  <2> DEFINE n == (v % 4096) % 256
  <2>1. n \in 0..255
    BY <1>3
  <2> HIDE DEF n
  <2>2. n \div 16 \in HexDigits
    BY ONLY <2>1 DEF HexDigits
  <2>3. n % 16 \in HexDigits
    BY ONLY <2>1 DEF HexDigits
  <2>4. QED BY ONLY <2>2, <2>3 DEF n
<1> HIDE DEF a, b, c, e
<1>5. b \in HexDigits
  BY ONLY <1>3
<1>6. QED
  BY <1>1, <1>2, <1>4, <1>5, Zenon

\* Four digits make 16 bits.
LEMMA SumRange ==
    ASSUME NEW a \in HexDigits, NEW b \in HexDigits, NEW c \in HexDigits, NEW e \in HexDigits
    PROVE  Sum(a, b, c, e) \in U16
<1> DEFINE bce == b * 256 + c * 16 + e
           v == Sum(a, b, c, e)
<1>1. bce \in 0..4095
  BY DEF HexDigits
<1>2. v = a * 4096 + bce
  BY DEF Sum, HexDigits
<1> HIDE DEF bce, v
<1>3. v \in U16
  BY ONLY <1>1, <1>2, a \in HexDigits, SMTT(40) DEF U16, HexDigits
<1>4. QED
  BY <1>3 DEF v

\* What is written for the number with given digits.
LEMMA DigitsUnique ==
    ASSUME NEW a \in HexDigits, NEW b \in HexDigits, NEW c \in HexDigits, NEW e \in HexDigits
    PROVE  /\ Hex(Sum(a, b, c, e)) = <<a, b, c, e>>
           /\ ShowAddress(Sum(a, b, c, e)) = <<a, Dot, b, Dot, c, Dot, e>>
<1> DEFINE v == Sum(a, b, c, e)
           ab == a * 16 + b
           abc == ab * 16 + c
           bce == b * 256 + c * 16 + e
           ce == c * 16 + e
<1>1. /\ bce \in 0..4095
      /\ ce \in 0..255
      /\ ab \in 0..255
  BY DEF HexDigits
<1>2. abc \in 0..4095
  BY DEF HexDigits
<1>3. v = a * 4096 + bce
  BY DEF Sum, HexDigits
<1>4. v = ab * 256 + ce
  BY DEF Sum, HexDigits
<1>5. v = abc * 16 + e
  BY DEF Sum, HexDigits
<1>6. ab % 16 = b
  BY DEF HexDigits
<1>7. abc % 16 = c
  <2> HIDE DEF ab
  <2>1. QED BY ONLY <1>1, c \in HexDigits DEF HexDigits
<1> HIDE DEF v, ab, abc, bce, ce
<1>8. v \div 4096 = a
  BY ONLY <1>1, <1>3, a \in HexDigits DEF HexDigits
<1>9. v \div 256 = ab
  BY ONLY <1>1, <1>4
<1>10. v \div 16 = abc
  BY ONLY <1>2, <1>5, e \in HexDigits DEF HexDigits
<1>11. v % 16 = e
  BY ONLY <1>2, <1>5, e \in HexDigits DEF HexDigits
<1>12. Hex(v) = <<a, b, c, e>>
  <2>1. Hex(v) = <<v \div 4096, (v \div 256) % 16, (v \div 16) % 16, v % 16>>
    BY ONLY TRUE DEF Hex
  <2>2. QED BY ONLY <1>6, <1>7, <1>8, <1>9, <1>10, <1>11, <2>1
<1>13. ShowAddress(v) = <<a, Dot, b, Dot, c, Dot, e>>
  <2>1. ShowAddress(v) = <<v \div 4096, Dot, (v \div 256) % 16, Dot, (v \div 16) % 16, Dot, v % 16>>
    BY ONLY TRUE DEF ShowAddress
  <2>2. QED BY ONLY <1>6, <1>7, <1>8, <1>9, <1>10, <1>11, <2>1
<1>14. QED
  BY <1>12, <1>13, Zenon DEF v

\* The spellings of an address, by its digits.
LEMMA SpellingsOf ==
    ASSUME NEW a \in HexDigits, NEW b \in HexDigits, NEW c \in HexDigits, NEW e \in HexDigits, NEW t
    PROVE  t \in Spellings(Sum(a, b, c, e)) <=>
             \/ t = <<a, Dot, b, Dot, c, Dot, e>>
             \/ t = <<a, b, c, e>>
             \/ t = <<0, Ex, a, b, c, e>>
             \/ a = 0 /\ t = <<Plus, b, c, e>>
             \/ a = 0 /\ t = <<0, Ex, Plus, b, c, e>>
<1> DEFINE v == Sum(a, b, c, e)
           h == <<a, b, c, e>>
<1>1. Hex(v) = h /\ ShowAddress(v) = <<a, Dot, b, Dot, c, Dot, e>>
  <2>1. \A p, q, r, s \in HexDigits : /\ Hex(Sum(p, q, r, s)) = <<p, q, r, s>>
                                     /\ ShowAddress(Sum(p, q, r, s)) = <<p, Dot, q, Dot, r, Dot, s>>
    BY DigitsUnique, Zenon
  <2>2. QED BY <2>1, SMTT(30)
<1>2. h[1] = a /\ h[2] = b /\ h[3] = c /\ h[4] = e
  OBVIOUS
<1> HIDE DEF v, h
<1>3. Spellings(v) = {ShowAddress(v), Hex(v), <<0, Ex, Hex(v)[1], Hex(v)[2], Hex(v)[3], Hex(v)[4]>>}
                     \cup IF Hex(v)[1] = 0 THEN {<<Plus, Hex(v)[2], Hex(v)[3], Hex(v)[4]>>,
                                        <<0, Ex, Plus, Hex(v)[2], Hex(v)[3], Hex(v)[4]>>} ELSE {}
  BY DEF Spellings
<1>4. Spellings(v) = {<<a, Dot, b, Dot, c, Dot, e>>, h, <<0, Ex, a, b, c, e>>}
                     \cup IF a = 0 THEN {<<Plus, b, c, e>>, <<0, Ex, Plus, b, c, e>>} ELSE {}
  <2>1. CASE a = 0
    BY <1>1, <1>2, <1>3, <2>1, Zenon
  <2>2. CASE a # 0
    BY <1>1, <1>2, <1>3, <2>2, Zenon
  <2>3. QED BY <2>1, <2>2
<1>5. CASE a = 0
  BY <1>4, <1>5, Zenon DEF h, v
<1>6. CASE a # 0
  BY <1>4, <1>6, Zenon DEF h, v
<1>7. QED
  BY <1>5, <1>6

\* FromStr for the lengths it tells apart.
LEMMA AddressOfFour ==
    ASSUME NEW t, Len(t) = 4
    PROVE  AddressFromStr(t) = FromStrRadix(t)
<1>1. Len(t) # 6 /\ ~Dotted(t)
  BY DEF Dotted
<1>2. QED
  BY <1>1 DEF AddressFromStr

\* 0x in front of four characters is skipped.
LEMMA AddressOfSix ==
    ASSUME NEW t \in Seq(Nat), Len(t) = 6, t[1] = 0, t[2] = Ex
    PROVE  AddressFromStr(t) = FromStrRadix(<<t[3], t[4], t[5], t[6]>>)
<1> DEFINE s == SubSeq(t, 3, 6)
<1>1. s \in Seq(Nat) /\ Len(s) = 4
  <2> DEFINE m == 3
             n == 6
  <2>1. m \in Int /\ n \in Int /\ n - m + 1 = 4 /\ m <= n
    OBVIOUS
  <2>2. \A i \in m..n : t[i] \in Nat
    BY Six, SMTT(30)
  <2> HIDE DEF m, n
  <2>3. SubSeq(t, m, n) \in Seq(Nat) /\ Len(SubSeq(t, m, n)) = IF m <= n THEN n - m + 1 ELSE 0
    BY <2>1, <2>2, SubSeqProperties, Zenon
  <2>4. SubSeq(t, m, n) \in Seq(Nat) /\ Len(SubSeq(t, m, n)) = 4
    BY <2>1, <2>3
  <2>5. QED BY <2>4 DEF m, n
<1>2. s[1] = t[3] /\ s[2] = t[4] /\ s[3] = t[5] /\ s[4] = t[6]
  OBVIOUS
<1> HIDE DEF s
<1>3. s = <<t[3], t[4], t[5], t[6]>>
  BY <1>1, <1>2, Four, Zenon
<1>4. ~Dotted(t)
  BY DEF Dotted
<1>5. AddressFromStr(t) = IF Len(s) = 4 /\ FromStrRadix(s) # Err THEN FromStrRadix(s) ELSE Err
  BY <1>4 DEF AddressFromStr, s
<1>6. QED
  BY <1>1, <1>3, <1>5, Zenon

\* Seven characters are read with dots between four digits.
LEMMA DottedDigits ==
    ASSUME NEW t \in Seq(Nat), Len(t) = 7
    PROVE  /\ Dotted(t) <=> /\ t[2] = Dot /\ t[4] = Dot /\ t[6] = Dot
                            /\ t[1] \in HexDigits /\ t[3] \in HexDigits
                            /\ t[5] \in HexDigits /\ t[7] \in HexDigits
           /\ AddressFromStr(t) = IF Dotted(t) THEN Ok(Sum(t[1], t[3], t[5], t[7])) ELSE Err
<1>1. t[1] \in Nat /\ t[3] \in Nat /\ t[5] \in Nat /\ t[7] \in Nat
  BY Seven
<1> DEFINE Digit(i) == t[2 * i - 1]
<1>2. Digit(1) = t[1] /\ Digit(2) = t[3] /\ Digit(3) = t[5] /\ Digit(4) = t[7]
  OBVIOUS
<1>3. \A i \in 1..4 : Place(t, i) = FromStrRadix(<<Digit(i)>>)
  BY Zenon DEF Place
<1> HIDE DEF Digit
<1>4. \A i \in 1..4 : i = 1 \/ i = 2 \/ i = 3 \/ i = 4
  OBVIOUS
<1>5. \A i \in 1..4 : Digit(i) \in Nat
  BY <1>1, <1>2, <1>4, Zenon
<1>6. \A i \in 1..4 : Place(t, i) = IF Digit(i) \in HexDigits THEN Ok(Digit(i)) ELSE Err
  BY <1>3, <1>5, OneDigit, Zenon
<1>7. (\A i \in 1..4 : Place(t, i) # Err) <=> \A i \in 1..4 : Digit(i) \in HexDigits
  BY <1>6, OkIsNoError, Zenon
<1>8. (\A i \in 1..4 : Digit(i) \in HexDigits)
        <=> t[1] \in HexDigits /\ t[3] \in HexDigits /\ t[5] \in HexDigits /\ t[7] \in HexDigits
  BY <1>2, <1>4
<1>9. Dot \notin HexDigits
  BY DEF Dot, HexDigits
<1>10. ASSUME t[1] \in HexDigits, t[3] \in HexDigits, t[5] \in HexDigits, t[7] \in HexDigits
       PROVE  {i \in 1..7 : t[i] = Dot} = {2, 4, 6} <=> t[2] = Dot /\ t[4] = Dot /\ t[6] = Dot
  <2>1. t[1] # Dot /\ t[3] # Dot /\ t[5] # Dot /\ t[7] # Dot
    BY <1>9, <1>10, Zenon
  <2>2. QED BY ONLY <2>1
<1>11. Dotted(t) <=> /\ t[2] = Dot /\ t[4] = Dot /\ t[6] = Dot
                     /\ t[1] \in HexDigits /\ t[3] \in HexDigits
                     /\ t[5] \in HexDigits /\ t[7] \in HexDigits
  BY <1>7, <1>8, <1>10 DEF Dotted
<1>12. Len(t) # 4 /\ Len(t) # 6
  OBVIOUS
<1>13. AddressFromStr(t) = IF Dotted(t)
                           THEN Ok(Sum(Place(t, 1).val, Place(t, 2).val, Place(t, 3).val, Place(t, 4).val))
                           ELSE Err
  BY <1>12, ZenonT(60) DEF AddressFromStr, Sum
<1>14. ASSUME Dotted(t)
       PROVE  Place(t, 1).val = t[1] /\ Place(t, 2).val = t[3] /\ Place(t, 3).val = t[5] /\ Place(t, 4).val = t[7]
  <2>1. 1 \in 1..4 /\ 2 \in 1..4 /\ 3 \in 1..4 /\ 4 \in 1..4
    OBVIOUS
  <2>2. \A i \in 1..4 : Digit(i) \in HexDigits
    BY <1>8, <1>11, <1>14, Zenon
  <2>3. \A i \in 1..4 : Place(t, i).val = Digit(i)
    BY <1>6, <2>2, OkIsNoError, Zenon
  <2>4. QED BY <1>2, <2>1, <2>3, Zenon
<1>15. QED
  BY <1>11, <1>13, <1>14, Zenon

\* Four characters are digits, the first of which may be a sign in place of 0.
LEMMA RadixSpelt ==
    ASSUME NEW a \in Nat, NEW b \in Nat, NEW c \in Nat, NEW e \in Nat,
           FromStrRadix(<<a, b, c, e>>) # Err
    PROVE  /\ b \in HexDigits /\ c \in HexDigits /\ e \in HexDigits
           /\ \E d \in HexDigits : /\ FromStrRadix(<<a, b, c, e>>) = Ok(Sum(d, b, c, e))
                                   /\ a = d \/ (a = Plus /\ d = 0)
<1>1. 0 \in HexDigits
  BY DEF HexDigits
<1>2. CASE a # Plus
  <2>1. FromStrRadix(<<a, b, c, e>>) =
            IF a \in HexDigits /\ b \in HexDigits /\ c \in HexDigits /\ e \in HexDigits
            THEN Ok(Sum(a, b, c, e)) ELSE Err
    BY <1>2, FourDigits
  <2>2. QED BY <2>1, Zenon
<1>3. CASE a = Plus
  <2>1. FromStrRadix(<<a, b, c, e>>) =
            IF b \in HexDigits /\ c \in HexDigits /\ e \in HexDigits
            THEN Ok(Sum(0, b, c, e)) ELSE Err
    BY <1>3, FourDigits
  <2>2. QED BY <1>1, <1>3, <2>1, Zenon
<1>4. QED
  BY <1>2, <1>3

\* Four digits are read.
LEMMA RadixReads ==
    ASSUME NEW a \in HexDigits, NEW b \in HexDigits, NEW c \in HexDigits, NEW e \in HexDigits
    PROVE  FromStrRadix(<<a, b, c, e>>) = Ok(Sum(a, b, c, e))
<1>1. a \in Nat /\ b \in Nat /\ c \in Nat /\ e \in Nat /\ a # Plus
  BY DEF HexDigits, Plus
<1>2. FromStrRadix(<<a, b, c, e>>) =
            IF a \in HexDigits /\ b \in HexDigits /\ c \in HexDigits /\ e \in HexDigits
            THEN Ok(Sum(a, b, c, e)) ELSE Err
  BY <1>1, FourDigits
<1>3. QED
  BY <1>2, Zenon

\* So is a sign before three of them.
LEMMA RadixReadsSign ==
    ASSUME NEW b \in HexDigits, NEW c \in HexDigits, NEW e \in HexDigits
    PROVE  FromStrRadix(<<Plus, b, c, e>>) = Ok(Sum(0, b, c, e))
<1>1. b \in Nat /\ c \in Nat /\ e \in Nat /\ Plus \in Nat
  BY DEF HexDigits, Plus
<1>2. FromStrRadix(<<Plus, b, c, e>>) =
            IF b \in HexDigits /\ c \in HexDigits /\ e \in HexDigits
            THEN Ok(Sum(0, b, c, e)) ELSE Err
  BY <1>1, FourDigits
<1>3. QED
  BY <1>2, Zenon

\* What is read is a spelling of the address it is read as.
LEMMA AddressRead ==
    ASSUME NEW t \in Seq(Nat), AddressFromStr(t) # Err
    PROVE  \E v \in U16 : AddressFromStr(t) = Ok(v) /\ t \in Spellings(v)
<1> DEFINE Reads(v) == AddressFromStr(t) = Ok(v) /\ t \in Spellings(v)
<1>1. CASE Len(t) = 4
  <2>1. PICK a \in Nat, b \in Nat, c \in Nat, e \in Nat : t = <<a, b, c, e>>
    <3>1. 1 \in 1..4 /\ 2 \in 1..4 /\ 3 \in 1..4 /\ 4 \in 1..4
      OBVIOUS
    <3>2. t = <<t[1], t[2], t[3], t[4]>> /\ \A i \in 1..4 : t[i] \in Nat
      BY <1>1, Four
    <3>3. t[1] \in Nat /\ t[2] \in Nat /\ t[3] \in Nat /\ t[4] \in Nat
      BY <3>1, <3>2
    <3>4. QED BY <3>2, <3>3, Zenon
  <2>2. AddressFromStr(t) = FromStrRadix(<<a, b, c, e>>)
    BY <1>1, <2>1, AddressOfFour, Zenon
  <2>3. FromStrRadix(<<a, b, c, e>>) # Err
    BY <2>2
  <2>4. PICK d \in HexDigits : /\ FromStrRadix(<<a, b, c, e>>) = Ok(Sum(d, b, c, e))
                               /\ a = d \/ (a = Plus /\ d = 0)
    BY <2>2, <2>3, RadixSpelt
  <2>5. b \in HexDigits /\ c \in HexDigits /\ e \in HexDigits
    BY <2>2, <2>3, RadixSpelt
  <2>6. t \in Spellings(Sum(d, b, c, e))
    BY <2>1, <2>4, <2>5, SpellingsOf, Zenon
  <2>7. QED BY <2>2, <2>4, <2>5, <2>6, SumRange, Zenon
<1>2. CASE Len(t) = 6 /\ t[1] = 0 /\ t[2] = Ex
  <2>1. PICK a \in Nat, b \in Nat, c \in Nat, e \in Nat :
            t = <<0, Ex, a, b, c, e>> /\ a = t[3] /\ b = t[4] /\ c = t[5] /\ e = t[6]
    <3>1. 3 \in 1..6 /\ 4 \in 1..6 /\ 5 \in 1..6 /\ 6 \in 1..6
      OBVIOUS
    <3>2. t = <<t[1], t[2], t[3], t[4], t[5], t[6]>> /\ \A i \in 1..6 : t[i] \in Nat
      BY <1>2, Six
    <3>3. t[3] \in Nat /\ t[4] \in Nat /\ t[5] \in Nat /\ t[6] \in Nat
      BY <3>1, <3>2
    <3>4. t = <<0, Ex, t[3], t[4], t[5], t[6]>>
      BY <1>2, <3>2, Zenon
    <3>5. QED BY <3>3, <3>4, Zenon
  <2>2. AddressFromStr(t) = FromStrRadix(<<a, b, c, e>>)
    BY <1>2, <2>1, AddressOfSix, Zenon
  <2>3. FromStrRadix(<<a, b, c, e>>) # Err
    BY <2>2
  <2>4. PICK d \in HexDigits : /\ FromStrRadix(<<a, b, c, e>>) = Ok(Sum(d, b, c, e))
                               /\ a = d \/ (a = Plus /\ d = 0)
    BY <2>2, <2>3, RadixSpelt
  <2>5. b \in HexDigits /\ c \in HexDigits /\ e \in HexDigits
    BY <2>2, <2>3, RadixSpelt
  <2>6. t \in Spellings(Sum(d, b, c, e))
    BY <2>1, <2>4, <2>5, SpellingsOf, Zenon
  <2>7. QED BY <2>2, <2>4, <2>5, <2>6, SumRange, Zenon
<1>3. CASE Len(t) = 7
  <2>1. Dotted(t) /\ AddressFromStr(t) = Ok(Sum(t[1], t[3], t[5], t[7]))
    BY <1>3, DottedDigits
  <2>2. /\ t[2] = Dot /\ t[4] = Dot /\ t[6] = Dot
        /\ t[1] \in HexDigits /\ t[3] \in HexDigits /\ t[5] \in HexDigits /\ t[7] \in HexDigits
    BY <1>3, <2>1, DottedDigits
  <2>3. t = <<t[1], Dot, t[3], Dot, t[5], Dot, t[7]>>
    BY <1>3, <2>2, Seven, Zenon
  <2>4. t \in Spellings(Sum(t[1], t[3], t[5], t[7]))
    BY <2>2, <2>3, SpellingsOf, Zenon
  <2>5. QED BY <2>1, <2>2, <2>4, SumRange, Zenon
<1>4. CASE Len(t) # 4 /\ Len(t) # 7 /\ ~(Len(t) = 6 /\ t[1] = 0 /\ t[2] = Ex)
  <2>1. ~Dotted(t)
    BY <1>4 DEF Dotted
  <2>2. AddressFromStr(t) = Err
    BY <1>4, <2>1 DEF AddressFromStr
  <2>3. QED BY <2>2
<1>5. QED
  BY <1>1, <1>2, <1>3, <1>4, Zenon

\* Every spelling of an address is read as it.
LEMMA AddressWritten ==
    ASSUME NEW v \in U16, NEW t \in Spellings(v)
    PROVE  AddressFromStr(t) = Ok(v)
<1>1. PICK a \in HexDigits, b \in HexDigits, c \in HexDigits, e \in HexDigits : v = Sum(a, b, c, e)
  BY DigitsExist, Zenon
<1>2. /\ a \in Nat /\ b \in Nat /\ c \in Nat /\ e \in Nat
      /\ Plus \in Nat /\ Dot \in Nat /\ Ex \in Nat
  BY DEF HexDigits, Plus, Dot, Ex
<1>3. CASE t = <<a, Dot, b, Dot, c, Dot, e>>
  <2>1. /\ t \in Seq(Nat) /\ Len(t) = 7 /\ t[1] = a /\ t[3] = b /\ t[5] = c /\ t[7] = e
        /\ t[2] = Dot /\ t[4] = Dot /\ t[6] = Dot
    BY <1>2, <1>3
  <2>2. AddressFromStr(t) = Ok(Sum(t[1], t[3], t[5], t[7]))
    BY <2>1, DottedDigits, Zenon
  <2>3. QED BY <1>1, <2>1, <2>2, Zenon
<1>4. ASSUME NEW d \in Nat, FromStrRadix(<<d, b, c, e>>) = Ok(v),
             t = <<d, b, c, e>> \/ t = <<0, Ex, d, b, c, e>>
      PROVE  AddressFromStr(t) = Ok(v)
  <2>1. CASE t = <<d, b, c, e>>
    <3>1. Len(t) = 4
      BY <2>1
    <3>2. QED BY <1>4, <2>1, <3>1, AddressOfFour, Zenon
  <2>2. CASE t = <<0, Ex, d, b, c, e>>
    <3>1. t \in Seq(Nat) /\ Len(t) = 6 /\ t[1] = 0 /\ t[2] = Ex
      BY <1>2, <2>2
    <3>2. t[3] = d /\ t[4] = b /\ t[5] = c /\ t[6] = e
      BY <2>2
    <3>3. AddressFromStr(t) = FromStrRadix(<<t[3], t[4], t[5], t[6]>>)
      BY <3>1, AddressOfSix, Zenon
    <3>4. QED BY <1>4, <3>2, <3>3, Zenon
  <2>3. QED BY <1>4, <2>1, <2>2, Zenon
<1>5. CASE t = <<a, b, c, e>> \/ t = <<0, Ex, a, b, c, e>>
  <2>1. FromStrRadix(<<a, b, c, e>>) = Ok(v)
    <3>1. FromStrRadix(<<a, b, c, e>>) = Ok(Sum(a, b, c, e))
      BY RadixReads
    <3>2. QED BY <1>1, <3>1, Zenon
  <2>2. QED BY <1>2, <1>4, <1>5, <2>1, Zenon
<1>6. CASE a = 0 /\ (t = <<Plus, b, c, e>> \/ t = <<0, Ex, Plus, b, c, e>>)
  <2>1. FromStrRadix(<<Plus, b, c, e>>) = Ok(v)
    <3>1. FromStrRadix(<<Plus, b, c, e>>) = Ok(Sum(0, b, c, e))
      BY RadixReadsSign
    <3>2. QED BY <1>1, <1>6, <3>1, Zenon
  <2>2. QED BY <1>2, <1>4, <1>6, <2>1, Zenon
<1>7. \/ t = <<a, Dot, b, Dot, c, Dot, e>>
      \/ t = <<a, b, c, e>>
      \/ t = <<0, Ex, a, b, c, e>>
      \/ a = 0 /\ t = <<Plus, b, c, e>>
      \/ a = 0 /\ t = <<0, Ex, Plus, b, c, e>>
  BY <1>1, SpellingsOf
<1>8. QED
  BY <1>3, <1>5, <1>6, <1>7, Zenon

-----------------------------------------------------------------------------
(* Vendors as text.                                                        *)

\* Two characters are the digits of a byte, the first of which may be a sign.
LEMMA PairRead ==
    ASSUME NEW c \in Nat, NEW e \in Nat, FromStrRadix(<<c, e>>) # Err
    PROVE  \E b \in U8 : FromStrRadix(<<c, e>>) = Ok(b) /\ <<c, e>> \in Pairs(b)
<1>1. CASE c # Plus
  <2>1. FromStrRadix(<<c, e>>) = IF c \in HexDigits /\ e \in HexDigits THEN Ok(c * 16 + e) ELSE Err
    BY <1>1, TwoDigits
  <2>2. c \in HexDigits /\ e \in HexDigits /\ FromStrRadix(<<c, e>>) = Ok(c * 16 + e)
    BY <2>1
  <2> DEFINE b == c * 16 + e
  <2>3. b \in U8 /\ b \div 16 = c /\ b % 16 = e
    BY <2>2 DEF HexDigits, U8
  <2> HIDE DEF b
  <2>4. <<c, e>> \in Pairs(b)
    BY <2>3 DEF Pairs
  <2>5. QED BY <2>2, <2>3, <2>4 DEF b
<1>2. CASE c = Plus
  <2>1. FromStrRadix(<<c, e>>) = IF e \in HexDigits THEN Ok(e) ELSE Err
    BY <1>2, TwoDigits
  <2>2. e \in HexDigits /\ FromStrRadix(<<c, e>>) = Ok(e)
    BY <2>1
  <2>3. e \in U8 /\ e < 16
    BY <2>2 DEF HexDigits, U8
  <2>4. <<c, e>> \in Pairs(e)
    BY <1>2, <2>3 DEF Pairs
  <2>5. QED BY <2>2, <2>3, <2>4
<1>3. QED
  BY <1>1, <1>2

\* Every way to write a byte is read as it.
LEMMA PairWritten ==
    ASSUME NEW b \in U8, NEW p \in Pairs(b)
    PROVE  \E c, e \in Nat : /\ p = <<c, e>> /\ FromStrRadix(<<c, e>>) = Ok(b)
                             /\ c # Dash /\ e # Dash
<1>1. CASE p = <<b \div 16, b % 16>>
  <2> DEFINE c == b \div 16
             e == b % 16
  <2>1. c \in HexDigits /\ e \in HexDigits /\ b = 16 * c + e
    BY DEF U8, HexDigits
  <2>2. p = <<c, e>>
    BY <1>1
  <2> HIDE DEF c, e
  <2>3. c \in Nat /\ e \in Nat /\ c # Plus /\ c # Dash /\ e # Dash
    BY <2>1 DEF HexDigits, Plus, Dash
  <2>4. FromStrRadix(<<c, e>>) = IF c \in HexDigits /\ e \in HexDigits THEN Ok(c * 16 + e) ELSE Err
    BY <2>3, TwoDigits
  <2>5. b = c * 16 + e
    BY <2>1, <2>3
  <2>6. QED BY <2>1, <2>3, <2>4, <2>5, <2>2, Zenon
<1>2. CASE b < 16 /\ p = <<Plus, b>>
  <2>1. b \in HexDigits /\ b \in Nat /\ Plus \in Nat /\ b # Dash /\ Plus # Dash
    BY <1>2 DEF HexDigits, U8, Plus, Dash
  <2>2. FromStrRadix(<<Plus, b>>) = IF b \in HexDigits THEN Ok(b) ELSE Err
    BY <2>1, TwoDigits
  <2>3. QED BY <1>2, <2>1, <2>2, Zenon
<1>3. QED
  BY <1>1, <1>2 DEF Pairs

\* The characters of each part of a vendor.
LEMMA PartsOf ==
    ASSUME NEW t
    PROVE  /\ Part(t, 1) = FromStrRadix(<<t[1], t[2]>>)
           /\ Part(t, 2) = FromStrRadix(<<t[4], t[5]>>)
           /\ Part(t, 3) = FromStrRadix(<<t[7], t[8]>>)
           /\ \A i \in 1..3 : i = 1 \/ i = 2 \/ i = 3
<1>1. /\ 3 * 1 - 2 = 1 /\ 3 * 1 - 1 = 2
      /\ 3 * 2 - 2 = 4 /\ 3 * 2 - 1 = 5
      /\ 3 * 3 - 2 = 7 /\ 3 * 3 - 1 = 8
  OBVIOUS
<1>2. \A i \in 1..3 : i = 1 \/ i = 2 \/ i = 3
  OBVIOUS
<1>3. QED
  BY <1>1, <1>2, Zenon DEF Part

\* What is read is a spelling of the vendor it is read as.
LEMMA VendorRead ==
    ASSUME NEW t \in Seq(Nat), VendorFromStr(t) # Err
    PROVE  t \in VendorSpellings(VendorFromStr(t).val)
<1>1. /\ Len(t) = 8
      /\ {i \in 1..8 : t[i] = Dash} = {3, 6}
      /\ \A i \in 1..3 : Part(t, i) # Err
      /\ VendorFromStr(t) = Ok(<<Part(t, 1).val, Part(t, 2).val, Part(t, 3).val>>)
  BY DEF VendorFromStr
<1>2. t \in [1..8 -> Nat]
  BY <1>1, Characters
<1>3. /\ t[1] \in Nat /\ t[2] \in Nat /\ t[4] \in Nat /\ t[5] \in Nat /\ t[7] \in Nat /\ t[8] \in Nat
      /\ t = <<t[1], t[2], t[3], t[4], t[5], t[6], t[7], t[8]>>
  BY ONLY <1>2
<1>4. t[3] = Dash /\ t[6] = Dash
  <2>1. 3 \in {i \in 1..8 : t[i] = Dash} /\ 6 \in {i \in 1..8 : t[i] = Dash}
    BY <1>1
  <2>2. QED BY <2>1
<1>5. 1 \in 1..3 /\ 2 \in 1..3 /\ 3 \in 1..3
  OBVIOUS
<1>6. Part(t, 1) # Err /\ Part(t, 2) # Err /\ Part(t, 3) # Err
  BY <1>1, <1>5, Zenon
<1>7. PICK b1 \in U8 : Part(t, 1) = Ok(b1) /\ <<t[1], t[2]>> \in Pairs(b1)
  BY <1>3, <1>6, PairRead, PartsOf
<1>8. PICK b2 \in U8 : Part(t, 2) = Ok(b2) /\ <<t[4], t[5]>> \in Pairs(b2)
  BY <1>3, <1>6, PairRead, PartsOf
<1>9. PICK b3 \in U8 : Part(t, 3) = Ok(b3) /\ <<t[7], t[8]>> \in Pairs(b3)
  BY <1>3, <1>6, PairRead, PartsOf
<1>10. VendorFromStr(t).val = <<b1, b2, b3>>
  BY <1>1, <1>7, <1>8, <1>9, OkIsNoError, Zenon
<1> DEFINE id == <<b1, b2, b3>>
           p == <<t[1], t[2]>>
           q == <<t[4], t[5]>>
           r == <<t[7], t[8]>>
<1>11. id[1] = b1 /\ id[2] = b2 /\ id[3] = b3
  OBVIOUS
<1>12. t = <<p[1], p[2], Dash, q[1], q[2], Dash, r[1], r[2]>>
  BY <1>3, <1>4
<1>13. p \in Pairs(id[1]) /\ q \in Pairs(id[2]) /\ r \in Pairs(id[3])
  BY <1>7, <1>8, <1>9, <1>11
<1> HIDE DEF id, p, q, r
<1>14. t \in VendorSpellings(id)
  BY <1>12, <1>13 DEF VendorSpellings
<1>15. QED
  BY <1>10, <1>14 DEF id

\* Every spelling of a vendor is read as it.
LEMMA VendorWritten ==
    ASSUME NEW id \in U8 \X U8 \X U8, NEW t \in VendorSpellings(id)
    PROVE  VendorFromStr(t) = Ok(id)
<1>1. id[1] \in U8 /\ id[2] \in U8 /\ id[3] \in U8 /\ id = <<id[1], id[2], id[3]>>
  OBVIOUS
<1>2. PICK p \in Pairs(id[1]), q \in Pairs(id[2]), r \in Pairs(id[3]) :
          t = <<p[1], p[2], Dash, q[1], q[2], Dash, r[1], r[2]>>
  BY DEF VendorSpellings
<1>3. ASSUME NEW b \in U8, NEW u \in Pairs(b)
      PROVE  FromStrRadix(<<u[1], u[2]>>) = Ok(b) /\ u[1] # Dash /\ u[2] # Dash
  <2>1. PICK c \in Nat, e \in Nat : u = <<c, e>> /\ FromStrRadix(<<c, e>>) = Ok(b) /\ c # Dash /\ e # Dash
    BY <1>3, PairWritten, Zenon
  <2>2. u[1] = c /\ u[2] = e
    BY <2>1
  <2>3. QED BY <2>1, <2>2, Zenon
<1>4. /\ FromStrRadix(<<p[1], p[2]>>) = Ok(id[1]) /\ p[1] # Dash /\ p[2] # Dash
      /\ FromStrRadix(<<q[1], q[2]>>) = Ok(id[2]) /\ q[1] # Dash /\ q[2] # Dash
      /\ FromStrRadix(<<r[1], r[2]>>) = Ok(id[3]) /\ r[1] # Dash /\ r[2] # Dash
  BY <1>1, <1>3, Zenon
<1>5. /\ Len(t) = 8
      /\ t[1] = p[1] /\ t[2] = p[2] /\ t[3] = Dash /\ t[4] = q[1] /\ t[5] = q[2] /\ t[6] = Dash
      /\ t[7] = r[1] /\ t[8] = r[2]
  BY ONLY <1>2
<1>6. {i \in 1..8 : t[i] = Dash} = {3, 6}
  <2>1. t[1] # Dash /\ t[2] # Dash /\ t[4] # Dash /\ t[5] # Dash /\ t[7] # Dash /\ t[8] # Dash
    BY <1>4, <1>5, Zenon
  <2>2. t[3] = Dash /\ t[6] = Dash
    BY <1>5
  <2>3. QED BY ONLY <2>1, <2>2
<1>7. Part(t, 1) = Ok(id[1]) /\ Part(t, 2) = Ok(id[2]) /\ Part(t, 3) = Ok(id[3])
  BY <1>4, <1>5, PartsOf, Zenon
<1>8. \A i \in 1..3 : Part(t, i) # Err
  BY <1>7, OkIsNoError, PartsOf, Zenon
<1>9. VendorFromStr(t) = Ok(<<Part(t, 1).val, Part(t, 2).val, Part(t, 3).val>>)
  BY <1>5, <1>6, <1>8, Zenon DEF VendorFromStr
<1>10. QED
  BY <1>1, <1>7, <1>9, OkIsNoError, Zenon

-----------------------------------------------------------------------------
(* Modes and claims.                                                       *)

\* The half that is set can be read, and the other one is what it was.
LEMMA InitiatorSet ==
    ASSUME NEW mode \in 0..255, NEW m \in DOMAIN CEC_MODE_INITIATOR
    PROVE  /\ InitiatorMode(WithInitiator(mode, m)) = Ok(m)
           /\ FollowerMode(WithInitiator(mode, m)) = FollowerMode(mode)
<1> DEFINE T == CEC_MODE_INITIATOR
           new == WithInitiator(mode, m)
           q == mode \div 16
<1>1. \A k \in DOMAIN T : T[k] \in 0..15 /\ \A l \in DOMAIN T : T[k] = T[l] => k = l
  BY DEF CEC_MODE_INITIATOR
<1>2. new = q * 16 + T[m] /\ q \in 0..15
  BY DEF WithInitiator
<1> HIDE DEF T, new, q
<1>3. T[m] \in 0..15 /\ m \in DOMAIN T
  BY <1>1 DEF T
<1>4. new % 16 = T[m] /\ new \div 16 = q
  BY ONLY <1>2, <1>3
<1>5. (CHOOSE k \in DOMAIN T : T[k] = new % 16) = m
  <2>1. \A k \in DOMAIN T : T[k] = new % 16 <=> k = m
    BY <1>1, <1>3, <1>4, Zenon
  <2>2. QED BY <1>3, <2>1
<1>6. InitiatorMode(new) = Ok(m)
  BY <1>3, <1>4, <1>5, Zenon DEF InitiatorMode, T
<1>7. FollowerMode(new) = FollowerMode(mode)
  BY <1>4, Zenon DEF FollowerMode, q
<1>8. QED
  BY <1>6, <1>7 DEF new

\* The same for the follower's half.
LEMMA FollowerSet ==
    ASSUME NEW mode \in 0..255, NEW m \in DOMAIN CEC_MODE_FOLLOWER
    PROVE  /\ FollowerMode(WithFollower(mode, m)) = Ok(m)
           /\ InitiatorMode(WithFollower(mode, m)) = InitiatorMode(mode)
<1> DEFINE T == CEC_MODE_FOLLOWER
           new == WithFollower(mode, m)
           r == mode % 16
<1>1. \A k \in DOMAIN T : T[k] \in 0..15 /\ \A l \in DOMAIN T : T[k] = T[l] => k = l
  BY DEF CEC_MODE_FOLLOWER
<1>2. new = T[m] * 16 + r /\ r \in 0..15
  BY DEF WithFollower
<1> HIDE DEF T, new, r
<1>3. T[m] \in 0..15 /\ m \in DOMAIN T
  BY <1>1 DEF T
<1>4. new % 16 = r /\ new \div 16 = T[m]
  <2> DEFINE high == T[m]
  <2>1. high \in 0..15 /\ new = high * 16 + r /\ r \in 0..15
    BY <1>2, <1>3
  <2> HIDE DEF high
  <2>2. new % 16 = r
    BY ONLY <2>1
  <2>3. new \div 16 = high
    BY ONLY <2>1
  <2>4. QED BY <2>2, <2>3 DEF high
<1>5. (CHOOSE k \in DOMAIN T : T[k] = new \div 16) = m
  <2>1. \A k \in DOMAIN T : T[k] = new \div 16 <=> k = m
    BY <1>1, <1>3, <1>4, Zenon
  <2>2. QED BY <1>3, <2>1
<1>6. FollowerMode(new) = Ok(m)
  BY <1>3, <1>4, <1>5, Zenon DEF FollowerMode, T
<1>7. InitiatorMode(new) = InitiatorMode(mode)
  BY <1>4, Zenon DEF InitiatorMode, r
<1>8. QED
  BY <1>6, <1>7 DEF new

\* The two tables agree on what an address and its type say of a device.
LEMMA TypeOfAddress ==
    ASSUME NEW k \in Types, NEW a \in CEC_LOG_ADDR[k]
    PROVE  Ty(a) = {k} /\ PrimaryOfAddress(a) = {PrimaryOfType(k)} \ {\hFF}
<1> DEFINE L == CEC_LOG_ADDR
           P == SystemInformation.PRIM_DEVTYPE
           Primary == {"TV", "RECORD", "TUNER", "PLAYBACK", "AUDIOSYSTEM"}
<1>1. k \in DOMAIN L /\ k # "BACKUP"
  BY DEF Types, CEC_LOG_ADDR, CEC_LOG_ADDR_TYPE
<1>2. \A j \in DOMAIN L : a \in L[j] => j = k
  BY <1>1 DEF CEC_LOG_ADDR
<1>3. k \notin {"SPECIFIC", "UNREGISTERED"} <=> k \in Primary
  BY DEF Types, CEC_LOG_ADDR_TYPE
<1>4. Primary \subseteq DOMAIN L
  BY DEF CEC_LOG_ADDR
<1>5. \A j \in Primary : P[j] # \hFF
  BY DEF SystemInformation
<1> HIDE DEF L, P
<1>6. (CHOOSE j \in DOMAIN L : a \in L[j]) = k
  BY <1>1, <1>2 DEF L
<1>7. Ty(a) = {k}
  BY <1>1, <1>6 DEF Ty, L
<1>8. PrimaryOfAddress(a) = {P[j] : j \in {j \in Primary : a \in L[j]}}
  BY DEF PrimaryOfAddress, P, L
<1>9. CASE k \in Primary
  <2>1. {j \in Primary : a \in L[j]} = {k}
    BY <1>2, <1>4, <1>9 DEF L
  <2>2. PrimaryOfAddress(a) = {P[k]}
    BY <1>8, <2>1
  <2>3. PrimaryOfType(k) = P[k] /\ P[k] # \hFF
    BY <1>3, <1>5, <1>9 DEF PrimaryOfType, P
  <2>4. QED BY <1>7, <2>2, <2>3
<1>10. CASE k \notin Primary
  <2>1. {j \in Primary : a \in L[j]} = {}
    BY <1>2, <1>4, <1>10
  <2>2. PrimaryOfAddress(a) = {}
    BY <1>8, <2>1
  <2>3. PrimaryOfType(k) = \hFF
    BY <1>3, <1>10 DEF PrimaryOfType
  <2>4. QED BY <1>7, <2>2, <2>3
<1>11. QED
  BY <1>9, <1>10

-----------------------------------------------------------------------------
(* EDIDs.                                                                  *)

\* What a loop comes to from each place: it goes on somewhere else, or ends here.
ComesTo(g, a, b, On, next, here) ==
    g = [x \in a..b |-> IF x \in On THEN g[next[x]] ELSE here[x]]

\* A loop that moves up from where it goes on comes to something from every place.
LEMMA LoopDefined ==
    ASSUME NEW a \in Nat, NEW b \in Nat, a <= b, NEW On, NEW next, NEW here,
           \A x \in a..b : x \in On => next[x] \in x + 1..b
    PROVE  \E g : ComesTo(g, a, b, On, next, here)
<1> DEFINE Good(k, g) == \A x \in b - k..b : g[x] = IF x \in On THEN g[next[x]] ELSE here[x]
           K == {k \in Nat : k <= b - a => \E g : Good(k, g)}
<1>1. 0 \in K
  <2>1. b \notin On
    OBVIOUS
  <2>2. Good(0, [x \in a..b |-> here[x]])
    BY <2>1
  <2>3. QED BY <2>2
<1>2. ASSUME NEW k \in Nat, k \in K PROVE k + 1 \in K
  <2> SUFFICES ASSUME k + 1 <= b - a PROVE \E g : Good(k + 1, g)
    <3> HIDE DEF Good
    <3>1. QED OBVIOUS
  <2>1. PICK g : Good(k, g)
    BY <1>2
  <2> DEFINE low == b - (k + 1)
             new == IF low \in On THEN g[next[low]] ELSE here[low]
             h == [x \in a..b |-> IF x = low THEN new ELSE g[x]]
  <2>2. low \in a..b /\ low + 1 = b - k /\ h[low] = new
    OBVIOUS
  <2>3. \A x \in low + 1..b : h[x] = g[x]
    BY <2>2
  <2>4. \A x \in a..b : x \in On /\ x >= low => next[x] \in low + 1..b
    BY <2>2
  <2> HIDE DEF h
  <2>5. ASSUME NEW x \in low..b PROVE h[x] = IF x \in On THEN h[next[x]] ELSE here[x]
    <3>1. x \in a..b /\ x >= low
      BY <2>2
    <3>2. x \in On => h[next[x]] = g[next[x]]
      <4> HIDE DEF low
      <4>1. QED BY <2>3, <2>4, <3>1
    <3>3. CASE x = low
      BY <2>2, <3>2, <3>3
    <3>4. CASE x # low
      <4>1. x \in low + 1..b /\ x \in b - k..b
        BY <3>4
      <4>2. g[x] = IF x \in On THEN g[next[x]] ELSE here[x]
        BY <2>1, <4>1
      <4> HIDE DEF low
      <4>3. QED BY <2>3, <3>2, <4>1, <4>2
    <3>5. QED BY <3>3, <3>4
  <2>6. Good(k + 1, h)
    BY <2>5
  <2>7. QED BY <2>6
<1>3. b - a \in K
  <2>1. b - a \in Nat
    OBVIOUS
  <2> HIDE DEF K
  <2>2. QED BY <1>1, <1>2, <2>1, Induction
<1>4. PICK g : Good(b - a, g)
  BY <1>3
<1> DEFINE h == [x \in a..b |-> g[x]]
<1>5. \A x \in a..b : h[x] = g[x] /\ (x \in On => h[next[x]] = g[next[x]])
  <2>1. \A x \in a..b : x \in On => next[x] \in a..b
    OBVIOUS
  <2>2. QED BY <2>1
<1>6. \A x \in a..b : g[x] = IF x \in On THEN g[next[x]] ELSE here[x]
  BY <1>4
<1>7. h = [x \in a..b |-> IF x \in On THEN h[next[x]] ELSE here[x]]
  <2>1. \A x \in a..b : g[x] = IF x \in On THEN h[next[x]] ELSE here[x]
    <3> HIDE DEF h
    <3>1. QED BY <1>5, <1>6
  <2>2. h = [x \in a..b |-> g[x]]
    OBVIOUS
  <2> HIDE DEF h
  <2>3. QED BY <2>1, <2>2
<1>8. ComesTo(h, a, b, On, next, here)
  BY <1>7, Zenon DEF ComesTo
<1>9. QED
  BY <1>8

\* What is read of a whole extension block is there, and is a byte.
LEMMA ExtensionBytesAre ==
    ASSUME NEW edid \in Seq(U8), NEW block \in Nat, block + 128 <= Len(edid)
    PROVE  /\ Len(edid) \in Nat
           /\ \A o \in block..block + 127 : At(edid, o) \in 0..255 /\ SizeAt(edid, o) \in 1..32
           /\ TimingsAt(edid, block) \in block + 4..block + 127
           /\ EndOf(edid, block) = TimingsAt(edid, block)
<1>1. Len(edid) \in Nat
  OBVIOUS
<1>2. ASSUME NEW o \in block..block + 127 PROVE At(edid, o) \in 0..255
  <2>1. o + 1 \in 1..Len(edid)
    BY <1>1
  <2>2. edid[o + 1] \in U8
    BY <2>1
  <2>3. QED BY <2>2 DEF At, U8
<1>3. ASSUME NEW o \in block..block + 127 PROVE SizeAt(edid, o) \in 1..32
  <2> DEFINE h == At(edid, o)
  <2>1. h \in 0..255
    BY <1>2
  <2> HIDE DEF h
  <2>2. (h % 32) + 1 \in 1..32
    BY <2>1
  <2>3. QED BY <2>2 DEF SizeAt, h
<1>4. At(edid, block + 2) \in 0..255
  BY <1>2
<1>5. /\ TimingsAt(edid, block) \in block + 4..block + 127
      /\ EndOf(edid, block) = TimingsAt(edid, block)
  <2> DEFINE d == At(edid, block + 2)
  <2> HIDE DEF d
  <2>1. d \in 0..255
    BY <1>4 DEF d
  <2>2. /\ EndOf(edid, block) = block + (IF d >= 4 THEN (IF d < 127 THEN d ELSE 127) ELSE 127)
        /\ TimingsAt(edid, block) = block + (IF d \in 4..126 THEN d ELSE 127)
    BY DEF EndOf, TimingsAt, d
  <2>3. QED BY <2>1, <2>2
<1>6. QED
  BY <1>1, <1>2, <1>3, <1>5

\* The tests of the parser, on a data block that is whole, are those of HoldsAddress.
LEMMA TestsAre ==
    ASSUME NEW edid \in Seq(U8), NEW block \in Nat, block + 128 <= Len(edid),
           NEW o \in block + 4..block + 127,
           o + SizeAt(edid, o) <= TimingsAt(edid, block), SizeAt(edid, o) >= 6
    PROVE  /\ ~Overruns(edid, o)
           /\ HoldsAddress(edid, block, o) <=> IsVendorSpecific(edid, o) /\ IsHdmi(edid, o)
<1>1. /\ Len(edid) \in Nat /\ At(edid, o) \in 0..255
      /\ TimingsAt(edid, block) \in block + 4..block + 127 /\ SizeAt(edid, o) \in 1..32
  BY ExtensionBytesAre
<1>2. o + 6 <= Len(edid) /\ o \in Nat
  <2> DEFINE size == SizeAt(edid, o)
             end == TimingsAt(edid, block)
             len == Len(edid)
  <2>1. /\ len \in Nat /\ block + 128 <= len /\ end \in block + 4..block + 127
        /\ size \in 1..32 /\ o + size <= end /\ size >= 6
    BY <1>1
  <2> HIDE DEF size, end, len
  <2>2. o + 6 <= len /\ o \in Nat
    BY <2>1
  <2>3. QED BY <2>2 DEF len
<1>3. ~Overruns(edid, o)
  BY <1>1, <1>2 DEF Overruns
<1>4. IsVendorSpecific(edid, o) <=> At(edid, o) \in \h65..\h7F
  <2> DEFINE h == At(edid, o)
  <2>1. h \in 0..255 /\ (h % 32) + 1 >= 6
    BY <1>1 DEF SizeAt
  <2> HIDE DEF h
  <2>2. (h \div 32) * 32 = 96 <=> h \in 101..127
    BY <2>1
  <2>3. QED BY <2>2 DEF IsVendorSpecific, h
<1>5. IsHdmi(edid, o) <=> <<At(edid, o + 1), At(edid, o + 2), At(edid, o + 3)>> = HDMI_OUI
  <2> DEFINE part == SubSeq(edid, o + 2, o + 4)
  <2>1. Len(part) = 3 /\ part \in Seq(U8)
    BY <1>1, <1>2
  <2>2. part[1] = edid[o + 2] /\ part[2] = edid[o + 3] /\ part[3] = edid[o + 4]
    <3>1. o + 2 \in 1..Len(edid) + 1 /\ o + 4 \in (o + 2) - 1..Len(edid)
      BY <1>1, <1>2
    <3>2. \A i \in 1..((o + 4) - (o + 2)) + 1 : part[i] = edid[(o + 2) + i - 1]
      BY <1>1, <1>2, <3>1, SubSeqProperties
    <3>3. /\ 1 \in 1..((o + 4) - (o + 2)) + 1 /\ (o + 2) + 1 - 1 = o + 2
          /\ 2 \in 1..((o + 4) - (o + 2)) + 1 /\ (o + 2) + 2 - 1 = o + 3
          /\ 3 \in 1..((o + 4) - (o + 2)) + 1 /\ (o + 2) + 3 - 1 = o + 4
      BY <1>2
    <3> HIDE DEF part
    <3>4. QED BY <3>2, <3>3
  <2> HIDE DEF part
  <2>3. part = <<part[1], part[2], part[3]>>
    BY <2>1
  <2>4. At(edid, o + 1) = edid[o + 2] /\ At(edid, o + 2) = edid[o + 3] /\ At(edid, o + 3) = edid[o + 4]
    BY <1>1, <1>2 DEF At
  <2>5. QED BY <2>2, <2>3, <2>4 DEF IsHdmi, part
<1>6. QED
  BY <1>3, <1>4, <1>5 DEF HoldsAddress

\* The loop over the data blocks, at each offset: it ends at the timings and at a
\* long data block that crosses them, it ends with an address where there is one,
\* and goes on elsewhere.
LEMMA DataBlocksAre ==
    ASSUME NEW edid \in Seq(U8), NEW block \in Nat, block + 128 <= Len(edid),
           NEW o \in block + 4..block + 158
    PROVE  LET end  == TimingsAt(edid, block)
               size == SizeAt(edid, o)
               from == DataBlocks(edid, block)
           IN  /\ o >= end => from[o] = None
               /\ o < end /\ HoldsAddress(edid, block, o) => from[o] = Ok(AddressAt(edid, o))
               /\ o < end /\ o + size > end => from[o] \in {None, from[o + size]}
               /\ o < end /\ o + size <= end /\ ~HoldsAddress(edid, block, o) => from[o] = from[o + size]
<1> DEFINE S == block + 4..block + 158
           end == EndOf(edid, block)
           size(x) == SizeAt(edid, x)
           body(g, x) == IF ~(x + 1 < Len(edid) /\ x < end) THEN None
                         ELSE IF size(x) < 6 THEN g[x + size(x)]
                         ELSE IF x + size(x) > end THEN None
                         ELSE IF ~IsVendorSpecific(edid, x) THEN g[x + size(x)]
                         ELSE IF Overruns(edid, x) THEN Panic
                         ELSE IF ~IsHdmi(edid, x) THEN g[x + size(x)]
                         ELSE Ok(AddressAt(edid, x))
           Eq(g) == g = [x \in S |-> body(g, x)]
           from == CHOOSE g : Eq(g)
<1>1. DataBlocks(edid, block) = from
  BY DEF DataBlocks
<1>2. /\ end = TimingsAt(edid, block) /\ end \in block + 4..block + 127
      /\ \A x \in S : x < end => size(x) \in 1..32
  <2>1. end = TimingsAt(edid, block) /\ end \in block + 4..block + 127
    BY ExtensionBytesAre
  <2>2. ASSUME NEW x \in S, x < end PROVE size(x) \in 1..32
    <3> HIDE DEF end
    <3>1. x \in block..block + 127
      BY <2>1, <2>2
    <3>2. QED BY <3>1, ExtensionBytesAre
  <2>3. QED BY <2>1, <2>2
<1>3. \E g : Eq(g)
  <2> DEFINE On == {x \in S : /\ x + 1 < Len(edid) /\ x < end
                              /\ \/ size(x) < 6
                                 \/ /\ ~(x + size(x) > end)
                                    /\ \/ ~IsVendorSpecific(edid, x)
                                       \/ ~Overruns(edid, x) /\ ~IsHdmi(edid, x)}
             next == [x \in S |-> x + size(x)]
             here == [x \in S |-> IF ~(x + 1 < Len(edid) /\ x < end) THEN None
                                  ELSE IF x + size(x) > end THEN None
                                  ELSE IF Overruns(edid, x) THEN Panic
                                  ELSE Ok(AddressAt(edid, x))]
  <2> HIDE DEF end, size
  <2>1. ASSUME NEW x \in S, x \in On PROVE next[x] \in x + 1..block + 158
    <3>1. x < end /\ next[x] = x + size(x)
      BY <2>1
    <3>2. size(x) \in 1..32 /\ end \in block + 4..block + 127
      BY <1>2, <3>1
    <3> DEFINE s == size(x)
               n == next[x]
    <3>3. n = x + s /\ s \in 1..32 /\ x < end /\ x \in Int
      BY <3>1, <3>2
    <3>4. end \in block + 4..block + 127
      BY <3>2
    <3> HIDE DEF On, next, s, n
    <3>5. n \in x + 1..block + 158
      BY <3>3, <3>4
    <3>6. QED BY <3>5 DEF n
  <2>2. \E g : g = [x \in S |-> IF x \in On THEN g[next[x]] ELSE here[x]]
    <3> HIDE DEF On, next, here
    <3>1. block + 4 \in Nat /\ block + 158 \in Nat /\ block + 4 <= block + 158
      OBVIOUS
    <3> DEFINE a == block + 4
               b == block + 158
    <3> HIDE DEF a, b
    <3>2. a \in Nat /\ b \in Nat /\ a <= b
      BY <3>1 DEF a, b
    <3>3. \A x \in a..b : x \in On => next[x] \in x + 1..b
      BY <2>1 DEF a, b
    <3>4. \E g : ComesTo(g, a, b, On, next, here)
      BY <3>2, <3>3, LoopDefined, Zenon
    <3>5. QED BY <3>4, Zenon DEF a, b, ComesTo
  <2>3. PICK g : g = [x \in S |-> IF x \in On THEN g[next[x]] ELSE here[x]]
    BY <2>2
  <2>4. ASSUME NEW x \in S PROVE body(g, x) = IF x \in On THEN g[next[x]] ELSE here[x]
    <3>1. next[x] = x + size(x)
      OBVIOUS
    <3>2. CASE x \in On
      BY <3>1, <3>2
    <3>3. CASE x \notin On
      BY <3>3
    <3>4. QED BY <3>2, <3>3
  <2> HIDE DEF On, next, here, body
  <2>5. QED BY <2>3, <2>4
<1>4. Eq(from)
  <2> HIDE DEF Eq
  <2>1. QED BY <1>3
<1> HIDE DEF from
<1>5. from[o] = body(from, o)
  <2> HIDE DEF body
  <2>1. QED BY <1>4
<1>6. o < end => o + 1 < Len(edid) /\ o \in block + 4..block + 127
  <2> HIDE DEF end
  <2>1. Len(edid) \in Nat
    OBVIOUS
  <2>2. QED BY <1>2, <2>1
<1>7. ASSUME o < end, o + size(o) <= end, size(o) >= 6
      PROVE  /\ ~Overruns(edid, o)
             /\ HoldsAddress(edid, block, o) <=> IsVendorSpecific(edid, o) /\ IsHdmi(edid, o)
  BY <1>2, <1>6, <1>7, TestsAre
<1>8. HoldsAddress(edid, block, o) /\ o < end => o + size(o) <= end /\ size(o) >= 6
  <2> SUFFICES ASSUME HoldsAddress(edid, block, o) PROVE o + size(o) <= end /\ size(o) >= 6
    OBVIOUS
  <2> DEFINE h == At(edid, o)
  <2>1. h \in 101..127 /\ o + size(o) <= end
    BY <1>2 DEF HoldsAddress
  <2> HIDE DEF h
  <2>2. (h % 32) + 1 >= 6
    BY <2>1
  <2>3. QED BY <2>1, <2>2 DEF SizeAt, h
<1> HIDE DEF end
<1>9. o \in Int /\ end \in Int /\ (o < end => size(o) \in Int)
  <2>1. o \in S /\ o \in Int /\ end \in block + 4..block + 127
    BY <1>2
  <2>2. o < end => size(o) \in 1..32
    <3> HIDE DEF S, size
    <3>1. QED BY <1>2, <2>1
  <2> DEFINE s == size(o)
  <2>3. o < end => s \in Int
    <3>1. CASE o < end
      <4>1. s \in 1..32
        BY <2>2, <3>1
      <4> HIDE DEF s
      <4>2. QED BY <4>1
    <3>2. QED BY <3>1
  <2> HIDE DEF S, size, s
  <2>4. end \in Int
    BY <2>1
  <2>5. QED BY <2>1, <2>3, <2>4 DEF s
<1> HIDE DEF size
<1>10. o >= end => from[o] = None
  BY <1>5, <1>9
<1>11. o < end /\ HoldsAddress(edid, block, o) => from[o] = Ok(AddressAt(edid, o))
  BY <1>5, <1>6, <1>7, <1>8, <1>9
<1>12. o < end /\ o + size(o) > end => from[o] \in {None, from[o + size(o)]}
  BY <1>5, <1>6, <1>9
<1>13. o < end /\ o + size(o) <= end /\ ~HoldsAddress(edid, block, o) => from[o] = from[o + size(o)]
  BY <1>5, <1>6, <1>7, <1>9
<1>14. QED
  BY <1>1, <1>2, <1>10, <1>11, <1>12, <1>13 DEF size

\* The values of a function that is applied again and again.
Iterates(g, N, S, first, f) ==
    /\ g \in [0..N -> S]
    /\ g[0] = first
    /\ \A n \in 1..N : g[n] = f[g[n - 1]]

\* There are such values for as many times as are asked for.
LEMMA IterationDefined ==
    ASSUME NEW S, NEW first \in S, NEW f \in [S -> S], NEW N \in Nat
    PROVE  \E g : Iterates(g, N, S, first, f)
<1> DEFINE Good(k, g) == Iterates(g, k, S, first, f)
           K == {k \in Nat : \E g : Good(k, g)}
<1>1. 0 \in K
  <2>1. Good(0, [n \in 0..0 |-> first])
    BY DEF Iterates
  <2>2. QED BY <2>1
<1>2. ASSUME NEW k \in Nat, k \in K PROVE k + 1 \in K
  <2>1. PICK g : Good(k, g)
    BY <1>2
  <2> USE DEF Iterates
  <2> DEFINE new == f[g[k]]
             h == [n \in 0..k + 1 |-> IF n = k + 1 THEN new ELSE g[n]]
  <2>2. new \in S
    BY <2>1
  <2>3. h \in [0..k + 1 -> S] /\ h[0] = first
    <3> HIDE DEF new
    <3>1. QED BY <2>1, <2>2
  <2>4. \A n \in 1..k + 1 : h[n] = f[h[n - 1]]
    <3>1. h[k + 1] = new /\ h[k] = g[k]
      OBVIOUS
    <3>2. \A n \in 1..k : h[n] = g[n] /\ h[n - 1] = g[n - 1]
      OBVIOUS
    <3> HIDE DEF h
    <3>3. \A n \in 1..k : h[n] = f[h[n - 1]]
      BY <2>1, <3>2
    <3>4. h[k + 1] = f[h[(k + 1) - 1]]
      BY <3>1
    <3>5. QED BY <3>3, <3>4
  <2>5. Good(k + 1, h)
    BY <2>3, <2>4
  <2> HIDE DEF Good, h
  <2>6. QED BY <2>5
<1>3. N \in K
  <2> HIDE DEF K
  <2>1. QED BY <1>1, <1>2, Induction
<1>4. QED
  BY <1>3

\* The data blocks of an extension follow each other, and the last of as many as
\* it may have begins at the timings or behind them.
LEMMA StartsAre ==
    ASSUME NEW edid \in Seq(U8), NEW block \in Nat, block + 128 <= Len(edid)
    PROVE  LET end   == TimingsAt(edid, block)
               start == Starts(edid, block)
           IN  /\ start \in [0..123 -> block + 4..block + 158]
               /\ start[0] = block + 4
               /\ \A n \in 0..122 :
                     start[n + 1] = IF start[n] < end THEN start[n] + SizeAt(edid, start[n]) ELSE start[n]
               /\ \A n \in 0..122 : start[n] <= start[n + 1]
               /\ start[123] >= end
<1> DEFINE S == block + 4..block + 158
           end == TimingsAt(edid, block)
           f == [x \in S |-> IF x < end THEN x + SizeAt(edid, x) ELSE x]
           body(g, n) == IF n = 0 THEN block + 4
                         ELSE IF g[n - 1] < end THEN g[n - 1] + SizeAt(edid, g[n - 1]) ELSE g[n - 1]
           Eq(g) == g = [n \in 0..123 |-> body(g, n)]
           start == CHOOSE g : Eq(g)
<1>1. Starts(edid, block) = start
  BY DEF Starts
<1>2. end \in block + 4..block + 127 /\ \A x \in S : x < end => SizeAt(edid, x) \in 1..32
  <2>1. end \in block + 4..block + 127
    BY ExtensionBytesAre
  <2>2. ASSUME NEW x \in S, x < end PROVE SizeAt(edid, x) \in 1..32
    <3> HIDE DEF end
    <3>1. x \in block..block + 127
      BY <2>1, <2>2
    <3>2. QED BY <3>1, ExtensionBytesAre
  <2>3. QED BY <2>1, <2>2
<1> HIDE DEF end
<1>3. ASSUME NEW x \in S PROVE f[x] \in S /\ f[x] >= x /\ (x < end => f[x] > x)
  <2>1. CASE x < end
    <3> DEFINE s == SizeAt(edid, x)
    <3>1. s \in 1..32 /\ f[x] = x + s
      BY <1>2, <2>1
    <3> HIDE DEF s, f
    <3>2. QED BY <1>2, <2>1, <3>1
  <2>2. CASE ~(x < end)
    BY <2>2
  <2>3. QED BY <2>1, <2>2
<1>4. \E g : Eq(g)
  <2>1. f \in [S -> S] /\ block + 4 \in S /\ 123 \in Nat
    <3>1. block + 4 \in S
      OBVIOUS
    <3>2. DOMAIN f = S /\ f = [x \in S |-> f[x]]
      OBVIOUS
    <3> HIDE DEF f
    <3>3. f \in [S -> S]
      BY <1>3, <3>2
    <3>4. QED BY <3>1, <3>3
  <2>2. PICK g \in [0..123 -> S] : g[0] = block + 4 /\ \A n \in 1..123 : g[n] = f[g[n - 1]]
    <3> DEFINE N == 123
               first == block + 4
    <3>1. first \in S /\ N \in Nat /\ f \in [S -> S]
      BY <2>1
    <3> HIDE DEF S, f, N, first
    <3>2. \E g : Iterates(g, N, S, first, f)
      BY <3>1, IterationDefined, Zenon
    <3>3. QED BY <3>2, Zenon DEF N, first, Iterates
  <2>3. ASSUME NEW n \in 0..123 PROVE g[n] = body(g, n)
    <3>1. CASE n = 0
      BY <2>2, <3>1
    <3>2. CASE n # 0
      <4>1. n \in 1..123 /\ n - 1 \in 0..123
        BY <3>2
      <4>2. g[n] = f[g[n - 1]] /\ g[n - 1] \in S
        BY <2>2, <4>1
      <4>3. f[g[n - 1]] = IF g[n - 1] < end THEN g[n - 1] + SizeAt(edid, g[n - 1]) ELSE g[n - 1]
        <5> HIDE DEF S
        <5>1. QED BY <4>2
      <4>4. QED BY <3>2, <4>2, <4>3
    <3>3. QED BY <3>1, <3>2
  <2> HIDE DEF body
  <2>4. Eq(g)
    BY <2>3
  <2>5. QED BY <2>4
<1>5. Eq(start)
  <2> HIDE DEF Eq
  <2>1. QED BY <1>4
<1> HIDE DEF start
<1>6. start[0] = block + 4 /\ DOMAIN start = 0..123 /\ start = [n \in 0..123 |-> start[n]]
  <2> HIDE DEF body
  <2>1. DOMAIN start = 0..123 /\ \A n \in 0..123 : start[n] = body(start, n)
    BY <1>5
  <2>2. start = [n \in 0..123 |-> start[n]]
    BY <1>5, <2>1
  <2>3. start[0] = body(start, 0)
    BY <2>1
  <2>4. QED BY <2>1, <2>2, <2>3 DEF body
<1>7. ASSUME NEW n \in 0..122
      PROVE  start[n + 1] = IF start[n] < end THEN start[n] + SizeAt(edid, start[n]) ELSE start[n]
  <2>1. n + 1 \in 0..123 /\ n + 1 # 0 /\ (n + 1) - 1 = n
    OBVIOUS
  <2>2. start[n + 1] = body(start, n + 1)
    <3> HIDE DEF body
    <3>1. QED BY <1>5, <2>1
  <2>3. QED BY <2>1, <2>2
<1>8. ASSUME NEW n \in 0..122, start[n] \in S PROVE start[n + 1] = f[start[n]]
  <2> HIDE DEF S
  <2>1. f[start[n]] = IF start[n] < end THEN start[n] + SizeAt(edid, start[n]) ELSE start[n]
    BY <1>8
  <2>2. QED BY <1>7, <2>1
<1> HIDE DEF f
<1> DEFINE K == {n \in Nat : n <= 123 => start[n] \in S /\ (start[n] >= end \/ start[n] >= block + 4 + n)}
<1>9. 0 \in K
  BY <1>6
<1>10. ASSUME NEW n \in Nat, n \in K PROVE n + 1 \in K
  <2> SUFFICES ASSUME n + 1 <= 123
               PROVE  start[n + 1] \in S /\ (start[n + 1] >= end \/ start[n + 1] >= block + 4 + (n + 1))
    OBVIOUS
  <2> DEFINE x == start[n]
             y == start[n + 1]
  <2>1. n \in 0..122 /\ x \in S /\ (x >= end \/ x >= block + 4 + n)
    BY <1>10
  <2>2. y = f[x]
    BY <1>8, <2>1
  <2>3. y \in S /\ y >= x /\ (x < end => y > x)
    BY <1>3, <2>1, <2>2
  <2> HIDE DEF x, y
  <2>4. y >= end \/ y >= block + 4 + (n + 1)
    BY <1>2, <2>1, <2>3
  <2>5. QED BY <2>3, <2>4 DEF y
<1>11. Nat \subseteq K
  <2> HIDE DEF K
  <2>1. QED BY <1>9, <1>10, Induction
<1>12. \A n \in 0..123 : start[n] \in S /\ (start[n] >= end \/ start[n] >= block + 4 + n)
  BY <1>11
<1>13. start \in [0..123 -> S]
  <2> HIDE DEF S
  <2>1. QED BY <1>6, <1>12
<1>14. ASSUME NEW n \in 0..122 PROVE start[n] <= start[n + 1]
  <2>1. start[n] \in S /\ start[n + 1] = f[start[n]]
    <3>1. n \in 0..123
      OBVIOUS
    <3>2. start[n] \in S
      BY <1>12, <3>1, Zenon
    <3>3. QED BY <1>8, <3>2, Zenon
  <2>2. f[start[n]] >= start[n]
    BY <1>3, <2>1
  <2>3. f[start[n]] \in S
    BY <1>3, <2>1
  <2> DEFINE x == start[n]
             y == f[start[n]]
  <2>4. x \in Int /\ y \in Int /\ y >= x
    BY <2>1, <2>2, <2>3
  <2> HIDE DEF x, y
  <2>5. x <= y
    BY <2>4
  <2>6. QED BY <2>1, <2>5 DEF x, y
<1>15. start[123] >= end
  <2> DEFINE x == start[123]
  <2>1. x \in S /\ (x >= end \/ x >= block + 4 + 123)
    BY <1>12
  <2> HIDE DEF x
  <2>2. x >= end
    BY <1>2, <2>1
  <2>3. QED BY <2>2 DEF x
<1>16. QED
  BY <1>1, <1>6, <1>7, <1>13, <1>14, <1>15 DEF end

\* Later data blocks begin later.
LEMMA StartsGrow ==
    ASSUME NEW edid \in Seq(U8), NEW block \in Nat, block + 128 <= Len(edid),
           NEW m \in 0..123, NEW n \in 0..123, m <= n
    PROVE  Starts(edid, block)[m] <= Starts(edid, block)[n]
<1> DEFINE start == Starts(edid, block)
           K == {k \in Nat : m + k <= 123 => start[m] <= start[m + k]}
<1>1. /\ \A i \in 0..123 : start[i] \in Nat
      /\ \A i \in 0..122 : start[i] <= start[i + 1]
  <2>1. start \in [0..123 -> block + 4..block + 158]
    BY StartsAre
  <2>2. \A i \in 0..122 : start[i] <= start[i + 1]
    BY StartsAre
  <2> HIDE DEF start
  <2>3. ASSUME NEW i \in 0..123 PROVE start[i] \in Nat
    <3> DEFINE x == start[i]
    <3>1. x \in block + 4..block + 158
      BY <2>1
    <3> HIDE DEF x
    <3>2. x \in Nat
      BY <3>1
    <3>3. QED BY <3>2 DEF x
  <2>4. QED BY <2>2, <2>3
<1> HIDE DEF start
<1>2. 0 \in K
  <2> DEFINE x == start[m]
  <2>1. x \in Nat
    BY <1>1
  <2>2. m + 0 = m
    OBVIOUS
  <2> HIDE DEF x
  <2>3. x <= x
    BY <2>1
  <2>4. QED BY <2>2, <2>3 DEF x
<1>3. ASSUME NEW k \in Nat, k \in K PROVE k + 1 \in K
  <2> SUFFICES ASSUME m + (k + 1) <= 123 PROVE start[m] <= start[m + (k + 1)]
    OBVIOUS
  <2> DEFINE i == m + k
             x == start[m]
             y == start[i]
             z == start[i + 1]
  <2>1. i \in 0..122 /\ i \in 0..123 /\ i + 1 \in 0..123 /\ m + (k + 1) = i + 1
    OBVIOUS
  <2> HIDE DEF i
  <2>2. x \in Nat /\ y \in Nat /\ z \in Nat /\ y <= z
    BY <1>1, <2>1
  <2>3. x <= y
    BY <1>3, <2>1 DEF i
  <2> HIDE DEF x, y, z
  <2>4. x <= z
    BY <2>2, <2>3
  <2>5. QED BY <2>1, <2>4 DEF x, z
<1>4. n - m \in K
  <2>1. n - m \in Nat
    OBVIOUS
  <2> HIDE DEF K
  <2>2. QED BY <1>2, <1>3, <2>1, Induction
<1>5. QED
  BY <1>4 DEF start

\* What the loop over the data blocks of an extension comes to: the address in the
\* first of them that holds one.
LEMMA ExtensionAddress ==
    ASSUME NEW edid \in Seq(U8), NEW block \in Nat, block + 128 <= Len(edid)
    PROVE  LET pa == DataBlocks(edid, block)[block + 4]
               H  == HoldingIn(edid, block)
           IN  /\ H \subseteq block..block + 127
               /\ \/ H = {} /\ pa = None
                  \/ \E o \in H : (\A p \in H : o <= p) /\ pa = Ok(AddressAt(edid, o))
<1> DEFINE end == TimingsAt(edid, block)
           start == Starts(edid, block)
           from == DataBlocks(edid, block)
           pa == from[block + 4]
           H == HoldingIn(edid, block)
           S == block + 4..block + 158
           Clear(n) == \A m \in 0..n - 1 : start[m] \notin H
           Along(n) == pa = from[start[n]] \/ (pa = None /\ start[n] >= end)
<1>1. /\ start \in [0..123 -> S] /\ start[0] = block + 4 /\ start[123] >= end
      /\ \A n \in 0..122 :
            start[n + 1] = IF start[n] < end THEN start[n] + SizeAt(edid, start[n]) ELSE start[n]
  BY StartsAre
<1>2. end \in block + 4..block + 127 /\ \A x \in block..block + 127 : SizeAt(edid, x) \in 1..32
  BY ExtensionBytesAre
<1>3. \A o : o \in H <=> /\ \E n \in 0..123 : o = start[n]
                         /\ o < end /\ HoldsAddress(edid, block, o)
  BY DEF HoldingIn
<1>4. ASSUME NEW o \in S
      PROVE  /\ o >= end => from[o] = None
             /\ o < end /\ HoldsAddress(edid, block, o) => from[o] = Ok(AddressAt(edid, o))
             /\ o < end /\ o + SizeAt(edid, o) > end => from[o] \in {None, from[o + SizeAt(edid, o)]}
             /\ o < end /\ o + SizeAt(edid, o) <= end /\ ~HoldsAddress(edid, block, o) =>
                    from[o] = from[o + SizeAt(edid, o)]
  BY DataBlocksAre
<1> HIDE DEF end, start, from, H
<1>5. H \subseteq block..block + 127
  <2> SUFFICES ASSUME NEW o \in H PROVE o \in block..block + 127
    OBVIOUS
  <2>1. o \in S /\ o < end
    <3>1. PICK n \in 0..123 : o = start[n]
      BY <1>3
    <3>2. o < end
      BY <1>3
    <3> HIDE DEF S
    <3>3. QED BY <1>1, <3>1, <3>2
  <2>2. QED BY <1>2, <2>1
<1> DEFINE K == {n \in Nat : n <= 123 /\ Clear(n) => Along(n)}
<1>6. 0 \in K
  BY <1>1
<1>7. ASSUME NEW n \in Nat, n \in K PROVE n + 1 \in K
  <2> SUFFICES ASSUME n + 1 <= 123, Clear(n + 1) PROVE Along(n + 1)
    <3> HIDE DEF Clear, Along
    <3>1. QED OBVIOUS
  <2> DEFINE o == start[n]
             next == start[n + 1]
             size == SizeAt(edid, o)
  <2>1. n \in 0..122 /\ n \in 0..123 /\ n \in 0..(n + 1) - 1 /\ \A m \in 0..n - 1 : m \in 0..(n + 1) - 1
    OBVIOUS
  <2>2. Clear(n) /\ o \notin H /\ o \in S
    BY <1>1, <2>1
  <2>3. Along(n)
    <3> HIDE DEF Clear, Along
    <3>1. QED BY <1>7, <2>1, <2>2
  <2>4. next = IF o < end THEN o + size ELSE o
    BY <1>1, <2>1
  <2>5. o < end => ~HoldsAddress(edid, block, o)
    BY <1>3, <2>1, <2>2
  <2>6. o \in Int /\ end \in Int
    BY <1>2, <2>2
  <2> DEFINE at == from[o]
             on == from[next]
  <2>7. CASE ~(o < end)
    <3>1. next = o
      BY <2>4, <2>7
    <3>2. QED BY <2>3, <3>1
  <2>8. CASE o < end
    <3>1. next = o + size
      BY <2>4, <2>8
    <3>2. size \in 1..32
      <4>1. o \in block..block + 127
        <5> HIDE DEF o
        <5>1. QED BY <1>2, <2>2, <2>8
      <4> HIDE DEF o
      <4>2. QED BY <1>2, <4>1
    <3>3. pa = at
      <4> HIDE DEF o
      <4>1. ~(o >= end)
        BY <2>6, <2>8
      <4>2. QED BY <2>3, <4>1 DEF o
    <3>4. (o + size > end => at \in {None, on}) /\ (o + size <= end => at = on)
      <4>1. ~HoldsAddress(edid, block, o)
        BY <2>5, <2>8
      <4> HIDE DEF o, next, size
      <4>2. QED BY <1>4, <2>2, <2>8, <3>1, <4>1 DEF size
    <3> HIDE DEF o, next, size, at, on
    <3>5. CASE o + size > end
      <4>1. next >= end
        BY <2>6, <3>1, <3>2, <3>5
      <4>2. pa = on \/ pa = None
        BY <3>3, <3>4, <3>5
      <4>3. QED BY <4>1, <4>2 DEF next, on
    <3>6. CASE o + size <= end
      BY <3>3, <3>4, <3>6 DEF next, on
    <3>7. QED BY <2>6, <3>2, <3>5, <3>6
  <2>9. QED BY <2>7, <2>8
<1>8. \A n \in 0..123 : Clear(n) => Along(n)
  <2>1. Nat \subseteq K
    <3> HIDE DEF K
    <3>1. QED BY <1>6, <1>7, Induction
  <2> HIDE DEF Clear, Along
  <2>2. QED BY <2>1
<1>9. CASE H = {}
  <2>1. Clear(123)
    BY <1>9
  <2>2. Along(123)
    <3> HIDE DEF Clear, Along
    <3>1. 123 \in 0..123
      OBVIOUS
    <3>2. QED BY <1>8, <2>1, <3>1
  <2>3. start[123] \in S /\ start[123] >= end
    BY <1>1
  <2>4. from[start[123]] = None
    <3> HIDE DEF S
    <3>1. QED BY <1>4, <2>3, Zenon
  <2>5. pa = None
    BY <2>2, <2>4
  <2>6. QED BY <1>5, <1>9, <2>5 DEF H, from
<1>10. CASE H # {}
  <2> DEFINE F == {n \in Nat : n <= 124 => Clear(n)}
  <2>1. PICK n \in Nat : n \in F /\ n + 1 \notin F
    <3>1. SUFFICES ASSUME \A n \in Nat : n \in F => n + 1 \in F PROVE FALSE
      OBVIOUS
    <3>2. 0 \in F
      OBVIOUS
    <3>3. 124 \in F
      <4> HIDE DEF F
      <4>1. QED BY <3>1, <3>2, Induction
    <3>4. Clear(124)
      BY <3>3
    <3>5. PICK i \in 0..123 : start[i] \in H
      BY <1>3, <1>10
    <3>6. i \in 0..124 - 1
      OBVIOUS
    <3>7. QED BY <3>4, <3>5, <3>6
  <2>2. n \in 0..123 /\ Clear(n) /\ ~Clear(n + 1)
    <3> HIDE DEF Clear
    <3>1. QED BY <2>1
  <2>3. start[n] \in H
    <3>1. PICK m \in 0..(n + 1) - 1 : start[m] \in H
      BY <2>2
    <3>2. m \notin 0..n - 1
      BY <2>2, <3>1
    <3>3. m = n
      BY <2>2, <3>2
    <3>4. QED BY <3>1, <3>3
  <2> DEFINE o == start[n]
  <2>4. o \in S /\ o < end /\ HoldsAddress(edid, block, o)
    BY <1>1, <1>3, <2>2, <2>3
  <2>5. pa = Ok(AddressAt(edid, o))
    <3>1. ~(o >= end)
      <4> HIDE DEF o
      <4>1. QED BY <1>2, <2>4
    <3>2. pa = from[o]
      <4>1. Along(n)
        <5> HIDE DEF Clear, Along
        <5>1. QED BY <1>8, <2>2
      <4>2. QED BY <3>1, <4>1
    <3> HIDE DEF o
    <3>3. from[o] = Ok(AddressAt(edid, o))
      BY <1>4, <2>4
    <3>4. QED BY <3>2, <3>3
  <2>6. ASSUME NEW p \in H PROVE o <= p
    <3>1. PICK i \in 0..123 : p = start[i]
      BY <1>3
    <3>2. i \notin 0..n - 1
      BY <2>2, <3>1
    <3>3. n <= i
      BY <2>2, <3>2
    <3>4. start[n] <= start[i]
      BY <2>2, <3>3, StartsGrow DEF start
    <3>5. QED BY <3>1, <3>4
  <2>7. QED BY <1>5, <2>3, <2>5, <2>6 DEF H, from
<1>11. QED
  BY <1>9, <1>10

\* The loop over the extensions, at each of them: it ends behind the last whole one
\* and with the address of the first that has one.
LEMMA ExtensionsAre ==
    ASSUME NEW edid \in Seq(U8), NEW block \in 128..Len(edid) + 128
    PROVE  LET pa == DataBlocks(edid, block)[block + 4]
               from == Extensions(edid)
           IN  /\ block + 128 > Len(edid) => from[block] = None
               /\ block + 128 <= Len(edid) /\ (Skipped(edid, block) \/ pa = None) =>
                     from[block] = from[block + 128]
               /\ block + 128 <= Len(edid) /\ ~Skipped(edid, block) /\ pa # None => from[block] = pa
<1> DEFINE len == Len(edid)
           S == 128..len + 128
           pa(x) == DataBlocks(edid, x)[x + 4]
           body(g, x) == IF x + 128 > len THEN None
                         ELSE IF Skipped(edid, x) \/ pa(x) = None THEN g[x + 128]
                         ELSE pa(x)
           Eq(g) == g = [x \in S |-> body(g, x)]
           from == CHOOSE g : Eq(g)
<1>1. Extensions(edid) = from
  BY DEF Extensions
<1>2. len \in Nat
  OBVIOUS
<1> HIDE DEF pa
<1>3. \E g : Eq(g)
  <2> DEFINE On == {x \in S : x + 128 <= len /\ (Skipped(edid, x) \/ pa(x) = None)}
             next == [x \in S |-> x + 128]
             here == [x \in S |-> IF x + 128 > len THEN None ELSE pa(x)]
             a == 128
             b == len + 128
  <2> HIDE DEF len
  <2>1. a \in Nat /\ b \in Nat /\ a <= b
    BY <1>2
  <2>2. ASSUME NEW x \in a..b, x \in On PROVE next[x] \in x + 1..b
    <3>1. next[x] = x + 128 /\ x + 128 <= len /\ x \in Int
      BY <1>2, <2>2
    <3>2. x + 128 \in x + 1..b
      BY <1>2, <3>1
    <3>3. QED BY <3>1, <3>2, Zenon
  <2>3. PICK g : ComesTo(g, a, b, On, next, here)
    <3> HIDE DEF a, b, On, next, here
    <3>1. QED BY <2>1, <2>2, LoopDefined, Zenon
  <2>4. g = [x \in S |-> IF x \in On THEN g[next[x]] ELSE here[x]]
    BY <2>3, Zenon DEF ComesTo
  <2>5. ASSUME NEW x \in S PROVE body(g, x) = IF x \in On THEN g[next[x]] ELSE here[x]
    <3>1. next[x] = x + 128 /\ here[x] = IF x + 128 > len THEN None ELSE pa(x)
      OBVIOUS
    <3>2. x + 128 <= len <=> ~(x + 128 > len)
      BY <1>2
    <3>3. x \in On <=> ~(x + 128 > len) /\ (Skipped(edid, x) \/ pa(x) = None)
      BY <3>2, Zenon
    <3> HIDE DEF On, next, here, S
    <3>4. QED BY <3>1, <3>3
  <2> HIDE DEF On, next, here, body
  <2>6. QED BY <2>4, <2>5
<1>4. Eq(from)
  <2> HIDE DEF Eq
  <2>1. QED BY <1>3
<1> HIDE DEF from
<1>5. from[block] = body(from, block)
  <2> HIDE DEF body
  <2>1. QED BY <1>4
<1>6. block + 128 <= len <=> ~(block + 128 > len)
  BY <1>2
<1>7. QED
  BY <1>1, <1>5, <1>6, Zenon DEF pa

\* parse_hdmi_edid_pa comes to the address in the first of all the data blocks that
\* hold one: the extensions that have one follow each other, too.
LEMMA Parsed ==
    ASSUME NEW edid \in Seq(U8)
    PROVE  LET pa == ParseHdmiEdidPa(edid)
               H  == Holding(edid, CtaBlocks(edid) \cup DoubtfulBlocks(edid))
           IN  /\ H \subseteq Nat
               /\ \/ H = {} /\ pa = None
                  \/ \E o \in H : (\A p \in H : o <= p) /\ pa = Ok(AddressAt(edid, o))
<1> DEFINE len == Len(edid)
           N == len \div 128
           from == Extensions(edid)
           H == Holding(edid, CtaBlocks(edid) \cup DoubtfulBlocks(edid))
           In(k) == HoldingIn(edid, 128 * k)
           Cta(k) == At(edid, 128 * k) = 2 \/ At(edid, 128 * k + 1) >= 3
           Hit(k) == Cta(k) /\ In(k) # {}
           Clear(k) == \A j \in 1..k - 1 : ~Hit(j)
           Along(k) == from[128] = from[128 * k]
<1>1. len \in Nat /\ N \in Nat /\ 128 * N <= len /\ len < 128 * (N + 1)
  <2>1. len \in Nat
    OBVIOUS
  <2> HIDE DEF len
  <2>2. QED BY <2>1
<1>2. \A o : o \in H <=> \E k \in 1..N - 1 : Cta(k) /\ o \in In(k)
  BY Zenon DEF Holding, CtaBlocks, DoubtfulBlocks, ExtensionBlocks, IsCta, IsRecent
<1>3. ASSUME NEW k \in 1..N - 1
      PROVE  /\ In(k) \subseteq 128 * k..128 * k + 127
             /\ ~Hit(k) => from[128 * k] = from[128 * (k + 1)]
             /\ Hit(k) => \E o \in In(k) : (\A p \in In(k) : o <= p)
                                          /\ from[128 * k] = Ok(AddressAt(edid, o))
  <2> DEFINE b == 128 * k
             pa == DataBlocks(edid, b)[b + 4]
             I == HoldingIn(edid, b)
  <2>1. b \in Nat /\ b \in 128..len + 128 /\ b + 128 <= len /\ b + 128 = 128 * (k + 1)
    <3> HIDE DEF len, N
    <3>1. QED BY <1>1
  <2> HIDE DEF b
  <2>2. /\ I \subseteq b..b + 127
        /\ \/ I = {} /\ pa = None
           \/ \E o \in I : (\A p \in I : o <= p) /\ pa = Ok(AddressAt(edid, o))
    BY <2>1, ExtensionAddress
  <2>3. /\ Skipped(edid, b) \/ pa = None => from[b] = from[b + 128]
        /\ ~Skipped(edid, b) /\ pa # None => from[b] = pa
    BY <2>1, ExtensionsAre
  <2>4. Skipped(edid, b) <=> ~(At(edid, b) = 2 \/ At(edid, b + 1) >= 3)
    <3>1. b + 1 \in b..b + 127
      BY <2>1
    <3>2. At(edid, b + 1) \in 0..255
      BY <2>1, <3>1, ExtensionBytesAre
    <3> DEFINE v == At(edid, b + 1)
    <3>3. v \in 0..255
      BY <3>2
    <3> HIDE DEF v
    <3>4. v < 3 <=> ~(v >= 3)
      BY <3>3
    <3>5. QED BY <3>4, Zenon DEF Skipped, v
  <2>5. \A o : Ok(o) # None
    BY DEF Ok, None
  <2> HIDE DEF pa, I, from
  <2>6. ~(~Skipped(edid, b) /\ I # {}) => from[b] = from[b + 128]
    BY <2>2, <2>3
  <2>7. ~Skipped(edid, b) /\ I # {} => \E o \in I : (\A p \in I : o <= p) /\ from[b] = Ok(AddressAt(edid, o))
    BY <2>2, <2>3, <2>5
  <2>8. QED BY <2>1, <2>2, <2>4, <2>6, <2>7, Zenon DEF b, I
<1> HIDE DEF In, Cta, from, H, len, N
<1>4. H \subseteq Nat
  <2> SUFFICES ASSUME NEW o \in H PROVE o \in Nat
    OBVIOUS
  <2>1. PICK k \in 1..N - 1 : o \in In(k)
    BY <1>2
  <2>2. o \in 128 * k..128 * k + 127
    BY <1>3, <2>1
  <2>3. QED BY <1>1, <2>2
<1>5. ASSUME NEW k \in Nat, k + 1 <= N, Clear(k + 1) PROVE Along(k + 1)
  <2> DEFINE K == {n \in Nat : n <= k => Along(n + 1)}
  <2>1. 0 \in K
    OBVIOUS
  <2>2. ASSUME NEW n \in Nat, n \in K PROVE n + 1 \in K
    <3> SUFFICES ASSUME n + 1 <= k PROVE Along((n + 1) + 1)
      <4> HIDE DEF Along
      <4>1. QED OBVIOUS
    <3>1. Along(n + 1)
      <4> HIDE DEF Along
      <4>1. QED BY <2>2
    <3>2. n + 1 \in 1..N - 1 /\ n + 1 \in 1..(k + 1) - 1
      BY <1>1, <1>5
    <3>3. ~Hit(n + 1)
      BY <1>5, <3>2
    <3>4. from[128 * (n + 1)] = from[128 * ((n + 1) + 1)]
      <4> HIDE DEF Hit
      <4>1. QED BY <1>3, <3>2, <3>3
    <3>5. QED BY <3>1, <3>4, Zenon
  <2>3. k \in K
    <3> HIDE DEF K
    <3>1. QED BY <2>1, <2>2, Induction
  <2>4. QED BY <2>3
<1>6. CASE \A k \in 1..N - 1 : ~Hit(k)
  <2>1. H = {}
    BY <1>2, <1>6
  <2>2. from[128] = None
    <3>1. CASE N = 0
      <4>1. 128 \in 128..len + 128 /\ 128 + 128 > len
        BY <1>1, <3>1
      <4>2. QED BY <4>1, ExtensionsAre DEF from, len
    <3>2. CASE N # 0
      <4> DEFINE b == 128 * N
      <4>1. N - 1 \in Nat /\ (N - 1) + 1 = N /\ (N - 1) + 1 <= N
        BY <1>1, <3>2
      <4>2. Clear((N - 1) + 1)
        <5> HIDE DEF Hit
        <5>1. QED BY <1>6, <4>1
      <4>3. from[128] = from[b]
        <5>1. Along((N - 1) + 1)
          <6> HIDE DEF Clear, Along
          <6>1. QED BY <1>5, <4>1, <4>2
        <5>2. QED BY <4>1, <5>1
      <4>4. b \in 128..len + 128 /\ b + 128 > len
        BY <1>1, <3>2
      <4> HIDE DEF b
      <4>5. from[b] = None
        BY <4>4, ExtensionsAre DEF from, len
      <4>6. QED BY <4>3, <4>5
    <3>3. QED BY <3>1, <3>2
  <2>3. QED BY <1>4, <2>1, <2>2 DEF H, from, ParseHdmiEdidPa
<1>7. CASE \E k \in 1..N - 1 : Hit(k)
  <2> DEFINE F == {n \in Nat : n <= N => Clear(n)}
  <2>1. PICK k \in Nat : k \in F /\ k + 1 \notin F
    <3>1. SUFFICES ASSUME \A n \in Nat : n \in F => n + 1 \in F PROVE FALSE
      OBVIOUS
    <3>2. 0 \in F
      OBVIOUS
    <3>3. N \in F
      <4> HIDE DEF F
      <4>1. QED BY <1>1, <3>1, <3>2, Induction
    <3>4. Clear(N)
      BY <1>1, <3>3
    <3> HIDE DEF Hit
    <3>5. QED BY <1>7, <3>4
  <2>2. k + 1 <= N /\ Clear(k) /\ ~Clear(k + 1)
    <3> HIDE DEF Clear
    <3>1. QED BY <1>1, <2>1
  <2>3. k \in 1..N - 1 /\ Hit(k)
    <3> HIDE DEF Hit
    <3>1. PICK j \in 1..(k + 1) - 1 : Hit(j)
      BY <2>2
    <3>2. j \notin 1..k - 1
      BY <2>2, <3>1
    <3>3. j = k
      BY <2>2, <3>2
    <3>4. QED BY <1>1, <2>2, <3>1, <3>3
  <2>4. from[128] = from[128 * k]
    <3>1. k - 1 \in Nat /\ (k - 1) + 1 = k /\ (k - 1) + 1 <= N
      BY <1>1, <2>3
    <3>2. Clear((k - 1) + 1)
      <4> HIDE DEF Clear
      <4>1. QED BY <2>2, <3>1
    <3>3. Along((k - 1) + 1)
      <4> HIDE DEF Clear, Along
      <4>1. QED BY <1>5, <3>1, <3>2
    <3>4. QED BY <3>1, <3>3
  <2>5. PICK o \in In(k) : (\A p \in In(k) : o <= p) /\ from[128 * k] = Ok(AddressAt(edid, o))
    BY <1>3, <2>3
  <2>6. o \in H
    BY <1>2, <2>3, <2>5
  <2>7. ASSUME NEW p \in H PROVE o <= p
    <3>1. PICK j \in 1..N - 1 : Cta(j) /\ p \in In(j)
      BY <1>2
    <3>2. j \notin 1..k - 1
      BY <2>2, <3>1
    <3>3. CASE j = k
      BY <2>5, <3>1, <3>3
    <3>4. CASE j # k
      <4>1. j >= k + 1
        BY <1>1, <2>3, <3>2, <3>4
      <4>2. o \in 128 * k..128 * k + 127 /\ p \in 128 * j..128 * j + 127
        BY <1>3, <2>3, <2>5, <3>1
      <4>3. QED BY <1>1, <2>3, <4>1, <4>2
    <3>5. QED BY <3>3, <3>4
  <2>8. QED BY <1>4, <2>4, <2>5, <2>6, <2>7 DEF H, from, ParseHdmiEdidPa
<1>8. QED
  BY <1>6, <1>7

\* The four ways a conversion may end are told apart by their tag.
LEMMA Tags ==
    /\ \A v : Ok(v).is = "ok" /\ Ok(v).val = v
    /\ Err.is = "error" /\ None.is = "none" /\ Panic.is = "panic"
    /\ "ok" # "error" /\ "ok" # "none" /\ "ok" # "panic" /\ "error" # "panic" /\ "none" # "panic"
BY DEF Ok, Err, None, Panic

\* The address that extensions tell is nothing or a number.
LEMMA AddressInIs ==
    ASSUME NEW edid, NEW blocks
    PROVE  \/ AddressIn(edid, blocks) = None
           \/ \E v : AddressIn(edid, blocks) = Ok(v)
BY Zenon DEF AddressIn

\* The parser agrees with the reference, with all the doubtful extensions in it.
LEMMA ParsedIsAddressIn ==
    ASSUME NEW edid \in Seq(U8)
    PROVE  ParseHdmiEdidPa(edid) = AddressIn(edid, CtaBlocks(edid) \cup DoubtfulBlocks(edid))
<1> DEFINE pa == ParseHdmiEdidPa(edid)
           B == CtaBlocks(edid) \cup DoubtfulBlocks(edid)
           H == Holding(edid, B)
           least == CHOOSE o \in H : \A p \in H : o <= p
<1>1. /\ H \subseteq Nat
      /\ \/ H = {} /\ pa = None
         \/ \E o \in H : (\A p \in H : o <= p) /\ pa = Ok(AddressAt(edid, o))
  BY Parsed
<1>2. AddressIn(edid, B) = IF H = {} THEN None ELSE Ok(AddressAt(edid, least))
  BY DEF AddressIn
<1> HIDE DEF pa, H, B
<1>3. ASSUME H = {}, pa = None PROVE pa = AddressIn(edid, B)
  BY <1>2, <1>3
<1>4. ASSUME NEW o \in H, \A p \in H : o <= p, pa = Ok(AddressAt(edid, o))
      PROVE  pa = AddressIn(edid, B)
  <2>1. least \in H /\ \A p \in H : least <= p
    BY <1>4
  <2> HIDE DEF least
  <2>2. o <= least /\ least <= o /\ o \in Nat /\ least \in Nat
    BY <1>1, <1>4, <2>1
  <2>3. o = least
    BY <2>2
  <2>4. QED BY <1>2, <1>4, <2>3
<1>5. pa = AddressIn(edid, B)
  BY <1>1, <1>2, <1>3, <1>4
<1>6. QED
  BY <1>5 DEF pa, B

\* So it comes to what the EDID may be taken to tell: nothing or a number.
LEMMA ParsedIsTold ==
    ASSUME NEW edid \in Seq(U8)
    PROVE  /\ ParseHdmiEdidPa(edid) \in Told(edid)
           /\ \/ ParseHdmiEdidPa(edid) = None
              \/ \E v : ParseHdmiEdidPa(edid) = Ok(v)
<1>1. DoubtfulBlocks(edid) \in SUBSET DoubtfulBlocks(edid)
  OBVIOUS
<1>2. ParseHdmiEdidPa(edid) = AddressIn(edid, CtaBlocks(edid) \cup DoubtfulBlocks(edid))
  BY ParsedIsAddressIn
<1>3. ParseHdmiEdidPa(edid) \in Told(edid)
  BY <1>1, <1>2, Zenon DEF Told
<1>4. QED
  BY <1>2, <1>3, AddressInIs, Zenon

\* What a connector adds to the search is the address its EDID tells, if it is
\* connected and the address can be used.
LEMMA FromConnector ==
    ASSUME NEW c, c.edid \in Seq(U8)
    PROVE  LET usable == /\ c.status = "connected"
                         /\ ParseHdmiEdidPa(c.edid) \notin {None, Ok(0), Ok(CEC_PHYS_ADDR_INVALID)}
           IN  /\ usable => FromDrmPath(c) = ParseHdmiEdidPa(c.edid) /\ FromDrmPath(c) # None
               /\ ~usable => FromDrmPath(c) = None
<1> DEFINE pa == ParseHdmiEdidPa(c.edid)
<1>1. FromDrmPath(c) = IF c.status = "connected"
                       THEN IF pa.is = "ok" /\ pa.val \in {0, CEC_PHYS_ADDR_INVALID} THEN None ELSE pa
                       ELSE None
  <2>1. ConnectorAddress(c.edid) =
            IF pa.is = "ok" /\ pa.val \in {0, CEC_PHYS_ADDR_INVALID} THEN None ELSE pa
    BY DEF ConnectorAddress
  <2> HIDE DEF pa
  <2>2. QED BY <2>1 DEF FromDrmPath
<1>2. pa.is = "ok" /\ pa.val \in {0, CEC_PHYS_ADDR_INVALID} <=> pa \in {Ok(0), Ok(CEC_PHYS_ADDR_INVALID)}
  <2>1. CASE pa = None
    <3>1. pa.is # "ok"
      BY <2>1, Tags, Zenon
    <3>2. QED BY <3>1, Tags, Zenon
  <2>2. ASSUME NEW v, pa = Ok(v)
        PROVE  pa.is = "ok" /\ pa.val \in {0, CEC_PHYS_ADDR_INVALID} <=> pa \in {Ok(0), Ok(CEC_PHYS_ADDR_INVALID)}
    <3>1. \A w : Ok(w) = Ok(v) <=> w = v
      <4>1. ASSUME NEW w, Ok(w) = Ok(v) PROVE w = v
        <5>1. Ok(w).val = w /\ Ok(v).val = v
          BY Tags, Zenon
        <5>2. QED BY <4>1, <5>1, Zenon
      <4>2. QED BY <4>1, Zenon
    <3>2. pa.is = "ok" /\ pa.val = v
      BY <2>2, Tags, Zenon
    <3>3. QED BY <2>2, <3>1, <3>2, Zenon
  <2>3. QED BY <2>1, <2>2, ParsedIsTold, Zenon
<1>3. QED
  BY <1>1, <1>2, Zenon

\* The search ends with the address of the one connector that has a usable one, if
\* all of them can be read.
LEMMA Found ==
    ASSUME NEW all \in Seq([status : {"connected", "disconnected", "unreadable"}, edid : Seq(U8)])
    PROVE  LET shown == {i \in DOMAIN all :
                          /\ all[i].status = "connected"
                          /\ ParseHdmiEdidPa(all[i].edid) \notin {None, Ok(0), Ok(CEC_PHYS_ADDR_INVALID)}}
               one   == /\ \A i \in DOMAIN all : all[i].status # "unreadable"
                        /\ \E i \in shown : shown = {i}
           IN  /\ one => \E i \in shown : /\ shown = {i}
                                          /\ FindPhysicalAddress(all) = ParseHdmiEdidPa(all[i].edid)
                                          /\ FindPhysicalAddress(all) # None
               /\ ~one => FindPhysicalAddress(all) = None
<1> DEFINE usable(i) == /\ all[i].status = "connected"
                        /\ ParseHdmiEdidPa(all[i].edid) \notin {None, Ok(0), Ok(CEC_PHYS_ADDR_INVALID)}
           shown == {i \in DOMAIN all : usable(i)}
           found == {i \in DOMAIN all : FromDrmPath(all[i]) # None}
           readable == \A i \in DOMAIN all : all[i].status # "unreadable"
<1>1. ASSUME NEW i \in DOMAIN all
      PROVE  /\ usable(i) => FromDrmPath(all[i]) = ParseHdmiEdidPa(all[i].edid) /\ FromDrmPath(all[i]) # None
             /\ ~usable(i) => FromDrmPath(all[i]) = None
  <2>1. all[i].edid \in Seq(U8)
    <3> DEFINE T == [status : {"connected", "disconnected", "unreadable"}, edid : Seq(U8)]
    <3>1. all \in Seq(T)
      OBVIOUS
    <3>2. \A c \in T : c.edid \in Seq(U8)
      OBVIOUS
    <3> HIDE DEF T
    <3>3. all[i] \in T
      BY <3>1
    <3>4. QED BY <3>2, <3>3
  <2>2. QED BY <2>1, FromConnector, Zenon
<1>2. found = shown
  BY <1>1, Zenon
<1>3. FindPhysicalAddress(all) = IF readable /\ \E i \in found : found = {i}
                                 THEN FromDrmPath(all[CHOOSE i \in found : TRUE]) ELSE None
  BY Zenon DEF FindPhysicalAddress
<1>4. ASSUME readable, NEW i \in shown, shown = {i}
      PROVE  FindPhysicalAddress(all) = ParseHdmiEdidPa(all[i].edid) /\ FindPhysicalAddress(all) # None
  <2> DEFINE j == CHOOSE j \in shown : TRUE
  <2>1. j = i
    BY <1>4, Zenon
  <2>2. FindPhysicalAddress(all) = FromDrmPath(all[j])
    BY <1>2, <1>3, <1>4, Zenon
  <2>3. QED BY <1>1, <2>1, <2>2, Zenon
<1>5. ~(readable /\ \E i \in shown : shown = {i}) => FindPhysicalAddress(all) = None
  BY <1>2, <1>3, Zenon
<1> HIDE DEF shown
<1>6. (readable /\ \E i \in shown : shown = {i}) =>
          \E i \in shown : /\ shown = {i}
                           /\ FindPhysicalAddress(all) = ParseHdmiEdidPa(all[i].edid)
                           /\ FindPhysicalAddress(all) # None
  BY <1>4, Zenon
<1>7. QED
  BY <1>5, <1>6, Zenon DEF shown

-----------------------------------------------------------------------------
(* The specification.                                                      *)

\* Every outcome is that of its input.
Converted ==
    \/ input = Idle /\ outcome = None
    \/ \E name \in Names : /\ input = [of |-> "name", name |-> name]
                           /\ outcome = LET kept == TrimmedOsdName(name) IN
                                        IF kept = Panic THEN Panic ELSE FillOsdName(kept.val)
    \/ \E text \in AddressTexts : /\ input = [of |-> "address", text |-> text]
                                  /\ outcome = AddressFromStr(text)
    \/ \E text \in VendorTexts : /\ input = [of |-> "vendor", text |-> text]
                                 /\ outcome = VendorFromStr(text)
    \/ \E edid \in Edids : /\ input = [of |-> "edid", edid |-> edid]
                           /\ outcome = ParseHdmiEdidPa(edid)
    \/ \E connectors \in Connectors : /\ input = [of |-> "connectors", connectors |-> connectors]
                                      /\ outcome = FindPhysicalAddress(connectors)
    \/ \E mode \in 0..255, m \in DOMAIN CEC_MODE_INITIATOR :
           /\ input = [of |-> "mode", mode |-> mode, half |-> "initiator", m |-> m]
           /\ outcome = Ok(<<InitiatorMode(WithInitiator(mode, m)), FollowerMode(WithInitiator(mode, m))>>)
    \/ \E mode \in 0..255, m \in DOMAIN CEC_MODE_FOLLOWER :
           /\ input = [of |-> "mode", mode |-> mode, half |-> "follower", m |-> m]
           /\ outcome = Ok(<<InitiatorMode(WithFollower(mode, m)), FollowerMode(WithFollower(mode, m))>>)
    \/ \E types \in Claims : /\ input = [of |-> "claim", types |-> types]
                             /\ outcome = LogAddrs(types)

\* No step leaves an outcome beside an input it was not made of.
THEOREM Conversion == Spec => []Converted
<1>1. Init => Converted
  BY DEF Init, Converted
<1>2. Converted /\ [Next]_vars => Converted'
  <2> SUFFICES ASSUME Converted, [Next]_vars PROVE Converted'
    OBVIOUS
  <2>1. ASSUME NEW name \in Names, ConfigureName(name) PROVE Converted'
    BY <2>1, Zenon DEF ConfigureName, Converts, Converted
  <2>2. ASSUME NEW text \in AddressTexts, ParseAddress(text) PROVE Converted'
    BY <2>2, Zenon DEF ParseAddress, Converts, Converted
  <2>3. ASSUME NEW text \in VendorTexts, ParseVendor(text) PROVE Converted'
    BY <2>3, Zenon DEF ParseVendor, Converts, Converted
  <2>4. ASSUME NEW mode \in 0..255, NEW m \in DOMAIN CEC_MODE_INITIATOR, SetMode(mode, "initiator", m)
        PROVE  Converted'
    BY <2>4 DEF SetMode, Converts, Converted
  <2>5. ASSUME NEW mode \in 0..255, NEW m \in DOMAIN CEC_MODE_FOLLOWER, SetMode(mode, "follower", m)
        PROVE  Converted'
    BY <2>5 DEF SetMode, Converts, Converted
  <2>6. ASSUME NEW types \in Claims, Claim(types) PROVE Converted'
    BY <2>6, Zenon DEF Claim, Converts, Converted
  <2>7. ASSUME NEW edid \in Edids, ParseEdid(edid) PROVE Converted'
    BY <2>7, Zenon DEF ParseEdid, Converts, Converted
  <2>8. ASSUME NEW connectors \in Connectors, Search(connectors) PROVE Converted'
    BY <2>8, Zenon DEF Search, Converts, Converted
  <2>9. CASE Done
    BY <2>9, Zenon DEF Done, Converted
  <2>10. CASE UNCHANGED vars
    BY <2>10, Zenon DEF vars, Converted
  <2>11. QED
    BY <2>1, <2>2, <2>3, <2>4, <2>5, <2>6, <2>7, <2>8, <2>9, <2>10, Zenon DEF Next
<1>3. QED
  BY <1>1, <1>2, PTL DEF Spec

\* An outcome by the kind of its input.
LEMMA Kinds ==
    ASSUME Converted
    PROVE  /\ input.of = "name" =>
                 /\ input.name \in Names
                 /\ outcome = LET kept == TrimmedOsdName(input.name) IN
                              IF kept = Panic THEN Panic ELSE FillOsdName(kept.val)
           /\ input.of = "address" => input.text \in AddressTexts /\ outcome = AddressFromStr(input.text)
           /\ input.of = "vendor" => input.text \in VendorTexts /\ outcome = VendorFromStr(input.text)
           /\ input.of = "edid" => input.edid \in Edids /\ outcome = ParseHdmiEdidPa(input.edid)
           /\ input.of = "connectors" => /\ input.connectors \in Connectors
                                         /\ outcome = FindPhysicalAddress(input.connectors)
           /\ input.of = "mode" =>
                 \/ /\ input.half = "initiator"
                    /\ input.mode \in 0..255 /\ input.m \in DOMAIN CEC_MODE_INITIATOR
                    /\ outcome = Ok(<<InitiatorMode(WithInitiator(input.mode, input.m)),
                                      FollowerMode(WithInitiator(input.mode, input.m))>>)
                 \/ /\ input.half = "follower"
                    /\ input.mode \in 0..255 /\ input.m \in DOMAIN CEC_MODE_FOLLOWER
                    /\ outcome = Ok(<<InitiatorMode(WithFollower(input.mode, input.m)),
                                      FollowerMode(WithFollower(input.mode, input.m))>>)
           /\ input.of = "claim" => input.types \in Claims /\ outcome = LogAddrs(input.types)
<1>1. CASE input = Idle
  BY <1>1 DEF Idle
<1>2. ASSUME NEW name \in Names, input = [of |-> "name", name |-> name],
             outcome = LET kept == TrimmedOsdName(name) IN
                       IF kept = Panic THEN Panic ELSE FillOsdName(kept.val)
      PROVE  /\ input.of = "name" /\ input.name = name
  BY <1>2
<1>3. ASSUME NEW text, input = [of |-> "address", text |-> text]
      PROVE  input.of = "address" /\ input.text = text
  BY <1>3
<1>4. ASSUME NEW text, input = [of |-> "vendor", text |-> text]
      PROVE  input.of = "vendor" /\ input.text = text
  BY <1>4
<1>5. ASSUME NEW mode, NEW half, NEW m, input = [of |-> "mode", mode |-> mode, half |-> half, m |-> m]
      PROVE  input.of = "mode" /\ input.mode = mode /\ input.half = half /\ input.m = m
  BY <1>5
<1>6. ASSUME NEW types, input = [of |-> "claim", types |-> types]
      PROVE  input.of = "claim" /\ input.types = types
  BY <1>6
<1>7. ASSUME NEW edid, input = [of |-> "edid", edid |-> edid]
      PROVE  input.of = "edid" /\ input.edid = edid
  BY <1>7
<1>8. ASSUME NEW connectors, input = [of |-> "connectors", connectors |-> connectors]
      PROVE  input.of = "connectors" /\ input.connectors = connectors
  BY <1>8
<1>9. QED
  BY <1>1, <1>2, <1>3, <1>4, <1>5, <1>6, <1>7, <1>8 DEF Converted

\* The name that configure_dev sets is the longest part of the configured one
\* that ends with a character and has at most 14 bytes, for names of any
\* length, and the unreachable! in trimmed_osd_name is not reached.
THEOREM NamesAreTrimmed == Spec => []NameTrimmed
<1>1. Converted => NameTrimmed
  <2> SUFFICES ASSUME Converted, input.of = "name" PROVE NameTrimmed
    BY DEF NameTrimmed
  <2> DEFINE name == input.name
             at == Offsets(name)
  <2>1. name \in Seq(1..4)
    BY Kinds, SettingsAssumption
  <2>2. outcome = LET kept == TrimmedOsdName(name) IN
                  IF kept = Panic THEN Panic ELSE FillOsdName(kept.val)
    BY Kinds
  <2> HIDE DEF name
  <2>3. name \in Seq(Nat) /\ Len(name) \in Nat
    BY <2>1
  <2>4. PICK k \in 0..Len(name) : /\ TrimmedOsdName(name) = Ok(at[k])
                                  /\ at[k] \in 0..14
                                  /\ k < Len(name) => at[k + 1] > 14
    BY <2>1, TrimmedName
  <2>5. outcome = Ok(at[k]) /\ outcome.val = at[k]
    <3>1. Ok(at[k]) # Panic /\ Ok(at[k]).val = at[k]
      BY DEF Ok, Panic
    <3>2. ~(at[k] > 14)
      BY <2>4
    <3>3. QED BY <2>2, <2>4, <3>1, <3>2 DEF FillOsdName
  <2>6. Bytes(SubSeq(name, 1, k)) = at[k]
    BY <2>3, PrefixBytes
  <2>7. k < Len(name) => Bytes(SubSeq(name, 1, k + 1)) > 14
    <3> SUFFICES ASSUME k < Len(name) PROVE Bytes(SubSeq(name, 1, k + 1)) > 14
      OBVIOUS
    <3>1. k + 1 \in 0..Len(name)
      BY <2>3
    <3>2. QED BY <2>3, <2>4, <3>1, PrefixBytes
  <2>8. at[k] <= 14
    BY <2>4
  <2>9. QED BY <2>5, <2>6, <2>7, <2>8 DEF NameTrimmed, name
<1>2. QED
  BY <1>1, Conversion, PTL

\* Whatever text is read as an address or a vendor is one of its spellings,
\* and every spelling is read as what it spells: for every text, the Display and
\* FromStr of PhysicalAddress and VendorId agree.
THEOREM TextsAreExact == Spec => []TextExact
<1>1. Converted => TextExact
  <2> SUFFICES ASSUME Converted PROVE TextExact
    OBVIOUS
  <2>1. ASSUME input.of = "address"
        PROVE  /\ outcome # Err => outcome.val \in U16 /\ input.text \in Spellings(outcome.val)
               /\ \A a \in Addresses : input.text \in Spellings(a) => outcome = Ok(a)
    <3> DEFINE t == input.text
    <3>1. t \in AddressTexts /\ outcome = AddressFromStr(t)
      BY <2>1, Kinds
    <3>2. t \in Seq(Nat) /\ Addresses \subseteq U16
      BY <3>1, SettingsAssumption
    <3> HIDE DEF t
    <3>3. ASSUME outcome # Err PROVE outcome.val \in U16 /\ t \in Spellings(outcome.val)
      BY <3>1, <3>2, <3>3, AddressRead, OkIsNoError, Zenon
    <3>4. ASSUME NEW a \in Addresses, t \in Spellings(a) PROVE outcome = Ok(a)
      BY <3>1, <3>2, <3>4, AddressWritten, Zenon
    <3>5. QED BY <3>3, <3>4, Zenon DEF t
  <2>2. ASSUME input.of = "vendor"
        PROVE  /\ outcome # Err => input.text \in VendorSpellings(outcome.val)
               /\ \A id \in Vendors : input.text \in VendorSpellings(id) => outcome = Ok(id)
    <3> DEFINE t == input.text
    <3>1. t \in VendorTexts /\ outcome = VendorFromStr(t)
      BY <2>2, Kinds
    <3>2. t \in Seq(Nat) /\ Vendors \subseteq U8 \X U8 \X U8
      BY <3>1, SettingsAssumption
    <3> HIDE DEF t
    <3>3. ASSUME outcome # Err PROVE t \in VendorSpellings(outcome.val)
      BY <3>1, <3>2, <3>3, VendorRead, Zenon
    <3>4. ASSUME NEW id \in Vendors, t \in VendorSpellings(id) PROVE outcome = Ok(id)
      BY <3>1, <3>2, <3>4, VendorWritten, Zenon
    <3>5. QED BY <3>3, <3>4, Zenon DEF t
  <2>3. QED BY <2>1, <2>2, Zenon DEF TextExact
<1>2. QED
  BY <1>1, Conversion, PTL

\* Setting one mode leaves the other, whatever the byte was, and the tables of
\* LogicalAddress and LogicalAddressType agree for claims of every length.
THEOREM SettingsAreKept == Spec => []SettingsKept
<1>1. Converted => SettingsKept
  <2> SUFFICES ASSUME Converted PROVE SettingsKept
    OBVIOUS
  <2>1. ASSUME input.of = "mode"
        PROVE  /\ outcome.val[1] = IF input.half = "initiator" THEN Ok(input.m) ELSE InitiatorMode(input.mode)
               /\ outcome.val[2] = IF input.half = "follower" THEN Ok(input.m) ELSE FollowerMode(input.mode)
    <3>1. ASSUME NEW x, NEW y, outcome = Ok(<<x, y>>) PROVE outcome.val[1] = x /\ outcome.val[2] = y
      BY <3>1 DEF Ok
    <3>2. "initiator" # "follower"
      OBVIOUS
    <3>3. CASE /\ input.half = "initiator"
               /\ input.mode \in 0..255 /\ input.m \in DOMAIN CEC_MODE_INITIATOR
               /\ outcome = Ok(<<InitiatorMode(WithInitiator(input.mode, input.m)),
                                 FollowerMode(WithInitiator(input.mode, input.m))>>)
      BY <3>1, <3>2, <3>3, InitiatorSet
    <3>4. CASE /\ input.half = "follower"
               /\ input.mode \in 0..255 /\ input.m \in DOMAIN CEC_MODE_FOLLOWER
               /\ outcome = Ok(<<InitiatorMode(WithFollower(input.mode, input.m)),
                                 FollowerMode(WithFollower(input.mode, input.m))>>)
      BY <3>1, <3>2, <3>4, FollowerSet
    <3>5. QED BY <2>1, <3>3, <3>4, Kinds
  <2>2. ASSUME input.of = "claim", Len(input.types) <= CEC_MAX_LOG_ADDRS,
               NEW i \in DOMAIN input.types, NEW a \in CEC_LOG_ADDR[input.types[i]]
        PROVE  /\ Ty(a) = {input.types[i]}
               /\ PrimaryOfAddress(a) = {outcome.val[i].primary_device_type} \ {\hFF}
    <3> DEFINE types == input.types
    <3>1. types \in Seq(Types) /\ outcome = LogAddrs(types)
      BY <2>2, Kinds, SettingsAssumption
    <3>2. types[i] \in Types /\ i \in 1..Len(types) /\ Len(types) \in Nat
      BY <2>2, <3>1
    <3> HIDE DEF types
    <3>3. outcome = Ok([n \in 1..Len(types) |->
                          [log_addr_type |-> CEC_LOG_ADDR_TYPE[types[n]],
                           primary_device_type |-> PrimaryOfType(types[n])]])
      BY <2>2, <3>1, <3>2 DEF LogAddrs, CEC_MAX_LOG_ADDRS, types
    <3>4. outcome.val[i].primary_device_type = PrimaryOfType(types[i])
      BY <3>2, <3>3, OkIsNoError
    <3>5. QED BY <2>2, <3>2, <3>4, TypeOfAddress DEF types
  <2>3. ASSUME input.of = "claim", Len(input.types) > CEC_MAX_LOG_ADDRS PROVE outcome = Err
    BY <2>3, Kinds DEF LogAddrs
  <2>4. QED BY <2>1, <2>2, <2>3 DEF SettingsKept
<1>2. QED
  BY <1>1, Conversion, PTL

\* parse_hdmi_edid_pa finds the address of the first whole HDMI data block,
\* whatever bytes the EDID has and however many, and find_physical_address takes
\* exactly the only usable one of any number of connectors.
THEOREM EdidsAreExact == Spec => []EdidExact
<1>1. Converted => EdidExact
  <2> SUFFICES ASSUME Converted PROVE EdidExact
    OBVIOUS
  <2>1. ASSUME input.of = "edid" PROVE outcome \in Told(input.edid)
    <3>1. input.edid \in Seq(U8) /\ outcome = ParseHdmiEdidPa(input.edid)
      BY <2>1, Kinds, SettingsAssumption
    <3>2. QED BY <3>1, ParsedIsTold
  <2> DEFINE all == input.connectors
             Shown(told) == {i \in DOMAIN all :
                              /\ all[i].status = "connected"
                              /\ told[i] \notin {None, Ok(0), Ok(CEC_PHYS_ADDR_INVALID)}}
             Explains(told) ==
                 /\ \A i \in DOMAIN all : told[i] \in Told(all[i].edid)
                 /\ outcome # None => \E i \in Shown(told) : Shown(told) = {i} /\ outcome = told[i]
                 /\ outcome = None => \/ \E i \in DOMAIN all : all[i].status = "unreadable"
                                     \/ \A i \in Shown(told) : Shown(told) # {i}
             parsed == [i \in DOMAIN all |-> ParseHdmiEdidPa(all[i].edid)]
  <2>2. ASSUME input.of = "connectors"
        PROVE  \E told \in [DOMAIN all -> UNION {Told(all[i].edid) : i \in DOMAIN all}] : Explains(told)
    <3> DEFINE shown == {i \in DOMAIN all :
                          /\ all[i].status = "connected"
                          /\ ParseHdmiEdidPa(all[i].edid) \notin {None, Ok(0), Ok(CEC_PHYS_ADDR_INVALID)}}
               one == /\ \A i \in DOMAIN all : all[i].status # "unreadable"
                      /\ \E i \in shown : shown = {i}
               T == [status : {"connected", "disconnected", "unreadable"}, edid : Seq(U8)]
    <3>1. all \in Connectors /\ outcome = FindPhysicalAddress(all)
      BY <2>2, Kinds
    <3>2. all \in Seq(T)
      BY <3>1, SettingsAssumption
    <3>3. /\ one => \E i \in shown : /\ shown = {i}
                                     /\ outcome = ParseHdmiEdidPa(all[i].edid)
                                     /\ outcome # None
          /\ ~one => outcome = None
      BY <3>1, <3>2, Found, Zenon
    <3>4. ASSUME NEW i \in DOMAIN all PROVE all[i].edid \in Seq(U8)
      <4>1. \A c \in T : c.edid \in Seq(U8)
        OBVIOUS
      <4> HIDE DEF T, all
      <4>2. all[i] \in T
        BY <3>2
      <4>3. QED BY <4>1, <4>2
    <3> HIDE DEF all, T
    <3>5. ASSUME NEW i \in DOMAIN all
          PROVE  parsed[i] = ParseHdmiEdidPa(all[i].edid) /\ parsed[i] \in Told(all[i].edid)
      <4>1. parsed[i] = ParseHdmiEdidPa(all[i].edid)
        BY Zenon
      <4>2. QED BY <3>4, <4>1, ParsedIsTold, Zenon
    <3>6. parsed \in [DOMAIN all -> UNION {Told(all[i].edid) : i \in DOMAIN all}]
      <4>1. parsed = [i \in DOMAIN all |-> parsed[i]]
        BY Zenon
      <4> HIDE DEF parsed
      <4>2. QED BY <3>5, <4>1
    <3> HIDE DEF parsed
    <3>7. Shown(parsed) = shown
      BY <3>5, Zenon
    <3> HIDE DEF Shown, shown
    <3>8. \A i \in shown : i \in DOMAIN all
      BY Zenon DEF shown
    <3>9. Explains(parsed)
      BY <3>3, <3>5, <3>7, <3>8, Zenon
    <3> HIDE DEF Explains
    <3>10. QED BY <3>6, <3>9, Zenon
  <2>3. QED BY <2>1, <2>2, Zenon DEF EdidExact
<1>2. QED
  BY <1>1, Conversion, PTL

\* No name, no text, no EDID, no set of connectors, no mode and no claim makes its
\* conversion panic: the slices of parse_hdmi_edid_pa stay in the EDID, and the
\* unreachable! of trimmed_osd_name is not reached.
THEOREM NothingPanics == Spec => []NeverPanics
<1>1. Converted /\ NameTrimmed /\ EdidExact => NeverPanics
  <2> SUFFICES ASSUME Converted, NameTrimmed, EdidExact PROVE NeverPanics
    OBVIOUS
  <2>1. \A v : outcome = Ok(v) => NeverPanics
    BY Tags, Zenon DEF NeverPanics
  <2>2. outcome = Err \/ outcome = None => NeverPanics
    BY Tags, Zenon DEF NeverPanics
  <2>3. CASE input.of = "name"
    BY <2>1, <2>3, Zenon DEF NameTrimmed
  <2>4. CASE input.of = "address"
    <3> DEFINE t == input.text
    <3>1. t \in Seq(Nat) /\ outcome = AddressFromStr(t)
      BY <2>4, Kinds, SettingsAssumption
    <3> HIDE DEF t
    <3>2. QED BY <2>1, <2>2, <3>1, AddressRead, Zenon
  <2>5. CASE input.of = "vendor"
    BY <2>1, <2>2, <2>5, Kinds, Zenon DEF VendorFromStr
  <2>6. CASE input.of = "edid"
    <3>1. \E blocks : outcome = AddressIn(input.edid, blocks)
      BY <2>6, Zenon DEF EdidExact, Told
    <3>2. QED BY <2>1, <2>2, <3>1, AddressInIs, Zenon
  <2>7. CASE input.of = "connectors"
    <3>1. outcome = None \/ \E edid : outcome \in Told(edid)
      BY <2>7, Zenon DEF EdidExact
    <3>2. outcome = None \/ \E edid, blocks : outcome = AddressIn(edid, blocks)
      BY <3>1, Zenon DEF Told
    <3>3. QED BY <2>1, <2>2, <3>2, AddressInIs, Zenon
  <2>8. CASE input.of = "mode"
    BY <2>1, <2>8, Kinds, Zenon
  <2>9. CASE input.of = "claim"
    BY <2>1, <2>2, <2>9, Kinds, Zenon DEF LogAddrs
  <2>10. CASE input = Idle /\ outcome = None
    BY <2>2, <2>10
  <2>11. input.of \in {"name", "address", "vendor", "edid", "connectors", "mode", "claim"}
         \/ (input = Idle /\ outcome = None)
    <3>1. \A name : input = [of |-> "name", name |-> name] => input.of = "name"
      OBVIOUS
    <3>2. \A text : /\ input = [of |-> "address", text |-> text] => input.of = "address"
                    /\ input = [of |-> "vendor", text |-> text] => input.of = "vendor"
      OBVIOUS
    <3>3. \A edid : input = [of |-> "edid", edid |-> edid] => input.of = "edid"
      OBVIOUS
    <3>4. \A connectors : input = [of |-> "connectors", connectors |-> connectors] => input.of = "connectors"
      OBVIOUS
    <3>5. \A mode, half, m : input = [of |-> "mode", mode |-> mode, half |-> half, m |-> m] => input.of = "mode"
      OBVIOUS
    <3>6. \A types : input = [of |-> "claim", types |-> types] => input.of = "claim"
      OBVIOUS
    <3>7. QED BY <3>1, <3>2, <3>3, <3>4, <3>5, <3>6, Zenon DEF Converted
  <2>12. QED
    BY <2>3, <2>4, <2>5, <2>6, <2>7, <2>8, <2>9, <2>10, <2>11, Zenon
<1>2. QED
  BY <1>1, Conversion, NamesAreTrimmed, EdidsAreExact, PTL
=============================================================================
