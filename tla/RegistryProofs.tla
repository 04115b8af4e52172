--------------------------- MODULE RegistryProofs ---------------------------
(***************************************************************************)
(* Proofs about Registry, for any set of nodes, any number of devices,     *)
(* reloads and events and any length of the channel: one task serves a     *)
(* node, nothing stays on D-Bus that nobody serves, nobody waits in a      *)
(* circle, and no reload is lost.                                          *)
(*                                                                         *)
(* The invariant has three parts: DataInv, where devices, objects, tokens  *)
(* and tasks are and how far Main is with a registration; LockOrder, that  *)
(* what is left of every program takes locks in one order and frees them;  *)
(* and Reloads, who has a reload before it.                                *)
(***************************************************************************)
EXTENDS Registry, SequenceTheorems, FiniteSetTheorems, TLAPS

-----------------------------------------------------------------------------
(* What is where.                                                          *)

Deeds == {"lock", "read", "configure", "map", "uinput", "spawn", "subscribe", "registered",
          "publish", "interface", "withdraw", "scan", "find", "close", "notify",
          "reload", "sighup", "show"}

Steps == [takes : Locks, does : Deeds, frees : SUBSET Locks, node : SUBSET Paths]

Events == [type : {"add", "remove", "drm"}, node : Paths]

TaskStates == {"none", "subscribed", "run", "ending", "ended"}

Types ==
    /\ present \in SUBSET Paths
    /\ opened \in Seq(Paths) /\ Len(opened) <= MaxOpens
    /\ devs \in [Paths -> Nat] /\ object \in [Paths -> Nat]
    /\ iface \in [Ids -> Nat] /\ task \in [Ids -> TaskStates]
    /\ events \in Seq(Events)
    /\ reg \in SUBSET Ids /\ cur \in Nat
    /\ prog \in [Actors -> Seq(Steps)]
    /\ owner \in [Locks -> Actors \cup {Nobody}]

Numbers == 1..Len(opened)

\* Of the devices that were opened for a path only the last one may have a token
\* that is not cancelled, and it is the one in System.devs.
Tokens ==
    /\ \A p \in Paths : devs[p] # 0 => devs[p] \in Numbers /\ opened[devs[p]] = p
    /\ \A n \in Numbers : n \in cancelled \/ devs[opened[n]] = n
    /\ \A i, j \in Numbers : i < j /\ opened[i] = opened[j] => i \in cancelled

\* An object is a device that was opened for its path.
Objects == \A p \in Paths : object[p] # 0 => object[p] \in Numbers /\ opened[object[p]] = p

\* Nothing is opened while devices are being registered.
Latest ==
    /\ cur # 0 => cur \in Numbers
    /\ reg \subseteq Numbers
    /\ cur \notin reg
    /\ \A r \in reg \cup ({cur} \ {0}), n \in Numbers : opened[n] = opened[r] => n <= r

\* A task works for the object of its own path, one that was there before it.
Tasks ==
    /\ \A n \in Ids : task[n] \in {"subscribed", "run", "ending"} =>
          n \in Numbers /\ iface[n] \in Numbers /\ iface[n] <= n /\ opened[iface[n]] = opened[n]
    /\ \A n \in Ids : task[n] # "run" => prog[Task(n)] = <<>>
    /\ \A n \in Ids : n \in reg \/ n \notin Numbers => task[n] = "none"

\* p is what is left of a registration with the object m.
Within(p, m) ==
    /\ Len(p) \in 1..10
    /\ \A i \in 1..Len(p) : p[i] = Register(m)[10 - Len(p) + i]

Searching == {"scan", "find", "close", "notify"}

\* Where Main is: between two programs, in a search, about to have an object, about
\* to take it off the bus again, or in a registration with the object iface[cur].
MainSearches ==
    Len(prog[Main]) = 1 /\ prog[Main][1].does \in Searching /\ cur = 0 /\ reg = {}

MainPublishes ==
    /\ cur # 0 /\ task[cur] = "none"
    /\ \/ prog[Main] = <<Short(NoLock, "publish"), Short(NoLock, "interface")>>
       \/ prog[Main] = <<Short(NoLock, "interface")>>

MainWithdraws ==
    cur # 0 /\ task[cur] = "ended" /\ prog[Main] = <<Short(NoLock, "withdraw")>>

MainRegisters ==
    /\ cur # 0
    /\ Within(prog[Main], iface[cur])
    /\ iface[cur] \in Numbers /\ iface[cur] <= cur /\ opened[iface[cur]] = opened[cur]
    /\ object[opened[cur]] \in {0, iface[cur]}
    /\ Len(prog[Main]) = 10 => task[cur] = "none"
    /\ Len(prog[Main]) \in 2..9 => task[cur] = "subscribed"
    /\ Len(prog[Main]) = 1 => object[opened[cur]] = 0 \/ task[cur] \in {"run", "ending"}

MainAt ==
    prog[Main] = <<>> \/ MainSearches \/ MainPublishes \/ MainWithdraws \/ MainRegisters

AtStart == phase = "start" => prog[Main] = <<>> /\ cur = 0 /\ reg = {}

DataInv == Types /\ Tokens /\ Objects /\ Latest /\ Tasks /\ MainAt /\ AtStart /\ PublishedIsOwned

-----------------------------------------------------------------------------
(* Locks.                                                                  *)

Rank(l) == IF l[1] \in {"config1", "object"} THEN 0
           ELSE IF l[1] = "system" THEN 1
           ELSE IF l[1] = "device" THEN 2 ELSE 3

\* Every lock that p takes it frees again, and until then takes only higher ones.
Ordered(p) ==
    \A i \in 1..Len(p) :
        \/ p[i].takes \in p[i].frees
        \/ \E k \in i + 1..Len(p) :
              /\ p[i].takes \in p[k].frees
              /\ \A j \in i + 1..k : Rank(p[j].takes) > Rank(p[i].takes)

\* So does the rest of a program with a lock that is held.
WillFree(p, l) ==
    \E k \in 1..Len(p) : l \in p[k].frees /\ \A j \in 1..k : Rank(p[j].takes) > Rank(l)

LockOrder ==
    /\ \A a \in Actors : Ordered(prog[a])
    /\ \A l \in Locks : owner[l] # Nobody => WillFree(prog[owner[l]], l)

-----------------------------------------------------------------------------
(* Reloads.                                                                *)

Waits(q) == Lagged(q) \/ \E i \in 1..Len(q) : q[i] = "reload"

Will(p, what) == \E k \in 1..Len(p) : p[k].does = what

Told == {"reload", "connector"}

ReloadTypes ==
    /\ inbox \in [Ids -> Seq(Told)] /\ confInbox \in Seq(Told)
    /\ applied \in [Ids -> Nat] /\ mapped \in [Ids -> Nat] /\ config \in Nat

\* A task that is not up to date has a reload before it, or is in one.
Informed(n) ==
    /\ task[n] = "none" => applied[n] = 0 /\ mapped[n] = 0
    /\ task[n] \in {"subscribed", "run"} =>
          /\ applied[n] \in {0, config} \/ Waits(inbox[n]) \/ Will(prog[Task(n)], "configure")
          /\ mapped[n] \in {0, config} \/ Waits(inbox[n]) \/ Will(prog[Task(n)], "map")

ConfigInformed ==
    /\ confAlive => shown = config \/ Waits(confInbox) \/ Will(prog[Config], "show")
    /\ \A k \in 1..Len(prog[Config]) : prog[Config][k].does \in {"lock", "show"}

Reloads == ReloadTypes /\ (\A n \in Ids : Informed(n)) /\ ConfigInformed

Inv == DataInv /\ LockOrder /\ Reloads

-----------------------------------------------------------------------------
(* Actors, locks and programs.                                             *)

\* The locks that the program of a registration, or of a task, is about are locks.
LEMMA LocksAre ==
    ASSUME NEW m \in Ids
    PROVE  {NoLock, System, Config1, Obj(m), Dev(m)} \subseteq Locks
BY DEF Locks

\* The actors are different from each other.
LEMMA ActorsAre ==
    /\ Main \in Actors /\ Reload \in Actors /\ Config \in Actors /\ Client \in Actors
    /\ \A n \in Ids : Task(n) \in Actors
    /\ \A n \in Ids : Task(n) \notin {Main, Reload, Config, Client, Nobody}
    /\ \A i, j \in Ids : Task(i) = Task(j) => i = j
    /\ Nobody \notin Actors
    /\ Main \notin {Reload, Config, Client}
    /\ Reload # Config /\ Client # Config /\ Client # Reload
BY DEF Actors, Main, Reload, Config, Client, Task, Nobody

\* The order: D-Bus objects, System, devices; what waits for nothing is above them.
LEMMA Ranks ==
    ASSUME NEW m
    PROVE  /\ Rank(NoLock) = 3 /\ Rank(System) = 1 /\ Rank(Config1) = 0
           /\ Rank(Obj(m)) = 0 /\ Rank(Dev(m)) = 2
BY DEF Rank, NoLock, System, Config1, Obj, Dev

\* A sequence is the concatenation of two others if it agrees with them.
LEMMA Joined ==
    ASSUME NEW S, NEW x \in Seq(S), NEW y \in Seq(S), NEW z \in Seq(S), Len(z) = Len(x) + Len(y),
           \A i \in 1..Len(x) : z[i] = x[i], \A i \in 1..Len(y) : z[Len(x) + i] = y[i]
    PROVE  x \o y = z
<1>1. x \o y \in Seq(S) /\ Len(x \o y) = Len(x) + Len(y) OBVIOUS
<1>2. ASSUME NEW i \in 1..Len(z) PROVE (x \o y)[i] = z[i]
  <2>1. CASE i <= Len(x) BY <2>1
  <2>2. CASE i > Len(x)
    <3>1. i - Len(x) \in 1..Len(y) /\ i = Len(x) + (i - Len(x)) BY <2>2
    <3>2. z[i] = y[i - Len(x)] BY <3>1
    <3> QED BY <3>1, <3>2, <2>2
  <2> QED BY <2>1, <2>2
<1> QED BY <1>1, <1>2, SeqEqual

\* Concatenations of tuples.
LEMMA Join12 ==
    ASSUME NEW a, NEW b, NEW c
    PROVE  <<a>> \o <<b, c>> = <<a, b, c>>
<1> DEFINE x == <<a>>
           y == <<b, c>>
           z == <<a, b, c>>
           S == {a, b, c}
<1>1. x \in Seq(S) /\ y \in Seq(S) /\ z \in Seq(S) /\ Len(z) = Len(x) + Len(y)  OBVIOUS
<1>2. (\A k \in 1..Len(x) : z[k] = x[k]) /\ \A k \in 1..Len(y) : z[Len(x) + k] = y[k]  OBVIOUS
<1> HIDE DEF x, y, z, S
<1>3. x \o y = z  BY <1>1, <1>2, Joined, Zenon
<1> QED  BY <1>3 DEF x, y, z

\* Two and two.
LEMMA Join22 ==
    ASSUME NEW a, NEW b, NEW c, NEW d
    PROVE  <<a, b>> \o <<c, d>> = <<a, b, c, d>>
<1> DEFINE x == <<a, b>>
           y == <<c, d>>
           z == <<a, b, c, d>>
           S == {a, b, c, d}
<1>1. x \in Seq(S) /\ y \in Seq(S) /\ z \in Seq(S) /\ Len(z) = Len(x) + Len(y)  OBVIOUS
<1>2. (\A k \in 1..Len(x) : z[k] = x[k]) /\ \A k \in 1..Len(y) : z[Len(x) + k] = y[k]  OBVIOUS
<1> HIDE DEF x, y, z, S
<1>3. x \o y = z  BY <1>1, <1>2, Joined, Zenon
<1> QED  BY <1>3 DEF x, y, z

\* Two and three.
LEMMA Join23 ==
    ASSUME NEW a, NEW b, NEW c, NEW d, NEW e
    PROVE  <<a, b>> \o <<c, d, e>> = <<a, b, c, d, e>>
<1> DEFINE x == <<a, b>>
           y == <<c, d, e>>
           z == <<a, b, c, d, e>>
           S == {a, b, c, d, e}
<1>1. x \in Seq(S) /\ y \in Seq(S) /\ z \in Seq(S) /\ Len(z) = Len(x) + Len(y)  OBVIOUS
<1>2. (\A k \in 1..Len(x) : z[k] = x[k]) /\ \A k \in 1..Len(y) : z[Len(x) + k] = y[k]  OBVIOUS
<1> HIDE DEF x, y, z, S
<1>3. x \o y = z  BY <1>1, <1>2, Joined, Zenon
<1> QED  BY <1>3 DEF x, y, z

\* Three and five.
LEMMA Join35 ==
    ASSUME NEW a, NEW b, NEW c, NEW d, NEW e, NEW f, NEW g, NEW h
    PROVE  <<a, b, c>> \o <<d, e, f, g, h>> = <<a, b, c, d, e, f, g, h>>
<1> DEFINE x == <<a, b, c>>
           y == <<d, e, f, g, h>>
           z == <<a, b, c, d, e, f, g, h>>
           S == {a, b, c, d, e, f, g, h}
<1>1. x \in Seq(S) /\ y \in Seq(S) /\ z \in Seq(S) /\ Len(z) = Len(x) + Len(y)  OBVIOUS
<1>2. (\A k \in 1..Len(x) : z[k] = x[k]) /\ \A k \in 1..Len(y) : z[Len(x) + k] = y[k]  OBVIOUS
<1> HIDE DEF x, y, z, S
<1>3. x \o y = z  BY <1>1, <1>2, Joined, Zenon
<1> QED  BY <1>3 DEF x, y, z

\* Eight and two.
LEMMA Join82 ==
    ASSUME NEW a, NEW b, NEW c, NEW d, NEW e, NEW f, NEW g, NEW h, NEW s, NEW t
    PROVE  <<a, b, c, d, e, f, g, h>> \o <<s, t>> = <<a, b, c, d, e, f, g, h, s, t>>
<1> DEFINE x == <<a, b, c, d, e, f, g, h>>
           y == <<s, t>>
           z == <<a, b, c, d, e, f, g, h, s, t>>
           S == {a, b, c, d, e, f, g, h, s, t}
<1>1. x \in Seq(S) /\ y \in Seq(S) /\ z \in Seq(S) /\ Len(z) = Len(x) + Len(y)  OBVIOUS
<1>2. (\A k \in 1..Len(x) : z[k] = x[k]) /\ \A k \in 1..Len(y) : z[Len(x) + k] = y[k]  OBVIOUS
<1> HIDE DEF x, y, z, S
<1>3. x \o y = z  BY <1>1, <1>2, Joined, Zenon
<1> QED  BY <1>3 DEF x, y, z

\* A reload, step by step.
LEMMA ReloadConfigIs ==
    ASSUME NEW m
    PROVE  ReloadConfig(m) =
             <<Lock(System), Step(Dev(m), "configure", {System, Dev(m)}),
               Lock(Obj(m)), Short(System, "map"), Step(Dev(m), "uinput", {Obj(m), Dev(m)})>>
<1>1. {System, Dev(m)} \cup {} = {System, Dev(m)}  OBVIOUS
<1> QED  BY <1>1, Join23, Zenon DEF ReloadConfig, ConfigureDev, ConfigureUinput

\* A registration, step by step.
LEMMA RegisterIs ==
    ASSUME NEW m
    PROVE  Register(m) =
             <<Short(System, "subscribe"), Short(Obj(m), "read"), Short(Dev(m), "read"),
               Lock(System), Step(Dev(m), "configure", {System, Dev(m)}),
               Lock(Obj(m)), Short(System, "map"), Step(Dev(m), "uinput", {Obj(m), Dev(m)}),
               Short(NoLock, "spawn"), Short(Obj(m), "registered")>>
<1> DEFINE s == <<Short(System, "subscribe"), Short(Obj(m), "read"), Short(Dev(m), "read"),
                  Lock(System), Step(Dev(m), "configure", {System, Dev(m)}),
                  Lock(Obj(m)), Short(System, "map"), Step(Dev(m), "uinput", {Obj(m), Dev(m)}),
                  Short(NoLock, "spawn"), Short(Obj(m), "registered")>>
<1>1. ReloadConfig(m) = <<s[4], s[5], s[6], s[7], s[8]>>  BY ReloadConfigIs
<1>2. /\ s[1] = Short(System, "subscribe") /\ s[2] = Short(Obj(m), "read") /\ s[3] = Short(Dev(m), "read")
      /\ s[9] = Short(NoLock, "spawn") /\ s[10] = Short(Obj(m), "registered")
      /\ s = <<s[1], s[2], s[3], s[4], s[5], s[6], s[7], s[8], s[9], s[10]>>
  OBVIOUS
<1> HIDE DEF s
<1>3. <<s[1], s[2], s[3]>> \o ReloadConfig(m) = <<s[1], s[2], s[3], s[4], s[5], s[6], s[7], s[8]>>
  <2> DEFINE t(i) == s[i]
  <2> HIDE DEF t
  <2>1. <<t(1), t(2), t(3)>> \o <<t(4), t(5), t(6), t(7), t(8)>> = <<t(1), t(2), t(3), t(4), t(5), t(6), t(7), t(8)>>
    BY Join35
  <2> QED  BY <1>1, <2>1 DEF t
<1>4. <<s[1], s[2], s[3], s[4], s[5], s[6], s[7], s[8]>> \o <<s[9], s[10]>> =
        <<s[1], s[2], s[3], s[4], s[5], s[6], s[7], s[8], s[9], s[10]>>
  <2> DEFINE t(i) == s[i]
  <2> HIDE DEF t
  <2>1. <<t(1), t(2), t(3), t(4), t(5), t(6), t(7), t(8)>> \o <<t(9), t(10)>> =
          <<t(1), t(2), t(3), t(4), t(5), t(6), t(7), t(8), t(9), t(10)>>
    BY Join82
  <2> QED  BY <2>1 DEF t
<1> QED  BY <1>2, <1>3, <1>4 DEF Register, s

\* The other programs that are put together from smaller ones.
LEMMA OthersAre ==
    ASSUME NEW m
    PROVE  /\ RetryRegistration(m) =
                <<Short(Dev(m), "read"), Lock(Obj(m)), Lock(System),
                  Step(Dev(m), "configure", {System, Dev(m), Obj(m)})>>
           /\ TaskStart(m) = <<Short(System, "read"), Short(Dev(m), "read"), Short(Obj(m), "read")>>
           /\ ConfigureDev(m, {}) = <<Lock(System), Step(Dev(m), "configure", {System, Dev(m)})>>
<1>1. {System, Dev(m)} \cup {} = {System, Dev(m)} /\ {System, Dev(m)} \cup {Obj(m)} = {System, Dev(m), Obj(m)}
  OBVIOUS
<1>2. RetryRegistration(m) = <<Short(Dev(m), "read"), Lock(Obj(m)), Lock(System),
                               Step(Dev(m), "configure", {System, Dev(m), Obj(m)})>>
  BY <1>1, Join22, Zenon DEF RetryRegistration, ConfigureDev
<1>3. TaskStart(m) = <<Short(System, "read"), Short(Dev(m), "read"), Short(Obj(m), "read")>>
  BY Join12, Zenon DEF TaskStart, StateChange
<1>4. ConfigureDev(m, {}) = <<Lock(System), Step(Dev(m), "configure", {System, Dev(m)})>>
  BY <1>1, Zenon DEF ConfigureDev
<1> QED  BY <1>2, <1>3, <1>4

\* Steps have their type,
LEMMA StepsAre ==
    ASSUME NEW l \in Locks, NEW what \in Deeds, NEW frees \in SUBSET Locks
    PROVE  Step(l, what, frees) \in Steps
BY DEF Step, Steps

\* short ones too,
LEMMA ShortsAre ==
    ASSUME NEW l \in Locks, NEW what \in Deeds
    PROVE  Short(l, what) \in Steps /\ Lock(l) \in Steps
<1>1. {l} \in SUBSET Locks /\ {} \in SUBSET Locks /\ "lock" \in Deeds  BY DEF Deeds
<1> QED  BY <1>1, StepsAre DEF Short, Lock

\* and those about a node.
LEMMA StepOnsAre ==
    ASSUME NEW l \in Locks, NEW what \in Deeds, NEW p \in Paths
    PROVE  StepOn(p, l, what) \in Steps
BY DEF StepOn, Steps

\* So have the programs.
LEMMA ProgramTypes ==
    ASSUME NEW m \in Ids
    PROVE  /\ Register(m) \in Seq(Steps) /\ ReloadConfig(m) \in Seq(Steps)
           /\ RetryRegistration(m) \in Seq(Steps) /\ TaskStart(m) \in Seq(Steps)
           /\ ConfigureDev(m, {}) \in Seq(Steps) /\ StateChange(m) \in Seq(Steps)
           /\ DeviceMethod(m) \in Seq(Steps)
<1>1. /\ NoLock \in Locks /\ System \in Locks /\ Obj(m) \in Locks /\ Dev(m) \in Locks
      /\ {System, Dev(m)} \in SUBSET Locks /\ {Obj(m), Dev(m)} \in SUBSET Locks
      /\ {System, Dev(m), Obj(m)} \in SUBSET Locks
  BY LocksAre
<1>2. {"subscribe", "read", "configure", "map", "uinput", "spawn", "registered"} \subseteq Deeds
  BY DEF Deeds
<1>3. /\ Short(System, "subscribe") \in Steps /\ Short(Obj(m), "read") \in Steps
      /\ Short(Dev(m), "read") \in Steps /\ Lock(System) \in Steps /\ Lock(Obj(m)) \in Steps
      /\ Short(System, "map") \in Steps /\ Short(NoLock, "spawn") \in Steps
      /\ Short(Obj(m), "registered") \in Steps /\ Short(System, "read") \in Steps
  BY <1>1, <1>2, ShortsAre
<1>4. /\ Step(Dev(m), "configure", {System, Dev(m)}) \in Steps
      /\ Step(Dev(m), "uinput", {Obj(m), Dev(m)}) \in Steps
      /\ Step(Dev(m), "read", {Obj(m), Dev(m)}) \in Steps
      /\ Step(Dev(m), "configure", {System, Dev(m), Obj(m)}) \in Steps
  BY <1>1, <1>2, StepsAre
<1>5. Register(m) \in Seq(Steps)
  <2>1. <<Short(System, "subscribe"), Short(Obj(m), "read"), Short(Dev(m), "read"),
          Lock(System), Step(Dev(m), "configure", {System, Dev(m)}),
          Lock(Obj(m)), Short(System, "map"), Step(Dev(m), "uinput", {Obj(m), Dev(m)}),
          Short(NoLock, "spawn"), Short(Obj(m), "registered")>> \in Seq(Steps)
    BY <1>3, <1>4
  <2> QED  BY <2>1, RegisterIs, Zenon
<1>6. ReloadConfig(m) \in Seq(Steps)
  <2>1. <<Lock(System), Step(Dev(m), "configure", {System, Dev(m)}),
          Lock(Obj(m)), Short(System, "map"), Step(Dev(m), "uinput", {Obj(m), Dev(m)})>> \in Seq(Steps)
    BY <1>3, <1>4
  <2> QED  BY <2>1, ReloadConfigIs, Zenon
<1>7. RetryRegistration(m) \in Seq(Steps) /\ TaskStart(m) \in Seq(Steps) /\ ConfigureDev(m, {}) \in Seq(Steps)
  <2>1. <<Short(Dev(m), "read"), Lock(Obj(m)), Lock(System),
          Step(Dev(m), "configure", {System, Dev(m), Obj(m)})>> \in Seq(Steps)
    BY <1>3, <1>4
  <2>2. <<Short(System, "read"), Short(Dev(m), "read"), Short(Obj(m), "read")>> \in Seq(Steps)
    BY <1>3
  <2>3. <<Lock(System), Step(Dev(m), "configure", {System, Dev(m)})>> \in Seq(Steps)
    BY <1>3, <1>4
  <2> QED  BY <2>1, <2>2, <2>3, OthersAre, Zenon
<1>8. StateChange(m) \in Seq(Steps)  BY <1>3 DEF StateChange
<1>9. DeviceMethod(m) \in Seq(Steps)  BY <1>3, <1>4 DEF DeviceMethod
<1> QED  BY <1>5, <1>6, <1>7, <1>8, <1>9

\* What the ten steps of a registration do.
LEMMA RegisterDoes ==
    ASSUME NEW m
    PROVE  /\ Len(Register(m)) = 10
           /\ Register(m)[1].does = "subscribe" /\ Register(m)[2].does = "read"
           /\ Register(m)[3].does = "read" /\ Register(m)[4].does = "lock"
           /\ Register(m)[5].does = "configure" /\ Register(m)[6].does = "lock"
           /\ Register(m)[7].does = "map" /\ Register(m)[8].does = "uinput"
           /\ Register(m)[9] = Short(NoLock, "spawn") /\ Register(m)[9].does = "spawn"
           /\ Register(m)[10].does = "registered"
<1> DEFINE r == Register(m)
<1>1. /\ Len(r) = 10
      /\ r[1] = Short(System, "subscribe") /\ r[2] = Short(Obj(m), "read") /\ r[3] = Short(Dev(m), "read")
      /\ r[4] = Lock(System) /\ r[5] = Step(Dev(m), "configure", {System, Dev(m)})
      /\ r[6] = Lock(Obj(m)) /\ r[7] = Short(System, "map")
      /\ r[8] = Step(Dev(m), "uinput", {Obj(m), Dev(m)})
      /\ r[9] = Short(NoLock, "spawn") /\ r[10] = Short(Obj(m), "registered")
  BY RegisterIs
<1> HIDE DEF r
<1>2. /\ r[1].does = "subscribe" /\ r[2].does = "read" /\ r[3].does = "read" /\ r[4].does = "lock"
      /\ r[5].does = "configure" /\ r[6].does = "lock" /\ r[7].does = "map" /\ r[8].does = "uinput"
      /\ r[9].does = "spawn" /\ r[10].does = "registered"
  BY <1>1 DEF Step, Short, Lock
<1> QED  BY <1>1, <1>2 DEF r

\* Every program frees what it takes and takes locks in their order: this is where the
\* order in which the code takes its locks is looked at.
LEMMA ProgramsOrdered ==
    ASSUME NEW m
    PROVE  /\ Ordered(Register(m)) /\ Ordered(ReloadConfig(m)) /\ Ordered(RetryRegistration(m))
           /\ Ordered(TaskStart(m)) /\ Ordered(ConfigureDev(m, {})) /\ Ordered(StateChange(m))
           /\ Ordered(DeviceMethod(m))
<1>1. Ordered(ReloadConfig(m))
  <2> DEFINE r == ReloadConfig(m)
  <2>1. /\ Len(r) = 5
        /\ r[1] = Lock(System) /\ r[2] = Step(Dev(m), "configure", {System, Dev(m)})
        /\ r[3] = Lock(Obj(m)) /\ r[4] = Short(System, "map")
        /\ r[5] = Step(Dev(m), "uinput", {Obj(m), Dev(m)})
    BY ReloadConfigIs
  <2> HIDE DEF r
  <2>2. /\ r[1].takes = System /\ r[2].takes = Dev(m) /\ System \in r[2].frees /\ Dev(m) \in r[2].frees
        /\ r[3].takes = Obj(m) /\ r[4].takes = System /\ r[5].takes = Dev(m) /\ System \in r[4].frees
        /\ Dev(m) \in r[5].frees /\ Obj(m) \in r[5].frees
    BY <2>1 DEF Lock, Step, Short
  <2> QED  BY <2>1, <2>2, Ranks DEF Ordered, r
<1>2. Ordered(Register(m))
  <2> DEFINE r == Register(m)
  <2>1. /\ Len(r) = 10
        /\ r[1] = Short(System, "subscribe") /\ r[2] = Short(Obj(m), "read") /\ r[3] = Short(Dev(m), "read")
        /\ r[4] = Lock(System) /\ r[5] = Step(Dev(m), "configure", {System, Dev(m)})
        /\ r[6] = Lock(Obj(m)) /\ r[7] = Short(System, "map")
        /\ r[8] = Step(Dev(m), "uinput", {Obj(m), Dev(m)})
        /\ r[9] = Short(NoLock, "spawn") /\ r[10] = Short(Obj(m), "registered")
    BY RegisterIs
  <2> HIDE DEF r
  <2>2. /\ r[1].takes \in r[1].frees /\ r[2].takes \in r[2].frees /\ r[3].takes \in r[3].frees
        /\ r[4].takes = System /\ r[5].takes = Dev(m) /\ System \in r[5].frees /\ Dev(m) \in r[5].frees
        /\ r[6].takes = Obj(m) /\ r[7].takes = System /\ r[8].takes = Dev(m) /\ System \in r[7].frees
        /\ Dev(m) \in r[8].frees /\ Obj(m) \in r[8].frees
        /\ r[9].takes \in r[9].frees /\ r[10].takes \in r[10].frees
    BY <2>1 DEF Lock, Step, Short
  <2>3. ASSUME NEW i \in 1..10, i # 4, i # 6
        PROVE  r[i].takes \in r[i].frees
    <3>1. r[5].takes \in r[5].frees /\ r[7].takes \in r[7].frees /\ r[8].takes \in r[8].frees  BY <2>2
    <3>2. i \in {1, 2, 3, 5, 7, 8, 9, 10}  BY <2>3
    <3> QED  BY <3>1, <3>2, <2>2
  <2>4. r[4].takes \in r[5].frees /\ \A j \in 5..5 : Rank(r[j].takes) > Rank(r[4].takes)
    BY <2>2, Ranks
  <2>5. r[6].takes \in r[8].frees /\ \A j \in 7..8 : Rank(r[j].takes) > Rank(r[6].takes)
    BY <2>2, Ranks
  <2> QED  BY <2>1, <2>3, <2>4, <2>5 DEF Ordered, r
<1>3. Ordered(RetryRegistration(m))
  <2> DEFINE r == RetryRegistration(m)
  <2>1. /\ Len(r) = 4 /\ r[1] = Short(Dev(m), "read") /\ r[2] = Lock(Obj(m)) /\ r[3] = Lock(System)
        /\ r[4] = Step(Dev(m), "configure", {System, Dev(m), Obj(m)})
    <3>1. r = <<Short(Dev(m), "read"), Lock(Obj(m)), Lock(System),
                Step(Dev(m), "configure", {System, Dev(m), Obj(m)})>>
      BY OthersAre, Zenon
    <3> QED  BY <3>1
  <2> HIDE DEF r
  <2>2. /\ r[1].takes \in r[1].frees /\ r[2].takes = Obj(m) /\ r[3].takes = System /\ r[4].takes = Dev(m)
        /\ {System, Dev(m), Obj(m)} \subseteq r[4].frees
    BY <2>1 DEF Lock, Step, Short
  <2> QED  BY <2>1, <2>2, Ranks DEF Ordered, r
<1>4. Ordered(TaskStart(m)) /\ Ordered(StateChange(m))
  <2>1. \A l, w : Short(l, w).takes \in Short(l, w).frees  BY DEF Short, Step
  <2>2. Ordered(TaskStart(m))
    <3>1. TaskStart(m) = <<Short(System, "read"), Short(Dev(m), "read"), Short(Obj(m), "read")>>
      BY OthersAre, Zenon
    <3> QED  BY <2>1, <3>1 DEF Ordered
  <2>3. Ordered(StateChange(m))  BY <2>1 DEF Ordered, StateChange
  <2> QED  BY <2>2, <2>3
<1>5. Ordered(ConfigureDev(m, {}))
  <2> DEFINE r == ConfigureDev(m, {})
  <2>1. Len(r) = 2 /\ r[1] = Lock(System) /\ r[2] = Step(Dev(m), "configure", {System, Dev(m)})
    <3>1. r = <<Lock(System), Step(Dev(m), "configure", {System, Dev(m)})>>  BY OthersAre, Zenon
    <3> QED  BY <3>1
  <2> HIDE DEF r
  <2>2. r[1].takes = System /\ r[2].takes = Dev(m) /\ {System, Dev(m)} \subseteq r[2].frees
    BY <2>1 DEF Lock, Step
  <2> QED  BY <2>1, <2>2, Ranks DEF Ordered, r
<1>6. Ordered(DeviceMethod(m))
  <2> DEFINE r == DeviceMethod(m)
  <2>1. Len(r) = 2 /\ r[1] = Lock(Obj(m)) /\ r[2] = Step(Dev(m), "read", {Obj(m), Dev(m)})
    BY DEF DeviceMethod
  <2> HIDE DEF r
  <2>2. r[1].takes = Obj(m) /\ r[2].takes = Dev(m) /\ {Obj(m), Dev(m)} \subseteq r[2].frees
    BY <2>1 DEF Lock, Step
  <2> QED  BY <2>1, <2>2, Ranks DEF Ordered, r
<1> QED  BY <1>1, <1>2, <1>3, <1>4, <1>5, <1>6

\* A program of one short step keeps to the order.
LEMMA OneStepOrdered ==
    ASSUME NEW s, s.takes \in s.frees
    PROVE  Ordered(<<s>>)
BY DEF Ordered

\* So does a call of Reload, and the one ConfigTask makes.
LEMMA ConfigProgramsOrdered ==
    ASSUME NEW what
    PROVE  Ordered(<<Lock(Config1), Step(System, what, {System, Config1})>>)
<1> DEFINE r == <<Lock(Config1), Step(System, what, {System, Config1})>>
<1>1. Len(r) = 2 /\ r[1] = Lock(Config1) /\ r[2] = Step(System, what, {System, Config1})  OBVIOUS
<1> HIDE DEF r
<1>2. r[1].takes = Config1 /\ r[2].takes = System /\ {System, Config1} \subseteq r[2].frees
  BY <1>1 DEF Lock, Step
<1>3. Ordered(r)  BY <1>1, <1>2, Ranks DEF Ordered
<1> QED  BY <1>3 DEF r

-----------------------------------------------------------------------------
(* What a step of a program does to the programs and the locks.            *)

Others(a) == \A b \in Actors : b # a => prog'[b] = prog[b]

LockTypes == prog \in [Actors -> Seq(Steps)] /\ owner \in [Locks -> Actors \cup {Nobody}]

\* What beginning a program does,
LEMMA Begun ==
    ASSUME Types, NEW a \in Actors, NEW rest \in Seq(Steps), Begins(a, rest)
    PROVE  LockTypes' /\ prog'[a] = rest /\ Others(a) /\ prog[a] = <<>> /\ owner' = owner
BY DEF Types, LockTypes, Begins, Others, IsIdle

\* what going on with another one does,
LEMMA Continued ==
    ASSUME Types, NEW a \in Actors, NEW rest \in Seq(Steps), Continues(a, rest)
    PROVE  LockTypes' /\ prog'[a] = rest /\ Others(a)
<1>1. prog' \in [Actors -> Seq(Steps)] /\ prog'[a] = rest /\ Others(a)
  BY DEF Types, Continues, Others
<1>2. owner' \in [Locks -> Actors \cup {Nobody}]
  BY DEF Types, Continues
<1> QED  BY <1>1, <1>2 DEF LockTypes

\* what the next step does,
LEMMA Advanced ==
    ASSUME Types, NEW a \in Actors, prog[a] # <<>>, Advances(a)
    PROVE  LockTypes' /\ prog'[a] = Tail(prog[a]) /\ Others(a)
<1>1. Tail(prog[a]) \in Seq(Steps)  BY DEF Types
<1> QED  BY <1>1, Continued DEF Advances

\* and what an error does.
LEMMA Abandoned ==
    ASSUME Types, NEW a \in Actors, NEW rest \in Seq(Steps), Abandons(a, rest)
    PROVE  LockTypes' /\ prog'[a] = rest /\ Others(a)
BY DEF Types, Abandons, Others, LockTypes

\* What Opens(new) needs: paths without a token, each once
Fresh(new) ==
    /\ new \in Seq(Paths)
    /\ \A i, j \in 1..Len(new) : new[i] = new[j] => i = j
    /\ \A i \in 1..Len(new) : devs[new[i]] = 0

\* What opening nodes does to System.devs.
LEMMA OpensAll ==
    ASSUME Types, NEW new, Fresh(new), Opens(new)
    PROVE  /\ opened' \in Seq(Paths) /\ Len(opened') <= MaxOpens
           /\ Len(opened') = Len(opened) + Len(new)
           /\ \A n \in 1..Len(opened) : opened'[n] = opened[n]
           /\ \A i \in 1..Len(new) : opened'[Len(opened) + i] = new[i]
           /\ devs' \in [Paths -> Nat]
           /\ \A i \in 1..Len(new) : devs'[new[i]] = Len(opened) + i
           /\ \A p \in Paths : devs[p] # 0 => devs'[p] = devs[p]
           /\ \A p \in Paths : devs'[p] = devs[p] \/ \E i \in 1..Len(new) : p = new[i]
           /\ reg' = Len(opened) + 1 .. Len(opened) + Len(new) /\ reg' \in SUBSET Ids
<1>1. /\ Len(opened) + Len(new) <= MaxOpens /\ opened' = opened \o new
      /\ reg' = Len(opened) + 1 .. Len(opened) + Len(new)
      /\ devs' = [p \in Paths |-> IF \E i \in DOMAIN new : new[i] = p
                                  THEN Len(opened) + CHOOSE i \in DOMAIN new : new[i] = p
                                  ELSE devs[p]]
  BY DEF Opens
<1>2. opened \in Seq(Paths) /\ new \in Seq(Paths) /\ Len(new) \in Nat /\ Len(opened) \in Nat
  BY DEF Types, Fresh
<1>3. /\ opened' \in Seq(Paths) /\ Len(opened') = Len(opened) + Len(new)
      /\ \A n \in 1..Len(opened) : opened'[n] = opened[n]
  BY <1>1, <1>2
<1>4. ASSUME NEW i \in 1..Len(new)
      PROVE  opened'[Len(opened) + i] = new[i]
  BY <1>1, <1>2
<1>5. DOMAIN new = 1..Len(new)  BY <1>2
<1>6. ASSUME NEW i \in 1..Len(new)
      PROVE  devs'[new[i]] = Len(opened) + i
  <2>1. new[i] \in Paths  BY <1>2
  <2>2. (CHOOSE k \in DOMAIN new : new[k] = new[i]) \in DOMAIN new
        /\ new[CHOOSE k \in DOMAIN new : new[k] = new[i]] = new[i]
    BY <1>5
  <2>3. (CHOOSE k \in DOMAIN new : new[k] = new[i]) = i  BY <2>2, <1>5 DEF Fresh
  <2> QED  BY <1>1, <1>5, <2>1, <2>3
<1>7. ASSUME NEW p \in Paths
      PROVE  devs'[p] = devs[p] \/ \E i \in 1..Len(new) : p = new[i]
  BY <1>1, <1>5
<1>8. ASSUME NEW p \in Paths, devs[p] # 0
      PROVE  devs'[p] = devs[p]
  BY <1>7, <1>8 DEF Fresh
<1>9. devs' \in [Paths -> Nat]
  <2>1. devs' = [p \in Paths |-> devs'[p]]  BY <1>1
  <2>2. ASSUME NEW p \in Paths
        PROVE  devs'[p] \in Nat
    <3>1. CASE devs'[p] = devs[p]  BY <3>1 DEF Types
    <3>2. ASSUME NEW i \in 1..Len(new), p = new[i]
          PROVE  devs'[p] \in Nat
      BY <3>2, <1>6, <1>2
    <3> QED  BY <3>1, <3>2, <1>7
  <2> QED  BY <2>1, <2>2
<1>10. reg' \in SUBSET Ids  BY <1>1, <1>2, RegistryAssumption DEF Ids
<1> QED  BY <1>1, <1>3, <1>4, <1>6, <1>7, <1>8, <1>9, <1>10

\* find_devs finds every path once, and none that has a token: an enumeration of a finite
\* set that is as long as the set names nothing twice.
LEMMA FoundIsFresh ==
    ASSUME Types, NEW found, found = {p \in present : devs[p] = 0},
           NEW new \in [1..Cardinality(found) -> found], {new[i] : i \in DOMAIN new} = found
    PROVE  Fresh(new)
<1>1. found \subseteq Paths  BY DEF Types
<1>2. IsFiniteSet(found) /\ Cardinality(found) \in Nat
  BY <1>1, FS_Subset, FS_CardinalityType, RegistryAssumption
<1> DEFINE n == Cardinality(found)
<1>3. n \in Nat  BY <1>2
<1> HIDE DEF n
<1>4. new \in [1..n -> found]  BY DEF n
<1>5. new \in Seq(Paths) /\ Len(new) = n  BY <1>1, <1>3, <1>4
<1>6. IsFiniteSet(1..n) /\ Cardinality(1..n) = n
  <2>1. IsFiniteSet(1..n) /\ Cardinality(1..n) = IF 1 > n THEN 0 ELSE n - 1 + 1
    BY <1>3, FS_Interval
  <2> QED  BY <2>1, <1>3
<1>7. new \in Surjection(1..n, found)
  BY <1>4 DEF Surjection
<1>8. new \in Injection(1..n, found)
  BY <1>6, <1>7, FS_SurjSameCardinalityImpliesInj DEF n
<1> QED  BY <1>4, <1>5, <1>8 DEF Fresh, Injection, IsInjective

-----------------------------------------------------------------------------
(* Where Main is.                                                          *)

\* The rest of a program.
LEMMA Tails ==
    ASSUME NEW p \in Seq(Steps), p # <<>>
    PROVE  /\ Len(p) \in Nat /\ Len(p) >= 1 /\ Head(p) = p[1]
           /\ Tail(p) \in Seq(Steps) /\ Len(Tail(p)) = Len(p) - 1
           /\ \A i \in 1..Len(Tail(p)) : i + 1 \in 1..Len(p) /\ Tail(p)[i] = p[i + 1]
           /\ Len(p) = 1 => Tail(p) = <<>>
<1>1. Len(p) \in Nat /\ Len(p) >= 1 /\ Head(p) = p[1]  OBVIOUS
<1>2. /\ Tail(p) \in Seq(Steps) /\ Len(Tail(p)) = Len(p) - 1
      /\ \A i \in 1..Len(Tail(p)) : i + 1 \in 1..Len(p) /\ Tail(p)[i] = p[i + 1]
  BY <1>1
<1> DEFINE t == Tail(p)
<1> HIDE DEF t
<1>3. t \in Seq(Steps) /\ Len(t) = Len(p) - 1  BY <1>2 DEF t
<1>4. Len(p) = 1 => t = <<>>  BY <1>1, <1>3, EmptySeq
<1> QED  BY <1>1, <1>2, <1>4 DEF t

\* The rest of a registration is one.
LEMMA WithinTail ==
    ASSUME NEW p \in Seq(Steps), NEW m, Within(p, m)
    PROVE  /\ p # <<>> /\ Len(p) \in 1..10
           /\ Head(p) = Register(m)[11 - Len(p)]
           /\ Len(Tail(p)) = Len(p) - 1
           /\ Len(p) > 1 => Within(Tail(p), m)
           /\ Len(p) = 1 => Tail(p) = <<>>
<1>1. Len(p) \in 1..10 /\ p # <<>>  BY DEF Within
<1>5. /\ Head(p) = p[1] /\ Len(Tail(p)) = Len(p) - 1 /\ (Len(p) = 1 => Tail(p) = <<>>)
      /\ \A i \in 1..Len(Tail(p)) : i + 1 \in 1..Len(p) /\ Tail(p)[i] = p[i + 1]
  BY <1>1, Tails
<1>2. p[1] = Register(m)[10 - Len(p) + 1] /\ 10 - Len(p) + 1 = 11 - Len(p)
  BY <1>1 DEF Within
<1>3. ASSUME Len(p) > 1
      PROVE  Within(Tail(p), m)
  <2> DEFINE k == Len(Tail(p))
             n == Len(p)
  <2>3. k = n - 1 /\ n \in 1..10 /\ n > 1  BY <1>1, <1>3, <1>5
  <2> HIDE DEF k, n
  <2>4. k \in 1..10  BY <2>3
  <2>1. Len(Tail(p)) \in 1..10  BY <2>4 DEF k
  <2>2. ASSUME NEW i \in 1..Len(Tail(p))
        PROVE  Tail(p)[i] = Register(m)[10 - Len(Tail(p)) + i]
    <3>1. Tail(p)[i] = p[i + 1] /\ i + 1 \in 1..Len(p)  BY <1>5
    <3>2. p[i + 1] = Register(m)[10 - Len(p) + (i + 1)]  BY <3>1 DEF Within
    <3>3. 10 - Len(p) + (i + 1) = 10 - Len(Tail(p)) + i  BY <1>1, <1>5
    <3> QED  BY <3>1, <3>2, <3>3
  <2> QED  BY <2>1, <2>2 DEF Within
<1> QED  BY <1>1, <1>2, <1>3, <1>5

\* A registration is one.
LEMMA WithinAll ==
    ASSUME NEW m
    PROVE  Within(Register(m), m)
<1>1. Len(Register(m)) = 10  BY RegisterDoes
<1> DEFINE r == Register(m)
<1> HIDE DEF r
<1>2. Len(r) = 10  BY <1>1 DEF r
<1>3. \A i \in 1..Len(r) : r[i] = r[10 - Len(r) + i]
  BY <1>2
<1> QED  BY <1>2, <1>3 DEF Within, r

\* What a registration does says how much of it is left.
LEMMA RegisterAt ==
    ASSUME NEW m, NEW k \in 1..10, NEW what, Register(m)[11 - k].does = what
    PROVE  /\ what \in {"subscribe", "lock", "read", "configure", "map", "uinput", "spawn", "registered"}
           /\ what = "subscribe" <=> k = 10
           /\ what \in {"lock", "read"} <=> k \in {9, 8, 7, 5}
           /\ (what = "configure" <=> k = 6) /\ (what = "map" <=> k = 4) /\ (what = "uinput" <=> k = 3)
           /\ (what = "spawn" <=> k = 2) /\ (what = "registered" <=> k = 1)
<1> DEFINE r == Register(m)
<1>1. /\ r[1].does = "subscribe" /\ r[2].does = "read" /\ r[3].does = "read" /\ r[4].does = "lock"
      /\ r[5].does = "configure" /\ r[6].does = "lock" /\ r[7].does = "map" /\ r[8].does = "uinput"
      /\ r[9].does = "spawn" /\ r[10].does = "registered"
  BY RegisterDoes
<1> HIDE DEF r
<1>2. r[11 - k].does = what  BY DEF r
<1>3. k \in {1, 2, 3, 4, 5, 6, 7, 8, 9, 10}  OBVIOUS
<1> QED  BY <1>1, <1>2, <1>3

RegisterDeeds == {"subscribe", "lock", "read", "configure", "map", "uinput", "spawn", "registered"}

\* What Main is about to do says where it is.
LEMMA MainIsAt ==
    ASSUME Types, MainAt, NEW what, At(Main, what)
    PROVE  /\ what \in Searching => MainSearches /\ Tail(prog[Main]) = <<>>
           /\ what = "publish" =>
                 MainPublishes /\ Tail(prog[Main]) = <<Short(NoLock, "interface")>>
           /\ what = "interface" => MainPublishes /\ prog[Main] = <<Short(NoLock, "interface")>>
           /\ what = "withdraw" => MainWithdraws
           /\ what \in RegisterDeeds =>
                 /\ MainRegisters /\ Len(prog[Main]) \in 1..10
                 /\ Len(Tail(prog[Main])) = Len(prog[Main]) - 1
                 /\ Len(prog[Main]) > 1 => Within(Tail(prog[Main]), iface[cur])
                 /\ Len(prog[Main]) = 1 => Tail(prog[Main]) = <<>>
                 /\ what = "subscribe" <=> Len(prog[Main]) = 10
                 /\ what \in {"lock", "read"} <=> Len(prog[Main]) \in {9, 8, 7, 5}
                 /\ what = "configure" <=> Len(prog[Main]) = 6
                 /\ what = "map" <=> Len(prog[Main]) = 4
                 /\ what = "uinput" <=> Len(prog[Main]) = 3
                 /\ what = "spawn" <=> Len(prog[Main]) = 2
                 /\ what = "registered" <=> Len(prog[Main]) = 1
<1> DEFINE p == prog[Main]
<1>1. p # <<>> /\ Head(p).does = what  BY DEF At
<1>2. p \in Seq(Steps)  BY ActorsAre DEF Types
<1>3. CASE MainSearches
  <2>1. what \in Searching  BY <1>1, <1>2, <1>3 DEF MainSearches
  <2>2. Tail(p) = <<>>  BY <1>1, <1>2, <1>3, Tails DEF MainSearches
  <2> QED  BY <1>3, <2>1, <2>2 DEF Searching, RegisterDeeds
<1>4. CASE MainPublishes
  <2>1. CASE p = <<Short(NoLock, "publish"), Short(NoLock, "interface")>>
    <3>1. what = "publish" /\ Tail(p) = <<Short(NoLock, "interface")>>  BY <1>1, <2>1 DEF Short, Step
    <3> QED  BY <1>4, <3>1 DEF Searching, RegisterDeeds
  <2>2. CASE p = <<Short(NoLock, "interface")>>
    <3>1. what = "interface"  BY <1>1, <2>2 DEF Short, Step
    <3> QED  BY <1>4, <2>2, <3>1 DEF Searching, RegisterDeeds
  <2> QED  BY <1>4, <2>1, <2>2 DEF MainPublishes
<1>5. CASE MainWithdraws
  <2>1. what = "withdraw"  BY <1>1, <1>5 DEF Short, Step, MainWithdraws
  <2> QED  BY <1>5, <2>1 DEF Searching, RegisterDeeds
<1>6. CASE MainRegisters
  <2> DEFINE m == iface[cur]
             k == Len(p)
  <2>1. Within(p, m)  BY <1>6 DEF MainRegisters
  <2> HIDE DEF m, k, p
  <2>2. /\ k \in 1..10 /\ Head(p) = Register(m)[11 - k] /\ Len(Tail(p)) = k - 1
        /\ k > 1 => Within(Tail(p), m)
        /\ k = 1 => Tail(p) = <<>>
    BY <2>1, <1>2, WithinTail DEF k
  <2>3. Register(m)[11 - k].does = what  BY <1>1, <2>2
  <2>4. what \in RegisterDeeds  BY <2>2, <2>3, RegisterAt DEF RegisterDeeds
  <2>5. what \notin Searching \cup {"publish", "interface", "withdraw"}
    BY <2>4 DEF RegisterDeeds, Searching
  <2>6. /\ what = "subscribe" <=> k = 10
        /\ what \in {"lock", "read"} <=> k \in {9, 8, 7, 5}
        /\ (what = "configure" <=> k = 6) /\ (what = "map" <=> k = 4) /\ (what = "uinput" <=> k = 3)
        /\ (what = "spawn" <=> k = 2) /\ (what = "registered" <=> k = 1)
    <3> DEFINE does(w) == Register(m)[11 - k].does = w
    <3> HIDE DEF does
    <3>1. k \in 1..10 /\ does(what)  BY <2>2, <2>3 DEF does
    <3> QED  BY <3>1, RegisterAt DEF does
  <2> QED  BY <1>6, <2>2, <2>5, <2>6 DEF m, k, p
<1> QED  BY <1>1, <1>3, <1>4, <1>5, <1>6 DEF MainAt

-----------------------------------------------------------------------------
(* Types.                                                                  *)

\* The programs of one or two steps have their type.
LEMMA ShortPrograms ==
    /\ <<>> \in Seq(Steps)
    /\ \A l \in {NoLock, System}, what \in Deeds : <<Short(l, what)>> \in Seq(Steps)
    /\ <<Short(NoLock, "publish"), Short(NoLock, "interface")>> \in Seq(Steps)
    /\ \A p \in Paths, what \in Deeds : <<StepOn(p, System, what)>> \in Seq(Steps)
    /\ \A what \in {"reload", "show"} : <<Lock(Config1), Step(System, what, {System, Config1})>> \in Seq(Steps)
<1>1. /\ NoLock \in Locks /\ System \in Locks /\ Config1 \in Locks /\ {System, Config1} \in SUBSET Locks
      /\ "publish" \in Deeds /\ "interface" \in Deeds /\ {"reload", "show"} \subseteq Deeds
  BY DEF Locks, Deeds
<1>2. ASSUME NEW l \in {NoLock, System}, NEW what \in Deeds
      PROVE  <<Short(l, what)>> \in Seq(Steps)
  <2>1. Short(l, what) \in Steps  BY <1>1, ShortsAre
  <2> QED  BY <2>1
<1>3. <<Short(NoLock, "publish"), Short(NoLock, "interface")>> \in Seq(Steps)
  <2>1. Short(NoLock, "publish") \in Steps /\ Short(NoLock, "interface") \in Steps  BY <1>1, ShortsAre
  <2> QED  BY <2>1
<1>4. ASSUME NEW p \in Paths, NEW what \in Deeds
      PROVE  <<StepOn(p, System, what)>> \in Seq(Steps)
  <2>1. StepOn(p, System, what) \in Steps  BY <1>1, StepOnsAre
  <2> QED  BY <2>1
<1>5. ASSUME NEW what \in {"reload", "show"}
      PROVE  <<Lock(Config1), Step(System, what, {System, Config1})>> \in Seq(Steps)
  <2>1. what \in Deeds  BY <1>1
  <2>2. Lock(Config1) \in Steps  BY <2>1, <1>1, ShortsAre
  <2>3. Step(System, what, {System, Config1}) \in Steps  BY <1>1, <2>1, StepsAre
  <2> QED  BY <2>2, <2>3
<1> QED  BY <1>2, <1>3, <1>4, <1>5

\* The numbers in use are numbers of devices.
LEMMA IdsAre ==
    ASSUME Types
    PROVE  /\ Ids \subseteq Nat /\ 0 \notin Ids /\ Len(opened) \in Nat
           /\ \A n \in Numbers : n \in Ids /\ n \in Nat /\ n # 0 /\ opened[n] \in Paths
BY RegistryAssumption DEF Types, Ids, Numbers

\* What is not a lock or a program
DataTypes ==
    /\ present \in SUBSET Paths
    /\ opened \in Seq(Paths) /\ Len(opened) <= MaxOpens
    /\ devs \in [Paths -> Nat] /\ object \in [Paths -> Nat]
    /\ iface \in [Ids -> Nat] /\ task \in [Ids -> TaskStates]
    /\ events \in Seq(Events)
    /\ reg \in SUBSET Ids /\ cur \in Nat

\* Types in two parts,
LEMMA TypesSplit == Types <=> DataTypes /\ LockTypes
BY DEF Types, DataTypes, LockTypes

\* also after a step.
LEMMA TypesSplitNext == Types' <=> DataTypes' /\ LockTypes'
BY DEF Types, DataTypes, LockTypes

\* The steps of Main keep the types.
LEMMA MainTypes ==
    ASSUME DataInv, MainStep
    PROVE  Types'
<1> USE DEF hwVars, devVars, taskVars, confVars, mainVars, lockVars
<1>0. Types /\ MainAt /\ Latest /\ Tasks /\ Objects /\ Main \in Actors /\ DataTypes /\ LockTypes
  BY ActorsAre, TypesSplit DEF DataInv
<1>1. CASE MainStarts
  <2>1. LockTypes'
    <3>1. CASE byName
      <4>1. PICK p \in Paths : Begins(Main, <<StepOn(p, System, "find")>>)  BY <1>1, <3>1 DEF MainStarts
      <4>2. <<StepOn(p, System, "find")>> \in Seq(Steps)  BY ShortPrograms DEF Deeds
      <4> QED  BY <1>0, <4>1, <4>2, Begun
    <3>2. CASE ~byName
      <4>1. Begins(Main, <<Short(System, "scan")>>)  BY <1>1, <3>2 DEF MainStarts
      <4>2. <<Short(System, "scan")>> \in Seq(Steps)  BY ShortPrograms DEF Deeds
      <4> QED  BY <1>0, <4>1, <4>2, Begun
    <3> QED  BY <3>1, <3>2
  <2>2. DataTypes'  BY <1>0, <1>1 DEF MainStarts, DataTypes
  <2> QED  BY <2>1, <2>2, TypesSplitNext
<1>2. CASE FindDevs
  <2>1. LockTypes'  BY <1>0, <1>2, Advanced DEF FindDevs, At
  <2> DEFINE found == {p \in present : devs[p] = 0}
  <2>2. ASSUME UNCHANGED <<opened, devs, reg>> PROVE DataTypes'
    BY <1>0, <1>2, <2>2 DEF FindDevs, DataTypes
  <2>3. ASSUME \E new \in [1..Cardinality(found) -> found] :
                 {new[i] : i \in DOMAIN new} = found /\ Opens(new)
        PROVE  DataTypes'
    <3>1. PICK new \in [1..Cardinality(found) -> found] : {new[i] : i \in DOMAIN new} = found /\ Opens(new)
      BY <2>3
    <3>2. Fresh(new)  BY <1>0, <3>1, FoundIsFresh
    <3>3. DataTypes'
      <4>1. /\ opened' \in Seq(Paths) /\ Len(opened') <= MaxOpens /\ devs' \in [Paths -> Nat] /\ reg' \in SUBSET Ids
        BY <1>0, <3>1, <3>2, OpensAll
      <4> QED  BY <4>1, <1>0, <1>2 DEF FindDevs, DataTypes
    <3> QED  BY <3>3
  <2>4. DataTypes'  BY <2>2, <2>3, <1>2 DEF FindDevs
  <2> QED  BY <2>1, <2>4, TypesSplitNext
<1>3. CASE FindDev
  <2>1. LockTypes'  BY <1>0, <1>3, Advanced DEF FindDev, At
  <2>2. PICK p \in Head(prog[Main]).node :
           \/ Unknown(p) /\ p \in present /\ Opens(<<p>>)
           \/ UNCHANGED <<opened, devs, reg>>
    BY <1>3 DEF FindDev
  <2>3. ASSUME UNCHANGED <<opened, devs, reg>> PROVE DataTypes'
    BY <1>0, <1>3, <2>3 DEF FindDev, DataTypes
  <2>4. ASSUME Unknown(p), p \in present, Opens(<<p>>) PROVE DataTypes'
    <3>1. p \in Paths  BY <1>0, <2>4 DEF Types
    <3>2. Fresh(<<p>>)  BY <2>4, <3>1 DEF Fresh, Unknown
    <3>3. /\ opened' \in Seq(Paths) /\ Len(opened') <= MaxOpens /\ devs' \in [Paths -> Nat] /\ reg' \in SUBSET Ids
      BY <1>0, <2>4, <3>2, OpensAll
    <3> QED  BY <3>3, <1>0, <1>3 DEF FindDev, DataTypes
  <2> QED  BY <2>1, <2>2, <2>3, <2>4, TypesSplitNext
<1>4. CASE CloseDev
  <2>1. LockTypes'  BY <1>0, <1>4, Advanced DEF CloseDev, At
  <2>4. PICK p \in Head(prog[Main]).node : devs' = [devs EXCEPT ![p] = 0]  BY <1>4 DEF CloseDev
  <2>2. devs' \in [Paths -> Nat]  BY <1>0, <2>4 DEF Types
  <2>3. DataTypes'  BY <1>0, <1>4, <2>2 DEF CloseDev, DataTypes
  <2> QED  BY <2>1, <2>3, TypesSplitNext
<1>5. CASE Notify
  <2>1. LockTypes'  BY <1>0, <1>5, Advanced DEF Notify, At
  <2>2. DataTypes'  BY <1>0, <1>5 DEF Notify, DataTypes
  <2> QED  BY <2>1, <2>2, TypesSplitNext
<1>6. CASE NextDevice
  <2>1. LockTypes'  BY <1>0, <1>6, ShortPrograms, Begun DEF NextDevice
  <2>2. reg' \in SUBSET Ids /\ cur' \in Nat  BY <1>0, <1>6, IdsAre DEF NextDevice, Types
  <2>3. DataTypes'  BY <1>0, <1>6, <2>2 DEF NextDevice, DataTypes
  <2> QED  BY <2>1, <2>3, TypesSplitNext
<1>7. CASE Publish
  <2>1. LockTypes'  BY <1>0, <1>7, Advanced DEF Publish, At
  <2>2. DataTypes'  BY <1>0, <1>7 DEF Publish, DataTypes
  <2> QED  BY <2>1, <2>2, TypesSplitNext
<1>8. CASE Interface
  <2> DEFINE m == object[opened[cur]]
  <2>1. MainPublishes  BY <1>0, <1>8, MainIsAt DEF Interface
  <2>2. cur \in Numbers /\ opened[cur] \in Paths  BY <1>0, <2>1, IdsAre DEF MainPublishes, Latest
  <2>3. m \in Nat /\ (m # 0 => m \in Ids)  BY <1>0, <2>2, IdsAre DEF Types, Objects
  <2>4. LockTypes'
    <3>1. CASE m = 0  BY <1>0, <1>8, <3>1, ShortPrograms, Continued DEF Interface
    <3>2. CASE m # 0
      <4>1. Register(m) \in Seq(Steps)  BY <2>3, <3>2, ProgramTypes
      <4>2. Continues(Main, Register(m))  BY <1>8, <3>2 DEF Interface
      <4> QED  BY <1>0, <4>1, <4>2, Continued
    <3> QED  BY <3>1, <3>2
  <2>5. iface' \in [Ids -> Nat] /\ reg' \in SUBSET Ids /\ cur' \in Nat
    BY <1>0, <1>8, <2>3 DEF Interface, Gives, Types
  <2>6. events' = events  BY <1>8 DEF Interface, Gives
  <2>7. DataTypes'  BY <1>0, <1>8, <2>5, <2>6 DEF Interface, DataTypes
  <2> QED  BY <2>4, <2>7, TypesSplitNext
<1>9. CASE Subscribe
  <2>1. LockTypes'  BY <1>0, <1>9, Advanced DEF Subscribe, At
  <2>2. DataTypes'  BY <1>0, <1>9 DEF Subscribe, DataTypes, TaskStates
  <2> QED  BY <2>1, <2>2, TypesSplitNext
<1>10. CASE Spawn
  <2>1. MainRegisters  BY <1>0, <1>10, MainIsAt DEF Spawn, RegisterDeeds
  <2>2. iface[cur] \in Ids /\ cur \in Ids  BY <1>0, <2>1, IdsAre DEF MainRegisters, Latest
  <2>3. TaskStart(iface[cur]) \in Seq(Steps)  BY <2>2, ProgramTypes
  <2>4. Tail(prog[Main]) \in Seq(Steps)  BY <1>0, <1>10 DEF Spawn, At, Types
  <2>5. LockTypes'
    <3>1. prog' = [prog EXCEPT ![Main] = Tail(@), ![Task(cur)] = TaskStart(iface[cur])] /\ owner' = owner
      BY <1>10 DEF Spawn
    <3> QED  BY <1>0, <3>1, <2>3, <2>4 DEF LockTypes
  <2>6. DataTypes'  BY <1>0, <1>10 DEF Spawn, DataTypes, TaskStates
  <2> QED  BY <2>5, <2>6, TypesSplitNext
<1>11. CASE Registered
  <2>1. LockTypes'  BY <1>0, <1>11, Advanced DEF Registered, At
  <2>2. DataTypes'  BY <1>0, <1>11 DEF Registered, DataTypes, Gives
  <2> QED  BY <2>1, <2>2, TypesSplitNext
<1>12. CASE Withdrawn
  <2>1. LockTypes'  BY <1>0, <1>12, ShortPrograms, Continued DEF Withdrawn
  <2>2. DataTypes'  BY <1>0, <1>12 DEF Withdrawn, Withdraw, DataTypes, Gives
  <2> QED  BY <2>1, <2>2, TypesSplitNext
<1>13. CASE MainGoesOn \/ MainEnds
  <2>1. LockTypes'  BY <1>0, <1>13 DEF MainGoesOn, MainEnds, LockTypes
  <2>2. DataTypes'  BY <1>0, <1>13 DEF MainGoesOn, MainEnds, DataTypes
  <2> QED  BY <2>1, <2>2, TypesSplitNext
<1>14. CASE HandleEvent
  <2> DEFINE ev == Head(events)
             s == CASE ev.type = "add"    -> StepOn(ev.node, System, "find")
                    [] ev.type = "remove" -> StepOn(ev.node, System, "close")
                    [] ev.type = "drm"    -> Short(System, "notify")
  <2>1. ev \in Events /\ Tail(events) \in Seq(Events)  BY <1>0, <1>14 DEF HandleEvent, Types
  <2>2. <<s>> \in Seq(Steps)
    <3>1. ev.node \in Paths /\ ev.type \in {"add", "remove", "drm"}  BY <2>1 DEF Events
    <3>2. {"find", "close", "notify"} \subseteq Deeds  BY DEF Deeds
    <3>3. s \in {StepOn(ev.node, System, "find"), StepOn(ev.node, System, "close"), Short(System, "notify")}
      BY <3>1
    <3> HIDE DEF s, ev
    <3> QED  BY <3>1, <3>2, <3>3, ShortPrograms
  <2>3. LockTypes'
    <3>1. Begins(Main, <<s>>)  BY <1>14 DEF HandleEvent
    <3> QED  BY <1>0, <2>2, <3>1, Begun
  <2>4. DataTypes'  BY <1>0, <1>14, <2>1 DEF HandleEvent, DataTypes
  <2> QED  BY <2>3, <2>4, TypesSplitNext
<1> QED
  BY <1>1, <1>2, <1>3, <1>4, <1>5, <1>6, <1>7, <1>8, <1>9, <1>10, <1>11, <1>12, <1>13, <1>14
  DEF MainStep

-----------------------------------------------------------------------------
(* The steps of the others.                                                *)

\* How an actor moves on in its program
Moves(a) ==
    \/ \E rest \in Seq(Steps) : Ordered(rest) /\ Begins(a, rest)
    \/ prog[a] # <<>> /\ Advances(a)
    \/ \E rest \in Seq(Steps) : Ordered(rest) /\ Abandons(a, rest)

\* Moving on keeps the types, and touches no other program.
LEMMA MovesTypes ==
    ASSUME Types, NEW a \in Actors, Moves(a)
    PROVE  LockTypes' /\ Others(a)
BY Begun, Advanced, Abandoned DEF Moves

\* An actor other than Main that may have a program
Runs(a) == a # Main /\ \A n \in Ids : a = Task(n) => task[n] = "run"

\* Who has a program is running.
LEMMA HasProgram ==
    ASSUME Types, Tasks, NEW a \in Actors, a # Main, prog[a] # <<>>
    PROVE  Runs(a)
BY DEF Runs, Tasks

\* A step of a program is such a move,
LEMMA ProceedMoves ==
    ASSUME DataInv, NEW a \in Actors, Proceed(a)
    PROVE  /\ prog[a] # <<>> /\ Moves(a)
           /\ UNCHANGED <<hwVars, devVars, iface, inbox, confVars, mainVars>>
           /\ a # Main => task' = task
<1>1. prog[a] # <<>>  BY DEF Proceed, Passes, Configures, Maps, OpensUinput, At
<1>2. UNCHANGED <<hwVars, devVars, iface, inbox, confVars, mainVars>>
  BY DEF Proceed, Passes, Configures, Maps, OpensUinput, taskVars
<1>3. a # Main => task' = task
  BY DEF Proceed, Passes, Configures, Maps, OpensUinput, taskVars, Fails
<1>4. Advances(a) \/ Fails(a)  BY DEF Proceed, Passes, Configures, Maps, OpensUinput
<1>5. CASE Advances(a)  BY <1>1, <1>2, <1>3, <1>5 DEF Moves
<1>6. CASE Fails(a)
  <2> DEFINE rest == IF a = Main THEN <<Short(NoLock, "withdraw")>> ELSE <<>>
  <2>1. Abandons(a, rest)  BY <1>6 DEF Fails
  <2>2. rest \in Seq(Steps)  BY ShortPrograms DEF Deeds
  <2>3. Ordered(<<Short(NoLock, "withdraw")>>)  BY OneStepOrdered DEF Short, Step
  <2>4. Ordered(<<>>)  BY DEF Ordered
  <2>5. Ordered(rest)  BY <2>3, <2>4
  <2> HIDE DEF rest
  <2> QED  BY <1>1, <1>2, <1>3, <2>1, <2>2, <2>5 DEF Moves
<1> QED  BY <1>4, <1>5, <1>6

\* so is what a task does in its loop,
LEMMA TaskMoves ==
    ASSUME DataInv, NEW n \in Ids, HandleStatus(n) \/ HandleBroadcast(n)
    PROVE  /\ Moves(Task(n)) /\ Runs(Task(n))
           /\ UNCHANGED <<hwVars, devVars, iface, task, applied, mapped, confVars, mainVars>>
<1> DEFINE m == iface[n]
<1>1. Types /\ task[n] = "run" /\ m \in Ids
  BY IdsAre DEF DataInv, Tasks, HandleStatus, HandleBroadcast, Selects
<1>2. Runs(Task(n))  BY <1>1, ActorsAre DEF Runs
<1>3. UNCHANGED <<hwVars, devVars, iface, task, applied, mapped, confVars, mainVars>>
  BY DEF HandleStatus, HandleBroadcast, taskVars
<1> DEFINE programs == {StateChange(m), RetryRegistration(m), ReloadConfig(m), <<>>, ConfigureDev(m, {})}
<1>4. \A r \in programs : r \in Seq(Steps) /\ Ordered(r)
  <2>1. Ordered(<<>>)  BY DEF Ordered
  <2> HIDE DEF m
  <2> QED  BY <1>1, <2>1, ProgramTypes, ProgramsOrdered, ShortPrograms
<1>5. \E r \in programs : Begins(Task(n), r)
  <2> HIDE DEF Begins
  <2> QED  BY DEF HandleStatus, HandleBroadcast
<1> HIDE DEF programs
<1> QED  BY <1>2, <1>3, <1>4, <1>5 DEF Moves

\* and what clients, reloads and ConfigTask do.
LEMMA ServiceMoves ==
    ASSUME DataInv,
           \/ \E p \in Paths : CallMethod(p)
           \/ AskReload \/ Reconfig \/ ConfigTask \/ Reconfigure
    PROVE  /\ \E a \in {Client, Reload, Config} : Moves(a) \/ UNCHANGED lockVars
           /\ UNCHANGED <<hwVars, devVars, iface, task, applied, mapped,
                          hotplug, byName, phase, events, reg, cur, joined>>
<1>0. Types  BY DEF DataInv
<1>1. ASSUME NEW p \in Paths, CallMethod(p) PROVE Moves(Client)
  <2>1. object[p] \in Ids  BY <1>0, <1>1, IdsAre DEF DataInv, Objects, CallMethod
  <2>2. Begins(Client, DeviceMethod(object[p]))  BY <1>1 DEF CallMethod
  <2>3. DeviceMethod(object[p]) \in Seq(Steps) /\ Ordered(DeviceMethod(object[p]))
    BY <2>1, ProgramTypes, ProgramsOrdered
  <2> QED  BY <2>2, <2>3 DEF Moves
<1>2. ASSUME AskReload PROVE Moves(Reload)
  <2>1. Ordered(<<Short(System, "sighup")>>)  BY OneStepOrdered DEF Short, Step
  <2>2. <<Short(System, "sighup")>> \in Seq(Steps)  BY ShortPrograms DEF Deeds
  <2>3. \/ Begins(Reload, <<Lock(Config1), Step(System, "reload", {System, Config1})>>)
        \/ Begins(Reload, <<Short(System, "sighup")>>)
    BY <1>2 DEF AskReload
  <2> QED  BY <2>1, <2>2, <2>3, ShortPrograms, ConfigProgramsOrdered DEF Moves
<1>3. ASSUME Reconfig PROVE Moves(Reload)  BY <1>3 DEF Reconfig, Moves, At
<1>4. ASSUME ConfigTask PROVE Moves(Config) \/ UNCHANGED lockVars
  <2>1. Ordered(<<>>)  BY DEF Ordered
  <2>2. CASE Lagged(confInbox)  BY <1>4, <2>2 DEF ConfigTask
  <2>3. CASE ~Lagged(confInbox)
    <3>1. \/ Begins(Config, <<Lock(Config1), Step(System, "show", {System, Config1})>>)
          \/ Begins(Config, <<>>)
      BY <1>4, <2>3 DEF ConfigTask
    <3> QED  BY <2>1, <3>1, ShortPrograms, ConfigProgramsOrdered DEF Moves
  <2> QED  BY <2>2, <2>3
<1>5. ASSUME Reconfigure PROVE Moves(Config)  BY <1>5 DEF Reconfigure, Moves, At
<1>6. UNCHANGED <<hwVars, devVars, iface, task, applied, mapped, hotplug, byName, phase, events, reg, cur, joined>>
  BY DEF CallMethod, AskReload, Reconfig, ConfigTask, Reconfigure, taskVars, mainVars
<1> QED  BY <1>1, <1>2, <1>3, <1>4, <1>5, <1>6

\* A step of an actor that is not Main and has no part in the registry keeps DataInv.
LEMMA Quiet ==
    ASSUME DataInv, Types', UNCHANGED <<devVars, iface, task, reg, cur>>,
           phase' = "start" => phase = "start", NEW a \in Actors, Runs(a), Others(a)
    PROVE  DataInv'
<1>1. prog'[Main] = prog[Main]  BY ActorsAre DEF Others, Runs
<1>2. UNCHANGED <<opened, devs, cancelled, object, iface, task, reg, cur>>  BY DEF devVars
<1>3. Tokens' /\ Objects' /\ Latest' /\ PublishedIsOwned'
  BY <1>2 DEF DataInv, Tokens, Objects, Latest, PublishedIsOwned, Numbers
<1>4. Tasks'
  <2>1. ASSUME NEW n \in Ids, task'[n] # "run" PROVE prog'[Task(n)] = <<>>
    <3>1. task[n] # "run"  BY <1>2, <2>1
    <3>2. Task(n) # a /\ Task(n) \in Actors  BY <3>1, ActorsAre DEF Runs
    <3> QED  BY <3>1, <3>2 DEF Others, DataInv, Tasks
  <2>2. Numbers' = Numbers  BY <1>2 DEF Numbers
  <2> QED  BY <1>2, <2>1, <2>2 DEF DataInv, Tasks
<1>5. MainAt'
  BY <1>1, <1>2 DEF DataInv, MainAt, MainSearches, MainPublishes, MainWithdraws, MainRegisters, Numbers
<1>6. AtStart'  BY <1>1, <1>2 DEF DataInv, AtStart
<1> QED  BY <1>3, <1>4, <1>5, <1>6 DEF DataInv

\* The kernel changes nothing but the hardware and the events.
LEMMA PlugTypes ==
    ASSUME DataInv, NEW p \in Paths, Plug(p)
    PROVE  Types' /\ UNCHANGED <<devVars, taskVars, confVars, reg, cur, phase, lockVars>>
<1>1. UNCHANGED <<devVars, taskVars, confVars, reg, cur, phase, lockVars>>  BY DEF Plug
<1>2. PICK type \in {"drm", "add", "remove"} :
         /\ present' = CASE type = "add"    -> present \cup {p}
                         [] type = "remove" -> present \ {p}
                         [] OTHER           -> present
         /\ events' = IF phase = "listen" THEN Append(events, [type |-> type, node |-> p]) ELSE events
  BY DEF Plug
<1>3. present' \in SUBSET Paths  BY <1>2 DEF DataInv, Types
<1>4. events' \in Seq(Events)
  <2>1. [type |-> type, node |-> p] \in Events /\ events \in Seq(Events)  BY DEF Events, DataInv, Types
  <2> QED  BY <1>2, <2>1
<1>5. Types'
  <2>1. UNCHANGED <<opened, devs, object, iface, task, reg, cur, prog, owner>>
    BY <1>1 DEF devVars, taskVars, lockVars
  <2> QED  BY <1>3, <1>4, <2>1 DEF DataInv, Types
<1> QED  BY <1>1, <1>5

\* A task that ends takes its object with it, and no other one.
LEMMA TaskEnds ==
    ASSUME DataInv, NEW n \in Ids, LeaveLoop(n) \/ Deregister(n)
    PROVE  DataInv'
<1>0. Types /\ Tokens /\ Objects /\ Latest /\ Tasks /\ MainAt /\ AtStart /\ PublishedIsOwned
  BY DEF DataInv
<1>1. /\ UNCHANGED <<present, opened, devs, iface, events, reg, cur, phase, prog, owner>>
      /\ cancelled \subseteq cancelled' /\ Numbers' = Numbers
  BY DEF LeaveLoop, Deregister, hwVars, mainVars, lockVars, Numbers
<1>2. /\ task[n] \in {"run", "ending"} /\ (task[n] = "run" => prog[Task(n)] = <<>>)
      /\ task' = [task EXCEPT ![n] = IF task[n] = "run" THEN "ending" ELSE "ended"]
      /\ object' = IF task[n] = "run" THEN object ELSE [object EXCEPT ![opened[iface[n]]] = 0]
  BY DEF LeaveLoop, Deregister, Selects, IsIdle
<1>3. /\ n \in Numbers /\ iface[n] \in Numbers /\ opened[iface[n]] = opened[n] /\ opened[n] \in Paths
      /\ n \notin reg
  BY <1>0, <1>2, IdsAre DEF Tasks
<1>4. Types'
  <2>1. task' \in [Ids -> TaskStates] /\ object' \in [Paths -> Nat]  BY <1>0, <1>2 DEF Types, TaskStates
  <2> QED  BY <1>0, <1>1, <2>1 DEF Types
<1>5. Tokens'  BY <1>0, <1>1 DEF Tokens
<1>6. Objects'  BY <1>0, <1>1, <1>2 DEF Objects, Types
<1>7. Latest' /\ AtStart'  BY <1>0, <1>1 DEF Latest, AtStart
<1>8. Tasks'
  <2>1. \A k \in Ids : k # n => task'[k] = task[k]  BY <1>0, <1>2 DEF Types
  <2>2. task'[n] \in {"ending", "ended"}  BY <1>0, <1>2 DEF Types
  <2>3. prog[Task(n)] = <<>>  BY <1>0, <1>2 DEF Tasks
  <2>4. \A k \in Ids : task'[k] \in {"subscribed", "run", "ending"} =>
          task[k] \in {"subscribed", "run", "ending"}
    BY <2>1, <1>2
  <2> QED  BY <1>0, <1>1, <1>3, <2>1, <2>2, <2>3, <2>4 DEF Tasks
<1>9. MainAt'
  <2>1. cur # n => task'[cur] = task[cur]
    <3>1. CASE cur \in Ids  BY <3>1, <1>0, <1>2 DEF Types
    <3>2. CASE cur = 0
      <4>1. 0 \notin DOMAIN task  BY <1>0, IdsAre DEF Types
      <4> QED  BY <1>0, <1>2, <3>2, <4>1, IdsAre DEF Types
    <3> QED  BY <3>1, <3>2, <1>0, IdsAre DEF Latest
  <2>2. CASE prog[Main] = <<>> \/ MainSearches
    BY <1>1, <2>2 DEF MainAt, MainSearches
  <2>3. CASE MainPublishes \/ MainWithdraws
    <3>1. cur # n  BY <1>2, <2>3 DEF MainPublishes, MainWithdraws
    <3> QED  BY <1>1, <2>1, <2>3, <3>1 DEF MainAt, MainPublishes, MainWithdraws
  <2>4. CASE MainRegisters
    <3>1. cur \in Numbers /\ opened[cur] \in Paths  BY <1>0, <2>4, IdsAre DEF Latest, MainRegisters
    <3>2. object'[opened[cur]] \in {0, object[opened[cur]]}  BY <1>0, <1>2, <3>1 DEF Types
    <3>3. cur = n => Len(prog[Main]) = 1
      <4>1. Len(prog[Main]) \in 1..10  BY <2>4 DEF MainRegisters, Within
      <4> QED  BY <4>1, <2>4, <1>2 DEF MainRegisters
    <3>4. cur = n => task'[cur] = "ending" \/ object'[opened[cur]] = 0
      BY <1>0, <1>2, <1>3, <3>1 DEF Types
    <3>5. Len(prog[Main]) = 1 => object'[opened[cur]] = 0 \/ task'[cur] \in {"run", "ending"}
      BY <2>1, <2>4, <3>2, <3>4 DEF MainRegisters
    <3>6. /\ Len(prog[Main]) = 10 => task'[cur] = "none"
          /\ Len(prog[Main]) \in 2..9 => task'[cur] = "subscribed"
      BY <2>1, <2>4, <3>3 DEF MainRegisters
    <3>7. MainRegisters'
      BY <1>1, <2>4, <3>2, <3>5, <3>6 DEF MainRegisters
    <3> QED  BY <3>7 DEF MainAt
  <2> QED  BY <1>0, <2>2, <2>3, <2>4 DEF MainAt
<1>10. PublishedIsOwned'
  <2> SUFFICES ASSUME NEW p \in Paths, object'[p] # 0
               PROVE  \/ cur' # 0 /\ opened'[cur'] = p
                      \/ \E k \in Ids : task'[k] \in {"run", "ending"} /\ iface'[k] = object'[p]
    BY DEF PublishedIsOwned
  <2>1. object'[p] = object[p] /\ object[p] # 0  BY <1>0, <1>2 DEF Types
  <2>2. CASE cur # 0 /\ opened[cur] = p  BY <1>1, <2>2
  <2>3. ASSUME NEW k \in Ids, task[k] \in {"run", "ending"}, iface[k] = object[p]
        PROVE  task'[k] \in {"run", "ending"}
    <3>1. CASE k # n  BY <1>0, <1>2, <2>3, <3>1 DEF Types
    <3>2. CASE k = n /\ task[n] = "run"  BY <1>0, <1>2, <3>2 DEF Types
    <3>3. CASE k = n /\ task[n] # "run"
      <4>1. opened[iface[n]] = p  BY <1>0, <2>1, <2>3, <3>3 DEF Objects
      <4>2. object'[p] = 0  BY <1>0, <1>2, <3>3, <4>1 DEF Types
      <4> QED  BY <4>2
    <3> QED  BY <3>1, <3>2, <3>3
  <2> QED  BY <1>0, <1>1, <2>1, <2>2, <2>3 DEF PublishedIsOwned
<1> QED  BY <1>4, <1>5, <1>6, <1>7, <1>8, <1>9, <1>10 DEF DataInv

-----------------------------------------------------------------------------
(* The steps of Main.                                                      *)

\* New tokens are the only ones of their paths that are not cancelled.
LEMMA OpensInv ==
    ASSUME DataInv, Types', NEW new, Fresh(new), Opens(new), cur = 0,
           UNCHANGED <<cancelled, object, iface, task, cur>>, Others(Main)
    PROVE  Tokens' /\ Objects' /\ Latest' /\ Tasks' /\ PublishedIsOwned'
<1> DEFINE base == Len(opened)
<1>0. Types /\ Tokens /\ Objects /\ Latest /\ Tasks /\ PublishedIsOwned  BY DEF DataInv
<1>1. /\ Len(opened') = base + Len(new)
      /\ \A n \in 1..base : opened'[n] = opened[n]
      /\ \A i \in 1..Len(new) : opened'[base + i] = new[i]
      /\ \A i \in 1..Len(new) : devs'[new[i]] = base + i
      /\ \A p \in Paths : devs[p] # 0 => devs'[p] = devs[p]
      /\ \A p \in Paths : devs'[p] = devs[p] \/ \E i \in 1..Len(new) : p = new[i]
      /\ reg' = base + 1 .. base + Len(new)
  BY <1>0, OpensAll
<1>2. base \in Nat /\ Len(new) \in Nat /\ Numbers = 1..base /\ Numbers' = 1..base + Len(new)
  BY <1>0, <1>1 DEF Types, Fresh, Numbers
<1>3. /\ \A i, j \in 1..Len(new) : new[i] = new[j] => i = j
      /\ \A i \in 1..Len(new) : devs[new[i]] = 0 /\ new[i] \in Paths
  BY DEF Fresh
<1> HIDE DEF base
<1>4. ASSUME NEW n \in Numbers'
      PROVE  n \in 1..base \/ \E i \in 1..Len(new) : n = base + i
  <2>1. CASE n <= base  BY <1>2, <2>1
  <2>2. CASE n > base
    <3>1. n - base \in 1..Len(new) /\ n = base + (n - base)  BY <1>2, <2>2
    <3> QED  BY <3>1
  <2> QED  BY <1>2, <2>1, <2>2
<1>5. ASSUME NEW n \in 1..base, n \notin cancelled
      PROVE  devs[opened[n]] = n /\ opened[n] \in Paths /\ n # 0
  BY <1>0, <1>2, <1>5, IdsAre DEF Tokens
<1>6. Tokens'
  <2>1. ASSUME NEW p \in Paths, devs'[p] # 0
        PROVE  devs'[p] \in Numbers' /\ opened'[devs'[p]] = p
    <3>1. CASE devs'[p] = devs[p]
      <4>1. devs[p] \in 1..base /\ opened[devs[p]] = p  BY <1>0, <1>2, <2>1, <3>1 DEF Tokens
      <4> QED  BY <1>1, <1>2, <3>1, <4>1
    <3>2. ASSUME NEW i \in 1..Len(new), p = new[i]
          PROVE  devs'[p] \in Numbers' /\ opened'[devs'[p]] = p
      BY <1>1, <1>2, <3>2
    <3> QED  BY <1>1, <3>1, <3>2
  <2>2. ASSUME NEW n \in Numbers'
        PROVE  n \in cancelled' \/ devs'[opened'[n]] = n
    <3>1. CASE n \in 1..base  BY <1>1, <1>5, <3>1
    <3>2. ASSUME NEW i \in 1..Len(new), n = base + i
          PROVE  devs'[opened'[n]] = n
      BY <1>1, <3>2
    <3> QED  BY <1>4, <3>1, <3>2
  <2>3. ASSUME NEW i \in Numbers', NEW j \in Numbers', i < j, opened'[i] = opened'[j]
        PROVE  i \in cancelled'
    <3>1. CASE i \in 1..base /\ j \in 1..base
      BY <1>0, <1>1, <1>2, <2>3, <3>1 DEF Tokens
    <3>2. ASSUME i \in 1..base, NEW k \in 1..Len(new), j = base + k
          PROVE  i \in cancelled'
      <4>1. opened[i] = new[k]  BY <1>1, <2>3, <3>2
      <4> QED  BY <1>3, <1>5, <3>2, <4>1
    <3>3. ASSUME NEW h \in 1..Len(new), i = base + h
          PROVE  FALSE
      <4>1. j \notin 1..base  BY <1>2, <2>3, <3>3
      <4>2. PICK k \in 1..Len(new) : j = base + k  BY <1>4, <4>1
      <4>3. new[h] = new[k]  BY <1>1, <2>3, <3>3, <4>2
      <4>4. h = k  BY <1>3, <4>3
      <4> QED  BY <1>2, <2>3, <3>3, <4>2, <4>4
    <3> QED  BY <1>4, <3>1, <3>2, <3>3
  <2> QED  BY <2>1, <2>2, <2>3 DEF Tokens
<1>7. Objects'
  <2>1. ASSUME NEW p \in Paths, object[p] # 0
        PROVE  object[p] \in Numbers' /\ opened'[object[p]] = p
    <3>1. object[p] \in 1..base /\ opened[object[p]] = p  BY <1>0, <1>2, <2>1 DEF Objects
    <3> QED  BY <1>1, <1>2, <3>1
  <2> QED  BY <2>1 DEF Objects
<1>8. Latest'
  <2>1. reg' \subseteq Numbers' /\ 0 \notin reg'  BY <1>1, <1>2
  <2>2. ASSUME NEW r \in reg', NEW n \in Numbers', opened'[n] = opened'[r]
        PROVE  n <= r
    <3>1. r \in Nat /\ r > base /\ r \in Numbers'  BY <1>1, <1>2
    <3>2. CASE n \in 1..base  BY <1>2, <3>1, <3>2
    <3>3. ASSUME NEW i \in 1..Len(new), n = base + i PROVE n <= r
      <4>1. PICK k \in 1..Len(new) : r = base + k  BY <1>2, <1>4, <3>1
      <4>2. i = k  BY <1>1, <1>3, <2>2, <3>3, <4>1
      <4> QED  BY <1>2, <3>3, <4>1, <4>2
    <3> QED  BY <1>4, <3>2, <3>3
  <2>3. cur' = 0  OBVIOUS
  <2> QED  BY <2>1, <2>2, <2>3 DEF Latest
<1>9. Tasks'
  <2>1. ASSUME NEW n \in Ids, task[n] \in {"subscribed", "run", "ending"}
        PROVE  /\ n \in Numbers' /\ iface[n] \in Numbers' /\ iface[n] <= n
               /\ opened'[iface[n]] = opened'[n]
    <3>1. n \in 1..base /\ iface[n] \in 1..base /\ iface[n] <= n /\ opened[iface[n]] = opened[n]
      BY <1>0, <1>2, <2>1 DEF Tasks
    <3> QED  BY <1>1, <1>2, <3>1
  <2>2. ASSUME NEW n \in Ids, n \in reg' \/ n \notin Numbers'
        PROVE  task[n] = "none"
    <3>1. n \notin 1..base  BY <1>1, <1>2, <2>2
    <3> QED  BY <1>0, <1>2, <3>1 DEF Tasks
  <2>3. \A n \in Ids : prog'[Task(n)] = prog[Task(n)]  BY ActorsAre DEF Others
  <2> QED  BY <1>0, <2>1, <2>2, <2>3 DEF Tasks
<1>10. PublishedIsOwned'  BY <1>0 DEF PublishedIsOwned
<1> QED  BY <1>6, <1>7, <1>8, <1>9, <1>10

\* find_devs and find_dev keep DataInv.
LEMMA SearchEnds ==
    ASSUME DataInv, FindDevs \/ FindDev
    PROVE  DataInv'
<1> USE DEF hwVars, devVars, taskVars, confVars, mainVars, lockVars
<1>0. Types /\ Tokens /\ Objects /\ Latest /\ Tasks /\ MainAt /\ AtStart /\ PublishedIsOwned /\ Types'
  BY MainTypes DEF DataInv, MainStep
<1>1. PICK what \in {"scan", "find"} : At(Main, what)  BY DEF FindDevs, FindDev
<1>2. MainSearches /\ Tail(prog[Main]) = <<>> /\ prog[Main] # <<>>
  BY <1>0, <1>1, MainIsAt DEF Searching, At
<1>3. Advances(Main) /\ UNCHANGED <<cancelled, object, iface, task, phase, cur>>  BY DEF FindDevs, FindDev
<1>4. prog'[Main] = <<>> /\ Others(Main)  BY <1>0, <1>2, <1>3, ActorsAre, Advanced
<1>5. cur = 0  BY <1>2 DEF MainSearches
<1>6. UNCHANGED <<opened, devs, reg>> \/ \E new : Fresh(new) /\ Opens(new)
  <2>1. CASE FindDevs
    <3> DEFINE found == {p \in present : devs[p] = 0}
    <3>1. CASE UNCHANGED <<opened, devs, reg>>  BY <3>1
    <3>2. ASSUME NEW new \in [1..Cardinality(found) -> found], {new[i] : i \in DOMAIN new} = found, Opens(new)
          PROVE  Fresh(new)
      BY <1>0, <3>2, FoundIsFresh
    <3> QED  BY <2>1, <3>1, <3>2 DEF FindDevs
  <2>2. CASE FindDev
    <3>1. PICK p \in Head(prog[Main]).node :
             \/ Unknown(p) /\ p \in present /\ Opens(<<p>>)
             \/ UNCHANGED <<opened, devs, reg>>
      BY <2>2 DEF FindDev
    <3>2. ASSUME Unknown(p), p \in present PROVE Fresh(<<p>>)
      BY <1>0, <3>2 DEF Fresh, Unknown, Types
    <3> QED  BY <3>1, <3>2
  <2> QED  BY <2>1, <2>2
<1>7. Tokens' /\ Objects' /\ Latest' /\ Tasks' /\ PublishedIsOwned'
  <2>1. CASE UNCHANGED <<opened, devs, reg>>
    <3>1. \A n \in Ids : prog'[Task(n)] = prog[Task(n)]  BY <1>4, ActorsAre DEF Others
    <3>2. Tasks'  BY <1>0, <1>3, <2>1, <3>1 DEF Tasks, Numbers
    <3>3. Tokens' /\ Objects' /\ Latest' /\ PublishedIsOwned'
      BY <1>0, <1>3, <2>1 DEF Tokens, Objects, Latest, PublishedIsOwned, Numbers
    <3> QED  BY <3>2, <3>3
  <2>2. ASSUME NEW new, Fresh(new), Opens(new)
        PROVE  Tokens' /\ Objects' /\ Latest' /\ Tasks' /\ PublishedIsOwned'
    BY <1>0, <1>3, <1>4, <1>5, <2>2, OpensInv
  <2> QED  BY <1>6, <2>1, <2>2
<1>8. MainAt'  BY <1>4 DEF MainAt
<1>9. phase # "start"  BY <1>0, <1>2 DEF AtStart
<1>10. AtStart'  BY <1>3, <1>9 DEF AtStart
<1> QED  BY <1>0, <1>7, <1>8, <1>10 DEF DataInv

\* Tasks are kept by a step of Main that is not about one.
LEMMA TasksKept ==
    ASSUME DataInv, UNCHANGED <<opened, iface, task>>, reg' \subseteq reg, Others(Main)
    PROVE  Tasks'
<1>1. \A n \in Ids : prog'[Task(n)] = prog[Task(n)]  BY ActorsAre DEF Others
<1> QED  BY <1>1 DEF DataInv, Tasks, Numbers

\* Starting, the end of a search, events, close_dev and reconfig_connector keep DataInv.
LEMMA BetweenSearches ==
    ASSUME DataInv, MainStarts \/ HandleEvent \/ CloseDev \/ Notify \/ MainGoesOn \/ MainEnds
    PROVE  DataInv'
<1> USE DEF hwVars, devVars, taskVars, confVars, mainVars, lockVars
<1>0. Types /\ Tokens /\ Objects /\ Latest /\ Tasks /\ MainAt /\ AtStart /\ PublishedIsOwned /\ Types'
  BY MainTypes DEF DataInv, MainStep
<1>1. UNCHANGED <<opened, object, iface, task, reg, cur>> /\ Numbers' = Numbers
  BY DEF MainStarts, HandleEvent, CloseDev, Notify, MainGoesOn, MainEnds, Numbers
<1>2. Objects' /\ Latest' /\ PublishedIsOwned'
  BY <1>0, <1>1 DEF Objects, Latest, PublishedIsOwned
<1>3. Tokens'
  <2>1. CASE UNCHANGED <<devs, cancelled>>  BY <1>0, <1>1, <2>1 DEF Tokens
  <2>2. CASE CloseDev
    <3>1. PICK p : devs' = [devs EXCEPT ![p] = 0] /\ cancelled' = cancelled \cup ({devs[p]} \ {0})
      BY <2>2 DEF CloseDev
    <3>2. ASSUME NEW q \in Paths
          PROVE  devs'[q] = IF q = p THEN 0 ELSE devs[q]
      BY <1>0, <3>1 DEF Types
    <3>3. ASSUME NEW n \in Numbers
          PROVE  n \in cancelled' \/ devs'[opened[n]] = n
      <4>1. opened[n] \in Paths /\ n # 0  BY <1>0, IdsAre
      <4>2. CASE opened[n] = p
        <5>1. n \in cancelled \/ devs[p] = n  BY <1>0, <4>2 DEF Tokens
        <5> QED  BY <3>1, <4>1, <5>1
      <4>3. CASE opened[n] # p
        <5>1. devs'[opened[n]] = devs[opened[n]]  BY <3>2, <4>1, <4>3
        <5> QED  BY <1>0, <3>1, <5>1 DEF Tokens
      <4> QED  BY <4>2, <4>3
    <3> QED  BY <1>0, <1>1, <3>1, <3>2, <3>3 DEF Tokens
  <2> QED  BY <2>1, <2>2 DEF MainStarts, HandleEvent, Notify, MainGoesOn, MainEnds
<1>4. CASE MainStarts \/ HandleEvent
  <2>1. prog[Main] = <<>> /\ cur = 0 /\ reg = {} /\ phase' # "start"
    BY <1>0, <1>4 DEF MainStarts, HandleEvent, Begins, IsIdle, AtStart
  <2>2. \E s \in Steps : s.does \in Searching /\ Begins(Main, <<s>>)
    <3>1. CASE MainStarts
      <4>1. CASE byName
        <5>1. PICK p \in Paths : Begins(Main, <<StepOn(p, System, "find")>>)  BY <3>1, <4>1 DEF MainStarts
        <5>2. StepOn(p, System, "find") \in Steps  BY StepOnsAre DEF Locks, Deeds
        <5>3. StepOn(p, System, "find").does \in Searching  BY DEF StepOn, Searching
        <5> QED  BY <5>1, <5>2, <5>3
      <4>2. CASE ~byName
        <5>1. Begins(Main, <<Short(System, "scan")>>)  BY <3>1, <4>2 DEF MainStarts
        <5>2. Short(System, "scan") \in Steps  BY ShortsAre DEF Locks, Deeds
        <5>3. Short(System, "scan").does \in Searching  BY DEF Short, Step, Searching
        <5> QED  BY <5>1, <5>2, <5>3
      <4> QED  BY <4>1, <4>2
    <3>2. CASE HandleEvent
      <4> DEFINE ev == Head(events)
                 s == CASE ev.type = "add"    -> StepOn(ev.node, System, "find")
                        [] ev.type = "remove" -> StepOn(ev.node, System, "close")
                        [] ev.type = "drm"    -> Short(System, "notify")
      <4>1. ev \in Events  BY <1>0, <3>2 DEF HandleEvent, Types
      <4>2. ev.node \in Paths /\ ev.type \in {"add", "remove", "drm"}  BY <4>1 DEF Events
      <4>3. /\ StepOn(ev.node, System, "find") \in Steps /\ StepOn(ev.node, System, "close") \in Steps
            /\ Short(System, "notify") \in Steps
        BY <4>2, StepOnsAre, ShortsAre DEF Locks, Deeds
      <4>4. /\ StepOn(ev.node, System, "find").does = "find" /\ StepOn(ev.node, System, "close").does = "close"
            /\ Short(System, "notify").does = "notify"
        BY DEF StepOn, Short, Step
      <4>5. s \in {StepOn(ev.node, System, "find"), StepOn(ev.node, System, "close"), Short(System, "notify")}
        BY <4>2
      <4>6. Begins(Main, <<s>>)  BY <3>2 DEF HandleEvent
      <4> HIDE DEF s, ev
      <4>7. s \in Steps /\ s.does \in Searching  BY <4>3, <4>4, <4>5 DEF Searching
      <4> QED  BY <4>6, <4>7
    <3> QED  BY <1>4, <3>1, <3>2
  <2>3. PICK s \in Steps : s.does \in Searching /\ Begins(Main, <<s>>)  BY <2>2
  <2>4. <<s>> \in Seq(Steps) /\ Len(<<s>>) = 1 /\ <<s>>[1] = s  OBVIOUS
  <2>5. prog'[Main] = <<s>> /\ Others(Main)  BY <1>0, <2>3, <2>4, ActorsAre, Begun
  <2>6. MainSearches'  BY <1>1, <2>1, <2>3, <2>4, <2>5 DEF MainSearches
  <2>7. Tasks'  BY <1>1, <2>5, TasksKept
  <2> QED  BY <1>0, <1>2, <1>3, <2>1, <2>6, <2>7 DEF DataInv, MainAt, AtStart
<1>5. CASE CloseDev \/ Notify
  <2>1. PICK what \in {"close", "notify"} : At(Main, what)  BY <1>5 DEF CloseDev, Notify
  <2>2. Tail(prog[Main]) = <<>> /\ prog[Main] # <<>>
    BY <1>0, <2>1, MainIsAt DEF Searching, At
  <2>3. Advances(Main) /\ phase' = phase  BY <1>5 DEF CloseDev, Notify
  <2>4. prog'[Main] = <<>> /\ Others(Main)  BY <1>0, <2>2, <2>3, ActorsAre, Advanced
  <2>5. Tasks'  BY <1>1, <2>4, TasksKept
  <2> QED  BY <1>0, <1>1, <1>2, <1>3, <2>3, <2>4, <2>5 DEF DataInv, MainAt, AtStart
<1>6. CASE MainGoesOn \/ MainEnds
  <2>1. phase' = "start" => phase = "start"  BY <1>6 DEF MainGoesOn, MainEnds
  <2>2. UNCHANGED <<devVars, iface, task, reg, cur>> /\ prog' = prog
    BY <1>1, <1>6 DEF MainGoesOn, MainEnds
  <2>3. Client \in Actors /\ Runs(Client) /\ Others(Client)  BY <2>2, ActorsAre DEF Runs, Others
  <2> QED  BY <1>0, <2>1, <2>2, <2>3, Quiet
<1> QED  BY <1>4, <1>5, <1>6

\* So do the steps up to the interface: the object that is found is of the same path,
\* and was opened before.
LEMMA RegistrationBegins ==
    ASSUME DataInv, NextDevice \/ Publish \/ Interface
    PROVE  DataInv'
<1> USE DEF hwVars, devVars, taskVars, confVars, mainVars, lockVars
<1>0. Types /\ Tokens /\ Objects /\ Latest /\ Tasks /\ MainAt /\ AtStart /\ PublishedIsOwned /\ Types'
  BY MainTypes DEF DataInv, MainStep
<1>1. CASE NextDevice
  <2>1. /\ cur = 0 /\ cur' \in reg /\ reg' = reg \ {cur'} /\ prog[Main] = <<>>
        /\ Begins(Main, <<Short(NoLock, "publish"), Short(NoLock, "interface")>>)
        /\ UNCHANGED <<opened, devs, cancelled, object, iface, task, phase>>
    BY <1>1 DEF NextDevice, Begins, IsIdle
  <2>2. cur' # 0 /\ cur' \in Ids /\ cur' \in Numbers  BY <1>0, <2>1, IdsAre DEF Latest, Types
  <2>3. /\ prog'[Main] = <<Short(NoLock, "publish"), Short(NoLock, "interface")>> /\ Others(Main)
    BY <1>0, <2>1, ShortPrograms, ActorsAre, Begun
  <2>4. task'[cur'] = "none"  BY <1>0, <2>1, <2>2 DEF Tasks
  <2>5. Tokens' /\ Objects'  BY <1>0, <2>1 DEF Tokens, Objects, Numbers
  <2>6. Latest'
    <3>1. Numbers' = Numbers  BY <2>1 DEF Numbers
    <3> QED  BY <1>0, <2>1, <2>2, <3>1 DEF Latest
  <2>7. Tasks'  BY <2>1, <2>3, TasksKept
  <2>8. MainAt'  BY <2>2, <2>3, <2>4 DEF MainAt, MainPublishes
  <2>9. AtStart'  BY <1>0, <2>1 DEF AtStart
  <2>10. PublishedIsOwned'  BY <1>0, <2>1 DEF PublishedIsOwned
  <2> QED  BY <1>0, <2>5, <2>6, <2>7, <2>8, <2>9, <2>10 DEF DataInv
<1>2. CASE Publish
  <2>1. /\ At(Main, "publish") /\ Advances(Main)
        /\ object' = [object EXCEPT ![opened[cur]] = IF @ = 0 THEN cur ELSE @]
        /\ UNCHANGED <<opened, devs, cancelled, iface, task, phase, reg, cur>>
    BY <1>2 DEF Publish
  <2>2. MainPublishes /\ Tail(prog[Main]) = <<Short(NoLock, "interface")>> /\ prog[Main] # <<>>
    BY <1>0, <2>1, MainIsAt DEF At
  <2>3. prog'[Main] = <<Short(NoLock, "interface")>> /\ Others(Main)
    BY <1>0, <2>1, <2>2, ActorsAre, Advanced
  <2>4. cur # 0 /\ cur \in Numbers /\ opened[cur] \in Paths  BY <1>0, <2>2, IdsAre DEF MainPublishes, Latest
  <2>5. ASSUME NEW p \in Paths
        PROVE  object'[p] = object[p] \/ (p = opened[cur] /\ object'[p] = cur)
    <3>1. CASE p = opened[cur]
      <4>1. object'[p] = IF object[p] = 0 THEN cur ELSE object[p]  BY <1>0, <2>1, <3>1 DEF Types
      <4> QED  BY <3>1, <4>1
    <3>2. CASE p # opened[cur]  BY <1>0, <2>1, <3>2 DEF Types
    <3> QED  BY <3>1, <3>2
  <2>6. Numbers' = Numbers  BY <2>1 DEF Numbers
  <2>7. Tokens' /\ Latest'  BY <1>0, <2>1, <2>6 DEF Tokens, Latest
  <2>8. Objects'  BY <1>0, <2>1, <2>4, <2>5, <2>6 DEF Objects
  <2>9. Tasks'  BY <2>1, <2>3, TasksKept
  <2>10. MainAt'  BY <2>1, <2>2, <2>3 DEF MainAt, MainPublishes
  <2>11. AtStart'  BY <1>0, <2>1, <2>2 DEF AtStart
  <2>12. PublishedIsOwned'  BY <1>0, <2>1, <2>4, <2>5 DEF PublishedIsOwned
  <2> QED  BY <1>0, <2>7, <2>8, <2>9, <2>10, <2>11, <2>12 DEF DataInv
<1>3. CASE Interface
  <2> DEFINE m == object[opened[cur]]
  <2>1. At(Main, "interface") /\ UNCHANGED <<opened, devs, cancelled, object, task, phase>>
    BY <1>3 DEF Interface, Gives
  <2>2. MainPublishes /\ prog[Main] # <<>>  BY <1>0, <2>1, MainIsAt DEF At
  <2>3. cur # 0 /\ cur \in Numbers /\ cur \in Ids /\ opened[cur] \in Paths /\ task[cur] = "none" /\ cur \notin reg
    BY <1>0, <2>2, IdsAre DEF MainPublishes, Latest
  <2>4. Numbers' = Numbers  BY <2>1 DEF Numbers
  <2>5. Tokens' /\ Objects'  BY <1>0, <2>1, <2>4 DEF Tokens, Objects
  <2>6. phase # "start"  BY <1>0, <2>2 DEF AtStart
  <2>7. AtStart'  BY <2>1, <2>6 DEF AtStart
  <2>8. CASE m = 0
    <3>1. Continues(Main, <<>>) /\ cur' = 0 /\ reg' = {} /\ iface' = iface  BY <1>3, <2>8 DEF Interface, Gives
    <3>2. prog'[Main] = <<>> /\ Others(Main)  BY <1>0, <3>1, ShortPrograms, ActorsAre, Continued
    <3>3. Latest'  BY <3>1 DEF Latest
    <3>4. Tasks'  BY <2>1, <3>1, <3>2, TasksKept
    <3>5. PublishedIsOwned'  BY <1>0, <2>1, <2>8, <3>1 DEF PublishedIsOwned
    <3> QED  BY <1>0, <2>5, <2>7, <3>2, <3>3, <3>4, <3>5 DEF DataInv, MainAt
  <2>9. CASE m # 0
    <3>1. /\ Continues(Main, Register(m)) /\ iface' = [iface EXCEPT ![cur] = m] /\ UNCHANGED <<reg, cur>>
      BY <1>3, <2>9 DEF Interface
    <3>2. m \in Numbers /\ opened[m] = opened[cur] /\ m \in Ids
      BY <1>0, <2>3, <2>9, IdsAre DEF Objects
    <3>3. m <= cur  BY <1>0, <2>3, <3>2 DEF Latest
    <3>4. prog'[Main] = Register(m) /\ Others(Main)
      <4>1. Register(m) \in Seq(Steps)  BY <3>2, ProgramTypes
      <4> QED  BY <1>0, <3>1, <4>1, ActorsAre, Continued
    <3>5. iface'[cur] = m /\ \A n \in Ids : n # cur => iface'[n] = iface[n]
      BY <1>0, <2>3, <3>1 DEF Types
    <3>6. Latest'  BY <1>0, <2>1, <2>4, <3>1 DEF Latest
    <3>7. Tasks'
      <4>1. \A n \in Ids : prog'[Task(n)] = prog[Task(n)]  BY <3>4, ActorsAre DEF Others
      <4>2. \A n \in Ids : task[n] \in {"subscribed", "run", "ending"} => iface'[n] = iface[n]
        BY <2>3, <3>5
      <4> QED  BY <1>0, <2>1, <2>4, <3>1, <4>1, <4>2 DEF Tasks
    <3>8. MainAt'
      <4>1. Within(Register(m), m) /\ Len(Register(m)) = 10  BY WithinAll, RegisterDoes
      <4>2. MainRegisters'
        <5> HIDE DEF m
        <5>1. object'[opened'[cur']] = m  BY <2>1, <3>1 DEF m
        <5>2. /\ prog'[Main] = Register(m) /\ iface'[cur'] = m /\ cur' = cur /\ opened' = opened
              /\ task'[cur'] = "none" /\ cur' # 0
          BY <2>1, <2>3, <3>1, <3>4, <3>5
        <5> QED  BY <2>4, <3>2, <3>3, <4>1, <5>1, <5>2 DEF MainRegisters
      <4> QED  BY <4>2 DEF MainAt
    <3>9. PublishedIsOwned'
      <4>1. \A n \in Ids : task[n] \in {"run", "ending"} => iface'[n] = iface[n]  BY <2>3, <3>5
      <4> QED  BY <1>0, <2>1, <3>1, <4>1 DEF PublishedIsOwned
    <3> QED  BY <1>0, <2>5, <2>7, <3>6, <3>7, <3>8, <3>9 DEF DataInv
  <2> QED  BY <2>8, <2>9
<1> QED  BY <1>1, <1>2, <1>3

\* The next step of a registration keeps DataInv.
LEMMA RegistrationGoesOn ==
    ASSUME DataInv, Types', NEW what \in RegisterDeeds \ {"registered"}, At(Main, what),
           prog'[Main] = Tail(prog[Main]), UNCHANGED <<devVars, iface, reg, cur, phase>>,
           NEW state, task' = [task EXCEPT ![cur] = state],
           state = IF what = "subscribe" THEN "subscribed" ELSE IF what = "spawn" THEN "run" ELSE task[cur],
           \A n \in Ids : task'[n] # "run" => prog'[Task(n)] = prog[Task(n)]
    PROVE  DataInv'
<1> DEFINE k == Len(prog[Main])
<1>0. /\ Types /\ Tokens /\ Objects /\ Latest /\ Tasks /\ MainAt /\ AtStart /\ PublishedIsOwned
      /\ UNCHANGED <<opened, devs, cancelled, object>> /\ Numbers' = Numbers
  BY DEF DataInv, devVars, Numbers
<1>1. /\ MainRegisters /\ k \in 1..10 /\ Len(Tail(prog[Main])) = k - 1
      /\ (k > 1 => Within(Tail(prog[Main]), iface[cur]))
      /\ (what = "subscribe" <=> k = 10) /\ (what = "spawn" <=> k = 2) /\ (what = "registered" <=> k = 1)
  BY <1>0, MainIsAt DEF RegisterDeeds
<1>2. cur # 0 /\ cur \in Numbers /\ cur \in Ids /\ opened[cur] \in Paths /\ cur \notin reg
  BY <1>0, <1>1, IdsAre DEF MainRegisters, Latest
<1>3. k \in 2..10 /\ prog[Main] # <<>>  BY <1>1 DEF RegisterDeeds, At
<1>4. /\ task[cur] = IF k = 10 THEN "none" ELSE "subscribed"
      /\ state = IF k = 2 THEN "run" ELSE "subscribed"
  BY <1>1, <1>3 DEF MainRegisters
<1>5. task'[cur] = state /\ \A n \in Ids : n # cur => task'[n] = task[n]  BY <1>0, <1>2 DEF Types
<1>6. Tokens' /\ Objects' /\ Latest'  BY <1>0 DEF Tokens, Objects, Latest
<1>7. Tasks'
  <2>1. /\ cur \in Numbers /\ iface[cur] \in Numbers /\ iface[cur] <= cur /\ opened[iface[cur]] = opened[cur]
    BY <1>1, <1>2 DEF MainRegisters
  <2>2. ASSUME NEW n \in Ids, task'[n] # "run" PROVE prog'[Task(n)] = <<>>
    <3>1. task[n] # "run"  BY <1>4, <1>5, <2>2
    <3> QED  BY <1>0, <2>2, <3>1 DEF Tasks
  <2>3. \A n \in Ids : n \in reg \/ n \notin Numbers => n # cur  BY <1>2
  <2> QED  BY <1>0, <1>5, <2>1, <2>2, <2>3 DEF Tasks
<1>8. MainAt'
  <2> DEFINE p == Tail(prog[Main])
  <2>0. k > 1
    <3> HIDE DEF k
    <3> QED  BY <1>3
  <2>1. Within(p, iface[cur]) /\ Len(p) = k - 1 /\ prog'[Main] = p  BY <1>1, <2>0
  <2>2. Len(p) \in 1..9 /\ (Len(p) = 1 <=> k = 2)  BY <1>3, <2>1
  <2> HIDE DEF p
  <2>3. Len(p) = 1 => task'[cur] = "run"  BY <1>4, <1>5, <2>2
  <2>4. Len(p) \in 2..9 => task'[cur] = "subscribed"  BY <1>4, <1>5, <2>2
  <2>6. /\ cur # 0 /\ iface[cur] \in Numbers /\ iface[cur] <= cur /\ opened[iface[cur]] = opened[cur]
        /\ object[opened[cur]] \in {0, iface[cur]}
    BY <1>1 DEF MainRegisters
  <2>7. cur' = cur /\ iface' = iface /\ Len(p) # 10  BY <2>2
  <2>5. MainRegisters'  BY <1>0, <2>1, <2>3, <2>4, <2>6, <2>7 DEF MainRegisters
  <2> QED  BY <2>5 DEF MainAt
<1>9. AtStart'  BY <1>0, <1>3 DEF AtStart
<1>10. PublishedIsOwned'
  <2>1. \A n \in Ids : task[n] \in {"run", "ending"} => task'[n] = task[n]  BY <1>4, <1>5
  <2> QED  BY <1>0, <2>1 DEF PublishedIsOwned
<1> QED  BY <1>6, <1>7, <1>8, <1>9, <1>10 DEF DataInv

\* So do its own steps and its end.
LEMMA RegistrationStep ==
    ASSUME DataInv, Subscribe \/ Spawn \/ Registered \/ Withdrawn
    PROVE  DataInv'
<1> USE DEF hwVars, devVars, taskVars, confVars, mainVars, lockVars
<1>0. Types /\ Tokens /\ Objects /\ Latest /\ Tasks /\ MainAt /\ AtStart /\ PublishedIsOwned /\ Types'
  BY MainTypes DEF DataInv, MainStep
<1>1. CASE Subscribe
  <2>1. /\ At(Main, "subscribe") /\ Advances(Main) /\ task' = [task EXCEPT ![cur] = "subscribed"]
        /\ UNCHANGED <<devVars, iface, reg, cur, phase>>
    BY <1>1 DEF Subscribe
  <2>2. prog'[Main] = Tail(prog[Main]) /\ Others(Main)  BY <1>0, <2>1, ActorsAre, Advanced DEF At
  <2>3. \A n \in Ids : prog'[Task(n)] = prog[Task(n)]  BY <2>2, ActorsAre DEF Others
  <2>4. "subscribe" \in RegisterDeeds \ {"registered"}  BY DEF RegisterDeeds
  <2> QED  BY <1>0, <2>1, <2>2, <2>3, <2>4, RegistrationGoesOn
<1>2. CASE Spawn
  <2>1. /\ At(Main, "spawn") /\ task' = [task EXCEPT ![cur] = "run"]
        /\ prog' = [prog EXCEPT ![Main] = Tail(@), ![Task(cur)] = TaskStart(iface[cur])]
        /\ UNCHANGED <<devVars, iface, reg, cur, phase>>
    BY <1>2 DEF Spawn
  <2>2. cur \in Ids
    <3>1. MainRegisters  BY <1>0, <2>1, MainIsAt DEF RegisterDeeds
    <3> QED  BY <1>0, <3>1, IdsAre DEF MainRegisters, Latest
  <2>3. prog'[Main] = Tail(prog[Main])  BY <1>0, <2>1, <2>2, ActorsAre DEF Types
  <2>4. ASSUME NEW n \in Ids, task'[n] # "run" PROVE prog'[Task(n)] = prog[Task(n)]
    <3>1. n # cur  BY <1>0, <2>1, <2>4 DEF Types
    <3>2. Task(n) # Main /\ Task(n) # Task(cur) /\ Task(n) \in Actors  BY <2>2, <3>1, ActorsAre
    <3> QED  BY <1>0, <2>1, <3>2 DEF Types
  <2>5. "spawn" \in RegisterDeeds \ {"registered"}  BY DEF RegisterDeeds
  <2> QED  BY <1>0, <2>1, <2>3, <2>4, <2>5, RegistrationGoesOn
<1>3. CASE Registered
  <2>1. /\ At(Main, "registered") /\ Advances(Main) /\ cur' = 0
        /\ UNCHANGED <<opened, devs, cancelled, object, iface, task, reg, phase>>
    BY <1>3 DEF Registered, Gives
  <2>2. MainRegisters /\ Len(prog[Main]) = 1 /\ Tail(prog[Main]) = <<>> /\ prog[Main] # <<>>
    BY <1>0, <2>1, MainIsAt DEF RegisterDeeds, At
  <2>3. prog'[Main] = <<>> /\ Others(Main)  BY <1>0, <2>1, <2>2, ActorsAre, Advanced
  <2>4. Tokens' /\ Objects'  BY <1>0, <2>1 DEF Tokens, Objects, Numbers
  <2>5. Latest'
    <3>1. 0 \notin reg /\ Numbers' = Numbers  BY <1>0, <2>1, IdsAre DEF Types, Numbers
    <3> QED  BY <1>0, <2>1, <3>1 DEF Latest
  <2>6. Tasks'  BY <2>1, <2>3, TasksKept
  <2>7. MainAt' /\ AtStart'  BY <1>0, <2>1, <2>2, <2>3 DEF MainAt, AtStart
  <2>8. PublishedIsOwned'
    <3>1. cur \in Ids  BY <1>0, <2>2, IdsAre DEF MainRegisters, Latest
    <3>2. object[opened[cur]] # 0 => task[cur] \in {"run", "ending"} /\ iface[cur] = object[opened[cur]]
      BY <2>2 DEF MainRegisters
    <3> QED  BY <1>0, <2>1, <3>1, <3>2 DEF PublishedIsOwned
  <2> QED  BY <1>0, <2>4, <2>5, <2>6, <2>7, <2>8 DEF DataInv
<1>4. CASE Withdrawn
  <2>1. /\ At(Main, "withdraw") /\ Continues(Main, <<>>) /\ cur' = 0 /\ reg' = {}
        /\ object' = [object EXCEPT ![opened[cur]] = 0]
        /\ UNCHANGED <<opened, devs, cancelled, iface, task, phase>>
    BY <1>4 DEF Withdrawn, Withdraw, Gives
  <2>2. MainWithdraws /\ prog[Main] # <<>>  BY <1>0, <2>1, MainIsAt DEF At
  <2>3. prog'[Main] = <<>> /\ Others(Main)  BY <1>0, <2>1, ShortPrograms, ActorsAre, Continued
  <2>4. opened[cur] \in Paths  BY <1>0, <2>2, IdsAre DEF MainWithdraws, Latest
  <2>5. \A p \in Paths : object'[p] = IF p = opened[cur] THEN 0 ELSE object[p]
    BY <1>0, <2>1 DEF Types
  <2>6. Tokens' /\ Objects'  BY <1>0, <2>1, <2>5 DEF Tokens, Objects, Numbers
  <2>7. Latest'  BY <2>1 DEF Latest
  <2>8. Tasks'  BY <2>1, <2>3, TasksKept
  <2>9. MainAt' /\ AtStart'  BY <1>0, <2>1, <2>2, <2>3 DEF MainAt, AtStart
  <2>10. PublishedIsOwned'  BY <1>0, <2>1, <2>5 DEF PublishedIsOwned
  <2> QED  BY <1>0, <2>6, <2>7, <2>8, <2>9, <2>10 DEF DataInv
<1> QED  BY <1>1, <1>2, <1>3, <1>4

\* So do the steps that it shares with a task, and their errors.
LEMMA MainProceeds ==
    ASSUME DataInv, Proceed(Main)
    PROVE  DataInv'
<1>0. /\ Types /\ Tokens /\ Objects /\ Latest /\ Tasks /\ MainAt /\ AtStart /\ PublishedIsOwned
      /\ Main \in Actors
  BY ActorsAre DEF DataInv
<1>1. /\ prog[Main] # <<>> /\ Moves(Main)
      /\ UNCHANGED <<present, opened, devs, cancelled, object, iface, events, reg, cur, phase>>
      /\ UNCHANGED devVars
  BY ActorsAre, ProceedMoves DEF hwVars, devVars, mainVars
<1>2. LockTypes' /\ Others(Main)  BY <1>0, <1>1, MovesTypes
<1>3. PICK what \in {"lock", "read", "configure", "map", "uinput"} :
         /\ At(Main, what)
         /\ \/ Advances(Main) /\ task' = task
            \/ what \in {"configure", "uinput"} /\ Fails(Main)
  <2> HIDE DEF At, Advances, Fails
  <2> QED  BY DEF Proceed, Passes, Configures, Maps, OpensUinput, taskVars
<1>4. /\ MainRegisters /\ Len(prog[Main]) \in 1..10
      /\ what \in {"configure", "uinput"} => Len(prog[Main]) \in {3, 6}
      /\ what \in RegisterDeeds \ {"registered"} /\ what \notin {"subscribe", "spawn"}
  BY <1>0, <1>3, MainIsAt DEF RegisterDeeds
<1>5. cur # 0 /\ cur \in Numbers /\ cur \in Ids /\ opened[cur] \in Paths /\ cur \notin reg
  BY <1>0, <1>4, IdsAre DEF MainRegisters, Latest
<1>6. \A n \in Ids : prog'[Task(n)] = prog[Task(n)]  BY <1>2, ActorsAre DEF Others
<1>7. CASE Advances(Main) /\ task' = task
  <2>1. prog'[Main] = Tail(prog[Main])  BY <1>0, <1>1, <1>7, Advanced
  <2>2. task' = [task EXCEPT ![cur] = task[cur]]  BY <1>0, <1>7 DEF Types
  <2>3. Types'  BY <1>0, <1>1, <1>2, <1>7 DEF Types, LockTypes
  <2> QED  BY <1>1, <1>3, <1>4, <1>6, <2>1, <2>2, <2>3, RegistrationGoesOn
<1>8. CASE what \in {"configure", "uinput"} /\ Fails(Main)
  <2>1. Abandons(Main, <<Short(NoLock, "withdraw")>>) /\ task' = [task EXCEPT ![cur] = "ended"]
    BY <1>8 DEF Fails
  <2>2. prog'[Main] = <<Short(NoLock, "withdraw")>>
    <3>1. <<Short(NoLock, "withdraw")>> \in Seq(Steps)  BY ShortPrograms DEF Deeds
    <3> QED  BY <1>0, <2>1, <3>1, Abandoned
  <2>3. task'[cur] = "ended" /\ \A n \in Ids : n # cur => task'[n] = task[n]
    BY <1>0, <1>5, <2>1 DEF Types
  <2>4. task[cur] = "subscribed"
    <3>1. Len(prog[Main]) \in 2..9  BY <1>4, <1>8
    <3> QED  BY <1>4, <3>1 DEF MainRegisters
  <2>5. Types'
    <3>1. task' \in [Ids -> TaskStates]  BY <1>0, <2>1 DEF Types, TaskStates
    <3> QED  BY <1>0, <1>1, <1>2, <3>1 DEF Types, LockTypes
  <2>6. Tokens' /\ Objects' /\ Latest'  BY <1>0, <1>1 DEF Tokens, Objects, Latest, Numbers
  <2>7. Tasks'
    <3>1. ASSUME NEW n \in Ids, task'[n] # "run" PROVE task[n] # "run"
      BY <2>3, <2>4, <3>1
    <3>2. Numbers' = Numbers  BY <1>1 DEF Numbers
    <3> QED  BY <1>0, <1>1, <1>5, <1>6, <2>3, <3>1, <3>2 DEF Tasks
  <2>8. MainAt'  BY <1>1, <1>5, <2>2, <2>3 DEF MainAt, MainWithdraws
  <2>9. AtStart'  BY <1>0, <1>1 DEF AtStart
  <2>10. PublishedIsOwned'
    <3>1. \A n \in Ids : task[n] \in {"run", "ending"} => task'[n] = task[n]  BY <2>3, <2>4
    <3> QED  BY <1>0, <1>1, <3>1 DEF PublishedIsOwned
  <2> QED  BY <2>5, <2>6, <2>7, <2>8, <2>9, <2>10 DEF DataInv
<1> QED  BY <1>3, <1>7, <1>8

\* DataInv is kept by every step,
LEMMA DataNext ==
    ASSUME DataInv, [Next]_vars
    PROVE  DataInv'
<1>0. Types  BY DEF DataInv
<1>1. CASE MainStep
  BY <1>1, SearchEnds, BetweenSearches, RegistrationBegins, RegistrationStep DEF MainStep
<1>2. ASSUME NEW a \in Actors, Proceed(a) PROVE DataInv'
  <2>1. CASE a = Main  BY <1>2, <2>1, MainProceeds
  <2>2. CASE a # Main
    <3>1. /\ prog[a] # <<>> /\ Moves(a) /\ task' = task
          /\ UNCHANGED <<devVars, iface, reg, cur, phase, present, events>>
      BY <1>2, <2>2, ProceedMoves DEF hwVars, mainVars
    <3>2. LockTypes' /\ Others(a)  BY <1>0, <3>1, MovesTypes
    <3>3. Runs(a)  BY <1>0, <2>2, <3>1, HasProgram DEF DataInv
    <3>4. Types'  BY <1>0, <3>1, <3>2 DEF Types, LockTypes, devVars
    <3> QED  BY <3>1, <3>2, <3>3, <3>4, Quiet
  <2> QED  BY <2>1, <2>2
<1>3. ASSUME NEW n \in Ids, HandleStatus(n) \/ HandleBroadcast(n) PROVE DataInv'
  <2>1. /\ Moves(Task(n)) /\ Runs(Task(n)) /\ Task(n) \in Actors
        /\ UNCHANGED <<devVars, iface, task, reg, cur, phase, present, events>>
    BY <1>3, TaskMoves, ActorsAre DEF hwVars, mainVars
  <2>2. LockTypes' /\ Others(Task(n))  BY <1>0, <2>1, MovesTypes
  <2>3. Types'  BY <1>0, <2>1, <2>2 DEF Types, LockTypes, devVars
  <2> QED  BY <2>1, <2>2, <2>3, Quiet
<1>4. ASSUME NEW n \in Ids, LeaveLoop(n) \/ Deregister(n) PROVE DataInv'
  BY <1>4, TaskEnds
<1>5. ASSUME \/ \E p \in Paths : CallMethod(p)
             \/ AskReload \/ Reconfig \/ ConfigTask \/ Reconfigure
      PROVE  DataInv'
  <2>1. PICK a \in {Client, Reload, Config} : Moves(a) \/ UNCHANGED lockVars
    BY <1>5, ServiceMoves
  <2>2. UNCHANGED <<devVars, iface, task, reg, cur, phase, present, events>>
    BY <1>5, ServiceMoves DEF hwVars
  <2>3. a \in Actors /\ Runs(a)  BY ActorsAre DEF Runs
  <2>4. LockTypes' /\ Others(a)
    <3>1. CASE Moves(a)  BY <1>0, <2>3, <3>1, MovesTypes
    <3>2. CASE UNCHANGED lockVars  BY <1>0, <3>2 DEF lockVars, LockTypes, Types, Others
    <3> QED  BY <2>1, <3>1, <3>2
  <2>5. Types'  BY <1>0, <2>2, <2>4 DEF Types, LockTypes, devVars
  <2> QED  BY <2>2, <2>3, <2>4, <2>5, Quiet
<1>6. ASSUME NEW p \in Paths, Plug(p) PROVE DataInv'
  <2>1. Types' /\ UNCHANGED <<devVars, taskVars, reg, cur, phase, lockVars>>  BY <1>6, PlugTypes
  <2>2. Client \in Actors /\ Runs(Client) /\ Others(Client)
    BY <2>1, ActorsAre DEF Runs, Others, lockVars
  <2>3. UNCHANGED <<devVars, iface, task, reg, cur>>  BY <2>1 DEF taskVars
  <2> QED  BY <2>1, <2>2, <2>3, Quiet
<1>7. CASE UNCHANGED vars
  <2>1. UNCHANGED <<devVars, iface, task, reg, cur, phase, prog, owner, present, events>>
    BY <1>7 DEF vars, taskVars, mainVars, lockVars, hwVars
  <2>2. Client \in Actors /\ Runs(Client) /\ Others(Client)  BY <2>1, ActorsAre DEF Runs, Others
  <2>3. Types'  BY <1>0, <2>1 DEF Types, devVars
  <2> QED  BY <2>1, <2>2, <2>3, Quiet
<1> QED  BY <1>1, <1>2, <1>3, <1>4, <1>5, <1>6, <1>7 DEF Next

\* and holds at the start.
LEMMA DataInit == Init => DataInv
<1> SUFFICES ASSUME Init PROVE DataInv  OBVIOUS
<1>1. Numbers = {}  BY DEF Init, Numbers
<1>2. Types
  <2>1. MaxOpens \in Nat /\ 0 <= MaxOpens  BY RegistryAssumption
  <2>2. prog \in [Actors -> Seq(Steps)] /\ owner \in [Locks -> Actors \cup {Nobody}]  BY DEF Init
  <2> QED  BY <2>1, <2>2 DEF Init, Types, TaskStates
<1>3. Tokens /\ Objects  BY <1>1 DEF Init, Tokens, Objects
<1>4. Latest /\ AtStart /\ MainAt  BY <1>1, ActorsAre DEF Init, Latest, AtStart, MainAt
<1>5. Tasks  BY <1>1, ActorsAre DEF Init, Tasks
<1>6. PublishedIsOwned  BY DEF Init, PublishedIsOwned
<1> QED  BY <1>2, <1>3, <1>4, <1>5, <1>6 DEF DataInv

\* A task whose token is not cancelled has the number of its object, which is the one
\* in System.devs.
LEMMA ServedOnce == DataInv => OneServer
<1> SUFFICES ASSUME DataInv, NEW i \in Ids, NEW j \in Ids,
                    task[i] \in {"run", "ending"}, task[j] \in {"run", "ending"},
                    {iface[i], iface[j]} \cap (cancelled \cup gone) = {},
                    opened[iface[i]] = opened[iface[j]]
             PROVE  i = j
  BY DEF OneServer
<1>1. /\ i \in Numbers /\ iface[i] \in Numbers /\ iface[i] <= i /\ opened[iface[i]] = opened[i]
      /\ j \in Numbers /\ iface[j] \in Numbers /\ iface[j] <= j /\ opened[iface[j]] = opened[j]
  BY DEF DataInv, Tasks
<1>2. iface[i] \notin cancelled /\ iface[j] \notin cancelled  OBVIOUS
<1>3. iface[i] = iface[j]  BY <1>1, <1>2 DEF DataInv, Tokens
<1>4. ~(iface[i] < i) /\ ~(iface[j] < j)  BY <1>1, <1>2 DEF DataInv, Tokens
<1>5. i \in Nat /\ j \in Nat /\ iface[i] \in Nat  BY <1>1, IdsAre DEF DataInv
<1> QED  BY <1>1, <1>3, <1>4, <1>5

-----------------------------------------------------------------------------
(* The order of the locks.                                                 *)

\* What a later step frees the rest of the program frees.
LEMMA WillFreeTail ==
    ASSUME NEW p \in Seq(Steps), p # <<>>, NEW l, NEW k \in 2..Len(p), l \in p[k].frees,
           \A j \in 2..k : Rank(p[j].takes) > Rank(l)
    PROVE  WillFree(Tail(p), l)
<1> DEFINE t == Tail(p)
           n == Len(p)
<1>1. Len(t) = n - 1 /\ n \in Nat /\ \A i \in 1..Len(t) : i + 1 \in 1..n /\ t[i] = p[i + 1]  BY Tails
<1>2. k \in 2..n  OBVIOUS
<1> HIDE DEF t, n
<1>3. k - 1 \in 1..Len(t) /\ (k - 1) + 1 = k  BY <1>1, <1>2
<1>4. l \in t[k - 1].frees  BY <1>1, <1>3
<1>5. ASSUME NEW j \in 1..k - 1 PROVE Rank(t[j].takes) > Rank(l)
  <2>1. j \in 1..Len(t) /\ j + 1 \in 2..k  BY <1>3, <1>1, <1>2
  <2> QED  BY <1>1, <2>1
<1>6. WillFree(t, l)  BY <1>3, <1>4, <1>5 DEF WillFree
<1> QED  BY <1>6 DEF t

\* The rest of a program keeps to the order, and still frees what is held.
LEMMA OrderedTail ==
    ASSUME NEW p \in Seq(Steps), p # <<>>, Ordered(p)
    PROVE  /\ Ordered(Tail(p))
           /\ (Head(p).takes \in Head(p).frees \/ WillFree(Tail(p), Head(p).takes))
           /\ \A l : WillFree(p, l) => l \in Head(p).frees \/ WillFree(Tail(p), l)
<1> DEFINE t == Tail(p)
           n == Len(p)
<1>1. /\ Len(t) = n - 1 /\ n \in Nat /\ n >= 1 /\ Head(p) = p[1]
      /\ \A i \in 1..Len(t) : i + 1 \in 1..n /\ t[i] = p[i + 1]
  BY Tails
<1>2. \A i \in 1..n :
        \/ p[i].takes \in p[i].frees
        \/ \E k \in i + 1..n :
              /\ p[i].takes \in p[k].frees
              /\ \A j \in i + 1..k : Rank(p[j].takes) > Rank(p[i].takes)
  BY DEF Ordered
<1>3. ASSUME NEW l, NEW k \in 2..n, l \in p[k].frees, \A j \in 2..k : Rank(p[j].takes) > Rank(l)
      PROVE  WillFree(t, l)
  BY <1>3, WillFreeTail
<1>4. \A l : WillFree(p, l) => \E k \in 1..n : l \in p[k].frees /\ \A j \in 1..k : Rank(p[j].takes) > Rank(l)
  BY DEF WillFree
<1> HIDE DEF t, n
<1>5. ASSUME NEW i \in 1..Len(t), t[i].takes \notin t[i].frees
      PROVE  \E k \in i + 1..Len(t) :
                /\ t[i].takes \in t[k].frees
                /\ \A j \in i + 1..k : Rank(t[j].takes) > Rank(t[i].takes)
  <2>1. i + 1 \in 1..n /\ t[i] = p[i + 1] /\ i \in Nat  BY <1>1
  <2>2. PICK k \in (i + 1) + 1..n : /\ p[i + 1].takes \in p[k].frees
                                   /\ \A j \in (i + 1) + 1..k : Rank(p[j].takes) > Rank(p[i + 1].takes)
    BY <1>2, <1>5, <2>1
  <2>3. k - 1 \in i + 1..Len(t) /\ k - 1 \in 1..Len(t) /\ (k - 1) + 1 = k  BY <1>1, <2>1, <2>2
  <2>4. t[k - 1] = p[k]  BY <1>1, <2>3
  <2>5. ASSUME NEW j \in i + 1..k - 1 PROVE Rank(t[j].takes) > Rank(t[i].takes)
    <3>1. j \in 1..Len(t) /\ j + 1 \in (i + 1) + 1..k  BY <1>1, <2>1, <2>3
    <3>2. t[j] = p[j + 1]  BY <1>1, <3>1
    <3> QED  BY <2>1, <2>2, <3>1, <3>2
  <2> QED  BY <2>1, <2>2, <2>3, <2>4, <2>5
<1>6. Ordered(t)  BY <1>5 DEF Ordered
<1>7. ASSUME p[1].takes \notin p[1].frees PROVE WillFree(t, p[1].takes)
  <2>1. PICK k \in 1 + 1..n : /\ p[1].takes \in p[k].frees
                             /\ \A j \in 1 + 1..k : Rank(p[j].takes) > Rank(p[1].takes)
    BY <1>1, <1>2, <1>7
  <2>2. 1 + 1 = 2  OBVIOUS
  <2> QED  BY <1>3, <2>1, <2>2
<1>8. ASSUME NEW l, WillFree(p, l), l \notin p[1].frees PROVE WillFree(t, l)
  <2>1. PICK k \in 1..n : l \in p[k].frees /\ \A j \in 1..k : Rank(p[j].takes) > Rank(l)
    BY <1>4, <1>8
  <2>2. k \in 2..n /\ \A j \in 2..k : j \in 1..k  BY <1>1, <1>8, <2>1
  <2> QED  BY <1>3, <2>1, <2>2
<1> QED  BY <1>1, <1>6, <1>7, <1>8 DEF t

\* Who has no program holds no lock.
LEMMA IdleHolds ==
    ASSUME NEW l
    PROVE  ~WillFree(<<>>, l)
BY DEF WillFree

\* Moving on keeps LockOrder.
LEMMA MovesInOrder ==
    ASSUME Types, LockOrder, NEW a \in Actors, Moves(a)
    PROVE  LockOrder'
<1>0. prog \in [Actors -> Seq(Steps)] /\ owner \in [Locks -> Actors \cup {Nobody}] /\ Nobody \notin Actors
  BY ActorsAre DEF Types
<1>1. ASSUME NEW rest \in Seq(Steps), Ordered(rest), Begins(a, rest)
      PROVE  LockOrder'
  <2>1. prog'[a] = rest /\ Others(a) /\ prog[a] = <<>> /\ owner' = owner  BY <1>1, Begun
  <2>2. \A b \in Actors : Ordered(prog'[b])  BY <1>1, <2>1 DEF Others, LockOrder
  <2>3. ASSUME NEW l \in Locks, owner'[l] # Nobody PROVE WillFree(prog'[owner'[l]], l)
    <3>1. owner[l] \in Actors /\ WillFree(prog[owner[l]], l)  BY <1>0, <2>1, <2>3 DEF LockOrder
    <3>2. owner[l] # a  BY <2>1, <3>1, IdleHolds
    <3> QED  BY <2>1, <3>1, <3>2 DEF Others
  <2> QED  BY <2>2, <2>3 DEF LockOrder
<1>2. ASSUME prog[a] # <<>>, Advances(a)
      PROVE  LockOrder'
  <2> DEFINE p == prog[a]
             s == Head(prog[a])
  <2>1. prog'[a] = Tail(p) /\ Others(a)  BY <1>2, Advanced
  <2>2. /\ p \in Seq(Steps) /\ Ordered(p)  BY <1>0 DEF LockOrder
  <2>3. /\ Ordered(Tail(p)) /\ (s.takes \in s.frees \/ WillFree(Tail(p), s.takes))
        /\ \A l : WillFree(p, l) => l \in s.frees \/ WillFree(Tail(p), l)
    BY <1>2, <2>2, OrderedTail
  <2>4. \A b \in Actors : Ordered(prog'[b])  BY <2>1, <2>3 DEF Others, LockOrder
  <2>5. ASSUME NEW l \in Locks, owner'[l] # Nobody PROVE WillFree(prog'[owner'[l]], l)
    <3>1. l \notin s.frees /\ ((owner'[l] = a /\ l = s.takes) \/ owner'[l] = owner[l])
      BY <1>2, <2>5 DEF Advances, Continues
    <3>2. CASE owner'[l] = a /\ l = s.takes  BY <2>1, <2>3, <3>1, <3>2
    <3>3. CASE owner'[l] = owner[l]
      <4>1. owner[l] \in Actors /\ WillFree(prog[owner[l]], l)  BY <1>0, <2>5, <3>3 DEF LockOrder
      <4>2. CASE owner[l] = a  BY <2>1, <2>3, <3>1, <3>3, <4>1, <4>2
      <4>3. CASE owner[l] # a  BY <2>1, <3>3, <4>1, <4>3 DEF Others
      <4> QED  BY <4>2, <4>3
    <3> QED  BY <3>1, <3>2, <3>3
  <2> QED  BY <2>4, <2>5 DEF LockOrder
<1>3. ASSUME NEW rest \in Seq(Steps), Ordered(rest), Abandons(a, rest)
      PROVE  LockOrder'
  <2>1. prog'[a] = rest /\ Others(a)  BY <1>3, Abandoned
  <2>2. \A b \in Actors : Ordered(prog'[b])  BY <1>3, <2>1 DEF Others, LockOrder
  <2>3. ASSUME NEW l \in Locks, owner'[l] # Nobody PROVE WillFree(prog'[owner'[l]], l)
    <3>1. owner[l] # a /\ owner'[l] = owner[l]  BY <1>3, <2>3 DEF Abandons
    <3>2. owner[l] \in Actors /\ WillFree(prog[owner[l]], l)  BY <1>0, <2>3, <3>1 DEF LockOrder
    <3> QED  BY <2>1, <3>1, <3>2 DEF Others
  <2> QED  BY <2>2, <2>3 DEF LockOrder
<1> QED  BY <1>1, <1>2, <1>3 DEF Moves

\* So does another program after the last step of Main's.
LEMMA ContinuesInOrder ==
    ASSUME Types, LockOrder, NEW rest \in Seq(Steps), Ordered(rest), NEW s, prog[Main] = <<s>>,
           Continues(Main, rest)
    PROVE  LockOrder'
<1>0. /\ prog \in [Actors -> Seq(Steps)] /\ owner \in [Locks -> Actors \cup {Nobody}] /\ Main \in Actors
  BY ActorsAre DEF Types
<1>1. prog'[Main] = rest /\ Others(Main)  BY <1>0, Continued
<1>2. \A b \in Actors : Ordered(prog'[b])  BY <1>1 DEF Others, LockOrder
<1>3. s.takes \in s.frees /\ \A l : WillFree(<<s>>, l) => l \in s.frees
  <2>1. Ordered(<<s>>)  BY <1>0 DEF LockOrder
  <2> QED  BY <2>1 DEF Ordered, WillFree
<1>4. ASSUME NEW l \in Locks, owner'[l] # Nobody PROVE WillFree(prog'[owner'[l]], l)
  <2>1. l \notin s.frees /\ owner'[l] = owner[l]  BY <1>3, <1>4 DEF Continues
  <2>2. owner[l] \in Actors /\ WillFree(prog[owner[l]], l)  BY <1>0, <1>4, <2>1 DEF LockOrder
  <2>3. owner[l] # Main  BY <1>3, <2>1, <2>2
  <2> QED  BY <1>1, <2>1, <2>2, <2>3 DEF Others
<1> QED  BY <1>2, <1>4 DEF LockOrder

\* So does spawning the task, which has had no program.
LEMMA SpawnInOrder ==
    ASSUME DataInv, LockOrder, Spawn
    PROVE  LockOrder'
<1>0. /\ Types /\ prog \in [Actors -> Seq(Steps)] /\ owner \in [Locks -> Actors \cup {Nobody}] /\ Main \in Actors
  BY ActorsAre DEF DataInv, Types
<1>1. /\ prog' = [prog EXCEPT ![Main] = Tail(@), ![Task(cur)] = TaskStart(iface[cur])]
      /\ owner' = owner /\ At(Main, "spawn") /\ prog[Main] # <<>>
  BY DEF Spawn, At
<1>2. MainRegisters /\ Len(prog[Main]) = 2  BY <1>0, <1>1, MainIsAt DEF DataInv, RegisterDeeds
<1>3. cur \in Ids /\ task[cur] = "subscribed"
  BY <1>0, <1>2, IdsAre DEF DataInv, MainRegisters, Latest
<1>4. Task(cur) \in Actors /\ Task(cur) # Main /\ prog[Task(cur)] = <<>>
  BY <1>3, ActorsAre DEF DataInv, Tasks
<1>5. /\ prog'[Main] = Tail(prog[Main]) /\ prog'[Task(cur)] = TaskStart(iface[cur])
      /\ \A b \in Actors : b \notin {Main, Task(cur)} => prog'[b] = prog[b]
  BY <1>0, <1>1, <1>4
<1>6. Head(prog[Main]) = Short(NoLock, "spawn")
  <2>1. Within(prog[Main], iface[cur])  BY <1>2 DEF MainRegisters
  <2>2. Head(prog[Main]) = Register(iface[cur])[11 - Len(prog[Main])]  BY <1>0, <2>1, WithinTail
  <2>3. 11 - Len(prog[Main]) = 9  BY <1>2
  <2> QED  BY <2>2, <2>3, RegisterDoes
<1>7. Head(prog[Main]).frees = {NoLock} /\ Head(prog[Main]).takes = NoLock  BY <1>6 DEF Short, Step
<1>8. /\ Ordered(Tail(prog[Main]))
      /\ \A l : WillFree(prog[Main], l) => l \in {NoLock} \/ WillFree(Tail(prog[Main]), l)
  BY <1>0, <1>1, <1>7, OrderedTail DEF LockOrder
<1>9. ~WillFree(prog[Main], NoLock)
  <2>1. ASSUME NEW k \in 1..Len(prog[Main]), \A j \in 1..k : Rank(prog[Main][j].takes) > Rank(NoLock)
        PROVE  FALSE
    <3>1. prog[Main][1].takes = NoLock  BY <1>0, <1>1, <1>7, Tails
    <3>2. 1 \in 1..k  OBVIOUS
    <3>3. Rank(NoLock) > Rank(NoLock)  BY <2>1, <3>1, <3>2
    <3> QED  BY <3>3, Ranks
  <2> QED  BY <2>1 DEF WillFree
<1>10. ASSUME NEW b \in Actors PROVE Ordered(prog'[b])
  <2>1. CASE b = Main  BY <1>5, <1>8, <2>1
  <2>2. CASE b = Task(cur)  BY <1>5, <2>2, ProgramsOrdered
  <2>3. CASE b \notin {Main, Task(cur)}  BY <1>5, <2>3 DEF LockOrder
  <2> QED  BY <2>1, <2>2, <2>3
<1>11. ASSUME NEW l \in Locks, owner'[l] # Nobody PROVE WillFree(prog'[owner'[l]], l)
  <2>1. owner'[l] = owner[l] /\ owner[l] \in Actors /\ WillFree(prog[owner[l]], l)
    BY <1>0, <1>1, <1>11 DEF LockOrder
  <2>2. CASE owner[l] = Main  BY <1>5, <1>8, <1>9, <2>1, <2>2
  <2>3. CASE owner[l] = Task(cur)  BY <1>4, <2>1, <2>3, IdleHolds
  <2>4. CASE owner[l] \notin {Main, Task(cur)}  BY <1>5, <2>1, <2>4
  <2> QED  BY <2>2, <2>3, <2>4
<1> QED  BY <1>10, <1>11 DEF LockOrder

\* So do all steps of Main,
LEMMA MainInOrder ==
    ASSUME DataInv, LockOrder, MainStep
    PROVE  LockOrder'
<1>0. Types /\ MainAt /\ Main \in Actors  BY ActorsAre DEF DataInv
<1>1. CASE MainStarts \/ HandleEvent
  <2>1. \A p, what : Ordered(<<StepOn(p, System, what)>>) /\ Ordered(<<Short(System, what)>>)
    BY OneStepOrdered DEF StepOn, Short, Step
  <2>2. \E rest \in Seq(Steps) : Ordered(rest) /\ Begins(Main, rest)
    <3>1. CASE MainStarts
      <4>1. CASE byName
        <5>1. PICK p \in Paths : Begins(Main, <<StepOn(p, System, "find")>>)  BY <3>1, <4>1 DEF MainStarts
        <5>2. <<StepOn(p, System, "find")>> \in Seq(Steps)  BY ShortPrograms DEF Deeds
        <5> QED  BY <2>1, <5>1, <5>2
      <4>2. CASE ~byName
        <5>1. Begins(Main, <<Short(System, "scan")>>)  BY <3>1, <4>2 DEF MainStarts
        <5>2. <<Short(System, "scan")>> \in Seq(Steps)  BY ShortPrograms DEF Deeds
        <5> QED  BY <2>1, <5>1, <5>2
      <4> QED  BY <4>1, <4>2
    <3>2. CASE HandleEvent
      <4> DEFINE ev == Head(events)
                 s == CASE ev.type = "add"    -> StepOn(ev.node, System, "find")
                        [] ev.type = "remove" -> StepOn(ev.node, System, "close")
                        [] ev.type = "drm"    -> Short(System, "notify")
      <4>1. ev \in Events  BY <1>0, <3>2 DEF HandleEvent, Types
      <4>2. ev.node \in Paths /\ ev.type \in {"add", "remove", "drm"}  BY <4>1 DEF Events
      <4>3. s \in {StepOn(ev.node, System, "find"), StepOn(ev.node, System, "close"), Short(System, "notify")}
        BY <4>2
      <4>4. Begins(Main, <<s>>)  BY <3>2 DEF HandleEvent
      <4>5. {"find", "close", "notify"} \subseteq Deeds  BY DEF Deeds
      <4> HIDE DEF s, ev
      <4>6. <<s>> \in Seq(Steps)  BY <4>2, <4>3, <4>5, ShortPrograms
      <4>7. Ordered(<<s>>)  BY <2>1, <4>3
      <4> QED  BY <4>4, <4>6, <4>7
    <3> QED  BY <1>1, <3>1, <3>2
  <2> QED  BY <1>0, <2>2, MovesInOrder DEF Moves
<1>2. CASE FindDevs \/ FindDev \/ CloseDev \/ Notify \/ Publish \/ Subscribe \/ Registered
  <2>1. prog[Main] # <<>> /\ Advances(Main)
    BY <1>2 DEF FindDevs, FindDev, CloseDev, Notify, Publish, Subscribe, Registered, At
  <2> QED  BY <1>0, <2>1, MovesInOrder DEF Moves
<1>3. CASE NextDevice
  <2>1. Begins(Main, <<Short(NoLock, "publish"), Short(NoLock, "interface")>>)  BY <1>3 DEF NextDevice
  <2>2. Ordered(<<Short(NoLock, "publish"), Short(NoLock, "interface")>>)
    <3>1. \A what : Short(NoLock, what).takes \in Short(NoLock, what).frees  BY DEF Short, Step
    <3> QED  BY <3>1 DEF Ordered
  <2> QED  BY <1>0, <2>1, <2>2, ShortPrograms, MovesInOrder DEF Moves
<1>4. CASE Interface
  <2> DEFINE m == object[opened[cur]]
  <2>1. MainPublishes /\ prog[Main] = <<Short(NoLock, "interface")>>
    BY <1>0, <1>4, MainIsAt DEF Interface
  <2>2. cur \in Numbers /\ opened[cur] \in Paths  BY <1>0, <2>1, IdsAre DEF DataInv, MainPublishes, Latest
  <2>3. m # 0 => m \in Ids  BY <1>0, <2>2, IdsAre DEF DataInv, Objects
  <2>4. \E rest \in Seq(Steps) : Ordered(rest) /\ Continues(Main, rest)
    <3>1. CASE m = 0
      <4>1. Continues(Main, <<>>)  BY <1>4, <3>1 DEF Interface
      <4>2. Ordered(<<>>)  BY DEF Ordered
      <4> QED  BY <4>1, <4>2, ShortPrograms
    <3>2. CASE m # 0
      <4>1. Continues(Main, Register(m))  BY <1>4, <3>2 DEF Interface
      <4> QED  BY <2>3, <3>2, <4>1, ProgramTypes, ProgramsOrdered
    <3> QED  BY <3>1, <3>2
  <2> QED  BY <1>0, <2>1, <2>4, ContinuesInOrder
<1>5. CASE Withdrawn
  <2>1. prog[Main] = <<Short(NoLock, "withdraw")>> /\ Continues(Main, <<>>)
    BY <1>0, <1>5, MainIsAt DEF Withdrawn, MainWithdraws
  <2>2. Ordered(<<>>)  BY DEF Ordered
  <2> QED  BY <1>0, <2>1, <2>2, ShortPrograms, ContinuesInOrder
<1>6. CASE Spawn  BY <1>6, SpawnInOrder
<1>7. CASE MainGoesOn \/ MainEnds  BY <1>7 DEF MainGoesOn, MainEnds, lockVars, LockOrder
<1> QED  BY <1>1, <1>2, <1>3, <1>4, <1>5, <1>6, <1>7 DEF MainStep

\* and all other steps.
LEMMA OrderNext ==
    ASSUME DataInv, LockOrder, [Next]_vars
    PROVE  LockOrder'
<1>0. Types  BY DEF DataInv
<1>1. CASE MainStep  BY <1>1, MainInOrder
<1>2. ASSUME NEW a \in Actors, Proceed(a) PROVE LockOrder'
  BY <1>0, <1>2, ProceedMoves, MovesInOrder
<1>3. ASSUME NEW n \in Ids, HandleStatus(n) \/ HandleBroadcast(n) PROVE LockOrder'
  BY <1>0, <1>3, TaskMoves, ActorsAre, MovesInOrder
<1>4. ASSUME UNCHANGED lockVars PROVE LockOrder'
  BY <1>4 DEF lockVars, LockOrder
<1>5. ASSUME NEW n \in Ids, LeaveLoop(n) \/ Deregister(n) PROVE LockOrder'
  BY <1>4, <1>5 DEF LeaveLoop, Deregister
<1>6. ASSUME \/ \E p \in Paths : CallMethod(p)
             \/ AskReload \/ Reconfig \/ ConfigTask \/ Reconfigure
      PROVE  LockOrder'
  <2>1. PICK a \in {Client, Reload, Config} : Moves(a) \/ UNCHANGED lockVars  BY <1>6, ServiceMoves
  <2> QED  BY <1>0, <1>4, <2>1, ActorsAre, MovesInOrder
<1>7. ASSUME NEW p \in Paths, Plug(p) PROVE LockOrder'
  BY <1>4, <1>7 DEF Plug
<1>8. CASE UNCHANGED vars  BY <1>4, <1>8 DEF vars
<1> QED  BY <1>1, <1>2, <1>3, <1>5, <1>6, <1>7, <1>8 DEF Next

\* At the start no lock is held.
LEMMA OrderInit == Init => LockOrder
BY DEF Init, LockOrder, Ordered

\* There are four ranks.
LEMMA RankBound ==
    ASSUME NEW l
    PROVE  Rank(l) \in 0..3
BY DEF Rank

\* Whoever waits for a lock waits for an actor that wants a higher one, which cannot go
\* on for more than three actors.
LEMMA OrderIsEnough == Types /\ LockOrder => NoCircularWait
<1> SUFFICES ASSUME Types, LockOrder, NEW S \in SUBSET Actors, S # {},
                    \A a \in S : prog[a] # <<>> /\ owner[Wants(a)] \in S
             PROVE  FALSE
  BY DEF NoCircularWait
<1>1. ASSUME NEW a \in S
      PROVE  owner[Wants(a)] \in S /\ Rank(Wants(owner[Wants(a)])) > Rank(Wants(a))
  <2> DEFINE l == Wants(a)
             b == owner[l]
  <2>1. prog[a] \in Seq(Steps) /\ prog[a] # <<>>  BY DEF Types
  <2>2. l \in Locks
    <3>1. Head(prog[a]) \in Steps  BY <2>1
    <3> QED  BY <3>1 DEF Wants, Steps
  <2>3. b \in S /\ b # Nobody  BY ActorsAre
  <2>4. WillFree(prog[b], l)  BY <2>2, <2>3 DEF LockOrder
  <2>5. PICK k \in 1..Len(prog[b]) : \A j \in 1..k : Rank(prog[b][j].takes) > Rank(l)
    BY <2>4 DEF WillFree
  <2>6. 1 \in 1..k  OBVIOUS
  <2>7. Wants(b) = prog[b][1].takes
    <3>1. prog[b] \in Seq(Steps) /\ prog[b] # <<>>  BY <2>3 DEF Types
    <3> QED  BY <3>1, Tails DEF Wants
  <2> QED  BY <2>3, <2>5, <2>6, <2>7
<1>2. PICK a \in S : TRUE  OBVIOUS
<1> DEFINE next(c) == owner[Wants(c)]
           r(c) == Rank(Wants(c))
<1>3. \A c \in S : next(c) \in S /\ r(next(c)) > r(c)  BY <1>1
<1>4. \A c \in S : r(c) \in 0..3  BY RankBound
<1> HIDE DEF next, r
<1>5. next(a) \in S /\ r(next(a)) >= 1  BY <1>3, <1>4
<1>6. next(next(a)) \in S /\ r(next(next(a))) >= 2  BY <1>3, <1>4, <1>5
<1>7. next(next(next(a))) \in S /\ r(next(next(next(a)))) >= 3  BY <1>3, <1>4, <1>6
<1> DEFINE d == next(next(next(a)))
<1>8. d \in S /\ r(d) >= 3  BY <1>7
<1> HIDE DEF d
<1>9. r(next(d)) > r(d) /\ next(d) \in S  BY <1>3, <1>8
<1> QED  BY <1>4, <1>8, <1>9

-----------------------------------------------------------------------------
(* Reloads.                                                                *)

\* Sending a message, with the channel at its limit or not, loses no reload.
LEMMA Pushed ==
    ASSUME NEW q \in Seq(Told), NEW m \in Told
    PROVE  /\ Push(q, m) \in Seq(Told)
           /\ Waits(q) => Waits(Push(q, m))
           /\ m = "reload" => Waits(Push(q, m))
<1>1. CASE Lagged(q)  BY <1>1 DEF Push, Waits
<1>2. CASE ~Lagged(q)
  <2> DEFINE r == Append(q, m)
  <2>1. /\ r \in Seq(Told) /\ Len(q) \in Nat /\ Len(r) = Len(q) + 1 /\ r[Len(q) + 1] = m
        /\ \A i \in 1..Len(q) : r[i] = q[i]
    OBVIOUS
  <2>2. Push(q, m) = r  BY <1>2 DEF Push
  <2> HIDE DEF r
  <2>3. Waits(q) => Waits(r)
    <3>1. ASSUME NEW i \in 1..Len(q), q[i] = "reload" PROVE Waits(r)
      <4>1. i \in 1..Len(r) /\ r[i] = "reload"  BY <2>1, <3>1
      <4> QED  BY <4>1 DEF Waits
    <3> QED  BY <1>2, <3>1 DEF Waits
  <2>4. m = "reload" => Waits(r)
    <3>1. Len(q) + 1 \in 1..Len(r)  BY <2>1
    <3> QED  BY <2>1, <3>1 DEF Waits
  <2> QED  BY <2>1, <2>2, <2>3, <2>4
<1> QED  BY <1>1, <1>2

\* Taking a message that is not a reload leaves those behind it.
LEMMA Received ==
    ASSUME NEW q \in Seq(Told), q # <<>>, ~Lagged(q)
    PROVE  /\ Head(q) \in Told /\ Tail(q) \in Seq(Told)
           /\ Waits(q) => Head(q) = "reload" \/ Waits(Tail(q))
<1> DEFINE t == Tail(q)
           k == Len(q)
<1>1. /\ Head(q) \in Told /\ t \in Seq(Told) /\ Head(q) = q[1] /\ k \in Nat /\ Len(t) = k - 1
      /\ \A i \in 1..Len(t) : t[i] = q[i + 1]
  OBVIOUS
<1>2. Waits(q) => \E i \in 1..k : q[i] = "reload"  BY DEF Waits
<1> HIDE DEF t, k
<1>3. ASSUME NEW i \in 1..k, q[i] = "reload", q[1] # "reload" PROVE Waits(t)
  <2>1. i # 1  BY <1>3
  <2>2. i - 1 \in 1..Len(t) /\ (i - 1) + 1 = i  BY <1>1, <2>1
  <2>3. t[i - 1] = "reload"  BY <1>1, <1>3, <2>2
  <2> QED  BY <2>2, <2>3 DEF Waits
<1> QED  BY <1>1, <1>2, <1>3 DEF t

\* A step leaves what the later ones do.
LEMMA StillWill ==
    ASSUME NEW p \in Seq(Steps), p # <<>>, NEW what, Head(p).does # what, Will(p, what)
    PROVE  Will(Tail(p), what)
<1> DEFINE t == Tail(p)
           n == Len(p)
<1>1. /\ Len(t) = n - 1 /\ n \in Nat /\ n >= 1 /\ Head(p) = p[1]
      /\ \A i \in 1..Len(t) : i + 1 \in 1..n /\ t[i] = p[i + 1]
  BY Tails
<1>2. PICK k \in 1..n : p[k].does = what  BY DEF Will
<1> HIDE DEF t, n
<1>3. k # 1  BY <1>1, <1>2
<1>4. k - 1 \in 1..Len(t) /\ (k - 1) + 1 = k  BY <1>1, <1>2, <1>3
<1>5. t[k - 1].does = what  BY <1>1, <1>2, <1>4
<1>6. Will(t, what)  BY <1>4, <1>5 DEF Will
<1> QED  BY <1>6 DEF t

\* Who has no program will do nothing.
LEMMA IdleWill ==
    ASSUME NEW what
    PROVE  ~Will(<<>>, what)
BY DEF Will

\* A reload configures the adapter and the keys.
LEMMA ReloadWill ==
    ASSUME NEW m
    PROVE  Will(ReloadConfig(m), "configure") /\ Will(ReloadConfig(m), "map")
<1> DEFINE r == ReloadConfig(m)
<1>1. Len(r) = 5 /\ r[2] = Step(Dev(m), "configure", {System, Dev(m)}) /\ r[4] = Short(System, "map")
  BY ReloadConfigIs
<1> HIDE DEF r
<1>2. r[2].does = "configure" /\ r[4].does = "map"  BY <1>1 DEF Step, Short
<1>3. 2 \in 1..Len(r) /\ 4 \in 1..Len(r)  BY <1>1
<1> QED  BY <1>2, <1>3 DEF Will, r

\* A step that leaves what task n knows, or has before it, as it was
Keeps(n) ==
    /\ config' = config /\ applied'[n] = applied[n] /\ mapped'[n] = mapped[n]
    /\ task'[n] \in {"subscribed", "run"} => task[n] \in {"none", "subscribed", "run"}
    /\ task'[n] = "none" => task[n] = "none"
    /\ Waits(inbox[n]) => Waits(inbox'[n])
    /\ \A what \in {"configure", "map"} : Will(prog[Task(n)], what) => Will(prog'[Task(n)], what)

\* Such a step leaves a task informed,
LEMMA KeepsInformed ==
    ASSUME NEW n \in Ids, Informed(n), Keeps(n)
    PROVE  Informed(n)'
BY DEF Informed, Keeps

\* The same of Config1
ConfigKeeps ==
    /\ UNCHANGED <<config, shown, confAlive>> /\ prog'[Config] = prog[Config]
    /\ Waits(confInbox) => Waits(confInbox')

\* and Config1.
LEMMA ConfigStaysInformed ==
    ASSUME ConfigInformed, ConfigKeeps
    PROVE  ConfigInformed'
BY DEF ConfigInformed, ConfigKeeps

\* A broadcast reaches everyone who has subscribed.
LEMMA BroadcastTypes ==
    ASSUME Types, ReloadTypes, NEW m \in Told, Broadcast(m)
    PROVE  /\ inbox' \in [Ids -> Seq(Told)] /\ confInbox' \in Seq(Told)
           /\ \A n \in Ids : Waits(inbox[n]) => Waits(inbox'[n])
           /\ Waits(confInbox) => Waits(confInbox')
           /\ m = "reload" =>
                 /\ \A n \in Ids : task[n] \in {"subscribed", "run"} => Waits(inbox'[n])
                 /\ confAlive => Waits(confInbox')
<1>1. ASSUME NEW n \in Ids
      PROVE  /\ inbox[n] \in Seq(Told)
             /\ inbox'[n] = IF task[n] \in {"subscribed", "run"} THEN Push(inbox[n], m) ELSE inbox[n]
  BY DEF Broadcast, ReloadTypes
<1>2. ASSUME NEW n \in Ids
      PROVE  /\ inbox'[n] \in Seq(Told) /\ (Waits(inbox[n]) => Waits(inbox'[n]))
             /\ m = "reload" /\ task[n] \in {"subscribed", "run"} => Waits(inbox'[n])
  BY <1>1, Pushed
<1>3. inbox' \in [Ids -> Seq(Told)]
  <2>1. inbox' = [n \in Ids |-> inbox'[n]]  BY DEF Broadcast
  <2> QED  BY <1>2, <2>1
<1>4. /\ confInbox \in Seq(Told)
      /\ confInbox' = IF confAlive THEN Push(confInbox, m) ELSE confInbox
  BY DEF Broadcast, ReloadTypes
<1>5. /\ confInbox' \in Seq(Told) /\ (Waits(confInbox) => Waits(confInbox'))
      /\ m = "reload" /\ confAlive => Waits(confInbox')
  BY <1>4, Pushed
<1> QED  BY <1>2, <1>3, <1>5

\* The steps of Main keep Reloads: a task subscribes before it is configured.
LEMMA MainReloads ==
    ASSUME DataInv, Reloads, MainStep
    PROVE  Reloads'
<1> USE DEF hwVars, devVars, taskVars, confVars, mainVars, lockVars
<1>0. Types /\ MainAt /\ Latest /\ Tasks /\ ReloadTypes /\ Main \in Actors  BY ActorsAre DEF DataInv, Reloads
<1>1. UNCHANGED <<applied, mapped, config, shown, confAlive>>
  BY DEF MainStep, MainStarts, FindDevs, FindDev, CloseDev, Notify, NextDevice, Publish, Interface,
         Subscribe, Spawn, Registered, Withdrawn, MainGoesOn, MainEnds, HandleEvent
<1>2. /\ inbox' \in [Ids -> Seq(Told)] /\ confInbox' \in Seq(Told)
      /\ \A n \in Ids : Waits(inbox[n]) => Waits(inbox'[n])
      /\ Waits(confInbox) => Waits(confInbox')
  <2>1. CASE Notify
    <3>1. Broadcast("connector") /\ "connector" \in Told  BY <2>1 DEF Notify, Told
    <3> QED  BY <1>0, <3>1, BroadcastTypes
  <2>2. CASE UNCHANGED <<inbox, confInbox>>  BY <1>0, <2>2 DEF ReloadTypes
  <2>3. ~Notify => UNCHANGED <<inbox, confInbox>>
    BY DEF MainStep, MainStarts, FindDevs, FindDev, CloseDev, NextDevice, Publish, Interface,
           Subscribe, Spawn, Registered, Withdrawn, MainGoesOn, MainEnds, HandleEvent
  <2> QED  BY <2>1, <2>2, <2>3
<1>3. ASSUME Spawn \/ Subscribe
      PROVE  cur \in Ids /\ task[cur] \in {"none", "subscribed"} /\ prog[Task(cur)] = <<>>
  <2>1. PICK what \in {"spawn", "subscribe"} : At(Main, what)  BY <1>3 DEF Spawn, Subscribe
  <2>2. MainRegisters /\ Len(prog[Main]) \in {2, 10}  BY <1>0, <2>1, MainIsAt DEF RegisterDeeds
  <2>3. cur \in Ids  BY <1>0, <2>2, IdsAre DEF MainRegisters, Latest
  <2>4. task[cur] \in {"none", "subscribed"}  BY <2>2 DEF MainRegisters
  <2> QED  BY <1>0, <2>3, <2>4 DEF Tasks
<1>4. ASSUME ~Spawn
      PROVE  \A b \in Actors : b # Main => prog'[b] = prog[b]
  <2>1. (\E x : prog' = [prog EXCEPT ![Main] = x]) \/ prog' = prog
    BY <1>4 DEF MainStep, MainStarts, FindDevs, FindDev, CloseDev, Notify, NextDevice, Publish, Interface,
           Subscribe, Registered, Withdrawn, MainGoesOn, MainEnds, HandleEvent, Begins, Advances, Continues
  <2> QED  BY <1>0, <2>1 DEF Types
<1>5. ASSUME NEW n \in Ids PROVE Informed(n)'
  <2>1. \A what : Will(prog[Task(n)], what) => Will(prog'[Task(n)], what)
    <3>1. CASE ~Spawn
      <4>1. prog'[Task(n)] = prog[Task(n)]  BY <1>4, <3>1, ActorsAre
      <4> QED  BY <4>1
    <3>2. CASE Spawn
      <4>1. cur \in Ids /\ prog[Task(cur)] = <<>>  BY <1>3, <3>2
      <4>2. CASE n = cur  BY <4>1, <4>2, IdleWill
      <4>3. CASE n # cur
        <5>1. Task(n) \notin {Main, Task(cur)} /\ Task(n) \in Actors  BY <4>1, <4>3, ActorsAre
        <5>2. prog'[Task(n)] = prog[Task(n)]  BY <1>0, <3>2, <5>1 DEF Spawn, Types
        <5> QED  BY <5>2
      <4> QED  BY <4>2, <4>3
    <3> QED  BY <3>1, <3>2
  <2>2. /\ task'[n] \in {"subscribed", "run"} => task[n] \in {"none", "subscribed", "run"}
        /\ task'[n] = "none" => task[n] = "none"
    <3>1. CASE task' = task  BY <3>1
    <3>2. CASE Spawn \/ Subscribe
      <4>1. cur \in Ids /\ task[cur] \in {"none", "subscribed"}  BY <1>3, <3>2
      <4>2. task'[cur] \in {"subscribed", "run"} /\ (n # cur => task'[n] = task[n])
        BY <1>0, <3>2, <4>1 DEF Spawn, Subscribe, Types
      <4> QED  BY <4>1, <4>2
    <3> QED  BY <3>1, <3>2 DEF MainStep, MainStarts, FindDevs, FindDev, CloseDev, Notify, NextDevice,
               Publish, Interface, Registered, Withdrawn, MainGoesOn, MainEnds, HandleEvent
  <2>3. Keeps(n)  BY <1>1, <1>2, <2>1, <2>2 DEF Keeps
  <2> QED  BY <2>3, KeepsInformed DEF Reloads
<1>6. ConfigInformed'
  <2>1. prog'[Config] = prog[Config]
    <3>1. CASE ~Spawn  BY <1>4, <3>1, ActorsAre
    <3>2. CASE Spawn
      <4>1. cur \in Ids  BY <1>3, <3>2
      <4>2. Config \notin {Main, Task(cur)} /\ Config \in Actors  BY <4>1, ActorsAre
      <4> QED  BY <1>0, <3>2, <4>2 DEF Spawn, Types
    <3> QED  BY <3>1, <3>2
  <2> QED  BY <1>1, <1>2, <2>1, ConfigStaysInformed DEF Reloads, ConfigKeeps
<1>7. ReloadTypes'  BY <1>0, <1>1, <1>2 DEF ReloadTypes
<1> QED  BY <1>5, <1>6, <1>7 DEF Reloads

\* So do the steps of a program: what was configured is up to date.
LEMMA ProceedReloads ==
    ASSUME DataInv, Reloads, NEW a \in Actors, Proceed(a)
    PROVE  Reloads'
<1> DEFINE x == Of(a)
<1>0. /\ Types /\ MainAt /\ Latest /\ Tasks /\ ReloadTypes /\ prog[a] # <<>>
      /\ UNCHANGED <<inbox, config, shown, confInbox, confAlive, cur>>
  BY ProceedMoves DEF DataInv, Reloads, confVars, mainVars
<1>1. prog[a] \in Seq(Steps) /\ Others(a)  BY <1>0, ProceedMoves, MovesTypes DEF Types
<1>2. PICK what \in {"lock", "read", "configure", "map", "uinput"} :
         /\ Head(prog[a]).does = what
         /\ \/ /\ prog'[a] = Tail(prog[a]) /\ task' = task
               /\ applied' = IF what = "configure" THEN [applied EXCEPT ![x] = config] ELSE applied
               /\ mapped' = IF what = "map" THEN [mapped EXCEPT ![x] = config] ELSE mapped
            \/ what \in {"configure", "uinput"} /\ Fails(a)
  <2>1. Advances(a) => prog'[a] = Tail(prog[a])  BY <1>0, Advanced
  <2>2. CASE Passes(a)  BY <2>1, <2>2 DEF Passes, At, taskVars
  <2>3. CASE Configures(a)  BY <2>1, <2>3 DEF Configures, At
  <2>4. CASE Maps(a)  BY <2>1, <2>4 DEF Maps, At
  <2>5. CASE OpensUinput(a)  BY <2>1, <2>5 DEF OpensUinput, At
  <2> QED  BY <2>2, <2>3, <2>4, <2>5 DEF Proceed
<1>3. a = Main => x \in Ids
  <2>1. ASSUME a = Main PROVE cur \in Ids
    <3>1. At(Main, what)
      BY <2>1, <1>2 DEF Proceed, Passes, Configures, Maps, OpensUinput, At
    <3>2. MainRegisters  BY <1>0, <3>1, MainIsAt DEF RegisterDeeds
    <3> QED  BY <1>0, <3>2, IdsAre DEF MainRegisters, Latest
  <2> QED  BY <2>1 DEF Of
<1>4. \A n \in Ids : a = Task(n) => x = n  BY ActorsAre DEF Of, Task
<1>5. a \notin {Main} \cup {Task(n) : n \in Ids} => x \notin Ids
  <2>1. a \notin {Main} \cup {Task(n) : n \in Ids} => x = 0
    BY DEF Actors, Of, Main, Reload, Config, Client
  <2> QED  BY <1>0, <2>1, IdsAre
<1>6. ReloadTypes'
  <2>1. applied' \in [Ids -> Nat] /\ mapped' \in [Ids -> Nat]
    <3>1. \A v \in Nat : [applied EXCEPT ![x] = v] \in [Ids -> Nat] /\ [mapped EXCEPT ![x] = v] \in [Ids -> Nat]
      BY <1>0 DEF ReloadTypes
    <3>2. config \in Nat /\ applied \in [Ids -> Nat] /\ mapped \in [Ids -> Nat]  BY <1>0 DEF ReloadTypes
    <3>3. /\ applied' \in {applied, [applied EXCEPT ![x] = config], [applied EXCEPT ![x] = 0]}
          /\ mapped' \in {mapped, [mapped EXCEPT ![x] = config], [mapped EXCEPT ![x] = 0]}
      BY <1>2 DEF Fails
    <3> QED  BY <3>1, <3>2, <3>3
  <2> QED  BY <1>0, <2>1 DEF ReloadTypes
<1>7. ASSUME NEW n \in Ids PROVE Informed(n)'
  <2>0. Informed(n) /\ applied[n] \in Nat /\ mapped[n] \in Nat  BY <1>0 DEF Reloads, ReloadTypes
  <2>1. CASE x # n
    <3>1. Task(n) # a /\ Task(n) \in Actors  BY <1>4, <2>1, ActorsAre
    <3>2. prog'[Task(n)] = prog[Task(n)]  BY <1>1, <3>1 DEF Others
    <3>3. applied'[n] = applied[n] /\ mapped'[n] = mapped[n]  BY <1>0, <1>2, <2>1 DEF ReloadTypes, Fails
    <3>4. task'[n] = task[n]
      <4>1. a = Main => x = cur  BY DEF Of
      <4> QED  BY <1>0, <1>2, <2>1, <4>1 DEF Fails, Types
    <3>5. Keeps(n)  BY <1>0, <3>2, <3>3, <3>4 DEF Keeps
    <3> QED  BY <2>0, <3>5, KeepsInformed
  <2>2. CASE x = n /\ prog'[a] = Tail(prog[a]) /\ task' = task
          /\ applied' = (IF what = "configure" THEN [applied EXCEPT ![x] = config] ELSE applied)
          /\ mapped' = (IF what = "map" THEN [mapped EXCEPT ![x] = config] ELSE mapped)
    <3>1. a \in {Main, Task(n)}  BY <1>4, <1>5, <2>2
    <3>2. ASSUME NEW w \in {"configure", "map"}, Will(prog[Task(n)], w), what # w
          PROVE  Will(prog'[Task(n)], w)
      <4>1. CASE a = Task(n)  BY <1>0, <1>1, <1>2, <2>2, <3>2, <4>1, StillWill
      <4>2. CASE a # Task(n)
        <5>1. prog'[Task(n)] = prog[Task(n)]  BY <1>1, <4>2, ActorsAre DEF Others
        <5> QED  BY <3>2, <5>1
      <4> QED  BY <4>1, <4>2
    <3>3. applied'[n] = (IF what = "configure" THEN config ELSE applied[n])
      BY <1>0, <2>2 DEF ReloadTypes
    <3>4. mapped'[n] = (IF what = "map" THEN config ELSE mapped[n])
      BY <1>0, <2>2 DEF ReloadTypes
    <3>5. task[n] # "none"
      <4>1. CASE a = Task(n)  BY <1>0, <4>1 DEF Tasks
      <4>2. CASE a = Main
        <5>1. At(Main, what)  BY <4>2, <1>2 DEF Proceed, Passes, Configures, Maps, OpensUinput, At
        <5>2. MainRegisters /\ Len(prog[Main]) \in 2..9
          BY <1>0, <5>1, MainIsAt DEF RegisterDeeds
        <5>3. cur = n  BY <2>2, <4>2 DEF Of
        <5> QED  BY <5>2, <5>3 DEF MainRegisters
      <4> QED  BY <3>1, <4>1, <4>2
    <3> QED  BY <1>0, <2>0, <2>2, <3>2, <3>3, <3>4, <3>5 DEF Informed
  <2>3. CASE x = n /\ Fails(a)
    <3>1. applied'[n] = 0 /\ mapped'[n] = 0  BY <1>0, <2>3 DEF ReloadTypes, Fails
    <3> QED  BY <3>1 DEF Informed
  <2> QED  BY <1>2, <2>1, <2>2, <2>3
<1>8. ConfigInformed'
  <2>1. CASE a # Config
    <3>1. prog'[Config] = prog[Config]  BY <1>1, <2>1, ActorsAre DEF Others
    <3> QED  BY <1>0, <3>1, ConfigStaysInformed DEF Reloads, ConfigKeeps
  <2>2. CASE a = Config
    <3> DEFINE p == prog[Config]
    <3>1. Head(p) = p[1] /\ Len(p) >= 1 /\ Len(p) \in Nat  BY <1>0, <1>1, <2>2, Tails
    <3>2. what \in {"lock", "show"}  BY <1>2, <2>2, <3>1 DEF Reloads, ConfigInformed
    <3>3. what = "lock"  BY <3>2
    <3>4. prog'[Config] = Tail(p)  BY <1>2, <2>2, <3>3
    <3>5. Will(p, "show") => Will(Tail(p), "show")  BY <1>0, <1>1, <1>2, <2>2, <3>3, StillWill
    <3>6. \A k \in 1..Len(Tail(p)) : Tail(p)[k].does \in {"lock", "show"}
      BY <1>0, <1>1, <2>2, Tails DEF Reloads, ConfigInformed
    <3> QED  BY <1>0, <3>4, <3>5, <3>6 DEF Reloads, ConfigInformed
  <2> QED  BY <2>1, <2>2
<1> QED  BY <1>6, <1>7, <1>8 DEF Reloads

\* So do the steps of a task: a reload that is taken from the channel is begun.
LEMMA TaskReloads ==
    ASSUME DataInv, Reloads, NEW t \in Ids,
           HandleStatus(t) \/ HandleBroadcast(t) \/ LeaveLoop(t) \/ Deregister(t)
    PROVE  Reloads'
<1>0. Types /\ Tasks /\ ReloadTypes /\ Task(t) \in Actors /\ task[t] \in {"run", "ending"}
  BY ActorsAre DEF DataInv, Reloads, HandleStatus, HandleBroadcast, LeaveLoop, Deregister, Selects
<1>1. UNCHANGED <<config, shown, confInbox, confAlive>>
  BY DEF HandleStatus, HandleBroadcast, LeaveLoop, Deregister, confVars
<1>2. Others(Task(t))
  <2>1. CASE HandleStatus(t) \/ HandleBroadcast(t)  BY <1>0, <2>1, TaskMoves, MovesTypes
  <2>2. CASE LeaveLoop(t) \/ Deregister(t)  BY <2>2 DEF LeaveLoop, Deregister, lockVars, Others
  <2> QED  BY <2>1, <2>2
<1>3. inbox[t] \in Seq(Told)  BY <1>0 DEF ReloadTypes
<1>4. ReloadTypes'
  <2>1. inbox' \in [Ids -> Seq(Told)]
    <3>1. CASE HandleBroadcast(t)
      <4>1. Tail(inbox[t]) \in Seq(Told)  BY <1>3, <3>1, Received DEF HandleBroadcast
      <4>2. inbox' = [inbox EXCEPT ![t] = Tail(inbox[t])]  BY <3>1 DEF HandleBroadcast
      <4> QED  BY <1>0, <4>1, <4>2 DEF ReloadTypes
    <3>2. CASE ~HandleBroadcast(t)
      <4>1. inbox' \in {inbox, [inbox EXCEPT ![t] = <<>>]}
        BY <3>2 DEF HandleStatus, LeaveLoop, Deregister, taskVars
      <4>2. [inbox EXCEPT ![t] = <<>>] \in [Ids -> Seq(Told)] /\ inbox \in [Ids -> Seq(Told)]
        BY <1>0 DEF ReloadTypes
      <4> QED  BY <4>1, <4>2
    <3> QED  BY <3>1, <3>2
  <2>2. /\ applied' \in {applied, [applied EXCEPT ![t] = 0]}
        /\ mapped' \in {mapped, [mapped EXCEPT ![t] = 0]}
    BY DEF HandleStatus, HandleBroadcast, LeaveLoop, Deregister, taskVars
  <2>3. applied' \in [Ids -> Nat] /\ mapped' \in [Ids -> Nat]
    <3>1. /\ [applied EXCEPT ![t] = 0] \in [Ids -> Nat] /\ applied \in [Ids -> Nat]
          /\ [mapped EXCEPT ![t] = 0] \in [Ids -> Nat] /\ mapped \in [Ids -> Nat]
      BY <1>0 DEF ReloadTypes
    <3> QED  BY <2>2, <3>1
  <2> QED  BY <1>0, <1>1, <2>1, <2>3 DEF ReloadTypes
<1>5. ASSUME NEW n \in Ids PROVE Informed(n)'
  <2>0. Informed(n)  BY DEF Reloads
  <2>1. CASE n # t
    <3>1. prog'[Task(n)] = prog[Task(n)]  BY <1>2, <2>1, ActorsAre DEF Others
    <3>2. task'[n] = task[n]
      BY <1>0, <2>1 DEF Types, HandleStatus, HandleBroadcast, LeaveLoop, Deregister, taskVars
    <3>3. applied'[n] = applied[n] /\ mapped'[n] = mapped[n] /\ inbox'[n] = inbox[n]
      BY <1>0, <2>1 DEF ReloadTypes, HandleStatus, HandleBroadcast, LeaveLoop, Deregister, taskVars
    <3>4. Keeps(n)  BY <1>1, <3>1, <3>2, <3>3 DEF Keeps
    <3> QED  BY <2>0, <3>4, KeepsInformed
  <2>2. CASE n = t /\ (LeaveLoop(t) \/ Deregister(t))
    <3>1. task'[n] \in {"ending", "ended"}  BY <1>0, <2>2 DEF Types, LeaveLoop, Deregister
    <3> QED  BY <3>1 DEF Informed
  <2>3. CASE n = t /\ HandleStatus(t)
    <3>1. prog[Task(n)] = <<>> /\ UNCHANGED <<task, inbox, applied, mapped>>
      BY <2>3 DEF HandleStatus, Selects, IsIdle, taskVars
    <3>2. Keeps(n)  BY <1>1, <3>1, IdleWill DEF Keeps
    <3> QED  BY <2>0, <3>2, KeepsInformed
  <2>4. CASE n = t /\ HandleBroadcast(t)
    <3>1. /\ prog[Task(n)] = <<>> /\ UNCHANGED <<task, applied, mapped>> /\ task[n] = "run"
          /\ inbox[n] # <<>> /\ ~Lagged(inbox[n]) /\ inbox' = [inbox EXCEPT ![n] = Tail(@)]
      BY <2>4 DEF HandleBroadcast, Selects, IsIdle
    <3>2. inbox'[n] = Tail(inbox[n])  BY <1>0, <3>1 DEF ReloadTypes
    <3>3. Waits(inbox[n]) => Head(inbox[n]) = "reload" \/ Waits(Tail(inbox[n]))
      BY <1>3, <2>4, <3>1, Received
    <3>4. CASE Head(inbox[n]) = "reload"
      <4>1. Begins(Task(n), ReloadConfig(iface[n]))  BY <2>4, <3>4 DEF HandleBroadcast
      <4>2. prog'[Task(n)] = ReloadConfig(iface[n])  BY <1>0, <2>4, <4>1 DEF Begins, Types
      <4>3. Will(prog'[Task(n)], "configure") /\ Will(prog'[Task(n)], "map")  BY <4>2, ReloadWill
      <4> QED  BY <3>1, <4>3 DEF Informed
    <3>5. CASE Head(inbox[n]) # "reload"
      <4>1. Keeps(n)  BY <1>1, <3>1, <3>2, <3>3, <3>5, IdleWill DEF Keeps
      <4> QED  BY <2>0, <4>1, KeepsInformed
    <3> QED  BY <3>4, <3>5
  <2> QED  BY <2>1, <2>2, <2>3, <2>4
<1>6. ConfigInformed'
  <2>1. prog'[Config] = prog[Config]  BY <1>2, ActorsAre DEF Others
  <2> QED  BY <1>1, <2>1, ConfigStaysInformed DEF Reloads, ConfigKeeps
<1> QED  BY <1>4, <1>5, <1>6 DEF Reloads

\* What ConfigTask does on a reload.
LEMMA ConfigProgram ==
    ASSUME NEW p, p = <<Lock(Config1), Step(System, "show", {System, Config1})>>
    PROVE  Will(p, "show") /\ \A k \in 1..Len(p) : p[k].does \in {"lock", "show"}
<1>1. Len(p) = 2 /\ p[1] = Lock(Config1) /\ p[2] = Step(System, "show", {System, Config1})  OBVIOUS
<1>2. p[1].does = "lock" /\ p[2].does = "show"  BY <1>1 DEF Lock, Step
<1>3. 2 \in 1..Len(p) /\ \A k \in 1..Len(p) : k \in {1, 2}  BY <1>1
<1> QED  BY <1>2, <1>3 DEF Will

\* So do reloads, and what Config1 does with them.
LEMMA ServiceReloads ==
    ASSUME DataInv, Reloads,
           \/ \E p \in Paths : CallMethod(p)
           \/ AskReload \/ Reconfig \/ ConfigTask \/ Reconfigure
    PROVE  Reloads'
<1>0. Types /\ ReloadTypes /\ ConfigInformed /\ UNCHANGED <<task, applied, mapped>>
  BY ServiceMoves DEF DataInv, Reloads
<1>1. PICK a \in {Client, Reload, Config} : Moves(a) \/ UNCHANGED lockVars  BY ServiceMoves
<1>2. a \in Actors /\ Others(a)
  <2>1. a \in Actors  BY ActorsAre
  <2>2. CASE Moves(a)  BY <1>0, <2>1, <2>2, MovesTypes
  <2>3. CASE UNCHANGED lockVars  BY <2>1, <2>3 DEF lockVars, Others
  <2> QED  BY <1>1, <2>2, <2>3
<1>3. \A n \in Ids : prog'[Task(n)] = prog[Task(n)]  BY <1>2, ActorsAre DEF Others
<1>4. CASE (\E p \in Paths : CallMethod(p)) \/ AskReload
  <2>1. UNCHANGED <<inbox, config, shown, confInbox, confAlive>>
    BY <1>4 DEF CallMethod, AskReload, taskVars, confVars
  <2>2. prog'[Config] = prog[Config]
    <3>1. PICK c \in {Client, Reload} : \E rest : prog' = [prog EXCEPT ![c] = rest]
      BY <1>4 DEF CallMethod, AskReload, Begins
    <3> QED  BY <1>0, <3>1, ActorsAre DEF Types
  <2>3. \A n \in Ids : Keeps(n)  BY <1>0, <1>3, <2>1 DEF Keeps
  <2>4. \A n \in Ids : Informed(n)'  BY <2>3, KeepsInformed DEF Reloads
  <2>5. ConfigInformed'  BY <1>0, <2>1, <2>2, ConfigStaysInformed DEF ConfigKeeps
  <2> QED  BY <1>0, <2>1, <2>4, <2>5 DEF Reloads, ReloadTypes
<1>5. CASE Reconfig
  <2>1. UNCHANGED <<shown, confAlive>> /\ prog[Reload] # <<>> /\ Advances(Reload)  BY <1>5 DEF Reconfig, At
  <2>2. prog'[Config] = prog[Config]  BY <1>0, <2>1, Advanced, ActorsAre DEF Others
  <2>3. CASE UNCHANGED <<config, inbox, confInbox>>
    <3>1. \A n \in Ids : Keeps(n)  BY <1>0, <1>3, <2>3 DEF Keeps
    <3>2. \A n \in Ids : Informed(n)'  BY <3>1, KeepsInformed DEF Reloads
    <3>3. ConfigInformed'  BY <1>0, <2>1, <2>2, <2>3, ConfigStaysInformed DEF ConfigKeeps
    <3> QED  BY <1>0, <2>3, <3>2, <3>3 DEF Reloads, ReloadTypes
  <2>4. CASE config' = config + 1 /\ Broadcast("reload")
    <3>1. "reload" \in Told  BY DEF Told
    <3>2. /\ inbox' \in [Ids -> Seq(Told)] /\ confInbox' \in Seq(Told)
          /\ \A n \in Ids : task[n] \in {"subscribed", "run"} => Waits(inbox'[n])
          /\ confAlive => Waits(confInbox')
      BY <1>0, <2>4, <3>1, BroadcastTypes
    <3>3. ReloadTypes'  BY <1>0, <2>4, <3>2 DEF ReloadTypes
    <3>4. ASSUME NEW n \in Ids PROVE Informed(n)'
      BY <1>0, <3>2 DEF Informed, Reloads
    <3>5. ConfigInformed'  BY <1>0, <2>1, <2>2, <3>2 DEF ConfigInformed
    <3> QED  BY <3>3, <3>4, <3>5 DEF Reloads
  <2> QED  BY <1>5, <2>3, <2>4 DEF Reconfig
<1>6. CASE ConfigTask
  <2>1. UNCHANGED <<inbox, config, shown>> /\ prog[Config] = <<>> /\ confInbox # <<>>
    BY <1>6 DEF ConfigTask, IsIdle, taskVars
  <2>2. \A n \in Ids : Keeps(n)  BY <1>0, <1>3, <2>1 DEF Keeps
  <2>3. \A n \in Ids : Informed(n)'  BY <2>2, KeepsInformed DEF Reloads
  <2>4. CASE Lagged(confInbox)
    <3>1. ~confAlive' /\ UNCHANGED <<confInbox, prog>>  BY <1>6, <2>4 DEF ConfigTask, lockVars
    <3>2. ConfigInformed'  BY <1>0, <3>1 DEF ConfigInformed
    <3> QED  BY <1>0, <2>1, <2>3, <3>1, <3>2 DEF Reloads, ReloadTypes
  <2>5. CASE ~Lagged(confInbox)
    <3> DEFINE show == <<Lock(Config1), Step(System, "show", {System, Config1})>>
    <3>1. /\ confInbox' = Tail(confInbox) /\ confAlive' = confAlive
          /\ Begins(Config, IF Head(confInbox) = "reload" THEN show ELSE <<>>)
      BY <1>6, <2>5 DEF ConfigTask
    <3>2. /\ Tail(confInbox) \in Seq(Told)
          /\ Waits(confInbox) => Head(confInbox) = "reload" \/ Waits(Tail(confInbox))
      BY <1>0, <2>1, <2>5, Received DEF ReloadTypes
    <3>3. prog'[Config] = IF Head(confInbox) = "reload" THEN show ELSE <<>>
      BY <1>0, <3>1, ActorsAre DEF Begins, Types
    <3>4. Will(show, "show") /\ \A k \in 1..Len(show) : show[k].does \in {"lock", "show"}
      BY ConfigProgram
    <3> HIDE DEF show
    <3>5. ~Will(prog[Config], "show")  BY <2>1, IdleWill
    <3>6. ConfigInformed'
      <4>1. CASE Head(confInbox) = "reload"
        <5>1. prog'[Config] = show  BY <3>3, <4>1
        <5> QED  BY <3>4, <5>1 DEF ConfigInformed
      <4>2. CASE Head(confInbox) # "reload"
        <5>1. prog'[Config] = <<>>  BY <3>3, <4>2
        <5>2. confAlive' => shown' = config' \/ Waits(confInbox')
          BY <1>0, <2>1, <3>1, <3>2, <3>5, <4>2 DEF ConfigInformed
        <5> QED  BY <5>1, <5>2 DEF ConfigInformed
      <4> QED  BY <4>1, <4>2
    <3> QED  BY <1>0, <2>1, <2>3, <3>1, <3>2, <3>6 DEF Reloads, ReloadTypes
  <2> QED  BY <2>4, <2>5
<1>7. CASE Reconfigure
  <2>1. /\ UNCHANGED <<inbox, config, confInbox, confAlive>> /\ shown' = config /\ prog[Config] # <<>>
        /\ Advances(Config)
    BY <1>7 DEF Reconfigure, At, taskVars
  <2>2. \A n \in Ids : Keeps(n)  BY <1>0, <1>3, <2>1 DEF Keeps
  <2>3. \A n \in Ids : Informed(n)'  BY <2>2, KeepsInformed DEF Reloads
  <2>4. prog'[Config] = Tail(prog[Config]) /\ prog[Config] \in Seq(Steps)
    BY <1>0, <2>1, ActorsAre, Advanced DEF Types
  <2>5. \A k \in 1..Len(prog'[Config]) : prog'[Config][k].does \in {"lock", "show"}
    BY <1>0, <2>1, <2>4, Tails DEF ConfigInformed
  <2>6. ConfigInformed'  BY <2>1, <2>5 DEF ConfigInformed
  <2> QED  BY <1>0, <2>1, <2>3, <2>6 DEF Reloads, ReloadTypes
<1> QED  BY <1>4, <1>5, <1>6, <1>7

\* Reloads is kept by every step,
LEMMA ReloadsNext ==
    ASSUME DataInv, Reloads, [Next]_vars
    PROVE  Reloads'
<1>1. CASE MainStep  BY <1>1, MainReloads
<1>2. ASSUME NEW a \in Actors, Proceed(a) PROVE Reloads'  BY <1>2, ProceedReloads
<1>3. ASSUME NEW n \in Ids, HandleStatus(n) \/ HandleBroadcast(n) \/ LeaveLoop(n) \/ Deregister(n)
      PROVE  Reloads'
  BY <1>3, TaskReloads
<1>4. ASSUME \/ \E p \in Paths : CallMethod(p)
             \/ AskReload \/ Reconfig \/ ConfigTask \/ Reconfigure
      PROVE  Reloads'
  BY <1>4, ServiceReloads
<1>5. ASSUME UNCHANGED <<task, inbox, applied, mapped, config, shown, confInbox, confAlive, prog>>
      PROVE  Reloads'
  <2>1. \A n \in Ids : Keeps(n)  BY <1>5 DEF Keeps
  <2>2. \A n \in Ids : Informed(n)'  BY <2>1, KeepsInformed DEF Reloads
  <2>3. ConfigInformed'  BY <1>5, ConfigStaysInformed DEF ConfigKeeps, Reloads
  <2> QED  BY <1>5, <2>2, <2>3 DEF Reloads, ReloadTypes
<1>6. ASSUME NEW p \in Paths, Plug(p) PROVE Reloads'
  BY <1>5, <1>6, PlugTypes DEF taskVars, confVars, lockVars
<1>7. CASE UNCHANGED vars  BY <1>5, <1>7 DEF vars, taskVars, confVars, lockVars
<1> QED  BY <1>1, <1>2, <1>3, <1>4, <1>6, <1>7 DEF Next

\* and holds at the start.
LEMMA ReloadsInit == Init => Reloads
<1> SUFFICES ASSUME Init PROVE Reloads  OBVIOUS
<1>1. ReloadTypes  BY DEF Init, ReloadTypes
<1>2. \A n \in Ids : Informed(n)  BY DEF Init, Informed
<1>3. ConfigInformed
  <2>1. prog[Config] = <<>>  BY ActorsAre DEF Init
  <2> QED  BY <2>1 DEF Init, ConfigInformed
<1> QED  BY <1>1, <1>2, <1>3 DEF Reloads

\* Who is idle is not in a reload, and so has it before it.
LEMMA ReloadsAreEnough == Reloads => NoReloadLost
<1> SUFFICES ASSUME Reloads PROVE NoReloadLost  OBVIOUS
<1>1. ASSUME NEW q \in Seq(Told), Waits(q)
      PROVE  Lagged(q) \/ \E i \in DOMAIN q : q[i] = "reload"
  <2>1. DOMAIN q = 1..Len(q)  OBVIOUS
  <2> QED  BY <1>1, <2>1 DEF Waits
<1>2. ASSUME NEW n \in Ids, task[n] = "run", IsIdle(Task(n))
      PROVE  \/ {applied[n], mapped[n]} \subseteq {0, config}
             \/ Lagged(inbox[n]) \/ \E i \in DOMAIN inbox[n] : inbox[n][i] = "reload"
  <2>1. Informed(n) /\ inbox[n] \in Seq(Told) /\ prog[Task(n)] = <<>>
    BY <1>2 DEF Reloads, ReloadTypes, IsIdle
  <2>2. {applied[n], mapped[n]} \subseteq {0, config} \/ Waits(inbox[n])
    BY <1>2, <2>1, IdleWill DEF Informed
  <2> QED  BY <1>1, <2>1, <2>2
<1>3. ASSUME confAlive, IsIdle(Config)
      PROVE  shown = config \/ Lagged(confInbox) \/ \E i \in DOMAIN confInbox : confInbox[i] = "reload"
  <2>1. confInbox \in Seq(Told) /\ prog[Config] = <<>>  BY <1>3 DEF Reloads, ReloadTypes, IsIdle
  <2>2. shown = config \/ Waits(confInbox)  BY <1>3, <2>1, IdleWill DEF Reloads, ConfigInformed
  <2> QED  BY <1>1, <2>1, <2>2
<1> QED  BY <1>2, <1>3 DEF NoReloadLost

-----------------------------------------------------------------------------
(* The theorems.                                                           *)

\* The three parts together are an inductive invariant of the registry, the locks and
\* the reloads of cecd.
THEOREM Invariance == Spec => []Inv
<1>1. Init => Inv  BY DataInit, OrderInit, ReloadsInit DEF Inv
<1>2. Inv /\ [Next]_vars => Inv'  BY DataNext, OrderNext, ReloadsNext DEF Inv
<1> QED  BY <1>1, <1>2, PTL DEF Spec

\* However nodes are added, removed and found, and whenever a task ends, at most one
\* task serves a node (System::find_devs, find_dev, close_dev, DeviceTask::run).
THEOREM OneTaskServesANode == Spec => []OneServer
<1>1. Inv => OneServer  BY ServedOnce DEF Inv
<1> QED  BY <1>1, Invariance, PTL

\* Whatever fails in CecDevice::register, an object on D-Bus is about to have a task or
\* has one, which takes it off the bus (DeviceTask::new, DeviceTask::run).
THEOREM ObjectsAreServed == Spec => []PublishedIsOwned
<1>1. Inv => PublishedIsOwned  BY DEF Inv, DataInv
<1> QED  BY <1>1, Invariance, PTL

\* The locks of System, of the D-Bus objects and of the devices are taken in an order in
\* which no actors can wait for each other.
THEOREM NobodyWaitsInACircle == Spec => []NoCircularWait
<1>1. Inv => NoCircularWait  BY OrderIsEnough DEF Inv, DataInv
<1> QED  BY <1>1, Invariance, PTL

\* A change of the configuration reaches every task, one that is being registered too,
\* and Config1, for every length of the broadcast channel (System::reconfig).
THEOREM ReloadsArrive == Spec => []NoReloadLost
<1>1. Inv => NoReloadLost  BY ReloadsAreEnough DEF Inv
<1> QED  BY <1>1, Invariance, PTL

=============================================================================
