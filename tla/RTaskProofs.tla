----------------------------- MODULE RTaskProofs -----------------------------
(***************************************************************************)
(* Lemmas about the kernel, for any number of tasks, priorities and widths *)
(* of the wake counters: its operations keep their types, a wake never     *)
(* puts a task to sleep, and PendSV switches to the best awake task.       *)
(***************************************************************************)
EXTENDS RTask, WellFoundedInduction, TLAPS

USE NAssumption, HalfAssumption

-----------------------------------------------------------------------------
(* Least elements, for the CHOOSE of TaskToRun.                            *)

LEMMA LeastExists ==
  ASSUME NEW T, T \subseteq Nat, T # {}
  PROVE  \E x \in T : \A y \in T : x <= y
<1> DEFINE R == OpToRel(<, Nat)
<1>1. PICK x \in T : \A y \in T : ~ (<<y, x>> \in R)
  <2>1. IsWellFoundedOn(R, Nat)
    BY NatLessThanWellFounded, PTL
  <2> HIDE DEF R
  <2> QED BY <2>1, WFMin
<1>2. ASSUME NEW y \in T PROVE x <= y
  <2>1. x \in Nat /\ y \in Nat
    OBVIOUS
  <2>2. y < x => <<y, x>> \in R
    BY <2>1 DEF OpToRel
  <2> HIDE DEF R
  <2> QED BY <1>1, <2>1, <2>2
<1> QED BY <1>2

LEMMA TaskToRunType ==
  ASSUME NEW awake \in SUBSET Task, NEW cur \in 0 .. N
  PROVE  TaskToRun(awake, cur) \in 0 .. N
<1> DEFINE best == {t \in awake : \A u \in awake : Prio[u] <= Prio[t]}
<1>1. CASE best = {} \/ cur \in best
  BY <1>1 DEF TaskToRun
<1>2. CASE ~(best = {} \/ cur \in best)
  <2>1. best \subseteq Nat /\ best \subseteq 0 .. N
    <3>1. best \subseteq Task
      OBVIOUS
    <3>2. Task \subseteq Nat /\ Task \subseteq 0 .. N
      BY DEF Task
    <3> HIDE DEF best
    <3> QED BY <3>1, <3>2
  <2>2. \E t \in best : \A u \in best : t <= u
    <3> HIDE DEF best
    <3> QED BY <1>2, <2>1, LeastExists
  <2>3. TaskToRun(awake, cur) = CHOOSE t \in best : \A u \in best : t <= u
    BY <1>2 DEF TaskToRun
  <2> HIDE DEF best
  <2> QED BY <2>1, <2>2, <2>3
<1> QED BY <1>1, <1>2

-----------------------------------------------------------------------------
(* Types of the kernel's operations.                                       *)

LEMMA CounterType ==
  /\ \A c \in Counter : Inc(c) \in Counter
  /\ \A t \in Task : wakeThreshold \in [Task -> Counter] => BumpedThreshold(t) \in Counter
BY DEF Inc, BumpedThreshold, Counter

LEMMA WakeType ==
  ASSUME KernelTypeOK, NEW S, Wake(S)
  PROVE  /\ wakeCount' \in [Task -> Counter] /\ wakeThreshold' \in [Task -> Counter]
         /\ burst' \in [Task -> 0 .. None]
<1>1. wakeCount' \in [Task -> Counter]
  BY CounterType DEF Wake, KernelTypeOK
<1>2. wakeThreshold' \in [Task -> Counter]
  BY CounterType DEF Wake, KernelTypeOK
<1>3. burst' \in [Task -> 0 .. None]
  <2>1. None \in Nat
    BY DEF None
  <2> QED BY <2>1 DEF Wake, KernelTypeOK
<1> QED BY <1>1, <1>2, <1>3

LEMMA PendSVType ==
  ASSUME KernelTypeOK, PendSV
  PROVE  KernelTypeOK'
<1> DEFINE ticked == {t \in Task : ticking /\ ticksCreateWakes[t]}
           awake  == {t \in Task : IsWokeAt(wakeThreshold'[t], wakeCount'[t])}
<1>1. Wake(ticked)
  BY DEF PendSV
<1>2. curTask' = TaskToRun(awake, curTask)
  BY DEF PendSV
<1>3. awake \in SUBSET Task /\ curTask \in 0 .. N
  BY DEF KernelTypeOK
<1> HIDE DEF ticked, awake
<1>4. curTask' \in 0 .. N
  BY <1>2, <1>3, TaskToRunType
<1>5. pendSV' = FALSE /\ ticking' = FALSE /\ ticksCreateWakes' = ticksCreateWakes
  BY DEF PendSV
<1> QED BY <1>1, <1>4, <1>5, WakeType DEF KernelTypeOK

LEMMA IsrWakeType ==
  ASSUME KernelTypeOK, NEW t \in Task, IsrWake(t)
  PROVE  KernelTypeOK'
BY WakeType DEF IsrWake, KernelTypeOK

LEMMA ReschedType ==
  ASSUME KernelTypeOK, Resched
  PROVE  KernelTypeOK'
BY DEF Resched, KernelTypeOK

LEMMA WaitForType ==
  ASSUME KernelTypeOK, NEW t \in Task, NEW c \in Counter, WaitFor(t, c)
  PROVE  KernelTypeOK'
BY DEF WaitFor, KernelTypeOK, None

-----------------------------------------------------------------------------
(* Wake counters.                                                          *)

LEMMA ConsiderType ==
  \A x, c \in Counter : Consider(x, c) \in Counter
BY DEF Consider, Counter

\* A wake moves the counter one step towards the threshold or past it.
LEMMA ConsiderInc ==
  ASSUME NEW x \in Counter, NEW c \in Counter
  PROVE  /\ Consider(x, Inc(c)) =
              IF Consider(x, c) = 0 THEN 2 * Half - 1 ELSE Consider(x, c) - 1
         /\ Consider(Inc(x), c) =
              IF Consider(x, c) = 2 * Half - 1 THEN 0 ELSE Consider(x, c) + 1
BY DEF Consider, Inc, Counter

\* INT8_MIN, from which a wake would lead to sleep.
NotAtEdge(t) == Consider(wakeThreshold[t], wakeCount[t]) # Half

\* Wakes never reach INT8_MIN, keep an awake task awake and bring one that
\* is asleep nearer to its threshold.
LEMMA WakeWakes ==
  ASSUME KernelTypeOK, NEW S, Wake(S), NEW t \in Task, NotAtEdge(t)
  PROVE  /\ NotAtEdge(t)'
         /\ IsWoke(t) => IsWoke(t)'
         /\ ~IsWoke(t)' => Consider(wakeThreshold'[t], wakeCount'[t])
                             <= Consider(wakeThreshold[t], wakeCount[t])
<1> DEFINE x == wakeThreshold[t]
           c == wakeCount[t]
<1>1. x \in Counter /\ c \in Counter
  BY DEF KernelTypeOK
<1>2. CASE t \notin S
  <2>1. wakeThreshold'[t] = x /\ wakeCount'[t] = c
    BY <1>2 DEF Wake
  <2>2. Consider(x, c) \in 0 .. 2 * Half - 1
    BY <1>1, ConsiderType DEF Counter
  <2>3. IsWoke(t)' <=> IsWoke(t)
    BY <2>1 DEF IsWoke
  <2> QED BY <2>1, <2>2, <2>3 DEF NotAtEdge
<1>3. CASE t \in S
  <2>1. wakeThreshold'[t] = BumpedThreshold(t) /\ wakeCount'[t] = Inc(c)
    BY <1>3 DEF Wake
  <2>2. Consider(x, c) \in Counter /\ Inc(c) \in Counter
    BY <1>1, ConsiderType, CounterType
  <2>3. Consider(x, Inc(c)) =
          IF Consider(x, c) = 0 THEN 2 * Half - 1 ELSE Consider(x, c) - 1
    BY <1>1, ConsiderInc
  <2>4. Consider(wakeThreshold'[t], wakeCount'[t]) =
          IF Consider(x, Inc(c)) = Half THEN Half + 1 ELSE Consider(x, Inc(c))
    <3>1. CASE Consider(x, Inc(c)) = Half
      <4>1. BumpedThreshold(t) = Inc(x)
        BY <3>1 DEF BumpedThreshold
      <4>2. Consider(Inc(x), Inc(c)) =
              IF Consider(x, Inc(c)) = 2 * Half - 1 THEN 0 ELSE Consider(x, Inc(c)) + 1
        BY <1>1, <2>2, ConsiderInc
      <4> QED BY <2>1, <3>1, <4>1, <4>2
    <3>2. CASE Consider(x, Inc(c)) # Half
      BY <2>1, <3>2 DEF BumpedThreshold
    <3> QED BY <3>1, <3>2
  <2>5. Consider(x, c) # Half
    BY DEF NotAtEdge
  <2> DEFINE old == Consider(x, c)
             new == Consider(wakeThreshold'[t], wakeCount'[t])
  <2>6. /\ old = 0 => new = 2 * Half - 1 \/ new = Half + 1
        /\ old # 0 => new = old - 1 \/ (old = Half + 1 /\ new = Half + 1)
        /\ new # Half
    <3> HIDE DEF x, c
    <3>1. 2 * Half - 1 # Half
      OBVIOUS
    <3> QED BY <2>2, <2>3, <2>4, <2>5, <3>1 DEF Counter
  <2>7. old \in 0 .. 2 * Half - 1
    BY <2>2 DEF Counter
  <2>8. (IsWoke(t) <=> old = 0 \/ old >= Half) /\ (IsWoke(t)' <=> new = 0 \/ new >= Half)
    BY DEF IsWoke, IsWokeAt
  <2>9. NotAtEdge(t)'
    BY <2>6 DEF NotAtEdge
  <2> HIDE DEF old, new
  <2>10. (old = 0 \/ old >= Half) => (new = 0 \/ new >= Half)
    BY <2>5, <2>6, <2>7 DEF old
  <2>11. ~(new = 0 \/ new >= Half) => new <= old
    BY <2>6, <2>7
  <2> QED BY <2>8, <2>9, <2>10, <2>11 DEF new, old
<1> QED BY <1>2, <1>3

-----------------------------------------------------------------------------
(* PendSV.                                                                 *)

\* Of the awake tasks it finds one of the highest priority.
LEMMA TaskToRunBest ==
  ASSUME NEW awake \in SUBSET Task, awake # {}, NEW cur \in 0 .. N
  PROVE  /\ TaskToRun(awake, cur) \in awake
         /\ \A u \in awake : Prio[u] <= Prio[TaskToRun(awake, cur)]
<1> USE PrioAssumption
<1> DEFINE best == {t \in awake : \A u \in awake : Prio[u] <= Prio[t]}
           short == {PrioMax - Prio[t] : t \in awake}
<1>1. best # {}
  <2>1. \A t \in awake : Prio[t] \in 0 .. PrioMax /\ PrioMax - Prio[t] \in Nat
    BY DEF PrioMax
  <2>2. short \subseteq Nat /\ short # {}
    BY <2>1
  <2>3. PICK x \in short : \A y \in short : x <= y
    <3> HIDE DEF short
    <3> QED BY <2>2, LeastExists
  <2>4. PICK t \in awake : x = PrioMax - Prio[t]
    BY <2>3
  <2>5. ASSUME NEW u \in awake PROVE Prio[u] <= Prio[t]
    <3>1. \A y \in awake : PrioMax - Prio[y] \in short
      OBVIOUS
    <3>2. PrioMax - Prio[t] <= PrioMax - Prio[u]
      BY <2>3, <2>4, <3>1
    <3>3. Prio[t] \in 0 .. PrioMax /\ Prio[u] \in 0 .. PrioMax /\ PrioMax \in Nat
      BY <2>1 DEF PrioMax
    <3> QED BY <3>2, <3>3
  <2> QED BY <2>5
<1>2. TaskToRun(awake, cur) \in best
  <2>1. CASE cur \in best
    BY <2>1 DEF TaskToRun
  <2>2. CASE cur \notin best
    <3>1. best \subseteq Nat
      <4>1. best \subseteq Task
        OBVIOUS
      <4>2. Task \subseteq Nat
        BY DEF Task
      <4> HIDE DEF best
      <4> QED BY <4>1, <4>2
    <3>2. \E t \in best : \A u \in best : t <= u
      <4> HIDE DEF best
      <4> QED BY <1>1, <3>1, LeastExists
    <3>3. TaskToRun(awake, cur) = CHOOSE t \in best : \A u \in best : t <= u
      BY <1>1, <2>2 DEF TaskToRun
    <3> HIDE DEF best
    <3> QED BY <3>2, <3>3
  <2> QED BY <2>1, <2>2
<1> QED BY <1>2

\* Where it leaves the current task it goes to one that every other awake
\* task comes behind: of lower priority, or of the same and later in the
\* table.
LEMMA TaskToRunPrefers ==
  ASSUME NEW awake \in SUBSET Task, NEW cur \in 0 .. N, TaskToRun(awake, cur) # cur,
         NEW u \in awake, u # TaskToRun(awake, cur)
  PROVE  \/ Prio[TaskToRun(awake, cur)] > Prio[u]
         \/ Prio[TaskToRun(awake, cur)] = Prio[u] /\ TaskToRun(awake, cur) < u
<1> DEFINE best == {t \in awake : \A v \in awake : Prio[v] <= Prio[t]}
           r    == TaskToRun(awake, cur)
<1>1. best # {} /\ cur \notin best
  BY DEF TaskToRun
<1>2. best \subseteq Nat /\ awake \subseteq Nat /\ best \subseteq awake
  <2>1. Task \subseteq Nat /\ best \subseteq awake
    BY DEF Task
  <2> HIDE DEF best
  <2> QED BY <2>1
<1>3. r = CHOOSE t \in best : \A v \in best : t <= v
  BY <1>1 DEF TaskToRun
<1>4. \E t \in best : \A v \in best : t <= v
  <2> HIDE DEF best, r
  <2> QED BY <1>1, <1>2, LeastExists
<1>5. r \in best /\ \A v \in best : r <= v
  <2> HIDE DEF best, r
  <2> QED BY <1>3, <1>4
<1>6. /\ \A v \in awake : Prio[v] \in Nat
      /\ \A v \in awake : Prio[v] <= Prio[r]
      /\ r \in awake
  BY <1>5, PrioAssumption
<1>7. CASE Prio[u] = Prio[r]
  <2>1. u \in best
    BY <1>6, <1>7
  <2>2. r <= u /\ r \in Nat /\ u \in Nat /\ u # r
    BY <1>2, <1>5, <2>1
  <2> QED BY <1>7, <2>2
<1>8. CASE Prio[u] # Prio[r]
  <2>1. Prio[u] <= Prio[r] /\ Prio[u] \in Nat /\ Prio[r] \in Nat
    BY <1>6
  <2> HIDE DEF r
  <2>2. Prio[r] > Prio[u]
    BY <1>8, <2>1
  <2> QED BY <2>2 DEF r
<1> QED BY <1>7, <1>8

\* After PendSV the running task is one of the best awake ones.
LEMMA PendSVBest ==
  ASSUME KernelTypeOK, PendSV, Awake' # {}
  PROVE  /\ curTask' \in Awake' /\ curTask' # 0
         /\ \A u \in Awake' : Prio[u] <= Prio[curTask']
<1> DEFINE awake == {t \in Task : IsWokeAt(wakeThreshold'[t], wakeCount'[t])}
<1>1. Awake' = awake
  BY DEF Awake, IsWoke
<1>2. curTask' = TaskToRun(awake, curTask) /\ curTask \in 0 .. N /\ awake \in SUBSET Task
  BY DEF PendSV, KernelTypeOK
<1> HIDE DEF awake
<1>3. curTask' \in awake /\ \A u \in awake : Prio[u] <= Prio[curTask']
  BY <1>1, <1>2, TaskToRunBest
<1>4. \A t \in Task : t # 0
  BY DEF Task
<1> QED BY <1>1, <1>2, <1>3, <1>4

-----------------------------------------------------------------------------
(* The loop of RTTaskToRun.  Scan is a recursive function: that there is   *)
(* one, and that what it is after i entries is the best of those, are      *)
(* shown by the least number of entries for which they would be false.     *)

\* One round of the loop.
Round(b, i, awake, cur) ==
  IF \/ Prio[i] < b.prio
     \/ cur # i /\ b.task # 0 /\ Prio[i] = b.prio
     \/ i \notin awake
    THEN b ELSE [task |-> i, prio |-> Prio[i]]

IsScan(f, n, awake, cur) ==
  f = [i \in 0 .. n |-> IF i = 0 THEN [task |-> 0, prio |-> 0]
                        ELSE Round(f[i - 1], i, awake, cur)]

LEMMA ScanExists ==
  ASSUME NEW awake, NEW cur
  PROVE  \A n \in Nat : \E f : IsScan(f, n, awake, cur)
<1> DEFINE T == {n \in Nat : ~\E f : IsScan(f, n, awake, cur)}
<1>1. SUFFICES ASSUME T # {} PROVE FALSE
  OBVIOUS
<1>2. PICK n \in T : \A m \in T : n <= m
  <2>1. T \subseteq Nat
    OBVIOUS
  <2> HIDE DEF T
  <2> QED BY <1>1, <2>1, LeastExists
<1>3. n \in Nat /\ ~\E f : IsScan(f, n, awake, cur)
  OBVIOUS
<1>4. CASE n = 0
  <2>1. \A i \in 0 .. 0 : i = 0
    OBVIOUS
  <2>2. IsScan([i \in 0 .. 0 |-> [task |-> 0, prio |-> 0]], 0, awake, cur)
    BY <2>1 DEF IsScan
  <2> QED BY <1>3, <1>4, <2>2
<1>5. CASE n # 0
  <2>1. n - 1 \in Nat /\ n - 1 \notin T
    <3>1. n - 1 \in Nat /\ ~(n <= n - 1)
      BY <1>3, <1>5
    <3> HIDE DEF T
    <3> QED BY <1>2, <3>1
  <2>2. PICK f : IsScan(f, n - 1, awake, cur)
    BY <2>1
  <2> DEFINE g == [i \in 0 .. n |-> IF i = n THEN Round(f[n - 1], n, awake, cur) ELSE f[i]]
  <2>3. ASSUME NEW i \in 0 .. n
        PROVE  g[i] = IF i = 0 THEN [task |-> 0, prio |-> 0]
                      ELSE Round(g[i - 1], i, awake, cur)
    <3>1. CASE i = n
      <4>1. n - 1 \in 0 .. n /\ n - 1 # n
        BY <1>3, <2>1
      <4>2. g[n - 1] = f[n - 1]
        BY <4>1
      <4>3. g[n] = Round(f[n - 1], n, awake, cur)
        BY <1>3
      <4> HIDE DEF g
      <4> QED BY <1>5, <3>1, <4>2, <4>3
    <3>2. CASE i # n
      <4>1. i \in 0 .. n - 1
        BY <1>3, <3>2
      <4>2. f[i] = IF i = 0 THEN [task |-> 0, prio |-> 0] ELSE Round(f[i - 1], i, awake, cur)
        BY <2>2, <4>1 DEF IsScan
      <4>3. g[i] = f[i]
        BY <3>2
      <4>4. i # 0 => g[i - 1] = f[i - 1]
        <5>1. i # 0 => i - 1 \in 0 .. n /\ i - 1 # n
          BY <1>3, <4>1
        <5> QED BY <5>1
      <4> HIDE DEF g
      <4> QED BY <4>2, <4>3, <4>4
    <3> QED BY <3>1, <3>2
  <2>4. g = [i \in 0 .. n |-> g[i]]
    OBVIOUS
  <2> HIDE DEF g
  <2>5. IsScan(g, n, awake, cur)
    BY <2>3, <2>4 DEF IsScan
  <2> QED BY <1>3, <2>5
<1> QED BY <1>4, <1>5

LEMMA ScanIs ==
  ASSUME NEW awake, NEW cur
  PROVE  IsScan(Scan(awake, cur), N, awake, cur)
<1>1. N \in Nat
  BY NAssumption
<1>2. \E f : IsScan(f, N, awake, cur)
  BY <1>1, ScanExists
<1>3. Scan(awake, cur) = CHOOSE f : IsScan(f, N, awake, cur)
  BY DEF Scan, IsScan, Round
<1> QED BY <1>2, <1>3

\* What the loop has found after the entries 1 .. i.
BestOf(b, i, awake, cur) ==
  LET seen == {u \in awake : u <= i}
  IN  \/ seen = {} /\ b = [task |-> 0, prio |-> 0]
      \/ /\ b.task \in seen /\ b.prio = Prio[b.task]
         /\ \A u \in seen : Prio[u] <= b.prio
         /\ \/ b.task = cur
            \/ \A u \in seen : Prio[u] = b.prio => u # cur /\ b.task <= u

LEMMA RoundBest ==
  ASSUME NEW awake \in SUBSET Task, NEW cur, NEW i \in Task, NEW b,
         BestOf(b, i - 1, awake, cur)
  PROVE  BestOf(Round(b, i, awake, cur), i, awake, cur)
<1> DEFINE old  == {u \in awake : u <= i - 1}
           seen == {u \in awake : u <= i}
           new  == [task |-> i, prio |-> Prio[i]]
<1>0. /\ i \in Nat /\ i # 0 /\ \A u \in awake : u \in Nat /\ u # 0 /\ Prio[u] \in Nat
      /\ Prio[i] \in Nat
  BY PrioAssumption DEF Task
<1>1. /\ \A u \in seen : u \in old \/ u = i
      /\ \A u \in old : u \in seen /\ u < i
      /\ i \in awake => i \in seen
      /\ seen \subseteq awake /\ old \subseteq awake
  BY <1>0
<1>2. \/ old = {} /\ b = [task |-> 0, prio |-> 0]
      \/ /\ b.task \in old /\ b.prio = Prio[b.task]
         /\ \A u \in old : Prio[u] <= b.prio
         /\ \/ b.task = cur
            \/ \A u \in old : Prio[u] = b.prio => u # cur /\ b.task <= u
  BY DEF BestOf
<1>3. SUFFICES LET r == Round(b, i, awake, cur)
               IN  \/ seen = {} /\ r = [task |-> 0, prio |-> 0]
                   \/ /\ r.task \in seen /\ r.prio = Prio[r.task]
                      /\ \A u \in seen : Prio[u] <= r.prio
                      /\ \/ r.task = cur
                         \/ \A u \in seen : Prio[u] = r.prio => u # cur /\ r.task <= u
  BY DEF BestOf
<1> HIDE DEF old, seen
<1>4. CASE i \notin awake
  <2>1. seen = old
    BY <1>1, <1>4
  <2>2. Round(b, i, awake, cur) = b
    BY <1>4 DEF Round
  <2> QED BY <1>2, <2>1, <2>2
<1>5. CASE i \in awake /\ (Prio[i] < b.prio \/ (cur # i /\ b.task # 0 /\ Prio[i] = b.prio))
  <2>1. Round(b, i, awake, cur) = b
    BY <1>5 DEF Round
  <2>2. b.task \in old
    <3>1. ~(b = [task |-> 0, prio |-> 0])
      BY <1>0, <1>5
    <3> QED BY <1>2, <3>1
  <2>3. /\ b.prio = Prio[b.task] /\ b.prio \in Nat /\ b.task \in seen /\ b.task < i
        /\ b.task \in Nat
    BY <1>0, <1>1, <1>2, <2>2
  <2>4. \A u \in seen : Prio[u] <= b.prio
    BY <1>0, <1>1, <1>2, <1>5, <2>2, <2>3
  <2>5. \/ b.task = cur
        \/ \A u \in seen : Prio[u] = b.prio => u # cur /\ b.task <= u
    <3>1. Prio[i] = b.prio => cur # i /\ b.task <= i
      BY <1>0, <1>5, <2>3
    <3> QED BY <1>1, <1>2, <2>2, <3>1
  <2> QED BY <2>1, <2>3, <2>4, <2>5
<1>6. CASE i \in awake /\ ~(Prio[i] < b.prio \/ (cur # i /\ b.task # 0 /\ Prio[i] = b.prio))
  <2>1. Round(b, i, awake, cur) = new
    BY <1>6 DEF Round
  <2>2. new.task = i /\ new.prio = Prio[i] /\ i \in seen
    BY <1>1, <1>6
  <2>3. CASE old = {} /\ b = [task |-> 0, prio |-> 0]
    <3>1. \A u \in seen : u = i
      BY <1>1, <2>3
    <3>2. i <= i /\ Prio[i] <= Prio[i]
      BY <1>0
    <3> QED BY <2>1, <2>2, <3>1, <3>2
  <2>4. CASE b.task \in old /\ b.prio = Prio[b.task] /\ \A u \in old : Prio[u] <= b.prio
    <3>1. b.prio \in Nat /\ b.task # 0 /\ ~(Prio[i] < b.prio)
      BY <1>0, <1>1, <1>6, <2>4
    <3>2. \A u \in seen : Prio[u] <= Prio[i]
      <4>1. \A u \in old : Prio[u] <= Prio[i]
        BY <1>0, <1>1, <2>4, <3>1
      <4> QED BY <1>0, <1>1, <4>1
    <3>3. CASE i = cur
      BY <2>1, <2>2, <3>2, <3>3
    <3>4. CASE i # cur
      <4>1. b.prio < Prio[i]
        BY <1>0, <1>6, <3>1, <3>4
      <4>2. \A u \in old : Prio[u] # Prio[i]
        BY <1>0, <1>1, <2>4, <3>1, <4>1
      <4>3. \A u \in seen : Prio[u] = Prio[i] => u # cur /\ i <= u
        BY <1>0, <1>1, <3>4, <4>2
      <4> QED BY <2>1, <2>2, <3>2, <4>3
    <3> QED BY <3>3, <3>4
  <2> QED BY <1>2, <2>3, <2>4
<1> QED BY <1>4, <1>5, <1>6

LEMMA ScanBest ==
  ASSUME NEW awake \in SUBSET Task, NEW cur
  PROVE  \A i \in 0 .. N : BestOf(Scan(awake, cur)[i], i, awake, cur)
<1> DEFINE T == {i \in 0 .. N : ~BestOf(Scan(awake, cur)[i], i, awake, cur)}
<1>0. N \in Nat
  BY NAssumption
<1>1. SUFFICES ASSUME T # {} PROVE FALSE
  OBVIOUS
<1>2. PICK n \in T : \A m \in T : n <= m
  <2>1. T \subseteq Nat
    BY <1>0
  <2> HIDE DEF T
  <2> QED BY <1>1, <2>1, LeastExists
<1>3. /\ Scan(awake, cur)[n] = IF n = 0 THEN [task |-> 0, prio |-> 0]
                               ELSE Round(Scan(awake, cur)[n - 1], n, awake, cur)
      /\ n \in 0 .. N
  <2>1. n \in 0 .. N
    OBVIOUS
  <2> QED BY <2>1, ScanIs DEF IsScan
<1>4. CASE n = 0
  <2>1. {u \in awake : u <= 0} = {}
    <3>1. \A u \in Task : ~(u <= 0)
      BY DEF Task
    <3> QED BY <3>1
  <2>2. BestOf(Scan(awake, cur)[n], n, awake, cur)
    BY <1>3, <1>4, <2>1 DEF BestOf
  <2> QED BY <2>2
<1>5. CASE n # 0
  <2>1. n \in Task /\ n - 1 \in 0 .. N /\ ~(n <= n - 1)
    BY <1>0, <1>3, <1>5 DEF Task
  <2>2. BestOf(Scan(awake, cur)[n - 1], n - 1, awake, cur)
    <3>1. n - 1 \notin T
      <4> HIDE DEF T
      <4> QED BY <1>2, <2>1
    <3> QED BY <2>1, <3>1
  <2>3. BestOf(Scan(awake, cur)[n], n, awake, cur)
    BY <1>3, <1>5, <2>1, <2>2, RoundBest
  <2> QED BY <2>3
<1> QED BY <1>4, <1>5

\* LoopFindsBest for every table and every set of awake tasks: the loop of
\* RTTaskToRun, in one pass, finds the task that TaskToRun describes.
THEOREM LoopIsBest ==
  ASSUME NEW awake \in SUBSET Task, NEW cur
  PROVE  LoopToRun(awake, cur) = TaskToRun(awake, cur)
<1> DEFINE b    == Scan(awake, cur)[N]
           best == {t \in awake : \A u \in awake : Prio[u] <= Prio[t]}
           seen == {u \in awake : u <= N}
<1>0. N \in Nat /\ \A u \in awake : u \in Nat /\ u # 0 /\ u <= N
  BY NAssumption DEF Task
<1>1. seen = awake
  BY <1>0
<1>2. N \in 0 .. N
  BY <1>0
<1>3. \/ awake = {} /\ b = [task |-> 0, prio |-> 0]
      \/ /\ b.task \in awake /\ b.prio = Prio[b.task]
         /\ \A u \in awake : Prio[u] <= b.prio
         /\ \/ b.task = cur
            \/ \A u \in awake : Prio[u] = b.prio => u # cur /\ b.task <= u
  <2>1. BestOf(b, N, awake, cur)
    BY <1>2, ScanBest
  <2> HIDE DEF b
  <2> QED BY <1>1, <2>1 DEF BestOf
<1>4. LoopToRun(awake, cur) = IF b.task = 0 THEN cur ELSE b.task
  BY DEF LoopToRun
<1>5. TaskToRun(awake, cur) = IF best = {} \/ cur \in best THEN cur
                              ELSE CHOOSE t \in best : \A u \in best : t <= u
  BY DEF TaskToRun
<1> HIDE DEF b, seen
<1>6. CASE awake = {} /\ b = [task |-> 0, prio |-> 0]
  BY <1>4, <1>5, <1>6
<1>7. CASE /\ b.task \in awake /\ b.prio = Prio[b.task]
           /\ \A u \in awake : Prio[u] <= b.prio
           /\ \/ b.task = cur
              \/ \A u \in awake : Prio[u] = b.prio => u # cur /\ b.task <= u
  <2>1. b.task \in best /\ LoopToRun(awake, cur) = b.task
    BY <1>0, <1>4, <1>7
  <2>2. CASE b.task = cur
    BY <1>5, <2>1, <2>2
  <2>3. CASE b.task # cur
    <3>1. \A u \in best : u \in awake /\ Prio[u] = b.prio
      <4>1. ASSUME NEW u \in best PROVE u \in awake /\ Prio[u] = b.prio
        <5>1. Prio[u] <= b.prio /\ b.prio <= Prio[u]
          BY <1>7
        <5>2. Prio[u] \in Nat /\ b.prio \in Nat
          BY <1>7, PrioAssumption
        <5> QED BY <5>1, <5>2
      <4> QED BY <4>1
    <3>2. cur \notin best /\ \A u \in best : b.task <= u /\ u \in Nat
      BY <1>0, <1>7, <2>3, <3>1
    <3> HIDE DEF best
    <3>3. \A t \in best : (\A u \in best : t <= u) => t = b.task
      BY <2>1, <3>2
    <3>4. (CHOOSE t \in best : \A u \in best : t <= u) = b.task
      BY <2>1, <3>2, <3>3
    <3> QED BY <1>5, <2>1, <3>2, <3>4
  <2> QED BY <2>2, <2>3
<1> QED BY <1>3, <1>6, <1>7

THEOREM LoopBest == LoopFindsBest
<1>1. Awake \in SUBSET Task
  BY DEF Awake
<1> QED BY <1>1, LoopIsBest DEF LoopFindsBest
=============================================================================
