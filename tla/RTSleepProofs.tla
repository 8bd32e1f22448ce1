---------------------------- MODULE RTSleepProofs ----------------------------
(***************************************************************************)
(* Safety of sleeping for any number of tasks, priorities, sleeps and      *)
(* widths of the wake counters and of the tick counter.                    *)
(***************************************************************************)
EXTENDS RTSleep, RTaskProofs

\* Between a task's RTGetWakeCount and its RTWait come no more wakes than a
\* signed wake counter tells from a sleep.
FewWakes == MaxBurst \in 0 .. Half

\* The ticks that a sleeper has still to wait for are those that its
\* completion is ahead of the clock.
ClockAhead ==
  \A t \in Client : pc[t] # "out" /\ left[t] > 0 => TicksTo(completion[t]) = left[t]

ClockInv == TypeOK /\ ClockAhead

USE NAssumption, HalfAssumption, TickAssumption, SleepsAssumption

-----------------------------------------------------------------------------
(* Arithmetic of counters that wrap.                                       *)

LEMMA ModSum ==
  ASSUME NEW m \in Nat \ {0}, NEW a \in 0 .. 2 * m - 1
  PROVE  a % m = IF a < m THEN a ELSE a - m
<1> DEFINE q == a \div m
           r == a % m
<1>1. q \in Int /\ r \in 0 .. m - 1 /\ a = m * q + r
  OBVIOUS
<1> HIDE DEF q, r
<1>2. q >= 0
  <2>1. ASSUME q <= -1 PROVE FALSE
    <3>1. m * q <= m * (-1)
      BY <1>1, <2>1
    <3> QED BY <1>1, <3>1
  <2> QED BY <1>1, <2>1
<1>3. q <= 1
  <2>1. ASSUME q >= 2 PROVE FALSE
    <3>1. m * q >= m * 2
      BY <1>1, <2>1
    <3> QED BY <1>1, <3>1
  <2> QED BY <1>1, <2>1
<1>4. q = 0 \/ q = 1
  BY <1>1, <1>2, <1>3
<1>5. CASE q = 0
  BY <1>1, <1>5 DEF r
<1>6. CASE q = 1
  BY <1>1, <1>6 DEF r
<1> QED BY <1>4, <1>5, <1>6

LEMMA TicksToIs ==
  ASSUME NEW x \in Ticks, NEW s \in Ticks
  PROVE  (x + 2 * TickHalf - s) % (2 * TickHalf) =
           IF x < s THEN x + 2 * TickHalf - s ELSE x - s
<1> DEFINE m == 2 * TickHalf
<1>1. m \in Nat \ {0} /\ x \in 0 .. m - 1 /\ s \in 0 .. m - 1
  BY DEF Ticks
<1> HIDE DEF m
<1>2. x + m - s \in 0 .. 2 * m - 1
  BY <1>1
<1>3. (x + m - s) % m = IF x + m - s < m THEN x + m - s ELSE (x + m - s) - m
  BY <1>1, <1>2, ModSum
<1>4. (x + m - s) % m = IF x < s THEN x + m - s ELSE x - s
  BY <1>1, <1>3
<1> QED BY <1>4 DEF m

LEMMA TickSum ==
  ASSUME NEW x \in Ticks, NEW n \in 0 .. TickHalf
  PROVE  (x + n) % (2 * TickHalf) = IF x + n < 2 * TickHalf THEN x + n ELSE x + n - 2 * TickHalf
<1> DEFINE m == 2 * TickHalf
<1>1. m \in Nat \ {0} /\ x \in 0 .. m - 1 /\ n \in 0 .. m
  BY DEF Ticks
<1> HIDE DEF m
<1>2. x + n \in 0 .. 2 * m - 1
  BY <1>1
<1>3. \A a \in 0 .. 2 * m - 1 : a % m = IF a < m THEN a ELSE a - m
  BY <1>1, ModSum
<1>4. (x + n) % m = IF x + n < m THEN x + n ELSE x + n - m
  BY <1>1, <1>2, <1>3
<1> QED BY <1>4 DEF m

LEMMA CountSum ==
  ASSUME NEW x \in Counter, NEW n \in 0 .. MAX_SLEEP_CHUNK
  PROVE  (x + n) % (2 * Half) = IF x + n < 2 * Half THEN x + n ELSE x + n - 2 * Half
<1> DEFINE m == 2 * Half
<1>1. m \in Nat \ {0} /\ x \in 0 .. m - 1 /\ n \in 0 .. m
  BY DEF Counter, MAX_SLEEP_CHUNK
<1> HIDE DEF m
<1>2. x + n \in 0 .. 2 * m - 1
  BY <1>1
<1>3. \A a \in 0 .. 2 * m - 1 : a % m = IF a < m THEN a ELSE a - m
  BY <1>1, ModSum
<1>4. (x + n) % m = IF x + n < m THEN x + n ELSE x + n - m
  BY <1>1, <1>2, <1>3
<1> QED BY <1>4 DEF m

\* RTSleep asks for a time that is n ticks ahead.
LEMMA CompletionAhead ==
  ASSUME NEW s \in Ticks, NEW n \in 1 .. TickHalf - 1
  PROVE  /\ (s + n) % (2 * TickHalf) \in Ticks
         /\ (((s + n) % (2 * TickHalf)) + 2 * TickHalf - s) % (2 * TickHalf) = n
<1> DEFINE x == (s + n) % (2 * TickHalf)
<1>1. x = IF s + n < 2 * TickHalf THEN s + n ELSE s + n - 2 * TickHalf
  BY TickSum
<1> HIDE DEF x
<1>2. x \in Ticks
  BY <1>1 DEF Ticks
<1>3. (x + 2 * TickHalf - s) % (2 * TickHalf) = IF x < s THEN x + 2 * TickHalf - s ELSE x - s
  BY <1>2, TicksToIs
<1>4. (x + 2 * TickHalf - s) % (2 * TickHalf) = n
  BY <1>1, <1>3 DEF Ticks
<1> QED BY <1>2, <1>4 DEF x

\* A tick brings the clock one step nearer to a time ahead.
LEMMA TickNearer ==
  ASSUME NEW s \in Ticks, NEW x \in Ticks, x # s
  PROVE  (x + 2 * TickHalf - ((s + 1) % (2 * TickHalf))) % (2 * TickHalf) =
           ((x + 2 * TickHalf - s) % (2 * TickHalf)) - 1
<1> DEFINE next == (s + 1) % (2 * TickHalf)
<1>1. 1 \in 0 .. TickHalf
  OBVIOUS
<1>2. next = IF s + 1 < 2 * TickHalf THEN s + 1 ELSE s + 1 - 2 * TickHalf
  BY <1>1, TickSum
<1> HIDE DEF next
<1>3. next \in Ticks
  BY <1>2 DEF Ticks
<1>4. (x + 2 * TickHalf - next) % (2 * TickHalf) =
        IF x < next THEN x + 2 * TickHalf - next ELSE x - next
  BY <1>3, TicksToIs
<1>5. (x + 2 * TickHalf - s) % (2 * TickHalf) = IF x < s THEN x + 2 * TickHalf - s ELSE x - s
  BY TicksToIs
<1>6. (x + 2 * TickHalf - next) % (2 * TickHalf) = ((x + 2 * TickHalf - s) % (2 * TickHalf)) - 1
  BY <1>2, <1>4, <1>5 DEF Ticks
<1> QED BY <1>6 DEF next

-----------------------------------------------------------------------------
(* Types and the clock.                                                    *)

LEMMA InitClock == Init => ClockInv
<1> SUFFICES ASSUME Init PROVE ClockInv
  OBVIOUS
<1>1. 0 \in Counter /\ 0 \in 0 .. N /\ None \in 0 .. None
  BY DEF Counter, None
<1>2. KernelTypeOK
  BY <1>1 DEF Init, KernelInit, KernelTypeOK
<1>3. 0 \in Ticks /\ 2 * TickHalf - 1 \in Ticks /\ 0 \in 0 .. MAX_SLEEP_CHUNK /\ 0 \in 0 .. TickHalf - 1
  BY DEF Ticks, MAX_SLEEP_CHUNK
<1>4. TypeOK
  BY <1>1, <1>2, <1>3 DEF Init, TypeOK
<1> QED BY <1>4 DEF Init, ClockInv, ClockAhead, Client

\* The kernel's part of a step: at most one of its operations.
LEMMA KernelStep ==
  ASSUME TypeOK, [Next]_vars
  PROVE  KernelTypeOK'
<1>1. KernelTypeOK
  BY DEF TypeOK
<1>2. CASE Tick
  BY <1>1, <1>2 DEF Tick, SystickHandler, KernelTypeOK
<1>3. CASE Switch
  BY <1>1, <1>3, PendSVType DEF Switch
<1>4. ASSUME NEW t \in Client, Interrupt(t) PROVE KernelTypeOK'
  BY <1>1, <1>4, IsrWakeType DEF Interrupt, Client
<1>5. CASE UNCHANGED kernel
  BY <1>1, <1>5 DEF kernel, KernelTypeOK
<1>6. ASSUME NEW t \in Client, NEW n \in Sleeps, SleepCall(t, n) PROVE KernelTypeOK'
  BY <1>5, <1>6 DEF SleepCall
<1>7. ASSUME NEW t \in Client, SleepStep(t) PROVE KernelTypeOK'
  <2>1. CASE CheckRemain(t)
    BY <1>5, <2>1 DEF CheckRemain
  <2>2. CASE Mark(t) \/ Unmark(t)
    BY <1>1, <2>2 DEF Mark, Unmark, Set, KernelTypeOK
  <2>3. CASE TakeCount(t)
    <3>1. 0 \in 0 .. None
      BY DEF None
    <3> QED BY <1>1, <2>3, <3>1 DEF TakeCount, GetWakeCount, KernelTypeOK
  <2>4. CASE Wait(t)
    <3>1. t \in Task /\ threshold[t] \in Counter
      BY DEF Client, TypeOK
    <3> QED BY <1>1, <2>4, <3>1, WaitForType DEF Wait
  <2>5. CASE ReschedAndSleep(t)
    BY <1>1, <2>5, ReschedType DEF ReschedAndSleep
  <2> QED BY <1>7, <2>1, <2>2, <2>3, <2>4, <2>5 DEF SleepStep
<1> QED BY <1>2, <1>3, <1>4, <1>5, <1>6, <1>7 DEF Next, vars

\* The rest: the clock, the tasks' program counters and locals.
LEMMA StepClock ==
  ASSUME ClockInv, [Next]_vars
  PROVE  ClockInv'
<1> USE DEF ClockInv
<1>0. KernelTypeOK'
  BY KernelStep
<1>1. CASE UNCHANGED <<systick_cnt, pc, locals, left>>
  BY <1>0, <1>1 DEF TypeOK, ClockAhead, TicksTo, locals
<1>2. ASSUME NEW t \in Client, NEW n \in Sleeps, SleepCall(t, n) PROVE ClockInv'
  <2>1. t \in Task /\ n \in 1 .. TickHalf - 1 /\ systick_cnt \in Ticks
    BY DEF Client, TypeOK
  <2>2. completion'[t] \in Ticks /\ (completion'[t] + 2 * TickHalf - systick_cnt) % (2 * TickHalf) = n
    <3>1. completion'[t] = (systick_cnt + n) % (2 * TickHalf)
      BY <1>2, <2>1 DEF SleepCall, Set, TypeOK
    <3> QED BY <2>1, <3>1, CompletionAhead
  <2>3. TypeOK'
    <3>1. completion' = [completion EXCEPT ![t] = completion'[t]]
      BY <1>2, <2>1 DEF SleepCall, Set, TypeOK
    <3> QED BY <1>0, <1>2, <2>1, <2>2, <3>1 DEF SleepCall, TypeOK, Goto, Set
  <2>4. ASSUME NEW u \in Client, pc'[u] # "out", left'[u] > 0
        PROVE  TicksTo(completion[u])' = left'[u]
    <3>1. CASE u = t
      BY <1>2, <2>1, <2>2, <3>1 DEF SleepCall, Set, TicksTo, TypeOK
    <3>2. CASE u # t
      BY <1>2, <2>4, <3>2 DEF SleepCall, Goto, Set, TicksTo, TypeOK, ClockAhead
    <3> QED BY <3>1, <3>2
  <2> QED BY <2>3, <2>4 DEF ClockAhead
<1>3. ASSUME NEW t \in Client, SleepStep(t) PROVE ClockInv'
  <2> t \in Task
    BY DEF Client
  <2>1. UNCHANGED <<systick_cnt, completion, left>> /\ pc[t] # "out"
    BY <1>3 DEF SleepStep, CheckRemain, Mark, TakeCount, Wait, ReschedAndSleep, Unmark, At, locals
  <2>2. \A u \in Task : pc'[u] # "out" => pc[u] # "out"
    BY <1>3, <2>1 DEF SleepStep, CheckRemain, Mark, TakeCount, Wait, ReschedAndSleep, Unmark,
                      Goto, TypeOK
  <2>3. pc' \in [Task -> {"out", "check", "mark", "count", "wait", "asleep", "unmark"}]
    BY <1>3 DEF SleepStep, CheckRemain, Mark, TakeCount, Wait, ReschedAndSleep, Unmark,
                Goto, TypeOK
  <2>4. remain' \in [Task -> 0 .. MAX_SLEEP_CHUNK]
    <3>1. CASE CheckRemain(t)
      <4>1. MAX_SLEEP_CHUNK \in 0 .. MAX_SLEEP_CHUNK /\ MAX_SLEEP_CHUNK \in Nat
        BY DEF MAX_SLEEP_CHUNK
      <4>2. \A d \in 1 .. TickHalf - 1 :
              (IF d > MAX_SLEEP_CHUNK THEN MAX_SLEEP_CHUNK ELSE d) \in 0 .. MAX_SLEEP_CHUNK
        BY <4>1
      <4> QED BY <3>1, <4>2 DEF CheckRemain, Set, TypeOK
    <3>2. CASE ~CheckRemain(t)
      BY <1>3, <3>2 DEF SleepStep, Mark, TakeCount, Wait, ReschedAndSleep, Unmark, locals, TypeOK
    <3> QED BY <3>1, <3>2
  <2>5. threshold' \in [Task -> Counter]
    <3>1. CASE TakeCount(t)
      <4>1. (wakeCount[t] + remain[t]) % (2 * Half) \in Counter
        <5>1. wakeCount[t] \in Counter /\ remain[t] \in 0 .. MAX_SLEEP_CHUNK
          BY DEF TypeOK, KernelTypeOK
        <5> QED BY <5>1, CountSum DEF Counter, MAX_SLEEP_CHUNK
      <4> QED BY <3>1, <4>1 DEF TakeCount, Set, TypeOK
    <3>2. CASE ~TakeCount(t)
      BY <1>3, <3>2 DEF SleepStep, CheckRemain, Mark, Wait, ReschedAndSleep, Unmark, locals, TypeOK
    <3> QED BY <3>1, <3>2
  <2> QED BY <1>0, <2>1, <2>2, <2>3, <2>4, <2>5 DEF TypeOK, ClockAhead, Client, TicksTo
<1>4. CASE Tick
  <2>1. /\ systick_cnt' = (systick_cnt + 1) % (2 * TickHalf)
        /\ left' = [t \in Task |-> IF left[t] > 0 THEN left[t] - 1 ELSE 0]
        /\ UNCHANGED <<pc, completion, remain, threshold>>
    BY <1>4 DEF Tick, locals
  <2>2. systick_cnt \in Ticks /\ systick_cnt' \in Ticks
    <3>1. systick_cnt \in Ticks /\ 1 \in 0 .. TickHalf
      BY DEF TypeOK
    <3> QED BY <2>1, <3>1, TickSum DEF Ticks
  <2>3. left' \in [Task -> 0 .. TickHalf - 1]
    BY <2>1 DEF TypeOK
  <2>4. ASSUME NEW t \in Client, pc'[t] # "out", left'[t] > 0
        PROVE  TicksTo(completion[t])' = left'[t]
    <3>1. t \in Task /\ completion[t] \in Ticks /\ left[t] \in 0 .. TickHalf - 1
      BY DEF Client, TypeOK
    <3>2. left[t] > 0 /\ left'[t] = left[t] - 1
      BY <2>1, <2>4, <3>1
    <3>3. (completion[t] + 2 * TickHalf - systick_cnt) % (2 * TickHalf) = left[t]
      BY <2>1, <2>4, <3>2 DEF ClockAhead, TicksTo
    <3>4. completion[t] # systick_cnt
      BY <2>2, <3>1, <3>2, <3>3, TicksToIs DEF Ticks
    <3>5. (completion[t] + 2 * TickHalf - systick_cnt') % (2 * TickHalf) = left[t] - 1
      BY <2>1, <2>2, <3>1, <3>3, <3>4, TickNearer
    <3> QED BY <2>1, <3>2, <3>5 DEF TicksTo
  <2> QED BY <1>0, <2>1, <2>2, <2>3, <2>4 DEF TypeOK, ClockAhead
<1>5. CASE Switch
  BY <1>1, <1>5 DEF Switch
<1>6. ASSUME NEW t \in Client, Interrupt(t) PROVE ClockInv'
  BY <1>1, <1>6 DEF Interrupt
<1>7. CASE UNCHANGED vars
  BY <1>1, <1>7 DEF vars
<1> QED BY <1>2, <1>3, <1>4, <1>5, <1>6, <1>7 DEF Next

\* The type invariant and the clock's.
THEOREM TypeCorrect == Spec => []TypeOK
<1>1. ClockInv => TypeOK
  BY DEF ClockInv
<1> QED BY <1>1, InitClock, StepClock, PTL DEF Spec

\* SleepsLongEnough: however the clock wraps and whoever wakes the sleeper,
\* RTSleep returns when all ticks have passed and not before.
THEOREM NoShortSleep == Spec => SleepsLongEnough
<1>1. ASSUME ClockInv, [Next]_vars, NEW t \in Client, pc[t] # "out", pc'[t] = "out"
      PROVE  left[t] = 0
  <2>0. t \in Task /\ left[t] \in 0 .. TickHalf - 1
    BY <1>1 DEF Client, ClockInv, TypeOK
  <2>1. CheckRemain(t)
    <3>1. ASSUME NEW u \in Client, SleepStep(u) PROVE CheckRemain(t)
      BY <1>1, <2>0, <3>1 DEF SleepStep, CheckRemain, Mark, TakeCount, Wait, ReschedAndSleep,
                              Unmark, Goto, ClockInv, TypeOK
    <3>2. ASSUME NEW u \in Client, NEW n \in Sleeps, SleepCall(u, n) PROVE FALSE
      BY <1>1, <2>0, <3>2 DEF SleepCall, Goto, ClockInv, TypeOK
    <3>3. UNCHANGED pc => FALSE
      BY <1>1
    <3> QED BY <1>1, <3>1, <3>2, <3>3 DEF Next, Tick, Switch, Interrupt, vars
  <2>2. TicksTo(completion[t]) \notin 1 .. TickHalf - 1
    BY <1>1, <2>0, <2>1 DEF CheckRemain, Goto, ClockInv, TypeOK
  <2>3. left[t] > 0 => TicksTo(completion[t]) = left[t]
    BY <1>1 DEF ClockInv, ClockAhead
  <2> QED BY <2>0, <2>2, <2>3
<1>2. ClockInv /\ [Next]_vars =>
        [\A t \in Client : pc[t] # "out" /\ pc'[t] = "out" => left[t] = 0]_vars
  BY <1>1
<1> QED BY <1>2, InitClock, StepClock, PTL DEF Spec, SleepsLongEnough

-----------------------------------------------------------------------------
(* Wakes.                                                                  *)

\* n - k, modulo 2 * Half.
Minus(n, k) == IF n >= k THEN n - k ELSE n - k + 2 * Half

Waiting == {"count", "wait", "asleep", "unmark"}

\* What is known of a task's wakes where it is in RTSleepUntil: only behind
\* its RTWait may it be asleep, and then no more wakes away than remain; and
\* what its RTWait will be called with has come nearer with every wake since
\* its RTGetWakeCount, the tick's that PendSV is still to give among them.
TaskWakes(t) ==
  /\ pc[t] \in Waiting => ticksCreateWakes[t]
  /\ pc[t] \in Waiting \cup {"mark"} => remain[t] \in 1 .. MAX_SLEEP_CHUNK
  /\ ~IsWoke(t) => /\ pc[t] \in {"asleep", "unmark"}
                   /\ Consider(wakeThreshold[t], wakeCount[t]) <= remain[t]
  /\ pc[t] = "wait" <=> burst[t] # None
  /\ pc[t] = "wait" =>
       /\ burst[t] + (IF ticking THEN 1 ELSE 0) \in 0 .. MaxBurst
       /\ Consider(threshold[t], wakeCount[t]) = Minus(remain[t], burst[t])

WakesInv ==
  /\ \A t \in Task : NotAtEdge(t)
  /\ ticking => pendSV
  /\ IsWoke(Idle) /\ ~ticksCreateWakes[Idle]
  /\ \A t \in Client : TaskWakes(t)

SleepInv == TypeOK /\ WakesInv /\ HighestAwakeRuns

LEMMA InitSleep == FewWakes /\ Init => SleepInv
<1> SUFFICES ASSUME FewWakes, Init PROVE SleepInv
  OBVIOUS
<1>1. TypeOK
  BY InitClock DEF ClockInv
<1>2. \A t \in Task : Consider(wakeThreshold[t], wakeCount[t]) = 0
  BY DEF Init, KernelInit, Consider
<1>3. \A t \in Task : NotAtEdge(t) /\ IsWoke(t)
  BY <1>2 DEF NotAtEdge, IsWoke, IsWokeAt
<1>4. HighestAwakeRuns
  BY DEF Init, KernelInit, HighestAwakeRuns
<1> QED BY <1>1, <1>3, <1>4 DEF SleepInv, WakesInv, TaskWakes, Init, KernelInit, Client, Waiting

-----------------------------------------------------------------------------
(* Steps that change no counter.                                           *)

LEMMA SameCounters ==
  ASSUME UNCHANGED <<wakeCount, wakeThreshold>>
  PROVE  \A t \in Task : /\ NotAtEdge(t)' <=> NotAtEdge(t)
                         /\ IsWoke(t)' <=> IsWoke(t)
BY DEF NotAtEdge, IsWoke

LEMMA QuietBest ==
  ASSUME HighestAwakeRuns, UNCHANGED <<wakeCount, wakeThreshold, curTask>>,
         pendSV' \/ ~pendSV, pc'[curTask] = "asleep" \/ pc[curTask] # "asleep"
  PROVE  HighestAwakeRuns'
<1>1. Awake' = Awake
  BY DEF Awake, IsWoke
<1> QED BY <1>1 DEF HighestAwakeRuns

\* A task that runs is awake, except right behind its RTWait.
LEMMA RunnerAwake ==
  ASSUME SleepInv, NEW t \in Client, Runs(t), pc[t] # "asleep"
  PROVE  IsWoke(t)
BY DEF SleepInv, HighestAwakeRuns, Runs, Awake, Client, Task

LEMMA LocalStep ==
  ASSUME FewWakes, SleepInv, TypeOK', NEW t \in Client,
         \/ CheckRemain(t) \/ Mark(t) \/ Unmark(t) \/ ReschedAndSleep(t)
         \/ \E n \in Sleeps : SleepCall(t, n)
  PROVE  SleepInv'
<1> DEFINE Stp == \/ CheckRemain(t) \/ Mark(t) \/ Unmark(t) \/ ReschedAndSleep(t)
                  \/ \E n \in Sleeps : SleepCall(t, n)
<1>0. Stp /\ t \in Task /\ t # Idle
  BY DEF Client
<1>1. /\ UNCHANGED <<wakeCount, wakeThreshold, curTask, ticking, burst, threshold>>
      /\ \A u \in Task \ {t} : ticksCreateWakes'[u] = ticksCreateWakes[u]
                                 /\ pc'[u] = pc[u] /\ remain'[u] = remain[u]
      /\ Runs(t) /\ pendSV' \in BOOLEAN /\ (pendSV => pendSV')
      /\ pc[t] # "wait" /\ pc'[t] # "wait" /\ pc'[t] # "asleep"
  BY <1>0 DEF CheckRemain, Mark, Unmark, ReschedAndSleep, SleepCall, Resched, kernel, locals,
              At, Goto, Set, SleepInv, TypeOK, KernelTypeOK, Runs
<1>2. ~pendSV /\ curTask = t /\ ~ticking
  BY <1>1 DEF Runs, SleepInv, WakesInv
<1>3. \A u \in Task : (NotAtEdge(u)' <=> NotAtEdge(u)) /\ (IsWoke(u)' <=> IsWoke(u))
  BY <1>1, SameCounters
<1>4. HighestAwakeRuns'
  <2>1. CASE pc[t] = "asleep"
    <3>1. ReschedAndSleep(t)
      BY <1>0, <2>1 DEF CheckRemain, Mark, Unmark, SleepCall, At
    <3> QED BY <3>1 DEF ReschedAndSleep, Resched, HighestAwakeRuns
  <2>2. CASE pc[t] # "asleep"
    BY <1>1, <1>2, <2>2, QuietBest DEF SleepInv
  <2> QED BY <2>1, <2>2
<1>5. ASSUME NEW u \in Client, u # t PROVE TaskWakes(u)'
  <2>1. u \in Task /\ u \in Task \ {t}
    BY <1>5 DEF Client
  <2>2. ticksCreateWakes'[u] = ticksCreateWakes[u] /\ pc'[u] = pc[u] /\ remain'[u] = remain[u]
    BY <1>1, <2>1
  <2>3. IsWoke(u)' <=> IsWoke(u)
    BY <1>3, <2>1
  <2> QED BY <1>1, <2>2, <2>3 DEF SleepInv, WakesInv, TaskWakes
<1>6. /\ pc'[t] \in Waiting => ticksCreateWakes'[t]
      /\ pc'[t] \in Waiting \cup {"mark"} => remain'[t] \in 1 .. MAX_SLEEP_CHUNK
  <2>1. CASE CheckRemain(t)
    <3>1. MAX_SLEEP_CHUNK \in 1 .. MAX_SLEEP_CHUNK /\ MAX_SLEEP_CHUNK \in Nat
      BY DEF MAX_SLEEP_CHUNK
    <3>2. \A d \in 1 .. TickHalf - 1 :
            (IF d > MAX_SLEEP_CHUNK THEN MAX_SLEEP_CHUNK ELSE d) \in 1 .. MAX_SLEEP_CHUNK
      BY <3>1
    <3> QED BY <1>0, <2>1, <3>2 DEF CheckRemain, Goto, Set, SleepInv, TypeOK, Waiting
  <2>2. CASE Mark(t)
    BY <1>0, <2>2 DEF Mark, At, Goto, Set, SleepInv, TypeOK, KernelTypeOK, WakesInv, TaskWakes, Waiting, locals
  <2>3. CASE Unmark(t) \/ \E n \in Sleeps : SleepCall(t, n)
    BY <1>0, <2>3 DEF Unmark, SleepCall, Goto, SleepInv, TypeOK, Waiting
  <2>4. CASE ReschedAndSleep(t)
    BY <1>0, <2>4 DEF ReschedAndSleep, Resched, At, Goto, locals, SleepInv, TypeOK, WakesInv, TaskWakes, Waiting
  <2> QED BY <1>0, <2>1, <2>2, <2>3, <2>4
<1>7. ~IsWoke(t)' => /\ pc'[t] \in {"asleep", "unmark"}
                     /\ Consider(wakeThreshold'[t], wakeCount'[t]) <= remain'[t]
  <2>1. CASE pc[t] = "asleep"
    <3>1. ReschedAndSleep(t)
      BY <1>0, <2>1 DEF CheckRemain, Mark, Unmark, SleepCall, At
    <3> QED BY <1>0, <1>1, <1>3, <3>1 DEF ReschedAndSleep, Goto, locals, SleepInv, TypeOK, WakesInv, TaskWakes
  <2>2. CASE pc[t] # "asleep"
    BY <1>0, <1>1, <1>3, <2>2, RunnerAwake
  <2> QED BY <2>1, <2>2
<1>8. pc'[t] = "wait" <=> burst'[t] # None
  BY <1>1 DEF SleepInv, WakesInv, TaskWakes
<1>9. IsWoke(Idle)' /\ ~ticksCreateWakes'[Idle]
  BY <1>0, <1>1, <1>3 DEF SleepInv, WakesInv
<1>10. TaskWakes(t)'
  BY <1>1, <1>6, <1>7, <1>8 DEF TaskWakes
<1>11. WakesInv'
  BY <1>1, <1>2, <1>3, <1>5, <1>9, <1>10 DEF SleepInv, WakesInv
<1> QED BY <1>4, <1>11 DEF SleepInv

LEMMA CountStep ==
  ASSUME FewWakes, SleepInv, TypeOK', NEW t \in Client, TakeCount(t)
  PROVE  SleepInv'
<1>1. /\ UNCHANGED <<wakeCount, wakeThreshold, ticksCreateWakes, curTask, pendSV, ticking, remain>>
      /\ pc[t] = "count" /\ pc'[t] = "wait" /\ burst'[t] = 0
      /\ threshold'[t] = (wakeCount[t] + remain[t]) % (2 * Half)
      /\ \A u \in Task \ {t} : /\ pc'[u] = pc[u] /\ burst'[u] = burst[u]
                               /\ threshold'[u] = threshold[u]
      /\ Runs(t) /\ t \in Task
  BY DEF TakeCount, GetWakeCount, At, Goto, Set, Client, SleepInv, TypeOK, KernelTypeOK
<1>2. ~ticking
  BY <1>1 DEF Runs, SleepInv, WakesInv
<1>3. \A u \in Task : (NotAtEdge(u)' <=> NotAtEdge(u)) /\ (IsWoke(u)' <=> IsWoke(u))
  BY <1>1, SameCounters
<1>4. HighestAwakeRuns'
  BY <1>1, QuietBest DEF Runs, SleepInv
<1>5. ASSUME NEW u \in Client, u # t PROVE TaskWakes(u)'
  <2>1. u \in Task \ {t}
    BY <1>5 DEF Client
  <2> QED BY <1>1, <1>3, <2>1 DEF SleepInv, WakesInv, TaskWakes
<1>6. TaskWakes(t)'
  <2>1. remain[t] \in 1 .. MAX_SLEEP_CHUNK /\ ticksCreateWakes[t] /\ wakeCount[t] \in Counter
    BY <1>1 DEF SleepInv, WakesInv, TaskWakes, TypeOK, KernelTypeOK, Waiting
  <2>2. Consider(threshold'[t], wakeCount[t]) = Minus(remain[t], 0)
    <3>1. \A c \in Counter, n \in 1 .. Half - 1 :
            LET sum == IF c + n < 2 * Half THEN c + n ELSE c + n - 2 * Half
            IN  Consider(sum, c) = n /\ Minus(n, 0) = n
      BY DEF Consider, Minus, Counter
    <3>2. threshold'[t] = IF wakeCount[t] + remain[t] < 2 * Half THEN wakeCount[t] + remain[t]
                          ELSE wakeCount[t] + remain[t] - 2 * Half
      BY <1>1, <2>1, CountSum DEF MAX_SLEEP_CHUNK
    <3>3. remain[t] \in 1 .. Half - 1
      BY <2>1 DEF MAX_SLEEP_CHUNK
    <3> QED BY <2>1, <3>1, <3>2, <3>3
  <2>3. IsWoke(t)'
    BY <1>1, <1>3, RunnerAwake
  <2>4. 0 # None /\ 0 + 0 \in 0 .. MaxBurst
    BY DEF None, FewWakes
  <2> QED BY <1>1, <1>2, <2>1, <2>2, <2>3, <2>4 DEF TaskWakes
<1>7. IsWoke(Idle)' /\ ~ticksCreateWakes'[Idle]
  BY <1>1, <1>3 DEF SleepInv, WakesInv
<1>8. WakesInv'
  BY <1>1, <1>3, <1>5, <1>6, <1>7 DEF SleepInv, WakesInv
<1> QED BY <1>4, <1>8 DEF SleepInv

\* An RTWait that comes in time: what it waits for is not INT8_MIN wakes away.
LEMMA InTime ==
  ASSUME FewWakes, NEW n \in 1 .. MAX_SLEEP_CHUNK, NEW k \in 0 .. MaxBurst
  PROVE  /\ Minus(n, k) # Half
         /\ Minus(n, k) # 0 /\ ~(Minus(n, k) >= Half) => Minus(n, k) <= n
BY DEF FewWakes, Minus, MAX_SLEEP_CHUNK

LEMMA WaitStep ==
  ASSUME FewWakes, SleepInv, TypeOK', NEW t \in Client, Wait(t)
  PROVE  SleepInv'
<1>1. /\ UNCHANGED <<wakeCount, ticksCreateWakes, curTask, pendSV, ticking, remain, threshold>>
      /\ wakeThreshold'[t] = threshold[t] /\ burst'[t] = None
      /\ pc[t] = "wait"
      /\ pc'[t] = IF IsWokeAt(threshold[t], wakeCount[t]) THEN "unmark" ELSE "asleep"
      /\ \A u \in Task \ {t} : /\ pc'[u] = pc[u] /\ burst'[u] = burst[u]
                               /\ wakeThreshold'[u] = wakeThreshold[u]
      /\ Runs(t) /\ t \in Task /\ t # Idle
  BY DEF Wait, WaitFor, At, Goto, locals, Client, SleepInv, TypeOK, KernelTypeOK
<1>2. ~ticking /\ ~pendSV /\ curTask = t
  BY <1>1 DEF Runs, SleepInv, WakesInv
<1>3. \A u \in Task \ {t} : (NotAtEdge(u)' <=> NotAtEdge(u)) /\ (IsWoke(u)' <=> IsWoke(u))
  BY <1>1 DEF NotAtEdge, IsWoke
<1>4. /\ Consider(threshold[t], wakeCount[t]) = Minus(remain[t], burst[t])
      /\ remain[t] \in 1 .. MAX_SLEEP_CHUNK /\ burst[t] \in 0 .. MaxBurst /\ ticksCreateWakes[t]
  <2>1. /\ Consider(threshold[t], wakeCount[t]) = Minus(remain[t], burst[t])
        /\ remain[t] \in 1 .. MAX_SLEEP_CHUNK /\ ticksCreateWakes[t]
        /\ burst[t] + 0 \in 0 .. MaxBurst /\ burst[t] \in 0 .. None
    BY <1>1, <1>2 DEF SleepInv, WakesInv, TaskWakes, Waiting, TypeOK, KernelTypeOK
  <2>2. \A k \in 0 .. None : k + 0 \in 0 .. MaxBurst => k \in 0 .. MaxBurst
    BY DEF None
  <2> QED BY <2>1, <2>2
<1>5. IsWoke(t)' <=> IsWokeAt(threshold[t], wakeCount[t])
  BY <1>1 DEF IsWoke
<1>6. NotAtEdge(t)'
  BY <1>1, <1>4, InTime DEF NotAtEdge
<1>7. TaskWakes(t)'
  <2>1. ~IsWoke(t)' => pc'[t] = "asleep" /\ Consider(wakeThreshold'[t], wakeCount'[t]) <= remain'[t]
    BY <1>1, <1>4, <1>5, InTime DEF IsWokeAt
  <2> QED BY <1>1, <1>4, <2>1 DEF TaskWakes
<1>8. ASSUME NEW u \in Client, u # t PROVE TaskWakes(u)'
  <2>1. u \in Task \ {t}
    BY <1>8 DEF Client
  <2> QED BY <1>1, <1>3, <2>1 DEF SleepInv, WakesInv, TaskWakes
<1>9. HighestAwakeRuns'
  <2>1. CASE pc'[t] = "asleep"
    BY <1>1, <1>2, <2>1 DEF HighestAwakeRuns
  <2>2. CASE pc'[t] # "asleep"
    <3>1. IsWoke(t)' /\ IsWoke(t)
      BY <1>1, <1>5, <2>2, RunnerAwake
    <3>2. Awake' = Awake
      BY <1>3, <3>1 DEF Awake
    <3> QED BY <1>1, <1>2, <3>2 DEF SleepInv, HighestAwakeRuns
  <2> QED BY <2>1, <2>2
<1>10. IsWoke(Idle)' /\ ~ticksCreateWakes'[Idle]
  BY <1>1, <1>3 DEF SleepInv, WakesInv
<1>11. WakesInv'
  BY <1>1, <1>2, <1>3, <1>6, <1>7, <1>8, <1>10 DEF SleepInv, WakesInv
<1> QED BY <1>9, <1>11 DEF SleepInv

LEMMA TickStep ==
  ASSUME FewWakes, SleepInv, TypeOK', Tick
  PROVE  SleepInv'
<1>1. /\ UNCHANGED <<wakeCount, wakeThreshold, ticksCreateWakes, burst, pc, remain, threshold>>
      /\ ~ticking /\ pendSV' /\ ticking' /\ \A t \in Client : RoomForWakes(t)
  BY DEF Tick, SystickHandler, locals
<1>2. \A t \in Task : (NotAtEdge(t)' <=> NotAtEdge(t)) /\ (IsWoke(t)' <=> IsWoke(t))
  BY <1>1, SameCounters
<1>3. ASSUME NEW t \in Client PROVE TaskWakes(t)'
  <2>1. t \in Task /\ burst[t] \in 0 .. None
    BY DEF Client, SleepInv, TypeOK, KernelTypeOK
  <2>2. burst[t] # None => burst[t] + 1 \in 0 .. MaxBurst
    BY <1>1, <2>1 DEF RoomForWakes, FewWakes, None
  <2> QED BY <1>1, <1>2, <2>1, <2>2 DEF SleepInv, WakesInv, TaskWakes
<1>4. WakesInv'
  BY <1>1, <1>2, <1>3, NAssumption DEF SleepInv, WakesInv
<1> QED BY <1>1, <1>4 DEF SleepInv, HighestAwakeRuns

-----------------------------------------------------------------------------
(* Steps that wake.                                                        *)

\* Each wake brings the value of Minus one nearer, as it does Consider.
LEMMA MinusNext ==
  ASSUME NEW n \in 1 .. MAX_SLEEP_CHUNK, NEW k \in 0 .. Half
  PROVE  Minus(n, k + 1) = IF Minus(n, k) = 0 THEN 2 * Half - 1 ELSE Minus(n, k) - 1
BY DEF Minus, MAX_SLEEP_CHUNK

LEMMA WakeTask ==
  ASSUME FewWakes, SleepInv, NEW S, Wake(S), NEW t \in Client,
         UNCHANGED <<ticksCreateWakes, pc, remain, threshold>>, ticking' \in BOOLEAN,
         burst[t] # None /\ t \in S => burst[t] + 1 + (IF ticking' THEN 1 ELSE 0) \in 0 .. MaxBurst,
         ticking' => ticking
  PROVE  TaskWakes(t)'
<1>1. /\ t \in Task /\ NotAtEdge(t) /\ TaskWakes(t) /\ KernelTypeOK
      /\ wakeCount[t] \in Counter /\ threshold[t] \in Counter
      /\ burst[t] \in 0 .. None /\ ticking \in BOOLEAN /\ MaxBurst \in 0 .. Half
  BY DEF Client, SleepInv, WakesInv, TypeOK, KernelTypeOK, FewWakes
<1>2. /\ IsWoke(t) => IsWoke(t)'
      /\ ~IsWoke(t)' => Consider(wakeThreshold'[t], wakeCount'[t])
                          <= Consider(wakeThreshold[t], wakeCount[t])
  BY <1>1, WakeWakes
<1>3. ~IsWoke(t)' => /\ pc'[t] \in {"asleep", "unmark"}
                     /\ Consider(wakeThreshold'[t], wakeCount'[t]) <= remain'[t]
  <2>1. SUFFICES ASSUME ~IsWoke(t)'
                 PROVE  Consider(wakeThreshold'[t], wakeCount'[t]) <= remain[t]
                        /\ pc[t] \in {"asleep", "unmark"}
    OBVIOUS
  <2>2. /\ pc[t] \in {"asleep", "unmark"}
        /\ Consider(wakeThreshold[t], wakeCount[t]) <= remain[t]
    BY <1>1, <1>2, <2>1 DEF TaskWakes
  <2>3. /\ Consider(wakeThreshold[t], wakeCount[t]) \in Counter
        /\ Consider(wakeThreshold'[t], wakeCount'[t]) \in Counter
    <3>1. wakeThreshold' \in [Task -> Counter] /\ wakeCount' \in [Task -> Counter]
      BY <1>1, WakeType
    <3> QED BY <1>1, <3>1, ConsiderType DEF KernelTypeOK
  <2>4. remain[t] \in 0 .. MAX_SLEEP_CHUNK
    BY <1>1 DEF SleepInv, TypeOK
  <2>5. \A a, b \in Counter, r \in 0 .. MAX_SLEEP_CHUNK : a <= b /\ b <= r => a <= r
    BY DEF Counter, MAX_SLEEP_CHUNK
  <2> QED BY <1>2, <2>1, <2>2, <2>3, <2>4, <2>5
<1>4. CASE t \in S
  <2>1. wakeCount'[t] = Inc(wakeCount[t])
    BY <1>1, <1>4 DEF Wake
  <2>2. burst'[t] = IF burst[t] < None - 1 THEN burst[t] + 1 ELSE burst[t]
    BY <1>1, <1>4 DEF Wake
  <2>3. CASE burst[t] = None
    BY <1>1, <1>3, <2>2, <2>3 DEF None, TaskWakes
  <2>4. CASE burst[t] # None
    <3>1. pc[t] = "wait" /\ remain[t] \in 1 .. MAX_SLEEP_CHUNK
      BY <1>1, <2>4 DEF TaskWakes, Waiting
    <3>2. Consider(threshold[t], wakeCount[t]) = Minus(remain[t], burst[t])
      BY <1>1, <3>1 DEF TaskWakes
    <3>3. burst[t] \in 0 .. Half /\ burst[t] < None - 1
      <4>1. burst[t] + (IF ticking THEN 1 ELSE 0) \in 0 .. MaxBurst
        BY <1>1, <3>1 DEF TaskWakes
      <4> QED BY <1>1, <4>1 DEF None
    <3>4. burst'[t] = burst[t] + 1 /\ burst'[t] # None
      BY <2>2, <3>3 DEF None
    <3>5. Consider(threshold[t], Inc(wakeCount[t])) = Minus(remain[t], burst[t] + 1)
      BY <1>1, <3>1, <3>2, <3>3, ConsiderInc, MinusNext
    <3> QED BY <1>1, <1>3, <1>4, <2>1, <2>4, <3>1, <3>4, <3>5 DEF TaskWakes
  <2> QED BY <2>3, <2>4
<1>5. CASE t \notin S
  <2>1. wakeCount'[t] = wakeCount[t] /\ burst'[t] = burst[t]
    BY <1>1, <1>5 DEF Wake
  <2>2. pc[t] = "wait" => burst[t] + (IF ticking' THEN 1 ELSE 0) \in 0 .. MaxBurst
    <3>1. pc[t] = "wait" => burst[t] + (IF ticking THEN 1 ELSE 0) \in 0 .. MaxBurst
      BY <1>1 DEF TaskWakes
    <3> QED BY <1>1, <3>1
  <2> QED BY <1>1, <1>3, <2>1, <2>2 DEF TaskWakes
<1> QED BY <1>4, <1>5

LEMMA WakeStep ==
  ASSUME FewWakes, SleepInv, NEW S, Wake(S), ticking' => pendSV',
         UNCHANGED <<ticksCreateWakes, pc, remain, threshold>>, ticking' \in BOOLEAN,
         \A t \in Client :
           burst[t] # None /\ t \in S => burst[t] + 1 + (IF ticking' THEN 1 ELSE 0) \in 0 .. MaxBurst,
         ticking' => ticking
  PROVE  /\ WakesInv'
         /\ \A t \in Task : IsWoke(t) => IsWoke(t)'
<1>1. KernelTypeOK /\ \A t \in Task : NotAtEdge(t)
  BY DEF SleepInv, WakesInv, TypeOK
<1>2. \A t \in Task : NotAtEdge(t)' /\ (IsWoke(t) => IsWoke(t)')
  BY <1>1, WakeWakes
<1>3. \A t \in Client : TaskWakes(t)'
  BY WakeTask
<1>4. IsWoke(Idle)' /\ ~ticksCreateWakes'[Idle]
  BY <1>2, NAssumption DEF SleepInv, WakesInv
<1> QED BY <1>2, <1>3, <1>4 DEF WakesInv

LEMMA SwitchStep ==
  ASSUME FewWakes, SleepInv, TypeOK', Switch
  PROVE  SleepInv' /\ \A t \in Task : IsWoke(t) => IsWoke(t)'
<1> DEFINE ticked == {t \in Task : ticking /\ ticksCreateWakes[t]}
<1>1. /\ Wake(ticked) /\ ticking' = FALSE
      /\ UNCHANGED <<ticksCreateWakes, pc, remain, threshold>>
  BY DEF Switch, PendSV, locals
<1>2. ASSUME NEW t \in Client, burst[t] # None, t \in ticked
      PROVE  burst[t] + 1 + (IF ticking' THEN 1 ELSE 0) \in 0 .. MaxBurst
  <2>1. burst[t] + (IF ticking THEN 1 ELSE 0) \in 0 .. MaxBurst /\ ticking
    BY <1>2 DEF SleepInv, WakesInv, TaskWakes
  <2>2. burst[t] \in 0 .. None
    BY DEF SleepInv, TypeOK, KernelTypeOK, Client
  <2> QED BY <1>1, <2>1, <2>2 DEF None
<1> HIDE DEF ticked
<1>3. WakesInv' /\ \A t \in Task : IsWoke(t) => IsWoke(t)'
  BY <1>1, <1>2, WakeStep
<1>4. Awake' # {}
  BY <1>3, NAssumption DEF Awake, WakesInv
<1>5. HighestAwakeRuns'
  BY <1>4, PendSVBest DEF Switch, SleepInv, TypeOK, HighestAwakeRuns
<1> QED BY <1>3, <1>5 DEF SleepInv

LEMMA InterruptStep ==
  ASSUME FewWakes, SleepInv, TypeOK', NEW t \in Client, Interrupt(t)
  PROVE  SleepInv' /\ \A u \in Task : IsWoke(u) => IsWoke(u)'
<1>1. /\ Wake({t}) /\ UNCHANGED <<ticksCreateWakes, pc, remain, threshold, curTask, ticking>>
      /\ pendSV' \/ (~WakeTells(t) /\ UNCHANGED pendSV)
      /\ RoomForWakes(t) /\ t \in Task
  <2>1. Wake({t}) /\ UNCHANGED <<ticksCreateWakes, pc, remain, threshold, curTask, ticking>>
    BY DEF Interrupt, IsrWake, locals
  <2>2. pendSV' \/ (~WakeTells(t) /\ UNCHANGED pendSV)
    <3>1. pendSV' = TRUE \/ (~WakeTells(t) /\ UNCHANGED pendSV)
      BY DEF Interrupt, IsrWake
    <3> QED BY <3>1
  <2> QED BY <2>1, <2>2 DEF Interrupt, Client
<1>2. ASSUME NEW u \in Client, burst[u] # None, u \in {t}
      PROVE  burst[u] + 1 + (IF ticking' THEN 1 ELSE 0) \in 0 .. MaxBurst
  <2>1. burst[t] \in 0 .. None /\ ticking \in BOOLEAN /\ u = t
    BY <1>1, <1>2 DEF SleepInv, TypeOK, KernelTypeOK
  <2>2. burst[t] + (IF ticking THEN 1 ELSE 0) < MaxBurst
    BY <1>1, <1>2, <2>1 DEF RoomForWakes
  <2>3. MaxBurst \in 0 .. Half
    BY DEF FewWakes
  <2> QED BY <1>1, <2>1, <2>2, <2>3 DEF None
<1>3. ticking' \in BOOLEAN /\ (ticking' => ticking) /\ (ticking' => pendSV')
  BY <1>1 DEF SleepInv, WakesInv, TypeOK, KernelTypeOK
<1>4. WakesInv' /\ \A u \in Task : IsWoke(u) => IsWoke(u)'
  BY <1>1, <1>2, <1>3, WakeStep
<1>5. ASSUME curTask' # 0, ~pendSV', pc'[curTask'] # "asleep"
      PROVE  curTask' \in Awake' /\ \A u \in Awake' : Prio[u] <= Prio[curTask']
  <2>1. curTask \in Awake /\ (\A u \in Awake : Prio[u] <= Prio[curTask]) /\ ~WakeTells(t)
    BY <1>1, <1>5 DEF SleepInv, HighestAwakeRuns
  <2>2. ASSUME NEW u \in Awake' PROVE Prio[u] <= Prio[curTask]
    <3>1. CASE u # t
      <4>1. u \in Task /\ wakeCount'[u] = wakeCount[u] /\ wakeThreshold'[u] = wakeThreshold[u]
        BY <1>1, <2>2, <3>1 DEF Wake, Awake
      <4> QED BY <2>1, <2>2, <4>1 DEF Awake, IsWoke
    <3>2. CASE u = t
      <4>1. IsWokeAt(BumpedThreshold(t), Inc(wakeCount[t]))
        BY <1>1, <2>2, <3>2 DEF Wake, Awake, IsWoke
      <4>2. ~(Prio[t] > Prio[curTask])
        BY <1>1, <1>5, <2>1, <4>1 DEF WakeTells
      <4>3. Prio[t] \in 0 .. PrioMax /\ Prio[curTask] \in 0 .. PrioMax
        BY <1>1, <2>1, PrioAssumption DEF Awake
      <4>4. \A a, b \in 0 .. PrioMax : ~(a > b) => a <= b
        BY DEF PrioMax
      <4> QED BY <3>2, <4>2, <4>3, <4>4
    <3> QED BY <3>1, <3>2
  <2> QED BY <1>1, <1>4, <2>1, <2>2 DEF Awake
<1>6. HighestAwakeRuns'
  BY <1>5 DEF HighestAwakeRuns
<1> QED BY <1>4, <1>6 DEF SleepInv

-----------------------------------------------------------------------------
(* The theorems.                                                           *)

LEMMA SleepInvStep ==
  ASSUME FewWakes, SleepInv, ClockInv, [Next]_vars
  PROVE  SleepInv'
<1>0. TypeOK'
  BY StepClock DEF ClockInv
<1>1. CASE Tick
  BY <1>0, <1>1, TickStep
<1>2. CASE Switch
  BY <1>0, <1>2, SwitchStep
<1>3. ASSUME NEW t \in Client, Interrupt(t) PROVE SleepInv'
  BY <1>0, <1>3, InterruptStep
<1>4. ASSUME NEW t \in Client, SleepStep(t) \/ \E n \in Sleeps : SleepCall(t, n) PROVE SleepInv'
  BY <1>0, <1>4, LocalStep, CountStep, WaitStep DEF SleepStep
<1>5. CASE UNCHANGED vars
  BY <1>0, <1>5 DEF vars, kernel, locals, SleepInv, WakesInv, TaskWakes, NotAtEdge, IsWoke,
                    HighestAwakeRuns, Awake
<1> QED BY <1>1, <1>2, <1>3, <1>4, <1>5 DEF Next

\* SleeperIsTicked: RTSleepUntil never waits without ticks that wake it, nor
\* for more of them than it reckoned.
THEOREM SleepersAreTicked ==
  ASSUME FewWakes
  PROVE  Spec => []SleeperIsTicked
<1>1. Init => ClockInv /\ SleepInv
  BY InitClock, InitSleep
<1>2. (ClockInv /\ SleepInv) /\ [Next]_vars => (ClockInv /\ SleepInv)'
  BY StepClock, SleepInvStep
<1>3. SleepInv => SleeperIsTicked
  BY DEF SleepInv, WakesInv, TaskWakes, SleeperIsTicked, Waiting
<1> QED BY <1>1, <1>2, <1>3, PTL DEF Spec

\* HighestAwakeRuns: what runs between two switches is awake, and nothing
\* awake is before it.
THEOREM BestRuns ==
  ASSUME FewWakes
  PROVE  Spec => []HighestAwakeRuns
<1>1. Init => ClockInv /\ SleepInv
  BY InitClock, InitSleep
<1>2. (ClockInv /\ SleepInv) /\ [Next]_vars => (ClockInv /\ SleepInv)'
  BY StepClock, SleepInvStep
<1>3. SleepInv => HighestAwakeRuns
  BY DEF SleepInv
<1> QED BY <1>1, <1>2, <1>3, PTL DEF Spec

\* AwakeStaysAwake: no number of wakes puts a task to sleep.
THEOREM WakesNeverLost ==
  ASSUME FewWakes
  PROVE  Spec => AwakeStaysAwake
<1>1. Init => ClockInv /\ SleepInv
  BY InitClock, InitSleep
<1>2. (ClockInv /\ SleepInv) /\ [Next]_vars => (ClockInv /\ SleepInv)'
  BY StepClock, SleepInvStep
<1>3. ASSUME ClockInv /\ SleepInv, [Next]_vars, NEW t \in Client, IsWoke(t), ~IsWoke(t)'
      PROVE  pc[t] = "wait" /\ pc'[t] # "wait"
  <2>0. t \in Task
    BY DEF Client
  <2>1. ASSUME NEW u \in Client, Wait(u) PROVE pc[t] = "wait" /\ pc'[t] # "wait"
    <3>1. u = t
      BY <1>3, <2>0, <2>1 DEF Wait, WaitFor, IsWoke, SleepInv, TypeOK, KernelTypeOK
    <3> QED BY <1>3, <2>0, <2>1, <3>1 DEF Wait, At, Goto, SleepInv, TypeOK
  <2>2. UNCHANGED <<wakeCount, wakeThreshold>> => FALSE
    BY <1>3 DEF IsWoke
  <2>3. TypeOK'
    BY <1>3, StepClock DEF ClockInv
  <2>4. Switch => FALSE
    BY <1>3, <2>0, <2>3, SwitchStep
  <2>5. ASSUME NEW u \in Client, Interrupt(u) PROVE FALSE
    BY <1>3, <2>0, <2>3, <2>5, InterruptStep
  <2>6. ASSUME NEW u \in Client, SleepStep(u) PROVE pc[t] = "wait" /\ pc'[t] # "wait"
    BY <2>1, <2>2, <2>6 DEF SleepStep, CheckRemain, Mark, TakeCount, GetWakeCount, ReschedAndSleep,
                            Resched, Unmark, kernel
  <2>7. ASSUME NEW u \in Client, NEW n \in Sleeps, SleepCall(u, n) PROVE FALSE
    BY <2>2, <2>7 DEF SleepCall, kernel
  <2>8. Tick => FALSE
    BY <2>2 DEF Tick, SystickHandler
  <2>9. UNCHANGED vars => FALSE
    BY <2>2 DEF vars, kernel
  <2> QED BY <1>3, <2>4, <2>5, <2>6, <2>7, <2>8, <2>9 DEF Next
<1>4. (ClockInv /\ SleepInv) /\ [Next]_vars =>
        [\A t \in Client : IsWoke(t) /\ ~IsWoke(t)' => pc[t] = "wait" /\ pc'[t] # "wait"]_vars
  BY <1>3
<1> QED BY <1>1, <1>2, <1>4, PTL DEF Spec, AwakeStaysAwake
=============================================================================
