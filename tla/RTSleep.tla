------------------------------- MODULE RTSleep -------------------------------
(***************************************************************************)
(* RTSleep and RTSleepUntil of arm/rtisan_task.c on the kernel of RTask:   *)
(* a sleeper asks each tick for a wake and waits for as many wakes as      *)
(* ticks remain, in chunks that a signed wake counter can hold.  Handlers  *)
(* may wake it early, at any instruction.                                  *)
(***************************************************************************)
EXTENDS RTask

CONSTANTS
  TickHalf,     \* systick_cnt is modulo 2 * TickHalf, 2^32 in the code
  Sleeps,       \* the tick counts tasks sleep for
  MaxLag        \* the bound on preemption in ticks, see Tick

\* A sleep of 2^31 ticks or more would read as one already over.
ASSUME TickAssumption   == TickHalf \in Nat /\ MaxLag \in Nat /\ MaxLag + Half < TickHalf
ASSUME SleepsAssumption == Sleeps \subseteq 1 .. TickHalf - 1

VARIABLES
  systick_cnt,
  pc,           \* where each client is in RTSleepUntil
  completion,   \* its argument
  remain,       \* its local remain, at most MAX_SLEEP_CHUNK
  threshold,    \* the argument of its RTWait
  left          \* ticks of the time asked for that have not passed

locals == <<completion, remain, threshold>>
vars   == <<kernel, systick_cnt, pc, locals, left>>

MAX_SLEEP_CHUNK == Half - 1

Ticks == 0 .. 2 * TickHalf - 1

\* The clock is about to wrap: only differences of its values matter.
Init ==
  /\ KernelInit
  /\ systick_cnt = 2 * TickHalf - 1
  /\ pc = [t \in Task |-> "out"]
  /\ completion = [t \in Task |-> 0] /\ remain = [t \in Task |-> 0]
  /\ threshold = [t \in Task |-> 0] /\ left = [t \in Task |-> 0]

At(t, from)  == Runs(t) /\ pc[t] = from
Goto(t, to)  == pc' = [pc EXCEPT ![t] = to]
Set(f, t, v) == [f EXCEPT ![t] = v]

-----------------------------------------------------------------------------

\* RTSleep(n).
SleepCall(t, n) ==
  /\ At(t, "out")
  /\ completion' = Set(completion, t, (systick_cnt + n) % (2 * TickHalf))
  /\ left' = Set(left, t, n)
  /\ Goto(t, "check")
  /\ UNCHANGED <<kernel, systick_cnt, remain, threshold>>

\* completion - systick_cnt, modulo 2 * TickHalf.
TicksTo(time) == (time + 2 * TickHalf - systick_cnt) % (2 * TickHalf)

\* remain = completion - systick_cnt, an int32_t, against 0 and the chunk.
CheckRemain(t) ==
  LET diff == TicksTo(completion[t])
  IN
  /\ At(t, "check")
  /\ \/ /\ diff \in 1 .. TickHalf - 1
        /\ remain' = Set(remain, t, IF diff > MAX_SLEEP_CHUNK THEN MAX_SLEEP_CHUNK
                                                              ELSE diff)
        /\ Goto(t, "mark")
     \/ /\ diff \notin 1 .. TickHalf - 1
        /\ Goto(t, "out")
        /\ UNCHANGED remain
  /\ UNCHANGED <<kernel, systick_cnt, completion, threshold, left>>

\* task->ticksCreateWakes = true.
Mark(t) ==
  /\ At(t, "mark")
  /\ ticksCreateWakes' = Set(ticksCreateWakes, t, TRUE)
  /\ Goto(t, "count")
  /\ UNCHANGED <<wakeCount, wakeThreshold, curTask, pendSV, ticking, burst,
                 systick_cnt, locals, left>>

\* Mutant: one wake too many is waited for.
TakeCount_OneMore(t) ==
  /\ At(t, "count")
  /\ GetWakeCount(t)
  /\ threshold' = Set(threshold, t, (wakeCount[t] + remain[t] + 1) % (2 * Half))
  /\ Goto(t, "wait")
  /\ UNCHANGED <<systick_cnt, completion, remain, left>>

\* RTGetWakeCount() + remain.
TakeCount(t) ==
  /\ At(t, "count")
  /\ GetWakeCount(t)
  /\ threshold' = Set(threshold, t, (wakeCount[t] + remain[t]) % (2 * Half))
  /\ Goto(t, "wait")
  /\ UNCHANGED <<systick_cnt, completion, remain, left>>

\* RTWait.
Wait(t) ==
  /\ At(t, "wait")
  /\ WaitFor(t, threshold[t])
  /\ Goto(t, IF IsWokeAt(threshold[t], wakeCount[t]) THEN "unmark" ELSE "asleep")
  /\ UNCHANGED <<systick_cnt, locals, left>>

ReschedAndSleep(t) ==
  /\ At(t, "asleep")
  /\ Resched
  /\ Goto(t, "unmark")
  /\ UNCHANGED <<systick_cnt, locals, left>>

\* Mutant: the first wait is the last.
Unmark_Returns(t) ==
  /\ At(t, "unmark")
  /\ ticksCreateWakes' = Set(ticksCreateWakes, t, FALSE)
  /\ Goto(t, "out")
  /\ UNCHANGED <<wakeCount, wakeThreshold, curTask, pendSV, ticking, burst,
                 systick_cnt, locals, left>>

\* task->ticksCreateWakes = false, and round the loop.
Unmark(t) ==
  /\ At(t, "unmark")
  /\ ticksCreateWakes' = Set(ticksCreateWakes, t, FALSE)
  /\ Goto(t, "check")
  /\ UNCHANGED <<wakeCount, wakeThreshold, curTask, pendSV, ticking, burst,
                 systick_cnt, locals, left>>

\* At most MaxBurst wakes, those of ticks among them, come between the
\* RTGetWakeCount and the RTWait of a task.
RoomForWakes(t) ==
  burst[t] # None => burst[t] + (IF ticking THEN 1 ELSE 0) < MaxBurst

\* A sleeper that is awake runs again before it is MaxLag ticks late.
Late(t) == pc[t] # "out" /\ TicksTo(completion[t]) \in TickHalf .. 2 * TickHalf - MaxLag

\* systick_handler.  PendSV follows before the next tick.
Tick ==
  /\ ~ticking
  /\ \A t \in Client : RoomForWakes(t) /\ ~(IsWoke(t) /\ Late(t))
  /\ SystickHandler
  /\ systick_cnt' = (systick_cnt + 1) % (2 * TickHalf)
  /\ left' = [t \in Task |-> IF left[t] > 0 THEN left[t] - 1 ELSE 0]
  /\ UNCHANGED <<pc, locals>>

Switch ==
  /\ PendSV
  /\ UNCHANGED <<systick_cnt, pc, locals, left>>

\* A handler wakes any task.
Interrupt(t) ==
  /\ RoomForWakes(t)
  /\ IsrWake(t)
  /\ UNCHANGED <<systick_cnt, pc, locals, left>>

SleepStep(t) ==
  \/ CheckRemain(t) \/ Mark(t) \/ TakeCount(t) \/ Wait(t) \/ ReschedAndSleep(t)
  \/ Unmark(t)

Next ==
  \/ Tick \/ Switch
  \/ \E t \in Client : SleepStep(t) \/ Interrupt(t) \/ \E n \in Sleeps : SleepCall(t, n)

\* The timer ticks, a pending exception is taken, and a task that gets the
\* processor again and again executes its next instruction.
Fairness ==
  /\ WF_vars(Tick) /\ WF_vars(Switch)
  /\ \A t \in Client : SF_vars(SleepStep(t))

Spec == Init /\ [][Next]_vars /\ Fairness

-----------------------------------------------------------------------------
(* Properties.                                                             *)

\* The type invariant.
TypeOK ==
  /\ KernelTypeOK
  /\ systick_cnt \in Ticks
  /\ pc \in [Task -> {"out", "check", "mark", "count", "wait", "asleep", "unmark"}]
  /\ completion \in [Task -> Ticks] /\ remain \in [Task -> 0 .. MAX_SLEEP_CHUNK]
  /\ threshold \in [Task -> Counter] /\ left \in [Task -> 0 .. TickHalf - 1]

\* A sleep never ends early, whatever wakes the sleeper: it returns when
\* every tick it asked for has passed, across the wrap of systick_cnt.
SleepsLongEnough == [][\A t \in Client : pc[t] # "out" /\ pc'[t] = "out" => left[t] = 0]_vars

\* A task asleep in RTSleepUntil will be woken: ticks create wakes for it,
\* and its threshold is no more than a chunk of wakes away.
SleeperIsTicked ==
  \A t \in Client : ~IsWoke(t) =>
    /\ ticksCreateWakes[t]
    /\ Consider(wakeThreshold[t], wakeCount[t]) <= remain[t]

\* A wake never puts a task to sleep: only its own RTWait does.  The wake
\* counter wraps, and IncrementWakes moves the threshold along for this.
AwakeStaysAwake ==
  [][\A t \in Client : IsWoke(t) /\ ~IsWoke(t)' => pc[t] = "wait" /\ pc'[t] # "wait"]_vars

\* While no switch is pending the running task is awake and no awake task
\* has a higher priority, but between a task's RTWait and its Resched.
HighestAwakeRuns ==
  curTask # 0 /\ ~pendSV =>
    \/ pc[curTask] = "asleep"
    \/ curTask \in Awake /\ \A t \in Awake : Prio[t] <= Prio[curTask]

\* Every sleep of a task of the highest priority ends, even if no handler but
\* the tick's ever wakes anyone any more.
TopClients == {t \in Client : \A u \in Client : Prio[u] <= Prio[t]}
SleepEnds  ==
  <>[][\A t \in Client : ~Interrupt(t)]_vars =>
    \A t \in TopClients : pc[t] # "out" ~> pc[t] = "out"
=============================================================================
