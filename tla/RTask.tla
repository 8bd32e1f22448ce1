-------------------------------- MODULE RTask --------------------------------
(***************************************************************************)
(* The scheduling kernel of arm/rtisan_task.c: wake counters, the choice   *)
(* of the task to run and the exception that switches to it.  This module  *)
(* holds the kernel's state and the effect of each of its operations; the  *)
(* modules that extend it (RTLock, RTSleep) add the code that calls them   *)
(* and put the steps together.                                             *)
(*                                                                         *)
(* One processor.  Thread code of task t runs while curTask = t and no     *)
(* PendSV is pending; every exception (PendSV, systick, peripherals) has   *)
(* the same, never changed, priority, so handlers do not preempt each      *)
(* other and each is one step.  A compare-and-swap loop on a task's        *)
(* blockingInfo is one step.                                               *)
(*                                                                         *)
(* Wake counters are modulo 2 * Half; the code's are uint8_t, Half = 128,  *)
(* and their difference is read as an int8_t.                              *)
(***************************************************************************)
EXTENDS Naturals, FiniteSets

CONSTANTS
  N,          \* tasks are numbered 1 .. N, as taskTable is
  Prio,       \* their priorities
  Idle,       \* RTIdleTask, which never waits
  Half,       \* 2^(w-1) for wake counters of w bits
  MaxBurst    \* the most wakes between a task's RTGetWakeCount and RTWait

Task    == 1 .. N
Client  == Task \ {Idle}
Counter == 0 .. 2 * Half - 1
PrioMax == 255       \* RTPrio_t is a uint8_t

ASSUME NAssumption    == N \in Nat \ {0} /\ Idle \in Task
ASSUME PrioAssumption == Prio \in [Task -> 0 .. PrioMax]
ASSUME HalfAssumption == Half \in Nat \ {0, 1}

VARIABLES
  wakeCount, wakeThreshold,   \* blockingInfo of each task
  ticksCreateWakes,           \* the tasks that each tick wakes
  curTask,                    \* the running task, 0 before the first switch
  pendSV,                     \* PendSV is pending
  ticking,                    \* systick_cnt # lastSystick
  burst                       \* wakes since a task's last RTGetWakeCount,
                              \* None when it holds no count to wait on

kernel == <<wakeCount, wakeThreshold, ticksCreateWakes, curTask, pendSV, ticking,
            burst>>

None == 2 * Half + 2

KernelTypeOK ==
  /\ wakeCount \in [Task -> Counter] /\ wakeThreshold \in [Task -> Counter]
  /\ ticksCreateWakes \in [Task -> BOOLEAN]
  /\ curTask \in 0 .. N
  /\ pendSV \in BOOLEAN /\ ticking \in BOOLEAN
  /\ burst \in [Task -> 0 .. None]

-----------------------------------------------------------------------------
(* Wake counters.                                                          *)

\* Mutant: the counter does not wrap.
Inc_Wide(c) == c + 1

Inc(c) == IF c = 2 * Half - 1 THEN 0 ELSE c + 1

\* wakeThreshold - wakeCount, modulo 2 * Half.
Consider(threshold, count) ==
  IF threshold >= count THEN threshold - count ELSE threshold - count + 2 * Half

\* BlockingInfoIsWoke: the difference as a signed number is not positive.
IsWokeAt(threshold, count) ==
  LET c == Consider(threshold, count) IN c = 0 \/ c >= Half

IsWoke(t) == IsWokeAt(wakeThreshold[t], wakeCount[t])
Awake     == {t \in Task : IsWoke(t)}

\* Mutant: the threshold stays.
BumpedThreshold_Stays(t) == wakeThreshold[t]

\* IncrementWakes: the threshold follows when the difference reaches
\* INT8_MIN.
BumpedThreshold(t) ==
  IF Consider(wakeThreshold[t], Inc(wakeCount[t])) = Half
    THEN Inc(wakeThreshold[t]) ELSE wakeThreshold[t]

\* What RTWake(t) returns: the caller should reschedule.
WakeTells(t) ==
  /\ curTask # 0 => Prio[t] > Prio[curTask]
  /\ IsWokeAt(BumpedThreshold(t), Inc(wakeCount[t]))

\* IncrementWakes of every task of S.
Wake(S) ==
  /\ wakeCount' = [t \in Task |-> IF t \in S THEN Inc(wakeCount[t]) ELSE wakeCount[t]]
  /\ wakeThreshold' =
       [t \in Task |-> IF t \in S THEN BumpedThreshold(t) ELSE wakeThreshold[t]]
  /\ burst' = [t \in Task |->
                 IF t \in S /\ burst[t] < None - 1 THEN burst[t] + 1 ELSE burst[t]]

-----------------------------------------------------------------------------
(* Choosing the task to run.                                               *)

\* RTTaskToRun: of the awake tasks of the highest priority, the current one
\* if it is among them, else the first in the table; nobody awake changes
\* nothing.
TaskToRun(awake, cur) ==
  LET best == {t \in awake : \A u \in awake : Prio[u] <= Prio[t]}
  IN  IF best = {} \/ cur \in best THEN cur
      ELSE CHOOSE t \in best : \A u \in best : t <= u

\* Mutant: the current task is not preferred to others of its priority.
Scan_FirstBest(awake, cur) ==
  LET best[i \in 0 .. N] ==
        IF i = 0 THEN [task |-> 0, prio |-> 0]
        ELSE IF \/ best[i - 1].task # 0 /\ Prio[i] <= best[i - 1].prio
                \/ i \notin awake
               THEN best[i - 1]
               ELSE [task |-> i, prio |-> Prio[i]]
  IN  best

\* The loop of RTTaskToRun as the code has it: bestTask and bestPrio after
\* the entries 1 .. i of taskTable.
Scan(awake, cur) ==
  LET best[i \in 0 .. N] ==
        IF i = 0 THEN [task |-> 0, prio |-> 0]
        ELSE IF \/ Prio[i] < best[i - 1].prio
                \/ cur # i /\ best[i - 1].task # 0 /\ Prio[i] = best[i - 1].prio
                \/ i \notin awake
               THEN best[i - 1]
               ELSE [task |-> i, prio |-> Prio[i]]
  IN  best

LoopToRun(awake, cur) ==
  LET found == Scan(awake, cur)[N].task IN IF found = 0 THEN cur ELSE found

\* PendSV, RTTaskSwitch: the wakes that ticks create, then the switch.
PendSV ==
  LET ticked == {t \in Task : ticking /\ ticksCreateWakes[t]}
  IN
  /\ pendSV
  /\ Wake(ticked)
  /\ curTask' = TaskToRun({t \in Task : IsWokeAt(wakeThreshold'[t], wakeCount'[t])}, curTask)
  /\ pendSV' = FALSE
  /\ ticking' = FALSE
  /\ UNCHANGED ticksCreateWakes

-----------------------------------------------------------------------------
(* What the code of a task or a handler does to the kernel's state.        *)

\* Task t executes an instruction.
Runs(t) == curTask = t /\ ~pendSV

KernelInit ==
  /\ wakeCount = [t \in Task |-> 0] /\ wakeThreshold = [t \in Task |-> 0]
  /\ ticksCreateWakes = [t \in Task |-> FALSE]
  /\ curTask = 0 /\ pendSV = FALSE /\ ticking = FALSE
  /\ burst = [t \in Task |-> None]

\* Resched: SCB->ICSR.
Resched ==
  /\ pendSV' = TRUE
  /\ UNCHANGED <<wakeCount, wakeThreshold, ticksCreateWakes, curTask, ticking, burst>>

\* The count that RTGetWakeCount returns is wakeCount[t]; from here to the
\* RTWait that uses it the wakes of t are counted.
GetWakeCount(t) ==
  /\ burst' = [burst EXCEPT ![t] = 0]
  /\ UNCHANGED <<wakeCount, wakeThreshold, ticksCreateWakes, curTask, pendSV, ticking>>

\* RTWait up to the test whether to reschedule.
WaitFor(t, threshold) ==
  /\ wakeThreshold' = [wakeThreshold EXCEPT ![t] = threshold]
  /\ burst' = [burst EXCEPT ![t] = None]
  /\ UNCHANGED <<wakeCount, ticksCreateWakes, curTask, pendSV, ticking>>

\* A peripheral's handler calls RTWake(t) and then RTResched, at least when
\* RTWake says so (rtisan_spi.c:46 does always, rtisan_stream.c:86 only then).
IsrWake(t) ==
  /\ Wake({t})
  /\ \/ pendSV' = TRUE
     \/ ~WakeTells(t) /\ UNCHANGED pendSV
  /\ UNCHANGED <<ticksCreateWakes, curTask, ticking>>

\* Mutant: the tick does not reschedule.
SystickHandler_NoPendSV ==
  /\ ticking' = TRUE
  /\ UNCHANGED <<wakeCount, wakeThreshold, ticksCreateWakes, curTask, pendSV, burst>>

\* systick_handler.
SystickHandler ==
  /\ ticking' = TRUE
  /\ pendSV' = TRUE
  /\ UNCHANGED <<wakeCount, wakeThreshold, ticksCreateWakes, curTask, burst>>

-----------------------------------------------------------------------------

\* The loop of RTTaskToRun, which never looks back, finds the task that
\* TaskToRun describes: the awake tasks' highest priority, the current task
\* before others of its priority, the first of those otherwise.
LoopFindsBest == LoopToRun(Awake, curTask) = TaskToRun(Awake, curTask)
=============================================================================
