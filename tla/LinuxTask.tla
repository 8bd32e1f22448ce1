----------------------------- MODULE LinuxTask -----------------------------
(***************************************************************************)
(* Tasks on Linux, linux/rtisan_task.c: each is a thread with its own wake *)
(* counter, mutex and condition variable, and the main thread makes the    *)
(* ticks in RTGo.  What is done under a task's mutex is one step, up to    *)
(* pthread_cond_wait, which gives the mutex up.  This module has the       *)
(* threads' state and the steps of RTWake, RTWait, RTSleepUntil and RTGo;  *)
(* the module that extends it (TCP) adds who calls them.                   *)
(*                                                                         *)
(* Wake counters are modulo 2 * Half; the code's are int8_t, Half = 128.   *)
(***************************************************************************)
EXTENDS Naturals, FiniteSets

CONSTANTS
  TASK_MAX,
  Thread,       \* the tasks, by their place in taskTable
  Half,
  TickHalf      \* systick_cnt is modulo 2 * TickHalf, 2^32 in the code

ASSUME ThreadAssumption  == TASK_MAX \in Nat /\ Thread \subseteq 1 .. TASK_MAX
ASSUME CounterAssumption == Half \in Nat \ {0, 1} /\ TickHalf \in Nat /\ Half < TickHalf

VARIABLES
  taskTable,            \* the entries that are not NULL
  wakes, thresh, ticksCreateWakes,
  systick_cnt,
  i,                    \* RTGo's loop index, TASK_MAX in its usleep
  blocked,              \* the threads in pthread_cond_wait
  op,                   \* where each thread is in the calls below
  completion,           \* the argument of its RTSleepUntil
  target                \* the argument of its RTWait

threads == <<taskTable, wakes, thresh, ticksCreateWakes, systick_cnt, i, blocked, op,
             completion, target>>

MAX_SLEEP_CHUNK == Half - 1

Counter == 0 .. 2 * Half - 1
Ticks   == 0 .. 2 * TickHalf - 1

\* Mutant: the counter does not wrap.
Plus_Wide(c, n) == c + n

\* Sums modulo 2 * Half and 2 * TickHalf.
Plus(c, n)      == (c + n) % (2 * Half)
TickPlus(c, n)  == (c + n) % (2 * TickHalf)

ThreadsInit ==
  /\ taskTable = {}
  /\ wakes = [t \in Thread |-> 0] /\ thresh = [t \in Thread |-> 0]
  /\ ticksCreateWakes = [t \in Thread |-> FALSE]
  /\ systick_cnt = 2 * TickHalf - 1
  /\ i = TASK_MAX
  /\ blocked = {}
  /\ op = [t \in Thread |-> "new"]
  /\ completion = [t \in Thread |-> 0] /\ target = [t \in Thread |-> 0]

Set(f, t, v) == [f EXCEPT ![t] = v]
Op(t, from, to) == op[t] = from /\ op' = Set(op, t, to)

\* RTTaskCreate, "racy" as its comment says: the first free entry, then the
\* thread.  Creators follow one another, as main and the task it starts last do;
\* a thread's handle is stored before it runs, which is the C library's doing.
ListEntry(t) ==
  /\ \A u \in Thread : op[u] # "listed"
  /\ t \notin taskTable /\ 1 .. t - 1 \subseteq taskTable
  /\ taskTable' = taskTable \cup {t}
  /\ Op(t, "new", "listed")
  /\ UNCHANGED <<wakes, thresh, ticksCreateWakes, systick_cnt, i, blocked, completion, target>>

StartThread(t) ==
  /\ Op(t, "listed", "run")
  /\ UNCHANGED <<taskTable, wakes, thresh, ticksCreateWakes, systick_cnt, i, blocked, completion,
                 target>>

RTTaskCreate(t) == ListEntry(t) \/ StartThread(t)

-----------------------------------------------------------------------------
(* Wake counters.                                                          *)

\* threshold - count, modulo 2 * Half, and RTTaskIsWoke of it.
Consider(threshold, count) == (threshold + 2 * Half - count) % (2 * Half)

\* Mutant: the threshold itself is not enough.
IsWokeAt_Strict(threshold, count) == Consider(threshold, count) >= Half

IsWokeAt(threshold, count) ==
  LET c == Consider(threshold, count) IN c = 0 \/ c >= Half

IsWoke(t) == IsWokeAt(thresh[t], wakes[t])

\* The broadcast ends the thread's pthread_cond_wait.
IncrementWakes(t) ==
  /\ wakes' = Set(wakes, t, Plus(wakes[t], 1))
  /\ thresh' = IF Consider(thresh[t], wakes'[t]) = Half
                 THEN Set(thresh, t, Plus(thresh[t], 1)) ELSE thresh
  /\ blocked' = blocked \ {t}

\* RTWake, asserts included.
RTWake(t) ==
  /\ t \in taskTable
  /\ IncrementWakes(t)
  /\ UNCHANGED <<taskTable, ticksCreateWakes, systick_cnt, i, op, completion, target>>

\* RTWait(target[t]) sets the threshold and tests it, and tests it again
\* whenever the thread comes out of pthread_cond_wait; at the end the thread
\* is at `back'.
RTWait(t, back) ==
  /\ \/ op[t] = "wait" /\ thresh' = Set(thresh, t, target[t])
     \/ op[t] = "cond" /\ t \notin blocked /\ UNCHANGED thresh
  /\ \/ IsWokeAt(thresh'[t], wakes[t]) /\ op' = Set(op, t, back) /\ UNCHANGED blocked
     \/ /\ ~IsWokeAt(thresh'[t], wakes[t])
        /\ op' = Set(op, t, "cond")
        /\ blocked' = blocked \cup {t}
  /\ UNCHANGED <<taskTable, wakes, ticksCreateWakes, systick_cnt, i, completion, target>>

\* pthread_cond_wait may return for no reason.
SpuriousWake(t) ==
  /\ t \in blocked
  /\ blocked' = blocked \ {t}
  /\ UNCHANGED <<taskTable, wakes, thresh, ticksCreateWakes, systick_cnt, i, op, completion, target>>

-----------------------------------------------------------------------------
(* RTSleep and RTSleepUntil.                                               *)

RTSleep(t, n) ==
  /\ Op(t, "run", "check")
  /\ completion' = Set(completion, t, TickPlus(systick_cnt, n))
  /\ UNCHANGED <<taskTable, wakes, thresh, ticksCreateWakes, systick_cnt, i, blocked, target>>

\* completion - systick_cnt, modulo 2 * TickHalf.
Remain(t) == (completion[t] + 2 * TickHalf - systick_cnt) % (2 * TickHalf)

\* remain > 0 as an int32_t, cut to a chunk; the chunk is kept in target.
CheckRemain(t) ==
  /\ \/ /\ Remain(t) \in 1 .. TickHalf - 1
        /\ Op(t, "check", "mark")
        /\ target' = Set(target, t, IF Remain(t) > MAX_SLEEP_CHUNK THEN MAX_SLEEP_CHUNK
                                                                   ELSE Remain(t))
     \/ /\ Remain(t) \notin 1 .. TickHalf - 1
        /\ Op(t, "check", "run")
        /\ UNCHANGED target
  /\ UNCHANGED <<taskTable, wakes, thresh, ticksCreateWakes, systick_cnt, i, blocked, completion>>

\* ticksCreateWakes is written without the mutex.
Mark(t) ==
  /\ Op(t, "mark", "count")
  /\ ticksCreateWakes' = Set(ticksCreateWakes, t, TRUE)
  /\ UNCHANGED <<taskTable, wakes, thresh, systick_cnt, i, blocked, completion, target>>

\* RTGetWakeCount() + remain.
TakeCount(t) ==
  /\ Op(t, "count", "wait")
  /\ target' = Set(target, t, Plus(wakes[t], target[t]))
  /\ UNCHANGED <<taskTable, wakes, thresh, ticksCreateWakes, systick_cnt, i, blocked, completion>>

Unmark(t) ==
  /\ Op(t, "unmark", "check")
  /\ ticksCreateWakes' = Set(ticksCreateWakes, t, FALSE)
  /\ UNCHANGED <<taskTable, wakes, thresh, systick_cnt, i, blocked, completion, target>>

Sleeping(t) == ticksCreateWakes[t] \/ op[t] \in {"check", "mark"}

SleepStep(t) ==
  \/ CheckRemain(t) \/ Mark(t) \/ TakeCount(t) \/ Unmark(t)
  \/ Sleeping(t) /\ RTWait(t, "unmark")

-----------------------------------------------------------------------------
(* RTGo, in the main thread.                                               *)

\* Mutant: the loop ends a task earlier still.
NextTask_Fewer(n) ==
  LET rest == {t \in taskTable : t >= n /\ t < TASK_MAX - 1}
  IN  IF rest = {} THEN TASK_MAX ELSE CHOOSE t \in rest : \A u \in rest : t <= u

\* The entries i < TASK_MAX are looked at, NULLs skipped: not the last one.
NextTask(n) ==
  LET rest == {t \in taskTable : t >= n /\ t < TASK_MAX}
  IN  IF rest = {} THEN TASK_MAX ELSE CHOOSE t \in rest : \A u \in rest : t <= u

TickCount ==
  /\ i = TASK_MAX
  /\ systick_cnt' = TickPlus(systick_cnt, 1)
  /\ i' = NextTask(0)
  /\ UNCHANGED <<taskTable, wakes, thresh, ticksCreateWakes, blocked, op, completion, target>>

TickTask ==
  /\ i < TASK_MAX
  /\ IF ticksCreateWakes[i] THEN IncrementWakes(i) ELSE UNCHANGED <<wakes, thresh, blocked>>
  /\ i' = NextTask(i + 1)
  /\ UNCHANGED <<taskTable, ticksCreateWakes, systick_cnt, op, completion, target>>

-----------------------------------------------------------------------------

OpType == {"new", "listed", "run", "check", "mark", "count", "wait", "cond", "unmark"}
ThreadsTypeOK ==
  /\ taskTable \subseteq Thread
  /\ wakes \in [Thread -> Counter] /\ thresh \in [Thread -> Counter]
  /\ ticksCreateWakes \in [Thread -> BOOLEAN]
  /\ systick_cnt \in Ticks /\ i \in taskTable \cup {TASK_MAX}
  /\ blocked \subseteq {t \in Thread : op[t] = "cond"}
  /\ op \in [Thread -> OpType]
  /\ completion \in [Thread -> Ticks] /\ target \in [Thread -> Counter]
=============================================================================
