-------------------------------- MODULE RTLock --------------------------------
(***************************************************************************)
(* The lock of arm/rtisan_task.c (RTLockLock, RTLockTryLock, RTLockUnlock) *)
(* and the tasks that take it, on the kernel of RTask.  Thread code is     *)
(* split at every access to shared state, so a handler or a switch can     *)
(* come between any two of them.                                           *)
(*                                                                         *)
(* A client takes the lock, stays in its critical section, gives the lock  *)
(* back, and between these steps or inside the critical section may wait   *)
(* for an event that a handler signals.                                    *)
(***************************************************************************)
EXTENDS RTask

CONSTANTS
  WaitersMax,     \* LOCK_WAITERS_MAX
  ClientChecks    \* does a client look at what RTLockLock returns?  Those of
                  \* the repository do not (stream.c:150, 194, spi.c:106)

ASSUME WaitersMaxAssumption == WaitersMax \in Nat \ {0}
ASSUME ChecksAssumption     == ClientChecks \in BOOLEAN

Slot == 1 .. WaitersMax

VARIABLES
  holder,     \* lockInfo.holder, 0 when free
  waiters,    \* the tasks to wake, 0 for a free slot
  pc,         \* where each client is
  count,      \* its local count (RTLockLock)
  slot,       \* its loop index i
  task,       \* its local task (RTLockUnlock)
  woke        \* its local wokeSomeone

locals == <<count, slot, task, woke>>
lock   == <<holder, waiters>>
vars   == <<kernel, lock, pc, locals>>

Init ==
  /\ KernelInit
  /\ holder = 0 /\ waiters = [i \in Slot |-> 0]
  /\ pc = [t \in Task |-> "out"]
  /\ count = [t \in Task |-> 0] /\ slot = [t \in Task |-> 1]
  /\ task = [t \in Task |-> 0] /\ woke = [t \in Task |-> FALSE]

At(t, from)   == Runs(t) /\ pc[t] = from
Goto(t, to)   == pc' = [pc EXCEPT ![t] = to]
Set(f, t, v)  == [f EXCEPT ![t] = v]

\* Clients between a call of RTLockLock and the end of RTLockUnlock; each
\* wakes a task at most once before it is back.
InSession == {t \in Client : pc[t] # "out"}

\* One more source of wakes keeps those of t, if t holds a count, within the
\* bound.
RoomForWakes(t) ==
  burst[t] # None => burst[t] + Cardinality(InSession \ {t}) < MaxBurst

-----------------------------------------------------------------------------
(* RTLockTryLock: the compare-and-swap, and which of its two outcomes.     *)

Acquires(t) == holder = 0 /\ holder' = t
Fails       == holder # 0 /\ UNCHANGED holder

\* RTLockLock is called and tries at once.
LockCall(t) ==
  /\ At(t, "out")
  /\ \A u \in Client : RoomForWakes(u)
  /\ \/ Acquires(t) /\ Goto(t, "cs") /\ UNCHANGED slot
     \/ Fails /\ Goto(t, "add") /\ slot' = Set(slot, t, 1)
  /\ UNCHANGED <<kernel, waiters, count, task, woke>>

\* One compare-and-swap of the loop that looks for a free waiter slot.
AddWaiter(t) ==
  /\ At(t, "add") /\ slot[t] <= WaitersMax
  /\ \/ /\ waiters[slot[t]] = 0
        /\ waiters' = Set(waiters, slot[t], t)
        /\ Goto(t, "count")
        /\ UNCHANGED slot
     \/ /\ waiters[slot[t]] # 0
        /\ slot' = Set(slot, t, slot[t] + 1)
        /\ UNCHANGED <<waiters, pc>>
  /\ UNCHANGED <<kernel, holder, count, task, woke>>

\* Mutant: the caller goes on in any case.
Refused_GoesOn(t) ==
  /\ At(t, "add") /\ slot[t] > WaitersMax
  /\ Goto(t, "cs")
  /\ UNCHANGED <<kernel, lock, locals>>

\* No slot: RTLockLock returns -1.  A client that does not look goes on into
\* its critical section.
Refused(t) ==
  /\ At(t, "add") /\ slot[t] > WaitersMax
  /\ Goto(t, IF ClientChecks THEN "out" ELSE "cs")
  /\ UNCHANGED <<kernel, lock, locals>>

\* count = RTGetWakeCount().
TakeCount(t) ==
  /\ At(t, "count")
  /\ count' = Set(count, t, wakeCount[t])
  /\ GetWakeCount(t)
  /\ Goto(t, "try")
  /\ UNCHANGED <<lock, slot, task, woke>>

\* The loop's RTLockTryLock.
TryAgain(t) ==
  /\ At(t, "try")
  /\ \/ Acquires(t) /\ Goto(t, "cs") /\ burst' = Set(burst, t, None)
     \/ Fails /\ Goto(t, "wait") /\ UNCHANGED burst
  /\ UNCHANGED <<wakeCount, wakeThreshold, ticksCreateWakes, curTask, pendSV, ticking,
                 waiters, locals>>

\* Mutant: the count is not that of before the try but the present one.
Wait_PresentCount(t) ==
  /\ At(t, "wait")
  /\ WaitFor(t, Inc(wakeCount[t]))
  /\ count' = Set(count, t, Inc(wakeCount[t]))
  /\ Goto(t, "asleep")
  /\ UNCHANGED <<lock, slot, task, woke>>

\* RTWait(++count), which reschedules when the task is now asleep; it runs
\* on when it is woken.
Wait(t) ==
  /\ At(t, "wait")
  /\ WaitFor(t, Inc(count[t]))
  /\ count' = Set(count, t, Inc(count[t]))
  /\ Goto(t, IF IsWokeAt(Inc(count[t]), wakeCount[t]) THEN "count" ELSE "asleep")
  /\ UNCHANGED <<lock, slot, task, woke>>

ReschedAndSleep(t) ==
  /\ At(t, "asleep")
  /\ Resched
  /\ Goto(t, "count")
  /\ UNCHANGED <<lock, locals>>

-----------------------------------------------------------------------------
(* RTLockUnlock.                                                           *)

Unlock(t) ==
  /\ At(t, "cs")
  /\ holder' = 0
  /\ slot' = Set(slot, t, 1)
  /\ woke' = Set(woke, t, FALSE)
  /\ Goto(t, "scan")
  /\ UNCHANGED <<kernel, waiters, count, task>>

\* Mutant: the scan ends at the first empty slot.
ScanSlot_EndsAtEmpty(t) ==
  /\ At(t, "scan") /\ slot[t] <= WaitersMax
  /\ \/ /\ waiters[slot[t]] \in {0, t}
        /\ waiters' = Set(waiters, slot[t], 0)
        /\ slot' = Set(slot, t, IF waiters[slot[t]] = 0 THEN WaitersMax + 1
                                                       ELSE slot[t] + 1)
        /\ UNCHANGED <<pc, task>>
     \/ /\ waiters[slot[t]] \notin {0, t}
        /\ task' = Set(task, t, waiters[slot[t]])
        /\ Goto(t, "wake")
        /\ UNCHANGED <<waiters, slot>>
  /\ UNCHANGED <<kernel, holder, count, woke>>

\* One waiter slot is read; the task's own is emptied, an empty one passed.
ScanSlot(t) ==
  /\ At(t, "scan") /\ slot[t] <= WaitersMax
  /\ \/ /\ waiters[slot[t]] \in {0, t}
        /\ waiters' = Set(waiters, slot[t], 0)
        /\ slot' = Set(slot, t, slot[t] + 1)
        /\ UNCHANGED <<pc, task>>
     \/ /\ waiters[slot[t]] \notin {0, t}
        /\ task' = Set(task, t, waiters[slot[t]])
        /\ Goto(t, "wake")
        /\ UNCHANGED <<waiters, slot>>
  /\ UNCHANGED <<kernel, holder, count, woke>>

\* wokeSomeone = wokeSomeone || RTWake(task): no wake after a first success.
WakeWaiter(t) ==
  /\ At(t, "wake")
  /\ \/ /\ woke[t]
        /\ UNCHANGED <<wakeCount, wakeThreshold, burst, woke>>
     \/ /\ ~woke[t]
        /\ Wake({task[t]})
        /\ woke' = Set(woke, t, WakeTells(task[t]))
  /\ slot' = Set(slot, t, slot[t] + 1)
  /\ Goto(t, "scan")
  /\ UNCHANGED <<ticksCreateWakes, curTask, pendSV, ticking, lock, count, task>>

\* Mutant: no RTResched.
ScanDone_NoResched(t) ==
  /\ At(t, "scan") /\ slot[t] > WaitersMax
  /\ Goto(t, "out")
  /\ UNCHANGED <<kernel, lock, locals>>

ScanDone(t) ==
  /\ At(t, "scan") /\ slot[t] > WaitersMax
  /\ \/ woke[t] /\ Resched
     \/ ~woke[t] /\ UNCHANGED kernel
  /\ Goto(t, "out")
  /\ UNCHANGED <<lock, locals>>

-----------------------------------------------------------------------------
(* A client waits for an event: RTWait(RTGetWakeCount() + 1).              *)

EventWait(t) ==
  /\ \/ At(t, "out") /\ Goto(t, "event_out")
     \/ At(t, "cs") /\ Goto(t, "event_cs")
  /\ WaitFor(t, Inc(wakeCount[t]))
  /\ UNCHANGED <<lock, locals>>

EventResched(t) ==
  /\ \/ At(t, "event_out") /\ Goto(t, "out")
     \/ At(t, "event_cs") /\ Goto(t, "cs")
  /\ Resched
  /\ UNCHANGED <<lock, locals>>

\* A handler wakes a task.  It may be any task, awake or not: the streams
\* and SPI drivers wake whom their own fields name.
Interrupt(t) ==
  /\ RoomForWakes(t)
  /\ IsrWake(t)
  /\ UNCHANGED <<lock, pc, locals>>

Switch == PendSV /\ UNCHANGED <<lock, pc, locals>>

ThreadStep(t) ==
  \/ LockCall(t) \/ AddWaiter(t) \/ Refused(t) \/ TakeCount(t) \/ TryAgain(t)
  \/ Wait(t) \/ ReschedAndSleep(t)
  \/ Unlock(t) \/ ScanSlot(t) \/ WakeWaiter(t) \/ ScanDone(t)
  \/ EventWait(t) \/ EventResched(t)

\* The first switch is a tick's; here any exception's.
Start == curTask = 0 /\ ~pendSV /\ Resched /\ UNCHANGED <<lock, pc, locals>>

Next ==
  \/ Start \/ Switch
  \/ \E t \in Client : ThreadStep(t) \/ Interrupt(t)

\* Exceptions are taken as soon as they are pending.  A task that gets the
\* processor again and again executes its next instruction: handlers and
\* tasks of higher priority leave some time.  Nothing is assumed of events.
Fairness ==
  /\ WF_vars(Start) /\ WF_vars(Switch)
  /\ \A t \in Client : SF_vars(ThreadStep(t))

Spec == Init /\ [][Next]_vars /\ Fairness

-----------------------------------------------------------------------------
(* Properties.                                                             *)

InCs == {t \in Client : pc[t] \in {"cs", "event_cs"}}

\* The type invariant.
TypeOK ==
  /\ KernelTypeOK
  /\ holder \in 0 .. N /\ waiters \in [Slot -> 0 .. N]
  /\ pc \in [Task -> {"out", "add", "count", "try", "wait", "asleep", "cs", "scan",
                       "wake", "event_out", "event_cs"}]
  /\ count \in [Task -> Counter] /\ slot \in [Task -> 1 .. WaitersMax + 1]
  /\ task \in [Task -> 0 .. N] /\ woke \in [Task -> BOOLEAN]

\* Only the holder is in its critical section, and so at most one task is.
MutualExclusion == \A t \in InCs : holder = t

\* No task runs out of waiter slots when there are as many slots as tasks
\* that use the lock, though a task looks at each slot once only, the slots
\* it has passed are freed and taken behind its back, and the holder may
\* still own one.
NeverRefused == \A t \in Client : pc[t] = "add" => slot[t] <= WaitersMax

\* While no switch is pending the running task is awake and no awake task
\* has a higher priority, but between RTWait and its Resched, and between
\* an RTWake of RTLockUnlock that said so and its RTResched.
HighestAwakeRuns ==
  curTask # 0 /\ ~pendSV =>
    \/ /\ curTask \in Awake
       /\ \A t \in Awake : Prio[t] <= Prio[curTask]
    \/ pc[curTask] \in {"asleep", "event_out", "event_cs"}
    \/ pc[curTask] \in {"scan", "wake"} /\ woke[curTask]

\* A waiter that sleeps in RTLockLock while the lock is free has been
\* overtaken by a wake that is still at work: some waiter is awake and about
\* to try, has been woken since it took its count, or the unlocking task has
\* yet to come to a waiter's slot.  With the first-success-only wake of
\* RTLockUnlock and wakes that come between a task's RTGetWakeCount and its
\* RTWait this is what keeps a free lock from being slept on for ever.
SleepsOn(t) == pc[t] = "count" /\ ~IsWoke(t)
WakeAtWork ==
  \E t \in Client :
    \/ pc[t] \in {"asleep", "count", "try"} /\ IsWoke(t)
    \/ pc[t] = "wait" /\ wakeCount[t] # count[t]
    \/ pc[t] = "wake" /\ ~woke[t]
    \/ pc[t] = "scan" /\ ~woke[t] /\ \E i \in slot[t] .. WaitersMax :
                                        waiters[i] \notin {0, t}
NoStrandedWaiter == holder = 0 /\ (\E t \in Client : SleepsOn(t)) => WakeAtWork

\* No wake is lost: a free lock that a task sleeps on is taken again even if
\* no handler ever wakes anyone any more.
LockIsTaken ==
  <>[][\A t \in Client : ~Interrupt(t)]_vars =>
    ((holder = 0 /\ \E t \in Client : SleepsOn(t)) ~> holder # 0)

=============================================================================
