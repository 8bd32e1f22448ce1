----------------------------- MODULE RTLockProofs -----------------------------
(***************************************************************************)
(* Safety of the lock for any number of tasks, priorities, waiter slots    *)
(* and widths of the wake counters.                                        *)
(***************************************************************************)
EXTENDS RTLock, RTaskProofs, FiniteSetTheorems

\* RTLockUnlock wakes the task of a slot it has just looked at.
ScanInBounds == \A t \in Task : pc[t] = "wake" => slot[t] <= WaitersMax

Inv == TypeOK /\ ScanInBounds

USE NAssumption, HalfAssumption, WaitersMaxAssumption

-----------------------------------------------------------------------------

LEMMA InitInv == Init => Inv
<1> SUFFICES ASSUME Init PROVE Inv
  OBVIOUS
<1>1. KernelTypeOK
  <2>1. 0 \in Counter /\ 0 \in 0 .. N
    BY DEF Counter
  <2>2. None \in 0 .. None
    BY DEF None
  <2> QED BY <2>2, <2>1 DEF Init, KernelInit, KernelTypeOK
<1>2. TypeOK
  <2>1. 0 \in Counter /\ 0 \in 0 .. N /\ 1 \in 1 .. WaitersMax + 1
    BY DEF Counter
  <2>2. woke \in [Task -> BOOLEAN]
    BY DEF Init
  <2>3. pc \in [Task -> {"out", "add", "count", "try", "wait", "asleep", "cs", "scan",
                         "wake", "event_out", "event_cs"}]
    BY DEF Init
  <2>4. /\ holder \in 0 .. N /\ waiters \in [Slot -> 0 .. N]
        /\ count \in [Task -> Counter] /\ slot \in [Task -> 1 .. WaitersMax + 1]
        /\ task \in [Task -> 0 .. N]
    BY <2>1 DEF Init
  <2> QED BY <1>1, <2>2, <2>3, <2>4 DEF TypeOK
<1>3. ScanInBounds
  BY DEF Init, ScanInBounds
<1> QED BY <1>2, <1>3 DEF Inv

\* The kernel's part of a step: at most one of its operations.
LEMMA KernelStep ==
  ASSUME Inv, [Next]_vars
  PROVE  KernelTypeOK'
<1> USE DEF Inv, TypeOK
<1>1. CASE Start
  BY <1>1, ReschedType DEF Start
<1>2. CASE Switch
  BY <1>2, PendSVType DEF Switch
<1>3. ASSUME NEW t \in Client, Interrupt(t) PROVE KernelTypeOK'
  BY <1>3, IsrWakeType DEF Interrupt, Client
<1>4. CASE UNCHANGED kernel
  BY <1>4 DEF kernel, KernelTypeOK
<1>5. ASSUME NEW t \in Client, ThreadStep(t) PROVE KernelTypeOK'
  <2>0. t \in Task
    BY DEF Client
  <2>1. CASE LockCall(t) \/ AddWaiter(t) \/ Refused(t) \/ Unlock(t) \/ ScanSlot(t)
    BY <1>4, <2>1 DEF LockCall, AddWaiter, Refused, Unlock, ScanSlot
  <2>2. CASE TakeCount(t) \/ TryAgain(t)
    <3>1. None \in 0 .. None /\ 0 \in 0 .. None
      BY DEF None
    <3> QED BY <2>2, <3>1 DEF TakeCount, TryAgain, GetWakeCount, KernelTypeOK, Set
  <2>3. CASE Wait(t) \/ EventWait(t)
    <3>1. Inc(count[t]) \in Counter /\ Inc(wakeCount[t]) \in Counter
      BY <2>0, CounterType DEF KernelTypeOK
    <3> QED BY <2>0, <2>3, <3>1, WaitForType DEF Wait, EventWait
  <2>4. CASE WakeWaiter(t)
    BY <2>4, WakeType DEF WakeWaiter, KernelTypeOK
  <2>5. CASE ReschedAndSleep(t) \/ ScanDone(t) \/ EventResched(t)
    BY <1>4, <2>5, ReschedType DEF ReschedAndSleep, ScanDone, EventResched
  <2> QED BY <1>5, <2>1, <2>2, <2>3, <2>4, <2>5 DEF ThreadStep
<1> QED BY <1>1, <1>2, <1>3, <1>4, <1>5 DEF Next, vars

\* Everything else: the lock and the tasks' program counters and locals.
LEMMA StepInv ==
  ASSUME Inv, [Next]_vars
  PROVE  Inv'
<1>0. KernelTypeOK'
  BY KernelStep
<1> USE DEF Inv, TypeOK, ScanInBounds, At, Goto, Set
<1>1. CASE UNCHANGED <<lock, pc, locals>>
  BY <1>0, <1>1 DEF lock, locals
<1>2. ASSUME NEW t \in Client, ThreadStep(t) PROVE Inv'
  <2>0. t \in Task /\ t \in 0 .. N
    BY DEF Client, Task
  <2>1. CASE LockCall(t)
    <3>1. holder' \in 0 .. N /\ slot' \in [Task -> 1 .. WaitersMax + 1]
      BY <2>0, <2>1 DEF LockCall, Acquires, Fails
    <3> QED BY <1>0, <2>0, <2>1, <3>1 DEF LockCall
  <2>2. CASE AddWaiter(t)
    <3>1. waiters' \in [Slot -> 0 .. N]
      BY <2>0, <2>2 DEF AddWaiter
    <3>2. slot' \in [Task -> 1 .. WaitersMax + 1]
      <4>1. slot[t] <= WaitersMax => slot[t] + 1 \in 1 .. WaitersMax + 1
        BY <2>0
      <4> QED BY <2>0, <2>2, <4>1 DEF AddWaiter
    <3> QED BY <1>0, <2>0, <2>2, <3>1, <3>2 DEF AddWaiter
  <2>3. CASE Refused(t)
    BY <1>0, <2>0, <2>3 DEF Refused, lock, locals
  <2>4. CASE TakeCount(t)
    BY <1>0, <2>0, <2>4 DEF TakeCount, KernelTypeOK, lock
  <2>5. CASE TryAgain(t)
    <3>1. holder' \in 0 .. N
      BY <2>0, <2>5 DEF TryAgain, Acquires, Fails
    <3> QED BY <1>0, <2>0, <2>5, <3>1 DEF TryAgain, locals
  <2>6. CASE Wait(t)
    <3>1. Inc(count[t]) \in Counter
      BY <2>0, CounterType
    <3> QED BY <1>0, <2>0, <2>6, <3>1 DEF Wait, lock
  <2>7. CASE ReschedAndSleep(t)
    BY <1>0, <2>0, <2>7 DEF ReschedAndSleep, lock, locals
  <2>8. CASE Unlock(t)
    BY <1>0, <2>0, <2>8 DEF Unlock
  <2>9. CASE ScanSlot(t)
    <3>1. waiters' \in [Slot -> 0 .. N]
      BY <2>0, <2>9 DEF ScanSlot
    <3>3. slot' \in [Task -> 1 .. WaitersMax + 1]
      <4>1. slot[t] <= WaitersMax => slot[t] + 1 \in 1 .. WaitersMax + 1
        BY <2>0
      <4> QED BY <2>0, <2>9, <4>1 DEF ScanSlot
    <3>2. task' \in [Task -> 0 .. N]
      BY <2>0, <2>9 DEF ScanSlot, Slot
    <3> QED BY <1>0, <2>0, <2>9, <3>1, <3>2, <3>3 DEF ScanSlot
  <2>10. CASE WakeWaiter(t)
    <3>1. woke' \in [Task -> BOOLEAN]
      BY <2>10 DEF WakeWaiter, WakeTells
    <3>2. slot' \in [Task -> 1 .. WaitersMax + 1]
      BY <2>0, <2>10 DEF WakeWaiter
    <3> QED BY <1>0, <2>0, <2>10, <3>1, <3>2 DEF WakeWaiter, lock
  <2>11. CASE ScanDone(t)
    BY <1>0, <2>0, <2>11 DEF ScanDone, lock, locals
  <2>12. CASE EventWait(t)
    BY <1>0, <2>0, <2>12 DEF EventWait, lock, locals
  <2>13. CASE EventResched(t)
    BY <1>0, <2>0, <2>13 DEF EventResched, lock, locals
  <2> QED BY <1>2, <2>1, <2>2, <2>3, <2>4, <2>5, <2>6, <2>7, <2>8, <2>9, <2>10,
             <2>11, <2>12, <2>13 DEF ThreadStep
<1> QED BY <1>1, <1>2 DEF Next, Start, Switch, Interrupt, vars

\* The type invariant, and that RTLockUnlock stays within the waiter slots.
THEOREM Invariance == Spec => []Inv
BY InitInv, StepInv, PTL DEF Spec

THEOREM TypeCorrect == Spec => []TypeOK
<1>1. Inv => TypeOK
  BY DEF Inv
<1> QED BY <1>1, Invariance, PTL

-----------------------------------------------------------------------------
(* Waiter slots.  A task owns at most one, from the compare-and-swap that  *)
(* fills it to the task's own RTLockUnlock, which has not passed it yet.   *)

\* Task w, at p with loop index s, may own slot i.
MayOwn(w, i, p, s) ==
  /\ w \in Client
  /\ p \notin {"out", "add", "event_out"}
  /\ p = "scan" => s <= i
  /\ p = "wake" => s < i

OwnSlots ==
  /\ \A i \in Slot : waiters[i] # 0 =>
       MayOwn(waiters[i], i, pc[waiters[i]], slot[waiters[i]])
  /\ \A i, j \in Slot : waiters[i] # 0 /\ waiters[i] = waiters[j] => i = j

LEMMA SlotsKept ==
  ASSUME OwnSlots, NEW t \in Client,
         \A u \in Client \ {t} : pc'[u] = pc[u] /\ slot'[u] = slot[u],
         \A i \in Slot : waiters'[i] \in {0, waiters[i]},
         \A i \in Slot : waiters'[i] = t => MayOwn(t, i, pc'[t], slot'[t])
  PROVE  OwnSlots'
<1>1. ASSUME NEW i \in Slot, waiters'[i] # 0
      PROVE  MayOwn(waiters'[i], i, pc'[waiters'[i]], slot'[waiters'[i]])
  <2>1. CASE waiters'[i] = t
    BY <2>1
  <2>2. CASE waiters'[i] # t
    <3>1. waiters'[i] = waiters[i] /\ MayOwn(waiters[i], i, pc[waiters[i]], slot[waiters[i]])
      BY <1>1 DEF OwnSlots
    <3>2. waiters[i] \in Client \ {t}
      BY <2>2, <3>1 DEF MayOwn
    <3> QED BY <3>1, <3>2
  <2> QED BY <2>1, <2>2
<1>2. \A i, j \in Slot : waiters'[i] # 0 /\ waiters'[i] = waiters'[j] => i = j
  BY DEF OwnSlots
<1> QED BY <1>1, <1>2 DEF OwnSlots

LEMMA OwnSlotsStep ==
  ASSUME Inv, OwnSlots, [Next]_vars
  PROVE  OwnSlots'
<1> USE DEF Inv, TypeOK, At, Goto, Set
<1>1. CASE UNCHANGED <<lock, pc, locals>>
  BY <1>1 DEF lock, locals, OwnSlots
<1>2. ASSUME NEW t \in Client, ThreadStep(t) PROVE OwnSlots'
  <2>0. t \in Task /\ t # 0 /\ Client \subseteq Task
    BY DEF Client, Task
  <2>. DEFINE Others == \A u \in Client \ {t} : pc'[u] = pc[u] /\ slot'[u] = slot[u]
              Own    == \A i \in Slot : waiters'[i] = t => MayOwn(t, i, pc'[t], slot'[t])
  <2>a. \A i \in Slot : waiters[i] = t => MayOwn(t, i, pc[t], slot[t])
    BY <2>0 DEF OwnSlots
  <2>1. CASE LockCall(t) \/ Refused(t)
    <3>1. UNCHANGED waiters /\ Others
      BY <2>0, <2>1 DEF LockCall, Refused, lock, locals
    <3>2. pc[t] \in {"out", "add"}
      BY <2>1 DEF LockCall, Refused
    <3>3. Own
      BY <2>a, <3>1, <3>2 DEF MayOwn
    <3> QED BY <3>1, <3>3, SlotsKept
  <2>2. CASE AddWaiter(t)
    <3>0. \A i \in Slot : waiters[i] # t
      BY <2>2, <2>a DEF AddWaiter, MayOwn
    <3>1. CASE /\ slot[t] \in Slot /\ waiters[slot[t]] = 0
               /\ waiters' = [waiters EXCEPT ![slot[t]] = t]
               /\ pc' = [pc EXCEPT ![t] = "count"] /\ UNCHANGED slot
      <4>1. \A i \in Slot : \/ waiters'[i] = waiters[i] /\ waiters'[i] # t
                            \/ i = slot[t] /\ waiters'[i] = t
        BY <3>0, <3>1
      <4>2. pc'[t] = "count" /\ Others
        BY <2>0, <3>1
      <4>3. \A i \in Slot : waiters'[i] # 0 =>
              MayOwn(waiters'[i], i, pc'[waiters'[i]], slot'[waiters'[i]])
        <5>1. SUFFICES ASSUME NEW i \in Slot, waiters'[i] # 0
                       PROVE  MayOwn(waiters'[i], i, pc'[waiters'[i]], slot'[waiters'[i]])
          OBVIOUS
        <5>2. CASE waiters'[i] = t
          BY <2>0, <4>2, <5>2 DEF MayOwn
        <5>3. CASE waiters'[i] # t
          <6>1. waiters'[i] = waiters[i] /\ MayOwn(waiters[i], i, pc[waiters[i]], slot[waiters[i]])
            BY <4>1, <5>1, <5>3 DEF OwnSlots
          <6>2. waiters[i] \in Client \ {t}
            BY <5>3, <6>1 DEF MayOwn
          <6> QED BY <4>2, <6>1, <6>2
        <5> QED BY <5>2, <5>3
      <4>4. \A i, j \in Slot : waiters'[i] # 0 /\ waiters'[i] = waiters'[j] => i = j
        BY <4>1 DEF OwnSlots
      <4> QED BY <4>3, <4>4 DEF OwnSlots
    <3>2. CASE UNCHANGED <<waiters, pc>> /\ slot' = [slot EXCEPT ![t] = slot[t] + 1]
      <4>1. Others /\ Own
        BY <2>0, <3>0, <3>2
      <4> QED BY <3>2, <4>1, SlotsKept
    <3>3. slot[t] \in Slot
      BY <2>0, <2>2 DEF AddWaiter, Slot
    <3> QED BY <2>2, <3>1, <3>2, <3>3 DEF AddWaiter
  <2>3. CASE TakeCount(t) \/ TryAgain(t) \/ Wait(t) \/ ReschedAndSleep(t)
    <3>1. UNCHANGED waiters /\ Others
      BY <2>0, <2>3 DEF TakeCount, TryAgain, Wait, ReschedAndSleep, lock, locals
    <3>2. pc'[t] \in {"count", "try", "wait", "asleep", "cs"}
      BY <2>0, <2>3 DEF TakeCount, TryAgain, Wait, ReschedAndSleep
    <3>3. Own
      BY <3>2 DEF MayOwn
    <3> QED BY <3>1, <3>3, SlotsKept
  <2>4. CASE Unlock(t)
    <3>1. UNCHANGED waiters /\ Others
      BY <2>0, <2>4 DEF Unlock
    <3>2. pc'[t] = "scan" /\ slot'[t] = 1
      BY <2>0, <2>4 DEF Unlock
    <3>3. Own
      BY <3>2 DEF MayOwn, Slot
    <3> QED BY <3>1, <3>3, SlotsKept
  <2>5. CASE ScanSlot(t)
    <3>0. slot[t] \in Slot /\ pc[t] = "scan"
      BY <2>0, <2>5 DEF ScanSlot, Slot
    <3>1. CASE /\ waiters[slot[t]] \in {0, t}
               /\ waiters' = [waiters EXCEPT ![slot[t]] = 0]
               /\ slot' = [slot EXCEPT ![t] = slot[t] + 1] /\ UNCHANGED pc
      <4>1. Others /\ \A i \in Slot : waiters'[i] \in {0, waiters[i]}
        BY <2>0, <3>0, <3>1
      <4>2. ASSUME NEW i \in Slot, waiters'[i] = t PROVE MayOwn(t, i, pc'[t], slot'[t])
        <5>1. i # slot[t] /\ waiters[i] = t
          BY <2>0, <3>0, <3>1, <4>2
        <5>2. slot[t] <= i /\ slot'[t] = slot[t] + 1 /\ pc'[t] = "scan"
          BY <2>0, <2>a, <3>0, <3>1, <5>1 DEF MayOwn
        <5>3. slot'[t] <= i
          BY <3>0, <5>1, <5>2 DEF Slot
        <5> QED BY <5>2, <5>3 DEF MayOwn
      <4> QED BY <4>1, <4>2, SlotsKept
    <3>2. CASE /\ waiters[slot[t]] \notin {0, t} /\ UNCHANGED <<waiters, slot>>
               /\ pc' = [pc EXCEPT ![t] = "wake"]
      <4>1. Others /\ UNCHANGED waiters
        BY <2>0, <3>2
      <4>2. ASSUME NEW i \in Slot, waiters'[i] = t PROVE MayOwn(t, i, pc'[t], slot'[t])
        <5>1. i # slot[t] /\ slot[t] <= i /\ pc'[t] = "wake" /\ slot'[t] = slot[t]
          BY <2>0, <2>a, <3>0, <3>2, <4>2 DEF MayOwn
        <5>2. slot'[t] < i
          BY <3>0, <5>1 DEF Slot
        <5> QED BY <5>1, <5>2 DEF MayOwn
      <4> QED BY <4>1, <4>2, SlotsKept
    <3> QED BY <2>5, <3>1, <3>2 DEF ScanSlot
  <2>6. CASE WakeWaiter(t)
    <3>1. UNCHANGED waiters /\ Others
      BY <2>0, <2>6 DEF WakeWaiter, lock
    <3>2. pc[t] = "wake" /\ pc'[t] = "scan" /\ slot'[t] = slot[t] + 1
      BY <2>0, <2>6 DEF WakeWaiter
    <3>3. ASSUME NEW i \in Slot, waiters'[i] = t PROVE MayOwn(t, i, pc'[t], slot'[t])
      <4>1. slot[t] < i
        BY <2>a, <3>1, <3>2, <3>3 DEF MayOwn
      <4>2. slot'[t] <= i
        BY <2>0, <3>2, <4>1 DEF Slot
      <4> QED BY <3>2, <4>2 DEF MayOwn
    <3> QED BY <3>1, <3>3, SlotsKept
  <2>7. CASE ScanDone(t)
    <3>1. UNCHANGED waiters /\ Others
      BY <2>0, <2>7 DEF ScanDone, lock, locals
    <3>2. pc[t] = "scan" /\ slot[t] > WaitersMax
      BY <2>7 DEF ScanDone
    <3>3. \A i \in Slot : waiters[i] # t
      <4>1. \A i \in Slot : ~(slot[t] <= i)
        BY <2>0, <3>2 DEF Slot
      <4> QED BY <2>a, <3>2, <4>1 DEF MayOwn
    <3> QED BY <3>1, <3>3, SlotsKept
  <2>8. CASE EventWait(t) \/ EventResched(t)
    <3>1. UNCHANGED waiters /\ Others
      BY <2>0, <2>8 DEF EventWait, EventResched, lock, locals
    <3>2. pc[t] \in {"out", "event_out"} \/ pc'[t] \in {"cs", "event_cs"}
      BY <2>0, <2>8 DEF EventWait, EventResched
    <3>3. Own
      BY <2>a, <3>1, <3>2 DEF MayOwn
    <3> QED BY <3>1, <3>3, SlotsKept
  <2> QED BY <1>2, <2>1, <2>2, <2>3, <2>4, <2>5, <2>6, <2>7, <2>8 DEF ThreadStep
<1> QED BY <1>1, <1>2 DEF Next, Start, Switch, Interrupt, vars

-----------------------------------------------------------------------------
(* With as many slots as clients none is refused.  A task gets past slot s *)
(* only when another owns s and so is not past it: of K clients at most    *)
(* K + 1 - s are at s or beyond, looking for a slot or owning one.         *)

K == Cardinality(Client)

Reached(s) ==
  {t \in Client : \/ pc[t] = "add" /\ s <= slot[t]
                  \/ \E i \in Slot : s <= i /\ waiters[i] = t}

FewReach == \A s \in 1 .. K + 1 : Cardinality(Reached(s)) + s <= K + 1

LEMMA ClientFinite == IsFiniteSet(Client) /\ K \in Nat
<1>1. IsFiniteSet(1 .. N)
  BY FS_Interval
<1>2. Client \in SUBSET (1 .. N)
  BY DEF Client, Task
<1> QED BY <1>1, <1>2, FS_Subset, FS_CardinalityType DEF K

LEMMA ReachedFinite ==
  ASSUME NEW s
  PROVE  /\ IsFiniteSet(Reached(s)) /\ Cardinality(Reached(s)) \in Nat
         /\ IsFiniteSet(Reached(s)') /\ Cardinality(Reached(s)') \in Nat
         /\ Cardinality(Reached(s)') <= K
<1>1. Reached(s) \in SUBSET Client /\ Reached(s)' \in SUBSET Client
  BY DEF Reached
<1> QED BY <1>1, ClientFinite, FS_Subset, FS_CardinalityType DEF K

\* A step after which no task has come further.
LEMMA FewStillReach ==
  ASSUME FewReach, \A s \in 1 .. K + 1 : s > 1 => Reached(s)' \subseteq Reached(s)
  PROVE  FewReach'
<1> SUFFICES ASSUME NEW s \in 1 .. K + 1
             PROVE  Cardinality(Reached(s)') + s <= K + 1
  BY DEF FewReach, K
<1>0. K \in Nat
  BY ClientFinite
<1>1. CASE s = 1
  BY <1>0, <1>1, ReachedFinite
<1>2. CASE s > 1
  <2>1. Reached(s)' \in SUBSET Reached(s)
    BY <1>2
  <2>2. Cardinality(Reached(s)') <= Cardinality(Reached(s))
    BY <2>1, ReachedFinite, FS_Subset
  <2>3. Cardinality(Reached(s)) + s <= K + 1
    BY DEF FewReach
  <2> QED BY <1>0, <2>2, <2>3, ReachedFinite
<1> QED BY <1>0, <1>1, <1>2

\* Task t passes a slot that another owns.
LEMMA OneGoesOn ==
  ASSUME TypeOK, FewReach, OwnSlots, NEW t \in Client, NEW i \in Slot,
         pc[t] = "add", slot[t] = i, waiters[i] # 0,
         \A s \in 1 .. K + 1 : s # i + 1 => Reached(s)' \subseteq Reached(s),
         Reached(i + 1)' \subseteq Reached(i + 1) \cup {t}
  PROVE  FewReach'
<1> SUFFICES ASSUME NEW s \in 1 .. K + 1
             PROVE  Cardinality(Reached(s)') + s <= K + 1
  BY DEF FewReach, K
<1>0. K \in Nat /\ i \in Nat /\ i >= 1
  BY ClientFinite DEF Slot
<1>1. CASE s # i + 1
  <2>1. Reached(s)' \in SUBSET Reached(s)
    BY <1>1
  <2>2. Cardinality(Reached(s)') <= Cardinality(Reached(s))
    BY <2>1, ReachedFinite, FS_Subset
  <2>3. Cardinality(Reached(s)) + s <= K + 1
    BY DEF FewReach
  <2> QED BY <1>0, <2>2, <2>3, ReachedFinite
<1>2. CASE s = i + 1
  <2> DEFINE u == waiters[i]
  <2>1. MayOwn(u, i, pc[u], slot[u]) /\ \A j \in Slot : waiters[j] = u => j = i
    BY DEF OwnSlots
  <2>2. u \in Client /\ pc[u] # "add"
    BY <2>1 DEF MayOwn
  <2>3. i <= i /\ ~(i + 1 <= i)
    BY <1>0
  <2>4. u \in Reached(i) /\ t \in Reached(i)
    BY <2>2, <2>3 DEF Reached
  <2>5. u # t /\ u \notin Reached(i + 1)
    BY <2>1, <2>2, <2>3 DEF Reached
  <2>6. Reached(i + 1) \subseteq Reached(i)
    <3>1. \A j \in Slot : i + 1 <= j => i <= j
      BY <1>0 DEF Slot
    <3>3. ASSUME NEW v \in Client, pc[v] = "add", i + 1 <= slot[v] PROVE v \in Reached(i)
      <4>1. slot[v] \in Nat
        BY DEF TypeOK, Client
      <4>2. i <= slot[v]
        BY <1>0, <3>3, <4>1
      <4> QED BY <3>3, <4>2 DEF Reached
    <3> QED BY <3>1, <3>3 DEF Reached
  <2>7. Reached(i + 1)' \in SUBSET (Reached(i) \ {u})
    BY <2>4, <2>5, <2>6
  <2>8. /\ Cardinality(Reached(i) \ {u}) = Cardinality(Reached(i)) - 1
        /\ IsFiniteSet(Reached(i) \ {u})
    BY <2>4, ReachedFinite, FS_RemoveElement
  <2>9. Cardinality(Reached(i + 1)') <= Cardinality(Reached(i)) - 1
    BY <2>7, <2>8, FS_Subset
  <2>10. i \in 1 .. K + 1
    BY <1>0, <1>2
  <2>11. Cardinality(Reached(i)) + i <= K + 1
    BY <2>10 DEF FewReach
  <2>12. Cardinality(Reached(i)) \in Nat /\ Cardinality(Reached(i + 1)') \in Nat
    BY ReachedFinite
  <2> HIDE DEF u
  <2> QED BY <1>0, <1>2, <2>9, <2>11, <2>12
<1> QED BY <1>1, <1>2

LEMMA FewReachStep ==
  ASSUME Inv, OwnSlots, FewReach, [Next]_vars
  PROVE  FewReach'
<1> USE DEF Inv, TypeOK, At, Goto, Set
<1> DEFINE Back == \A s \in 1 .. K + 1 : s > 1 => Reached(s)' \subseteq Reached(s)
<1>1. CASE UNCHANGED <<lock, pc, locals>>
  <2>1. Back
    BY <1>1 DEF lock, locals, Reached
  <2> QED BY <2>1, FewStillReach
<1>2. ASSUME NEW t \in Client, ThreadStep(t) PROVE FewReach'
  <2>0. t \in Task /\ Client \subseteq Task
    BY DEF Client
  <2>1. CASE LockCall(t)
    <3>1. /\ UNCHANGED waiters /\ \A u \in Client \ {t} : pc'[u] = pc[u] /\ slot'[u] = slot[u]
          /\ pc'[t] = "add" => slot'[t] = 1
      BY <2>0, <2>1 DEF LockCall
    <3>2. \A s \in 1 .. K + 1 : s > 1 => ~(s <= 1)
      BY ClientFinite
    <3>3. Back
      BY <3>1, <3>2 DEF Reached
    <3> QED BY <3>3, FewStillReach
  <2>2. CASE AddWaiter(t)
    <3>a. slot[t] \in Slot /\ pc[t] = "add"
      BY <2>0, <2>2 DEF AddWaiter, Slot
    <3>b. PICK i \in Slot : slot[t] = i
      BY <3>a
    <3>0. i \in Slot /\ slot[t] = i /\ pc[t] = "add"
      BY <3>a, <3>b
    <3>1. CASE waiters' = [waiters EXCEPT ![i] = t] /\ waiters[i] = 0
               /\ pc' = [pc EXCEPT ![t] = "count"] /\ UNCHANGED slot
      <4>1. \A u \in Client : pc'[u] = "add" => pc[u] = "add"
        BY <2>0, <3>1
      <4>2. \A j \in Slot : waiters'[j] = waiters[j] \/ (j = i /\ waiters'[j] = t)
        BY <3>1
      <4>3. ASSUME NEW s \in 1 .. K + 1, NEW u \in Client, u \in Reached(s)'
            PROVE  u \in Reached(s)
        <5>1. CASE pc'[u] = "add" /\ s <= slot'[u]
          <6>1. pc[u] = "add" /\ s <= slot[u]
            BY <3>1, <4>1, <5>1
          <6> QED BY <6>1 DEF Reached
        <5>2. ASSUME NEW j \in Slot, s <= j, waiters'[j] = u PROVE u \in Reached(s)
          <6>1. CASE waiters[j] = u
            BY <5>2, <6>1 DEF Reached
          <6>2. CASE j = i /\ u = t
            BY <3>0, <5>2, <6>2 DEF Reached
          <6> QED BY <4>2, <5>2, <6>1, <6>2
        <5> QED BY <4>3, <5>1, <5>2 DEF Reached
      <4>4. \A s : Reached(s)' \subseteq Client
        BY DEF Reached
      <4>5. Back
        BY <4>3, <4>4
      <4> QED BY <4>5, FewStillReach
    <3>2. CASE UNCHANGED <<waiters, pc>> /\ slot' = [slot EXCEPT ![t] = i + 1]
               /\ waiters[i] # 0
      <4>0. i \in Nat /\ K \in Nat
        BY <3>0, ClientFinite DEF Slot
      <4>1. /\ UNCHANGED <<waiters, pc>> /\ slot'[t] = i + 1
            /\ \A u \in Client \ {t} : slot'[u] = slot[u]
        BY <2>0, <3>2
      <4>2. ASSUME NEW s \in 1 .. K + 1, s # i + 1, s <= i + 1 PROVE s <= i
        BY <4>0, <4>2
      <4>3. \A s \in 1 .. K + 1 : s # i + 1 => Reached(s)' \subseteq Reached(s)
        <5>1. SUFFICES ASSUME NEW s \in 1 .. K + 1, s # i + 1, NEW u \in Reached(s)'
                       PROVE  u \in Reached(s)
          OBVIOUS
        <5>0. /\ u \in Client
              /\ \/ pc'[u] = "add" /\ s <= slot'[u]
                 \/ \E j \in Slot : s <= j /\ waiters'[j] = u
          BY <5>1 DEF Reached
        <5>2. CASE \E j \in Slot : s <= j /\ waiters'[j] = u
          BY <4>1, <5>0, <5>2 DEF Reached
        <5>3. CASE pc'[u] = "add" /\ s <= slot'[u] /\ u = t
          <6>1. s <= slot[t]
            BY <3>0, <4>1, <4>2, <5>1, <5>3
          <6> QED BY <3>0, <5>0, <5>3, <6>1 DEF Reached
        <5>4. CASE pc'[u] = "add" /\ s <= slot'[u] /\ u # t
          BY <4>1, <5>0, <5>4 DEF Reached
        <5> QED BY <5>0, <5>2, <5>3, <5>4
      <4>4. Reached(i + 1)' \subseteq Reached(i + 1) \cup {t}
        <5>1. SUFFICES ASSUME NEW u \in Reached(i + 1)', u # t
                       PROVE  u \in Reached(i + 1)
          OBVIOUS
        <5>2. /\ u \in Client
              /\ \/ pc'[u] = "add" /\ i + 1 <= slot'[u]
                 \/ \E j \in Slot : i + 1 <= j /\ waiters'[j] = u
          BY <5>1 DEF Reached
        <5> QED BY <4>1, <5>1, <5>2 DEF Reached
      <4> QED BY <3>0, <3>2, <4>3, <4>4, OneGoesOn
    <3> QED BY <2>2, <3>b, <3>1, <3>2 DEF AddWaiter
  <2>3. CASE ~(LockCall(t) \/ AddWaiter(t))
    <3>1. \A u \in Client : pc'[u] = "add" => pc[u] = "add" /\ slot'[u] = slot[u]
      BY <1>2, <2>0, <2>3
         DEF ThreadStep, Refused, TakeCount, TryAgain, Wait, ReschedAndSleep, Unlock,
             ScanSlot, WakeWaiter, ScanDone, EventWait, EventResched, lock, locals
    <3>2. \A j \in Slot : waiters'[j] \in {0, waiters[j]}
      BY <1>2, <2>0, <2>3
         DEF ThreadStep, Refused, TakeCount, TryAgain, Wait, ReschedAndSleep, Unlock,
             ScanSlot, WakeWaiter, ScanDone, EventWait, EventResched, lock, locals
    <3>3. \A u \in Client : u # 0
      BY DEF Client, Task
    <3>4. Back
      BY <3>1, <3>2, <3>3 DEF Reached
    <3> QED BY <3>4, FewStillReach
  <2> QED BY <2>1, <2>2, <2>3
<1> QED BY <1>1, <1>2 DEF Next, Start, Switch, Interrupt, vars

SlotInv == OwnSlots /\ FewReach

LEMMA SlotInvariance == Spec => []SlotInv
<1>1. Init => SlotInv
  <2> SUFFICES ASSUME Init PROVE SlotInv
    OBVIOUS
  <2>1. OwnSlots
    BY DEF Init, OwnSlots
  <2>2. ASSUME NEW s \in 1 .. K + 1 PROVE Cardinality(Reached(s)) + s <= K + 1
    <3>1. \A t \in Client : t # 0 /\ t \in Task
      BY DEF Client, Task
    <3>2. Reached(s) = {}
      BY <3>1 DEF Reached, Init
    <3>3. Cardinality(Reached(s)) = 0
      BY <3>2, FS_EmptySet
    <3> QED BY <3>3, ClientFinite
  <2> QED BY <2>1, <2>2 DEF SlotInv, FewReach
<1>2. Inv /\ SlotInv /\ [Next]_vars => SlotInv'
  BY OwnSlotsStep, FewReachStep DEF SlotInv
<1> QED BY <1>1, <1>2, Invariance, PTL DEF Spec

\* NeverRefused, for any number of tasks that is at most that of the waiter
\* slots.
THEOREM SlotsSuffice ==
  ASSUME Cardinality(Client) <= WaitersMax
  PROVE  Spec => []NeverRefused
<1>1. Inv /\ SlotInv => NeverRefused
  <2> SUFFICES ASSUME Inv, SlotInv, NEW t \in Client, pc[t] = "add", ~(slot[t] <= WaitersMax)
               PROVE  FALSE
    BY DEF NeverRefused
  <2>0. K \in Nat /\ K <= WaitersMax
    BY ClientFinite DEF K
  <2>1. slot[t] \in Nat
    BY DEF Inv, TypeOK, Client
  <2>2. K + 1 <= slot[t]
    BY <2>0, <2>1
  <2>3. t \in Reached(K + 1)
    BY <2>2 DEF Reached
  <2>4. Cardinality(Reached(K + 1)) # 0
    BY <2>3, ReachedFinite, FS_EmptySet
  <2>5. Cardinality(Reached(K + 1)) + (K + 1) <= K + 1
    BY <2>0 DEF SlotInv, FewReach
  <2> QED BY <2>0, <2>4, <2>5, ReachedFinite
<1> QED BY <1>1, Invariance, SlotInvariance, PTL

-----------------------------------------------------------------------------
(* Mutual exclusion, when clients look at what RTLockLock returns or are   *)
(* too few to be refused.                                                  *)

LEMMA ExclusionStep ==
  ASSUME ClientChecks \/ NeverRefused, Inv, MutualExclusion, [Next]_vars
  PROVE  MutualExclusion'
<1> USE DEF Inv, TypeOK, At, Goto, Set, MutualExclusion, InCs
<1>1. CASE UNCHANGED <<lock, pc, locals>>
  BY <1>1 DEF lock
<1>2. ASSUME NEW t \in Client, ThreadStep(t) PROVE MutualExclusion'
  <2>0. t \in Task /\ Client \subseteq Task /\ \A u \in Client : u # 0
    BY DEF Client, Task
  <2>1. \A u \in Client \ {t} : pc'[u] = pc[u]
    BY <1>2, <2>0
       DEF ThreadStep, LockCall, AddWaiter, Refused, TakeCount, TryAgain, Wait,
           ReschedAndSleep, Unlock, ScanSlot, WakeWaiter, ScanDone, EventWait, EventResched
  <2>2. CASE Unlock(t)
    <3>1. \A u \in Client \ {t} : pc[u] \notin {"cs", "event_cs"}
      BY <2>2 DEF Unlock
    <3> QED BY <2>0, <2>1, <2>2, <3>1 DEF Unlock
  <2>3. CASE (LockCall(t) \/ TryAgain(t)) /\ Acquires(t)
    BY <2>0, <2>1, <2>3 DEF Acquires
  <2>4. CASE UNCHANGED holder /\ (pc'[t] \in {"cs", "event_cs"} => pc[t] \in {"cs", "event_cs"})
    BY <2>1, <2>4
  <2>5. \/ Unlock(t) \/ ((LockCall(t) \/ TryAgain(t)) /\ Acquires(t))
        \/ UNCHANGED holder /\ (pc'[t] \in {"cs", "event_cs"} => pc[t] \in {"cs", "event_cs"})
    <3>1. CASE Refused(t)
      <4>1. ClientChecks
        BY <2>0, <3>1 DEF Refused, NeverRefused
      <4> QED BY <2>0, <3>1, <4>1 DEF Refused, lock
    <3>2. CASE EventResched(t)
      BY <2>0, <3>2 DEF EventResched, lock
    <3>3. CASE LockCall(t) \/ TryAgain(t)
      BY <2>0, <3>3 DEF LockCall, TryAgain, Fails
    <3>4. CASE \/ AddWaiter(t) \/ TakeCount(t) \/ Wait(t) \/ ReschedAndSleep(t)
               \/ ScanSlot(t) \/ WakeWaiter(t) \/ ScanDone(t) \/ EventWait(t)
      BY <2>0, <3>4 DEF AddWaiter, TakeCount, Wait, ReschedAndSleep, ScanSlot, WakeWaiter,
                        ScanDone, EventWait, lock
    <3> QED BY <1>2, <3>1, <3>2, <3>3, <3>4 DEF ThreadStep
  <2> QED BY <2>2, <2>3, <2>4, <2>5
<1> QED BY <1>1, <1>2 DEF Next, Start, Switch, Interrupt, vars

\* At most one task is in its critical section, whatever their number and
\* priorities, wherever handlers and switches come.
THEOREM Exclusion ==
  ASSUME ClientChecks \/ Cardinality(Client) <= WaitersMax
  PROVE  Spec => []MutualExclusion
<1>1. Init => MutualExclusion
  BY DEF Init, MutualExclusion, InCs, Client
<1>2. CASE ClientChecks
  <2>1. Inv /\ MutualExclusion /\ [Next]_vars => MutualExclusion'
    BY <1>2, ExclusionStep
  <2> QED BY <1>1, <2>1, Invariance, PTL DEF Spec
<1>3. CASE Cardinality(Client) <= WaitersMax
  <2>1. Spec => []NeverRefused
    BY <1>3, SlotsSuffice
  <2>2. NeverRefused /\ Inv /\ MutualExclusion /\ [Next]_vars => MutualExclusion'
    BY ExclusionStep
  <2> QED BY <1>1, <2>1, <2>2, Invariance, PTL DEF Spec
<1> QED BY <1>2, <1>3

-----------------------------------------------------------------------------
(* Wakes.  What the two properties about them rest on is inductive only    *)
(* together: where a task may be while it is asleep, who runs while        *)
(* another is preempted in the middle of its code, and how many wakes may  *)
(* still come while a task holds a count.                                  *)

\* The bound on wakes between a task's RTGetWakeCount and its RTWait leaves
\* room for one of each other client's RTLockUnlock, and a signed wake
\* counter tells that many from a sleep.
FewWakes == MaxBurst \in 0 .. Half /\ K <= MaxBurst + 1

Counting == {"try", "wait"}
MidCode  == Counting \cup {"scan", "wake"}
MaySleep == {"out", "count", "asleep", "cs", "event_out", "event_cs"}
Queued   == {"count", "asleep", "try", "wait"}

\* TaskToRun prefers t to u, unless u is the task that runs.
Beats(t, u) == Prio[t] > Prio[u] \/ (Prio[t] = Prio[u] /\ t < u)

\* Client u is in a session in which it may still wake t, which does not
\* change its slot: it has not scanned that slot yet or is about to wake t.
StillWakes(u, t) ==
  /\ u # t /\ pc[u] \notin {"out", "event_out"}
  /\ pc[u] = "scan" => \E i \in Slot : slot[u] <= i /\ waiters[i] = t
  /\ pc[u] = "wake" => task[u] = t \/ \E i \in Slot : slot[u] < i /\ waiters[i] = t

Wakers(t) == {u \in Client : StillWakes(u, t)}

\* A task that is asleep is one wake away from being awake: RTLockLock and
\* the events wait for the next wake.  No tick wakes anyone.
Counters ==
  /\ \A t \in Task : NotAtEdge(t) /\ ~ticksCreateWakes[t]
  /\ IsWoke(Idle)
  /\ \A t \in Task : ~IsWoke(t) => Consider(wakeThreshold[t], wakeCount[t]) = 1

Sleepers == \A t \in Task : ~IsWoke(t) => pc[t] \in MaySleep

\* A task runs while another is in the middle of its code only when it was
\* preferred to it.
Preempted == \A t \in Task : pc[t] \in MidCode /\ curTask \notin {0, t} => Beats(curTask, t)

\* So who is about to be woken by a task that would be preferred to it has
\* not run since its slot was read.
SlotStays ==
  \A t \in Client : pc[t] = "wake" =>
    task[t] \in Client /\ (Beats(t, task[t]) => waiters[slot[t]] = task[t])

\* The wakes since a task's RTGetWakeCount are those its counter shows, and
\* with those still to come they are within the bound.
Counts ==
  \A t \in Client :
    /\ pc[t] \in Counting <=> burst[t] # None
    /\ pc[t] \in Counting => /\ Consider(wakeCount[t], count[t]) = burst[t]
                             /\ burst[t] + Cardinality(Wakers(t)) <= MaxBurst

WakesInv ==
  /\ Inv /\ OwnSlots
  /\ Counters /\ Sleepers /\ Preempted /\ SlotStays /\ Counts /\ HighestAwakeRuns

-----------------------------------------------------------------------------
(* Counters.                                                               *)

\* A wake moves a count one further from one taken earlier.
LEMMA OneMore ==
  ASSUME NEW w \in Counter, NEW c \in Counter, Consider(w, c) \in 0 .. Half
  PROVE  Consider(Inc(w), c) = Consider(w, c) + 1
<1>1. Half # 2 * Half - 1
  OBVIOUS
<1> QED BY <1>1, ConsiderInc

\* RTWait(++count) after a number of wakes that the counter can tell.
LEMMA NextWake ==
  ASSUME NEW w \in Counter, NEW c \in Counter, Consider(w, c) \in 0 .. Half
  PROVE  /\ Consider(Inc(c), w) # Half
         /\ w = c <=> Consider(w, c) = 0
         /\ w = c => Consider(Inc(c), w) = 1
         /\ w # c => IsWokeAt(Inc(c), w)
<1>1. w = c <=> Consider(w, c) = 0
  BY DEF Consider, Counter
<1>2. Consider(c, w) = IF Consider(w, c) = 0 THEN 0 ELSE 2 * Half - Consider(w, c)
  BY DEF Consider, Counter
<1>3. Consider(Inc(c), w) = IF Consider(c, w) = 2 * Half - 1 THEN 0 ELSE Consider(c, w) + 1
  BY ConsiderInc
<1>4. ASSUME w # c
      PROVE  Consider(Inc(c), w) # Half /\ (Consider(Inc(c), w) = 0 \/ Consider(Inc(c), w) >= Half)
  <2> DEFINE k == Consider(w, c)
             d == Consider(c, w)
             e == Consider(Inc(c), w)
  <2>1. k \in 0 .. Half /\ k # 0
    BY <1>1, <1>4
  <2>2. d = 2 * Half - k /\ e = IF d = 2 * Half - 1 THEN 0 ELSE d + 1
    BY <1>2, <1>3, <2>1
  <2> HIDE DEF k, d, e
  <2>3. e # Half /\ (e = 0 \/ e >= Half)
    BY <2>1, <2>2
  <2> QED BY <2>3 DEF e
<1>5. ASSUME w = c PROVE Consider(Inc(c), w) = 1 /\ 1 # Half
  BY <1>1, <1>2, <1>3, <1>5
<1> QED BY <1>1, <1>4, <1>5 DEF IsWokeAt

\* A wake awakens.
LEMMA Woken ==
  ASSUME KernelTypeOK, Counters, NEW S, Wake(S), NEW t \in Task
  PROVE  /\ NotAtEdge(t)'
         /\ IsWoke(t) => IsWoke(t)'
         /\ t \in S => IsWoke(t)'
         /\ ~IsWoke(t)' => Consider(wakeThreshold'[t], wakeCount'[t]) = 1
<1>1. NotAtEdge(t)
  BY DEF Counters
<1>2. /\ NotAtEdge(t)'
      /\ IsWoke(t) => IsWoke(t)'
      /\ ~IsWoke(t)' => Consider(wakeThreshold'[t], wakeCount'[t])
                          <= Consider(wakeThreshold[t], wakeCount[t])
  BY <1>1, WakeWakes
<1>3. wakeThreshold[t] \in Counter /\ wakeCount[t] \in Counter
  BY DEF KernelTypeOK
<1>4. wakeThreshold'[t] \in Counter /\ wakeCount'[t] \in Counter
  BY WakeType
<1>5. Consider(wakeThreshold'[t], wakeCount'[t]) \in Nat
  <2>1. Consider(wakeThreshold'[t], wakeCount'[t]) \in Counter
    BY <1>4, ConsiderType
  <2>2. Counter \subseteq Nat
    BY DEF Counter
  <2> QED BY <2>1, <2>2
<1>6. ~IsWoke(t)' => Consider(wakeThreshold'[t], wakeCount'[t]) # 0
  BY DEF IsWoke, IsWokeAt
<1>7. ~IsWoke(t) => Consider(wakeThreshold[t], wakeCount[t]) = 1
  BY DEF Counters
<1>8. ~IsWoke(t)' => Consider(wakeThreshold'[t], wakeCount'[t]) = 1
  BY <1>2, <1>5, <1>6, <1>7
<1>9. ASSUME t \in S, ~IsWoke(t) PROVE IsWoke(t)'
  <2>1. wakeThreshold'[t] = BumpedThreshold(t) /\ wakeCount'[t] = Inc(wakeCount[t])
    BY <1>9 DEF Wake
  <2>2. Consider(wakeThreshold[t], Inc(wakeCount[t])) = 0
    BY <1>3, <1>7, <1>9, ConsiderInc
  <2>3. BumpedThreshold(t) = wakeThreshold[t]
    BY <2>2 DEF BumpedThreshold
  <2> QED BY <2>1, <2>2, <2>3 DEF IsWoke, IsWokeAt
<1> QED BY <1>2, <1>8, <1>9

\* What RTWake returns tells of the state after it.
LEMMA TellsTrue ==
  ASSUME NEW t \in Task, NEW S, Wake(S), t \in S
  PROVE  WakeTells(t) <=> IsWoke(t)' /\ (curTask # 0 => Prio[t] > Prio[curTask])
BY DEF WakeTells, Wake, IsWoke

LEMMA SwitchKeeps ==
  ASSUME Inv, Counters, Switch
  PROVE  UNCHANGED <<wakeCount, wakeThreshold, ticksCreateWakes, burst>>
<1>1. Wake({t \in Task : ticking /\ ticksCreateWakes[t]}) /\ UNCHANGED ticksCreateWakes
  BY DEF Switch, PendSV
<1>2. Wake({})
  <2>1. {t \in Task : ticking /\ ticksCreateWakes[t]} = {}
    BY DEF Counters
  <2> QED BY <1>1, <2>1
<1>3. /\ wakeCount \in [Task -> Counter] /\ wakeThreshold \in [Task -> Counter]
      /\ burst \in [Task -> 0 .. None]
  BY DEF Inv, TypeOK, KernelTypeOK
<1> QED BY <1>1, <1>2, <1>3 DEF Wake

LEMMA SameCounters ==
  ASSUME UNCHANGED <<wakeCount, wakeThreshold>>
  PROVE  \A t \in Task : /\ NotAtEdge(t)' <=> NotAtEdge(t)
                         /\ IsWoke(t)' <=> IsWoke(t)
BY DEF NotAtEdge, IsWoke

\* The steps that change no counter.
LocalStep(t) ==
  \/ LockCall(t) \/ AddWaiter(t) \/ Refused(t) \/ TakeCount(t) \/ TryAgain(t)
  \/ ReschedAndSleep(t) \/ Unlock(t) \/ ScanSlot(t) \/ ScanDone(t) \/ EventResched(t)

LEMMA LocalSame ==
  ASSUME NEW t \in Client, LocalStep(t)
  PROVE  UNCHANGED <<wakeCount, wakeThreshold, ticksCreateWakes, curTask>>
BY DEF LocalStep, LockCall, AddWaiter, Refused, TakeCount, TryAgain, ReschedAndSleep, Unlock,
       ScanSlot, ScanDone, EventResched, Resched, GetWakeCount, kernel

LEMMA CountersStep ==
  ASSUME FewWakes, WakesInv, [Next]_vars
  PROVE  Counters'
<1> USE DEF WakesInv
<1>0. KernelTypeOK
  BY DEF Inv, TypeOK
<1>1. CASE UNCHANGED <<wakeCount, wakeThreshold, ticksCreateWakes>>
  <2>1. \A t \in Task : /\ NotAtEdge(t)' <=> NotAtEdge(t)
                        /\ IsWoke(t)' <=> IsWoke(t)
    BY <1>1, SameCounters
  <2> QED BY <1>1, <2>1 DEF Counters
<1>2. ASSUME NEW S, Wake(S), UNCHANGED ticksCreateWakes PROVE Counters'
  <2>1. \A t \in Task : /\ NotAtEdge(t)' /\ (IsWoke(t) => IsWoke(t)')
                        /\ ~IsWoke(t)' => Consider(wakeThreshold'[t], wakeCount'[t]) = 1
    BY <1>0, <1>2, Woken
  <2> QED BY <1>2, <2>1 DEF Counters
<1>3. ASSUME NEW t \in Client, NEW c \in Counter, WaitFor(t, c),
             Consider(c, wakeCount[t]) # Half,
             IsWokeAt(c, wakeCount[t]) \/ Consider(c, wakeCount[t]) = 1
      PROVE  Counters'
  <2>1. /\ \A u \in Task \ {t} : wakeThreshold'[u] = wakeThreshold[u]
        /\ wakeThreshold'[t] = c /\ UNCHANGED <<wakeCount, ticksCreateWakes>>
        /\ t \in Task /\ t # Idle
    BY <1>0, <1>3 DEF WaitFor, KernelTypeOK, Client
  <2>2. \A u \in Task \ {t} : (NotAtEdge(u)' <=> NotAtEdge(u)) /\ (IsWoke(u)' <=> IsWoke(u))
    BY <2>1 DEF NotAtEdge, IsWoke
  <2>3. NotAtEdge(t)' /\ (IsWoke(t)' <=> IsWokeAt(c, wakeCount[t]))
    BY <1>3, <2>1 DEF NotAtEdge, IsWoke
  <2> QED BY <1>3, <2>1, <2>2, <2>3 DEF Counters
<1>4. ASSUME NEW t \in Client, ThreadStep(t) PROVE Counters'
  <2>0. t \in Task /\ wakeCount[t] \in Counter /\ count[t] \in Counter
    BY <1>0 DEF Client, KernelTypeOK, Inv, TypeOK
  <2>1. CASE LocalStep(t)
    BY <1>1, <2>1, LocalSame
  <2>2. CASE Wait(t)
    <3>1. WaitFor(t, Inc(count[t])) /\ pc[t] \in Counting
      BY <2>2 DEF Wait, At, Counting
    <3>2. Consider(wakeCount[t], count[t]) = burst[t] /\ burst[t] + Cardinality(Wakers(t)) <= MaxBurst
      BY <3>1 DEF Counts
    <3>3. Consider(wakeCount[t], count[t]) \in 0 .. Half
      <4>1. burst[t] \in Nat /\ Cardinality(Wakers(t)) \in Nat
        <5>1. Wakers(t) \in SUBSET Client
          BY DEF Wakers
        <5>2. Cardinality(Wakers(t)) \in Nat
          BY <5>1, ClientFinite, FS_Subset, FS_CardinalityType
        <5> QED BY <1>0, <2>0, <5>2 DEF KernelTypeOK
      <4> QED BY <3>2, <4>1 DEF FewWakes
    <3>4. Inc(count[t]) \in Counter
      BY <2>0, CounterType
    <3>5. /\ Consider(Inc(count[t]), wakeCount[t]) # Half
          /\ \/ IsWokeAt(Inc(count[t]), wakeCount[t])
             \/ Consider(Inc(count[t]), wakeCount[t]) = 1
      BY <2>0, <3>3, NextWake
    <3> QED BY <1>3, <3>1, <3>4, <3>5
  <2>3. CASE EventWait(t)
    <3>1. WaitFor(t, Inc(wakeCount[t]))
      BY <2>3 DEF EventWait
    <3>2. Consider(wakeCount[t], wakeCount[t]) = 0
      BY <2>0 DEF Consider, Counter
    <3>3. Consider(Inc(wakeCount[t]), wakeCount[t]) = 1 /\ 1 # Half
      BY <2>0, <3>2, ConsiderInc
    <3>4. Inc(wakeCount[t]) \in Counter
      BY <2>0, CounterType
    <3> QED BY <1>3, <3>1, <3>3, <3>4
  <2>4. CASE WakeWaiter(t)
    BY <1>1, <1>2, <2>4 DEF WakeWaiter
  <2> QED BY <1>4, <2>1, <2>2, <2>3, <2>4 DEF ThreadStep, LocalStep
<1>5. ASSUME NEW t \in Client, Interrupt(t) PROVE Counters'
  BY <1>2, <1>5 DEF Interrupt, IsrWake
<1>6. CASE Switch
  BY <1>1, <1>6, SwitchKeeps
<1>7. CASE Start
  BY <1>1, <1>7 DEF Start, Resched
<1>8. CASE UNCHANGED vars
  BY <1>1, <1>8 DEF vars, kernel
<1> QED BY <1>4, <1>5, <1>6, <1>7, <1>8 DEF Next

-----------------------------------------------------------------------------
(* Who sleeps and who runs.                                                *)

LEMMA RunnerAwake ==
  ASSUME WakesInv, NEW t \in Client, Runs(t),
         pc[t] \notin {"asleep", "event_out", "event_cs"}
  PROVE  IsWoke(t)
<1>1. t # 0 /\ t \in Task
  BY DEF Client, Task
<1>2. CASE pc[t] \in {"scan", "wake"}
  BY <1>1, <1>2 DEF WakesInv, Sleepers, MaySleep
<1>3. CASE pc[t] \notin {"scan", "wake"}
  BY <1>1, <1>3 DEF WakesInv, HighestAwakeRuns, Runs, Awake
<1> QED BY <1>2, <1>3

LEMMA SleepersStep ==
  ASSUME FewWakes, WakesInv, Counters', [Next]_vars
  PROVE  Sleepers'
<1>0. KernelTypeOK /\ pc \in [Task -> {"out", "add", "count", "try", "wait", "asleep", "cs",
                                       "scan", "wake", "event_out", "event_cs"}]
  BY DEF WakesInv, Inv, TypeOK
<1>1. ASSUME UNCHANGED pc, \A t \in Task : IsWoke(t) => IsWoke(t)' PROVE Sleepers'
  BY <1>1 DEF WakesInv, Sleepers
<1>2. ASSUME UNCHANGED <<pc, wakeCount, wakeThreshold>> PROVE Sleepers'
  BY <1>1, <1>2, SameCounters
<1>3. ASSUME NEW t \in Client, NEW to, Goto(t, to), IsWoke(t)' \/ to \in MaySleep,
             \A u \in Task \ {t} : IsWoke(u) => IsWoke(u)'
      PROVE  Sleepers'
  <2>1. t \in Task /\ pc'[t] = to /\ \A u \in Task \ {t} : pc'[u] = pc[u]
    BY <1>0, <1>3 DEF Goto, Client
  <2> QED BY <1>3, <2>1 DEF WakesInv, Sleepers
<1>4. ASSUME NEW t \in Client, ThreadStep(t) PROVE Sleepers'
  <2>0. t \in Task
    BY DEF Client
  <2>1. CASE LocalStep(t)
    <3>1. \A u \in Task : IsWoke(u)' <=> IsWoke(u)
      BY <2>1, LocalSame, SameCounters
    <3>2. UNCHANGED pc \/ \E to : Goto(t, to)
      BY <2>1 DEF LocalStep, LockCall, AddWaiter, Refused, TakeCount, TryAgain,
             ReschedAndSleep, Unlock, ScanSlot, ScanDone, EventResched
    <3>3. Runs(t)
      BY <2>1 DEF LocalStep, LockCall, AddWaiter, Refused, TakeCount, TryAgain,
             ReschedAndSleep, Unlock, ScanSlot, ScanDone, EventResched, At
    <3>4. CASE pc[t] \notin {"asleep", "event_out", "event_cs"}
      <4>1. IsWoke(t)'
        BY <2>0, <3>1, <3>3, <3>4, RunnerAwake
      <4> QED BY <1>1, <1>3, <3>1, <3>2, <4>1
    <3>5. CASE pc[t] \in {"asleep", "event_out", "event_cs"}
      <4>1. ReschedAndSleep(t) \/ EventResched(t)
        BY <2>1, <3>5 DEF LocalStep, LockCall, AddWaiter, Refused, TakeCount, TryAgain,
                          Unlock, ScanSlot, ScanDone, At
      <4>2. \E to \in MaySleep : Goto(t, to)
        BY <4>1 DEF ReschedAndSleep, EventResched, MaySleep
      <4> QED BY <1>3, <3>1, <4>2
    <3> QED BY <3>4, <3>5
  <2>2. CASE Wait(t) \/ EventWait(t)
    <3>1. \E to \in MaySleep : Goto(t, to)
      BY <2>2 DEF Wait, EventWait, MaySleep
    <3>2. \A u \in Task \ {t} : IsWoke(u) => IsWoke(u)'
      BY <1>0, <2>2 DEF Wait, EventWait, WaitFor, IsWoke, KernelTypeOK
    <3> QED BY <1>3, <3>1, <3>2
  <2>3. CASE WakeWaiter(t)
    <3>1. \A u \in Task : IsWoke(u) => IsWoke(u)'
      <4>1. CASE UNCHANGED <<wakeCount, wakeThreshold>>
        BY <4>1, SameCounters
      <4>2. CASE Wake({task[t]})
        BY <1>0, <4>2, Woken DEF WakesInv
      <4> QED BY <2>3, <4>1, <4>2 DEF WakeWaiter
    <3>2. Goto(t, "scan") /\ Runs(t) /\ pc[t] = "wake"
      BY <2>3 DEF WakeWaiter, At
    <3>3. IsWoke(t)'
      BY <2>0, <3>1, <3>2, RunnerAwake
    <3> QED BY <1>3, <3>1, <3>2, <3>3
  <2> QED BY <1>4, <2>1, <2>2, <2>3 DEF ThreadStep, LocalStep
<1>5. ASSUME NEW t \in Client, Interrupt(t) PROVE Sleepers'
  <2>1. Wake({t}) /\ UNCHANGED pc
    BY <1>5 DEF Interrupt, IsrWake
  <2> QED BY <1>0, <1>1, <2>1, Woken DEF WakesInv
<1>6. CASE Switch
  BY <1>2, <1>6, SwitchKeeps DEF Switch, WakesInv
<1>7. CASE Start
  BY <1>2, <1>7 DEF Start, Resched
<1>8. CASE UNCHANGED vars
  BY <1>2, <1>8 DEF vars, kernel
<1> QED BY <1>4, <1>5, <1>6, <1>7, <1>8 DEF Next

\* The running task goes on and is awake, or its Resched is still to come.
LEMMA BestStep ==
  ASSUME FewWakes, WakesInv, TypeOK', Counters', [Next]_vars
  PROVE  HighestAwakeRuns'
<1>0. /\ KernelTypeOK /\ pc \in [Task -> {"out", "add", "count", "try", "wait", "asleep", "cs",
                                       "scan", "wake", "event_out", "event_cs"}]
      /\ woke \in [Task -> BOOLEAN]
  BY DEF WakesInv, Inv, TypeOK
<1>1. CASE pendSV'
  BY <1>1 DEF HighestAwakeRuns
<1>2. ASSUME UNCHANGED <<wakeCount, wakeThreshold, curTask, pendSV, pc, woke>>
      PROVE  HighestAwakeRuns'
  BY <1>2 DEF WakesInv, HighestAwakeRuns, Awake, IsWoke
<1>3. ASSUME NEW t \in Client, Runs(t), IsWoke(t), UNCHANGED <<curTask, pendSV>>,
             \A u \in Awake' : u \in Awake \/ Prio[u] <= Prio[t],
             IsWoke(t)', pc[t] \notin {"asleep", "event_out", "event_cs"},
             ~(pc[t] \in {"scan", "wake"} /\ woke[t])
      PROVE  HighestAwakeRuns'
  <2>1. t # 0 /\ t \in Task /\ curTask = t
    BY <1>3 DEF Client, Task, Runs
  <2>2. \A u \in Awake : Prio[u] <= Prio[t]
    BY <1>3, <2>1 DEF WakesInv, HighestAwakeRuns, Runs
  <2>3. t \in Awake' /\ curTask' = t
    BY <1>3, <2>1 DEF Awake
  <2> QED BY <1>3, <2>2, <2>3 DEF HighestAwakeRuns
<1>4. ASSUME NEW t \in Client, ThreadStep(t), ~pendSV' PROVE HighestAwakeRuns'
  <2>0. t \in Task /\ t # 0
    BY DEF Client, Task
  <2>1. CASE LocalStep(t) /\ ~ScanDone(t)
    <3>1. UNCHANGED <<wakeCount, wakeThreshold, curTask>>
      BY <2>1, LocalSame
    <3>2. /\ Runs(t) /\ pc[t] \notin {"asleep", "event_out", "event_cs"}
          /\ pc[t] = "scan" => pc'[t] \in {"scan", "wake"} /\ UNCHANGED woke
          /\ pc[t] # "wake"
      <4>1. ~(ReschedAndSleep(t) \/ EventResched(t))
        BY <1>4 DEF ReschedAndSleep, EventResched, Resched
      <4>2. CASE ScanSlot(t)
        BY <1>0, <2>0, <4>2 DEF ScanSlot, At, Goto
      <4>3. CASE \/ LockCall(t) \/ AddWaiter(t) \/ Refused(t) \/ TakeCount(t) \/ TryAgain(t)
                 \/ Unlock(t)
        BY <4>3 DEF LockCall, AddWaiter, Refused, TakeCount, TryAgain, Unlock, At
      <4> QED BY <2>1, <4>1, <4>2, <4>3 DEF LocalStep
    <3>3. UNCHANGED pendSV
      <4>1. pendSV = FALSE
        BY <1>0, <3>2 DEF Runs, KernelTypeOK
      <4>2. pendSV' = FALSE
        BY <1>4 DEF TypeOK, KernelTypeOK
      <4> QED BY <4>1, <4>2
    <3>4. CASE pc[t] = "scan" /\ woke[t]
      BY <2>0, <3>1, <3>2, <3>4 DEF HighestAwakeRuns, Runs
    <3>5. CASE ~(pc[t] = "scan" /\ woke[t])
      <4>1. Awake' = Awake /\ IsWoke(t) /\ IsWoke(t)'
        BY <2>0, <3>1, <3>2, RunnerAwake, SameCounters DEF Awake
      <4> QED BY <1>3, <3>1, <3>2, <3>3, <3>5, <4>1
    <3> QED BY <3>4, <3>5
  <2>2. CASE ScanDone(t)
    <3>1. ~woke[t] /\ UNCHANGED kernel /\ Runs(t) /\ pc[t] = "scan"
      BY <1>4, <2>2 DEF ScanDone, Resched, At
    <3>2. Awake' = Awake /\ IsWoke(t) /\ IsWoke(t)'
      BY <2>0, <3>1, RunnerAwake, SameCounters DEF Awake, kernel
    <3> QED BY <1>3, <3>1, <3>2 DEF kernel
  <2>3. CASE EventWait(t)
    <3>1. curTask' = t /\ pc'[t] \in {"event_out", "event_cs"}
      BY <1>0, <2>0, <2>3 DEF EventWait, WaitFor, At, Runs, Goto
    <3> QED BY <3>1 DEF HighestAwakeRuns
  <2>4. CASE Wait(t)
    <3>1. /\ WaitFor(t, Inc(count[t])) /\ Runs(t) /\ pc[t] = "wait"
          /\ pc'[t] = IF IsWokeAt(Inc(count[t]), wakeCount[t]) THEN "count" ELSE "asleep"
      BY <1>0, <2>0, <2>4 DEF Wait, At, Goto
    <3>2. UNCHANGED <<wakeCount, curTask, pendSV>> /\ wakeThreshold'[t] = Inc(count[t])
          /\ \A u \in Task \ {t} : wakeThreshold'[u] = wakeThreshold[u]
      BY <1>0, <2>0, <3>1 DEF WaitFor, KernelTypeOK
    <3>3. CASE pc'[t] = "asleep"
      BY <3>1, <3>2, <3>3 DEF Runs, HighestAwakeRuns
    <3>4. CASE pc'[t] # "asleep"
      <4>1. IsWoke(t)' /\ IsWoke(t)
        BY <3>1, <3>2, <3>4, RunnerAwake DEF IsWoke
      <4>2. \A u \in Awake' : u \in Awake
        BY <3>2, <4>1 DEF Awake, IsWoke
      <4> QED BY <1>3, <3>1, <3>2, <4>1, <4>2
    <3> QED BY <3>3, <3>4
  <2>5. CASE WakeWaiter(t)
    <3>1. /\ Runs(t) /\ pc[t] = "wake" /\ pc'[t] = "scan" /\ UNCHANGED <<curTask, pendSV>>
          /\ curTask = t
      BY <1>0, <2>0, <2>5 DEF WakeWaiter, At, Goto, Runs
    <3>2. CASE woke[t]
      <4>1. woke'[t]
        BY <2>5, <3>2 DEF WakeWaiter
      <4> QED BY <3>1, <4>1 DEF HighestAwakeRuns
    <3>3. CASE ~woke[t]
      <4>1. Wake({task[t]}) /\ woke'[t] = WakeTells(task[t])
        BY <1>0, <2>0, <2>5, <3>3 DEF WakeWaiter, Set
      <4>2. CASE woke'[t]
        BY <3>1, <4>2 DEF HighestAwakeRuns
      <4>3. CASE ~woke'[t]
        <5>1. ~WakeTells(task[t])
          BY <4>1, <4>3
        <5>2. IsWoke(t) /\ IsWoke(t)'
          BY <1>0, <2>0, <3>1, <4>1, RunnerAwake, Woken DEF WakesInv
        <5>3. ASSUME NEW u \in Awake', u \notin Awake PROVE Prio[u] <= Prio[t]
          <6>1. u \in Task /\ IsWoke(u)' /\ ~IsWoke(u)
            BY <5>3 DEF Awake
          <6>2. u = task[t]
            BY <4>1, <6>1 DEF Wake, IsWoke
          <6>3. ~(Prio[u] > Prio[t])
            BY <2>0, <3>1, <4>1, <5>1, <6>1, <6>2, TellsTrue
          <6>4. Prio[u] \in Nat /\ Prio[t] \in Nat
            BY <2>0, <6>1, PrioAssumption
          <6> QED BY <6>3, <6>4
        <5> QED BY <1>3, <3>1, <3>3, <5>2, <5>3
      <4> QED BY <4>2, <4>3
    <3> QED BY <3>2, <3>3
  <2> QED BY <1>4, <2>1, <2>2, <2>3, <2>4, <2>5 DEF ThreadStep, LocalStep
<1>5. ASSUME NEW t \in Client, Interrupt(t), ~pendSV' PROVE HighestAwakeRuns'
  <2>1. /\ Wake({t}) /\ ~WakeTells(t) /\ UNCHANGED <<curTask, pendSV, pc, woke>>
        /\ t \in Task
    BY <1>5 DEF Interrupt, IsrWake, locals, Client
  <2>2. \A u \in Task : IsWoke(u) => IsWoke(u)'
    BY <1>0, <2>1, Woken DEF WakesInv
  <2>3. ASSUME curTask # 0, NEW u \in Awake', u \notin Awake
        PROVE  Prio[u] <= Prio[curTask]
    <3>1. u \in Task /\ IsWoke(u)' /\ ~IsWoke(u)
      BY <2>3 DEF Awake
    <3>2. u = t
      BY <2>1, <3>1 DEF Wake, IsWoke
    <3>3. ~(Prio[u] > Prio[curTask])
      BY <2>1, <2>3, <3>1, <3>2, TellsTrue
    <3>4. Prio[u] \in Nat /\ Prio[curTask] \in Nat
      BY <1>0, <2>3, <3>1, PrioAssumption DEF KernelTypeOK, Task
    <3> QED BY <3>3, <3>4
  <2>4. Awake \subseteq Awake'
    BY <2>2 DEF Awake
  <2>5. ~pendSV
    BY <1>5, <2>1
  <2> QED BY <2>1, <2>3, <2>4, <2>5 DEF WakesInv, HighestAwakeRuns
<1>6. CASE Switch
  <2>1. Idle \in Awake'
    BY NAssumption DEF Counters, Awake
  <2>2. curTask' \in Awake' /\ \A u \in Awake' : Prio[u] <= Prio[curTask']
    BY <1>0, <1>6, <2>1, PendSVBest DEF Switch
  <2> QED BY <2>2 DEF HighestAwakeRuns
<1>7. CASE Start
  BY <1>1, <1>7 DEF Start, Resched
<1>8. CASE UNCHANGED vars
  BY <1>2, <1>8 DEF vars, kernel, locals
<1> QED BY <1>1, <1>4, <1>5, <1>6, <1>7, <1>8 DEF Next

-----------------------------------------------------------------------------
(* Who is preferred to whom.                                               *)

LEMMA BeatsOneWay ==
  ASSUME NEW t \in Task, NEW u \in Task, Beats(t, u)
  PROVE  ~Beats(u, t)
<1>1. Prio[t] \in Nat /\ Prio[u] \in Nat /\ t \in Nat /\ u \in Nat
  BY PrioAssumption DEF Task
<1> QED BY <1>1 DEF Beats

LEMMA PreemptedStep ==
  ASSUME WakesInv, [Next]_vars
  PROVE  Preempted'
<1>0. KernelTypeOK /\ pc \in [Task -> {"out", "add", "count", "try", "wait", "asleep", "cs",
                                       "scan", "wake", "event_out", "event_cs"}]
  BY DEF WakesInv, Inv, TypeOK
<1>1. ASSUME UNCHANGED <<pc, curTask>> PROVE Preempted'
  BY <1>1 DEF WakesInv, Preempted, Beats
<1>2. ASSUME NEW t \in Client, ThreadStep(t) PROVE Preempted'
  <2>0. t \in Task
    BY DEF Client
  <2>1. curTask = t
    BY <1>2 DEF ThreadStep, LockCall, AddWaiter, Refused, TakeCount, TryAgain, Wait,
           ReschedAndSleep, Unlock, ScanSlot, WakeWaiter, ScanDone, EventWait, EventResched,
           At, Runs
  <2>2. UNCHANGED curTask
    <3>1. CASE LocalStep(t)
      BY <3>1, LocalSame
    <3>2. CASE Wait(t) \/ EventWait(t) \/ WakeWaiter(t)
      BY <3>2 DEF Wait, EventWait, WakeWaiter, WaitFor
    <3> QED BY <1>2, <3>1, <3>2 DEF ThreadStep, LocalStep
  <2>3. \A u \in Task \ {t} : pc'[u] = pc[u]
    BY <1>0, <1>2, <2>0
       DEF ThreadStep, LockCall, AddWaiter, Refused, TakeCount, TryAgain, Wait,
           ReschedAndSleep, Unlock, ScanSlot, WakeWaiter, ScanDone, EventWait, EventResched,
           Goto
  <2> QED BY <2>1, <2>2, <2>3 DEF WakesInv, Preempted, Beats
<1>3. CASE Switch
  <2> DEFINE awake == {t \in Task : IsWokeAt(wakeThreshold'[t], wakeCount'[t])}
  <2>1. curTask' = TaskToRun(awake, curTask) /\ UNCHANGED pc
    BY <1>3 DEF Switch, PendSV
  <2>2. UNCHANGED <<wakeCount, wakeThreshold>>
    BY <1>3, SwitchKeeps DEF WakesInv
  <2>3. awake = Awake
    BY <2>2 DEF Awake, IsWoke
  <2>4. Awake \in SUBSET Task /\ curTask \in 0 .. N
    BY <1>0 DEF Awake, KernelTypeOK
  <2> HIDE DEF awake
  <2>5. ASSUME NEW u \in Task, pc'[u] \in MidCode, curTask' \notin {0, u}
        PROVE  Beats(curTask', u)
    <3>1. u \in Awake
      BY <2>1, <2>5 DEF WakesInv, Sleepers, MaySleep, MidCode, Counting, Awake
    <3>2. CASE curTask' = curTask
      BY <2>1, <2>5, <3>2 DEF WakesInv, Preempted
    <3>3. CASE curTask' # curTask
      BY <2>1, <2>3, <2>4, <2>5, <3>1, <3>3, TaskToRunPrefers DEF Beats
    <3> QED BY <3>2, <3>3
  <2> QED BY <2>5 DEF Preempted, Beats
<1>4. CASE \E t \in Client : Interrupt(t)
  BY <1>1, <1>4 DEF Interrupt, IsrWake
<1>5. CASE Start
  BY <1>1, <1>5 DEF Start, Resched
<1>6. CASE UNCHANGED vars
  BY <1>1, <1>6 DEF vars, kernel
<1> QED BY <1>2, <1>3, <1>4, <1>5, <1>6 DEF Next

\* While t runs no other task is about to wake it that would be preferred
\* to it.
LEMMA NoneAhead ==
  ASSUME WakesInv, NEW t \in Client, Runs(t), NEW u \in Client \ {t}, pc[u] \in MidCode
  PROVE  Beats(t, u) /\ ~Beats(u, t)
<1>1. t \in Task /\ u \in Task /\ t # 0
  BY DEF Client, Task
<1>2. Beats(t, u)
  BY <1>1 DEF WakesInv, Preempted, Runs
<1> QED BY <1>1, <1>2, BeatsOneWay

LEMMA SlotStaysStep ==
  ASSUME WakesInv, [Next]_vars
  PROVE  SlotStays'
<1> USE DEF Goto, Set
<1>0. /\ pc \in [Task -> {"out", "add", "count", "try", "wait", "asleep", "cs",
                          "scan", "wake", "event_out", "event_cs"}]
      /\ waiters \in [Slot -> 0 .. N] /\ task \in [Task -> 0 .. N]
      /\ slot \in [Task -> 1 .. WaitersMax + 1]
      /\ \A u \in Task : pc[u] = "wake" => slot[u] \in Slot
      /\ SlotStays
      /\ \A u \in Client : u \in Task /\ u # 0
  <2>1. ASSUME NEW u \in Task, pc[u] = "wake" PROVE slot[u] \in Slot
    BY <2>1 DEF WakesInv, Inv, ScanInBounds, TypeOK, Slot
  <2> QED BY <2>1 DEF WakesInv, Inv, TypeOK, Client, Task
<1>1. ASSUME UNCHANGED <<pc, lock, locals>> PROVE SlotStays'
  BY <1>0, <1>1 DEF SlotStays, lock, locals, Beats
<1>2. ASSUME NEW t \in Client, ThreadStep(t), NEW u \in Client \ {t}, pc'[u] = "wake"
      PROVE  task'[u] \in Client /\ (Beats(u, task'[u]) => waiters'[slot'[u]] = task'[u])
  <2>0. t \in Task /\ u \in Task /\ u # t
    BY <1>0
  <2>1. pc[u] = "wake" /\ task'[u] = task[u] /\ slot'[u] = slot[u]
    BY <1>0, <1>2, <2>0
       DEF ThreadStep, LockCall, AddWaiter, Refused, TakeCount, TryAgain, Wait,
           ReschedAndSleep, Unlock, ScanSlot, WakeWaiter, ScanDone, EventWait, EventResched,
           locals
  <2>2. task[u] \in Client /\ (Beats(u, task[u]) => waiters[slot[u]] = task[u]) /\ slot[u] \in Slot
    BY <1>0, <2>0, <2>1 DEF SlotStays
  <2>3. CASE waiters'[slot[u]] = waiters[slot[u]]
    BY <2>1, <2>2, <2>3
  <2>4. CASE waiters'[slot[u]] # waiters[slot[u]]
    <3>1. AddWaiter(t) \/ ScanSlot(t)
      BY <1>2, <2>4
         DEF ThreadStep, LockCall, Refused, TakeCount, TryAgain, Wait,
             ReschedAndSleep, Unlock, WakeWaiter, ScanDone, EventWait, EventResched, lock
    <3>2. waiters[slot[u]] = 0 \/ waiters[slot[u]] = t
      BY <1>0, <2>2, <2>4, <3>1 DEF AddWaiter, ScanSlot
    <3>3. Runs(t)
      BY <3>1 DEF AddWaiter, ScanSlot, At
    <3>4. ~Beats(u, t)
      BY <2>1, <3>3, NoneAhead DEF MidCode
    <3>5. ~Beats(u, task[u])
      BY <1>0, <2>2, <3>2, <3>4
    <3> QED BY <2>1, <2>2, <3>5
  <2> QED BY <2>3, <2>4
<1>3. ASSUME NEW t \in Client, ThreadStep(t), pc'[t] = "wake"
      PROVE  task'[t] \in Client /\ waiters'[slot'[t]] = task'[t]
  <2>0. t \in Task
    BY <1>0
  <2>1. ScanSlot(t)
    BY <1>0, <1>3, <2>0
       DEF ThreadStep, LockCall, AddWaiter, Refused, TakeCount, TryAgain, Wait,
           ReschedAndSleep, Unlock, WakeWaiter, ScanDone, EventWait, EventResched, At
  <2>2. slot[t] \in Slot /\ pc[t] = "scan"
    BY <1>0, <2>0, <2>1 DEF ScanSlot, At, Slot
  <2>3. task'[t] = waiters[slot[t]] /\ waiters[slot[t]] # 0 /\ UNCHANGED <<waiters, slot>>
    BY <1>0, <1>3, <2>0, <2>1, <2>2 DEF ScanSlot
  <2>4. waiters[slot[t]] \in Client
    BY <2>2, <2>3 DEF WakesInv, OwnSlots, MayOwn
  <2> QED BY <2>3, <2>4
<1>4. ASSUME NEW t \in Client, ThreadStep(t) PROVE SlotStays'
  <2> SUFFICES ASSUME NEW u \in Client, pc'[u] = "wake"
               PROVE  task'[u] \in Client /\ (Beats(u, task'[u]) => waiters'[slot'[u]] = task'[u])
    BY DEF SlotStays, Beats
  <2>1. CASE u = t
    BY <1>3, <1>4, <2>1
  <2>2. CASE u # t
    BY <1>2, <1>4, <2>2
  <2> QED BY <2>1, <2>2
<1>5. CASE Switch \/ Start \/ \E t \in Client : Interrupt(t)
  BY <1>1, <1>5 DEF Switch, Start, Interrupt
<1>6. CASE UNCHANGED vars
  BY <1>1, <1>6 DEF vars
<1> QED BY <1>4, <1>5, <1>6 DEF Next

-----------------------------------------------------------------------------
(* Wakes since and to come.                                                *)

LEMMA WakersFinite ==
  ASSUME NEW t \in Client
  PROVE  /\ IsFiniteSet(Wakers(t)) /\ Cardinality(Wakers(t)) \in Nat
         /\ IsFiniteSet(Wakers(t)') /\ Cardinality(Wakers(t)') \in Nat
         /\ Cardinality(Wakers(t)') + 1 <= K
<1>1. Wakers(t) \in SUBSET (Client \ {t}) /\ Wakers(t)' \in SUBSET (Client \ {t})
  BY DEF Wakers, StillWakes
<1>2. /\ IsFiniteSet(Client \ {t}) /\ Cardinality(Client \ {t}) = K - 1
      /\ K \in Nat
  BY ClientFinite, FS_RemoveElement DEF K
<1> QED BY <1>1, <1>2, FS_Subset, FS_CardinalityType

LEMMA FewerWakers ==
  ASSUME NEW t \in Client, Wakers(t)' \subseteq Wakers(t)
  PROVE  /\ Cardinality(Wakers(t)') <= Cardinality(Wakers(t))
         /\ \A u \in Wakers(t) \ Wakers(t)' : Cardinality(Wakers(t)') + 1 <= Cardinality(Wakers(t))
<1>1. Wakers(t)' \in SUBSET Wakers(t)
  OBVIOUS
<1>2. Cardinality(Wakers(t)') <= Cardinality(Wakers(t))
  BY <1>1, WakersFinite, FS_Subset
<1>3. ASSUME NEW u \in Wakers(t) \ Wakers(t)'
      PROVE  Cardinality(Wakers(t)') + 1 <= Cardinality(Wakers(t))
  <2>1. Wakers(t)' \in SUBSET (Wakers(t) \ {u})
    BY <1>1, <1>3
  <2>2. /\ IsFiniteSet(Wakers(t) \ {u})
        /\ Cardinality(Wakers(t) \ {u}) = Cardinality(Wakers(t)) - 1
    BY <1>3, WakersFinite, FS_RemoveElement
  <2>3. Cardinality(Wakers(t)') <= Cardinality(Wakers(t)) - 1
    BY <2>1, <2>2, FS_Subset
  <2> QED BY <2>3, WakersFinite
<1> QED BY <1>2, <1>3

LEMMA SessionRoom ==
  ASSUME FewWakes, Inv, NEW t \in Client, burst[t] # None, RoomForWakes(t)
  PROVE  /\ burst[t] + Cardinality(InSession \ {t}) + 1 <= MaxBurst
         /\ IsFiniteSet(InSession \ {t}) /\ Cardinality(InSession \ {t}) \in Nat
         /\ burst[t] \in Nat
<1>1. InSession \ {t} \in SUBSET Client
  BY DEF InSession
<1>2. IsFiniteSet(InSession \ {t}) /\ Cardinality(InSession \ {t}) \in Nat
  BY <1>1, ClientFinite, FS_Subset, FS_CardinalityType
<1>3. burst[t] \in Nat
  BY DEF Inv, TypeOK, KernelTypeOK, None, Client
<1>4. burst[t] + Cardinality(InSession \ {t}) < MaxBurst
  BY DEF RoomForWakes
<1> QED BY <1>2, <1>3, <1>4 DEF FewWakes

\* Of what a task's step changes for others only the wakes themselves count.
LEMMA OthersKept ==
  ASSUME WakesInv, NEW t \in Client, ThreadStep(t), NEW u \in Client \ {t}
  PROVE  /\ pc'[u] = pc[u] /\ slot'[u] = slot[u] /\ task'[u] = task[u]
         /\ count'[u] = count[u] /\ woke'[u] = woke[u]
         /\ \A i \in Slot : waiters'[i] = u => waiters[i] = u
         /\ pc[u] \in Queued => \A i \in Slot : waiters[i] = u => waiters'[i] = u
<1>0. /\ pc \in [Task -> {"out", "add", "count", "try", "wait", "asleep", "cs",
                          "scan", "wake", "event_out", "event_cs"}]
      /\ waiters \in [Slot -> 0 .. N] /\ task \in [Task -> 0 .. N]
      /\ slot \in [Task -> 1 .. WaitersMax + 1] /\ count \in [Task -> Counter]
      /\ woke \in [Task -> BOOLEAN]
      /\ t \in Task /\ u \in Task /\ u # t /\ u # 0
  <2>1. TypeOK
    BY DEF WakesInv, Inv
  <2>2. t \in Task /\ u \in Task /\ u # t /\ u # 0
    BY DEF Client, Task
  <2> QED BY <2>1, <2>2 DEF TypeOK
<1>1. pc'[u] = pc[u] /\ slot'[u] = slot[u] /\ task'[u] = task[u]
  BY <1>0 DEF ThreadStep, LockCall, AddWaiter, Refused, TakeCount, TryAgain, Wait,
       ReschedAndSleep, Unlock, ScanSlot, WakeWaiter, ScanDone, EventWait, EventResched,
       Goto, Set, locals
<1>2. count'[u] = count[u] /\ woke'[u] = woke[u]
  BY <1>0 DEF ThreadStep, LockCall, AddWaiter, Refused, TakeCount, TryAgain, Wait,
       ReschedAndSleep, Unlock, ScanSlot, WakeWaiter, ScanDone, EventWait, EventResched,
       Goto, Set, locals
<1>3. ASSUME NEW i \in Slot PROVE waiters'[i] = u <=> waiters[i] = u
  <2>1. CASE AddWaiter(t)
    <3>1. slot[t] \in Slot
      BY <1>0, <2>1 DEF AddWaiter, Slot
    <3> QED BY <1>0, <2>1, <3>1 DEF AddWaiter, Set
  <2>2. CASE ScanSlot(t)
    <3>1. slot[t] \in Slot
      BY <1>0, <2>2 DEF ScanSlot, Slot
    <3> QED BY <1>0, <2>2, <3>1 DEF ScanSlot, Set
  <2>3. CASE ~AddWaiter(t) /\ ~ScanSlot(t)
    <3>1. UNCHANGED waiters
      BY <2>3 DEF ThreadStep, LockCall, Refused, TakeCount, TryAgain, Wait,
           ReschedAndSleep, Unlock, WakeWaiter, ScanDone, EventWait, EventResched, lock
    <3> QED BY <3>1
  <2> QED BY <2>1, <2>2, <2>3
<1> QED BY <1>1, <1>2, <1>3

LEMMA WakersShrink ==
  ASSUME WakesInv, NEW t \in Client, ThreadStep(t), ~LockCall(t), NEW u \in Client \ {t}
  PROVE  Wakers(u)' \subseteq Wakers(u)
<1>0. /\ pc \in [Task -> {"out", "add", "count", "try", "wait", "asleep", "cs",
                          "scan", "wake", "event_out", "event_cs"}]
      /\ slot \in [Task -> 1 .. WaitersMax + 1] /\ task \in [Task -> 0 .. N]
      /\ \A v \in Client : v \in Task /\ v # 0
  <2>1. TypeOK
    BY DEF WakesInv, Inv
  <2>2. \A v \in Client : v \in Task /\ v # 0
    BY DEF Client, Task
  <2> QED BY <2>1, <2>2 DEF TypeOK
<1>1. \A i \in Slot : waiters'[i] = u => waiters[i] = u
  BY OthersKept
<1>2. SUFFICES ASSUME NEW v \in Client, StillWakes(v, u)' PROVE StillWakes(v, u)
  BY DEF Wakers
<1>3. CASE v # t
  <2>1. pc'[v] = pc[v] /\ slot'[v] = slot[v] /\ task'[v] = task[v]
    BY <1>3, OthersKept
  <2> QED BY <1>1, <1>2, <2>1 DEF StillWakes
<1>4. CASE v = t
  <2>1. pc'[t] \notin {"out", "event_out"}
    BY <1>2, <1>4 DEF StillWakes
  <2>2. pc[t] \notin {"out", "event_out"}
    BY <1>0, <2>1 DEF ThreadStep, AddWaiter, Refused, TakeCount, TryAgain, Wait,
         ReschedAndSleep, Unlock, ScanSlot, WakeWaiter, ScanDone, EventWait, EventResched,
         Goto, At
  <2>3. CASE pc[t] = "scan"
    <3>1. ScanSlot(t)
      BY <1>0, <2>1, <2>3 DEF ThreadStep, AddWaiter, Refused, TakeCount, TryAgain, Wait,
         ReschedAndSleep, Unlock, WakeWaiter, ScanDone, EventWait, EventResched, Goto, At
    <3>2. slot[t] \in Slot /\ slot[t] \in Nat
      BY <1>0, <3>1 DEF ScanSlot, Slot
    <3>3. \A i \in Slot : slot[t] + 1 <= i => slot[t] <= i
      BY <3>2 DEF Slot
    <3>4. \A i \in Slot : slot[t] < i => slot[t] <= i
      BY <3>2 DEF Slot
    <3>5. slot[t] <= slot[t]
      BY <3>2
    <3>6. CASE UNCHANGED pc /\ slot' = Set(slot, t, slot[t] + 1)
      <4>1. pc'[t] = "scan" /\ slot'[t] = slot[t] + 1
        BY <1>0, <2>3, <3>6 DEF Set
      <4>2. PICK i \in Slot : slot'[t] <= i /\ waiters'[i] = u
        BY <1>2, <1>4, <4>1 DEF StillWakes
      <4> QED BY <1>1, <1>2, <1>4, <2>2, <2>3, <3>3, <4>1, <4>2 DEF StillWakes
    <3>7. CASE /\ task' = Set(task, t, waiters[slot[t]]) /\ Goto(t, "wake")
               /\ UNCHANGED <<waiters, slot>>
      <4>1. pc'[t] = "wake" /\ task'[t] = waiters[slot[t]]
        BY <1>0, <3>7 DEF Set, Goto
      <4>2. waiters[slot[t]] = u \/ \E i \in Slot : slot[t] < i /\ waiters[i] = u
        BY <1>2, <1>4, <3>7, <4>1 DEF StillWakes
      <4>3. \E i \in Slot : slot[t] <= i /\ waiters[i] = u
        BY <3>2, <3>4, <3>5, <4>2
      <4> QED BY <1>2, <1>4, <2>2, <2>3, <4>3 DEF StillWakes
    <3> QED BY <3>1, <3>6, <3>7 DEF ScanSlot
  <2>4. CASE pc[t] = "wake"
    <3>1. WakeWaiter(t)
      BY <1>0, <2>1, <2>4 DEF ThreadStep, AddWaiter, Refused, TakeCount, TryAgain, Wait,
         ReschedAndSleep, Unlock, ScanSlot, ScanDone, EventWait, EventResched, Goto, At
    <3>2. pc'[t] = "scan" /\ slot'[t] = slot[t] + 1 /\ UNCHANGED waiters /\ slot[t] \in Nat
      BY <1>0, <3>1 DEF WakeWaiter, Set, Goto, lock
    <3>3. PICK i \in Slot : slot[t] + 1 <= i /\ waiters[i] = u
      BY <1>2, <1>4, <3>2 DEF StillWakes
    <3>4. slot[t] < i
      BY <3>2, <3>3 DEF Slot
    <3> QED BY <1>2, <1>4, <2>2, <2>4, <3>3, <3>4 DEF StillWakes
  <2>5. CASE pc[t] \notin {"scan", "wake"}
    BY <1>4, <2>2, <2>5 DEF StillWakes
  <2> QED BY <2>3, <2>4, <2>5
<1> QED BY <1>3, <1>4

\* The task that unlocks has read its victim's slot and goes past it.
LEMMA WakesOnce ==
  ASSUME WakesInv, NEW t \in Client, WakeWaiter(t), NEW u \in Client \ {t},
         pc[u] \in Counting, task[t] = u
  PROVE  t \in Wakers(u) \ Wakers(u)'
<1>0. /\ pc[t] = "wake" /\ Runs(t) /\ pc'[t] = "scan" /\ slot'[t] = slot[t] + 1
      /\ UNCHANGED waiters /\ slot[t] \in Slot /\ slot[t] \in Nat
  <2>1. /\ pc \in [Task -> {"out", "add", "count", "try", "wait", "asleep", "cs",
                            "scan", "wake", "event_out", "event_cs"}]
        /\ slot \in [Task -> 1 .. WaitersMax + 1] /\ t \in Task
    BY DEF WakesInv, Inv, TypeOK, Client
  <2>2. pc[t] = "wake" /\ Runs(t)
    BY DEF WakeWaiter, At
  <2>3. slot[t] <= WaitersMax
    BY <2>1, <2>2 DEF WakesInv, Inv, ScanInBounds
  <2> QED BY <2>1, <2>2, <2>3 DEF WakeWaiter, Goto, Set, lock, Slot
<1>1. Beats(t, u)
  BY <1>0, NoneAhead DEF MidCode
<1>2. waiters[slot[t]] = u
  BY <1>0, <1>1 DEF WakesInv, SlotStays
<1>3. u # 0
  BY DEF Client, Task
<1>4. \A i \in Slot : waiters[i] = u => i = slot[t]
  BY <1>0, <1>2, <1>3 DEF WakesInv, OwnSlots
<1>5. ~(slot[t] + 1 <= slot[t])
  BY <1>0
<1>6. ~\E i \in Slot : slot'[t] <= i /\ waiters'[i] = u
  BY <1>0, <1>4, <1>5
<1>7. t \notin Wakers(u)'
  BY <1>0, <1>6 DEF Wakers, StillWakes
<1>8. t \in Wakers(u)
  BY <1>0 DEF Wakers, StillWakes
<1> QED BY <1>7, <1>8

CountsOf(t) ==
  /\ pc[t] \in Counting <=> burst[t] # None
  /\ pc[t] \in Counting => /\ Consider(wakeCount[t], count[t]) = burst[t]
                           /\ burst[t] + Cardinality(Wakers(t)) <= MaxBurst

LEMMA CountsStep ==
  ASSUME FewWakes, WakesInv, [Next]_vars
  PROVE  Counts'
<1>0. /\ pc \in [Task -> {"out", "add", "count", "try", "wait", "asleep", "cs",
                          "scan", "wake", "event_out", "event_cs"}]
      /\ burst \in [Task -> 0 .. None] /\ wakeCount \in [Task -> Counter]
      /\ count \in [Task -> Counter]
      /\ \A v \in Client : v \in Task /\ v # 0
      /\ MaxBurst \in Nat /\ MaxBurst <= Half /\ MaxBurst < None - 1
      /\ Inv /\ KernelTypeOK
  BY DEF WakesInv, Inv, TypeOK, KernelTypeOK, Client, Task, FewWakes, None
<1>a. \A u \in Client : CountsOf(u)
  BY DEF WakesInv, Counts, CountsOf
<1>b. ASSUME NEW u \in Client, pc[u] \in Counting
      PROVE  /\ burst[u] \in 0 .. MaxBurst /\ burst[u] < None - 1
             /\ Consider(wakeCount[u], count[u]) = burst[u]
             /\ burst[u] \in 0 .. Half
             /\ burst[u] + Cardinality(Wakers(u)) <= MaxBurst
  <2>1. /\ Consider(wakeCount[u], count[u]) = burst[u]
        /\ burst[u] + Cardinality(Wakers(u)) <= MaxBurst
    BY <1>a, <1>b DEF CountsOf
  <2>2. burst[u] \in Nat /\ Cardinality(Wakers(u)) \in Nat
    BY <1>0, WakersFinite DEF None
  <2> QED BY <1>0, <2>1, <2>2 DEF None
<1>1. ASSUME NEW u \in Client, pc'[u] = pc[u], burst'[u] = burst[u],
             wakeCount'[u] = wakeCount[u], count'[u] = count[u],
             Wakers(u)' \subseteq Wakers(u)
      PROVE  CountsOf(u)'
  <2>1. Cardinality(Wakers(u)') <= Cardinality(Wakers(u))
    BY <1>1, FewerWakers
  <2>2. pc[u] \in Counting => burst[u] + Cardinality(Wakers(u)') <= MaxBurst
    BY <1>0, <1>b, <2>1, WakersFinite
  <2> QED BY <1>1, <1>a, <2>2 DEF CountsOf
<1>2. ASSUME NEW u \in Client, pc'[u] \notin Counting, burst'[u] = None
      PROVE  CountsOf(u)'
  BY <1>2 DEF CountsOf
<1>3. ASSUME NEW u \in Client, NEW S, Wake(S), u \in S, pc'[u] = pc[u], count'[u] = count[u],
             pc[u] \in Counting => burst[u] + Cardinality(Wakers(u)') + 1 <= MaxBurst
      PROVE  CountsOf(u)'
  <2>1. /\ wakeCount'[u] = Inc(wakeCount[u])
        /\ burst'[u] = IF burst[u] < None - 1 THEN burst[u] + 1 ELSE burst[u]
    BY <1>0, <1>3 DEF Wake
  <2>2. CASE pc[u] \in Counting
    <3>1. burst'[u] = burst[u] + 1 /\ burst'[u] # None
      BY <1>0, <1>b, <2>1, <2>2 DEF None
    <3>2. Consider(wakeCount'[u], count[u]) = burst[u] + 1
      BY <1>0, <1>b, <2>1, <2>2, OneMore
    <3>3. burst'[u] + Cardinality(Wakers(u)') <= MaxBurst
      BY <1>0, <1>3, <1>b, <2>2, <3>1, WakersFinite
    <3> QED BY <1>3, <2>2, <3>1, <3>2, <3>3 DEF CountsOf
  <2>3. CASE pc[u] \notin Counting
    <3>1. burst[u] = None
      BY <1>a, <2>3 DEF CountsOf
    <3>2. burst'[u] = None
      BY <2>1, <3>1 DEF None
    <3> QED BY <1>2, <1>3, <2>3, <3>2
  <2> QED BY <2>2, <2>3
<1>4. ASSUME NEW u \in Client, NEW S, Wake(S), u \notin S
      PROVE  wakeCount'[u] = wakeCount[u] /\ burst'[u] = burst[u]
  BY <1>0, <1>4 DEF Wake
<1>5. ASSUME UNCHANGED <<pc, lock, locals>> PROVE \A u \in Client : Wakers(u)' \subseteq Wakers(u)
  BY <1>5 DEF Wakers, StillWakes, lock, locals
<1>6. ASSUME UNCHANGED <<pc, lock, locals, burst, wakeCount>> PROVE Counts'
  <2>1. \A u \in Client : CountsOf(u)'
    BY <1>1, <1>5, <1>6 DEF locals
  <2> QED BY <2>1 DEF Counts, CountsOf
<1>7. ASSUME NEW t \in Client, ThreadStep(t), NEW u \in Client \ {t} PROVE CountsOf(u)'
  <2>0. t \in Task /\ u \in Task /\ u # t
    BY <1>0
  <2>1. pc'[u] = pc[u] /\ count'[u] = count[u]
    BY <1>7, OthersKept
  <2>2. CASE LockCall(t)
    <3>1. burst'[u] = burst[u] /\ wakeCount'[u] = wakeCount[u] /\ UNCHANGED <<waiters, task>>
          /\ RoomForWakes(u) /\ pc[t] = "out"
      BY <2>2 DEF LockCall, kernel, At
    <3>2. CASE pc[u] \in Counting
      <4>1. burst[u] # None
        BY <1>a, <3>2 DEF CountsOf
      <4>2. /\ burst[u] + Cardinality(InSession \ {u}) + 1 <= MaxBurst
            /\ IsFiniteSet(InSession \ {u}) /\ Cardinality(InSession \ {u}) \in Nat
            /\ burst[u] \in Nat
        BY <1>0, <3>1, <4>1, SessionRoom
      <4>3. Wakers(u)' \subseteq (InSession \ {u}) \cup {t}
        <5>1. \A v \in Client \ {t} : pc'[v] = pc[v]
          BY <1>7, OthersKept
        <5>2. SUFFICES ASSUME NEW v \in Client, v # t, StillWakes(v, u)' PROVE v \in InSession \ {u}
          BY DEF Wakers
        <5>3. pc'[v] = pc[v] /\ pc'[v] # "out" /\ v # u
          BY <5>1, <5>2 DEF StillWakes
        <5> QED BY <5>3 DEF InSession
      <4>4. /\ IsFiniteSet((InSession \ {u}) \cup {t})
            /\ Cardinality((InSession \ {u}) \cup {t}) <= Cardinality(InSession \ {u}) + 1
        <5>1. t \notin InSession
          BY <3>1 DEF InSession
        <5> QED BY <4>2, <5>1, FS_AddElement
      <4>5. Cardinality(Wakers(u)') <= Cardinality(InSession \ {u}) + 1
        <5>1. Cardinality(Wakers(u)') <= Cardinality((InSession \ {u}) \cup {t})
          BY <4>3, <4>4, FS_Subset
        <5> QED BY <4>2, <4>4, <5>1, FS_CardinalityType, WakersFinite
      <4>6. burst'[u] + Cardinality(Wakers(u)') <= MaxBurst
        BY <1>0, <3>1, <4>2, <4>5, WakersFinite
      <4> QED BY <1>a, <2>1, <3>1, <3>2, <4>1, <4>6 DEF CountsOf
    <3>3. CASE pc[u] \notin Counting
      <4>1. burst[u] = None
        BY <1>a, <3>3 DEF CountsOf
      <4> QED BY <1>2, <2>1, <3>1, <3>3, <4>1
    <3> QED BY <3>2, <3>3
  <2>3. CASE ~LockCall(t)
    <3>0. Wakers(u)' \subseteq Wakers(u)
      BY <1>7, <2>3, WakersShrink
    <3>1. CASE burst'[u] = burst[u] /\ wakeCount'[u] = wakeCount[u]
      BY <1>1, <2>1, <3>0, <3>1
    <3>2. CASE ~(burst'[u] = burst[u] /\ wakeCount'[u] = wakeCount[u])
      <4>1. WakeWaiter(t)
        <5>1. CASE TakeCount(t) \/ TryAgain(t) \/ Wait(t) \/ EventWait(t)
          BY <1>0, <2>0, <3>2, <5>1
             DEF TakeCount, TryAgain, Wait, EventWait, GetWakeCount, WaitFor, Set
        <5>2. CASE \/ LockCall(t) \/ AddWaiter(t) \/ Refused(t) \/ Unlock(t) \/ ScanSlot(t)
                   \/ ReschedAndSleep(t) \/ EventResched(t) \/ ScanDone(t)
          BY <3>2, <5>2 DEF LockCall, AddWaiter, Refused, Unlock, ScanSlot, ReschedAndSleep,
                            EventResched, ScanDone, Resched, kernel
        <5> QED BY <1>7, <5>1, <5>2 DEF ThreadStep
      <4>2. Wake({task[t]})
        BY <3>2, <4>1 DEF WakeWaiter
      <4>3. task[t] = u
        BY <1>4, <3>2, <4>2
      <4>4. ASSUME pc[u] \in Counting
            PROVE  burst[u] + Cardinality(Wakers(u)') + 1 <= MaxBurst
        <5>1. t \in Wakers(u) \ Wakers(u)'
          BY <4>1, <4>3, <4>4, WakesOnce
        <5>2. Cardinality(Wakers(u)') + 1 <= Cardinality(Wakers(u))
          BY <3>0, <5>1, FewerWakers
        <5>3. burst[u] + Cardinality(Wakers(u)) <= MaxBurst /\ burst[u] \in 0 .. MaxBurst
          BY <1>b, <4>4
        <5> QED BY <1>0, <5>2, <5>3, WakersFinite
      <4> QED BY <1>3, <2>1, <4>2, <4>3, <4>4
    <3> QED BY <3>1, <3>2
  <2> QED BY <2>2, <2>3
<1>8. ASSUME NEW t \in Client, ThreadStep(t) PROVE CountsOf(t)'
  <2>0. t \in Task
    BY <1>0
  <2>1. CASE TakeCount(t)
    <3>1. /\ pc'[t] = "try" /\ burst'[t] = 0 /\ wakeCount'[t] = wakeCount[t]
          /\ count'[t] = wakeCount[t]
      BY <1>0, <2>0, <2>1 DEF TakeCount, GetWakeCount, Goto, Set
    <3>2. Consider(wakeCount[t], wakeCount[t]) = 0
      BY <1>0, <2>0 DEF Consider, Counter
    <3>3. burst'[t] + Cardinality(Wakers(t)') <= MaxBurst
      BY <1>0, <3>1, WakersFinite, ClientFinite DEF FewWakes
    <3>4. 0 # None
      BY DEF None
    <3> QED BY <3>1, <3>2, <3>3, <3>4 DEF CountsOf, Counting
  <2>2. CASE TryAgain(t)
    <3>1. CASE pc' = [pc EXCEPT ![t] = "cs"] /\ burst' = [burst EXCEPT ![t] = None]
      BY <1>0, <1>2, <2>0, <3>1 DEF Counting
    <3>2. CASE pc' = [pc EXCEPT ![t] = "wait"] /\ UNCHANGED burst
      <4>1. /\ pc'[t] = "wait" /\ pc[t] = "try" /\ UNCHANGED <<burst, wakeCount, waiters, locals>>
            /\ \A u \in Client \ {t} : pc'[u] = pc[u]
        BY <1>0, <2>0, <2>2, <3>2 DEF TryAgain, At
      <4>2. Wakers(t)' \subseteq Wakers(t)
        BY <4>1 DEF Wakers, StillWakes, locals
      <4>3. Cardinality(Wakers(t)') <= Cardinality(Wakers(t))
        BY <4>2, FewerWakers
      <4>4. burst[t] + Cardinality(Wakers(t)') <= MaxBurst
        BY <1>0, <1>b, <4>1, <4>3, WakersFinite DEF Counting
      <4> QED BY <1>a, <4>1, <4>4 DEF CountsOf, Counting, locals
    <3> QED BY <2>2, <3>1, <3>2 DEF TryAgain, Goto, Set
  <2>3. CASE Wait(t) \/ EventWait(t)
    <3>1. pc'[t] \notin Counting /\ burst'[t] = None
      BY <1>0, <2>0, <2>3 DEF Wait, EventWait, WaitFor, Goto, Counting
    <3> QED BY <1>2, <3>1
  <2>4. CASE ~(TakeCount(t) \/ TryAgain(t) \/ Wait(t) \/ EventWait(t))
    <3>1. pc'[t] \notin Counting /\ pc[t] \notin Counting
      BY <1>0, <1>8, <2>0, <2>4
         DEF ThreadStep, LockCall, AddWaiter, Refused, ReschedAndSleep, Unlock, ScanSlot,
             WakeWaiter, ScanDone, EventResched, Goto, At, Counting
    <3>2. burst[t] = None
      BY <1>a, <3>1 DEF CountsOf
    <3>3. burst'[t] = None
      <4>1. CASE WakeWaiter(t)
        BY <2>0, <3>2, <4>1 DEF WakeWaiter, Wake, None
      <4>2. CASE ~WakeWaiter(t)
        BY <1>8, <2>4, <3>2, <4>2
           DEF ThreadStep, LockCall, AddWaiter, Refused, ReschedAndSleep, Unlock, ScanSlot,
               ScanDone, EventResched, Resched, kernel
      <4> QED BY <4>1, <4>2
    <3> QED BY <1>2, <3>1, <3>3
  <2> QED BY <2>1, <2>2, <2>3, <2>4
<1>9. ASSUME NEW t \in Client, ThreadStep(t) PROVE Counts'
  <2>1. ASSUME NEW u \in Client PROVE CountsOf(u)'
    <3>1. CASE u = t
      BY <1>8, <1>9, <3>1
    <3>2. CASE u # t
      BY <1>7, <1>9, <3>2
    <3> QED BY <3>1, <3>2
  <2> QED BY <2>1 DEF Counts, CountsOf
<1>10. ASSUME NEW t \in Client, Interrupt(t) PROVE Counts'
  <2>1. Wake({t}) /\ UNCHANGED <<pc, lock, locals>> /\ RoomForWakes(t) /\ UNCHANGED count
    BY <1>10 DEF Interrupt, IsrWake, locals
  <2>2. ASSUME pc[t] \in Counting PROVE burst[t] + Cardinality(Wakers(t)') + 1 <= MaxBurst
    <3>1. burst[t] # None
      BY <1>a, <2>2 DEF CountsOf
    <3>2. /\ burst[t] + Cardinality(InSession \ {t}) + 1 <= MaxBurst
          /\ IsFiniteSet(InSession \ {t}) /\ Cardinality(InSession \ {t}) \in Nat
          /\ burst[t] \in Nat
      BY <1>0, <2>1, <3>1, SessionRoom
    <3>3. Wakers(t)' \in SUBSET (InSession \ {t})
      BY <2>1 DEF Wakers, StillWakes, InSession
    <3>4. Cardinality(Wakers(t)') <= Cardinality(InSession \ {t})
      BY <3>2, <3>3, FS_Subset
    <3> QED BY <1>0, <3>2, <3>4, WakersFinite
  <2>3. ASSUME NEW u \in Client PROVE CountsOf(u)'
    <3>1. CASE u = t
      BY <1>3, <2>1, <2>2, <3>1
    <3>2. CASE u # t
      <4>1. wakeCount'[u] = wakeCount[u] /\ burst'[u] = burst[u]
        BY <1>4, <2>1, <3>2
      <4> QED BY <1>1, <1>5, <2>1, <4>1
    <3> QED BY <3>1, <3>2
  <2> QED BY <2>3 DEF Counts, CountsOf
<1>11. CASE Switch
  BY <1>6, <1>11, SwitchKeeps DEF Switch, WakesInv
<1>12. CASE Start
  BY <1>6, <1>12 DEF Start, Resched
<1>13. CASE UNCHANGED vars
  BY <1>6, <1>13 DEF vars, kernel
<1> QED BY <1>9, <1>10, <1>11, <1>12, <1>13 DEF Next

LEMMA InitWakes == Init => WakesInv
<1> SUFFICES ASSUME Init PROVE WakesInv
  OBVIOUS
<1>1. Inv
  BY InitInv
<1>2. OwnSlots
  BY DEF Init, OwnSlots
<1>3. \A t \in Task : Consider(wakeThreshold[t], wakeCount[t]) = 0
  BY DEF Init, KernelInit, Consider
<1>4. Counters
  BY <1>3, NAssumption DEF Counters, NotAtEdge, IsWoke, IsWokeAt, Init, KernelInit
<1>5. Sleepers
  BY <1>3 DEF Sleepers, IsWoke, IsWokeAt
<1>6. Preempted /\ SlotStays /\ Counts
  BY DEF Init, KernelInit, Preempted, SlotStays, Counts, MidCode, Counting, Client
<1>7. HighestAwakeRuns
  BY DEF Init, KernelInit, HighestAwakeRuns
<1> QED BY <1>1, <1>2, <1>4, <1>5, <1>6, <1>7 DEF WakesInv

LEMMA WakesInvStep ==
  ASSUME FewWakes, WakesInv, [Next]_vars
  PROVE  WakesInv'
<1>1. Inv' /\ OwnSlots'
  BY StepInv, OwnSlotsStep DEF WakesInv
<1>2. Counters'
  BY CountersStep
<1>3. Sleepers' /\ HighestAwakeRuns'
  BY <1>1, <1>2, SleepersStep, BestStep DEF Inv
<1>4. Preempted' /\ SlotStays' /\ Counts'
  BY PreemptedStep, SlotStaysStep, CountsStep
<1> QED BY <1>1, <1>2, <1>3, <1>4 DEF WakesInv

\* HighestAwakeRuns: between one RTResched that is due and the next the
\* processor is never with a task while one of a higher priority is awake.
THEOREM BestRuns ==
  ASSUME FewWakes
  PROVE  Spec => [](TypeOK /\ HighestAwakeRuns)
<1>1. WakesInv /\ [Next]_vars => WakesInv'
  BY WakesInvStep
<1>2. WakesInv => TypeOK /\ HighestAwakeRuns
  BY DEF WakesInv, Inv
<1> QED BY <1>1, <1>2, InitWakes, PTL DEF Spec

-----------------------------------------------------------------------------
(* Nobody sleeps on a free lock.                                           *)

\* A task that waits for the lock holds a slot, so that RTLockUnlock will
\* come to it.
HasSlot == \A t \in Client : pc[t] \in Queued => \E i \in Slot : waiters[i] = t

\* A task sleeps on, or will when it comes to its RTWait.
Stuck(t) == \/ pc[t] = "wait" /\ wakeCount[t] = count[t]
            \/ pc[t] \in {"asleep", "count"} /\ ~IsWoke(t)

\* A task will try to take the lock of its own accord.
WillTry(t) == \/ pc[t] \in {"asleep", "count", "try"} /\ IsWoke(t)
              \/ pc[t] = "wait" /\ wakeCount[t] # count[t]

\* The scan of u comes to t, and no wake before ends it: the next either goes
\* to a task that waits for the lock and then tries, or does not succeed.
WillWake(u, t) ==
  /\ ~woke[u]
  /\ \/ pc[u] = "scan" /\ \E i \in Slot : slot[u] <= i /\ waiters[i] = t
     \/ /\ pc[u] = "wake"
        /\ task[u] = t \/ \E i \in Slot : slot[u] < i /\ waiters[i] = t
        /\ pc[task[u]] \in Queued \/ Prio[task[u]] <= Prio[u]

FreeLock ==
  holder = 0 =>
    \A t \in Client : Stuck(t) => \E u \in Client : WillTry(u) \/ WillWake(u, t)

LEMMA HasSlotStep ==
  ASSUME WakesInv, HasSlot, [Next]_vars
  PROVE  HasSlot'
<1>0. /\ pc \in [Task -> {"out", "add", "count", "try", "wait", "asleep", "cs",
                          "scan", "wake", "event_out", "event_cs"}]
      /\ waiters \in [Slot -> 0 .. N] /\ slot \in [Task -> 1 .. WaitersMax + 1]
      /\ \A v \in Client : v \in Task
  BY DEF WakesInv, Inv, TypeOK, Client
<1>1. CASE UNCHANGED <<pc, lock, locals>>
  BY <1>1 DEF HasSlot, lock
<1>2. ASSUME NEW t \in Client, ThreadStep(t), NEW u \in Client, pc'[u] \in Queued
      PROVE  \E i \in Slot : waiters'[i] = u
  <2>1. CASE u # t
    <3>1. pc[u] \in Queued
      BY <1>2, <2>1, OthersKept
    <3>2. \E i \in Slot : waiters[i] = u
      BY <3>1 DEF HasSlot
    <3> QED BY <1>2, <2>1, <3>1, <3>2, OthersKept
  <2>2. CASE u = t
    <3>0. t \in Task
      BY <1>0
    <3>1. CASE AddWaiter(t)
      <4>1. slot[t] \in Slot
        BY <1>0, <3>0, <3>1 DEF AddWaiter, Slot
      <4>2. waiters' = [waiters EXCEPT ![slot[t]] = t]
        BY <1>0, <1>2, <2>2, <3>0, <3>1 DEF AddWaiter, At, Set, Queued
      <4>3. waiters'[slot[t]] = t
        BY <1>0, <4>1, <4>2
      <4> QED BY <2>2, <4>1, <4>3
    <3>2. CASE ~AddWaiter(t)
      <4>1. pc[t] \in Queued /\ UNCHANGED waiters
        BY <1>0, <1>2, <2>2, <3>0, <3>2
           DEF ThreadStep, LockCall, Refused, TakeCount, TryAgain, Wait, ReschedAndSleep,
               Unlock, ScanSlot, WakeWaiter, ScanDone, EventWait, EventResched, At, Goto,
               Queued, lock
      <4> QED BY <2>2, <4>1 DEF HasSlot
    <3> QED BY <3>1, <3>2
  <2> QED BY <2>1, <2>2
<1>3. ASSUME NEW t \in Client, ThreadStep(t) PROVE HasSlot'
  BY <1>2, <1>3 DEF HasSlot
<1> QED BY <1>1, <1>3 DEF Next, Switch, Start, Interrupt, vars

\* Before its RTWait a task has been woken exactly when its count shows it.
LEMMA WaitShows ==
  FewWakes /\ WakesInv =>
    \A t \in Client :
      /\ pc[t] = "wait" => (wakeCount[t] = count[t] <=> burst[t] = 0)
      /\ pc[t] \in Queued => (Stuck(t) <=> ~WillTry(t))
      /\ burst[t] \in Nat
      /\ pc[t] = "wait" => burst[t] < None - 1
      /\ pc[t] = "wait" /\ wakeCount[t] # count[t] => IsWokeAt(Inc(count[t]), wakeCount[t])
<1> SUFFICES ASSUME FewWakes, WakesInv, NEW t \in Client
             PROVE  /\ pc[t] = "wait" => (wakeCount[t] = count[t] <=> burst[t] = 0)
                    /\ pc[t] \in Queued => (Stuck(t) <=> ~WillTry(t))
                    /\ burst[t] \in Nat
                    /\ pc[t] = "wait" => burst[t] < None - 1
                    /\ pc[t] = "wait" /\ wakeCount[t] # count[t] =>
                         IsWokeAt(Inc(count[t]), wakeCount[t])
  OBVIOUS
<1>0. t \in Task /\ burst[t] \in Nat /\ wakeCount[t] \in Counter /\ count[t] \in Counter
  BY DEF WakesInv, Inv, TypeOK, KernelTypeOK, Client, None
<1>1. ASSUME pc[t] = "wait"
      PROVE  Consider(wakeCount[t], count[t]) \in 0 .. Half
             /\ Consider(wakeCount[t], count[t]) = burst[t] /\ burst[t] < None - 1
  <2>1. /\ Consider(wakeCount[t], count[t]) = burst[t]
        /\ burst[t] + Cardinality(Wakers(t)) <= MaxBurst
    BY <1>1 DEF WakesInv, Counts, Counting
  <2> QED BY <1>0, <2>1, WakersFinite DEF FewWakes, None
<1>2. pc[t] = "wait" => (wakeCount[t] = count[t] <=> burst[t] = 0)
                        /\ (wakeCount[t] # count[t] => IsWokeAt(Inc(count[t]), wakeCount[t]))
  BY <1>0, <1>1, NextWake
<1>3. pc[t] = "try" => IsWoke(t)
  BY <1>0 DEF WakesInv, Sleepers, MaySleep
<1>4. pc[t] \in Queued => (Stuck(t) <=> ~WillTry(t))
  BY <1>3 DEF Queued, Stuck, WillTry
<1> QED BY <1>0, <1>1, <1>2, <1>4

LEMMA WaitShowsNext ==
  FewWakes' /\ WakesInv' =>
    \A t \in Client : /\ pc'[t] = "wait" => (wakeCount'[t] = count'[t] <=> burst'[t] = 0)
                      /\ pc'[t] \in Queued => (Stuck(t)' <=> ~WillTry(t)')
<1>1. FewWakes /\ WakesInv =>
        \A t \in Client : /\ pc[t] = "wait" => (wakeCount[t] = count[t] <=> burst[t] = 0)
                          /\ pc[t] \in Queued => (Stuck(t) <=> ~WillTry(t))
  BY WaitShows
<1>2. FewWakes' /\ WakesInv' =>
       (\A t \in Client : /\ pc[t] = "wait" => (wakeCount[t] = count[t] <=> burst[t] = 0)
                          /\ pc[t] \in Queued => (Stuck(t) <=> ~WillTry(t)))'
  BY <1>1, PTL
<1> QED BY <1>2

\* A wake makes a task try, and no wake keeps one from trying.
LEMMA WakeTries ==
  ASSUME FewWakes, WakesInv, WakesInv', NEW t \in Client, pc'[t] = pc[t], count'[t] = count[t],
         NEW S, Wake(S), pc[t] \in Queued, t \in S \/ WillTry(t)
  PROVE  WillTry(t)'
<1>0. t \in Task /\ KernelTypeOK
  BY DEF Client, WakesInv, Inv, TypeOK
<1>2. FewWakes'
  BY DEF FewWakes
<1>3. pc[t] = "wait" => (wakeCount'[t] = count'[t] <=> burst'[t] = 0)
  BY <1>2, WaitShowsNext
<1>4. CASE pc[t] = "wait"
  <2>1. burst[t] \in Nat /\ burst[t] < None - 1 /\ (wakeCount[t] = count[t] <=> burst[t] = 0)
    BY <1>4, WaitShows
  <2>2. burst'[t] = IF t \in S THEN burst[t] + 1 ELSE burst[t]
    BY <1>0, <2>1 DEF Wake
  <2>3. t \in S \/ burst[t] # 0
    BY <1>4, <2>1 DEF WillTry
  <2>4. burst'[t] # 0
    BY <2>1, <2>2, <2>3
  <2> QED BY <1>3, <1>4, <2>4 DEF WillTry
<1>5. CASE pc[t] # "wait"
  <2>1. IsWoke(t)'
    BY <1>0, <1>5, Woken DEF WakesInv, WillTry
  <2> QED BY <1>5, <2>1 DEF WillTry, Queued
<1> QED BY <1>4, <1>5

LEMMA SameTries ==
  ASSUME NEW t \in Client, pc'[t] = pc[t], count'[t] = count[t],
         wakeCount'[t] = wakeCount[t], wakeThreshold'[t] = wakeThreshold[t]
  PROVE  (WillTry(t)' <=> WillTry(t)) /\ (Stuck(t)' <=> Stuck(t))
<1>1. IsWoke(t)' <=> IsWoke(t)
  BY DEF IsWoke
<1> QED BY <1>1 DEF WillTry, Stuck

\* What a step does to the counters of others than the task that takes it.
LEMMA OthersWoken ==
  ASSUME WakesInv, NEW t \in Client, ThreadStep(t), NEW u \in Client \ {t}
  PROVE  \/ wakeCount'[u] = wakeCount[u] /\ wakeThreshold'[u] = wakeThreshold[u]
         \/ WakeWaiter(t) /\ Wake({task[t]}) /\ task[t] = u
<1>0. t \in Task /\ u \in Task /\ u # t /\ KernelTypeOK
  BY DEF Client, WakesInv, Inv, TypeOK
<1>1. CASE LocalStep(t)
  BY <1>1, LocalSame
<1>2. CASE Wait(t) \/ EventWait(t)
  BY <1>0, <1>2 DEF Wait, EventWait, WaitFor, KernelTypeOK
<1>3. CASE WakeWaiter(t)
  <2>1. CASE task[t] = u
    BY <1>3, <2>1 DEF WakeWaiter
  <2>2. CASE task[t] # u
    BY <1>0, <1>3, <2>2 DEF WakeWaiter, Wake
  <2> QED BY <2>1, <2>2
<1> QED BY <1>1, <1>2, <1>3 DEF ThreadStep, LocalStep

LEMMA OthersTry ==
  ASSUME FewWakes, WakesInv, WakesInv', NEW t \in Client, ThreadStep(t),
         NEW u \in Client \ {t}, WillTry(u)
  PROVE  WillTry(u)'
<1>1. pc'[u] = pc[u] /\ count'[u] = count[u]
  BY OthersKept
<1>2. pc[u] \in Queued
  BY DEF WillTry, Queued
<1> QED BY <1>1, <1>2, OthersWoken, SameTries, WakeTries

\* What a task's own step makes of its trying: it tries, takes the lock, or
\* will sleep on as before.
LEMMA OwnTries ==
  ASSUME FewWakes, WakesInv, WakesInv', NEW t \in Client, ThreadStep(t), holder' = 0, ~Unlock(t)
  PROVE  /\ holder = 0
         /\ WillTry(t) => WillTry(t)'
         /\ Stuck(t)' => Stuck(t)
         /\ Stuck(t)' => UNCHANGED waiters
         /\ pc[t] \in Queued => pc'[t] \in Queued
<1>0. /\ pc \in [Task -> {"out", "add", "count", "try", "wait", "asleep", "cs",
                          "scan", "wake", "event_out", "event_cs"}]
      /\ count \in [Task -> Counter] /\ wakeThreshold \in [Task -> Counter]
      /\ t \in Task /\ t # 0
  <2>1. t \in Task /\ t # 0
    BY DEF Client, Task
  <2> QED BY <2>1 DEF WakesInv, Inv, TypeOK, KernelTypeOK
<1>1. CASE pc[t] \in {"out", "add", "cs", "event_out", "event_cs", "scan", "wake"}
  <2>1. holder = 0 /\ pc[t] \notin Queued /\ ~WillTry(t)
    BY <1>1 DEF ThreadStep, LockCall, AddWaiter, Refused, TakeCount, TryAgain, Wait,
                ReschedAndSleep, Unlock, ScanSlot, WakeWaiter, ScanDone, EventWait, EventResched,
                Acquires, Fails, At, Queued, WillTry, lock
  <2>2. CASE AddWaiter(t)
    <3>1. UNCHANGED <<wakeCount, wakeThreshold>> /\ Runs(t) /\ pc[t] = "add"
      BY <2>2 DEF AddWaiter, kernel, At
    <3>2. IsWoke(t) /\ IsWoke(t)'
      BY <1>0, <3>1, RunnerAwake, SameCounters
    <3>3. pc'[t] \in {"add", "count"}
      BY <1>0, <2>2, <3>1 DEF AddWaiter, Goto
    <3> QED BY <2>1, <3>2, <3>3 DEF Stuck
  <2>3. CASE ~AddWaiter(t)
    <3>1. pc'[t] \notin Queued
      BY <1>0, <1>1, <2>3
         DEF ThreadStep, LockCall, Refused, TakeCount, TryAgain, Wait, ReschedAndSleep,
             Unlock, ScanSlot, WakeWaiter, ScanDone, EventWait, EventResched, At, Goto, Queued
    <3> QED BY <2>1, <3>1 DEF Stuck, Queued
  <2> QED BY <2>2, <2>3
<1>2. CASE pc[t] = "count"
  <2>1. TakeCount(t)
    BY <1>2 DEF ThreadStep, LockCall, AddWaiter, Refused, TryAgain, Wait,
                ReschedAndSleep, Unlock, ScanSlot, WakeWaiter, ScanDone, EventWait, EventResched, At
  <2>2. /\ pc'[t] = "try" /\ UNCHANGED <<lock, wakeCount, wakeThreshold>> /\ Runs(t)
    BY <1>0, <2>1 DEF TakeCount, GetWakeCount, Goto, At
  <2>3. IsWoke(t)'
    BY <1>0, <1>2, <2>2, RunnerAwake, SameCounters
  <2> QED BY <2>2, <2>3 DEF WillTry, Stuck, lock, Queued
<1>3. CASE pc[t] = "try"
  <2>1. TryAgain(t)
    BY <1>3 DEF ThreadStep, LockCall, AddWaiter, Refused, TakeCount, Wait,
                ReschedAndSleep, Unlock, ScanSlot, WakeWaiter, ScanDone, EventWait, EventResched, At
  <2> QED BY <1>0, <2>1 DEF TryAgain, Acquires, Fails
<1>4. CASE pc[t] = "wait"
  <2>1. Wait(t)
    BY <1>4 DEF ThreadStep, LockCall, AddWaiter, Refused, TakeCount, TryAgain,
                ReschedAndSleep, Unlock, ScanSlot, WakeWaiter, ScanDone, EventWait, EventResched, At
  <2>2. /\ pc'[t] = IF IsWokeAt(Inc(count[t]), wakeCount[t]) THEN "count" ELSE "asleep"
        /\ UNCHANGED <<lock, wakeCount>> /\ wakeThreshold'[t] = Inc(count[t])
    BY <1>0, <2>1 DEF Wait, WaitFor, Goto
  <2>3. IsWoke(t)' <=> IsWokeAt(Inc(count[t]), wakeCount[t])
    BY <2>2 DEF IsWoke
  <2>4. wakeCount[t] # count[t] => IsWoke(t)'
    BY <1>4, <2>3, WaitShows
  <2>5. pc'[t] \in {"count", "asleep"}
    BY <2>2
  <2> QED BY <1>4, <2>2, <2>4, <2>5 DEF WillTry, Stuck, lock, Queued
<1>5. CASE pc[t] = "asleep"
  <2>1. ReschedAndSleep(t)
    BY <1>5 DEF ThreadStep, LockCall, AddWaiter, Refused, TakeCount, TryAgain, Wait,
                Unlock, ScanSlot, WakeWaiter, ScanDone, EventWait, EventResched, At
  <2>2. pc'[t] = "count" /\ UNCHANGED <<lock, wakeCount, wakeThreshold>>
    BY <1>0, <2>1 DEF ReschedAndSleep, Resched, Goto
  <2>3. IsWoke(t)' <=> IsWoke(t)
    BY <1>0, <2>2, SameCounters
  <2> QED BY <1>5, <2>2, <2>3 DEF WillTry, Stuck, lock, Queued
<1> QED BY <1>0, <1>1, <1>2, <1>3, <1>4, <1>5

\* A step of the task that is to wake t.
LEMMA ScanGoesOn ==
  ASSUME FewWakes, WakesInv, WakesInv', MutualExclusion, NEW t \in Client, ThreadStep(t),
         ~Unlock(t), holder = 0, NEW u \in Client \ {t}, WillWake(t, u), Stuck(u)'
  PROVE  \E v \in Client : WillTry(v)' \/ WillWake(v, u)'
<1>0. /\ pc \in [Task -> {"out", "add", "count", "try", "wait", "asleep", "cs",
                          "scan", "wake", "event_out", "event_cs"}]
      /\ slot \in [Task -> 1 .. WaitersMax + 1] /\ task \in [Task -> 0 .. N]
      /\ waiters \in [Slot -> 0 .. N] /\ woke \in [Task -> BOOLEAN]
      /\ t \in Task /\ t # 0 /\ u # t /\ u # 0
      /\ \A v \in Client : v \in Task /\ v # 0
  <2>1. TypeOK
    BY DEF WakesInv, Inv
  <2>2. t \in Task /\ t # 0 /\ u # t /\ u # 0 /\ \A v \in Client : v \in Task /\ v # 0
    BY DEF Client, Task
  <2> QED BY <2>1, <2>2 DEF TypeOK
<1>1. pc[u] = pc'[u] /\ pc[u] \in Queued
  <2>1. pc[u] = pc'[u]
    BY OthersKept
  <2> QED BY <2>1 DEF Stuck, Queued
<1>2. \A i \in Slot : waiters[i] = u => waiters'[i] = u
  BY <1>1, OthersKept
<1>3. ~woke[t]
  BY DEF WillWake
<1>4. CASE pc[t] = "scan"
  <2>1. PICK i \in Slot : slot[t] <= i /\ waiters[i] = u
    BY <1>4 DEF WillWake
  <2>2. ScanSlot(t) /\ Runs(t) /\ UNCHANGED woke
    <3>1. slot[t] <= WaitersMax
      <4>1. slot[t] \in Nat /\ i \in Nat /\ i <= WaitersMax
        BY <1>0 DEF Slot
      <4> QED BY <2>1, <4>1
    <3>2. ScanSlot(t)
      <4>1. ~ScanDone(t)
        <5>1. slot[t] \in Nat
          BY <1>0
        <5> QED BY <3>1, <5>1 DEF ScanDone
      <4> QED BY <1>4, <4>1 DEF ThreadStep, LockCall, AddWaiter, Refused, TakeCount, TryAgain,
                  Wait, ReschedAndSleep, Unlock, WakeWaiter, EventWait, EventResched, At
    <3> QED BY <3>2 DEF ScanSlot, At
  <2>3. slot[t] \in Slot /\ slot[t] \in Nat /\ i \in Nat
    BY <1>0, <2>2 DEF ScanSlot, Slot
  <2>4. CASE /\ waiters[slot[t]] \in {0, t} /\ UNCHANGED pc
             /\ slot' = Set(slot, t, slot[t] + 1)
    <3>1. i # slot[t] /\ slot'[t] = slot[t] + 1 /\ pc'[t] = "scan"
      BY <1>0, <1>4, <2>1, <2>4 DEF Set
    <3>2. slot'[t] <= i
      BY <2>1, <2>3, <3>1
    <3>3. WillWake(t, u)'
      BY <1>2, <1>3, <2>1, <2>2, <3>1, <3>2 DEF WillWake
    <3> QED BY <3>3
  <2>5. CASE /\ waiters[slot[t]] \notin {0, t} /\ UNCHANGED <<waiters, slot>>
             /\ task' = Set(task, t, waiters[slot[t]]) /\ Goto(t, "wake")
    <3> DEFINE x == waiters[slot[t]]
    <3>1. pc'[t] = "wake" /\ task'[t] = x
      BY <1>0, <2>5 DEF Set, Goto
    <3>2. x \in Client \ {t} /\ pc[x] \notin {"out", "add", "event_out"}
      BY <2>3, <2>5 DEF WakesInv, OwnSlots, MayOwn
    <3>3. pc'[x] = pc[x]
      BY <3>2, OthersKept
    <3>4. pc[x] \notin {"cs", "event_cs"}
      BY <1>0, <3>2 DEF MutualExclusion, InCs
    <3> HIDE DEF x
    <3>5. pc[x] \in Queued \/ pc[x] \in {"scan", "wake"}
      <4>1. pc[x] \in {"out", "add", "count", "try", "wait", "asleep", "cs",
                       "scan", "wake", "event_out", "event_cs"}
        BY <1>0, <3>2
      <4> QED BY <3>2, <3>4, <4>1 DEF Queued
    <3>6. pc[x] \in {"scan", "wake"} => Prio[x] <= Prio[t]
      <4>1. ASSUME pc[x] \in {"scan", "wake"} PROVE Beats(t, x)
        BY <2>2, <3>2, <4>1, NoneAhead DEF MidCode
      <4>2. Prio[x] \in Nat /\ Prio[t] \in Nat
        BY <1>0, <3>2, PrioAssumption
      <4> QED BY <4>1, <4>2 DEF Beats
    <3>7. x = u \/ slot[t] < i
      <4>1. slot[t] = i => x = u
        BY <2>1 DEF x
      <4> QED BY <2>1, <2>3, <4>1
    <3>8. slot'[t] = slot[t]
      BY <2>5
    <3>9. pc'[task'[t]] \in Queued \/ Prio[task'[t]] <= Prio[t]
      BY <3>1, <3>3, <3>5, <3>6
    <3>10. task'[t] = u \/ \E j \in Slot : slot'[t] < j /\ waiters'[j] = u
      BY <1>2, <2>1, <3>1, <3>7, <3>8
    <3>11. WillWake(t, u)'
      BY <1>3, <2>2, <3>1, <3>9, <3>10 DEF WillWake
    <3> QED BY <3>11
  <2> QED BY <2>2, <2>4, <2>5 DEF ScanSlot
<1>5. CASE pc[t] = "wake"
  <2>0. task[t] \in Client
    BY <1>5 DEF WakesInv, SlotStays
  <2>3. PICK x \in Client : x = task[t]
    BY <2>0
  <2>1. WakeWaiter(t)
    BY <1>5 DEF ThreadStep, LockCall, AddWaiter, Refused, TakeCount, TryAgain, Wait,
                ReschedAndSleep, Unlock, ScanSlot, ScanDone, EventWait, EventResched, At
  <2>2. /\ Wake({x}) /\ woke'[t] = WakeTells(x) /\ curTask = t
        /\ slot'[t] = slot[t] + 1 /\ pc'[t] = "scan" /\ UNCHANGED waiters
    BY <1>0, <1>3, <2>1, <2>3 DEF WakeWaiter, At, Runs, Set, Goto, lock
  <2>4. x = u \/ \E i \in Slot : slot[t] < i /\ waiters[i] = u
    BY <1>5, <2>3 DEF WillWake
  <2>5. pc[x] \in Queued \/ Prio[x] <= Prio[t]
    BY <1>5, <2>3 DEF WillWake
  <2>6. ASSUME pc[x] \in Queued PROVE WillTry(x)'
    <3>1. x # t
      BY <1>5, <2>6 DEF Queued
    <3>2. pc'[x] = pc[x] /\ count'[x] = count[x]
      BY <2>3, <3>1, OthersKept
    <3> QED BY <2>2, <2>3, <2>6, <3>2, WakeTries
  <2>7. CASE WakeTells(x)
    <3>1. Prio[x] > Prio[t]
      BY <1>0, <2>2, <2>7 DEF WakeTells
    <3>2. Prio[x] \in Nat /\ Prio[t] \in Nat
      BY <1>0, <2>3, PrioAssumption
    <3>3. ~(Prio[x] <= Prio[t])
      BY <3>1, <3>2
    <3> QED BY <2>3, <2>5, <2>6, <3>3
  <2>8. CASE ~WakeTells(x)
    <3>1. CASE x = u
      BY <1>1, <2>3, <2>6, <3>1
    <3>2. CASE x # u
      <4>1. PICK i \in Slot : slot[t] < i /\ waiters[i] = u
        BY <2>4, <3>2
      <4>2. slot[t] + 1 <= i
        <5>1. slot[t] \in Nat /\ i \in Nat
          BY <1>0 DEF Slot
        <5> QED BY <4>1, <5>1
      <4>3. WillWake(t, u)'
        BY <2>2, <2>8, <4>1, <4>2 DEF WillWake
      <4> QED BY <4>3
    <3> QED BY <3>1, <3>2
  <2> QED BY <2>7, <2>8
<1> QED BY <1>4, <1>5 DEF WillWake

LEMMA FreeLockStep ==
  ASSUME FewWakes, WakesInv, WakesInv', HasSlot, MutualExclusion, FreeLock, [Next]_vars
  PROVE  FreeLock'
<1> SUFFICES ASSUME holder' = 0, NEW u \in Client, Stuck(u)'
             PROVE  \E v \in Client : WillTry(v)' \/ WillWake(v, u)'
  BY DEF FreeLock
<1>0. /\ pc \in [Task -> {"out", "add", "count", "try", "wait", "asleep", "cs",
                          "scan", "wake", "event_out", "event_cs"}]
      /\ slot \in [Task -> 1 .. WaitersMax + 1] /\ woke \in [Task -> BOOLEAN]
      /\ \A v \in Client : v \in Task /\ v # 0
      /\ pc'[u] \in Queued /\ ~WillTry(u)'
  <2>1. pc'[u] \in Queued
    BY DEF Stuck, Queued
  <2>2. FewWakes'
    BY DEF FewWakes
  <2> QED BY <2>1, <2>2, WaitShowsNext DEF WakesInv, Inv, TypeOK, Client, Task
<1>1. ASSUME UNCHANGED <<pc, lock, locals, wakeCount, wakeThreshold>>
      PROVE  \E v \in Client : WillTry(v)' \/ WillWake(v, u)'
  <2>1. \A v \in Client : (WillTry(v)' <=> WillTry(v)) /\ (Stuck(v)' <=> Stuck(v))
    BY <1>1, SameTries DEF locals
  <2>2. PICK v \in Client : WillTry(v) \/ WillWake(v, u)
    BY <1>1, <2>1 DEF FreeLock, lock
  <2>3. WillWake(v, u)' <=> WillWake(v, u)
    BY <1>1 DEF WillWake, lock, locals
  <2> QED BY <2>1, <2>2, <2>3
<1>2. ASSUME NEW t \in Client, ThreadStep(t), Unlock(t)
      PROVE  \E v \in Client : WillTry(v)' \/ WillWake(v, u)'
  <2>1. /\ pc'[t] = "scan" /\ slot'[t] = 1 /\ ~woke'[t] /\ UNCHANGED waiters
    BY <1>0, <1>2 DEF Unlock, Goto, Set
  <2>2. u # t
    BY <1>0, <2>1 DEF Queued
  <2>3. pc[u] \in Queued
    BY <1>0, <1>2, <2>2, OthersKept
  <2>4. PICK i \in Slot : waiters[i] = u
    BY <2>3 DEF HasSlot
  <2>5. slot'[t] <= i
    BY <2>1 DEF Slot
  <2>6. WillWake(t, u)'
    BY <2>1, <2>4, <2>5 DEF WillWake
  <2> QED BY <2>6
<1>3. ASSUME NEW t \in Client, ThreadStep(t), ~Unlock(t)
      PROVE  \E v \in Client : WillTry(v)' \/ WillWake(v, u)'
  <2>1. /\ holder = 0
        /\ WillTry(t) => WillTry(t)'
        /\ Stuck(t)' => Stuck(t) /\ UNCHANGED waiters
        /\ pc[t] \in Queued => pc'[t] \in Queued
    BY <1>3, OwnTries
  <2>2. Stuck(u)
    <3>1. CASE u = t
      BY <2>1, <3>1
    <3>2. CASE u # t
      <4>1. pc[u] \in Queued
        BY <1>0, <1>3, <3>2, OthersKept
      <4>2. ~WillTry(u)
        BY <1>0, <1>3, <3>2, OthersTry
      <4> QED BY <4>1, <4>2, WaitShows
    <3> QED BY <3>1, <3>2
  <2>3. PICK v \in Client : WillTry(v) \/ WillWake(v, u)
    BY <2>1, <2>2 DEF FreeLock
  <2>4. CASE WillTry(v)
    <3>1. WillTry(v)'
      BY <1>3, <2>1, <2>4, OthersTry
    <3> QED BY <3>1
  <2>5. CASE WillWake(v, u) /\ v = t
    <3>1. u # t
      BY <2>2, <2>5 DEF Stuck, WillWake
    <3> QED BY <1>3, <2>1, <2>5, <3>1, ScanGoesOn
  <2>6. CASE WillWake(v, u) /\ v # t
    <3>1. /\ pc'[v] = pc[v] /\ slot'[v] = slot[v] /\ task'[v] = task[v] /\ woke'[v] = woke[v]
      BY <1>3, <2>6, OthersKept
    <3>2. \A i \in Slot : waiters[i] = u => waiters'[i] = u
      <4>1. CASE u = t
        BY <2>1, <4>1
      <4>2. CASE u # t
        <5>1. pc[u] \in Queued
          BY <2>2 DEF Stuck, Queued
        <5> QED BY <1>3, <4>2, <5>1, OthersKept
      <4> QED BY <4>1, <4>2
    <3>3. CASE pc[v] = "scan"
      BY <2>6, <3>1, <3>2, <3>3 DEF WillWake
    <3>4. CASE pc[v] = "wake"
      <4>1. task[v] \in Client
        BY <3>4 DEF WakesInv, SlotStays
      <4>2. pc[task[v]] \in Queued => pc'[task[v]] \in Queued
        BY <1>3, <2>1, <4>1, OthersKept
      <4> QED BY <2>6, <3>1, <3>2, <3>4, <4>2 DEF WillWake
    <3> QED BY <2>6, <3>3, <3>4 DEF WillWake
  <2> QED BY <2>3, <2>4, <2>5, <2>6
<1>4. ASSUME NEW t \in Client, Interrupt(t)
      PROVE  \E v \in Client : WillTry(v)' \/ WillWake(v, u)'
  <2>1. Wake({t}) /\ UNCHANGED <<pc, lock, locals>>
    BY <1>4 DEF Interrupt, IsrWake
  <2>2. ASSUME NEW v \in Client, WillTry(v) PROVE WillTry(v)'
    <3>1. pc[v] \in Queued
      BY <2>2 DEF WillTry, Queued
    <3> QED BY <2>1, <2>2, <3>1, WakeTries DEF locals
  <2>3. Stuck(u)
    BY <1>0, <2>1, <2>2, WaitShows
  <2>4. PICK v \in Client : WillTry(v) \/ WillWake(v, u)
    BY <2>1, <2>3 DEF FreeLock, lock
  <2>5. WillWake(v, u)' <=> WillWake(v, u)
    BY <2>1 DEF WillWake, lock, locals
  <2> QED BY <2>2, <2>4, <2>5
<1>5. CASE Switch
  BY <1>1, <1>5, SwitchKeeps DEF Switch, WakesInv
<1>6. CASE Start
  BY <1>1, <1>6 DEF Start, Resched
<1>7. CASE UNCHANGED vars
  BY <1>1, <1>7 DEF vars, kernel
<1> QED BY <1>2, <1>3, <1>4, <1>5, <1>6, <1>7 DEF Next

\* NoStrandedWaiter: however switches and handlers come between the steps of
\* RTLockLock and RTLockUnlock, and though an unlock stops waking after its
\* first success, a task sleeps on a free lock only while somebody is on the
\* way to take it or to wake a waiter.
THEOREM NobodyStranded ==
  ASSUME FewWakes, ClientChecks \/ Cardinality(Client) <= WaitersMax
  PROVE  Spec => []NoStrandedWaiter
<1> DEFINE I == WakesInv /\ HasSlot /\ FreeLock
<1>1. Init => I
  <2> SUFFICES ASSUME Init PROVE I
    OBVIOUS
  <2>1. \A t \in Client : pc[t] = "out"
    BY DEF Init, Client
  <2>2. HasSlot /\ FreeLock
    BY <2>1 DEF HasSlot, FreeLock, Stuck, Queued
  <2> QED BY <2>2, InitWakes
<1>2. MutualExclusion /\ I /\ [Next]_vars => I'
  <2>1. WakesInv /\ [Next]_vars => WakesInv'
    BY WakesInvStep
  <2> QED BY <2>1, HasSlotStep, FreeLockStep
<1>3. I => NoStrandedWaiter
  <2> SUFFICES ASSUME I, holder = 0, NEW t \in Client, SleepsOn(t) PROVE WakeAtWork
    BY DEF NoStrandedWaiter
  <2>1. Stuck(t) /\ t # 0
    BY DEF SleepsOn, Stuck, Client, Task
  <2>2. PICK u \in Client : WillTry(u) \/ WillWake(u, t)
    BY <2>1 DEF FreeLock
  <2>3. CASE WillTry(u)
    BY <2>3 DEF WillTry, WakeAtWork
  <2>4. CASE WillWake(u, t)
    <3>1. CASE pc[u] = "wake"
      BY <2>4, <3>1 DEF WillWake, WakeAtWork
    <3>2. CASE pc[u] = "scan"
      <4>1. PICK i \in Slot : slot[u] <= i /\ waiters[i] = t
        BY <2>4, <3>2 DEF WillWake
      <4>2. slot[u] \in 1 .. WaitersMax + 1
        BY DEF WakesInv, Inv, TypeOK, Client
      <4>3. i \in slot[u] .. WaitersMax
        BY <4>1, <4>2 DEF Slot
      <4>4. t # u
        BY <3>2 DEF SleepsOn
      <4> QED BY <2>1, <2>4, <3>2, <4>1, <4>3, <4>4 DEF WillWake, WakeAtWork
    <3> QED BY <2>4, <3>1, <3>2 DEF WillWake
  <2> QED BY <2>2, <2>3, <2>4
<1>4. Spec => []MutualExclusion
  BY Exclusion
<1> HIDE DEF I
<1> QED BY <1>1, <1>2, <1>3, <1>4, PTL DEF Spec
===============================================================================
