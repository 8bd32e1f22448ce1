--------------------------------- MODULE SPI ---------------------------------
(***************************************************************************)
(* The SPI core, rtisan_spi.c: tasks post lists of transfers, the driver's *)
(* interrupt handler takes and completes them one by one.  This module has *)
(* the tasks' side and what the two drivers (SPIF3, SPIDMA) have in common:*)
(* the transfer in progress and the chip selects, with the same code in    *)
(* both.  The drivers add the hardware and put the steps together.         *)
(*                                                                         *)
(* The ring of transfers is the queue it implements: a list becomes        *)
(* visible in one or more pieces, in order.  The lock is one step.  A      *)
(* failed assert stops the machine: abort disables interrupts and loops.   *)
(***************************************************************************)
EXTENDS Naturals, SequencesExt

CONSTANTS
  Task,
  Transfer,
  None,             \* no task or transfer, NULL, and selectedSlave = -1
  Lists,            \* the lists each task may post
  slave,            \* the fields of a transfer, which nobody changes
  noDeselect,
  MAXNUM_TRANSFERS,
  LOCK_WAITERS_MAX

\* Two tasks do not post the same transfer, nor one the same twice in a list.
ASSUME ListsAssumption ==
  /\ None \notin Task \cup Transfer
  /\ \A t \in Task : Lists[t] \subseteq Seq(Transfer)
  /\ \A t \in Task : \A l \in Lists[t] : \A i, j \in 1 .. Len(l) : i # j => l[i] # l[j]
  /\ \A t, u \in Task : t # u =>
       \A l \in Lists[t], m \in Lists[u] : ToSet(l) \cap ToSet(m) = {}
ASSUME TransferAssumption ==
  /\ DOMAIN slave = Transfer /\ noDeselect \in [Transfer -> BOOLEAN]
  /\ \A x \in Transfer : slave[x] # None
ASSUME MaxAssumption == MAXNUM_TRANSFERS \in Nat \ {0}

\* Lock is RTLockLock as long as that is not refused: it returns -1 to a task
\* that finds all waiter slots taken, and RTSPIDoTransfers goes on without the
\* lock.  RTLockProofs' SlotsSuffice is that so many tasks are never refused.
ASSUME SlotsAssumption == IsFiniteSet(Task) /\ Cardinality(Task) <= LOCK_WAITERS_MAX

VARIABLES
  queue,                  \* periph->transfers
  dispatched, completed,  \* of each transfer
  addLock,                \* the task that holds it
  pc, list, todo,         \* of each task: where it is in RTSPIDoTransfers, the
                          \* list it posted, what is not in the queue yet
  transfer,               \* the transfer in progress
  chip,                   \* selectedSlave, and the slaves whose pin is low
  aborted

posting == <<queue, addLock, list, todo>>
flags   == <<dispatched, completed>>
core    == <<posting, flags, pc, transfer, chip, aborted>>

Slave == {slave[x] : x \in Transfer}

CoreInit ==
  /\ queue = <<>> /\ addLock = None
  /\ dispatched = [x \in Transfer |-> FALSE] /\ completed = [x \in Transfer |-> FALSE]
  /\ pc = [t \in Task |-> "idle"]
  /\ list = [t \in Task |-> <<>>] /\ todo = [t \in Task |-> <<>>]
  /\ transfer = None
  /\ chip = [selected |-> None, low |-> {}]
  /\ aborted = FALSE

Goto(t, from, to) == pc[t] = from /\ pc' = [pc EXCEPT ![t] = to]
Set(f, t, v)      == [f EXCEPT ![t] = v]

-----------------------------------------------------------------------------
(* RTSPIDoTransfers.  The caller waits for a list to be completed before it *)
(* posts another, as it has to before it uses a transfer again.             *)

Call(t, l) ==
  /\ \A x \in ToSet(list[t]) : completed[x]
  /\ Goto(t, "idle", "lock")
  /\ list' = Set(list, t, l) /\ todo' = Set(todo, t, l)
  /\ dispatched' = [x \in Transfer |-> dispatched[x] /\ x \notin ToSet(l)]
  /\ completed'  = [x \in Transfer |-> completed[x]  /\ x \notin ToSet(l)]
  /\ UNCHANGED <<queue, addLock, transfer, chip, aborted>>

\* Mutant: nobody is waited for.
Lock_NoWait(t) ==
  /\ Goto(t, "lock", "room")
  /\ addLock' = t
  /\ UNCHANGED <<queue, list, todo, flags, transfer, chip, aborted>>

Lock(t) ==
  /\ addLock = None
  /\ Goto(t, "lock", "room")
  /\ addLock' = t
  /\ UNCHANGED <<queue, list, todo, flags, transfer, chip, aborted>>

\* avail >= numTransfers
Fits(l) == MAXNUM_TRANSFERS - Len(queue) >= Len(l)

\* A list is put whole or refused.
Room(t) ==
  /\ IF Fits(todo[t])
       THEN Goto(t, "room", "put") /\ UNCHANGED <<list, todo>>
       ELSE /\ Goto(t, "room", "unlock")
            /\ list' = Set(list, t, <<>>) /\ todo' = Set(todo, t, <<>>)
  /\ UNCHANGED <<queue, addLock, flags, transfer, chip, aborted>>

\* RTCQWrite publishes the next n of the list, all at once unless they wrap
\* around the end of the ring.
Put(t) ==
  /\ \/ /\ todo[t] = <<>>
        /\ Goto(t, "put", "start")
        /\ UNCHANGED <<queue, todo>>
     \/ /\ pc[t] = "put" /\ UNCHANGED pc
        /\ \E n \in 1 .. Len(todo[t]) :
             /\ queue' = queue \o SubSeq(todo[t], 1, n)
             /\ todo' = Set(todo, t, SubSeq(todo[t], n + 1, Len(todo[t])))
  /\ UNCHANGED <<addLock, list, flags, transfer, chip, aborted>>

Unlock(t) ==
  /\ Goto(t, "unlock", "idle")
  /\ addLock' = None
  /\ UNCHANGED <<queue, list, todo, flags, transfer, chip, aborted>>

PostStep(t) == Lock(t) \/ Room(t) \/ Put(t) \/ Unlock(t)

-----------------------------------------------------------------------------
(* The parts of the drivers that do not touch the bus.                     *)

Deselect(c)  == [selected |-> None, low |-> c.low \ {c.selected}]
Select(c, s) == [selected |-> s, low |-> c.low \cup {s}]

\* Mutant: the slave of another device stays selected.
SelectFor_Both(c, x) == IF c.selected = slave[x] THEN c ELSE Select(c, slave[x])

\* The chip select work of BeginTransfer: another slave that a transfer left
\* selected is deselected, and x's slave selected unless it is already.
SelectFor(c, x) ==
  LET free == IF c.selected \notin {None, slave[x]} THEN Deselect(c) ELSE c
  IN  IF free.selected = slave[x] THEN free ELSE Select(free, slave[x])

\* What becomes of the chip selects at the end of transfer x.
SelectAfter(c, x) == IF noDeselect[x] THEN c ELSE Deselect(c)

\* NextMessage when there is nothing to do.
TakeNothing ==
  /\ queue = <<>>
  /\ transfer' = None
  /\ UNCHANGED queue

\* RTSPITransferNext.
TakeNext ==
  /\ queue # <<>>
  /\ transfer' = Head(queue)
  /\ queue' = Tail(queue)

\* The task that starts the driver, in NextMessage: nothing may be in
\* progress, and what it takes not have been taken before.
StartAsserts ==
  /\ transfer = None
  /\ queue # <<>> => ~dispatched[Head(queue)] /\ ~completed[Head(queue)]

StartNothing ==
  /\ TakeNothing
  /\ UNCHANGED <<flags, chip>>

StartNext ==
  /\ TakeNext
  /\ dispatched' = Set(dispatched, transfer', TRUE)
  /\ chip' = SelectFor(chip, transfer')
  /\ UNCHANGED completed

\* The handler, from the end of the transfer in progress through
\* RTSPITransferCompleted, whose callback only wakes the task, and
\* NextMessage.
FinishAsserts ==
  /\ dispatched[transfer] /\ ~completed[transfer]
  /\ queue # <<>> => ~dispatched[Head(queue)] /\ ~completed[Head(queue)]

FinishLast ==
  /\ completed' = Set(completed, transfer, TRUE)
  /\ TakeNothing
  /\ chip' = SelectAfter(chip, transfer)
  /\ UNCHANGED dispatched

FinishAndNext ==
  /\ completed' = Set(completed, transfer, TRUE)
  /\ TakeNext
  /\ dispatched' = Set(dispatched, transfer', TRUE)
  /\ chip' = SelectFor(SelectAfter(chip, transfer), transfer')

Abort == aborted' = TRUE

-----------------------------------------------------------------------------
(* Properties of every driver.                                             *)

CoreTypeOK ==
  /\ queue \in Seq(Transfer) /\ Len(queue) <= MAXNUM_TRANSFERS
  /\ dispatched \in [Transfer -> BOOLEAN] /\ completed \in [Transfer -> BOOLEAN]
  /\ addLock \in Task \cup {None}
  /\ pc \in [Task -> {"idle", "lock", "room", "put", "start", "next", "spe", "unlock"}]
  /\ list \in [Task -> Seq(Transfer)] /\ todo \in [Task -> Seq(Transfer)]
  /\ transfer \in Transfer \cup {None}
  /\ chip \in [selected : Slave \cup {None}, low : SUBSET Slave]
  /\ aborted \in BOOLEAN

\* No assert fails: a transfer is dispatched and completed once, the driver
\* is started and its handler entered only in a state they can deal with.
NoAbort == ~aborted

\* What is still to be sent, in order: the transfer in progress, the queue,
\* the rest of the list that is being put.
Current == IF transfer = None THEN <<>> ELSE <<transfer>>
Rest    == IF addLock # None /\ pc[addLock] = "put" THEN todo[addLock] ELSE <<>>
Ahead   == Current \o queue \o Rest

\* The transfers of a list are executed in order and with no other task's in
\* between, which is what a list that holds a slave selected from one
\* transfer to the next is for; this while tasks post concurrently and the
\* handler takes what is already visible of a list.  The first k of a list
\* are completed, the others are what Ahead has from j + 1 on.
Admitted(t) == pc[t] \notin {"lock", "room"}
ListsTogether ==
  \A t \in Task : Admitted(t) =>
    \E k \in 0 .. Len(list[t]), j \in 0 .. Len(Ahead) :
      \A n \in 1 .. Len(list[t]) :
        IF n <= k THEN completed[list[t][n]]
        ELSE /\ ~completed[list[t][n]]
             /\ j + n - k <= Len(Ahead) /\ Ahead[j + n - k] = list[t][n]

\* Every list that was not refused is completed, though the task that posts
\* it starts the driver only if it looks idle.
ListCompletes ==
  \A t \in Task :
    pc[t] = "put" ~> pc[t] # "put" /\ \A x \in ToSet(list[t]) : completed[x]
=============================================================================
