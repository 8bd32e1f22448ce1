------------------------------- MODULE Stream -------------------------------
(***************************************************************************)
(* A stream of rtisan_stream.c: RTStreamSend and RTStreamReceive by any    *)
(* number of tasks.  The other side of the stream is a driver; a module    *)
(* that extends this one adds it and puts the steps together.              *)
(*                                                                         *)
(* The two directions, "tx" and "rx", have the same structure: a lock, a   *)
(* ring, the task that waits and the driver's callback.  The rings are the *)
(* queues that CircQueue implements, and a call moves bytes in one or more *)
(* pieces.  The lock is one step.  A wake counter is reduced to whether    *)
(* the task has been woken since its last RTGetWakeCount, which is all     *)
(* that RTWait(wc + 1) asks.                                               *)
(***************************************************************************)
EXTENDS Naturals, SequencesExt

CONSTANTS
  Task,
  None,                 \* no task, no callback
  Byte,
  Sends,                \* the buffers that each task sends
  Lengths,              \* the numbers of bytes that each task receives
  TxCapacity, RxCapacity,
  blockUntilCallbacks

ASSUME StreamAssumption ==
  /\ None \notin Task
  /\ \A t \in Task : Sends[t] \subseteq Seq(Byte) /\ Lengths[t] \subseteq Nat
  /\ TxCapacity \in Nat \ {0} /\ RxCapacity \in Nat \ {0}
  /\ blockUntilCallbacks \in BOOLEAN

VARIABLES
  txCircQueue, rxCircQueue,
  hasCb,        \* txCb and rxCb are set
  waitingFor,   \* waitingForTx and waitingForRx
  lock,         \* the holders of txLock and rxLock
  pc,
  call,         \* of each task: what it asks, and what it still has to send or
                \* has received in this call
  woken         \* since a task's last RTGetWakeCount, FALSE when it holds no count

stream == <<txCircQueue, rxCircQueue, hasCb, waitingFor, lock>>
tasks  == <<pc, call, woken>>

Direction == {"tx", "rx"}
NoCall == [dir |-> "rx", buf |-> <<>>, len |-> 0, block |-> FALSE, all |-> FALSE]

StreamInit ==
  /\ txCircQueue = <<>> /\ rxCircQueue = <<>>
  /\ hasCb = [d \in Direction |-> FALSE]
  /\ waitingFor = [d \in Direction |-> None]
  /\ lock = [d \in Direction |-> None]
  /\ pc = [t \in Task |-> "idle"]
  /\ call = [t \in Task |-> NoCall]
  /\ woken = [t \in Task |-> FALSE]

Goto(t, from, to) == pc[t] = from /\ pc' = [pc EXCEPT ![t] = to]
Dir(t)  == call[t].dir

\* The buffer of the call that holds the lock.
Buf(d) == IF lock[d] = None THEN <<>> ELSE call[lock[d]].buf

TxRoom  == TxCapacity - Len(txCircQueue)
RxRoom  == RxCapacity - Len(rxCircQueue)

-----------------------------------------------------------------------------

Send(t, buf, block) ==
  /\ Goto(t, "idle", "lock")
  /\ call' = [call EXCEPT ![t] = [NoCall EXCEPT !.dir = "tx", !.buf = buf, !.block = block]]
  /\ UNCHANGED <<stream, woken>>

Receive(t, len, block, all) ==
  /\ Goto(t, "idle", "lock")
  /\ call' = [call EXCEPT ![t] = [NoCall EXCEPT !.len = len, !.block = block, !.all = all]]
  /\ UNCHANGED <<stream, woken>>

\* RTLockLock while it refuses nobody; what it returns is not looked at, so
\* drivers with RTLock's locks say how many tasks there may be.
Lock(t) ==
  /\ lock[Dir(t)] = None
  /\ Goto(t, "lock", "loop")
  /\ lock' = [lock EXCEPT ![Dir(t)] = t]
  /\ UNCHANGED <<txCircQueue, rxCircQueue, hasCb, waitingFor, call, woken>>

\* The loop begins: a call that blocks says who is to be woken.
Announce(t) ==
  /\ Goto(t, "loop", IF call[t].block THEN "count" ELSE "move")
  /\ waitingFor' = IF call[t].block THEN [waitingFor EXCEPT ![Dir(t)] = t] ELSE waitingFor
  /\ UNCHANGED <<txCircQueue, rxCircQueue, hasCb, lock, call, woken>>

GetWakeCount(t) ==
  /\ Goto(t, "count", "move")
  /\ woken' = [woken EXCEPT ![t] = FALSE]
  /\ UNCHANGED <<stream, call>>

\* RTCQWrite of the rest of the buffer.
Put(t) ==
  /\ Dir(t) = "tx"
  /\ \/ /\ call[t].buf = <<>> \/ TxRoom = 0
        /\ Goto(t, "move", "cb")
        /\ UNCHANGED <<txCircQueue, call>>
     \/ \E n \in 1 .. Len(call[t].buf) :
          /\ pc[t] = "move" /\ UNCHANGED pc
          /\ n <= TxRoom
          /\ txCircQueue' = txCircQueue \o SubSeq(call[t].buf, 1, n)
          /\ call' = [call EXCEPT ![t].buf = SubSeq(@, n + 1, Len(@))]
  /\ UNCHANGED <<rxCircQueue, hasCb, waitingFor, lock, woken>>

\* RTCQRead of what is missing.
Get(t) ==
  /\ Dir(t) = "rx"
  /\ \/ /\ Len(call[t].buf) = call[t].len \/ rxCircQueue = <<>>
        /\ Goto(t, "move", "cb")
        /\ UNCHANGED <<rxCircQueue, call>>
     \/ \E n \in 1 .. Len(rxCircQueue) :
          /\ pc[t] = "move" /\ UNCHANGED pc
          /\ n <= call[t].len - Len(call[t].buf)
          /\ rxCircQueue' = SubSeq(rxCircQueue, n + 1, Len(rxCircQueue))
          /\ call' = [call EXCEPT ![t].buf = @ \o SubSeq(rxCircQueue, 1, n)]
  /\ UNCHANGED <<txCircQueue, hasCb, waitingFor, lock, woken>>

\* The callback, if there is one, is the driver's steps from "driver" on.
CallBack(t) ==
  /\ Goto(t, "cb", IF hasCb[Dir(t)] THEN "driver" ELSE "test")
  /\ UNCHANGED <<stream, call, woken>>

\* The loop ends.
Finished(t) ==
  LET c == call[t] IN
  \/ ~c.block
  \/ c.dir = "tx" /\ c.buf = <<>> /\ (blockUntilCallbacks => hasCb["tx"])
  \/ c.dir = "rx" /\ (Len(c.buf) >= c.len \/ (~c.all /\ c.buf # <<>>))

\* A send that does not block leaves waitingForTx alone.
Test(t) ==
  /\ pc[t] = "test"
  /\ pc' = [pc EXCEPT ![t] = IF Finished(t) THEN "unlock" ELSE "wait"]
  /\ waitingFor' = IF Finished(t) /\ (call[t].block \/ Dir(t) = "rx")
                     THEN [waitingFor EXCEPT ![Dir(t)] = None] ELSE waitingFor
  /\ woken' = [woken EXCEPT ![t] = @ /\ ~Finished(t)]
  /\ UNCHANGED <<txCircQueue, rxCircQueue, hasCb, lock, call>>

\* RTWait(wc + 1).
Wait(t) ==
  /\ woken[t]
  /\ Goto(t, "wait", "loop")
  /\ woken' = [woken EXCEPT ![t] = FALSE]
  /\ UNCHANGED <<stream, call>>

Unlock(t) ==
  /\ Goto(t, "unlock", "idle")
  /\ lock' = [lock EXCEPT ![Dir(t)] = None]
  /\ call' = [call EXCEPT ![t] = NoCall]
  /\ UNCHANGED <<txCircQueue, rxCircQueue, hasCb, waitingFor, woken>>

StreamStep(t) ==
  \/ Lock(t) \/ Announce(t) \/ GetWakeCount(t)
  \/ Put(t) \/ Get(t)
  \/ CallBack(t) \/ Test(t) \/ Wait(t) \/ Unlock(t)

\* Some other handler wakes a task; earlier in the loop it comes to the same.
OtherWake(t) ==
  /\ pc[t] = "wait"
  /\ woken' = [woken EXCEPT ![t] = TRUE]
  /\ UNCHANGED <<stream, pc, call>>

-----------------------------------------------------------------------------
(* The driver's calls, in a handler.                                       *)

\* WakeTX, WakeRX.
WakeWaiting(D) ==
  woken' = [t \in Task |-> woken[t] \/ \E d \in D : waitingFor[d] = t]

\* RTStreamSetTXCallback and RTStreamSetRXCallback.
SetCallbacks ==
  /\ hasCb' = [d \in Direction |-> TRUE]
  /\ WakeWaiting(Direction)
  /\ UNCHANGED <<txCircQueue, rxCircQueue, waitingFor, lock>>

\* RTStreamZeroCopyTXDone.
ZeroCopyTXDone(n) ==
  /\ txCircQueue' = SubSeq(txCircQueue, n + 1, Len(txCircQueue))
  /\ WakeWaiting({"tx"})

\* RTStreamDoRXChunk: what does not fit is left out.
DoRXChunk(bytes) ==
  /\ rxCircQueue' = rxCircQueue \o SubSeq(bytes, 1, Min({Len(bytes), RxRoom}))
  /\ WakeWaiting({"rx"})

-----------------------------------------------------------------------------

StreamTypeOK ==
  /\ txCircQueue \in Seq(Byte) /\ Len(txCircQueue) <= TxCapacity
  /\ rxCircQueue \in Seq(Byte) /\ Len(rxCircQueue) <= RxCapacity
  /\ hasCb \in [Direction -> BOOLEAN]
  /\ waitingFor \in [Direction -> Task \cup {None}]
  /\ lock \in [Direction -> Task \cup {None}]
  /\ pc \in [Task -> {"idle", "lock", "loop", "count", "move", "cb", "driver", "pos",
                      "mark", "start", "test", "wait", "unlock"}]
  /\ call \in [Task -> [dir : Direction, buf : Seq(Byte), len : Nat,
                        block : BOOLEAN, all : BOOLEAN]]
  /\ woken \in [Task -> BOOLEAN]
=============================================================================
