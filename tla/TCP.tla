-------------------------------- MODULE TCP --------------------------------
(***************************************************************************)
(* RTisan on Linux as main.c sets it up: a stream (Stream) whose driver is *)
(* the task of linux/rtisan_tcp.c, and the application's tasks, which send *)
(* and receive on it and sleep.  All of them are threads of LinuxTask and  *)
(* run at the same time.                                                   *)
(*                                                                         *)
(* Stream reduces a wake counter to whether the task was woken.  Here the  *)
(* counters are there too: RTWait is LinuxTask's, and Stream's Wait is the *)
(* step in which it returns.                                               *)
(*                                                                         *)
(* The socket and the peer are external.  A peer connects, sends, takes    *)
(* what the driver wrote, and goes away, with or without the loss of what  *)
(* is still in the socket; then it, or another one, connects again.        *)
(***************************************************************************)
EXTENDS Stream, LinuxTask

CONSTANTS
  TCPTask,      \* the driver's task
  Sleeps,       \* the tick counts that a task sleeps for
  MaxLag,       \* the bound on how late a sleeper runs, see RoomForTick
  Chunks,       \* what the peer sends at a time
  MaxTraffic,   \* the bound on the bytes on their way, see RoomFor
  SocketSize    \* of the socket's send buffer

ASSUME TCPAssumption ==
  /\ TCPTask \in Thread /\ Task = Thread \ {TCPTask} /\ None \notin Thread
  /\ \A t \in Task : Sleeps[t] \subseteq 1 .. TickHalf - 1
  /\ MaxLag \in Nat /\ MaxLag + Half < TickHalf
  /\ Chunks \subseteq Seq(Byte) /\ SocketSize \in Nat \ {0} /\ MaxTraffic \in Nat

VARIABLES
  at,             \* where TCPStreamTask is
  active,         \* activeSock > 0
  avail, cnt,     \* its locals
  didSomething,
  waiting,        \* in WakeRX and WakeTX
  read,           \* the bytes read to the ring and not yet handed over
  peer,           \* "away"; "here", accepted or not; "gone" again
  toRead, written \* what is in the socket

driver == <<at, active, avail, cnt, didSomething, waiting, read>>
socket == <<peer, toRead, written>>
vars   == <<stream, tasks, threads, driver, socket>>

Init ==
  /\ StreamInit /\ ThreadsInit
  /\ at = "loop" /\ active = FALSE /\ avail = 0 /\ cnt = 0 /\ didSomething = FALSE
  /\ waiting = None /\ read = <<>>
  /\ peer = "away" /\ toRead = <<>> /\ written = <<>>

Step(from, to) == op[TCPTask] = "run" /\ at = from /\ at' = to

-----------------------------------------------------------------------------
(* TCPStreamTask.                                                          *)

\* accept, until there is a connection.
Accept ==
  /\ ~active /\ peer # "away"
  /\ Step("loop", "loop")
  /\ active' = TRUE
  /\ UNCHANGED <<stream, tasks, threads, avail, cnt, didSomething, waiting, read, socket>>

\* The part of room or of a queue up to the end of the ring, which is
\* anywhere.
Contiguous(n) == IF n = 0 THEN {0} ELSE 1 .. n

\* RTStreamZeroCopyRXPos.
RXPos ==
  /\ active
  /\ Step("loop", IF RxRoom = 0 THEN "txpos" ELSE "read")
  /\ didSomething' = FALSE
  /\ avail' \in Contiguous(RxRoom)
  /\ UNCHANGED <<stream, tasks, threads, active, cnt, waiting, read, socket>>

\* read, to the ring.  That nothing is there is an error, which the assert
\* lets pass, as it does a connection that was reset.
Read ==
  \/ /\ Step("read", "rxdone")
     /\ \E n \in 1 .. Len(toRead) :
          /\ n <= avail
          /\ cnt' = n /\ read' = SubSeq(toRead, 1, n)
          /\ toRead' = SubSeq(toRead, n + 1, Len(toRead))
     /\ didSomething' = TRUE
     /\ UNCHANGED <<stream, tasks, threads, active, avail, waiting, peer, written>>
  \/ /\ Step("read", "txpos")
     /\ toRead = <<>>
     /\ UNCHANGED <<stream, tasks, threads, active, avail, cnt, didSomething, waiting, read, socket>>

\* The end of the peer's bytes closes the socket.
Close ==
  /\ Step("read", "loop")
  /\ toRead = <<>> /\ peer = "gone"
  /\ active' = FALSE
  /\ peer' = "away" /\ written' = <<>>
  /\ UNCHANGED <<stream, tasks, threads, avail, cnt, didSomething, waiting, read, toRead>>

\* Mutant: the bytes read are not handed over.
RXDone_Missing ==
  /\ Step("rxdone", "wakerx")
  /\ read' = <<>>
  /\ UNCHANGED <<stream, tasks, threads, active, avail, cnt, didSomething, waiting, socket>>

\* RTStreamZeroCopyRXDone of the bytes read.
RXDone ==
  /\ Step("rxdone", "wakerx")
  /\ rxCircQueue' = rxCircQueue \o read
  /\ read' = <<>>
  /\ UNCHANGED <<txCircQueue, hasCb, waitingFor, lock, tasks, threads, active, avail, cnt,
                 didSomething, waiting, socket>>

\* RTStreamZeroCopyTXPos.
TXPos ==
  /\ Step("txpos", IF txCircQueue = <<>> THEN "end" ELSE "write")
  /\ avail' \in Contiguous(Len(txCircQueue))
  /\ UNCHANGED <<stream, tasks, threads, active, cnt, didSomething, waiting, read, socket>>

\* write takes some of the bytes, or none when the socket is full or dead.
Write ==
  /\ \/ \E n \in 1 .. avail :
          /\ Step("write", "txdone")
          /\ Len(written) + n <= SocketSize
          /\ cnt' = n
          /\ written' = written \o SubSeq(txCircQueue, 1, n)
          /\ didSomething' = TRUE
     \/ /\ Step("write", "end")
        /\ Len(written) = SocketSize \/ peer = "gone"
        /\ UNCHANGED <<cnt, written, didSomething>>
  /\ UNCHANGED <<stream, tasks, threads, active, avail, waiting, read, peer, toRead>>

\* Mutant: all that was offered, not what was taken.
TXDone_Avail ==
  /\ Step("txdone", "waketx")
  /\ txCircQueue' = SubSeq(txCircQueue, avail + 1, Len(txCircQueue))
  /\ UNCHANGED <<rxCircQueue, hasCb, waitingFor, lock, tasks, threads, active, avail, cnt,
                 didSomething, waiting, read, socket>>

\* RTStreamZeroCopyTXDone.
TXDone ==
  /\ Step("txdone", "waketx")
  /\ txCircQueue' = SubSeq(txCircQueue, cnt + 1, Len(txCircQueue))
  /\ UNCHANGED <<rxCircQueue, hasCb, waitingFor, lock, tasks, threads, active, avail, cnt,
                 didSomething, waiting, read, socket>>

\* WakeRX and WakeTX read the field, then call RTWake.
WhoWaits ==
  /\ \/ Step("wakerx", "rtwakerx") /\ waiting' = waitingFor["rx"]
     \/ Step("waketx", "rtwaketx") /\ waiting' = waitingFor["tx"]
  /\ UNCHANGED <<stream, tasks, threads, active, avail, cnt, didSomething, read, socket>>

\* Between RTGetWakeCount and RTWait a task sees fewer wakes than wrap its
\* counter: the bound on wakes.
Holds(t) ==
  \/ op[t] = "wait"
  \/ t \in Task /\ op[t] = "run" /\ call[t].block /\ pc[t] \in {"move", "cb", "test", "wait"}
RoomForWake(t) == Holds(t) => Consider(target[t], wakes[t]) # Half

WakeWaiter ==
  /\ \/ Step("rtwakerx", "txpos") \/ Step("rtwaketx", "end")
  /\ \/ waiting = None /\ UNCHANGED <<threads, woken>>
     \/ /\ waiting # None
        /\ RoomForWake(waiting)
        /\ RTWake(waiting)
        /\ woken' = Set(woken, waiting, TRUE)
  /\ waiting' = None
  /\ UNCHANGED <<stream, pc, call, active, avail, cnt, didSomething, read, socket>>

\* RTSleep(1) after a round that did something.
EndRound ==
  /\ Step("end", "loop")
  /\ \/ didSomething /\ RTSleep(TCPTask, 1)
     \/ ~didSomething /\ UNCHANGED threads
  /\ UNCHANGED <<stream, tasks, active, avail, cnt, didSomething, waiting, read, socket>>

TCPStep ==
  \/ Accept \/ RXPos \/ Read \/ Close \/ RXDone \/ TXPos \/ Write \/ TXDone
  \/ WhoWaits \/ WakeWaiter \/ EndRound
  \/ SleepStep(TCPTask) /\ UNCHANGED <<stream, tasks, driver, socket>>

-----------------------------------------------------------------------------
(* The application's tasks.                                                *)

\* The bound on traffic: the bytes on their way when more are sent.
Traffic == Len(txCircQueue \o written \o Buf("tx") \o rxCircQueue \o read \o toRead)
RoomFor(bytes) == Traffic + Len(bytes) <= MaxTraffic

NewCall(t) ==
  /\ op[t] = "run" /\ pc[t] = "idle"
  /\ \/ /\ \E buf \in Sends[t], block \in BOOLEAN : RoomFor(buf) /\ Send(t, buf, block)
        /\ UNCHANGED threads
     \/ /\ \E len \in Lengths[t], block, all \in BOOLEAN :
             (all => block) /\ Receive(t, len, block, all)
        /\ UNCHANGED threads
     \/ /\ \E n \in Sleeps[t] : RTSleep(t, n)
        /\ UNCHANGED <<stream, tasks>>
  /\ UNCHANGED <<driver, socket>>

\* A wc of RTGetWakeCount is kept as wc + 1, what RTWait will be called with.
StreamCall(t) ==
  /\ op[t] = "run"
  /\ \/ /\ Lock(t) \/ Announce(t) \/ Put(t) \/ Get(t) \/ CallBack(t) \/ Test(t) \/ Unlock(t)
        /\ UNCHANGED threads
     \/ /\ GetWakeCount(t)
        /\ target' = Set(target, t, Plus(wakes[t], 1))
        /\ UNCHANGED <<taskTable, wakes, thresh, ticksCreateWakes, systick_cnt, i, blocked, op,
                       completion>>
     \/ /\ pc[t] = "wait"
        /\ op' = Set(op, t, "wait")
        /\ UNCHANGED <<taskTable, wakes, thresh, ticksCreateWakes, systick_cnt, i, blocked,
                       completion, target, stream, tasks>>
  /\ UNCHANGED <<driver, socket>>

StreamWait(t) ==
  /\ pc[t] = "wait"
  /\ RTWait(t, "run")
  /\ IF op'[t] = "run" THEN Wait(t) ELSE UNCHANGED <<stream, tasks>>
  /\ UNCHANGED <<driver, socket>>

TaskStep(t) ==
  \/ StreamCall(t) \/ StreamWait(t)
  \/ SleepStep(t) /\ UNCHANGED <<stream, tasks, driver, socket>>

-----------------------------------------------------------------------------
(* The main thread, the peer and the C library.                            *)

Create(t) == RTTaskCreate(t) /\ UNCHANGED <<stream, tasks, driver, socket>>

\* RTGo, which main calls when its tasks are there.  A sleeper that can run is not kept from it for MaxLag ticks.
Late(t) == Sleeping(t) /\ Remain(t) \in TickHalf .. 2 * TickHalf - MaxLag
RoomForTick == \A t \in Thread : Late(t) => op[t] = "cond" /\ ~IsWoke(t)

Tick ==
  /\ \A t \in Thread : op[t] \notin {"new", "listed"}
  /\ \/ RoomForTick /\ TickCount
     \/ TickTask /\ RoomForWake(i)
  /\ UNCHANGED <<stream, tasks, driver, socket>>

PeerConnects ==
  /\ peer = "away" /\ peer' = "here"
  /\ UNCHANGED <<stream, tasks, threads, driver, toRead, written>>

PeerSends ==
  /\ peer = "here" /\ toRead = <<>>
  /\ toRead' \in Chunks /\ RoomFor(toRead')
  /\ UNCHANGED <<stream, tasks, threads, driver, peer, written>>

PeerTakes ==
  /\ peer = "here" /\ written # <<>> /\ written' = <<>>
  /\ UNCHANGED <<stream, tasks, threads, driver, peer, toRead>>

\* A peer that goes away in good order lets its last bytes be read.
PeerGoes ==
  /\ peer = "here" /\ peer' = "gone"
  /\ toRead' \in {toRead, <<>>}
  /\ UNCHANGED <<stream, tasks, threads, driver, written>>

Peer == PeerConnects \/ PeerSends \/ PeerTakes

Spurious(t) == SpuriousWake(t) /\ UNCHANGED <<stream, tasks, driver, socket>>

Next ==
  \/ TCPStep
  \/ \E t \in Task : NewCall(t) \/ TaskStep(t)
  \/ \E t \in Thread : Create(t) \/ Spurious(t)
  \/ Tick
  \/ Peer \/ PeerGoes

\* Every thread runs, one whose mutex is taken now and then too; a peer
\* connects, sends and takes.
Fairness ==
  /\ WF_vars(TCPStep) /\ SF_vars(Tick) /\ WF_vars(Peer)
  /\ WF_vars(\E t \in Thread : Create(t))
  /\ \A t \in Task : SF_vars(TaskStep(t))

Spec == Init /\ [][Next]_vars /\ Fairness

-----------------------------------------------------------------------------
(* Properties.                                                             *)

\* The type invariant.
TypeOK ==
  /\ StreamTypeOK /\ ThreadsTypeOK
  /\ at \in {"loop", "read", "rxdone", "wakerx", "rtwakerx", "txpos", "write", "txdone", "waketx",
             "rtwaketx", "end"}
  /\ active \in BOOLEAN /\ didSomething \in BOOLEAN
  /\ avail \in Nat /\ cnt \in Nat /\ waiting \in Task \cup {None}
  /\ read \in Seq(Byte) /\ toRead \in Seq(Byte) /\ written \in Seq(Byte)
  /\ peer \in {"away", "here", "gone"}

\* The bytes that the driver writes to its connections, one after another,
\* are those that the tasks sent, in order and each once, though write takes
\* as many as it likes and connections break at any moment.
Sent == INSTANCE Fifo WITH
  Value <- Byte, Capacity <- TxCapacity,
  inp   <- Buf("tx"),
  queue <- IF at = "txdone" THEN SubSeq(txCircQueue, cnt + 1, Len(txCircQueue)) ELSE txCircQueue,
  out   <- written
SendIsFifo == Sent!Lossless

\* And the tasks receive the bytes that the driver reads, which are in the
\* ring before they are handed over.
Received == INSTANCE Fifo WITH
  Value <- Byte, Capacity <- RxCapacity,
  inp   <- toRead,
  queue <- rxCircQueue \o read,
  out   <- Buf("rx")
ReceiveIsFifo == Received!Lossless

\* RTWait's counters and condition variable keep what Stream counts on: a
\* task that is woken after its RTGetWakeCount comes out of RTWait, and only
\* such a one, whether it is about to enter pthread_cond_wait or is in it.
WakeIsSeen ==
  \A t \in Task : pc[t] = "wait" =>
    /\ op[t] \in {"run", "wait"} => (woken[t] <=> IsWokeAt(target[t], wakes[t]))
    /\ op[t] = "cond" => (woken[t] <=> IsWoke(t))
    /\ woken[t] => t \notin blocked

\* Sleeps end, receives return once the peer has sent enough, and so do
\* sends that do not block, as long as connections last.  A send that blocks
\* does not: the driver sets no callback, for which main.c's streams wait.
Busy(t) ==
  \/ Sleeping(t)
  \/ pc[t] # "idle" /\ ~(Dir(t) = "tx" /\ call[t].block)
CallsReturn ==
  <>[](peer # "gone") => \A t \in Task : []<>~Busy(t)

=============================================================================
