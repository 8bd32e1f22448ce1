-------------------------------- MODULE CDC --------------------------------
(***************************************************************************)
(* The USB serial interface of usb/usbd_cdc_interface.c as the driver of a *)
(* stream.  Packets are started by tasks, through the stream's callbacks,  *)
(* and by the USB handler when it finds one finished; the handler is one   *)
(* step.  The USB library and the host are external: a packet that is      *)
(* started is taken by the host at some time, and when the endpoint may    *)
(* receive the host sends one at some time.                                *)
(*                                                                         *)
(* The host configures the device once, at any time; there is no reset     *)
(* while packets are under way.                                            *)
(***************************************************************************)
EXTENDS Stream

CONSTANTS
  MaxPacket,    \* 64 in the code
  OutOffset,    \* in USBD_LL_Init's layout of the packet memory, how far the OUT
                \* packet is from the IN packet: 0x30 for the first interface,
                \* 0x40 for the second
  Packets,      \* what the host sends
  LOCK_WAITERS_MAX

\* cdcStreams have 192 and 256 bytes.
ASSUME PacketAssumption ==
  /\ MaxPacket \in 1 .. RxCapacity /\ OutOffset \in Nat \ {0}
  /\ Packets \subseteq Seq(Byte) /\ \A p \in Packets : Len(p) \in 1 .. MaxPacket

\* Stream's Lock is RTLockLock as long as that is not refused: it returns -1
\* to a task that finds all waiter slots taken, and RTStreamSend and
\* RTStreamReceive go on without the lock.  RTLockProofs' SlotsSuffice is that
\* so many tasks are never refused.
ASSUME SlotsAssumption == IsFiniteSet(Task) /\ Cardinality(Task) <= LOCK_WAITERS_MAX

VARIABLES
  txInProg, rxInProg, txNumBytes,
  count,        \* of each task, txNumBytes in CDC_StartTx
  txState,      \* of the endpoint: "idle", "busy", "taken" by the host
  rxState,      \* "off", "on", "arrived"
  txPacket, rxPacket    \* what is in packet memory

iface == <<txInProg, rxInProg, txNumBytes, count>>
usb   == <<txState, rxState, txPacket, rxPacket>>
cdcVars  == <<stream, tasks, iface, usb>>

CDCInit ==
  /\ StreamInit
  /\ txInProg = FALSE /\ rxInProg = FALSE /\ txNumBytes = 0
  /\ count = [t \in Task |-> 0]
  /\ txState = "idle" /\ rxState = "off" /\ txPacket = <<>> /\ rxPacket = <<>>

-----------------------------------------------------------------------------

\* RTStreamZeroCopyTXPos: the bytes up to the end of the ring, which is
\* anywhere; no more than a packet of them.
MayTransmit(q, n) ==
  IF q = <<>> THEN n = 0 ELSE n \in 1 .. Min({Len(q), MaxPacket})

\* The second interface's packets do not reach into each other; full ones of
\* the first do.
Apart == MaxPacket <= OutOffset

\* The packet at an address of the packet memory, once another is written.
Overwritten(packet, addr, other, otherAddr) ==
  [k \in DOMAIN packet |->
     LET m == k + addr - otherAddr IN IF m \in DOMAIN other THEN other[m] ELSE packet[k]]

\* USBD_CDC_TransmitPacket of the first n bytes; ignored while one is under way.
TransmitPacket(q, n) ==
  IF txState = "busy" THEN UNCHANGED <<txState, txPacket, rxPacket>>
  ELSE /\ txState' = "busy" /\ txPacket' = SubSeq(q, 1, n)
       /\ rxPacket' = Overwritten(rxPacket, OutOffset, txPacket', 0)

\* CDC_StartTx and CDC_StartRx (finished = false), by a task.

\* Mutant: a packet is started whether or not one is under way.
LookInProg_Not(t) ==
  /\ Goto(t, "driver", "pos")
  /\ UNCHANGED <<stream, call, woken, iface, usb>>

LookInProg(t) ==
  /\ Goto(t, "driver",
          IF (IF Dir(t) = "tx" THEN txInProg ELSE rxInProg) THEN "test" ELSE "pos")
  /\ UNCHANGED <<stream, call, woken, iface, usb>>

TxPos(t) ==
  /\ Dir(t) = "tx"
  /\ \E n \in 0 .. MaxPacket :
       /\ MayTransmit(txCircQueue, n)
       /\ Goto(t, "pos", IF n = 0 THEN "test" ELSE "mark")
       /\ count' = [count EXCEPT ![t] = n]
  /\ UNCHANGED <<stream, call, woken, txInProg, rxInProg, txNumBytes, usb>>

\* Mutant: some room is enough.
EnoughRoom_Some(room) == room > 0

EnoughRoom(room) == room >= MaxPacket

RxPos(t) ==
  /\ Dir(t) = "rx"
  /\ Goto(t, "pos", IF EnoughRoom(RxRoom) THEN "mark" ELSE "test")
  /\ UNCHANGED <<stream, call, woken, iface, usb>>

MarkInProg(t) ==
  /\ Goto(t, "mark", "start")
  /\ IF Dir(t) = "tx"
       THEN txInProg' = TRUE /\ txNumBytes' = count[t] /\ UNCHANGED rxInProg
       ELSE rxInProg' = TRUE /\ UNCHANGED <<txInProg, txNumBytes>>
  /\ UNCHANGED <<stream, call, woken, count, usb>>

StartTx(t) ==
  /\ Dir(t) = "tx"
  /\ Goto(t, "start", "test")
  /\ TransmitPacket(txCircQueue, count[t])
  /\ count' = [count EXCEPT ![t] = 0]
  /\ UNCHANGED <<stream, call, woken, txInProg, rxInProg, txNumBytes, rxState>>

StartRx(t) ==
  /\ Dir(t) = "rx"
  /\ Goto(t, "start", "test")
  /\ rxState' = "on"
  /\ UNCHANGED <<stream, call, woken, iface, txState, txPacket, rxPacket>>

CDCTaskStep(t) ==
  \/ StreamStep(t) /\ UNCHANGED <<iface, usb>>
  \/ LookInProg(t) \/ TxPos(t) \/ RxPos(t) \/ MarkInProg(t) \/ StartTx(t) \/ StartRx(t)

CDCNewCall(t) ==
  /\ \/ \E buf \in Sends[t], block \in BOOLEAN : Send(t, buf, block)
     \/ \E len \in Lengths[t], block, all \in BOOLEAN : Receive(t, len, block, all)
  /\ UNCHANGED <<iface, usb>>

-----------------------------------------------------------------------------
(* The USB handler.                                                        *)

\* CDC_Itf_Init.
Configure ==
  /\ ~hasCb["tx"]
  /\ SetCallbacks
  /\ UNCHANGED <<pc, call, iface, usb>>

\* Mutant: the bytes are given back without a word to the sender.
TxDone_NoWake ==
  /\ txState = "taken"
  /\ txCircQueue' = SubSeq(txCircQueue, txNumBytes + 1, Len(txCircQueue))
  /\ txInProg' = FALSE /\ txNumBytes' = 0
  /\ txState' = "idle" /\ txPacket' = <<>>
  /\ UNCHANGED <<rxCircQueue, hasCb, waitingFor, lock, tasks, rxInProg, count, rxState, rxPacket>>

\* CDC_StartTx(finished).
TxDone ==
  /\ txState = "taken"
  /\ ZeroCopyTXDone(txNumBytes)
  /\ \E n \in 0 .. MaxPacket :
       /\ MayTransmit(txCircQueue', n)
       /\ txInProg' = (n > 0) /\ txNumBytes' = n
       /\ IF n > 0 THEN TransmitPacket(txCircQueue', n)
                   ELSE txState' = "idle" /\ txPacket' = <<>> /\ UNCHANGED rxPacket
  /\ UNCHANGED <<rxCircQueue, hasCb, waitingFor, lock, pc, call, rxInProg, count, rxState>>

\* CDC_Itf_Receive, which does not look at what RTStreamDoRXChunk returns.
RxDone ==
  /\ rxState = "arrived"
  /\ DoRXChunk(rxPacket)
  /\ rxInProg' = EnoughRoom(RxCapacity - Len(rxCircQueue'))
  /\ rxState' = (IF rxInProg' THEN "on" ELSE "off") /\ rxPacket' = <<>>
  /\ UNCHANGED <<txCircQueue, hasCb, waitingFor, lock, pc, call, txInProg, txNumBytes, count,
                 txState, txPacket>>

Handler == Configure \/ TxDone \/ RxDone

\* The host.
HostTakes ==
  /\ txState = "busy"
  /\ txState' = "taken"
  /\ UNCHANGED <<stream, tasks, iface, rxState, txPacket, rxPacket>>

HostSends ==
  /\ rxState = "on"
  /\ \E p \in Packets : rxPacket' = p
  /\ txPacket' = Overwritten(txPacket, 0, rxPacket', OutOffset)
  /\ rxState' = "arrived"
  /\ UNCHANGED <<stream, tasks, iface, txState>>

CDCNext ==
  \/ \E t \in Task : CDCNewCall(t) \/ CDCTaskStep(t)
  \/ \E t \in Task : OtherWake(t) /\ UNCHANGED <<iface, usb>>
  \/ Handler \/ HostTakes \/ HostSends

\* The handler runs and the host takes and sends packets, and a task that
\* gets the processor again and again executes its next instruction.
CDCFairness ==
  /\ WF_cdcVars(Configure) /\ WF_cdcVars(TxDone) /\ WF_cdcVars(RxDone)
  /\ WF_cdcVars(HostTakes) /\ WF_cdcVars(HostSends)
  /\ \A t \in Task : SF_cdcVars(CDCTaskStep(t))

CDCSpec == CDCInit /\ [][CDCNext]_cdcVars /\ CDCFairness

-----------------------------------------------------------------------------
(* Properties.                                                             *)

\* The type invariant.
CDCTypeOK ==
  /\ StreamTypeOK
  /\ txInProg \in BOOLEAN /\ rxInProg \in BOOLEAN
  /\ txNumBytes \in 0 .. MaxPacket /\ count \in [Task -> 0 .. MaxPacket]
  /\ txState \in {"idle", "busy", "taken"} /\ rxState \in {"off", "on", "arrived"}
  /\ txPacket \in Seq(Byte) /\ rxPacket \in Seq(Byte)

\* What the host receives is what the tasks sent, in order, each byte once,
\* whatever tasks and handler start packets: both directions are queues.
\* Bytes leave the first when the host takes the packet they are in.
CDCSent == INSTANCE Fifo WITH
  Value <- Byte, Capacity <- TxCapacity,
  inp   <- Buf("tx"),
  queue <- IF txState = "taken"
             THEN SubSeq(txCircQueue, Len(txPacket) + 1, Len(txCircQueue)) ELSE txCircQueue,
  out   <- IF txState = "taken" THEN txPacket ELSE <<>>
CDCSendIsFifo == CDCSent!Lossless

\* "Max size 64" (usb/usbd_conf.c:210-222): each packet has its place in the
\* packet memory.  It stays what it is until the host or the handler gets to
\* it, whatever the other direction does.
PacketsKept ==
  [][/\ rxState = "arrived" /\ rxState' = "arrived" => rxPacket' = rxPacket
     /\ txState = "busy" => txPacket' = txPacket]_cdcVars

\* And what tasks receive is what the host sent: a packet is whole when the
\* handler gets to it, though the layout decides that, and all of it finds
\* room, which the handler takes on trust.
CDCReceived == INSTANCE Fifo WITH
  Value <- Byte, Capacity <- RxCapacity,
  inp   <- IF rxState = "arrived" THEN rxPacket ELSE <<>>,
  queue <- rxCircQueue,
  out   <- Buf("rx")
CDCReceiveIsFifo ==
  /\ CDCReceived!Lossless
  /\ PacketsKept
  /\ [](rxState = "arrived" => Len(rxPacket) <= RxRoom)

\* A call that has the lock returns, however many packets it takes, and
\* whether it began before the host configured the device or after.
CDCCallsReturn == \A t \in Task : pc[t] = "loop" ~> pc[t] = "idle"

\* "Therefore wake them so they can wake the transmitter"
\* (rtisan_stream.c:135): while a send that blocks is under way, what is in
\* the queue gets to be transmitted.
WaiterWakesTransmitter ==
  \A t \in Task :
    waitingFor["tx"] = t /\ txCircQueue # <<>> ~> txState # "idle"
=============================================================================
