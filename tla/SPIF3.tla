-------------------------------- MODULE SPIF3 --------------------------------
(***************************************************************************)
(* The interrupt driven SPI master of arm/spi_stm32f3.c on the core of     *)
(* SPI, with the peripheral: a byte leaves the transmit FIFO, is shifted   *)
(* out while another is shifted in, and enters the receive FIFO.  The      *)
(* hardware moves on between any two accesses of the handler.  As long as  *)
(* an enabled interrupt is asserted, the handler is entered again at once  *)
(* and no task executes an instruction.                                    *)
(***************************************************************************)
EXTENDS SPI

CONSTANTS
  xferLen,      \* the number of bytes of each transfer, an int
  PosWrap       \* positions are modulo PosWrap, 2^16 in the code

\* The FIFOs hold four bytes.
FifoSize == 4

ASSUME LenAssumption == \A x \in Transfer : xferLen[x] \in Nat \ {0}
ASSUME PosAssumption == PosWrap \in Nat /\ PosWrap > FifoSize

\* Transfers that the positions can count: a longer one fails an assert.
LengthsFit == \A x \in Transfer : xferLen[x] < PosWrap

VARIABLES
  txPos, rxPos,
  IE,           \* CR2: TXEIE and RXNEIE, always set and cleared together
  SPE,          \* CR1: the peripheral runs
  txFifo,       \* bytes in the transmit FIFO
  shifting,     \* a byte is on the wire
  rxFifo,       \* bytes in the receive FIFO
  isr           \* where the handler is, "none" when a task runs

spi  == <<txPos, rxPos, IE, SPE, isr>>
wire == <<txFifo, shifting, rxFifo>>
vars == <<core, spi, wire>>

\* The position after p.
After(p) == IF p = PosWrap - 1 THEN 0 ELSE p + 1

\* TXE is set up to half of the FIFO.
TXE  == txFifo <= FifoSize \div 2
RXNE == rxFifo > 0
BSY  == txFifo > 0 \/ shifting

\* The bytes in the peripheral.
OnWire == txFifo + (IF shifting THEN 1 ELSE 0) + rxFifo

Init ==
  /\ CoreInit
  /\ txPos = 0 /\ rxPos = 0
  /\ IE = FALSE /\ SPE = FALSE /\ isr = "none"
  /\ txFifo = 0 /\ shifting = FALSE /\ rxFifo = 0

Raised == isr = "none" /\ IE /\ (TXE \/ RXNE)

\* A task executes an instruction.
TasksRun == ~aborted /\ isr = "none" /\ ~Raised

-----------------------------------------------------------------------------
(* RTSPIF3Start, by the task that posts.                                   *)

\* Mutant: the driver is started whether it is running or not.
Start_Always(t) ==
  /\ Goto(t, "start", "next")
  /\ UNCHANGED <<posting, flags, transfer, chip, aborted, spi, wire>>

\* RTSPIF3InterruptsEnabled.
Start(t) ==
  /\ Goto(t, "start", IF IE THEN "unlock" ELSE "next")
  /\ UNCHANGED <<posting, flags, transfer, chip, aborted, spi, wire>>

\* RTSPIF3NextMessage with the interrupts off, up to the write of CR2 in
\* BeginTransfer that turns them on.
Next1(t) ==
  /\ pc[t] = "next"
  /\ \/ /\ ~StartAsserts
        /\ Abort
        /\ UNCHANGED <<posting, flags, pc, transfer, chip, spi>>
     \/ /\ StartAsserts
        /\ \/ /\ StartNothing
              /\ Goto(t, "next", "unlock")
              /\ IE' = FALSE
              /\ UNCHANGED <<txPos, rxPos, SPE>>
           \/ /\ ~BSY
              /\ StartNext
              /\ Goto(t, "next", "spe")
              /\ IE' = TRUE /\ SPE' = FALSE
              /\ txPos' = 0 /\ rxPos' = 0
        /\ UNCHANGED <<addLock, list, todo, aborted, isr>>
  /\ UNCHANGED wire

\* The second write of CR1.  The interrupt that the write of CR2 enabled is
\* taken before it or after it; once the handler has run, and sent its first
\* byte, the write waits as every other instruction of a task does.
EnableSPI(t) ==
  /\ ~aborted /\ isr = "none"
  /\ Raised => txPos = 0
  /\ Goto(t, "spe", "unlock")
  /\ SPE' = TRUE
  /\ UNCHANGED <<posting, flags, transfer, chip, aborted, txPos, rxPos, IE, isr, wire>>

TaskStep(t) ==
  \/ /\ TasksRun
     /\ \/ PostStep(t) /\ UNCHANGED <<spi, wire>>
        \/ Start(t) \/ Next1(t)
  \/ EnableSPI(t)

NewList(t) ==
  /\ TasksRun
  /\ \E l \in Lists[t] : Call(t, l)
  /\ UNCHANGED <<spi, wire>>

-----------------------------------------------------------------------------
(* RTSPIF3DoWork, the handler.                                             *)

Enter ==
  /\ Raised /\ ~aborted
  /\ \/ transfer = None /\ Abort /\ UNCHANGED isr
     \/ transfer # None /\ isr' = "rx" /\ UNCHANGED aborted
  /\ UNCHANGED <<posting, flags, pc, transfer, chip, txPos, rxPos, IE, SPE, wire>>

ReceiveByte ==
  /\ isr = "rx" /\ ~aborted /\ RXNE
  /\ \/ /\ rxPos < xferLen[transfer] /\ rxPos < txPos
        /\ rxPos' = After(rxPos) /\ rxFifo' = rxFifo - 1
        /\ UNCHANGED aborted
     \/ /\ ~(rxPos < xferLen[transfer] /\ rxPos < txPos)
        /\ Abort
        /\ UNCHANGED <<rxPos, rxFifo>>
  /\ UNCHANGED <<posting, flags, pc, transfer, chip, txPos, IE, SPE, isr, txFifo, shifting>>

ReceivedSome ==
  /\ isr = "rx" /\ ~aborted /\ ~RXNE
  /\ rxPos # xferLen[transfer]
  /\ isr' = "tx"
  /\ UNCHANGED <<core, txPos, rxPos, IE, SPE, wire>>

\* Mutant: the handler turns itself off without a look at the queue.
ReceivedAll_Stops ==
  /\ isr = "rx" /\ ~aborted /\ ~RXNE
  /\ rxPos = xferLen[transfer] /\ txPos = xferLen[transfer] /\ FinishAsserts
  /\ completed' = Set(completed, transfer, TRUE)
  /\ chip' = SelectAfter(chip, transfer)
  /\ transfer' = None /\ IE' = FALSE /\ isr' = "none"
  /\ UNCHANGED <<posting, pc, dispatched, aborted, txPos, rxPos, SPE, wire>>

\* The transfer is complete: on to the next, or interrupts off.
ReceivedAll ==
  /\ isr = "rx" /\ ~aborted /\ ~RXNE
  /\ rxPos = xferLen[transfer]
  /\ \/ /\ ~(txPos = xferLen[transfer] /\ FinishAsserts)
        /\ Abort
        /\ UNCHANGED <<posting, flags, transfer, chip, spi>>
     \/ /\ txPos = xferLen[transfer] /\ FinishAsserts
        /\ \/ /\ FinishLast
              /\ IE' = FALSE /\ isr' = "none"
              /\ UNCHANGED <<txPos, rxPos, SPE>>
           \/ /\ ~BSY
              /\ FinishAndNext
              /\ IE' = TRUE /\ SPE' = TRUE /\ isr' = "tx"
              /\ txPos' = 0 /\ rxPos' = 0
        /\ UNCHANGED <<addLock, list, todo, aborted>>
  /\ UNCHANGED <<pc, wire>>

\* Mutant: what waits to be read is not looked at.
MaySend_Full == TXE

\* One round of the loop that fills the transmit FIFO.
MaySend == TXE /\ ~RXNE

SendByte ==
  /\ isr = "tx" /\ ~aborted
  /\ MaySend /\ txPos < xferLen[transfer]
  /\ txFifo' = txFifo + 1 /\ txPos' = After(txPos)
  /\ UNCHANGED <<core, rxPos, IE, SPE, isr, shifting, rxFifo>>

Return ==
  /\ isr = "tx" /\ ~aborted
  /\ ~(MaySend /\ txPos < xferLen[transfer])
  /\ isr' = "none"
  /\ UNCHANGED <<core, txPos, rxPos, IE, SPE, wire>>

HandlerStep == Enter \/ ReceiveByte \/ ReceivedSome \/ ReceivedAll \/ SendByte \/ Return

-----------------------------------------------------------------------------
(* The peripheral.                                                         *)

ShiftOut ==
  /\ SPE /\ ~shifting /\ txFifo > 0
  /\ shifting' = TRUE /\ txFifo' = txFifo - 1
  /\ UNCHANGED <<core, spi, rxFifo>>

\* A byte that finds the receive FIFO full is lost.
ShiftIn ==
  /\ shifting
  /\ shifting' = FALSE
  /\ rxFifo' = IF rxFifo < FifoSize THEN rxFifo + 1 ELSE rxFifo
  /\ UNCHANGED <<core, spi, txFifo>>

WireStep == ShiftOut \/ ShiftIn

Next ==
  \/ \E t \in Task : NewList(t) \/ TaskStep(t)
  \/ HandlerStep
  \/ WireStep

\* The peripheral and the handler do not stop, and a task that gets the
\* processor again and again executes its next instruction.
Fairness ==
  /\ WF_vars(WireStep) /\ WF_vars(HandlerStep)
  /\ \A t \in Task : SF_vars(TaskStep(t))

Spec == Init /\ [][Next]_vars /\ Fairness

-----------------------------------------------------------------------------
(* Properties.                                                             *)

\* The type invariant.
TypeOK ==
  /\ CoreTypeOK
  /\ txPos \in 0 .. PosWrap - 1 /\ rxPos \in 0 .. PosWrap - 1
  /\ IE \in BOOLEAN /\ SPE \in BOOLEAN /\ isr \in {"none", "rx", "tx"}
  /\ txFifo \in 0 .. FifoSize /\ shifting \in BOOLEAN /\ rxFifo \in 0 .. FifoSize

\* "XXX overrun: think about it" (arm/spi_stm32f3.c:171).  However late the
\* handler is, the receive FIFO has room for every byte that is on its way,
\* and no byte is lost or left over: what was sent and not received is in
\* the peripheral.
NoOverrun ==
  /\ OnWire <= FifoSize
  /\ transfer # None => rxPos + OnWire \in {txPos, txPos + PosWrap}

\* When bytes can move, the slave they are for is selected and no other is.
OneSlave == BSY => chip.low = {slave[transfer]}
=============================================================================
