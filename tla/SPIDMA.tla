------------------------------- MODULE SPIDMA -------------------------------
(***************************************************************************)
(* The SPI master of arm/spidma_stm32f3.c on the core of SPI: two DMA      *)
(* channels move the bytes of a transfer, and the receive channel raises   *)
(* an interrupt when the last has come in.  The handler is one step: no    *)
(* hardware is at work while it runs.                                      *)
(***************************************************************************)
EXTENDS SPI

CONSTANTS
  speed,        \* the highest bit rate of each transfer
  RefSpeed      \* refClock / 2

MAX_SCALER == 7     \* SPI_CR1_BR has three bits

\* What CR1_BR divides the reference speed by.
Divider == <<1, 2, 4, 8, 16, 32, 64, 128>>

\* The peripheral clock is 36 or 72 MHz.  With a speed of 0 the code's search
\* for a scaler takes what calloc left in the cache.
ASSUME SpeedAssumption ==
  /\ RefSpeed \in Nat /\ RefSpeed % 128 = 0
  /\ \A x \in Transfer : speed[x] \in Nat \ {0}

VARIABLES
  txTCIE, rxTCIE,   \* TCIE of dmaTX->CCR and dmaRX->CCR
  moving,           \* SPI and channels enabled and not done
  TCIF,             \* the receive channel is done
  BR,               \* CR1: the bit rate is RefSpeed / Divider[BR + 1]
  cache             \* lastDesiredSpeed, lastSpeed, lastScaler

dma     == <<txTCIE, rxTCIE, moving, TCIF, BR, cache>>
dmaVars == <<core, dma>>

DMAInit ==
  /\ CoreInit
  /\ txTCIE = FALSE /\ rxTCIE = FALSE /\ moving = FALSE /\ TCIF = FALSE
  /\ BR = 0
  /\ cache = [desired |-> 0, speed |-> 0, scaler |-> 0]

DMARaised   == rxTCIE /\ TCIF
DMATasksRun == ~aborted /\ ~DMARaised

-----------------------------------------------------------------------------
(* RTSPIDMAF3BeginTransfer, but for the chip selects.                      *)

\* Mutant: the search always goes on where the last one ended.
SearchFrom_Last(want) == [speed |-> cache.speed, scaler |-> cache.scaler]

\* Where the search for a scaler begins: a lower speed than the last one is
\* found from there.
SearchFrom(want) ==
  IF want <= cache.desired THEN [speed |-> cache.speed, scaler |-> cache.scaler]
                           ELSE [speed |-> RefSpeed, scaler |-> 0]

\* How often to halve the speed for one that is not above want, as far as
\* BR goes.
Halvings(from, want) ==
  {n \in 0 .. MAX_SCALER - from.scaler : from.speed \div Divider[n + 1] <= want}

\* The loop takes the first; the assert after it fails when there is none.
BeginTransfer(x) ==
  LET from == SearchFrom(speed[x]) IN
  /\ txTCIE' = FALSE
  /\ \/ /\ Halvings(from, speed[x]) = {}
        /\ Abort
        /\ rxTCIE' = FALSE
        /\ UNCHANGED <<moving, BR, cache>>
     \/ \E n \in Halvings(from, speed[x]) :
        /\ \A m \in Halvings(from, speed[x]) : n <= m
        /\ cache' = [desired |-> speed[x], speed |-> from.speed \div Divider[n + 1],
                     scaler |-> from.scaler + n]
        /\ BR' = from.scaler + n
        /\ rxTCIE' = TRUE /\ moving' = TRUE
        /\ UNCHANGED aborted

\* RTSPIDMAF3NextMessage when there is nothing to do.
NoTransfer ==
  /\ txTCIE' = FALSE
  /\ UNCHANGED <<aborted, rxTCIE, moving, BR, cache>>

-----------------------------------------------------------------------------
(* RTSPIDMAF3Start, by the task that posts.                                *)

\* RTSPIDMAF3InterruptsEnabled looks at the transmit channel.
InterruptsEnabled == txTCIE

DMAStart(t) ==
  /\ Goto(t, "start", IF InterruptsEnabled THEN "unlock" ELSE "next")
  /\ UNCHANGED <<posting, flags, transfer, chip, aborted, dma>>

NextMessage(t) ==
  /\ Goto(t, "next", "unlock")
  /\ \/ /\ ~StartAsserts
        /\ Abort
        /\ UNCHANGED <<posting, flags, transfer, chip, dma>>
     \/ /\ StartAsserts
        /\ \/ StartNothing /\ NoTransfer
           \/ StartNext /\ BeginTransfer(transfer')
        /\ UNCHANGED <<addLock, list, todo, TCIF>>

DMATaskStep(t) ==
  /\ DMATasksRun
  /\ \/ PostStep(t) /\ UNCHANGED dma
     \/ DMAStart(t) \/ NextMessage(t)

DMANewList(t) ==
  /\ DMATasksRun
  /\ \E l \in Lists[t] : Call(t, l)
  /\ UNCHANGED dma

-----------------------------------------------------------------------------
(* The DMA controller, and RTSPIDMAF3DoWork, the handler.                  *)

Moved ==
  /\ moving /\ ~aborted
  /\ moving' = FALSE /\ TCIF' = TRUE
  /\ UNCHANGED <<core, txTCIE, rxTCIE, BR, cache>>

\* Mutant: the interrupt flag stays set.
DoWork_FlagStays ==
  /\ DMARaised /\ ~aborted
  /\ \/ /\ transfer = None
        /\ Abort
        /\ UNCHANGED <<posting, flags, transfer, chip, dma>>
     \/ /\ transfer # None /\ FinishAsserts
        /\ \/ FinishLast /\ NoTransfer
           \/ FinishAndNext /\ BeginTransfer(transfer')
        /\ UNCHANGED <<addLock, list, todo, TCIF>>
  /\ UNCHANGED pc

\* Mutant: the handler leaves the queue to the next start.
DoWork_Stops ==
  /\ DMARaised /\ ~aborted /\ FinishAsserts
  /\ completed' = Set(completed, transfer, TRUE)
  /\ chip' = SelectAfter(chip, transfer)
  /\ transfer' = None /\ TCIF' = FALSE
  /\ NoTransfer
  /\ UNCHANGED <<posting, pc, dispatched>>

DoWork ==
  /\ DMARaised /\ ~aborted
  /\ \/ /\ transfer = None \/ ~FinishAsserts
        /\ Abort
        /\ UNCHANGED <<posting, flags, transfer, chip, dma>>
     \/ /\ transfer # None /\ FinishAsserts
        /\ \/ FinishLast /\ NoTransfer
           \/ FinishAndNext /\ BeginTransfer(transfer')
        /\ TCIF' = FALSE
        /\ UNCHANGED <<addLock, list, todo>>
  /\ UNCHANGED pc

DMANext ==
  \/ \E t \in Task : DMANewList(t) \/ DMATaskStep(t)
  \/ Moved
  \/ DoWork

\* As in SPIF3.
DMAFairness ==
  /\ WF_dmaVars(Moved) /\ WF_dmaVars(DoWork)
  /\ \A t \in Task : SF_dmaVars(DMATaskStep(t))

DMASpec == DMAInit /\ [][DMANext]_dmaVars /\ DMAFairness

-----------------------------------------------------------------------------
(* Properties.                                                             *)

\* The type invariant.
DMATypeOK ==
  /\ CoreTypeOK
  /\ txTCIE \in BOOLEAN /\ rxTCIE \in BOOLEAN /\ moving \in BOOLEAN /\ TCIF \in BOOLEAN
  /\ BR \in 0 .. MAX_SCALER
  /\ cache \in [desired : Nat, speed : Nat, scaler : 0 .. MAX_SCALER]

\* A transfer is clocked at the highest rate that the clock gives and that
\* is not above its speed, whatever was found for those before it.
SpeedHonoured ==
  moving =>
    /\ RefSpeed <= speed[transfer] * Divider[BR + 1]
    /\ BR > 0 => RefSpeed > speed[transfer] * Divider[BR]
=============================================================================
