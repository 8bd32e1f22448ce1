------------------------------ MODULE SPIProofs ------------------------------
(***************************************************************************)
(* The SPI masters, for any tasks, lists, lengths and speeds.  The driver  *)
(* with interrupts: no byte is lost, the right slave is selected, no       *)
(* assert fails, and the lists of different tasks are not mixed.  The DMA  *)
(* driver: the same of slaves and lists, every transfer is clocked at the  *)
(* highest rate it may be, and no assert fails while one task posts.       *)
(***************************************************************************)
EXTENDS SPIF3, SPIDMA, SequenceTheorems, TLAPS

\* The part of the type invariant that the argument rests on.
Types ==
  /\ queue \in Seq(Transfer) /\ todo \in [Task -> Seq(Transfer)]
  /\ transfer \in Transfer \cup {None}
  /\ txPos \in 0 .. PosWrap - 1 /\ rxPos \in 0 .. PosWrap - 1
  /\ txFifo \in Nat /\ shifting \in BOOLEAN /\ rxFifo \in Nat

\* Between two transfers the peripheral is empty and its interrupts are off.
Quiet == OnWire = 0 /\ isr = "none" /\ ~IE

\* Positions do not wrap in transfers that they can count.
InStep == LengthsFit /\ transfer # None => txPos = rxPos + OnWire

Inv ==
  /\ Types
  /\ NoOverrun
  /\ InStep
  /\ transfer = None => Quiet

-----------------------------------------------------------------------------

LEMMA InitInv == Init => Inv
<1> SUFFICES ASSUME Init PROVE Inv
  OBVIOUS
<1>1. <<>> \in Seq(Transfer)
  OBVIOUS
<1>2. transfer = None /\ txFifo = 0 /\ ~shifting /\ rxFifo = 0 /\ isr = "none" /\ ~IE
  BY DEF Init, CoreInit
<1>3. txPos \in 0 .. PosWrap - 1 /\ rxPos \in 0 .. PosWrap - 1
  <2>1. txPos = 0 /\ rxPos = 0
    BY DEF Init
  <2> QED BY <2>1, PosAssumption DEF FifoSize
<1>4. Types
  <2>1. txFifo \in Nat /\ rxFifo \in Nat /\ shifting \in BOOLEAN
    BY DEF Init
  <2> QED BY <1>1, <1>3, <2>1 DEF Init, CoreInit, Types
<1>5. OnWire = 0
  BY <1>2 DEF OnWire
<1>6. NoOverrun /\ InStep /\ Quiet
  BY <1>2, <1>5 DEF NoOverrun, InStep, Quiet, FifoSize
<1> QED BY <1>4, <1>6 DEF Inv

\* Where the variables that Inv speaks of do not change.
LEMMA Undisturbed ==
  ASSUME Inv, UNCHANGED <<queue, todo, transfer, txPos, rxPos, wire, isr, IE>>
  PROVE  Inv'
BY DEF Inv, Types, NoOverrun, InStep, Quiet, OnWire, wire

\* What may be done to the queue and the lists beside.
LEMMA QueueOnly ==
  ASSUME Inv, queue' \in Seq(Transfer), todo' \in [Task -> Seq(Transfer)],
         UNCHANGED <<transfer, txPos, rxPos, wire, isr, IE>>
  PROVE  Inv'
BY DEF Inv, Types, NoOverrun, InStep, Quiet, OnWire, wire

\* The next transfer begins with an empty peripheral.
LEMMA TakenType ==
  ASSUME queue \in Seq(Transfer), TakeNext
  PROVE  queue' \in Seq(Transfer) /\ transfer' \in Transfer /\ transfer' # None
<1>1. Head(queue) \in Transfer /\ Tail(queue) \in Seq(Transfer)
  BY HeadTailProperties DEF TakeNext
<1> QED BY <1>1, ListsAssumption DEF TakeNext

LEMMA BeginInv ==
  ASSUME Inv, OnWire = 0, TakeNext, txPos' = 0, rxPos' = 0, UNCHANGED <<todo, wire>>
  PROVE  Inv'
<1>1. OnWire' = 0
  BY DEF OnWire, wire
<1>2. Types'
  BY TakenType, PosAssumption DEF Inv, Types, FifoSize, wire
<1> QED BY <1>1, <1>2, TakenType DEF Inv, Types, NoOverrun, InStep, FifoSize

LEMMA EndInv ==
  ASSUME Inv, OnWire = 0, TakeNothing, IE' = FALSE, isr' = "none",
         UNCHANGED <<todo, txPos, rxPos, wire>>
  PROVE  Inv'
<1>1. OnWire' = 0
  BY DEF OnWire, wire
<1>2. Types'
  BY DEF Inv, Types, wire, TakeNothing
<1> QED BY <1>1, <1>2 DEF Inv, NoOverrun, InStep, FifoSize, Quiet, TakeNothing

-----------------------------------------------------------------------------
(* The tasks.                                                              *)

LEMMA PostInv ==
  ASSUME Inv, NEW t \in Task, PostStep(t), UNCHANGED <<spi, wire>>
  PROVE  Inv'
<1> USE DEF spi
<1>1. CASE Lock(t) \/ Unlock(t)
  BY <1>1, Undisturbed DEF Lock, Unlock
<1>2. CASE Room(t)
  <2>1. todo' = todo \/ todo' = [todo EXCEPT ![t] = <<>>]
    BY <1>2 DEF Room, Set
  <2>2. <<>> \in Seq(Transfer)
    OBVIOUS
  <2>3. todo' \in [Task -> Seq(Transfer)]
    BY <2>1, <2>2 DEF Inv, Types
  <2> QED BY <1>2, <2>3, QueueOnly DEF Room, Inv, Types
<1>3. CASE Put(t)
  <2>1. CASE todo[t] = <<>> /\ UNCHANGED <<queue, todo>>
    BY <1>3, <2>1, Undisturbed DEF Put
  <2>2. ASSUME NEW n \in 1 .. Len(todo[t]),
               queue' = queue \o SubSeq(todo[t], 1, n),
               todo' = Set(todo, t, SubSeq(todo[t], n + 1, Len(todo[t])))
        PROVE  Inv'
    <3>1. todo[t] \in Seq(Transfer)
      BY DEF Inv, Types
    <3>2. /\ SubSeq(todo[t], 1, n) \in Seq(Transfer)
          /\ SubSeq(todo[t], n + 1, Len(todo[t])) \in Seq(Transfer)
      BY <3>1, LenProperties, SubSeqProperties
    <3>3. queue' \in Seq(Transfer)
      BY <2>2, <3>2, ConcatProperties DEF Inv, Types
    <3>4. todo' \in [Task -> Seq(Transfer)]
      BY <2>2, <3>2 DEF Inv, Types, Set
    <3> QED BY <1>3, <3>3, <3>4, QueueOnly DEF Put
  <2> QED BY <1>3, <2>1, <2>2 DEF Put
<1> QED BY <1>1, <1>2, <1>3 DEF PostStep

LEMMA TaskInv ==
  ASSUME Inv, NEW t \in Task, TaskStep(t)
  PROVE  Inv'
<1>1. CASE PostStep(t) /\ UNCHANGED <<spi, wire>>
  BY <1>1, PostInv
<1>2. CASE Start(t) \/ EnableSPI(t)
  BY <1>2, Undisturbed DEF Start, EnableSPI, spi, posting
<1>3. CASE Next1(t)
  <2>1. CASE UNCHANGED <<posting, transfer, spi>>
    BY <1>3, <2>1, Undisturbed DEF Next1, spi, posting
  <2>2. CASE StartAsserts /\ UNCHANGED <<addLock, list, todo, aborted, isr>>
    <3>1. OnWire = 0 /\ isr = "none"
      BY <2>2 DEF StartAsserts, Inv, Quiet
    <3>2. CASE StartNothing /\ IE' = FALSE /\ UNCHANGED <<txPos, rxPos>>
      BY <1>3, <2>2, <3>1, <3>2, EndInv DEF Next1, StartNothing
    <3>3. CASE StartNext /\ txPos' = 0 /\ rxPos' = 0
      BY <1>3, <2>2, <3>1, <3>3, BeginInv DEF Next1, StartNext
    <3> QED BY <1>3, <2>2, <3>2, <3>3, <2>1 DEF Next1
  <2> QED BY <1>3, <2>1, <2>2 DEF Next1
<1> QED BY <1>1, <1>2, <1>3 DEF TaskStep

LEMMA CallInv ==
  ASSUME Inv, NEW t \in Task, NewList(t)
  PROVE  Inv'
<1>1. PICK l \in Lists[t] : Call(t, l)
  BY DEF NewList
<1>2. l \in Seq(Transfer)
  BY ListsAssumption
<1>3. todo' \in [Task -> Seq(Transfer)]
  BY <1>1, <1>2 DEF Call, Set, Inv, Types
<1> QED BY <1>1, <1>3, QueueOnly DEF NewList, Call, Inv, Types, spi

-----------------------------------------------------------------------------
(* The handler and the peripheral.                                         *)

LEMMA HandlerInv ==
  ASSUME Inv, HandlerStep
  PROVE  Inv'
<1>1. CASE Enter
  BY <1>1 DEF Enter, Raised, posting, wire, Inv, Types, NoOverrun, InStep, Quiet, OnWire
<1>2. CASE ReceiveByte
  <2>1. /\ isr = "rx" /\ rxFifo > 0
        /\ UNCHANGED <<queue, todo, transfer, txPos, IE, isr, txFifo, shifting>>
    BY <1>2 DEF ReceiveByte, RXNE, posting
  <2>2. CASE UNCHANGED <<rxPos, rxFifo>>
    BY <2>1, <2>2, Undisturbed DEF wire
  <2>3. CASE rxPos < txPos /\ rxPos' = After(rxPos) /\ rxFifo' = rxFifo - 1
    <3>1. rxPos' = rxPos + 1 /\ rxPos' \in 0 .. PosWrap - 1
      BY <2>3, PosAssumption DEF After, Inv, Types
    <3>2. Types'
      BY <2>1, <2>3, <3>1 DEF Inv, Types
    <3>3. NoOverrun' /\ InStep'
      BY <2>1, <2>3, <3>1, PosAssumption DEF Inv, Types, NoOverrun, InStep, OnWire, FifoSize
    <3> QED BY <2>1, <3>2, <3>3 DEF Inv, Quiet
  <2> QED BY <1>2, <2>2, <2>3 DEF ReceiveByte
<1>3. CASE ReceivedSome
  BY <1>3 DEF ReceivedSome, core, posting, wire, Inv, Types, NoOverrun, InStep, Quiet, OnWire
<1>4. CASE ReceivedAll
  <2>1. CASE UNCHANGED <<posting, transfer, spi>>
    BY <1>4, <2>1, Undisturbed DEF ReceivedAll, posting, spi
  <2>2. CASE txPos = xferLen[transfer] /\ UNCHANGED <<addLock, list, todo, aborted>>
    <3>1. OnWire = 0
      BY <1>4, <2>2, PosAssumption DEF ReceivedAll, Inv, Types, NoOverrun, Quiet, OnWire, FifoSize
    <3>2. CASE FinishLast /\ IE' = FALSE /\ isr' = "none" /\ UNCHANGED <<txPos, rxPos>>
      BY <1>4, <2>2, <3>1, <3>2, EndInv DEF ReceivedAll, FinishLast
    <3>3. CASE FinishAndNext /\ txPos' = 0 /\ rxPos' = 0
      BY <1>4, <2>2, <3>1, <3>3, BeginInv DEF ReceivedAll, FinishAndNext
    <3> QED BY <1>4, <2>1, <2>2, <3>2, <3>3 DEF ReceivedAll
  <2> QED BY <1>4, <2>1, <2>2 DEF ReceivedAll
<1>5. CASE SendByte
  <2>1. /\ isr = "tx" /\ txFifo <= 2 /\ rxFifo = 0 /\ txPos < xferLen[transfer]
        /\ txFifo' = txFifo + 1 /\ txPos' = After(txPos)
        /\ UNCHANGED <<queue, todo, transfer, rxPos, IE, isr, shifting, rxFifo>>
    BY <1>5 DEF SendByte, MaySend, TXE, RXNE, core, posting, FifoSize, Inv, Types
  <2>2. txPos \in 0 .. PosWrap - 1 /\ PosWrap \in Nat /\ txPos' \in 0 .. PosWrap - 1
    BY <2>1, PosAssumption DEF After, Inv, Types, FifoSize
  <2>3. transfer \in Transfer /\ xferLen[transfer] \in Nat
    BY <2>1, LenAssumption DEF Inv, Types, Quiet
  <2>4. OnWire \in 0 .. FifoSize - 1 /\ OnWire' = OnWire + 1
    BY <2>1 DEF OnWire, Inv, Types, FifoSize
  <2>5. NoOverrun'
    BY <2>1, <2>2, <2>4, PosAssumption DEF After, Inv, Types, NoOverrun, FifoSize
  <2>6. InStep'
    <3>1. CASE LengthsFit
      <4>1. xferLen[transfer] < PosWrap
        BY <2>3, <3>1 DEF LengthsFit
      <4>2. txPos' = txPos + 1
        BY <2>1, <2>2, <2>3, <4>1 DEF After
      <4> QED BY <2>1, <2>4, <4>2 DEF Inv, Types, InStep
    <3>2. CASE ~LengthsFit
      BY <3>2 DEF InStep, LengthsFit
    <3> QED BY <3>1, <3>2
  <2> QED BY <2>1, <2>2, <2>5, <2>6 DEF Inv, Types, Quiet
<1>6. CASE Return
  BY <1>6 DEF Return, core, posting, wire, Inv, Types, NoOverrun, InStep, Quiet, OnWire
<1> QED BY <1>1, <1>2, <1>3, <1>4, <1>5, <1>6 DEF HandlerStep

LEMMA WireInv ==
  ASSUME Inv, WireStep
  PROVE  Inv'
<1>1. OnWire' = OnWire
  BY DEF WireStep, ShiftOut, ShiftIn, Inv, Types, NoOverrun, OnWire, FifoSize
<1>2. UNCHANGED <<queue, todo, transfer, txPos, rxPos>>
  BY DEF WireStep, ShiftOut, ShiftIn, core, posting, spi
<1>3. txFifo' \in Nat /\ rxFifo' \in Nat /\ shifting' \in BOOLEAN
  <2>1. CASE ShiftOut
    BY <2>1 DEF ShiftOut, Inv, Types
  <2>2. CASE ShiftIn
    <3>1. txFifo \in Nat /\ rxFifo \in Nat
      BY DEF Inv, Types
    <3>2. shifting' = FALSE /\ txFifo' = txFifo
      BY <2>2 DEF ShiftIn
    <3>3. rxFifo' = rxFifo + 1 \/ rxFifo' = rxFifo
      BY <2>2 DEF ShiftIn
    <3>4. rxFifo' \in Nat
      BY <3>1, <3>3
    <3> QED BY <3>1, <3>2, <3>4
  <2> QED BY <2>1, <2>2 DEF WireStep
<1>4. Types'
  BY <1>2, <1>3 DEF Inv, Types
<1> QED BY <1>1, <1>4 DEF WireStep, ShiftOut, ShiftIn, Inv, NoOverrun, InStep, Quiet, core, spi

THEOREM Invariance == Spec => []Inv
<1>1. ASSUME Inv, [Next]_vars PROVE Inv'
  <2>1. CASE UNCHANGED vars
    BY <1>1, <2>1, Undisturbed DEF vars, core, posting, spi
  <2> QED BY <1>1, <2>1, TaskInv, CallInv, HandlerInv, WireInv DEF Next
<1> QED BY InitInv, <1>1, PTL DEF Spec

\* Every byte on its way has a place in the receive FIFO, and what was sent
\* and not received is in the peripheral (arm/spi_stm32f3.c:171), for any
\* number of tasks, lists and lengths.
THEOREM NoByteLost == Spec => []NoOverrun
<1>1. Inv => NoOverrun
  BY DEF Inv
<1> QED BY <1>1, Invariance, PTL

-----------------------------------------------------------------------------
(* Chip selects.                                                           *)

\* No more than the selected slave's pin is low, and it is that of the
\* transfer in progress.
ChipInv ==
  /\ chip.low = IF chip.selected = None THEN {} ELSE {chip.selected}
  /\ transfer # None => chip.selected = slave[transfer] /\ slave[transfer] # None

LEMMA SelectForOne ==
  ASSUME NEW c, NEW x, slave[x] # None,
         c.low = IF c.selected = None THEN {} ELSE {c.selected}
  PROVE  /\ SelectFor(c, x).selected = slave[x] /\ SelectFor(c, x).low = {slave[x]}
         /\ SelectAfter(c, x).low =
              IF SelectAfter(c, x).selected = None THEN {} ELSE {SelectAfter(c, x).selected}
<1>1. c.selected = None \/ c.low = {c.selected}
  OBVIOUS
<1>2. c.low \ {c.selected} = {}
  BY <1>1
<1>3. Deselect(c).selected = None /\ Deselect(c).low = {}
  BY <1>2 DEF Deselect
<1>4. SelectAfter(c, x).low =
        IF SelectAfter(c, x).selected = None THEN {} ELSE {SelectAfter(c, x).selected}
  BY <1>3 DEF SelectAfter
<1>5. \A f : f.selected = None /\ f.low = {} =>
        Select(f, slave[x]).selected = slave[x] /\ Select(f, slave[x]).low = {slave[x]}
  <2>1. \A f : /\ Select(f, slave[x]).selected = slave[x]
               /\ Select(f, slave[x]).low = f.low \cup {slave[x]}
    BY DEF Select
  <2>2. {} \cup {slave[x]} = {slave[x]}
    OBVIOUS
  <2> QED BY <2>1, <2>2
<1>6. CASE c.selected = slave[x]
  <2>1. SelectFor(c, x) = c
    BY <1>6 DEF SelectFor
  <2> QED BY <1>4, <1>6, <2>1
<1>7. CASE c.selected = None
  <2>1. SelectFor(c, x) = Select(c, slave[x]) /\ c.low = {}
    BY <1>7 DEF SelectFor
  <2> QED BY <1>4, <1>5, <1>7, <2>1
<1>8. CASE c.selected \notin {None, slave[x]}
  <2>1. SelectFor(c, x) = Select(Deselect(c), slave[x])
    BY <1>3, <1>8 DEF SelectFor
  <2> QED BY <1>3, <1>4, <1>5, <2>1
<1> QED BY <1>6, <1>7, <1>8

\* The starts and ends of transfers select and deselect as they should.
LEMMA ChipChange ==
  ASSUME ChipInv, queue \in Seq(Transfer),
         \/ StartNothing \/ StartNext
         \/ transfer # None /\ (FinishLast \/ FinishAndNext)
  PROVE  ChipInv'
<1>1. ASSUME TakeNext PROVE transfer' # None /\ slave[transfer'] # None
  BY <1>1, TakenType, TransferAssumption
<1>2. CASE StartNext
  <2>1. TakeNext /\ chip' = SelectFor(chip, transfer')
    BY <1>2 DEF StartNext
  <2>2. slave[transfer'] # None /\ transfer' # None
    BY <1>1, <2>1
  <2>3. chip'.selected = slave[transfer'] /\ chip'.low = {slave[transfer']}
    BY <2>1, <2>2, SelectForOne DEF ChipInv
  <2> QED BY <2>2, <2>3 DEF ChipInv
<1>3. CASE StartNothing
  BY <1>3 DEF StartNothing, TakeNothing, ChipInv
<1>4. CASE transfer # None /\ FinishLast
  BY <1>4, SelectForOne DEF FinishLast, TakeNothing, ChipInv
<1>5. CASE transfer # None /\ FinishAndNext
  <2>1. SelectAfter(chip, transfer).low =
          IF SelectAfter(chip, transfer).selected = None THEN {}
          ELSE {SelectAfter(chip, transfer).selected}
    BY <1>5, SelectForOne DEF ChipInv
  <2>2. TakeNext /\ chip' = SelectFor(SelectAfter(chip, transfer), transfer')
    BY <1>5 DEF FinishAndNext
  <2>3. slave[transfer'] # None /\ transfer' # None
    BY <1>1, <2>2
  <2>4. chip'.selected = slave[transfer'] /\ chip'.low = {slave[transfer']}
    BY <2>1, <2>2, <2>3, SelectForOne
  <2> QED BY <2>3, <2>4 DEF ChipInv
<1> QED BY <1>2, <1>3, <1>4, <1>5

LEMMA ChipStep ==
  ASSUME Inv, ChipInv, [Next]_vars
  PROVE  ChipInv'
<1>1. CASE UNCHANGED <<chip, transfer>>
  BY <1>1 DEF ChipInv
<1>2. queue \in Seq(Transfer)
  BY DEF Inv, Types
<1>3. ASSUME NEW t \in Task, Next1(t) PROVE ChipInv'
  BY <1>1, <1>2, <1>3, ChipChange DEF Next1
<1>4. CASE ReceivedAll
  <2>1. transfer # None
    BY <1>4 DEF ReceivedAll, Inv, Quiet
  <2> QED BY <1>1, <1>2, <1>4, <2>1, ChipChange DEF ReceivedAll
<1>5. ASSUME \/ \E t \in Task : NewList(t) \/ (PostStep(t) /\ UNCHANGED <<spi, wire>>)
                               \/ Start(t) \/ EnableSPI(t)
             \/ Enter \/ ReceiveByte \/ ReceivedSome \/ SendByte \/ Return
             \/ WireStep \/ UNCHANGED vars
      PROVE  UNCHANGED <<chip, transfer>>
  BY <1>5 DEF NewList, Call, PostStep, Lock, Room, Put, Unlock, Start, EnableSPI, Enter,
              ReceiveByte, ReceivedSome, SendByte, Return, WireStep, ShiftOut, ShiftIn, vars, core
<1> QED BY <1>1, <1>3, <1>4, <1>5 DEF Next, TaskStep, HandlerStep

\* OneSlave: no byte is clocked out but with exactly the chip select of its
\* transfer's slave low.
THEOREM RightSlaveOnly == Spec => []OneSlave
<1>1. Init => ChipInv
  BY DEF Init, CoreInit, ChipInv
<1>2. Inv /\ ChipInv => OneSlave
  <2> SUFFICES ASSUME Inv, ChipInv, BSY PROVE chip.low = {slave[transfer]}
    BY DEF OneSlave
  <2>1. transfer # None
    BY DEF Inv, Types, Quiet, OnWire, BSY
  <2> QED BY <2>1 DEF ChipInv
<1> QED BY <1>1, <1>2, ChipStep, Invariance, PTL DEF Spec

-----------------------------------------------------------------------------
(* The order of transfers.  All that the argument needs of a step is what  *)
(* it does to Ahead: nothing, or to take its head off, completed, or to    *)
(* put a list behind it.                                                   *)

ListTypes ==
  /\ queue \in Seq(Transfer) /\ todo \in [Task -> Seq(Transfer)]
  /\ list \in [Task -> Seq(Transfer)]
  /\ pc \in [Task -> {"idle", "lock", "room", "put", "start", "next", "spe", "unlock"}]
  /\ transfer \in Transfer \cup {None} /\ addLock \in Task \cup {None}
  /\ dispatched \in [Transfer -> BOOLEAN] /\ completed \in [Transfer -> BOOLEAN]

\* The list of a task is one that it may post, or was refused.
Posted == \A t \in Task : list[t] \in Lists[t] \cup {<<>>}

\* What is ahead is not completed, comes once, and is of a list that was
\* not refused.
Mine ==
  \A n \in 1 .. Len(Ahead) :
    /\ ~completed[Ahead[n]]
    /\ \E t \in Task : Admitted(t) /\ \E m \in 1 .. Len(list[t]) : list[t][m] = Ahead[n]
Once == \A m, n \in 1 .. Len(Ahead) : Ahead[m] = Ahead[n] => m = n

Together(t, k, j) ==
  \A n \in 1 .. Len(list[t]) :
    IF n <= k THEN completed[list[t][n]]
    ELSE /\ ~completed[list[t][n]]
         /\ j + n - k <= Len(Ahead) /\ Ahead[j + n - k] = list[t][n]

Order == Mine /\ Once /\ ListsTogether

\* Of what is ahead only the transfer in progress is dispatched.
Dispatch == \A n \in 1 .. Len(Ahead) : dispatched[Ahead[n]] = (n = 1 /\ transfer # None)

LEMMA AheadParts ==
  ASSUME ListTypes
  PROVE  /\ Current \in Seq(Transfer) /\ Rest \in Seq(Transfer) /\ Ahead \in Seq(Transfer)
         /\ Len(Ahead) \in Nat /\ Len(queue) \in Nat
         /\ \A n \in 1 .. Len(Ahead) : Ahead[n] \in Transfer
<1>1. Current \in Seq(Transfer)
  <2>1. transfer # None => <<transfer>> \in Seq(Transfer)
    BY DEF ListTypes
  <2> QED BY <2>1, EmptySeq DEF Current
<1>2. Rest \in Seq(Transfer)
  BY EmptySeq DEF Rest, ListTypes
<1>3. Ahead \in Seq(Transfer)
  BY <1>1, <1>2, ConcatProperties DEF Ahead, ListTypes
<1> QED BY <1>1, <1>2, <1>3, LenProperties, ElementOfSeq DEF ListTypes

\* Lists of two tasks share no transfer, and no list has one twice.
LEMMA ListsApart ==
  ASSUME Posted, ListTypes, NEW t \in Task
  PROVE  /\ \A m, n \in 1 .. Len(list[t]) : list[t][m] = list[t][n] => m = n
         /\ \A u \in Task \ {t} : \A m \in 1 .. Len(list[t]), n \in 1 .. Len(list[u]) :
              list[t][m] # list[u][n]
         /\ \A l \in Lists[t] : \A u \in Task \ {t} :
              \A n \in 1 .. Len(list[u]) : list[u][n] \notin ToSet(l)
<1>1. \A u \in Task : \A n \in 1 .. Len(list[u]) :
        list[u] \in Lists[u] /\ list[u][n] \in ToSet(list[u])
  <2> SUFFICES ASSUME NEW u \in Task, NEW n \in 1 .. Len(list[u])
               PROVE  list[u] \in Lists[u] /\ list[u][n] \in ToSet(list[u])
    OBVIOUS
  <2>1. list[u] # <<>>
    BY EmptySeq DEF ListTypes
  <2>2. n \in DOMAIN list[u]
    BY LenProperties DEF ListTypes
  <2> QED BY <2>1, <2>2 DEF Posted, ToSet
<1>2. \A u \in Task \ {t} : \A l \in Lists[t], m \in Lists[u] : ToSet(l) \cap ToSet(m) = {}
  BY ListsAssumption
<1>3. \A l \in Lists[t] : \A m, n \in 1 .. Len(l) : m # n => l[m] # l[n]
  BY ListsAssumption
<1> QED BY <1>1, <1>2, <1>3

LEMMA SameOrder ==
  ASSUME Order, Len(Ahead) \in Nat, Ahead' = Ahead, completed' = completed,
         \A t \in Task : \/ list'[t] = list[t] /\ (Admitted(t)' <=> Admitted(t))
                         \/ ~Admitted(t) /\ list'[t] = <<>>
  PROVE  Order'
<1>1. Mine'
  BY DEF Order, Mine
<1>2. Once'
  BY DEF Order, Once
<1>3. ListsTogether'
  <2> SUFFICES ASSUME NEW t \in Task, Admitted(t)'
               PROVE  \E k \in 0 .. Len(list'[t]), j \in 0 .. Len(Ahead') : Together(t, k, j)'
    BY DEF ListsTogether, Together
  <2>1. CASE list'[t] = list[t] /\ Admitted(t)
    <3>1. PICK k \in 0 .. Len(list[t]), j \in 0 .. Len(Ahead) : Together(t, k, j)
      BY <2>1 DEF Order, ListsTogether, Together
    <3>2. Together(t, k, j)'
      BY <2>1, <3>1 DEF Together
    <3> QED BY <2>1, <3>2
  <2>2. CASE list'[t] = <<>>
    <3>1. Len(list'[t]) = 0
      BY <2>2
    <3>2. Together(t, 0, 0)'
      BY <3>1 DEF Together
    <3>3. 0 \in 0 .. Len(list'[t]) /\ 0 \in 0 .. Len(Ahead')
      BY <3>1
    <3> QED BY <3>2, <3>3
  <2> QED BY <2>1, <2>2
<1> QED BY <1>1, <1>2, <1>3 DEF Order

LEMMA DropOrder ==
  ASSUME ListTypes, Order, Ahead' \in Seq(Transfer), NEW x \in Transfer,
         Ahead = <<x>> \o Ahead', completed' = [completed EXCEPT ![x] = TRUE],
         list' = list, \A t \in Task : Admitted(t)' <=> Admitted(t)
  PROVE  Order'
<1>1. /\ Len(Ahead') \in Nat /\ Len(Ahead) = Len(Ahead') + 1 /\ Ahead[1] = x
      /\ \A n \in 1 .. Len(Ahead') : n + 1 \in 1 .. Len(Ahead) /\ Ahead'[n] = Ahead[n + 1]
  <2>1. <<x>> \in Seq(Transfer) /\ Len(<<x>>) = 1 /\ <<x>>[1] = x
    OBVIOUS
  <2>2. Len(Ahead') \in Nat
    BY LenProperties
  <2>3. /\ Len(Ahead) = 1 + Len(Ahead')
        /\ \A n \in 1 .. 1 + Len(Ahead') : Ahead[n] = IF n <= 1 THEN <<x>>[n] ELSE Ahead'[n - 1]
    BY <2>1, ConcatProperties
  <2>4. ASSUME NEW n \in 1 .. Len(Ahead')
        PROVE  n + 1 \in 1 .. Len(Ahead) /\ Ahead'[n] = Ahead[n + 1]
    <3>1. n + 1 \in 1 .. 1 + Len(Ahead') /\ ~(n + 1 <= 1) /\ (n + 1) - 1 = n
      BY <2>2
    <3> QED BY <3>1, <2>3
  <2> QED BY <2>1, <2>2, <2>3, <2>4
<1>2. \A n \in 1 .. Len(Ahead) : Ahead[n] \in Transfer /\ (n # 1 => Ahead[n] # x)
  <2>1. 1 \in 1 .. Len(Ahead)
    BY <1>1
  <2> QED BY <1>1, <2>1, AheadParts DEF Order, Once
<1>3. \A y \in Transfer : completed'[y] = (completed[y] \/ y = x)
  BY DEF ListTypes
<1>4. Mine'
  <2> SUFFICES ASSUME NEW n \in 1 .. Len(Ahead')
               PROVE  /\ ~completed'[Ahead'[n]]
                      /\ \E t \in Task : Admitted(t)' /\
                           \E m \in 1 .. Len(list'[t]) : list'[t][m] = Ahead'[n]
    BY DEF Mine
  <2>1. n + 1 \in 1 .. Len(Ahead) /\ Ahead'[n] = Ahead[n + 1] /\ n + 1 # 1
    BY <1>1
  <2>2. ~completed[Ahead[n + 1]] /\ Ahead[n + 1] \in Transfer /\ Ahead[n + 1] # x
    BY <2>1, <1>2 DEF Order, Mine
  <2>3. \E t \in Task : Admitted(t) /\ \E m \in 1 .. Len(list[t]) : list[t][m] = Ahead[n + 1]
    BY <2>1 DEF Order, Mine
  <2> QED BY <1>3, <2>1, <2>2, <2>3
<1>5. Once'
  <2> SUFFICES ASSUME NEW m \in 1 .. Len(Ahead'), NEW n \in 1 .. Len(Ahead'), Ahead'[m] = Ahead'[n]
               PROVE  m = n
    BY DEF Once
  <2>1. m + 1 = n + 1
    BY <1>1 DEF Order, Once
  <2> QED BY <2>1, <1>1
<1>6. ListsTogether'
  <2> SUFFICES ASSUME NEW t \in Task, Admitted(t)'
               PROVE  \E k \in 0 .. Len(list'[t]), j \in 0 .. Len(Ahead') : Together(t, k, j)'
    BY DEF ListsTogether, Together
  <2>1. PICK k \in 0 .. Len(list[t]), j \in 0 .. Len(Ahead) : Together(t, k, j)
    BY DEF Order, ListsTogether, Together
  <2>2. PICK a : a = Ahead
    OBVIOUS
  <2>3. PICK b : b = Ahead'
    OBVIOUS
  <2>4. PICK l : l = list[t]
    OBVIOUS
  <2>5. /\ Len(l) \in Nat /\ \A n \in 1 .. Len(l) : l[n] \in Transfer
        /\ Len(a) = Len(b) + 1 /\ Len(b) \in Nat /\ a[1] = x
        /\ \A n \in 1 .. Len(a) : n # 1 => a[n] # x
        /\ \A n \in 1 .. Len(b) : b[n] = a[n + 1]
    BY <1>1, <1>2, <2>2, <2>3, <2>4, LenProperties, ElementOfSeq DEF ListTypes
  <2>6. k \in 0 .. Len(l) /\ j \in 0 .. Len(a)
    BY <2>2, <2>4
  <2>7. ASSUME NEW n \in 1 .. Len(l)
        PROVE  /\ n <= k => completed[l[n]]
               /\ n > k => ~completed[l[n]] /\ j + n - k <= Len(a) /\ a[j + n - k] = l[n]
    BY <2>1, <2>2, <2>4, <2>5, <2>6 DEF Together
  <2>8. ASSUME NEW K \in 0 .. Len(l), NEW J \in 0 .. Len(b),
               \A n \in 1 .. Len(l) :
                 /\ n <= K => completed'[l[n]]
                 /\ n > K => ~completed'[l[n]] /\ J + n - K <= Len(b) /\ b[J + n - K] = l[n]
        PROVE  \E q \in 0 .. Len(list'[t]), r \in 0 .. Len(Ahead') : Together(t, q, r)'
    <3>1. Together(t, K, J)'
      BY <2>3, <2>4, <2>5, <2>8 DEF Together
    <3> QED BY <2>3, <2>4, <3>1
  <2>9. CASE k = Len(l)
    <3>1. k \in 0 .. Len(l) /\ 0 \in 0 .. Len(b)
      BY <2>5, <2>6
    <3>2. \A n \in 1 .. Len(l) : n <= k /\ ~(n > k) /\ completed'[l[n]]
      BY <2>5, <2>7, <2>9, <1>3
    <3> QED BY <3>1, <3>2, <2>8
  <2>10. CASE k < Len(l) /\ j = 0
    <3>1. k + 1 \in 0 .. Len(l) /\ k + 1 \in 1 .. Len(l) /\ 0 \in 0 .. Len(b)
      BY <2>5, <2>6, <2>10
    <3>2. l[k + 1] = x
      <4>1. a[j + (k + 1) - k] = l[k + 1]
        BY <2>7, <3>1, <2>6
      <4>2. j + (k + 1) - k = 1
        BY <2>6, <2>10
      <4> QED BY <4>1, <4>2, <2>5
    <3>3. ASSUME NEW n \in 1 .. Len(l), n <= k + 1 PROVE completed'[l[n]]
      <4>1. n <= k \/ n = k + 1
        BY <3>3, <2>6
      <4> QED BY <4>1, <3>2, <2>7, <2>5, <1>3
    <3>4. ASSUME NEW n \in 1 .. Len(l), n > k + 1
          PROVE  ~completed'[l[n]] /\ 0 + n - (k + 1) <= Len(b) /\ b[0 + n - (k + 1)] = l[n]
      <4>1. ~completed[l[n]] /\ j + n - k <= Len(a) /\ a[j + n - k] = l[n]
        BY <2>6, <2>7, <3>4
      <4>2. PICK m \in Nat : m = 0 + n - (k + 1)
        BY <3>4, <2>6
      <4>3. j + n - k = m + 1 /\ m \in 1 .. Len(b) /\ m + 1 \in 1 .. Len(a) /\ m + 1 # 1
        BY <4>1, <4>2, <3>4, <2>5, <2>6, <2>10
      <4>4. b[m] = l[n] /\ l[n] # x
        BY <4>1, <4>3, <2>5
      <4> QED BY <4>1, <4>2, <4>3, <4>4, <2>5, <1>3
    <3> QED BY <3>1, <3>3, <3>4, <2>8
  <2>11. CASE k < Len(l) /\ j # 0
    <3>1. j - 1 \in 0 .. Len(b)
      BY <2>5, <2>6, <2>11
    <3>2. ASSUME NEW n \in 1 .. Len(l), n <= k PROVE completed'[l[n]]
      BY <3>2, <2>7, <2>5, <1>3
    <3>3. ASSUME NEW n \in 1 .. Len(l), n > k
          PROVE  ~completed'[l[n]] /\ (j - 1) + n - k <= Len(b) /\ b[(j - 1) + n - k] = l[n]
      <4>1. ~completed[l[n]] /\ j + n - k <= Len(a) /\ a[j + n - k] = l[n]
        BY <2>6, <2>7, <3>3
      <4>2. PICK m \in Nat : m = (j - 1) + n - k
        BY <3>3, <2>6, <2>11
      <4>3. j + n - k = m + 1 /\ m \in 1 .. Len(b) /\ m + 1 \in 1 .. Len(a) /\ m + 1 # 1
        BY <4>1, <4>2, <3>3, <2>5, <2>6, <2>11
      <4>4. b[m] = l[n] /\ l[n] # x
        BY <4>1, <4>3, <2>5
      <4> QED BY <4>1, <4>2, <4>3, <4>4, <2>5, <1>3
    <3> QED BY <3>1, <3>2, <3>3, <2>6, <2>8
  <2> QED BY <2>5, <2>6, <2>9, <2>10, <2>11
<1> QED BY <1>4, <1>5, <1>6 DEF Order

LEMMA ExtendOrder ==
  ASSUME ListTypes, Posted, Order, NEW t \in Task, ~Admitted(t),
         \A n \in 1 .. Len(list[t]) : ~completed[list[t][n]],
         Ahead' = Ahead \o list[t], UNCHANGED <<list, completed>>,
         \A u \in Task : Admitted(u)' <=> Admitted(u) \/ u = t
  PROVE  Order'
<1>1. PICK a : a = Ahead
  OBVIOUS
<1>2. PICK b : b = Ahead'
  OBVIOUS
<1>3. PICK l : l = list[t]
  OBVIOUS
<1>4. /\ Len(a) \in Nat /\ Len(l) \in Nat /\ Len(b) = Len(a) + Len(l) /\ Len(b) \in Nat
      /\ \A n \in 1 .. Len(b) : b[n] = IF n <= Len(a) THEN a[n] ELSE l[n - Len(a)]
  <2>1. a \in Seq(Transfer) /\ l \in Seq(Transfer) /\ b = a \o l
    BY <1>1, <1>2, <1>3, AheadParts DEF ListTypes
  <2>2. Len(a) \in Nat /\ Len(l) \in Nat
    BY <2>1, LenProperties
  <2> QED BY <2>1, <2>2, ConcatProperties
<1>5. ASSUME NEW n \in 1 .. Len(b)
      PROVE  \/ n \in 1 .. Len(a) /\ b[n] = a[n]
             \/ n > Len(a) /\ n - Len(a) \in 1 .. Len(l) /\ b[n] = l[n - Len(a)]
  BY <1>4
<1>6. ASSUME NEW n \in 1 .. Len(a)
      PROVE  \E u \in Task \ {t} : Admitted(u) /\ \E m \in 1 .. Len(list[u]) : list[u][m] = a[n]
  BY <1>1 DEF Order, Mine
<1>7. \A n \in 1 .. Len(a), m \in 1 .. Len(l) : a[n] # l[m]
  <2> SUFFICES ASSUME NEW n \in 1 .. Len(a), NEW m \in 1 .. Len(l) PROVE a[n] # l[m]
    OBVIOUS
  <2>1. PICK u \in Task \ {t} : \E k \in 1 .. Len(list[u]) : list[u][k] = a[n]
    BY <1>6
  <2> QED BY <2>1, <1>3, ListsApart
<1>8. Mine'
  <2> SUFFICES ASSUME NEW n \in 1 .. Len(b)
               PROVE  /\ ~completed[b[n]]
                      /\ \E u \in Task : Admitted(u)' /\ \E m \in 1 .. Len(list[u]) : list[u][m] = b[n]
    BY <1>2 DEF Mine
  <2>1. CASE n \in 1 .. Len(a) /\ b[n] = a[n]
    BY <2>1, <1>1, <1>6 DEF Order, Mine
  <2>2. CASE n - Len(a) \in 1 .. Len(l) /\ b[n] = l[n - Len(a)]
    BY <2>2, <1>3
  <2> QED BY <1>5, <2>1, <2>2
<1>9. Once'
  <2> SUFFICES ASSUME NEW m \in 1 .. Len(b), NEW n \in 1 .. Len(b), b[m] = b[n]
               PROVE  m = n
    BY <1>2 DEF Once
  <2>1. CASE m \in 1 .. Len(a) /\ n \in 1 .. Len(a)
    <3>1. a[m] = a[n]
      BY <2>1, <1>4
    <3> QED BY <2>1, <3>1, <1>1 DEF Order, Once
  <2>2. CASE m > Len(a) /\ n > Len(a)
    <3>1. /\ m - Len(a) \in 1 .. Len(l) /\ b[m] = l[m - Len(a)]
          /\ n - Len(a) \in 1 .. Len(l) /\ b[n] = l[n - Len(a)]
      BY <2>2, <1>4
    <3>2. m - Len(a) = n - Len(a)
      BY <3>1, <1>3, ListsApart
    <3> QED BY <3>2, <1>4
  <2>3. CASE m \in 1 .. Len(a) /\ n > Len(a)
    BY <2>3, <1>5, <1>7, <1>4
  <2>4. CASE n \in 1 .. Len(a) /\ m > Len(a)
    BY <2>4, <1>5, <1>7, <1>4
  <2> QED BY <1>4, <2>1, <2>2, <2>3, <2>4
<1>10. ListsTogether'
  <2> SUFFICES ASSUME NEW u \in Task, Admitted(u)'
               PROVE  \E k \in 0 .. Len(list'[u]), j \in 0 .. Len(Ahead') : Together(u, k, j)'
    BY DEF ListsTogether, Together
  <2>0. list'[u] = list[u] /\ Ahead' = b
    BY <1>2
  <2>1. CASE u = t
    <3>1. 0 \in 0 .. Len(list[u]) /\ Len(a) \in 0 .. Len(b)
      BY <1>3, <1>4, <2>1
    <3>2. ASSUME NEW n \in 1 .. Len(l)
          PROVE  /\ ~(n <= 0) /\ ~completed[l[n]]
                 /\ Len(a) + n - 0 <= Len(b) /\ b[Len(a) + n - 0] = l[n]
      <4>1. Len(a) + n \in 1 .. Len(b) /\ ~(Len(a) + n <= Len(a)) /\ (Len(a) + n) - Len(a) = n
        BY <1>4
      <4>2. Len(a) + n - 0 = Len(a) + n
        BY <1>4
      <4> QED BY <1>3, <1>4, <4>1, <4>2
    <3>3. Together(u, 0, Len(a))'
      BY <1>2, <1>3, <2>1, <3>2 DEF Together
    <3> QED BY <2>0, <3>1, <3>3
  <2>2. CASE u # t
    <3>1. PICK k \in 0 .. Len(list[u]), j \in 0 .. Len(a) : Together(u, k, j)
      BY <1>1, <2>2 DEF Order, ListsTogether, Together
    <3>2. Len(list[u]) \in Nat /\ j \in 0 .. Len(b)
      BY <1>4, LenProperties DEF ListTypes
    <3>3. ASSUME NEW n \in 1 .. Len(list[u]), ~(n <= k)
          PROVE  j + n - k <= Len(b) /\ b[j + n - k] = list[u][n]
      <4>1. j + n - k <= Len(a) /\ a[j + n - k] = list[u][n]
        BY <1>1, <3>1, <3>3 DEF Together
      <4>2. j + n - k \in 1 .. Len(a)
        BY <1>4, <3>2, <3>3, <4>1
      <4> QED BY <1>4, <4>1, <4>2
    <3>4. Together(u, k, j)'
      BY <1>2, <3>1, <3>3 DEF Together
    <3> QED BY <2>0, <3>1, <3>2, <3>4
  <2> QED BY <2>1, <2>2
<1> QED BY <1>8, <1>9, <1>10 DEF Order

LEMMA CallOrder ==
  ASSUME ListTypes, Posted, Order, NEW t \in Task, Call(t, list'[t]), list'[t] \in Lists[t],
         Ahead' = Ahead
  PROVE  Order' /\ \A n \in 1 .. Len(Ahead) : Ahead[n] \notin ToSet(list'[t])
<1>1. PICK l \in Lists[t] : l = list'[t]
  OBVIOUS
<1>2. /\ pc[t] = "idle" /\ pc' = [pc EXCEPT ![t] = "lock"]
      /\ list' = [list EXCEPT ![t] = l]
      /\ completed' = [x \in Transfer |-> completed[x] /\ x \notin ToSet(l)]
      /\ \A n \in 1 .. Len(list[t]) : completed[list[t][n]]
  <2>1. \A n \in 1 .. Len(list[t]) : list[t][n] \in ToSet(list[t])
    BY LenProperties DEF ToSet, ListTypes
  <2> QED BY <1>1, <2>1 DEF Call, Goto, Set
<1>3. ~Admitted(t)' /\ \A u \in Task \ {t} : (Admitted(u)' <=> Admitted(u)) /\ list'[u] = list[u]
  BY <1>2 DEF Admitted, ListTypes
<1>4. \A u \in Task \ {t} : \A n \in 1 .. Len(list[u]) :
        list[u][n] \in Transfer /\ completed'[list[u][n]] = completed[list[u][n]]
  <2> SUFFICES ASSUME NEW u \in Task \ {t}, NEW n \in 1 .. Len(list[u])
               PROVE  list[u][n] \in Transfer /\ completed'[list[u][n]] = completed[list[u][n]]
    OBVIOUS
  <2>1. list[u][n] \notin ToSet(l)
    BY ListsApart
  <2>2. list[u][n] \in Transfer
    BY ElementOfSeq DEF ListTypes
  <2> QED BY <1>2, <2>1, <2>2 DEF ListTypes
<1>5. ASSUME NEW n \in 1 .. Len(Ahead)
      PROVE  /\ ~completed'[Ahead[n]] /\ Ahead[n] \notin ToSet(l)
             /\ \E u \in Task : Admitted(u)' /\
                  \E m \in 1 .. Len(list'[u]) : list'[u][m] = Ahead[n]
  <2>1. PICK u \in Task : Admitted(u) /\ \E m \in 1 .. Len(list[u]) : list[u][m] = Ahead[n]
    BY DEF Order, Mine
  <2>2. ~completed[Ahead[n]]
    BY DEF Order, Mine
  <2>3. u # t
    BY <1>2, <2>1, <2>2
  <2>4. Ahead[n] \notin ToSet(l)
    BY <2>1, <2>3, ListsApart
  <2> QED BY <1>3, <1>4, <2>1, <2>2, <2>3, <2>4
<1>6. Once'
  BY DEF Order, Once
<1>7. ListsTogether'
  <2> SUFFICES ASSUME NEW u \in Task, Admitted(u)'
               PROVE  \E k \in 0 .. Len(list'[u]), j \in 0 .. Len(Ahead) : Together(u, k, j)'
    BY DEF ListsTogether, Together
  <2>1. u # t
    BY <1>3
  <2>2. PICK k \in 0 .. Len(list[u]), j \in 0 .. Len(Ahead) : Together(u, k, j)
    BY <1>3, <2>1 DEF Order, ListsTogether, Together
  <2>3. Together(u, k, j)'
    BY <1>3, <1>4, <2>1, <2>2 DEF Together
  <2> QED BY <1>3, <2>1, <2>3
<1>8. Mine'
  BY <1>5 DEF Mine
<1> QED BY <1>1, <1>5, <1>6, <1>7, <1>8 DEF Order

-----------------------------------------------------------------------------
(* What the steps of the core do to Ahead.                                 *)

\* Whoever is in RTSPIDoTransfers beyond the lock holds it.
Exclusive == \A t \in Task : pc[t] \notin {"idle", "lock"} => addLock = t

\* A list that is not yet admitted is untouched.
Waiting ==
  \A t \in Task : ~Admitted(t) =>
    /\ todo[t] = list[t]
    /\ \A n \in 1 .. Len(list[t]) : ~dispatched[list[t][n]] /\ ~completed[list[t][n]]

ListInv == ListTypes /\ Exclusive /\ Posted /\ Waiting /\ Order /\ Dispatch

LEMMA RestIs ==
  ASSUME ListTypes, Exclusive, NEW t \in Task, pc[t] \notin {"idle", "lock"}
  PROVE  Rest = IF pc[t] = "put" THEN todo[t] ELSE <<>>
BY ListsAssumption DEF Exclusive, Rest

\* Where the task that moves has the lock, Rest is what it leaves to put.
LEMMA RestBecomes ==
  ASSUME ListTypes, NEW t \in Task, addLock' \in {t, None}, NEW v, pc' = [pc EXCEPT ![t] = v]
  PROVE  Rest' = IF addLock' = t /\ v = "put" THEN todo'[t] ELSE <<>>
BY ListsAssumption DEF ListTypes, Rest

LEMMA PutAhead ==
  ASSUME ListTypes, Exclusive, NEW t \in Task, Put(t), pc[t] = "put"
  PROVE  Ahead' = Ahead
<1>1. /\ todo[t] \in Seq(Transfer) /\ queue \in Seq(Transfer) /\ Current' = Current
      /\ addLock = t /\ addLock' = t
  BY DEF Put, Current, ListTypes, Exclusive
<1>2. Ahead = Current \o queue \o todo[t]
  BY RestIs DEF Ahead
<1>3. CASE todo[t] = <<>> /\ UNCHANGED <<queue, todo>> /\ pc' = [pc EXCEPT ![t] = "start"]
  BY <1>1, <1>2, <1>3, RestBecomes DEF Ahead
<1>4. ASSUME NEW n \in 1 .. Len(todo[t]), pc' = pc,
             queue' = queue \o SubSeq(todo[t], 1, n),
             todo' = Set(todo, t, SubSeq(todo[t], n + 1, Len(todo[t])))
      PROVE  Ahead' = Ahead
  <2>1. Rest' = SubSeq(todo[t], n + 1, Len(todo[t]))
    BY <1>1, <1>4, ListsAssumption DEF Rest, Set, ListTypes
  <2>2. PICK l \in Seq(Transfer) : l = todo[t]
    BY <1>1
  <2>3. PICK p : p = SubSeq(l, 1, n)
    OBVIOUS
  <2>4. PICK r : r = SubSeq(l, n + 1, Len(l))
    OBVIOUS
  <2>5. Len(l) \in Nat /\ n \in 1 .. Len(l) /\ \A m \in 1 .. Len(l) : l[m] \in Transfer
    BY <2>2, LenProperties, ElementOfSeq
  <2>6. p \in Seq(Transfer) /\ r \in Seq(Transfer)
    BY <2>3, <2>4, <2>5, SubSeqProperties
  <2>7. p \o r = l
    <3>1. 1 \in 1 .. Len(l) + 1 /\ n \in 1 - 1 .. Len(l) /\ Len(l) \in n .. Len(l)
      BY <2>5
    <3>2. SubSeq(l, 1, n) \o SubSeq(l, n + 1, Len(l)) = SubSeq(l, 1, Len(l))
      BY <3>1, ConcatAdjacentSubSeq
    <3> QED BY <2>3, <2>4, <3>2, SubSeqFull
  <2>8. PICK c \in Seq(Transfer) : c = Current
    BY AheadParts
  <2>9. Ahead' = (c \o (queue \o p)) \o r
    BY <1>1, <1>4, <2>1, <2>2, <2>3, <2>4, <2>8 DEF Ahead
  <2>10. PICK d \in Seq(Transfer) : d = c \o queue
    BY <1>1, ConcatProperties
  <2>11. c \o (queue \o p) = d \o p
    <3>1. \A q \in Seq(Transfer) : (c \o q) \o p = c \o (q \o p)
      BY <2>6, ConcatAssociative
    <3> QED BY <1>1, <2>10, <3>1, Zenon
  <2>12. (d \o p) \o r = d \o (p \o r)
    BY <2>6, ConcatAssociative
  <2>13. Ahead = d \o l
    BY <1>2, <2>2, <2>8, <2>10
  <2> QED BY <2>7, <2>9, <2>11, <2>12, <2>13
<1> QED BY <1>3, <1>4 DEF Put, Goto

LEMMA AdmitAhead ==
  ASSUME ListTypes, Exclusive, Waiting, NEW t \in Task, pc[t] = "room", addLock' = t,
         UNCHANGED <<queue, todo, transfer>>, pc' = [pc EXCEPT ![t] = "put"]
  PROVE  Ahead' = Ahead \o list[t]
<1>1. Rest = <<>> /\ Rest' = list[t]
  BY RestIs, RestBecomes DEF Waiting, Admitted
<1>2. Current' = Current
  BY DEF Current
<1>3. Current \o queue \in Seq(Transfer)
  BY AheadParts, ConcatProperties DEF ListTypes
<1> QED BY <1>1, <1>2, <1>3, ConcatEmptySeq DEF Ahead

\* NextMessage with nothing in progress takes the first of the queue over.
LEMMA StartAhead ==
  ASSUME ListTypes, Exclusive, NEW t \in Task, pc[t] = "next", transfer = None, TakeNext,
         addLock' = addLock, NEW v, v # "put", pc' = [pc EXCEPT ![t] = v]
  PROVE  Ahead' = Ahead /\ Len(Ahead) # 0 /\ transfer' = Ahead[1]
<1>1. Rest = <<>> /\ Rest' = <<>>
  BY RestIs, RestBecomes DEF Exclusive
<1>2. PICK q \in Seq(Transfer) : q = queue /\ q # <<>>
  BY DEF ListTypes, TakeNext
<1>3. Head(q) \in Transfer /\ transfer' = Head(q) /\ transfer' # None /\ queue' = Tail(q)
  BY <1>2, HeadTailProperties, ListsAssumption DEF TakeNext
<1>4. Current = <<>> /\ Current' = <<Head(q)>>
  BY <1>3 DEF Current
<1>5. <<Head(q)>> \o Tail(q) = q /\ Head(q) = q[1] /\ Len(q) # 0
  <2>1. Len(q) \in Nat \ {0} /\ Tail(q) = SubSeq(q, 2, Len(q)) /\ SubSeq(q, 1, Len(q)) = q
    BY <1>2, EmptySeq, TailIsSubSeq, SubSeqFull
  <2>2. 1 \in 1 .. Len(q) /\ Len(q) \in 1 .. Len(q)
    BY <2>1
  <2>3. SubSeq(q, 1, Len(q)) = <<q[1]>> \o SubSeq(q, 1 + 1, Len(q))
    BY <2>2, SubSeqRecursiveFirst
  <2>4. Head(q) = q[1]
    BY <1>2
  <2> QED BY <2>1, <2>3, <2>4
<1>6. Ahead = q
  BY <1>1, <1>2, <1>4, ConcatEmptySeq DEF Ahead
<1>7. Ahead' = q
  BY <1>1, <1>3, <1>4, <1>5, ConcatEmptySeq DEF Ahead
<1> QED BY <1>3, <1>5, <1>6, <1>7

\* The end of a transfer takes it off.
LEMMA FinishAhead ==
  ASSUME ListTypes, transfer \in Transfer, TakeNothing \/ TakeNext,
         UNCHANGED <<addLock, todo, pc>>
  PROVE  Ahead = <<transfer>> \o Ahead' /\ Ahead' \in Seq(Transfer)
<1>1. Rest' = Rest /\ Rest \in Seq(Transfer) /\ transfer # None
  BY AheadParts, ListsAssumption DEF Rest
<1>2. Current = <<transfer>> /\ <<transfer>> \in Seq(Transfer)
  BY <1>1 DEF Current
<1>3. Current' \o queue' = queue
  <2>1. CASE TakeNothing
    BY <2>1 DEF TakeNothing, Current, ListTypes
  <2>2. CASE TakeNext
    <3>1. PICK q \in Seq(Transfer) : q = queue /\ q # <<>>
      BY <2>2 DEF ListTypes, TakeNext
    <3>2. Head(q) \in Transfer /\ transfer' = Head(q) /\ transfer' # None /\ queue' = Tail(q)
      BY <2>2, <3>1, HeadTailProperties, ListsAssumption DEF TakeNext
    <3>3. Len(q) \in Nat \ {0} /\ Tail(q) = SubSeq(q, 2, Len(q)) /\ SubSeq(q, 1, Len(q)) = q
      BY <3>1, EmptySeq, TailIsSubSeq, SubSeqFull
    <3>4. 1 \in 1 .. Len(q) /\ Len(q) \in 1 .. Len(q)
      BY <3>3
    <3>5. SubSeq(q, 1, Len(q)) = <<q[1]>> \o SubSeq(q, 1 + 1, Len(q))
      BY <3>4, SubSeqRecursiveFirst
    <3>6. Head(q) = q[1]
      BY <3>1
    <3> QED BY <3>1, <3>2, <3>3, <3>5, <3>6 DEF Current
  <2> QED BY <2>1, <2>2
<1>4. Ahead' = queue \o Rest /\ queue \o Rest \in Seq(Transfer)
  BY <1>1, <1>3, ConcatProperties DEF Ahead, ListTypes
<1>5. (<<transfer>> \o queue) \o Rest = <<transfer>> \o (queue \o Rest)
  BY <1>1, <1>2, ConcatAssociative DEF ListTypes
<1> QED BY <1>2, <1>4, <1>5 DEF Ahead

LEMMA FirstAhead ==
  ASSUME ListTypes
  PROVE  /\ transfer # None => 1 \in 1 .. Len(Ahead) /\ Ahead[1] = transfer
         /\ transfer = None /\ queue # <<>> => 1 \in 1 .. Len(Ahead) /\ Ahead[1] = Head(queue)
         /\ transfer # None /\ queue # <<>> => 2 \in 1 .. Len(Ahead) /\ Ahead[2] = Head(queue)
<1>1. PICK c \in Seq(Transfer), r \in Seq(Transfer) : c = Current /\ r = Rest
  BY AheadParts
<1>2. PICK q \in Seq(Transfer) : q = queue
  BY DEF ListTypes
<1>3. Len(c) \in Nat /\ Len(q) \in Nat /\ Len(r) \in Nat /\ (q # <<>> => Len(q) # 0 /\ Head(q) = q[1])
  BY EmptySeq, LenProperties
<1>4. PICK d \in Seq(Transfer) : d = c \o q
  BY ConcatProperties
<1>5. /\ Len(d) = Len(c) + Len(q)
      /\ \A n \in 1 .. Len(c) + Len(q) : d[n] = IF n <= Len(c) THEN c[n] ELSE q[n - Len(c)]
  BY <1>4, ConcatProperties
<1>6. PICK a : a = d \o r
  OBVIOUS
<1>7. /\ Len(a) = Len(d) + Len(r)
      /\ \A n \in 1 .. Len(d) + Len(r) : a[n] = IF n <= Len(d) THEN d[n] ELSE r[n - Len(d)]
  BY <1>6, ConcatProperties
<1>8. a = Ahead
  BY <1>1, <1>2, <1>4, <1>6 DEF Ahead
<1>9. CASE transfer # None
  <2>1. Len(c) = 1 /\ c[1] = transfer
    BY <1>1, <1>9 DEF Current
  <2>2. 1 \in 1 .. Len(a) /\ a[1] = transfer
    BY <2>1, <1>3, <1>5, <1>7
  <2>3. q # <<>> => 2 \in 1 .. Len(a) /\ a[2] = q[1]
    BY <2>1, <1>3, <1>5, <1>7
  <2> QED BY <1>2, <1>3, <1>8, <1>9, <2>2, <2>3
<1>10. CASE transfer = None
  <2>1. Len(c) = 0
    BY <1>1, <1>10 DEF Current
  <2>2. q # <<>> => 1 \in 1 .. Len(a) /\ a[1] = q[1]
    BY <2>1, <1>3, <1>5, <1>7
  <2> QED BY <1>2, <1>3, <1>8, <1>10, <2>2
<1> QED BY <1>9, <1>10

\* The driver's asserts about what it takes and completes hold.
LEMMA TakesFresh ==
  ASSUME ListInv
  PROVE  /\ transfer = None => StartAsserts
         /\ transfer # None => FinishAsserts
<1>1. CASE transfer = None
  BY <1>1, FirstAhead DEF ListInv, Order, Mine, Dispatch, StartAsserts
<1>2. CASE transfer # None
  <2>1. \A n \in 1 .. Len(Ahead) :
          ~completed[Ahead[n]] /\ (n = 1 => dispatched[Ahead[n]]) /\ (n # 1 => ~dispatched[Ahead[n]])
    BY <1>2 DEF ListInv, Order, Mine, Dispatch
  <2>2. dispatched[transfer] /\ ~completed[transfer]
    <3>1. 1 \in 1 .. Len(Ahead) /\ Ahead[1] = transfer
      BY <1>2, FirstAhead DEF ListInv
    <3>2. dispatched[Ahead[1]] /\ ~completed[Ahead[1]]
      BY <2>1, <3>1
    <3> QED BY <3>1, <3>2
  <2>3. queue # <<>> => 2 \in 1 .. Len(Ahead) /\ Ahead[2] = Head(queue)
    BY <1>2, FirstAhead DEF ListInv
  <2>4. queue # <<>> => ~dispatched[Head(queue)] /\ ~completed[Head(queue)]
    <3>1. 2 \in 1 .. Len(Ahead) => ~dispatched[Ahead[2]] /\ ~completed[Ahead[2]]
      <4>1. 2 # 1
        OBVIOUS
      <4> QED BY <2>1, <4>1, Zenon
    <3> QED BY <2>3, <3>1, Zenon
  <2> QED BY <1>2, <2>2, <2>4 DEF FinishAsserts
<1> QED BY <1>1, <1>2

FirstIsCurrent == transfer # None => 1 \in 1 .. Len(Ahead) /\ Ahead[1] = transfer

LEMMA FirstNext == ListTypes' => FirstIsCurrent'
<1>1. ListTypes => FirstIsCurrent
  BY FirstAhead DEF FirstIsCurrent
<1> QED BY <1>1, PTL

\* A step of the task that has the lock, in which no list is admitted.
LEMMA StayLists ==
  ASSUME ListInv, NEW t \in Task, pc[t] \notin {"idle", "lock", "room", "put"},
         NEW v \in {"start", "next", "spe", "unlock"}, pc' = [pc EXCEPT ![t] = v],
         UNCHANGED <<posting, flags, transfer>>
  PROVE  ListInv'
<1>1. ListTypes'
  BY DEF ListInv, ListTypes, posting, flags
<1>2. addLock = t /\ Exclusive' /\ Posted'
  BY DEF ListInv, ListTypes, Exclusive, Posted, posting
<1>3. \A u \in Task : Admitted(u)' <=> Admitted(u)
  BY DEF ListInv, ListTypes, Admitted
<1>4. Rest = <<>> /\ Rest' = <<>>
  BY <1>2, RestIs, RestBecomes DEF ListInv, posting
<1>5. Ahead' = Ahead
  BY <1>4 DEF Ahead, Current, posting
<1>6. Order'
  BY <1>3, <1>5, SameOrder, AheadParts DEF ListInv, posting, flags
<1>7. Waiting' /\ Dispatch'
  BY <1>3, <1>5 DEF ListInv, Waiting, Dispatch, posting, flags
<1> QED BY <1>1, <1>2, <1>6, <1>7 DEF ListInv

LEMMA PostLists ==
  ASSUME ListInv, NEW t \in Task, PostStep(t)
  PROVE  ListInv'
<1>0. pc[t] \in {"lock", "room", "put", "unlock"} /\ UNCHANGED <<flags, transfer>>
  BY DEF PostStep, Lock, Room, Put, Unlock, Goto
<1>1. CASE Lock(t)
  <2>1. /\ pc[t] = "lock" /\ pc' = [pc EXCEPT ![t] = "room"] /\ addLock = None /\ addLock' = t
        /\ UNCHANGED <<queue, list, todo>>
    BY <1>1 DEF Lock, Goto
  <2>2. ListTypes' /\ Posted'
    BY <1>0, <2>1 DEF ListInv, ListTypes, Posted, flags
  <2>3. \A u \in Task : pc[u] \in {"idle", "lock"}
    BY <2>1, ListsAssumption DEF ListInv, Exclusive
  <2>4. Exclusive' /\ \A u \in Task : Admitted(u)' <=> Admitted(u)
    BY <2>1, <2>3 DEF ListInv, ListTypes, Exclusive, Admitted
  <2>5. Rest = <<>> /\ Rest' = <<>>
    BY <2>1, RestBecomes DEF ListInv, Rest
  <2>6. Ahead' = Ahead
    BY <1>0, <2>1, <2>5 DEF Ahead, Current
  <2>7. Order'
    BY <1>0, <2>1, <2>4, <2>6, SameOrder, AheadParts DEF ListInv, flags
  <2>8. Waiting' /\ Dispatch'
    BY <1>0, <2>1, <2>4, <2>6 DEF ListInv, Waiting, Dispatch, flags
  <2> QED BY <2>2, <2>4, <2>7, <2>8 DEF ListInv
<1>2. CASE Unlock(t)
  <2>1. /\ pc[t] = "unlock" /\ pc' = [pc EXCEPT ![t] = "idle"] /\ addLock' = None
        /\ UNCHANGED <<queue, list, todo>>
    BY <1>2 DEF Unlock, Goto
  <2>2. ListTypes' /\ Posted'
    BY <1>0, <2>1 DEF ListInv, ListTypes, Posted, flags
  <2>3. \A u \in Task : u # t => pc[u] \in {"idle", "lock"}
    BY <2>1 DEF ListInv, Exclusive
  <2>4. Exclusive' /\ \A u \in Task : Admitted(u)' <=> Admitted(u)
    BY <2>1, <2>3 DEF ListInv, ListTypes, Exclusive, Admitted
  <2>5. Rest = <<>> /\ Rest' = <<>>
    BY <2>1, RestIs DEF ListInv, Rest
  <2>6. Ahead' = Ahead
    BY <1>0, <2>1, <2>5 DEF Ahead, Current
  <2>7. Order'
    BY <1>0, <2>1, <2>4, <2>6, SameOrder, AheadParts DEF ListInv, flags
  <2>8. Waiting' /\ Dispatch'
    BY <1>0, <2>1, <2>4, <2>6 DEF ListInv, Waiting, Dispatch, flags
  <2> QED BY <2>2, <2>4, <2>7, <2>8 DEF ListInv
<1>3. CASE Put(t)
  <2>1. /\ pc[t] = "put" /\ (pc' = pc \/ pc' = [pc EXCEPT ![t] = "start"])
        /\ UNCHANGED <<addLock, list>>
    BY <1>3 DEF Put, Goto
  <2>2. todo' \in [Task -> Seq(Transfer)] /\ queue' \in Seq(Transfer)
        /\ \A u \in Task \ {t} : todo'[u] = todo[u]
    <3>1. CASE UNCHANGED <<queue, todo>>
      BY <3>1 DEF ListInv, ListTypes
    <3>2. ASSUME NEW n \in 1 .. Len(todo[t]),
                 queue' = queue \o SubSeq(todo[t], 1, n),
                 todo' = Set(todo, t, SubSeq(todo[t], n + 1, Len(todo[t])))
          PROVE  todo' \in [Task -> Seq(Transfer)] /\ queue' \in Seq(Transfer)
                 /\ \A u \in Task \ {t} : todo'[u] = todo[u]
      <4>1. todo[t] \in Seq(Transfer)
        BY DEF ListInv, ListTypes
      <4>2. /\ SubSeq(todo[t], 1, n) \in Seq(Transfer)
            /\ SubSeq(todo[t], n + 1, Len(todo[t])) \in Seq(Transfer)
        BY <4>1, LenProperties, SubSeqProperties
      <4>3. queue' \in Seq(Transfer)
        BY <3>2, <4>2, ConcatProperties DEF ListInv, ListTypes
      <4>4. todo' \in [Task -> Seq(Transfer)] /\ \A u \in Task \ {t} : todo'[u] = todo[u]
        BY <3>2, <4>2 DEF ListInv, ListTypes, Set
      <4> QED BY <4>3, <4>4
    <3> QED BY <1>3, <3>1, <3>2 DEF Put
  <2>3. pc' \in [Task -> {"idle", "lock", "room", "put", "start", "next", "spe", "unlock"}]
    BY <2>1 DEF ListInv, ListTypes
  <2>4. ListTypes' /\ Posted'
    BY <1>0, <2>1, <2>2, <2>3 DEF ListInv, ListTypes, Posted, flags
  <2>5. Exclusive' /\ Admitted(t) /\ \A u \in Task : Admitted(u)' <=> Admitted(u)
    BY <2>1 DEF ListInv, ListTypes, Exclusive, Admitted
  <2>6. Ahead' = Ahead
    BY <1>3, <2>1, PutAhead DEF ListInv
  <2>7. Order'
    BY <1>0, <2>1, <2>5, <2>6, SameOrder, AheadParts DEF ListInv, flags
  <2>8. Waiting' /\ Dispatch'
    BY <1>0, <2>1, <2>2, <2>5, <2>6 DEF ListInv, Waiting, Dispatch, flags
  <2> QED BY <2>4, <2>5, <2>7, <2>8 DEF ListInv
<1>4. CASE Room(t) /\ ~Fits(todo[t])
  <2>1. /\ pc[t] = "room" /\ pc' = [pc EXCEPT ![t] = "unlock"] /\ UNCHANGED <<queue, addLock>>
        /\ list' = [list EXCEPT ![t] = <<>>] /\ todo' = [todo EXCEPT ![t] = <<>>]
    BY <1>4 DEF Room, Goto, Set
  <2>2. ListTypes' /\ Posted'
    BY <1>0, <2>1, EmptySeq DEF ListInv, ListTypes, Posted, flags
  <2>3. /\ Exclusive' /\ ~Admitted(t) /\ Admitted(t)' /\ list'[t] = <<>>
        /\ \A u \in Task \ {t} : /\ Admitted(u)' <=> Admitted(u)
                                 /\ list'[u] = list[u] /\ todo'[u] = todo[u]
    BY <2>1 DEF ListInv, ListTypes, Exclusive, Admitted
  <2>4. Rest = <<>> /\ Rest' = <<>>
    <3>1. addLock = t /\ addLock' = t
      BY <2>1 DEF ListInv, Exclusive
    <3>2. Rest = <<>>
      BY <2>1, RestIs DEF ListInv
    <3>3. ListTypes /\ addLock' \in {t, None} /\ pc' = [pc EXCEPT ![t] = "unlock"]
      BY <2>1, <3>1 DEF ListInv
    <3>4. Rest' = IF addLock' = t /\ "unlock" = "put" THEN todo'[t] ELSE <<>>
      BY <3>3, RestBecomes
    <3> QED BY <3>2, <3>4
  <2>5. Ahead' = Ahead
    BY <1>0, <2>1, <2>4 DEF Ahead, Current
  <2>6. Order'
    BY <1>0, <2>1, <2>3, <2>5, SameOrder, AheadParts DEF ListInv, flags
  <2>7. Waiting' /\ Dispatch'
    BY <1>0, <2>1, <2>3, <2>5 DEF ListInv, Waiting, Dispatch, flags
  <2> QED BY <2>2, <2>3, <2>6, <2>7 DEF ListInv
<1>5. CASE Room(t) /\ Fits(todo[t])
  <2>1. /\ pc[t] = "room" /\ pc' = [pc EXCEPT ![t] = "put"]
        /\ UNCHANGED <<queue, addLock, list, todo>>
    BY <1>5 DEF Room, Goto
  <2>2. ListTypes' /\ Posted'
    BY <1>0, <2>1 DEF ListInv, ListTypes, Posted, flags
  <2>3. /\ Exclusive' /\ ~Admitted(t) /\ Admitted(t)' /\ addLock' = t
        /\ \A u \in Task \ {t} : Admitted(u)' <=> Admitted(u)
    BY <2>1 DEF ListInv, ListTypes, Exclusive, Admitted
  <2>4. Ahead' = Ahead \o list[t]
    BY <1>0, <2>1, <2>3, AdmitAhead DEF ListInv
  <2>5. \A n \in 1 .. Len(list[t]) : ~dispatched[list[t][n]] /\ ~completed[list[t][n]]
    BY <2>3 DEF ListInv, Waiting
  <2>6. Order'
    BY <1>0, <2>1, <2>3, <2>4, <2>5, ExtendOrder DEF ListInv, flags
  <2>7. Waiting'
    BY <1>0, <2>1, <2>3 DEF ListInv, Waiting, flags
  <2>8. Dispatch'
    <3>1. PICK a \in Seq(Transfer), l \in Seq(Transfer) : a = Ahead /\ l = list[t]
      BY AheadParts DEF ListInv, ListTypes
    <3>2. /\ Len(a) \in Nat /\ Len(l) \in Nat /\ Len(a \o l) = Len(a) + Len(l)
          /\ \A n \in 1 .. Len(a) + Len(l) :
               (a \o l)[n] = IF n <= Len(a) THEN a[n] ELSE l[n - Len(a)]
      BY LenProperties, ConcatProperties
    <3>3. ASSUME NEW n \in 1 .. Len(a) + Len(l)
          PROVE  dispatched[(a \o l)[n]] = (n = 1 /\ transfer # None)
      <4>1. CASE n <= Len(a)
        <5>1. n \in 1 .. Len(a) /\ (a \o l)[n] = a[n]
          BY <4>1, <3>2
        <5> QED BY <5>1, <3>1 DEF ListInv, Dispatch
      <4>2. CASE n > Len(a)
        <5>1. n - Len(a) \in 1 .. Len(l) /\ (a \o l)[n] = l[n - Len(a)]
          BY <4>2, <3>2
        <5>2. ~dispatched[(a \o l)[n]]
          BY <5>1, <3>1, <2>5
        <5>3. ~(n = 1 /\ transfer # None)
          BY <4>2, <3>1, <3>2, FirstAhead DEF ListInv
        <5>4. dispatched[(a \o l)[n]] \in BOOLEAN
          BY <5>1, ElementOfSeq DEF ListInv, ListTypes
        <5> QED BY <5>2, <5>3, <5>4
      <4> QED BY <4>1, <4>2, <3>2
    <3>4. dispatched' = dispatched /\ transfer' = transfer /\ Ahead' = a \o l
      BY <1>0, <2>4, <3>1 DEF flags
    <3> QED BY <3>2, <3>3, <3>4 DEF Dispatch
  <2> QED BY <2>2, <2>3, <2>6, <2>7, <2>8 DEF ListInv
<1> QED BY <1>1, <1>2, <1>3, <1>4, <1>5 DEF PostStep

LEMMA CallLists ==
  ASSUME ListInv, NEW t \in Task, NEW l \in Lists[t], Call(t, l)
  PROVE  ListInv'
<1>1. /\ pc[t] = "idle" /\ pc' = [pc EXCEPT ![t] = "lock"]
      /\ list' = [list EXCEPT ![t] = l] /\ todo' = [todo EXCEPT ![t] = l]
      /\ dispatched' = [x \in Transfer |-> dispatched[x] /\ x \notin ToSet(l)]
      /\ completed' = [x \in Transfer |-> completed[x] /\ x \notin ToSet(l)]
      /\ UNCHANGED <<queue, addLock, transfer>>
  BY DEF Call, Goto, Set
<1>2. l \in Seq(Transfer)
  BY ListsAssumption
<1>3. /\ \A n \in 1 .. Len(l) : l[n] \in Transfer /\ l[n] \in ToSet(l)
  BY <1>2, LenProperties, ElementOfSeq DEF ToSet
<1>4. ListTypes'
  <2>1. /\ list' \in [Task -> Seq(Transfer)] /\ todo' \in [Task -> Seq(Transfer)]
        /\ pc' \in [Task -> {"idle", "lock", "room", "put", "start", "next", "spe", "unlock"}]
    BY <1>1, <1>2 DEF ListInv, ListTypes
  <2>2. dispatched' \in [Transfer -> BOOLEAN] /\ completed' \in [Transfer -> BOOLEAN]
    BY <1>1
  <2> QED BY <1>1, <2>1, <2>2 DEF ListInv, ListTypes
<1>5. /\ list'[t] = l /\ todo'[t] = l
      /\ \A u \in Task \ {t} : /\ list'[u] = list[u] /\ todo'[u] = todo[u]
                               /\ Admitted(u)' <=> Admitted(u)
  BY <1>1 DEF ListInv, ListTypes, Admitted
<1>6. Posted'
  BY <1>5 DEF ListInv, Posted
<1>7. Exclusive'
  BY <1>1 DEF ListInv, ListTypes, Exclusive
<1>8. Rest' = Rest
  <2>1. addLock # None /\ pc'[addLock] = "put" => addLock # t /\ addLock \in Task
    BY <1>1 DEF ListInv, ListTypes
  <2>2. addLock # None /\ pc[addLock] = "put" => addLock # t /\ addLock \in Task
    BY <1>1 DEF ListInv, ListTypes
  <2> QED BY <1>1, <2>1, <2>2 DEF Rest, ListInv, ListTypes
<1>9. Ahead' = Ahead
  BY <1>1, <1>8 DEF Ahead, Current
<1>10. Order' /\ \A n \in 1 .. Len(Ahead) : Ahead[n] \notin ToSet(l)
  <2>1. list'[t] \in Lists[t] /\ Call(t, list'[t])
    BY <1>5
  <2> QED BY <1>5, <1>9, <2>1, CallOrder DEF ListInv
<1>11. \A x \in Transfer : /\ x \in ToSet(l) => ~dispatched'[x] /\ ~completed'[x]
                           /\ x \notin ToSet(l) => dispatched'[x] = dispatched[x]
                                                   /\ completed'[x] = completed[x]
  BY <1>1 DEF ListInv, ListTypes
<1>12. Dispatch'
  BY <1>1, <1>9, <1>10, <1>11, AheadParts DEF ListInv, Dispatch
<1>13. Waiting'
  <2> SUFFICES ASSUME NEW u \in Task, ~Admitted(u)'
               PROVE  /\ todo'[u] = list'[u]
                      /\ \A n \in 1 .. Len(list'[u]) : ~dispatched'[list'[u][n]] /\ ~completed'[list'[u][n]]
    BY DEF Waiting
  <2>1. CASE u = t
    BY <2>1, <1>3, <1>5, <1>11
  <2>2. CASE u # t
    <3>1. todo[u] = list[u] /\ list'[u] = list[u] /\ todo'[u] = todo[u]
      BY <1>5, <2>2 DEF ListInv, Waiting
    <3>2. \A n \in 1 .. Len(list[u]) : ~dispatched[list[u][n]] /\ ~completed[list[u][n]]
      BY <1>5, <2>2 DEF ListInv, Waiting
    <3>3. \A n \in 1 .. Len(list[u]) : list[u][n] \in Transfer
      BY ElementOfSeq DEF ListInv, ListTypes
    <3> QED BY <1>11, <3>1, <3>2, <3>3
  <2> QED BY <2>1, <2>2
<1> QED BY <1>4, <1>6, <1>7, <1>10, <1>12, <1>13 DEF ListInv

LEMMA StartLists ==
  ASSUME ListInv, NEW t \in Task, pc[t] = "next", transfer = None, StartNext,
         NEW v \in {"spe", "unlock"}, pc' = [pc EXCEPT ![t] = v],
         UNCHANGED <<addLock, list, todo>>
  PROVE  ListInv'
<1>1. /\ TakeNext /\ dispatched' = [dispatched EXCEPT ![transfer'] = TRUE] /\ completed' = completed
  BY DEF StartNext, Set
<1>2. queue' \in Seq(Transfer) /\ transfer' \in Transfer /\ transfer' # None
  BY <1>1, TakenType DEF ListInv, ListTypes
<1>3. ListTypes'
  <2>1. /\ pc' \in [Task -> {"idle", "lock", "room", "put", "start", "next", "spe", "unlock"}]
        /\ dispatched' \in [Transfer -> BOOLEAN]
    BY <1>1 DEF ListInv, ListTypes
  <2> QED BY <1>1, <1>2, <2>1 DEF ListInv, ListTypes
<1>4. Exclusive' /\ Posted' /\ \A u \in Task : Admitted(u)' <=> Admitted(u)
  BY DEF ListInv, ListTypes, Exclusive, Posted, Admitted
<1>5. Ahead' = Ahead /\ Len(Ahead) # 0 /\ transfer' = Ahead[1]
  BY <1>1, StartAhead DEF ListInv
<1>6. Order'
  BY <1>1, <1>4, <1>5, SameOrder, AheadParts DEF ListInv
<1>7. \A x \in Transfer : dispatched'[x] = (dispatched[x] \/ x = transfer')
  BY <1>1, <1>2 DEF ListInv, ListTypes
<1>8. Dispatch'
  <2> SUFFICES ASSUME NEW n \in 1 .. Len(Ahead) PROVE dispatched'[Ahead[n]] = (n = 1)
    BY <1>2, <1>5 DEF Dispatch
  <2>1. 1 \in 1 .. Len(Ahead) /\ Ahead[n] \in Transfer
    BY <1>5, AheadParts DEF ListInv
  <2>2. ~dispatched[Ahead[n]]
    BY DEF ListInv, Dispatch
  <2>3. Ahead[n] = transfer' <=> n = 1
    BY <1>5, <2>1 DEF ListInv, Order, Once
  <2> QED BY <1>7, <2>1, <2>2, <2>3
<1>9. Waiting'
  <2> SUFFICES ASSUME NEW u \in Task, ~Admitted(u), NEW n \in 1 .. Len(list[u])
               PROVE  ~dispatched'[list[u][n]]
    BY <1>1, <1>4 DEF ListInv, Waiting
  <2>1. ~dispatched[list[u][n]] /\ list[u][n] \in Transfer
    BY ElementOfSeq DEF ListInv, ListTypes, Waiting
  <2>2. PICK w \in Task : Admitted(w) /\ \E m \in 1 .. Len(list[w]) : list[w][m] = transfer'
    <3>1. 1 \in 1 .. Len(Ahead)
      BY <1>5, AheadParts DEF ListInv
    <3> QED BY <1>5, <3>1 DEF ListInv, Order, Mine
  <2>3. list[u][n] # transfer'
    BY <2>2, ListsApart DEF ListInv
  <2> QED BY <1>7, <2>1, <2>3
<1> QED BY <1>3, <1>4, <1>6, <1>8, <1>9 DEF ListInv

LEMMA FinishLists ==
  ASSUME ListInv, transfer \in Transfer, FinishLast \/ FinishAndNext,
         UNCHANGED <<addLock, list, todo, pc>>
  PROVE  ListInv'
<1>1. PICK x \in Transfer : x = transfer
  OBVIOUS
<1>2. /\ TakeNothing \/ TakeNext
      /\ completed' = [completed EXCEPT ![x] = TRUE]
  BY <1>1 DEF FinishLast, FinishAndNext, Set
<1>3. /\ queue' \in Seq(Transfer) /\ transfer' \in Transfer \cup {None}
      /\ transfer' # None => dispatched' = [dispatched EXCEPT ![transfer'] = TRUE]
      /\ transfer' = None => dispatched' = dispatched
  <2>1. CASE FinishLast
    BY <2>1 DEF FinishLast, TakeNothing, ListInv, ListTypes
  <2>2. CASE FinishAndNext
    <3>1. queue' \in Seq(Transfer) /\ transfer' \in Transfer /\ transfer' # None
      BY <2>2, TakenType DEF ListInv, ListTypes, FinishAndNext
    <3> QED BY <2>2, <3>1 DEF FinishAndNext, Set
  <2> QED BY <2>1, <2>2
<1>4. dispatched' \in [Transfer -> BOOLEAN] /\ completed' \in [Transfer -> BOOLEAN]
  <2>1. completed' \in [Transfer -> BOOLEAN]
    BY <1>2 DEF ListInv, ListTypes
  <2>2. dispatched' \in [Transfer -> BOOLEAN]
    BY <1>3 DEF ListInv, ListTypes
  <2> QED BY <2>1, <2>2
<1>5. ListTypes'
  BY <1>3, <1>4 DEF ListInv, ListTypes
<1>6. Exclusive' /\ Posted' /\ \A u \in Task : Admitted(u)' <=> Admitted(u)
  BY DEF ListInv, Exclusive, Posted, Admitted
<1>7. Ahead = <<x>> \o Ahead' /\ Ahead' \in Seq(Transfer)
  BY <1>1, <1>2, FinishAhead DEF ListInv
<1>8. Order'
  BY <1>2, <1>6, <1>7, DropOrder DEF ListInv
<1>9. /\ Len(Ahead') \in Nat
      /\ \A n \in 1 .. Len(Ahead') : n + 1 \in 1 .. Len(Ahead) /\ Ahead'[n] = Ahead[n + 1]
  <2>1. PICK b \in Seq(Transfer) : b = Ahead'
    BY <1>7
  <2>2. <<x>> \in Seq(Transfer) /\ Len(<<x>>) = 1
    OBVIOUS
  <2>3. /\ Len(b) \in Nat /\ Len(<<x>> \o b) = 1 + Len(b)
        /\ \A n \in 1 .. 1 + Len(b) : (<<x>> \o b)[n] = IF n <= 1 THEN <<x>>[n] ELSE b[n - 1]
    BY <2>2, LenProperties, ConcatProperties
  <2>4. ASSUME NEW n \in 1 .. Len(b)
        PROVE  n + 1 \in 1 .. 1 + Len(b) /\ b[n] = (<<x>> \o b)[n + 1]
    <3>1. n + 1 \in 1 .. 1 + Len(b) /\ ~(n + 1 <= 1) /\ (n + 1) - 1 = n
      BY <2>3
    <3> QED BY <2>3, <3>1
  <2> QED BY <1>7, <2>1, <2>3, <2>4
<1>10. \A n \in 1 .. Len(Ahead') : Ahead'[n] \in Transfer /\ ~dispatched[Ahead'[n]]
  <2> SUFFICES ASSUME NEW n \in 1 .. Len(Ahead')
               PROVE  Ahead'[n] \in Transfer /\ ~dispatched[Ahead'[n]]
    OBVIOUS
  <2>1. n + 1 # 1 /\ n + 1 \in 1 .. Len(Ahead) /\ Ahead'[n] = Ahead[n + 1]
    BY <1>9
  <2>2. ~dispatched[Ahead[n + 1]] /\ Ahead[n + 1] \in Transfer
    BY <2>1, AheadParts DEF ListInv, Dispatch
  <2> QED BY <2>1, <2>2
<1>11. Dispatch'
  <2>1. CASE transfer' = None
    <3>1. ASSUME NEW n \in 1 .. Len(Ahead')
          PROVE  dispatched'[Ahead'[n]] = (n = 1 /\ transfer' # None)
      <4>1. dispatched[Ahead'[n]] = FALSE
        BY <1>10 DEF ListInv, ListTypes
      <4>2. dispatched' = dispatched /\ ~(n = 1 /\ transfer' # None)
        BY <1>3, <2>1
      <4> QED BY <4>1, <4>2
    <3> QED BY <3>1 DEF Dispatch
  <2>2. CASE transfer' # None
    <3>1. 1 \in 1 .. Len(Ahead') /\ Ahead'[1] = transfer'
      BY <1>5, <2>2, FirstNext DEF FirstIsCurrent
    <3>2. \A y \in Transfer : dispatched'[y] = (dispatched[y] \/ y = transfer')
      <4>1. transfer' \in Transfer /\ dispatched' = [dispatched EXCEPT ![transfer'] = TRUE]
        BY <1>3, <2>2
      <4>2. dispatched \in [Transfer -> BOOLEAN]
        BY DEF ListInv, ListTypes
      <4> QED BY <4>1, <4>2
    <3>3. ASSUME NEW n \in 1 .. Len(Ahead') PROVE dispatched'[Ahead'[n]] = (n = 1)
      <4>1. Ahead'[n] = transfer' <=> n = 1
        BY <1>8, <3>1 DEF Order, Once
      <4>2. Ahead'[n] \in Transfer /\ ~dispatched[Ahead'[n]]
        BY <1>10
      <4> QED BY <3>2, <4>1, <4>2
    <3> QED BY <2>2, <3>3 DEF Dispatch
  <2> QED BY <2>1, <2>2
<1>12. Waiting'
  <2> SUFFICES ASSUME NEW u \in Task, ~Admitted(u), NEW n \in 1 .. Len(list[u])
               PROVE  ~dispatched'[list[u][n]] /\ ~completed'[list[u][n]]
    BY <1>6 DEF ListInv, Waiting
  <2>1. ~dispatched[list[u][n]] /\ ~completed[list[u][n]] /\ list[u][n] \in Transfer
    BY ElementOfSeq DEF ListInv, ListTypes, Waiting
  <2>2. list[u][n] # x
    <3>1. PICK w \in Task : Admitted(w) /\ \E m \in 1 .. Len(list[w]) : list[w][m] = x
      <4>1. x # None
        BY ListsAssumption
      <4>2. 1 \in 1 .. Len(Ahead) /\ Ahead[1] = x
        BY <1>1, <4>1, FirstAhead DEF ListInv
      <4> QED BY <4>2 DEF ListInv, Order, Mine
    <3> QED BY <3>1, ListsApart DEF ListInv
  <2>3. transfer' # None => list[u][n] # transfer'
    <3> SUFFICES ASSUME transfer' # None PROVE list[u][n] # transfer'
      OBVIOUS
    <3>1. 1 \in 1 .. Len(Ahead') /\ Ahead'[1] = transfer'
      BY <1>5, FirstNext DEF FirstIsCurrent
    <3>2. PICK w \in Task : Admitted(w) /\ \E m \in 1 .. Len(list[w]) : list[w][m] = transfer'
      BY <1>6, <1>8, <3>1 DEF Order, Mine
    <3> QED BY <3>2, ListsApart DEF ListInv
  <2>4. ~completed'[list[u][n]]
    BY <1>2, <2>1, <2>2 DEF ListInv, ListTypes
  <2> QED BY <1>3, <2>1, <2>3, <2>4 DEF ListInv, ListTypes
<1> QED BY <1>5, <1>6, <1>8, <1>11, <1>12 DEF ListInv

-----------------------------------------------------------------------------
(* The driver with the lists.                                              *)

\* The interrupts are on while a transfer is in progress, and no task is
\* about to start the driver then.
Driver ==
  /\ ~aborted
  /\ IE \in BOOLEAN /\ (IE <=> transfer # None)
  /\ \A t \in Task : pc[t] = "next" => ~IE
  /\ transfer # None => txPos <= xferLen[transfer]

AllInv == LengthsFit /\ Inv /\ ListInv /\ Driver

LEMMA InitCore == CoreInit => ListInv
<1> SUFFICES ASSUME CoreInit PROVE ListInv
  OBVIOUS
<1> USE DEF CoreInit
<1>1. ListTypes
  BY EmptySeq DEF ListTypes
<1>2. \A t \in Task : Len(list[t]) = 0 /\ list[t] = <<>> /\ pc[t] = "idle"
  OBVIOUS
<1>3. Ahead = <<>>
  <2>1. Current = <<>> /\ Rest = <<>>
    BY DEF Current, Rest
  <2> QED BY <2>1, ConcatEmptySeq, EmptySeq DEF Ahead
<1>4. Len(Ahead) = 0
  BY <1>3
<1>5. Mine /\ Once /\ Dispatch
  BY <1>4 DEF Mine, Once, Dispatch
<1>6. ListsTogether
  BY <1>2, <1>4 DEF ListsTogether
<1>7. Exclusive /\ Posted /\ Waiting
  BY <1>2 DEF Exclusive, Posted, Waiting
<1> QED BY <1>1, <1>5, <1>6, <1>7 DEF ListInv, Order

LEMMA InitLists == Init => ListInv /\ Driver
BY InitCore DEF Init, CoreInit, Driver

LEMMA KeptLists ==
  ASSUME ListInv, UNCHANGED <<posting, flags, pc, transfer>>
  PROVE  ListInv'
<1>1. Ahead' = Ahead
  BY DEF Ahead, Current, Rest, posting
<1>2. ListTypes' /\ Exclusive' /\ Posted' /\ Waiting'
  BY DEF ListInv, ListTypes, Exclusive, Posted, Waiting, Admitted, posting, flags
<1>3. Order'
  BY <1>1, SameOrder, AheadParts DEF ListInv, Admitted, posting, flags
<1>4. Dispatch'
  BY <1>1 DEF ListInv, Dispatch, flags
<1> QED BY <1>2, <1>3, <1>4 DEF ListInv

\* A task that goes anywhere but to the start of the driver, which it only
\* starts where the interrupts are off, leaves the driver as it is.
LEMMA KeptDriver ==
  ASSUME ListTypes, Driver, NEW t \in Task, NEW v, pc' = [pc EXCEPT ![t] = v],
         v = "next" => ~IE, UNCHANGED <<aborted, IE, transfer, txPos>>
  PROVE  Driver'
BY DEF ListTypes, Driver

LEMMA TaskLists ==
  ASSUME AllInv, NEW t \in Task, NewList(t) \/ TaskStep(t)
  PROVE  ListInv' /\ Driver'
<1> USE DEF AllInv
<1>0. ListTypes /\ Inv /\ ListInv /\ Driver
  BY DEF ListInv
<1>1. CASE NewList(t)
  <2>1. PICK l \in Lists[t] : Call(t, l)
    BY <1>1 DEF NewList
  <2>2. /\ pc' = [pc EXCEPT ![t] = "lock"]
        /\ UNCHANGED <<aborted, IE, transfer, txPos>>
    BY <1>1, <2>1 DEF NewList, Call, Goto, spi
  <2> QED BY <1>0, <2>1, <2>2, CallLists, KeptDriver
<1>2. CASE PostStep(t) /\ UNCHANGED <<spi, wire>>
  <2>1. /\ \/ pc' = pc
           \/ \E v \in {"room", "put", "unlock", "start", "idle"} : pc' = [pc EXCEPT ![t] = v]
        /\ UNCHANGED <<aborted, IE, transfer, txPos>>
    BY <1>2 DEF PostStep, Lock, Room, Put, Unlock, Goto, spi
  <2>2. Driver'
    <3>1. CASE pc' = pc
      BY <1>0, <2>1, <3>1 DEF Driver
    <3>2. CASE \E v \in {"room", "put", "unlock", "start", "idle"} : pc' = [pc EXCEPT ![t] = v]
      BY <1>0, <2>1, <3>2, KeptDriver
    <3> QED BY <2>1, <3>1, <3>2
  <2> QED BY <1>0, <1>2, <2>2, PostLists
<1>3. CASE Start(t)
  <2>1. PICK v : v = IF IE THEN "unlock" ELSE "next"
    OBVIOUS
  <2>2. /\ pc[t] = "start" /\ pc' = [pc EXCEPT ![t] = v]
        /\ UNCHANGED <<posting, flags, transfer, aborted, IE, txPos>>
    BY <1>3, <2>1 DEF Start, Goto, spi
  <2> QED BY <1>0, <2>1, <2>2, StayLists, KeptDriver
<1>4. CASE EnableSPI(t)
  <2>1. /\ pc[t] = "spe" /\ pc' = [pc EXCEPT ![t] = "unlock"]
        /\ UNCHANGED <<posting, flags, transfer, aborted, IE, txPos>>
    BY <1>4 DEF EnableSPI, Goto
  <2> QED BY <1>0, <2>1, StayLists, KeptDriver
<1>5. CASE Next1(t)
  <2>1. pc[t] = "next" /\ ~IE /\ transfer = None
    BY <1>0, <1>5 DEF Next1, Driver
  <2>2. StartAsserts /\ aborted' = aborted /\ UNCHANGED <<addLock, list, todo>>
    BY <1>0, <1>5, <2>1, TakesFresh DEF Next1
  <2>3. CASE StartNothing /\ Goto(t, "next", "unlock") /\ IE' = FALSE /\ txPos' = txPos
    <3>1. /\ pc' = [pc EXCEPT ![t] = "unlock"] /\ transfer' = transfer
          /\ UNCHANGED <<posting, flags>> /\ IE' = IE
      BY <2>1, <2>2, <2>3, <1>0 DEF StartNothing, TakeNothing, Goto, posting, flags, Driver
    <3> QED BY <1>0, <2>1, <2>2, <2>3, <3>1, StayLists, KeptDriver
  <2>4. CASE StartNext /\ Goto(t, "next", "spe") /\ IE' = TRUE /\ txPos' = 0
    <3>1. pc' = [pc EXCEPT ![t] = "spe"]
      BY <2>4 DEF Goto
    <3>2. ListInv'
      BY <1>0, <2>1, <2>2, <2>4, <3>1, StartLists
    <3>3. transfer' \in Transfer /\ transfer' # None
      BY <1>0, <2>4, TakenType DEF StartNext, Inv, Types
    <3>4. \A u \in Task : pc'[u] # "next"
      BY <1>0, <2>1, <3>1, ListsAssumption DEF ListInv, Exclusive, ListTypes
    <3>5. 0 <= xferLen[transfer']
      BY <3>3, LenAssumption
    <3> QED BY <1>0, <2>2, <2>4, <3>2, <3>3, <3>4, <3>5 DEF Driver
  <2> QED BY <1>5, <2>2, <2>3, <2>4 DEF Next1
<1> QED BY <1>1, <1>2, <1>3, <1>4, <1>5 DEF TaskStep

LEMMA HandlerLists ==
  ASSUME AllInv, Inv', HandlerStep \/ WireStep
  PROVE  ListInv' /\ Driver'
<1> USE DEF AllInv
<1>0. ListTypes /\ Inv /\ ListInv /\ Driver
  BY DEF ListInv
<1>1. CASE \/ ReceivedSome \/ Return \/ WireStep
  <2>1. UNCHANGED <<core, txPos, IE>>
    BY <1>1 DEF ReceivedSome, Return, WireStep, ShiftOut, ShiftIn, spi
  <2>2. UNCHANGED <<posting, flags, pc, transfer, aborted, txPos, IE>>
    BY <2>1 DEF core
  <2> QED BY <1>0, <2>2, KeptLists DEF Driver
<1>2. CASE Enter
  <2>1. transfer # None
    BY <1>0, <1>2 DEF Enter, Raised, Driver
  <2>2. UNCHANGED <<posting, flags, pc, transfer, aborted, txPos, IE>>
    BY <1>2, <2>1 DEF Enter
  <2> QED BY <1>0, <2>2, KeptLists DEF Driver
<1>3. CASE ReceiveByte
  <2>1. transfer # None /\ rxFifo > 0
    BY <1>0, <1>3 DEF ReceiveByte, RXNE, Inv, Quiet
  <2>2. transfer \in Transfer /\ txPos <= xferLen[transfer] /\ xferLen[transfer] \in Nat
    BY <1>0, <2>1, LenAssumption DEF Driver, ListTypes
  <2>3. rxPos < txPos /\ txPos \in Nat /\ rxPos \in Nat
    <3>1. txFifo \in Nat /\ rxFifo \in Nat /\ txPos \in Nat /\ rxPos \in Nat
      BY <1>0 DEF Inv, Types
    <3>2. OnWire \in Nat /\ OnWire > 0
      BY <2>1, <3>1 DEF OnWire
    <3>3. txPos = rxPos + OnWire
      BY <1>0, <2>1 DEF Inv, InStep
    <3> QED BY <3>1, <3>2, <3>3
  <2>4. rxPos < xferLen[transfer]
    BY <2>2, <2>3
  <2>5. UNCHANGED <<posting, flags, pc, transfer, aborted, txPos, IE>>
    BY <1>3, <2>3, <2>4 DEF ReceiveByte
  <2> QED BY <1>0, <2>5, KeptLists DEF Driver
<1>4. CASE SendByte
  <2>1. UNCHANGED <<posting, flags, pc, transfer, aborted, IE>> /\ transfer # None
    BY <1>0, <1>4 DEF SendByte, core, Inv, Quiet
  <2>2. transfer \in Transfer /\ xferLen[transfer] \in Nat /\ txPos \in Nat
    BY <1>0, <2>1, LenAssumption DEF ListTypes, Inv, Types
  <2>3. txPos' <= xferLen[transfer]
    BY <1>4, <2>2 DEF SendByte, After
  <2> QED BY <1>0, <2>1, <2>3, KeptLists DEF Driver
<1>5. CASE ReceivedAll
  <2>1. transfer # None /\ rxPos = xferLen[transfer]
    BY <1>0, <1>5 DEF ReceivedAll, Inv, Quiet
  <2>2. transfer \in Transfer /\ txPos <= xferLen[transfer] /\ xferLen[transfer] \in Nat
    BY <1>0, <2>1, LenAssumption DEF Driver, ListTypes
  <2>3. rxPos <= txPos /\ txPos \in Nat /\ rxPos \in Nat
    BY <1>0, <2>1 DEF Inv, Types, InStep, OnWire
  <2>4. txPos = xferLen[transfer] /\ FinishAsserts
    BY <1>0, <2>1, <2>2, <2>3, TakesFresh
  <2>5. /\ aborted' = aborted /\ UNCHANGED <<addLock, list, todo, pc>>
        /\ \/ FinishLast /\ IE' = FALSE
           \/ FinishAndNext /\ IE' = TRUE /\ txPos' = 0
    BY <1>5, <2>4 DEF ReceivedAll
  <2>6. ListInv'
    BY <1>0, <2>2, <2>5, FinishLists
  <2>7. ~IE' => transfer' = None
    BY <2>5 DEF FinishLast, TakeNothing
  <2>8. IE' => transfer' \in Transfer /\ transfer' # None /\ txPos' = 0
    BY <1>0, <2>5, TakenType DEF FinishAndNext, Inv, Types
  <2>9. \A u \in Task : pc'[u] # "next"
    BY <1>0, <2>1, <2>5 DEF Driver
  <2>10. transfer' # None => txPos' <= xferLen[transfer']
    BY <2>7, <2>8, LenAssumption
  <2>11. IE' \in BOOLEAN
    BY <2>5
  <2> QED BY <1>0, <2>5, <2>6, <2>7, <2>8, <2>9, <2>10, <2>11 DEF Driver
<1> QED BY <1>1, <1>2, <1>3, <1>4, <1>5 DEF HandlerStep

THEOREM ListInvariance == LengthsFit => (Spec => []AllInv)
<1> SUFFICES ASSUME LengthsFit PROVE Spec => []AllInv
  OBVIOUS
<1>1. Init => AllInv
  BY InitInv, InitLists DEF AllInv
<1>2. AllInv /\ Inv' /\ [Next]_vars => AllInv'
  <2> SUFFICES ASSUME AllInv, Inv', [Next]_vars PROVE ListInv' /\ Driver'
    BY DEF AllInv
  <2>1. CASE UNCHANGED vars
    <3>1. UNCHANGED <<posting, flags, pc, transfer, aborted, txPos, IE>>
      BY <2>1 DEF vars, core, spi
    <3> QED BY <3>1, KeptLists DEF AllInv, Driver
  <2> QED BY <2>1, TaskLists, HandlerLists DEF Next
<1> QED BY <1>1, <1>2, Invariance, PTL DEF Spec

\* No assert fails about what is dispatched and completed (rtisan_spi.c:62,
\* 63, 82, 86), on starting the driver (arm/spi_stm32f3.c:135), or in its
\* handler (169, 176, 177, 194): the driver is started only when it is idle,
\* a transfer is dispatched and completed once, and the handler finds a
\* transfer and only bytes it asked for, however the tasks, the handler and
\* the peripheral interleave, for any tasks and lists, as long as the
\* positions can count the transfers' bytes.  They are uint16_t: in a transfer
\* of 2^16 bytes or more txPos begins again at 0, and 177 fails.
THEOREM NoAssertFails == LengthsFit => (Spec => []NoAbort)
<1> SUFFICES ASSUME LengthsFit PROVE Spec => []NoAbort
  OBVIOUS
<1>1. AllInv => NoAbort
  BY DEF AllInv, Driver, NoAbort
<1>2. Spec => []AllInv
  BY ListInvariance
<1> QED BY <1>1, <1>2, PTL

\* The transfers of a list run in order and no other task's in between: of
\* every list that was not refused, a first part is completed and the others
\* follow each other in what is ahead.
THEOREM ListsStayTogether == LengthsFit => (Spec => []ListsTogether)
<1> SUFFICES ASSUME LengthsFit PROVE Spec => []ListsTogether
  OBVIOUS
<1>1. AllInv => ListsTogether
  BY DEF AllInv, ListInv, Order
<1>2. Spec => []AllInv
  BY ListInvariance
<1> QED BY <1>1, <1>2, PTL

-----------------------------------------------------------------------------
(* The ring and the chip selects, for the type invariants.                 *)

\* The ring holds what is in it and what the task that puts a list has left.
RingFits ==
  /\ Len(queue) <= MAXNUM_TRANSFERS
  /\ \A t \in Task : pc[t] = "put" => Len(queue) + Len(todo[t]) <= MAXNUM_TRANSFERS

ChipTyped == chip \in [selected : Slave \cup {None}, low : SUBSET Slave]

CoreRest == RingFits /\ ChipTyped /\ aborted \in BOOLEAN

NoNewPut == \A t \in Task : pc'[t] = "put" => pc[t] = "put"

LEMMA RingPost ==
  ASSUME ListInv, RingFits, NEW t \in Task, PostStep(t)
  PROVE  RingFits'
<1>0. /\ queue \in Seq(Transfer) /\ todo[t] \in Seq(Transfer)
      /\ Len(queue) \in Nat /\ Len(todo[t]) \in Nat
      /\ \A u \in Task : Len(todo[u]) \in Nat
  BY LenProperties DEF ListInv, ListTypes
<1>1. CASE Lock(t) \/ Unlock(t)
  BY <1>1 DEF ListInv, ListTypes, RingFits, Lock, Unlock, Goto
<1>2. CASE Room(t) /\ ~Fits(todo[t])
  <2>1. /\ pc' = [pc EXCEPT ![t] = "unlock"] /\ queue' = queue
        /\ todo' = [todo EXCEPT ![t] = <<>>]
    BY <1>2 DEF Room, Goto, Set
  <2> QED BY <2>1 DEF ListInv, ListTypes, RingFits
<1>3. CASE Room(t) /\ Fits(todo[t])
  <2>1. pc' = [pc EXCEPT ![t] = "put"] /\ UNCHANGED <<queue, todo>>
    BY <1>3 DEF Room, Goto
  <2>2. Len(queue) + Len(todo[t]) <= MAXNUM_TRANSFERS
    BY <1>0, <1>3, MaxAssumption DEF Fits
  <2> QED BY <2>1, <2>2 DEF ListInv, ListTypes, RingFits
<1>4. CASE Put(t)
  <2>1. pc[t] = "put" /\ NoNewPut
    BY <1>4 DEF Put, Goto, NoNewPut, ListInv, ListTypes
  <2>2. \A u \in Task : pc[u] = "put" => u = t
    BY <2>1 DEF ListInv, Exclusive
  <2>3. CASE UNCHANGED <<queue, todo>>
    BY <2>1, <2>3 DEF RingFits, NoNewPut
  <2>4. ASSUME NEW n \in 1 .. Len(todo[t]),
               queue' = queue \o SubSeq(todo[t], 1, n),
               todo' = Set(todo, t, SubSeq(todo[t], n + 1, Len(todo[t])))
        PROVE  RingFits'
    <3>1. /\ SubSeq(todo[t], 1, n) \in Seq(Transfer) /\ Len(SubSeq(todo[t], 1, n)) = n
          /\ Len(SubSeq(todo[t], n + 1, Len(todo[t]))) = Len(todo[t]) - n
      <4>1. n \in Nat /\ n <= Len(todo[t])
        BY <1>0
      <4> QED BY <1>0, <4>1, SubSeqProperties
    <3>2. Len(queue') = Len(queue) + n
      BY <1>0, <2>4, <3>1, ConcatProperties
    <3>3. Len(todo'[t]) = Len(todo[t]) - n
      BY <2>4, <3>1 DEF Set, ListInv, ListTypes
    <3>4. Len(queue) + Len(todo[t]) <= MAXNUM_TRANSFERS
      BY <2>1 DEF RingFits
    <3>5. /\ Len(queue') <= MAXNUM_TRANSFERS
          /\ Len(queue') + Len(todo'[t]) <= MAXNUM_TRANSFERS
      <4>1. PICK q \in Nat, l \in Nat : q = Len(queue) /\ l = Len(todo[t])
        BY <1>0
      <4>2. n \in Nat /\ n <= l /\ q + l <= MAXNUM_TRANSFERS
        BY <3>4, <4>1
      <4>3. Len(queue') = q + n /\ Len(todo'[t]) = l - n
        BY <3>2, <3>3, <4>1
      <4> QED BY <4>2, <4>3, MaxAssumption
    <3> QED BY <2>1, <2>2, <3>5 DEF RingFits, NoNewPut
  <2> QED BY <1>4, <2>3, <2>4 DEF Put
<1> QED BY <1>1, <1>2, <1>3, <1>4 DEF PostStep

LEMMA ChipTypes ==
  ASSUME NEW c \in [selected : Slave \cup {None}, low : SUBSET Slave], NEW x \in Transfer
  PROVE  /\ SelectFor(c, x) \in [selected : Slave \cup {None}, low : SUBSET Slave]
         /\ SelectAfter(c, x) \in [selected : Slave \cup {None}, low : SUBSET Slave]
<1>1. slave[x] \in Slave
  BY DEF Slave
<1>2. Deselect(c) \in [selected : Slave \cup {None}, low : SUBSET Slave]
  BY DEF Deselect
<1>3. \A d \in [selected : Slave \cup {None}, low : SUBSET Slave] :
        Select(d, slave[x]) \in [selected : Slave \cup {None}, low : SUBSET Slave]
  BY <1>1 DEF Select
<1> QED BY <1>2, <1>3 DEF SelectFor, SelectAfter

\* What a step may be, with either driver.
CoreStep ==
  \/ \E t \in Task : PostStep(t)
  \/ \E t \in Task : \E l \in Lists[t] : Call(t, l)
  \/ UNCHANGED <<queue, todo, chip, aborted>> /\ NoNewPut
  \/ UNCHANGED <<queue, todo, chip>> /\ NoNewPut /\ aborted' = TRUE
  \/ /\ UNCHANGED todo /\ NoNewPut /\ aborted' \in BOOLEAN
     /\ \/ StartNothing \/ StartNext
        \/ transfer # None /\ (FinishLast \/ FinishAndNext)

LEMMA CoreRestKept ==
  ASSUME ListInv, CoreRest, CoreStep
  PROVE  CoreRest'
<1>0. /\ queue \in Seq(Transfer) /\ Len(queue) \in Nat /\ MAXNUM_TRANSFERS \in Nat
      /\ \A t \in Task : Len(todo[t]) \in Nat
  BY LenProperties, MaxAssumption DEF ListInv, ListTypes
<1>1. ASSUME NEW t \in Task, PostStep(t) PROVE CoreRest'
  <2>1. UNCHANGED <<chip, aborted>>
    BY <1>1 DEF PostStep, Lock, Room, Put, Unlock
  <2> QED BY <1>1, <2>1, RingPost DEF CoreRest, ChipTyped
<1>2. ASSUME NEW t \in Task, NEW l \in Lists[t], Call(t, l) PROVE CoreRest'
  <2>1. /\ UNCHANGED <<queue, chip, aborted>> /\ pc' = [pc EXCEPT ![t] = "lock"]
        /\ todo' = [todo EXCEPT ![t] = l]
    BY <1>2 DEF Call, Goto, Set
  <2> QED BY <2>1 DEF CoreRest, RingFits, ChipTyped, ListInv, ListTypes
<1>3. CASE UNCHANGED <<queue, todo, chip>> /\ NoNewPut /\ aborted' \in BOOLEAN
  BY <1>3 DEF CoreRest, RingFits, ChipTyped, NoNewPut
<1>4. CASE /\ UNCHANGED todo /\ NoNewPut /\ aborted' \in BOOLEAN
           /\ \/ StartNothing \/ StartNext
              \/ transfer # None /\ (FinishLast \/ FinishAndNext)
  <2>1. Len(queue') \in Nat /\ Len(queue') <= Len(queue)
    <3>1. CASE TakeNothing
      BY <1>0, <3>1 DEF TakeNothing
    <3>2. CASE TakeNext
      <4>1. Len(Tail(queue)) = Len(queue) - 1 /\ Len(queue) # 0
        BY <1>0, <3>2, HeadTailProperties, EmptySeq DEF TakeNext
      <4> QED BY <1>0, <3>2, <4>1 DEF TakeNext
    <3> QED BY <1>4, <3>1, <3>2 DEF StartNothing, StartNext, FinishLast, FinishAndNext
  <2>2. RingFits'
    BY <1>0, <1>4, <2>1 DEF CoreRest, RingFits, NoNewPut
  <2>3. TakeNext => transfer' \in Transfer
    BY <1>0, TakenType
  <2>4. ChipTyped'
    <3>1. CASE StartNothing
      BY <3>1 DEF StartNothing, CoreRest, ChipTyped
    <3>2. CASE StartNext
      BY <2>3, <3>2, ChipTypes DEF StartNext, CoreRest, ChipTyped
    <3>3. CASE transfer # None /\ (FinishLast \/ FinishAndNext)
      <4>1. transfer \in Transfer
        BY <3>3 DEF ListInv, ListTypes
      <4>2. SelectAfter(chip, transfer) \in [selected : Slave \cup {None}, low : SUBSET Slave]
        BY <4>1, ChipTypes DEF CoreRest, ChipTyped
      <4> QED BY <2>3, <3>3, <4>2, ChipTypes DEF FinishLast, FinishAndNext, ChipTyped
    <3> QED BY <1>4, <3>1, <3>2, <3>3
  <2> QED BY <1>4, <2>2, <2>4 DEF CoreRest
<1>5. aborted \in BOOLEAN
  BY DEF CoreRest
<1> QED BY <1>1, <1>2, <1>3, <1>4, <1>5 DEF CoreStep

LEMMA InitRest == CoreInit => CoreRest
<1> SUFFICES ASSUME CoreInit PROVE CoreRest
  OBVIOUS
<1>1. Len(queue) = 0 /\ \A t \in Task : pc[t] # "put"
  BY DEF CoreInit
<1>2. RingFits
  BY <1>1, MaxAssumption DEF RingFits
<1>3. ChipTyped /\ aborted \in BOOLEAN
  BY DEF CoreInit, ChipTyped
<1> QED BY <1>2, <1>3 DEF CoreRest

LEMMA CoreTyped == ListInv /\ CoreRest => CoreTypeOK
BY DEF ListInv, ListTypes, CoreRest, RingFits, ChipTyped, CoreTypeOK

LEMMA F3CoreStep ==
  ASSUME AllInv, CoreRest, [Next]_vars
  PROVE  CoreStep
<1>0. ListTypes /\ aborted \in BOOLEAN
  BY DEF AllInv, ListInv, CoreRest
<1>1. ASSUME NEW t \in Task, Goto(t, "start", "unlock") \/ Goto(t, "start", "next") \/ Goto(t, "spe", "unlock")
                             \/ Goto(t, "next", "unlock") \/ Goto(t, "next", "spe")
      PROVE  NoNewPut
  BY <1>0, <1>1 DEF Goto, NoNewPut, ListTypes
<1>2. pc' = pc => NoNewPut
  BY DEF NoNewPut
<1>3. ASSUME NEW t \in Task, TaskStep(t) PROVE CoreStep
  <2>1. CASE Start(t) \/ EnableSPI(t)
    BY <1>1, <1>3, <2>1 DEF Start, EnableSPI, CoreStep, posting
  <2>2. CASE Next1(t)
    <3>1. CASE Abort /\ UNCHANGED <<posting, pc, chip>>
      BY <1>2, <3>1 DEF CoreStep, posting, Abort
    <3>2. CASE /\ UNCHANGED <<todo, aborted>> /\ (StartNothing \/ StartNext)
               /\ Goto(t, "next", "unlock") \/ Goto(t, "next", "spe")
      <4>1. NoNewPut /\ aborted' \in BOOLEAN
        BY <1>0, <1>1, <3>2
      <4> QED BY <3>2, <4>1 DEF CoreStep
    <3> QED BY <2>2, <3>1, <3>2 DEF Next1
  <2> QED BY <1>3, <2>1, <2>2 DEF TaskStep, CoreStep
<1>4. CASE HandlerStep \/ WireStep \/ UNCHANGED vars
  <2>1. CASE ReceivedAll
    <3>1. transfer # None /\ UNCHANGED pc
      BY <2>1 DEF ReceivedAll, AllInv, Inv, Quiet
    <3>2. CASE Abort /\ UNCHANGED <<posting, chip>>
      BY <1>2, <3>1, <3>2 DEF CoreStep, posting, Abort
    <3>3. CASE UNCHANGED <<todo, aborted>> /\ (FinishLast \/ FinishAndNext)
      <4>1. NoNewPut /\ aborted' \in BOOLEAN
        BY <1>0, <1>2, <3>1, <3>3
      <4> QED BY <3>1, <3>3, <4>1 DEF CoreStep
    <3> QED BY <2>1, <3>2, <3>3 DEF ReceivedAll
  <2>2. CASE \/ Enter \/ ReceiveByte \/ ReceivedSome \/ SendByte \/ Return
             \/ WireStep \/ UNCHANGED vars
    <3>1. UNCHANGED <<queue, todo, chip, pc>> /\ (UNCHANGED aborted \/ aborted' = TRUE)
      BY <2>2 DEF Enter, ReceiveByte, ReceivedSome, SendByte, Return, WireStep, ShiftOut,
                  ShiftIn, vars, core, posting, Abort
    <3> QED BY <1>2, <3>1 DEF CoreStep
  <2> QED BY <1>4, <2>1, <2>2 DEF HandlerStep
<1> QED BY <1>3, <1>4 DEF Next, NewList, CoreStep

\* The type invariant of the driver with interrupts; with it, that a list
\* put into the ring always finds the room that was there when it was
\* admitted (rtisan_spi.c:112).
THEOREM F3TypesCorrect == LengthsFit => (Spec => []TypeOK)
<1> SUFFICES ASSUME LengthsFit PROVE Spec => []TypeOK
  OBVIOUS
<1>1. Init => CoreRest
  BY InitRest DEF Init
<1>2. AllInv /\ CoreRest /\ [Next]_vars => CoreRest'
  BY F3CoreStep, CoreRestKept DEF AllInv
<1>3. ASSUME NEW k \in {"none", "rx", "tx"}, [Next]_vars, isr = k, SPE \in BOOLEAN
      PROVE  isr' \in {"none", "rx", "tx"} /\ SPE' \in BOOLEAN
  <2>1. ASSUME NEW t \in Task, NewList(t) \/ TaskStep(t)
        PROVE  isr' = isr /\ SPE' \in BOOLEAN
    BY <1>3, <2>1 DEF NewList, TaskStep, PostStep, Start, Next1, EnableSPI, spi
  <2>2. ASSUME HandlerStep \/ WireStep \/ UNCHANGED vars
        PROVE  isr' \in {"none", "rx", "tx"} /\ SPE' \in BOOLEAN
    BY <1>3, <2>2 DEF HandlerStep, Enter, ReceiveByte, ReceivedSome, ReceivedAll, SendByte,
                      Return, WireStep, ShiftOut, ShiftIn, vars, core, spi
  <2> QED BY <1>3, <2>1, <2>2 DEF Next
<1>4. DEFINE Isr == isr \in {"none", "rx", "tx"} /\ SPE \in BOOLEAN
<1>5. Init => Isr
  BY DEF Init
<1>6. Isr /\ [Next]_vars => Isr'
  BY <1>3
<1>7. AllInv /\ CoreRest /\ Isr => TypeOK
  <2> SUFFICES ASSUME AllInv, CoreRest, Isr PROVE TypeOK
    OBVIOUS
  <2>1. CoreTypeOK
    BY CoreTyped DEF AllInv
  <2>2. txPos \in 0 .. PosWrap - 1 /\ rxPos \in 0 .. PosWrap - 1 /\ IE \in BOOLEAN /\ shifting \in BOOLEAN
    BY DEF AllInv, Inv, Types, Driver
  <2>3. txFifo \in 0 .. FifoSize /\ rxFifo \in 0 .. FifoSize
    BY DEF AllInv, Inv, Types, NoOverrun, OnWire, FifoSize
  <2> QED BY <2>1, <2>2, <2>3 DEF TypeOK
<1> HIDE DEF Isr
<1>8. Spec => []AllInv
  BY ListInvariance
<1> QED BY <1>1, <1>2, <1>5, <1>6, <1>7, <1>8, PTL DEF Spec

-----------------------------------------------------------------------------
(* The DMA driver: the rate of a transfer.                                 *)

\* BR = s is the first with a rate that is not above want.
TooFast(s, want)  == \A m \in 0 .. s - 1 : RefSpeed > want * Divider[m + 1]
Highest(s, want)  == RefSpeed <= want * Divider[s + 1] /\ TooFast(s, want)

\* A search for want may go on with speed v after s halvings.
MayGoOn(v, s, want) == v * Divider[s + 1] = RefSpeed /\ TooFast(s, want)

\* So it may from the cache, for what was last wanted, once there is
\* something in it.
Found ==
  /\ cache.desired \in Nat /\ cache.speed \in Nat /\ cache.scaler \in 0 .. MAX_SCALER
  /\ cache.desired = 0 \/ MayGoOn(cache.speed, cache.scaler, cache.desired)

\* While bytes move, and until the handler has been told, there is a
\* transfer in progress, and BR is right for it.
Clocked ==
  /\ moving => transfer # None /\ ~TCIF /\ Highest(BR, speed[transfer])
  /\ TCIF => transfer # None
  /\ BR \in 0 .. MAX_SCALER
  /\ moving \in BOOLEAN /\ TCIF \in BOOLEAN /\ rxTCIE \in BOOLEAN /\ txTCIE = FALSE

DMADriver == Found /\ Clocked

\* Halving n times more halves exactly: the reference speed is a multiple of
\* the largest divider.
LEMMA Exact ==
  ASSUME NEW v \in Nat, NEW s \in 0 .. MAX_SCALER, v * Divider[s + 1] = RefSpeed,
         NEW n \in 0 .. MAX_SCALER - s
  PROVE  v \div Divider[n + 1] \in Nat /\ (v \div Divider[n + 1]) * Divider[s + n + 1] = RefSpeed
<1>1. PICK q \in Nat : RefSpeed = 128 * q
  <2>1. RefSpeed = 128 * (RefSpeed \div 128) /\ RefSpeed \div 128 \in Nat
    BY SpeedAssumption
  <2> QED BY <2>1
<1>2. /\ Divider[1] = 1 /\ Divider[2] = 2 /\ Divider[3] = 4 /\ Divider[4] = 8
      /\ Divider[5] = 16 /\ Divider[6] = 32 /\ Divider[7] = 64 /\ Divider[8] = 128
  BY DEF Divider
<1>3. CASE s = 0
  <2>1. v = 128 * q /\ n \in 0 .. 7
    BY <1>1, <1>2, <1>3 DEF MAX_SCALER
  <2> QED BY <1>1, <1>2, <1>3, <2>1
<1>4. CASE s = 1
  <2>1. v = 64 * q /\ n \in 0 .. 6
    BY <1>1, <1>2, <1>4 DEF MAX_SCALER
  <2> QED BY <1>1, <1>2, <1>4, <2>1
<1>5. CASE s = 2
  <2>1. v = 32 * q /\ n \in 0 .. 5
    BY <1>1, <1>2, <1>5 DEF MAX_SCALER
  <2> QED BY <1>1, <1>2, <1>5, <2>1
<1>6. CASE s = 3
  <2>1. v = 16 * q /\ n \in 0 .. 4
    BY <1>1, <1>2, <1>6 DEF MAX_SCALER
  <2> QED BY <1>1, <1>2, <1>6, <2>1
<1>7. CASE s = 4
  <2>1. v = 8 * q /\ n \in 0 .. 3
    BY <1>1, <1>2, <1>7 DEF MAX_SCALER
  <2> QED BY <1>1, <1>2, <1>7, <2>1
<1>8. CASE s = 5
  <2>1. v = 4 * q /\ n \in 0 .. 2
    BY <1>1, <1>2, <1>8 DEF MAX_SCALER
  <2> QED BY <1>1, <1>2, <1>8, <2>1
<1>9. CASE s = 6
  <2>1. v = 2 * q /\ n \in 0 .. 1
    BY <1>1, <1>2, <1>9 DEF MAX_SCALER
  <2> QED BY <1>1, <1>2, <1>9, <2>1
<1>10. CASE s = 7
  <2>1. v = q /\ n = 0
    BY <1>1, <1>2, <1>10 DEF MAX_SCALER
  <2> QED BY <1>1, <1>2, <1>10, <2>1
<1> QED BY <1>3, <1>4, <1>5, <1>6, <1>7, <1>8, <1>9, <1>10 DEF MAX_SCALER

LEMMA Grows ==
  ASSUME NEW a \in Nat, NEW b \in Nat, NEW m \in 0 .. MAX_SCALER
  PROVE  /\ a <= b => a * Divider[m + 1] <= b * Divider[m + 1]
         /\ a > b => a * Divider[m + 1] > b * Divider[m + 1]
<1>1. m \in 0 .. 7
  BY DEF MAX_SCALER
<1>2. CASE m = 0 BY <1>2 DEF Divider
<1>3. CASE m = 1 BY <1>3 DEF Divider
<1>4. CASE m = 2 BY <1>4 DEF Divider
<1>5. CASE m = 3 BY <1>5 DEF Divider
<1>6. CASE m = 4 BY <1>6 DEF Divider
<1>7. CASE m = 5 BY <1>7 DEF Divider
<1>8. CASE m = 6 BY <1>8 DEF Divider
<1>9. CASE m = 7 BY <1>9 DEF Divider
<1> QED BY <1>1, <1>2, <1>3, <1>4, <1>5, <1>6, <1>7, <1>8, <1>9

LEMMA MultipleType ==
  ASSUME NEW a \in Nat, NEW m \in 0 .. MAX_SCALER
  PROVE  a * Divider[m + 1] \in Nat
<1>1. Divider[m + 1] \in Nat
  BY DEF MAX_SCALER, Divider
<1> QED BY <1>1

\* The search finds the highest rate, from wherever it may begin.
LEMMA Search ==
  ASSUME NEW v \in Nat, NEW s \in 0 .. MAX_SCALER, NEW want \in Nat, MayGoOn(v, s, want),
         NEW H, H = {n \in 0 .. MAX_SCALER - s : v \div Divider[n + 1] <= want}
  PROVE  /\ \A n \in H : (\A m \in H : n <= m) =>
              /\ s + n \in 0 .. MAX_SCALER /\ v \div Divider[n + 1] \in Nat
              /\ Highest(s + n, want) /\ MayGoOn(v \div Divider[n + 1], s + n, want)
         /\ RefSpeed <= want * Divider[MAX_SCALER + 1] => H # {}
<1>1. RefSpeed \in Nat /\ v * Divider[s + 1] = RefSpeed
  BY SpeedAssumption DEF MayGoOn
<1>2. ASSUME NEW n \in 0 .. MAX_SCALER - s
      PROVE  /\ v \div Divider[n + 1] \in Nat /\ s + n \in 0 .. MAX_SCALER
             /\ (v \div Divider[n + 1]) * Divider[s + n + 1] = RefSpeed
             /\ v \div Divider[n + 1] <= want <=> RefSpeed <= want * Divider[s + n + 1]
  <2>1. s + n \in 0 .. MAX_SCALER
    BY DEF MAX_SCALER
  <2>2. v \div Divider[n + 1] \in Nat /\ (v \div Divider[n + 1]) * Divider[s + n + 1] = RefSpeed
    BY <1>1, Exact
  <2>3. PICK r \in Nat : r = v \div Divider[n + 1]
    BY <2>2
  <2>4. PICK k \in 0 .. MAX_SCALER : k = s + n
    BY <2>1
  <2>5. PICK w \in Nat : w = want * Divider[k + 1]
    BY MultipleType
  <2>6. (r <= want => RefSpeed <= w) /\ (r > want => RefSpeed > w)
    BY <2>2, <2>3, <2>4, <2>5, Grows
  <2>7. r <= want <=> RefSpeed <= w
    BY <1>1, <2>6
  <2> QED BY <2>1, <2>2, <2>3, <2>4, <2>5, <2>7
<1>3. ASSUME NEW n \in H, \A m \in H : n <= m
      PROVE  /\ s + n \in 0 .. MAX_SCALER /\ v \div Divider[n + 1] \in Nat
             /\ Highest(s + n, want) /\ MayGoOn(v \div Divider[n + 1], s + n, want)
  <2>1. n \in 0 .. MAX_SCALER - s /\ v \div Divider[n + 1] <= want
    OBVIOUS
  <2>2. /\ v \div Divider[n + 1] \in Nat /\ s + n \in 0 .. MAX_SCALER
        /\ (v \div Divider[n + 1]) * Divider[s + n + 1] = RefSpeed
        /\ RefSpeed <= want * Divider[s + n + 1]
    BY <1>2, <2>1
  <2>3. ASSUME NEW m \in 0 .. (s + n) - 1 PROVE RefSpeed > want * Divider[m + 1]
    <3>1. CASE m < s
      <4>1. m \in 0 .. s - 1
        BY <3>1, <2>1 DEF MAX_SCALER
      <4> QED BY <4>1 DEF MayGoOn, TooFast
    <3>2. CASE ~(m < s)
      <4>1. m - s \in 0 .. MAX_SCALER - s /\ m - s < n /\ s + (m - s) = m /\ m \in 0 .. MAX_SCALER
        BY <3>2, <2>1 DEF MAX_SCALER
      <4>2. m - s \notin H
        BY <1>3, <2>1, <4>1 DEF MAX_SCALER
      <4>3. ~(v \div Divider[m - s + 1] <= want)
        BY <4>1, <4>2
      <4>4. ~(RefSpeed <= want * Divider[m + 1])
        BY <1>2, <4>1, <4>3
      <4>5. want * Divider[m + 1] \in Nat
        BY <4>1, MultipleType
      <4> QED BY <1>1, <4>4, <4>5
    <3> QED BY <3>1, <3>2
  <2> QED BY <2>2, <2>3 DEF Highest, MayGoOn, TooFast
<1>4. ASSUME RefSpeed <= want * Divider[MAX_SCALER + 1] PROVE H # {}
  <2>1. MAX_SCALER - s \in 0 .. MAX_SCALER - s /\ s + (MAX_SCALER - s) = MAX_SCALER
    BY DEF MAX_SCALER
  <2>2. MAX_SCALER - s \in H
    BY <1>2, <1>4, <2>1
  <2> QED BY <2>2
<1> QED BY <1>3, <1>4

\* The transfers whose speed the clock can be divided down to.
InReach(x) == RefSpeed <= speed[x] * Divider[MAX_SCALER + 1]

LEMMA BeginFound ==
  ASSUME Found, NEW x \in Transfer, BeginTransfer(x)
  PROVE  /\ txTCIE' = FALSE /\ rxTCIE' \in BOOLEAN
         /\ \/ Abort /\ UNCHANGED <<moving, BR, cache>> /\ ~InReach(x)
            \/ /\ UNCHANGED aborted /\ moving' = TRUE /\ Found'
               /\ BR' \in 0 .. MAX_SCALER /\ Highest(BR', speed[x])
<1>1. PICK f : f = SearchFrom(speed[x])
  OBVIOUS
<1>2. PICK w \in Nat \ {0} : w = speed[x]
  BY SpeedAssumption
<1>3. PICK v \in Nat, s \in 0 .. MAX_SCALER : v = f.speed /\ s = f.scaler /\ MayGoOn(v, s, w)
  <2>1. CASE w <= cache.desired
    <3>1. f.speed = cache.speed /\ f.scaler = cache.scaler
      BY <1>1, <1>2, <2>1 DEF SearchFrom
    <3>2. cache.desired \in Nat \ {0} /\ MayGoOn(cache.speed, cache.scaler, cache.desired)
      BY <1>2, <2>1 DEF Found
    <3>3. ASSUME NEW m \in 0 .. cache.scaler - 1 PROVE RefSpeed > w * Divider[m + 1]
      <4>1. m \in 0 .. MAX_SCALER
        BY DEF Found, MAX_SCALER
      <4>2. PICK p \in Nat, r \in Nat : p = w * Divider[m + 1] /\ r = cache.desired * Divider[m + 1]
        BY <3>2, <4>1, MultipleType
      <4>3. p <= r
        BY <2>1, <3>2, <4>1, <4>2, Grows
      <4>4. RefSpeed > r
        BY <3>2, <4>2 DEF MayGoOn, TooFast
      <4> QED BY <4>2, <4>3, <4>4, SpeedAssumption
    <3>4. MayGoOn(cache.speed, cache.scaler, w)
      BY <3>2, <3>3 DEF MayGoOn, TooFast
    <3> QED BY <3>1, <3>4 DEF Found
  <2>2. CASE ~(w <= cache.desired)
    <3>1. f.speed = RefSpeed /\ f.scaler = 0
      BY <1>1, <1>2, <2>2 DEF SearchFrom
    <3>2. RefSpeed * Divider[0 + 1] = RefSpeed /\ 0 .. 0 - 1 = {}
      BY SpeedAssumption DEF Divider
    <3>3. MayGoOn(RefSpeed, 0, w) /\ 0 \in 0 .. MAX_SCALER
      BY <3>2 DEF MayGoOn, TooFast, MAX_SCALER
    <3> QED BY <3>1, <3>3, SpeedAssumption
  <2> QED BY <2>1, <2>2
<1>4. PICK H : H = {n \in 0 .. MAX_SCALER - s : v \div Divider[n + 1] <= w}
  OBVIOUS
<1>5. H = Halvings(SearchFrom(speed[x]), speed[x])
  BY <1>1, <1>2, <1>3, <1>4 DEF Halvings
<1>6. CASE H = {}
  <2>1. Abort /\ UNCHANGED <<moving, BR, cache>> /\ txTCIE' = FALSE /\ rxTCIE' = FALSE
    BY <1>5, <1>6 DEF BeginTransfer
  <2> QED BY <1>2, <1>3, <1>4, <1>6, <2>1, Search DEF InReach
<1>7. CASE H # {}
  <2>1. PICK n \in H :
          /\ \A m \in H : n <= m
          /\ cache' = [desired |-> w, speed |-> v \div Divider[n + 1], scaler |-> s + n]
          /\ BR' = s + n
          /\ txTCIE' = FALSE /\ rxTCIE' = TRUE /\ moving' = TRUE /\ UNCHANGED aborted
    BY <1>1, <1>2, <1>3, <1>5, <1>7 DEF BeginTransfer
  <2>2. /\ s + n \in 0 .. MAX_SCALER /\ v \div Divider[n + 1] \in Nat
        /\ Highest(s + n, w) /\ MayGoOn(v \div Divider[n + 1], s + n, w)
    BY <1>3, <1>4, <2>1, Search
  <2>3. Found'
    BY <2>1, <2>2 DEF Found, MayGoOn, TooFast
  <2> QED BY <1>2, <2>1, <2>2, <2>3
<1> QED BY <1>6, <1>7

-----------------------------------------------------------------------------
(* The DMA driver: its steps.                                              *)

DMAInv == ListInv /\ DMADriver /\ ChipInv

\* Where neither the channels nor the transfer in progress change.
LEMMA KeptDMA ==
  ASSUME DMADriver, UNCHANGED <<dma, transfer>>
  PROVE  DMADriver'
BY DEF DMADriver, Found, Clocked, MayGoOn, TooFast, Highest, dma

\* With nothing moving, and no interrupt pending, there is nothing to do or
\* a transfer begins.
LEMMA GoesOn ==
  ASSUME DMADriver, ListTypes, ~moving, TCIF' = FALSE,
         \/ TakeNothing /\ NoTransfer
         \/ TakeNext /\ BeginTransfer(transfer')
  PROVE  /\ DMADriver'
         /\ aborted' = aborted \/ (transfer' \in Transfer /\ ~InReach(transfer') /\ aborted')
<1>1. CASE TakeNothing /\ NoTransfer
  BY <1>1 DEF NoTransfer, DMADriver, Found, Clocked, MayGoOn, TooFast
<1>2. CASE TakeNext /\ BeginTransfer(transfer')
  <2>1. PICK x \in Transfer : x = transfer' /\ x # None
    BY <1>2, TakenType DEF ListTypes
  <2>2. BeginTransfer(x)
    BY <1>2, <2>1
  <2>3. /\ txTCIE' = FALSE /\ rxTCIE' \in BOOLEAN
        /\ \/ Abort /\ UNCHANGED <<moving, BR, cache>> /\ ~InReach(x)
           \/ /\ UNCHANGED aborted /\ moving' = TRUE /\ Found'
              /\ BR' \in 0 .. MAX_SCALER /\ Highest(BR', speed[x])
    BY <2>2, BeginFound DEF DMADriver
  <2>4. CASE Abort /\ UNCHANGED <<moving, BR, cache>> /\ ~InReach(x)
    BY <2>1, <2>3, <2>4 DEF Abort, DMADriver, Found, Clocked, MayGoOn, TooFast
  <2>5. CASE UNCHANGED aborted /\ moving' = TRUE /\ Found'
             /\ BR' \in 0 .. MAX_SCALER /\ Highest(BR', speed[x])
    BY <2>1, <2>3, <2>5 DEF DMADriver, Clocked, Highest, TooFast
  <2> QED BY <2>3, <2>4, <2>5
<1> QED BY <1>1, <1>2

LEMMA DMATaskLists ==
  ASSUME DMAInv, NEW t \in Task, DMANewList(t) \/ DMATaskStep(t)
  PROVE  DMAInv'
<1>0. ListInv /\ ListTypes /\ DMADriver /\ ChipInv
  BY DEF DMAInv, ListInv
<1>1. CASE DMANewList(t)
  <2>1. PICK l \in Lists[t] : Call(t, l)
    BY <1>1 DEF DMANewList
  <2>2. UNCHANGED <<dma, transfer, chip>>
    BY <1>1, <2>1 DEF DMANewList, Call
  <2> QED BY <1>0, <2>1, <2>2, CallLists, KeptDMA DEF DMAInv, ChipInv
<1>2. CASE PostStep(t) /\ UNCHANGED dma
  <2>1. UNCHANGED <<transfer, chip>>
    BY <1>2 DEF PostStep, Lock, Room, Put, Unlock
  <2> QED BY <1>0, <1>2, <2>1, PostLists, KeptDMA DEF DMAInv, ChipInv
<1>3. CASE DMAStart(t)
  <2>1. PICK v \in {"unlock", "next"} : v = IF InterruptsEnabled THEN "unlock" ELSE "next"
    OBVIOUS
  <2>2. /\ pc[t] = "start" /\ pc' = [pc EXCEPT ![t] = v]
        /\ UNCHANGED <<posting, flags, transfer, chip, dma>>
    BY <1>3, <2>1 DEF DMAStart, Goto
  <2> QED BY <1>0, <2>2, StayLists, KeptDMA DEF DMAInv, ChipInv
<1>4. CASE NextMessage(t)
  <2>1. pc[t] = "next" /\ pc' = [pc EXCEPT ![t] = "unlock"]
    BY <1>4 DEF NextMessage, Goto
  <2>2. CASE UNCHANGED <<posting, flags, transfer, chip, dma>>
    BY <1>0, <2>1, <2>2, StayLists, KeptDMA DEF DMAInv, ChipInv
  <2>3. CASE /\ StartAsserts /\ UNCHANGED <<addLock, list, todo, TCIF>>
             /\ \/ StartNothing /\ NoTransfer
                \/ StartNext /\ BeginTransfer(transfer')
    <3>1. transfer = None /\ ~moving /\ TCIF' = FALSE
      BY <1>0, <2>3 DEF StartAsserts, DMADriver, Clocked
    <3>2. DMADriver'
      BY <1>0, <2>3, <3>1, GoesOn DEF StartNothing, StartNext
    <3>3. ListInv'
      <4>1. CASE StartNothing
        <5>1. UNCHANGED <<posting, flags, transfer>>
          BY <2>3, <3>1, <4>1 DEF StartNothing, TakeNothing, posting
        <5> QED BY <1>0, <2>1, <5>1, StayLists
      <4>2. CASE StartNext
        BY <1>0, <2>1, <2>3, <3>1, <4>2, StartLists
      <4> QED BY <2>3, <4>1, <4>2
    <3>4. ChipInv'
      BY <1>0, <2>3, ChipChange DEF ListTypes
    <3> QED BY <3>2, <3>3, <3>4 DEF DMAInv
  <2> QED BY <1>4, <2>2, <2>3 DEF NextMessage
<1> QED BY <1>1, <1>2, <1>3, <1>4 DEF DMATaskStep

LEMMA DMAHandlerLists ==
  ASSUME DMAInv, Moved \/ DoWork
  PROVE  DMAInv'
<1>0. ListInv /\ ListTypes /\ DMADriver /\ ChipInv
  BY DEF DMAInv, ListInv
<1>1. CASE Moved
  <2>1. UNCHANGED <<posting, flags, pc, transfer, chip>>
    BY <1>1 DEF Moved, core
  <2>2. DMADriver'
    BY <1>0, <1>1, <2>1 DEF Moved, DMADriver, Found, Clocked, MayGoOn, TooFast
  <2> QED BY <1>0, <2>1, <2>2, KeptLists DEF DMAInv, ChipInv
<1>2. CASE DoWork
  <2>1. CASE UNCHANGED <<posting, flags, pc, transfer, chip, dma>>
    BY <1>0, <2>1, KeptLists, KeptDMA DEF DMAInv, ChipInv
  <2>2. CASE /\ transfer # None /\ TCIF' = FALSE /\ UNCHANGED <<addLock, list, todo, pc>>
             /\ \/ FinishLast /\ NoTransfer
                \/ FinishAndNext /\ BeginTransfer(transfer')
    <3>1. transfer \in Transfer /\ ~moving
      BY <1>0, <1>2, <2>2 DEF ListTypes, DoWork, DMARaised, DMADriver, Clocked
    <3>2. DMADriver'
      BY <1>0, <2>2, <3>1, GoesOn DEF FinishLast, FinishAndNext
    <3>3. ListInv'
      BY <1>0, <2>2, <3>1, FinishLists
    <3>4. ChipInv'
      BY <1>0, <2>2, ChipChange DEF ListTypes
    <3> QED BY <3>2, <3>3, <3>4 DEF DMAInv
  <2> QED BY <1>2, <2>1, <2>2 DEF DoWork
<1> QED BY <1>1, <1>2

THEOREM DMAInvariance == DMASpec => []DMAInv
<1>1. DMAInit => DMAInv
  <2> SUFFICES ASSUME DMAInit PROVE DMAInv
    OBVIOUS
  <2>1. DMADriver
    <3>1. cache.desired = 0 /\ cache.speed = 0 /\ cache.scaler = 0
      BY DEF DMAInit
    <3>2. Found
      <4>1. 0 \in 0 .. MAX_SCALER
        BY DEF MAX_SCALER
      <4> QED BY <3>1, <4>1 DEF Found
    <3>3. Clocked
      <4>1. moving = FALSE /\ TCIF = FALSE /\ rxTCIE = FALSE /\ txTCIE = FALSE /\ BR = 0
        BY DEF DMAInit
      <4>2. 0 \in 0 .. MAX_SCALER
        BY DEF MAX_SCALER
      <4> QED BY <4>1, <4>2, Zenon DEF Clocked
    <3> QED BY <3>2, <3>3 DEF DMADriver
  <2>2. ChipInv
    BY DEF DMAInit, CoreInit, ChipInv
  <2> QED BY <2>1, <2>2, InitCore DEF DMAInit, DMAInv
<1>2. ASSUME DMAInv, [DMANext]_dmaVars PROVE DMAInv'
  <2>1. CASE UNCHANGED dmaVars
    BY <1>2, <2>1, KeptLists, KeptDMA DEF dmaVars, core, DMAInv, ChipInv
  <2> QED BY <1>2, <2>1, DMATaskLists, DMAHandlerLists DEF DMANext
<1> QED BY <1>1, <1>2, PTL DEF DMASpec

\* A transfer is clocked at the highest rate that the clock gives and that
\* is not above its speed, though the search begins where that for another
\* transfer ended (arm/spidma_stm32f3.c:108), for any transfers and speeds.
THEOREM SpeedIsHonoured == DMASpec => []SpeedHonoured
<1>1. DMAInv => SpeedHonoured
  <2> SUFFICES ASSUME DMAInv, moving
               PROVE  /\ RefSpeed <= speed[transfer] * Divider[BR + 1]
                      /\ BR > 0 => RefSpeed > speed[transfer] * Divider[BR]
    BY DEF SpeedHonoured
  <2>1. BR \in 0 .. MAX_SCALER /\ Highest(BR, speed[transfer])
    BY DEF DMAInv, DMADriver, Clocked
  <2>2. BR > 0 => BR - 1 \in 0 .. BR - 1 /\ (BR - 1) + 1 = BR
    BY <2>1 DEF MAX_SCALER
  <2> QED BY <2>1, <2>2 DEF Highest, TooFast
<1> QED BY <1>1, DMAInvariance, PTL

\* With the DMA driver as well the transfers of a list run in order and no
\* other task's in between.
THEOREM DMAListsStayTogether == DMASpec => []ListsTogether
<1>1. DMAInv => ListsTogether
  BY DEF DMAInv, ListInv, Order
<1> QED BY <1>1, DMAInvariance, PTL

\* The DMA channels move no byte but with exactly the chip select of its
\* transfer's slave low.
THEOREM DMARightSlaveOnly == DMASpec => [](moving => chip.low = {slave[transfer]})
<1>1. DMAInv => (moving => chip.low = {slave[transfer]})
  BY DEF DMAInv, DMADriver, Clocked, ChipInv
<1> QED BY <1>1, DMAInvariance, PTL

-----------------------------------------------------------------------------
(* The DMA driver: types.                                                  *)

LEMMA DMACoreStep ==
  ASSUME DMAInv, CoreRest, [DMANext]_dmaVars
  PROVE  CoreStep
<1>0. ListTypes /\ DMADriver /\ aborted \in BOOLEAN
  BY DEF DMAInv, ListInv, CoreRest
<1>1. ASSUME NEW t \in Task, Goto(t, "start", "unlock") \/ Goto(t, "start", "next") \/ Goto(t, "next", "unlock")
      PROVE  NoNewPut
  BY <1>0, <1>1 DEF Goto, NoNewPut, ListTypes
<1>2. pc' = pc => NoNewPut
  BY DEF NoNewPut
<1>3. ASSUME NEW x, BeginTransfer(x) PROVE aborted' \in BOOLEAN
  BY <1>0, <1>3 DEF BeginTransfer, Abort
<1>4. ASSUME NEW t \in Task, DMATaskStep(t) PROVE CoreStep
  <2>1. CASE DMAStart(t)
    BY <1>1, <2>1 DEF DMAStart, CoreStep, posting
  <2>2. CASE NextMessage(t)
    <3>1. NoNewPut
      BY <1>1, <2>2 DEF NextMessage
    <3>2. CASE Abort /\ UNCHANGED <<posting, chip>>
      BY <3>1, <3>2 DEF CoreStep, posting, Abort
    <3>3. CASE /\ UNCHANGED todo
               /\ \/ StartNothing /\ NoTransfer
                  \/ StartNext /\ BeginTransfer(transfer')
      BY <1>0, <1>3, <3>1, <3>3 DEF CoreStep, NoTransfer
    <3> QED BY <2>2, <3>2, <3>3 DEF NextMessage
  <2> QED BY <1>4, <2>1, <2>2 DEF DMATaskStep, CoreStep
<1>5. CASE Moved \/ UNCHANGED dmaVars
  BY <1>2, <1>5 DEF Moved, dmaVars, core, posting, CoreStep
<1>6. CASE DoWork
  <2>1. transfer # None /\ NoNewPut
    BY <1>0, <1>2, <1>6 DEF DoWork, DMARaised, DMADriver, Clocked
  <2>2. CASE Abort /\ UNCHANGED <<posting, chip>>
    BY <2>1, <2>2 DEF CoreStep, posting, Abort
  <2>3. CASE /\ UNCHANGED todo
             /\ \/ FinishLast /\ NoTransfer
                \/ FinishAndNext /\ BeginTransfer(transfer')
    BY <1>0, <1>3, <2>1, <2>3 DEF CoreStep, NoTransfer
  <2> QED BY <1>6, <2>2, <2>3 DEF DoWork
<1> QED BY <1>4, <1>5, <1>6 DEF DMANext, DMANewList, CoreStep

\* The type invariant of the DMA driver: the ring is not overrun, and the
\* scaler fits the three bits of CR1_BR.
THEOREM DMATypesCorrect == DMASpec => []DMATypeOK
<1>1. DMAInit => CoreRest
  BY InitRest DEF DMAInit
<1>2. DMAInv /\ CoreRest /\ [DMANext]_dmaVars => CoreRest'
  BY DMACoreStep, CoreRestKept DEF DMAInv
<1>3. DEFINE Cache == cache \in [desired : Nat, speed : Nat, scaler : 0 .. MAX_SCALER]
<1>4. DMAInit => Cache
  BY DEF DMAInit, MAX_SCALER
<1>5. DMAInv' /\ Cache /\ [DMANext]_dmaVars => Cache'
  <2> SUFFICES ASSUME DMAInv', Cache, [DMANext]_dmaVars PROVE Cache'
    OBVIOUS
  <2>1. \/ cache' = cache
        \/ \E d, v, s : cache' = [desired |-> d, speed |-> v, scaler |-> s]
    <3>1. ASSUME NEW x, BeginTransfer(x)
          PROVE  \/ cache' = cache
                 \/ \E d, v, s : cache' = [desired |-> d, speed |-> v, scaler |-> s]
      BY <3>1 DEF BeginTransfer
    <3>2. ASSUME NEW t \in Task, DMANewList(t) \/ DMATaskStep(t)
          PROVE  cache' = cache \/ BeginTransfer(transfer')
      BY <3>2 DEF DMANewList, DMATaskStep, DMAStart, NextMessage, NoTransfer, dma
    <3>3. ASSUME Moved \/ DoWork \/ UNCHANGED dmaVars
          PROVE  cache' = cache \/ BeginTransfer(transfer')
      BY <3>3 DEF Moved, DoWork, NoTransfer, dmaVars, dma
    <3> QED BY <3>1, <3>2, <3>3 DEF DMANext
  <2>2. cache'.desired \in Nat /\ cache'.speed \in Nat /\ cache'.scaler \in 0 .. MAX_SCALER
    BY DEF DMAInv, DMADriver, Found
  <2> QED BY <2>1, <2>2
<1>6. DMAInv /\ CoreRest /\ Cache => DMATypeOK
  BY CoreTyped DEF DMAInv, DMADriver, Clocked, DMATypeOK
<1> HIDE DEF Cache
<1> QED BY <1>1, <1>2, <1>4, <1>5, <1>6, DMAInvariance, PTL DEF DMASpec

-----------------------------------------------------------------------------
(* The DMA driver with one task that posts.                                *)

OnePoster    == \A t, u \in Task : t = u
SpeedsInReach == \A x \in Transfer : InReach(x)

\* The task that posts starts the driver when nothing is in progress.
Alone ==
  /\ ~aborted
  /\ \A t \in Task : pc[t] \in {"put", "start", "next"} => transfer = None

\* It waited for its list to be completed, and there is no other.
LEMMA NothingLeft ==
  ASSUME OnePoster, ListInv, NEW t \in Task, ~Admitted(t)
  PROVE  transfer = None
<1> SUFFICES ASSUME transfer # None PROVE FALSE
  OBVIOUS
<1>1. 1 \in 1 .. Len(Ahead)
  BY FirstAhead DEF ListInv
<1>2. \E u \in Task : Admitted(u)
  BY <1>1 DEF ListInv, Order, Mine
<1> QED BY <1>2 DEF OnePoster

LEMMA AloneStep ==
  ASSUME OnePoster, SpeedsInReach, DMAInv, Alone, [DMANext]_dmaVars
  PROVE  Alone'
<1>0. ListInv /\ ListTypes /\ DMADriver
  BY DEF DMAInv, ListInv
<1>1. CASE UNCHANGED <<aborted, transfer, pc>>
  BY <1>1 DEF Alone
<1>2. ASSUME NEW t \in Task, NEW v, pc' = [pc EXCEPT ![t] = v], aborted' = aborted,
             v \in {"put", "start", "next"} => transfer' = None
      PROVE  Alone'
  <2>1. ASSUME NEW u \in Task PROVE pc'[u] = v
    BY <1>0, <1>2 DEF OnePoster, ListTypes
  <2> QED BY <1>2, <2>1 DEF Alone
<1>3. ASSUME NEW t \in Task, DMANewList(t) PROVE Alone'
  <2>1. pc' = [pc EXCEPT ![t] = "lock"] /\ aborted' = aborted
    BY <1>3 DEF DMANewList, Call, Goto
  <2> QED BY <1>2, <2>1
<1>4. ASSUME NEW t \in Task, PostStep(t) PROVE Alone'
  <2>1. UNCHANGED <<aborted, transfer>>
    BY <1>4 DEF PostStep, Lock, Room, Put, Unlock
  <2>2. CASE Lock(t) \/ Unlock(t)
    <3>1. pc' = [pc EXCEPT ![t] = "room"] \/ pc' = [pc EXCEPT ![t] = "idle"]
      BY <2>2 DEF Lock, Unlock, Goto
    <3> QED BY <1>2, <2>1, <3>1
  <2>3. CASE Room(t)
    <3>1. /\ pc[t] = "room"
          /\ pc' = [pc EXCEPT ![t] = "put"] \/ pc' = [pc EXCEPT ![t] = "unlock"]
      BY <2>3 DEF Room, Goto
    <3>2. transfer = None
      BY <1>0, <3>1, NothingLeft DEF Admitted
    <3> QED BY <1>2, <2>1, <3>1, <3>2
  <2>4. CASE Put(t)
    <3>1. pc[t] = "put" /\ (pc' = pc \/ pc' = [pc EXCEPT ![t] = "start"])
      BY <2>4 DEF Put, Goto
    <3>2. transfer = None
      BY <3>1 DEF Alone
    <3> QED BY <1>1, <1>2, <2>1, <3>1, <3>2
  <2> QED BY <1>4, <2>2, <2>3, <2>4 DEF PostStep
<1>5. ASSUME NEW t \in Task, DMAStart(t) PROVE Alone'
  <2>1. /\ pc[t] = "start" /\ UNCHANGED <<aborted, transfer>>
        /\ pc' = [pc EXCEPT ![t] = IF InterruptsEnabled THEN "unlock" ELSE "next"]
    BY <1>5 DEF DMAStart, Goto
  <2>2. transfer' = None
    BY <2>1 DEF Alone
  <2> QED BY <1>2, <2>1, <2>2
<1>6. ASSUME NEW t \in Task, NextMessage(t) PROVE Alone'
  <2>1. pc[t] = "next" /\ pc' = [pc EXCEPT ![t] = "unlock"]
    BY <1>6 DEF NextMessage, Goto
  <2>2. transfer = None
    BY <2>1 DEF Alone
  <2>3. StartAsserts
    BY <1>0, <2>2, TakesFresh
  <2>4. /\ UNCHANGED TCIF
        /\ \/ TakeNothing /\ NoTransfer
           \/ TakeNext /\ BeginTransfer(transfer')
    BY <1>6, <2>3 DEF NextMessage, StartNothing, StartNext
  <2>5. ~moving /\ TCIF' = FALSE
    BY <1>0, <2>2, <2>4 DEF DMADriver, Clocked
  <2>6. aborted' = aborted
    BY <1>0, <2>4, <2>5, GoesOn DEF SpeedsInReach
  <2> QED BY <1>2, <2>1, <2>6
<1>7. CASE Moved
  BY <1>1, <1>7 DEF Moved, core
<1>8. CASE DoWork
  <2>1. TCIF /\ transfer # None /\ ~moving
    BY <1>0, <1>8 DEF DoWork, DMARaised, DMADriver, Clocked
  <2>2. FinishAsserts
    BY <1>0, <2>1, TakesFresh
  <2>3. /\ TCIF' = FALSE /\ pc' = pc
        /\ \/ TakeNothing /\ NoTransfer
           \/ TakeNext /\ BeginTransfer(transfer')
    BY <1>8, <2>1, <2>2 DEF DoWork, FinishLast, FinishAndNext
  <2>4. aborted' = aborted
    BY <1>0, <2>1, <2>3, GoesOn DEF SpeedsInReach
  <2> QED BY <2>1, <2>3, <2>4 DEF Alone
<1>9. CASE UNCHANGED dmaVars
  BY <1>1, <1>9 DEF dmaVars, core
<1> QED BY <1>3, <1>4, <1>5, <1>6, <1>7, <1>8, <1>9 DEF DMANext, DMATaskStep

\* While one task posts, no assert of the DMA driver fails either
\* (arm/spidma_stm32f3.c:127, 225, 254, and those of rtisan_spi.c): it is not
\* started while a transfer is in progress, though Start looks at the wrong
\* channel, its handler finds a transfer, and the search ends within CR1_BR,
\* if the clock can be divided down to the speed of every transfer.
THEOREM NoAssertFailsAlone ==
  OnePoster /\ SpeedsInReach => (DMASpec => []NoAbort)
<1> SUFFICES ASSUME OnePoster, SpeedsInReach PROVE DMASpec => []NoAbort
  OBVIOUS
<1>1. DMAInit => Alone
  BY DEF DMAInit, CoreInit, Alone
<1>2. ASSUME DMAInv, Alone, [DMANext]_dmaVars PROVE Alone'
  BY <1>2, AloneStep
<1>3. Alone => NoAbort
  BY DEF Alone, NoAbort
<1> QED BY <1>1, <1>2, <1>3, DMAInvariance, PTL DEF DMASpec
=============================================================================
