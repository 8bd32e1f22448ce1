------------------------------- MODULE Board -------------------------------
(***************************************************************************)
(* A board from reset on, as main.c starts it: the heap, the LEDs, the     *)
(* pins, the first tasks, and then tasks that create tasks, allocate,      *)
(* set up pins of their own, as the SPI drivers do, and use their LEDs.    *)
(***************************************************************************)
EXTENDS TaskTable, DIO

CONSTANTS
  USBPins,      \* init tags
  LitFirst,     \* the LEDs that main turns on
  TaskPins,     \* the tags of the pins that each task sets up
  Uses          \* the LED that each task uses, if any

\* The pins that a task's own tags name, main's those of the USB as well.
OwnTags(p) == {TaskPins[p][n] : n \in 1 .. Len(TaskPins[p])}
              \cup {USBPins[n] : n \in 1 .. IF p = Main THEN Len(USBPins) ELSE 0}
OwnPins(p) == {t.pin : t \in OwnTags(p)}

ASSUME BoardAssumption ==
  /\ User = Caller /\ USBPins \in Seq(InitTag) /\ TaskPins \in [Caller -> Seq(InitTag)]
  /\ LitFirst \in [1 .. 2 -> Nat] /\ Uses \in [Caller -> SUBSET Nat]

\* The board's wiring: a pin is one task's, or an LED's, and an LED is one task's.
ASSUME WiringAssumption ==
  /\ \A p, q \in Caller : p # q => Uses[p] \cap Uses[q] = {} /\ OwnPins(p) \cap OwnPins(q) = {}
  /\ \A p \in Caller : \A n \in LED : LEDPin(n) \notin OwnPins(p)

VARIABLES
  mainPC,       \* where main is before its RTTaskCreates
  toInit        \* the tasks that have still to set up their pins

board == <<vars, table, dio, mainPC, toInit>>

BoardInit ==
  /\ TableInit /\ DIOStart
  /\ mainPC = "heap" /\ toInit = {p \in Caller : TaskPins[p] # <<>>}

MainStep(from, to) == mainPC = from /\ mainPC' = to

Boot ==
  \/ /\ MainStep("heap", "leds") /\ RTHeapInit
     /\ UNCHANGED <<table, dio, toInit>>
  \/ /\ MainStep("leds", "lit") /\ RTLEDInit(Main)
     /\ UNCHANGED <<vars, table, toInit>>
  \/ /\ MainStep("lit", "lit2") /\ RTLEDSet(Main, LitFirst[1], TRUE)
     /\ UNCHANGED <<vars, table, toInit>>
  \/ /\ MainStep("lit2", "usb") /\ RTLEDSet(Main, LitFirst[2], TRUE)
     /\ UNCHANGED <<vars, table, toInit>>
  \/ /\ MainStep("usb", "tasks") /\ InitPins(Main, USBPins)
     /\ UNCHANGED <<vars, table, toInit, rtLedCount>>

Start == RTEnableSystick \/ FirstSwitch

\* What a task does between its calls is not ordered.
TaskCall(p) ==
  \/ /\ RTTaskCreate(p) \/ OwnMalloc(p)
     /\ Quiescent(p) /\ UNCHANGED <<dio, toInit>>
  \/ /\ Idle(p) /\ p \in toInit
     /\ InitPins(p, TaskPins[p]) /\ toInit' = toInit \ {p}
     /\ UNCHANGED <<vars, table, rtLedCount>>
  \/ /\ Idle(p)
     /\ \E n \in Uses[p] : RTLEDToggle(p, n) \/ \E on \in BOOLEAN : RTLEDSet(p, n, on)
     /\ UNCHANGED <<vars, table, toInit>>

NewCall(p)   == (p = Main => mainPC = "tasks") /\ TaskCall(p) /\ UNCHANGED mainPC
TableStep(p) == CreateStep(p) /\ UNCHANGED <<dio, mainPC, toInit>>
PinStep(p)   ==
  /\ ~fault /\ (p # Main => Runs(p))
  /\ DIOStep(p)
  /\ UNCHANGED <<vars, table, mainPC, toInit>>

BoardNext ==
  \/ Boot
  \/ mainPC = "tasks" /\ Quiescent(Main) /\ Start /\ UNCHANGED <<dio, mainPC, toInit>>
  \/ \E p \in Caller : NewCall(p) \/ TableStep(p) \/ PinStep(p)

\* A task that creates others is not kept from the processor for ever.
BoardSpec ==
  /\ BoardInit /\ [][BoardNext]_board
  /\ \A p \in {q \in Caller : Creates[q] # <<>>} : WF_board(TableStep(p))

\* The type invariant.
BoardTypeOK ==
  /\ TableTypeOK /\ DIOTypeOK
  /\ mainPC \in {"heap", "leds", "lit", "lit2", "usb", "tasks"} /\ toInit \subseteq Caller
=============================================================================
