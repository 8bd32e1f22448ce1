-------------------------------- MODULE DIO --------------------------------
(***************************************************************************)
(* Digital pins and LEDs on the STM32F3: arm/inc/rtisan_dio.h,             *)
(* arm/rtisan_dio.c and rtisan_led.c, used by several tasks.  The pins are *)
(* one port's, whose registers they share: ODR, changed through BSRR one   *)
(* pin at a time, and MODER, changed by a read and a write of the whole    *)
(* register.  PUPDR, OTYPER, OSPEEDR and AFR are changed as MODER is and   *)
(* left out.                                                               *)
(*                                                                         *)
(* An init tag is a record of the pin, its function and its initial level. *)
(***************************************************************************)
EXTENDS Naturals, Sequences

CONSTANTS
  User,     \* who calls
  Pin,
  LEDPins   \* the LEDs' init tags; LED n of the code is LEDPins[n + 1]

PinFunc == {"input", "output", "altfunc_in", "altfunc_out", "analog"}
InitTag == [pin : Pin, func : PinFunc, initial : {0, 1}]

ASSUME LEDAssumption ==
  /\ LEDPins \in Seq(InitTag)
  /\ \A n \in 1 .. Len(LEDPins) :
       /\ LEDPins[n].func = "output"
       /\ \A m \in 1 .. n - 1 : LEDPins[m].pin # LEDPins[n].pin

VARIABLES
  odr, moder,
  pins,         \* the init tags that each user's loop has still to go over
  writes,       \* the register changes that it has still to make in its call
  seen,         \* the register that it read; <<>> when none
  rtLedCount,
  \* history variables: what was last asked of each LED and of each pin, and
  \* the pins whose MODER changes overlapped
  lit, mode, raced

dio == <<odr, moder, pins, writes, seen, rtLedCount, lit, mode, raced>>

\* enum DIOSTMPinFunc.
INPUT == 0
OUTPUT == 1
ALTFUNC == 2
ANALOG == 3

LED == 0 .. Len(LEDPins) - 1
LEDPin(n) == LEDPins[n + 1].pin
ActiveLow(n) == LEDPins[n + 1].initial = 1

DIOStart ==
  /\ odr = [p \in Pin |-> 0] /\ moder = [p \in Pin |-> INPUT]
  /\ pins = [u \in User |-> <<>>] /\ writes = [u \in User |-> <<>>]
  /\ seen = [u \in User |-> <<>>]
  /\ rtLedCount = 0 /\ lit = [n \in LED |-> FALSE]
  /\ mode = [p \in Pin |-> INPUT] /\ raced = {}

Change(reg, pin, val) == [reg |-> reg, pin |-> pin, val |-> val]

DIOSetOutput(pin, firstValue) ==
  <<Change("BSRR", pin, firstValue), Change("MODER", pin, OUTPUT)>>

DIOSetInput(pin)        == <<Change("MODER", pin, INPUT)>>
DIOSetAltfuncOutput(pin) == DIOSetOutput(pin, 0) \o <<Change("MODER", pin, ALTFUNC)>>
DIOSetAltfuncInput(pin) == DIOSetInput(pin) \o <<Change("MODER", pin, ALTFUNC)>>
DIOSetAnalog(pin)       == <<Change("MODER", pin, ANALOG)>>

\* The changes that DIOInit makes.
Changes(t) ==
  CASE t.func = "input"       -> DIOSetInput(t.pin)
    [] t.func = "output"      -> DIOSetOutput(t.pin, t.initial)
    [] t.func = "altfunc_in"  -> DIOSetAltfuncInput(t.pin)
    [] t.func = "altfunc_out" -> DIOSetAltfuncOutput(t.pin)
    [] t.func = "analog"      -> DIOSetAnalog(t.pin)

Mode(f) ==
  CASE f = "input" -> INPUT [] f = "output" -> OUTPUT [] f = "analog" -> ANALOG
    [] OTHER -> ALTFUNC

DIOInit(u) ==
  /\ writes[u] = <<>> /\ pins[u] # <<>>
  /\ pins' = [pins EXCEPT ![u] = Tail(@)]
  /\ LET t == Head(pins[u])
     IN  /\ writes' = [writes EXCEPT ![u] = Changes(t)]
         /\ mode' = [mode EXCEPT ![t.pin] = Mode(t.func)]
  /\ UNCHANGED <<odr, moder, seen, rtLedCount, lit, raced>>

Quiescent(u) == pins[u] = <<>> /\ writes[u] = <<>>

\* A loop that calls DIOInit for some pins, one after another.
InitPins(u, tags) ==
  /\ Quiescent(u)
  /\ pins' = [pins EXCEPT ![u] = tags]
  /\ UNCHANGED <<odr, moder, writes, seen, lit, mode, raced>>

RTLEDInit(u) ==
  /\ InitPins(u, LEDPins)
  /\ rtLedCount' = Len(LEDPins)

\* The level that lights an LED is the one it does not start with.
RTLEDSet(u, n, on) ==
  /\ Quiescent(u)
  /\ IF n \in 0 .. rtLedCount - 1
       THEN /\ odr' = [odr EXCEPT ![LEDPin(n)] = IF on # ActiveLow(n) THEN 1 ELSE 0]
            /\ lit' = [lit EXCEPT ![n] = on]
       ELSE UNCHANGED <<odr, lit>>
  /\ UNCHANGED <<moder, pins, writes, seen, rtLedCount, mode, raced>>

\* DIOToggle reads ODR, all of it ...
RTLEDToggle(u, n) ==
  /\ Quiescent(u) /\ n \in 0 .. rtLedCount - 1
  /\ seen' = [seen EXCEPT ![u] = odr]
  /\ writes' = [writes EXCEPT ![u] = <<Change("TOGGLE", LEDPin(n), 1 - odr[LEDPin(n)])>>]
  /\ UNCHANGED <<odr, moder, pins, rtLedCount, lit, mode, raced>>

-----------------------------------------------------------------------------
(* The changes.                                                            *)

First(u) == Head(writes[u])
Done(u)  == writes' = [writes EXCEPT ![u] = Tail(@)] /\ seen' = [seen EXCEPT ![u] = <<>>]

\* DIOHigh, DIOLow.
WriteLevel(u) ==
  /\ writes[u] # <<>> /\ First(u).reg = "BSRR"
  /\ odr' = [odr EXCEPT ![First(u).pin] = First(u).val]
  /\ Done(u)
  /\ UNCHANGED <<moder, pins, rtLedCount, lit, mode, raced>>

Toggled(pin) == [n \in LED |-> lit[n] # (LEDPin(n) = pin)]

\* Mutant: ODR is written back as a whole.
WriteToggle_Port(u) ==
  /\ writes[u] # <<>> /\ First(u).reg = "TOGGLE"
  /\ odr' = [seen[u] EXCEPT ![First(u).pin] = First(u).val]
  /\ lit' = Toggled(First(u).pin)
  /\ Done(u)
  /\ UNCHANGED <<moder, pins, rtLedCount, mode, raced>>

\* ... and then does a DIOWrite of the opposite level.
WriteToggle(u) ==
  /\ writes[u] # <<>> /\ First(u).reg = "TOGGLE"
  /\ odr' = [odr EXCEPT ![First(u).pin] = First(u).val]
  /\ lit' = Toggled(First(u).pin)
  /\ Done(u)
  /\ UNCHANGED <<moder, pins, rtLedCount, mode, raced>>

Reading(u) == writes[u] # <<>> /\ First(u).reg = "MODER"

\* DIO_SETREG_TWOWIDE reads the register ...
ReadMode(u) ==
  /\ Reading(u) /\ seen[u] = <<>>
  /\ seen' = [seen EXCEPT ![u] = moder]
  /\ LET others == {v \in User \ {u} : Reading(v) /\ seen[v] # <<>>}
     IN  raced' = IF others = {} THEN raced
                  ELSE raced \cup {First(v).pin : v \in others \cup {u}}
  /\ UNCHANGED <<odr, moder, pins, writes, rtLedCount, lit, mode>>

\* Mutant: the field is not cleared first.
Field_Kept(old, val) == IF {old, val} = {1, 2} THEN 3 ELSE IF old > val THEN old ELSE val

\* ... and writes all of it, one field changed.
Field(old, val) == val

WriteMode(u) ==
  /\ Reading(u) /\ seen[u] # <<>>
  /\ LET pin == First(u).pin IN moder' = [seen[u] EXCEPT ![pin] = Field(@, First(u).val)]
  /\ Done(u)
  /\ UNCHANGED <<odr, pins, rtLedCount, lit, mode, raced>>

DIOStep(u) == DIOInit(u) \/ WriteLevel(u) \/ WriteToggle(u) \/ ReadMode(u) \/ WriteMode(u)

-----------------------------------------------------------------------------

DIOTypeOK ==
  /\ odr \in [Pin -> {0, 1}] /\ moder \in [Pin -> INPUT .. ANALOG]
  /\ pins \in [User -> Seq(InitTag)]
  /\ writes \in [User -> Seq([reg : {"BSRR", "TOGGLE", "MODER"}, pin : Pin, val : 0 .. 3])]
  /\ seen \in [User -> [Pin -> 0 .. 3] \cup {<<>>}]
  /\ rtLedCount \in {0, Len(LEDPins)} /\ lit \in [LED -> BOOLEAN]
  /\ mode \in [Pin -> INPUT .. ANALOG] /\ raced \subseteq Pin

\* An LED that is driven shows what its owner last asked for, and is dark
\* before that, whatever others do to the pins of its port at the same time.
LedsShow ==
  \A n \in LED : moder[LEDPin(n)] = OUTPUT =>
    (odr[LEDPin(n)] = 1) = (lit[n] # ActiveLow(n))

\* A pin that no DIOInit is at work on is in the mode that it was last given,
\* unless the change of its MODER overlapped another's on the same port, as
\* the comment at the macros warns.
PinsConfigured ==
  \A p \in Pin \ raced :
    (\A u \in User : \A n \in DOMAIN writes[u] : writes[u][n].pin # p) => moder[p] = mode[p]
=============================================================================
