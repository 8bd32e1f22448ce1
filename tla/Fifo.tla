-------------------------------- MODULE Fifo --------------------------------
(***************************************************************************)
(* What the circular queue of rtisan_circqueue.c promises its two users: a *)
(* bounded first-in first-out queue between one writer and one reader.     *)
(* Elements are taken from the writer's buffer in order, handed to the     *)
(* reader in the same order, none lost or repeated, except those that the  *)
(* reader asks to discard (RTCQClear).                                     *)
(***************************************************************************)
EXTENDS Naturals, Sequences

CONSTANTS
  Value,      \* the elements
  Capacity    \* the most elements the queue holds

VARIABLES
  inp,        \* what is left of the buffer the writer is sending
  queue,      \* elements sent and not yet received
  out         \* what the current read call has received so far

vars == <<inp, queue, out>>

Init == inp = <<>> /\ queue = <<>> /\ out = <<>>

\* The writer calls with a new buffer; the rest of the old one, reported to
\* it as not taken, is forgotten.
StartWrite ==
  /\ inp' \in Seq(Value)
  /\ UNCHANGED <<queue, out>>

\* n elements of the buffer go to the end of the queue at once.
Enqueue(n) ==
  /\ n <= Len(inp)
  /\ Len(queue) + n <= Capacity
  /\ queue' = queue \o SubSeq(inp, 1, n)
  /\ inp' = SubSeq(inp, n + 1, Len(inp))
  /\ UNCHANGED out

StartRead ==
  /\ out' = <<>>
  /\ UNCHANGED <<inp, queue>>

\* The n oldest elements go to the reader at once.
Dequeue(n) ==
  /\ n <= Len(queue)
  /\ out' = out \o SubSeq(queue, 1, n)
  /\ queue' = SubSeq(queue, n + 1, Len(queue))
  /\ UNCHANGED inp

\* The n oldest elements are dropped at the reader's request.
Discard(n) ==
  /\ n <= Len(queue)
  /\ queue' = SubSeq(queue, n + 1, Len(queue))
  /\ UNCHANGED <<inp, out>>

Next ==
  \/ StartWrite
  \/ StartRead
  \/ \E n \in 1 .. Capacity : Enqueue(n) \/ Dequeue(n) \/ Discard(n)

Spec == Init /\ [][Next]_vars

\* The queue whose reader never discards.
Lossless == Spec /\ [][\A n \in 1 .. Capacity : ~Discard(n)]_vars
=============================================================================
