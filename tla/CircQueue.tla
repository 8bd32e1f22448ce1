------------------------------ MODULE CircQueue ------------------------------
(***************************************************************************)
(* The circular queue of rtisan_circqueue.c with one writer and one reader *)
(* that run concurrently: two threads, or a thread and an interrupt        *)
(* handler.  Only the writer stores writeHead and only the reader stores   *)
(* readTail; each reads the other's position once per call (both are       *)
(* volatile) and works on from that snapshot.  One action is one access to *)
(* the shared state, or one element copied.                                *)
(*                                                                         *)
(* A failed assert sends the side that made it to the control state        *)
(* "abort", where it stays.                                                *)
(***************************************************************************)
EXTENDS Naturals, Sequences

CONSTANTS
  Value,      \* the elements
  Zero,       \* what memset leaves in a slot
  NumElem,    \* slots of the ring
  Buffers,    \* the buffers the writer may be asked to send
  Wants       \* the element counts the reader may ask for

UINT16_MAX == 65535

ASSUME NumElemAssumption == NumElem \in Nat /\ NumElem >= 2 /\ NumElem <= UINT16_MAX
ASSUME BuffersAssumption == Buffers \subseteq Seq(Value)
ASSUME WantsAssumption   == Wants \subseteq Nat

VARIABLES
  writeHead, readTail, contents,
  wpc, wop,   \* the writer's control state and the call it is in
  wbuf,       \* the buffer it was given
  wTotal,     \* total_put
  wAmt,       \* putThisTime, the amount passed to RTCQWriteAdvance
  wCopied,    \* elements of this round already copied
  wNew,       \* newWriteHead
  rpc, rop,   \* the reader's control state and the call it is in
  rWant,      \* the number of elements asked for
  rbuf,       \* elements copied to the reader's buffer
  rTotal,     \* totalRead
  rAmt,       \* readThisTime
  rNew        \* the readTail to be stored

ring   == <<writeHead, readTail, contents>>
writer == <<wpc, wop, wbuf, wTotal, wAmt, wCopied, wNew>>
reader == <<rpc, rop, rWant, rbuf, rTotal, rAmt, rNew>>
vars   == <<ring, writer, reader>>

Slots == 0 .. NumElem - 1

-----------------------------------------------------------------------------
(* Position arithmetic.                                                    *)

\* Mutant: the position after the last slot is not slot 0.
AdvanceByN_NoWrap(pos, n) == IF pos + n > NumElem THEN pos + n - NumElem ELSE pos + n

AdvanceByN(pos, n) == IF pos + n >= NumElem THEN pos + n - NumElem ELSE pos + n

\* The two asserts of AdvanceByN.
AdvanceAsserts(pos, n) == pos < NumElem /\ n <= NumElem

\* Mutants: the slot before readTail is filled when it is the ring's last;
\* readTail in front of writeHead is overlooked.
WriteContig_LastSlot(head, tail) ==
  IF tail <= head THEN NumElem - head ELSE tail - head - 1
WriteContig_ToEnd(head, tail) ==
  IF tail = 0 THEN NumElem - head - 1 ELSE NumElem - head

\* RTCQWritePos: *contig, the elements that fit without wrapping.  The
\* position before readTail is never filled.
WriteContig(head, tail) ==
  IF tail <= head
    THEN IF tail = 0 THEN NumElem - head - 1 ELSE NumElem - head
    ELSE tail - head - 1

\* Mutant: the slot that stays empty is counted.
WriteAvail_All(head, tail) ==
  IF tail <= head THEN NumElem - head + tail ELSE tail - head

\* RTCQWritePos: *avail, the elements that fit in all.
WriteAvail(head, tail) ==
  IF tail <= head THEN NumElem - head + tail - 1 ELSE tail - head - 1

\* Mutant: one element too many.
ReadContig_OneMore(head, tail) ==
  IF head >= tail THEN head - tail + 1 ELSE NumElem - tail

\* RTCQReadPos: *contig, the elements to read without wrapping.
ReadContig(head, tail) ==
  IF head >= tail THEN head - tail ELSE NumElem - tail

Lesser(a, b) == IF a <= b THEN a ELSE b

-----------------------------------------------------------------------------
(* RTCQCreate.                                                             *)

Init ==
  /\ writeHead = 0 /\ readTail = 0 /\ contents = [i \in Slots |-> Zero]
  /\ wpc = "idle" /\ wop = "write" /\ wbuf = <<>>
  /\ wTotal = 0 /\ wAmt = 0 /\ wCopied = 0 /\ wNew = 0
  /\ rpc = "idle" /\ rop = "read" /\ rWant = 0 /\ rbuf = <<>>
  /\ rTotal = 0 /\ rAmt = 0 /\ rNew = 0

-----------------------------------------------------------------------------
(* The writer.                                                             *)

\* The writer is between two calls.
WriterFree == wpc \in {"idle", "refused"}

\* RTCQWrite(q, b, Len(b)).
WriteCall(b) ==
  /\ WriterFree
  /\ wpc' = "pos" /\ wop' = "write" /\ wbuf' = b /\ wTotal' = 0
  /\ UNCHANGED <<ring, wAmt, wCopied, wNew, reader>>

\* RTCQWritePos for avail and, as it suffices, RTCQWrite of the whole batch
\* (RTSPIDoTransfers).
BatchCall(b) ==
  /\ WriterFree
  /\ WriteAvail(writeHead, readTail) >= Len(b)
  /\ wpc' = "pos" /\ wop' = "batch" /\ wbuf' = b /\ wTotal' = 0
  /\ UNCHANGED <<ring, wAmt, wCopied, wNew, reader>>

\* RTCQWritePos without contig, the element v to be put at the position it
\* returns and RTCQWriteAdvanceOne to follow: no room is promised.
OneCall(v) ==
  /\ WriterFree
  /\ wpc' = "copy" /\ wop' = "one" /\ wbuf' = <<v>> /\ wTotal' = 0
  /\ wAmt' = 1 /\ wCopied' = 0
  /\ UNCHANGED <<ring, wNew, reader>>

\* The caller of a refused RTCQWriteAdvanceOne tries again.
RetryOne ==
  /\ wpc = "refused"
  /\ wpc' = "adv"
  /\ UNCHANGED <<ring, wop, wbuf, wTotal, wAmt, wCopied, wNew, reader>>

\* Mutant: no break when there is no room.
WritePos_NoBreak ==
  /\ wpc = "pos"
  /\ wAmt' = Lesser(WriteContig(writeHead, readTail), Len(wbuf) - wTotal)
  /\ wpc' = "copy"
  /\ wCopied' = 0
  /\ UNCHANGED <<ring, wop, wbuf, wTotal, wNew, reader>>

\* Top of RTCQWrite's loop: RTCQWritePos, and break when there is no room.
WritePos ==
  /\ wpc = "pos"
  /\ LET put == WriteContig(writeHead, readTail) IN
       /\ wAmt' = Lesser(put, Len(wbuf) - wTotal)
       /\ wpc' = IF put = 0 THEN "idle" ELSE "copy"
  /\ wCopied' = 0
  /\ UNCHANGED <<ring, wop, wbuf, wTotal, wNew, reader>>

\* Mutant: every round copies from the start of the buffer.
CopyIn_FromStart ==
  /\ wpc = "copy" /\ wCopied < wAmt
  /\ contents' = [contents EXCEPT ![writeHead + wCopied] = wbuf[wCopied + 1]]
  /\ wCopied' = wCopied + 1
  /\ UNCHANGED <<writeHead, readTail, wpc, wop, wbuf, wTotal, wAmt, wNew, reader>>

\* One element of the memcpy.
CopyIn ==
  /\ wpc = "copy" /\ wCopied < wAmt
  /\ contents' =
       [contents EXCEPT ![writeHead + wCopied] = wbuf[wTotal + wCopied + 1]]
  /\ wCopied' = wCopied + 1
  /\ UNCHANGED <<writeHead, readTail, wpc, wop, wbuf, wTotal, wAmt, wNew, reader>>

CopiedIn ==
  /\ wpc = "copy" /\ wCopied = wAmt
  /\ wpc' = "adv"
  /\ UNCHANGED <<ring, wop, wbuf, wTotal, wAmt, wCopied, wNew, reader>>

\* Where a write call goes on when RTCQWriteAdvance has returned with
\* total_put at total: the RTCQWrite loop, or back to the caller.
AfterAdvance(total) ==
  IF wop # "one" /\ total < Len(wbuf) THEN "pos" ELSE "idle"

\* RTCQWriteAdvance up to its store: nothing to do for 0 elements, an assert
\* that may fail, the comparison with readTail that may refuse.  RTCQWrite
\* ignores the refusal; RTCQWriteAdvanceOne passes it to its caller.
WriteAdvance ==
  LET new == AdvanceByN(writeHead, wAmt)
  IN
  /\ wpc = "adv"
  /\ \/ /\ wAmt = 0
        /\ wpc' = AfterAdvance(wTotal)
        /\ UNCHANGED <<wNew, wTotal>>
     \/ /\ wAmt # 0 /\ ~AdvanceAsserts(writeHead, wAmt)
        /\ wpc' = "abort"
        /\ UNCHANGED <<wNew, wTotal>>
     \/ /\ wAmt # 0 /\ AdvanceAsserts(writeHead, wAmt) /\ new = readTail
        /\ \/ wop = "one" /\ wpc' = "refused" /\ UNCHANGED wTotal
           \/ wop # "one" /\ wTotal' = wTotal + wAmt /\ wpc' = AfterAdvance(wTotal')
        /\ UNCHANGED wNew
     \/ /\ wAmt # 0 /\ AdvanceAsserts(writeHead, wAmt) /\ new # readTail
        /\ wNew' = new
        /\ wpc' = "store"
        /\ UNCHANGED wTotal
  /\ UNCHANGED <<ring, wop, wbuf, wAmt, wCopied, reader>>

\* The store that publishes the elements.
WriteStore ==
  /\ wpc = "store"
  /\ writeHead' = wNew
  /\ wTotal' = wTotal + wAmt
  /\ wpc' = AfterAdvance(wTotal')
  /\ UNCHANGED <<readTail, contents, wop, wbuf, wAmt, wCopied, wNew, reader>>

-----------------------------------------------------------------------------
(* The reader.                                                             *)

\* RTCQRead(q, buf, n).
ReadCall(n) ==
  /\ rpc = "idle"
  /\ rpc' = "pos" /\ rop' = "read" /\ rWant' = n /\ rbuf' = <<>> /\ rTotal' = 0
  /\ UNCHANGED <<ring, rAmt, rNew, writer>>

\* RTCQReadPos without contig: the block is used in place, RTCQReadDone to
\* follow.  An empty queue gives NULL.
PeekCall ==
  /\ rpc = "idle" /\ writeHead # readTail
  /\ rpc' = "copy" /\ rop' = "one" /\ rWant' = 1 /\ rbuf' = <<>> /\ rTotal' = 0
  /\ rAmt' = 1
  /\ UNCHANGED <<ring, rNew, writer>>

\* RTCQClear up to its store.
ClearCall ==
  /\ rpc = "idle"
  /\ rpc' = "store" /\ rop' = "clear" /\ rWant' = 0 /\ rbuf' = <<>> /\ rTotal' = 0
  /\ rAmt' = 0 /\ rNew' = writeHead
  /\ UNCHANGED <<ring, writer>>

\* Top of RTCQRead's loop: RTCQReadPos, and break when there is nothing.
ReadPos ==
  /\ rpc = "pos"
  /\ LET get == ReadContig(writeHead, readTail) IN
       /\ rAmt' = Lesser(get, rWant - rTotal)
       /\ rpc' = IF get = 0 THEN "idle" ELSE "copy"
  /\ UNCHANGED <<ring, rop, rWant, rbuf, rTotal, rNew, writer>>

\* One element of the memcpy, or of the use in place.
CopyOut ==
  /\ rpc = "copy" /\ Len(rbuf) < rTotal + rAmt
  /\ rbuf' = Append(rbuf, contents[readTail + (Len(rbuf) - rTotal)])
  /\ UNCHANGED <<ring, rpc, rop, rWant, rTotal, rAmt, rNew, writer>>

CopiedOut ==
  /\ rpc = "copy" /\ Len(rbuf) = rTotal + rAmt
  /\ rpc' = "done"
  /\ UNCHANGED <<ring, rop, rWant, rbuf, rTotal, rAmt, rNew, writer>>

\* Where RTCQRead goes on when RTCQReadDoneMulti has returned.
AfterDone(total) == IF total < rWant THEN "pos" ELSE "idle"

\* The asserts of RTCQReadDone, and those RTCQReadDoneMulti adds.
DoneAsserts ==
  LET new == AdvanceByN(readTail, rAmt) IN
  /\ readTail # writeHead
  /\ AdvanceAsserts(readTail, rAmt)
  /\ rop = "read" => new > readTail \/ new = 0

\* RTCQReadDoneMulti, or RTCQReadDone, up to its store.
ReadDone ==
  /\ rpc = "done"
  /\ \/ /\ rAmt = 0
        /\ rpc' = AfterDone(rTotal)
        /\ UNCHANGED rNew
     \/ /\ rAmt # 0 /\ ~DoneAsserts
        /\ rpc' = "abort"
        /\ UNCHANGED rNew
     \/ /\ rAmt # 0 /\ DoneAsserts
        /\ rNew' = AdvanceByN(readTail, rAmt)
        /\ rpc' = "store"
  /\ UNCHANGED <<ring, rop, rWant, rbuf, rTotal, rAmt, writer>>

\* The store that gives the slots back.
ReadStore ==
  /\ rpc = "store"
  /\ readTail' = rNew
  /\ rTotal' = rTotal + rAmt
  /\ rpc' = AfterDone(rTotal')
  /\ UNCHANGED <<writeHead, contents, rop, rWant, rbuf, rAmt, rNew, writer>>

-----------------------------------------------------------------------------

WriterSteps == WritePos \/ CopyIn \/ CopiedIn \/ WriteAdvance \/ WriteStore
ReaderSteps == ReadPos \/ CopyOut \/ CopiedOut \/ ReadDone \/ ReadStore

Next ==
  \/ \E b \in Buffers : WriteCall(b) \/ BatchCall(b)
  \/ \E v \in Value : OneCall(v)
  \/ RetryOne
  \/ WriterSteps
  \/ \E n \in Wants : ReadCall(n)
  \/ PeekCall
  \/ ClearCall
  \/ ReaderSteps

\* A call that has begun goes on: each side is a thread or a handler that
\* is given the processor again.  Nobody has to call.
Spec == Init /\ [][Next]_vars /\ WF_vars(WriterSteps) /\ WF_vars(ReaderSteps)

-----------------------------------------------------------------------------
(* Properties.                                                             *)

\* The steps from position tail to position head, the elements published
\* and not given back, and their places in the ring.
Distance(tail, head) == IF head >= tail THEN head - tail ELSE NumElem - tail + head
Count == Distance(readTail, writeHead)
Place(pos, i) == IF pos + i >= NumElem THEN pos + i - NumElem ELSE pos + i
Published == [i \in 1 .. Count |-> contents[Place(readTail, i - 1)]]

\* The slots the writer's memcpy has still to touch, and those the reader
\* uses until it gives them back.
WriterSlots == IF wpc = "copy" THEN writeHead + wCopied .. writeHead + wAmt - 1
                               ELSE {}
ReaderSlots == IF rpc \in {"copy", "done"} THEN readTail .. readTail + rAmt - 1
                                           ELSE {}

\* The type invariant.
TypeOK ==
  /\ writeHead \in Slots /\ readTail \in Slots
  /\ contents \in [Slots -> Value \union {Zero}]
  /\ wpc \in {"idle", "refused", "pos", "copy", "adv", "store", "abort"}
  /\ wop \in {"write", "batch", "one"}
  /\ wbuf \in Seq(Value) /\ wTotal \in Nat /\ wAmt \in Nat /\ wCopied \in Nat
  /\ wNew \in Slots
  /\ rpc \in {"idle", "pos", "copy", "done", "store", "abort"}
  /\ rop \in {"read", "one", "clear"}
  /\ rWant \in Nat /\ rbuf \in Seq(Value \union {Zero})
  /\ rTotal \in Nat /\ rAmt \in Nat /\ rNew \in Slots

\* No assert of the queue (rtisan_circqueue.c:105, 106, 242, 266, 278) ever
\* fails, whatever the two sides do in between each other's steps.
NoAbort == wpc # "abort" /\ rpc # "abort"

\* memcpy never leaves the ring and never touches a slot the other side is
\* using: the writer's slots and the reader's are disjoint at all times,
\* although each side worked them out from a position that is since stale.
SlotsDisjoint ==
  /\ WriterSlots \subseteq Slots
  /\ ReaderSlots \subseteq Slots
  /\ WriterSlots \intersect ReaderSlots = {}

\* "We promise that you can advance that many": RTCQWrite, which ignores
\* what RTCQWriteAdvance returns, is never refused.
ContigHonoured ==
  wpc = "adv" /\ wop # "one" /\ wAmt > 0 => AdvanceByN(writeHead, wAmt) # readTail

\* A batch for which avail sufficed is taken whole, wrapped around the end
\* of the ring or not: what RTSPIDoTransfers relies on to keep a transfer
\* list together.
AvailHonoured == wpc = "idle" /\ wop = "batch" => wTotal = Len(wbuf)

\* The two concurrent sides together are a bounded first-in first-out queue:
\* the stores of writeHead and readTail are its linearization points.
Abstract == INSTANCE Fifo WITH
  Capacity <- NumElem - 1,
  inp      <- SubSeq(wbuf, wTotal + 1, Len(wbuf)),
  queue    <- Published,
  out      <- SubSeq(rbuf, 1, rTotal)
ImplementsFifo == Abstract!Spec

\* Every RTCQWrite and RTCQRead returns, even while the other side keeps
\* moving its position: no call loops on a round of 0 elements.
CallsReturn ==
  /\ wpc = "pos" ~> WriterFree
  /\ rpc = "pos" ~> rpc = "idle"
=============================================================================
