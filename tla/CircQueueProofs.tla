--------------------------- MODULE CircQueueProofs ---------------------------
(***************************************************************************)
(* Safety of the circular queue for every ring size, every set of buffers  *)
(* and every interleaving of the writer and the reader.                    *)
(*                                                                         *)
(* Each side works from a snapshot of the other's position.  The snapshot  *)
(* goes stale in one direction only: the reader can only free slots and    *)
(* the writer can only publish more.  So what a side worked out from it    *)
(* (wAmt slots free, rAmt elements there) stays true until that side's own *)
(* store, and that is the inductive invariant.                             *)
(***************************************************************************)
EXTENDS CircQueue, SequenceTheorems, TLAPS

\* Elements that can still be published.
Free == NumElem - 1 - Count

\* What the writer knows: its round fits before the end of the ring and,
\* but for a lone element, into the free slots.
WriterInv ==
  /\ wpc # "abort"
  /\ wTotal <= Len(wbuf)
  /\ wpc = "pos" => wop # "one"
  /\ wpc = "refused" => wop = "one"
  /\ wop = "one" /\ wpc # "idle" => wAmt = 1 /\ wTotal = 0 /\ Len(wbuf) = 1
  /\ wpc \in {"copy", "adv", "store", "refused"} =>
       /\ wTotal + wAmt <= Len(wbuf)
       /\ wCopied <= wAmt
       /\ writeHead + wAmt <= NumElem
       /\ wop # "one" => wAmt <= Free
  /\ wpc = "store" =>
       /\ wAmt > 0 /\ wAmt <= Free
       /\ wNew = AdvanceByN(writeHead, wAmt)

\* What the reader knows: its block ends before the end of the ring and is
\* published.
ReaderInv ==
  /\ rpc # "abort"
  /\ rTotal <= rWant
  /\ rTotal <= Len(rbuf)
  /\ rpc = "pos" => rop = "read" /\ Len(rbuf) = rTotal
  /\ rpc = "idle" => Len(rbuf) = rTotal
  /\ rop = "one" /\ rpc # "idle" => rAmt = 1 /\ rWant = 1 /\ rTotal = 0
  /\ rop = "clear" => rWant = 0
  /\ rpc \in {"copy", "done"} =>
       /\ rop # "clear"
       /\ Len(rbuf) <= rTotal + rAmt
       /\ rTotal + rAmt <= rWant
       /\ readTail + rAmt <= NumElem
       /\ rAmt <= Count
  /\ rpc = "done" => Len(rbuf) = rTotal + rAmt
  /\ rpc = "store" =>
       /\ Len(rbuf) = rTotal + rAmt
       /\ rTotal + rAmt <= rWant
       /\ rop = "clear" => rAmt = 0 /\ Distance(readTail, rNew) <= Count
       /\ rop # "clear" => /\ rAmt > 0 /\ rAmt <= Count
                           /\ readTail + rAmt <= NumElem
                           /\ rNew = AdvanceByN(readTail, rAmt)

Inv == TypeOK /\ WriterInv /\ ReaderInv

USE NumElemAssumption

-----------------------------------------------------------------------------
(* Arithmetic of positions.                                                *)

LEMMA DistanceBounds ==
  ASSUME NEW tail \in Slots, NEW head \in Slots
  PROVE  Distance(tail, head) \in Nat /\ Distance(tail, head) <= NumElem - 1
BY DEF Distance, Slots

LEMMA RoomBounds ==
  \A c \in Nat : c <= NumElem - 1 => NumElem - 1 - c \in Nat
OBVIOUS

\* The elements published fit in the ring with a slot to spare.
LEMMA CountBounds ==
  ASSUME TypeOK
  PROVE  Count \in Nat /\ Free \in Nat /\ Count <= NumElem - 1
<1>1. readTail \in Slots /\ writeHead \in Slots
  BY DEF TypeOK
<1>2. Count \in Nat /\ Count <= NumElem - 1
  BY <1>1, DistanceBounds DEF Count
<1> QED BY <1>2 DEF Free

\* RTCQWritePos: contig elements fit before the end of the ring and into
\* the free slots; there is none only when the queue is full.
LEMMA WriteContigFits ==
  ASSUME TypeOK
  PROVE  LET n == WriteContig(writeHead, readTail) IN
           n \in Nat /\ n <= Free /\ writeHead + n <= NumElem
BY DEF TypeOK, WriteContig, Count, Distance, Free, Slots

\* RTCQReadPos: contig elements end before the end of the ring and are
\* published.
LEMMA ReadContigFits ==
  ASSUME TypeOK
  PROVE  LET n == ReadContig(writeHead, readTail) IN
           n \in Nat /\ n <= Count /\ readTail + n <= NumElem
BY DEF TypeOK, ReadContig, Count, Distance, Slots

LEMMA LesserOf ==
  ASSUME NEW a \in Nat, NEW b \in Nat
  PROVE  Lesser(a, b) \in Nat /\ Lesser(a, b) <= a /\ Lesser(a, b) <= b
BY DEF Lesser

\* Advancing the head over n free slots publishes n more elements and does
\* not meet the tail.
LEMMA HeadAdvance ==
  ASSUME TypeOK, NEW n \in Nat, n > 0, n <= Free
  PROVE  LET new == AdvanceByN(writeHead, n) IN
           /\ new \in Slots
           /\ new # readTail
           /\ Distance(readTail, new) = Count + n
BY DEF TypeOK, AdvanceByN, Count, Distance, Free, Slots

\* Advancing the tail over n published elements leaves the others.
LEMMA TailAdvance ==
  ASSUME TypeOK, NEW n \in Nat, n > 0, n <= Count
  PROVE  LET new == AdvanceByN(readTail, n) IN
           /\ new \in Slots
           /\ Distance(new, writeHead) = Count - n
           /\ Distance(readTail, new) = n
BY DEF TypeOK, AdvanceByN, Count, Distance, Slots

LEMMA Lengths ==
  ASSUME TypeOK
  PROVE  Len(wbuf) \in Nat /\ Len(rbuf) \in Nat
BY DEF TypeOK

-----------------------------------------------------------------------------
(* Neither side disturbs what the other knows.                             *)

LEMMA CountBoundsNext ==
  ASSUME TypeOK'
  PROVE  Count' \in Nat /\ Free' \in Nat /\ Count' <= NumElem - 1
<1>1. readTail' \in Slots /\ writeHead' \in Slots
  BY DEF TypeOK
<1>2. Count' \in Nat /\ Count' <= NumElem - 1
  BY <1>1, DistanceBounds DEF Count
<1>3. Free' = NumElem - 1 - Count'
  BY DEF Free
<1>4. NumElem - 1 - Count' \in Nat
  BY <1>2, RoomBounds
<1> QED BY <1>2, <1>3, <1>4

LEMMA WriterUndisturbed ==
  ASSUME WriterInv, TypeOK, TypeOK', UNCHANGED <<writeHead, writer>>, Free <= Free'
  PROVE  WriterInv'
<1>1. Free \in Nat /\ Free' \in Nat /\ wAmt \in Nat
  BY CountBounds, CountBoundsNext DEF TypeOK
<1>2. /\ wpc' = wpc /\ wop' = wop /\ wbuf' = wbuf /\ wTotal' = wTotal /\ wAmt' = wAmt
      /\ wCopied' = wCopied /\ wNew' = wNew /\ writeHead' = writeHead
  BY DEF writer
<1>3. wAmt <= Free => wAmt <= Free'
  BY <1>1
<1> QED BY <1>2, <1>3 DEF WriterInv

LEMMA ReaderUndisturbed ==
  ASSUME ReaderInv, TypeOK, TypeOK', UNCHANGED <<readTail, reader>>, Count <= Count'
  PROVE  ReaderInv'
<1>1. Count \in Nat /\ Count' \in Nat /\ rAmt \in Nat
  BY CountBounds, CountBoundsNext DEF TypeOK
<1>2. /\ rpc' = rpc /\ rop' = rop /\ rWant' = rWant /\ rbuf' = rbuf /\ rTotal' = rTotal
      /\ rAmt' = rAmt /\ rNew' = rNew /\ readTail' = readTail
  BY DEF reader
<1>3. rAmt <= Count => rAmt <= Count'
  BY <1>1
<1>4. rpc = "store" /\ rop = "clear" =>
        (Distance(readTail, rNew) <= Count => Distance(readTail, rNew) <= Count')
  <2>1. Distance(readTail, rNew) \in Nat
    BY DistanceBounds DEF TypeOK
  <2> QED BY <1>1, <2>1
<1> QED BY <1>2, <1>3, <1>4 DEF ReaderInv

LEMMA ReaderIdleRing ==
  ASSUME ReaderInv, TypeOK, TypeOK', UNCHANGED <<writeHead, readTail, reader>>
  PROVE  ReaderInv'
<1>1. Count' = Count
  BY DEF Count
<1>2. Count \in Nat
  BY CountBounds
<1>3. Count <= Count'
  BY <1>1, <1>2
<1> QED BY <1>3, ReaderUndisturbed

LEMMA WriterIdleRing ==
  ASSUME WriterInv, TypeOK, TypeOK', UNCHANGED <<writeHead, readTail, writer>>
  PROVE  WriterInv'
<1>1. Free' = Free
  BY DEF Count, Free
<1>2. Free \in Nat
  BY CountBounds
<1>3. Free <= Free'
  BY <1>1, <1>2
<1> QED BY <1>3, WriterUndisturbed

-----------------------------------------------------------------------------
(* The steps.                                                              *)

LEMMA InitInv == Init => Inv
BY DEF Init, Inv, TypeOK, WriterInv, ReaderInv, Slots, Count, Free

\* The writer's steps preserve the invariant: publishing wAmt elements turns
\* free slots into published ones and takes none from the reader's block.
LEMMA WriterPreserves ==
  /\ Inv
  /\ \/ \E b \in Buffers : WriteCall(b) \/ BatchCall(b)
     \/ \E v \in Value : OneCall(v)
     \/ RetryOne \/ WriterSteps
  => Inv'
<1> USE DEF ring, writer, reader
<1>1. ASSUME Inv, NEW b \in Buffers, WriteCall(b) \/ BatchCall(b)  PROVE Inv'
  <2>1. b \in Seq(Value) /\ Len(b) \in Nat
    BY BuffersAssumption
  <2>2. TypeOK'
    BY <1>1, <2>1 DEF Inv, WriteCall, BatchCall, TypeOK
  <2>3. WriterInv'
    BY <1>1, <2>1 DEF Inv, WriteCall, BatchCall, WriterInv
  <2>4. UNCHANGED <<writeHead, readTail, reader>>
    BY <1>1 DEF WriteCall, BatchCall
  <2> QED BY <1>1, <2>2, <2>3, <2>4, ReaderIdleRing DEF Inv
<1>2. ASSUME Inv, NEW v \in Value, OneCall(v)  PROVE Inv'
  <2>1. TypeOK'
    BY <1>2 DEF Inv, OneCall, TypeOK
  <2>2. WriterInv'
    BY <1>2 DEF Inv, OneCall, WriterInv, TypeOK, Slots
  <2>3. UNCHANGED <<writeHead, readTail, reader>>
    BY <1>2 DEF OneCall
  <2> QED BY <1>2, <2>1, <2>2, <2>3, ReaderIdleRing DEF Inv
<1>3. ASSUME Inv, RetryOne  PROVE Inv'
  <2>1. TypeOK'
    BY <1>3 DEF Inv, RetryOne, TypeOK
  <2>2. WriterInv'
    BY <1>3 DEF Inv, RetryOne, WriterInv, Free, Count
  <2>3. UNCHANGED <<writeHead, readTail, reader>>
    BY <1>3 DEF RetryOne
  <2> QED BY <1>3, <2>1, <2>2, <2>3, ReaderIdleRing DEF Inv
<1>4. ASSUME Inv, WritePos  PROVE Inv'
  <2> DEFINE put == WriteContig(writeHead, readTail)
             amt == Lesser(put, Len(wbuf) - wTotal)
  <2>1. put \in Nat /\ put <= Free /\ writeHead + put <= NumElem
    BY <1>4, WriteContigFits DEF Inv
  <2>2. Len(wbuf) - wTotal \in Nat
    BY <1>4, Lengths DEF Inv, TypeOK, WriterInv
  <2>3. amt \in Nat /\ amt <= put /\ amt <= Len(wbuf) - wTotal
    BY <2>1, <2>2, LesserOf
  <2>4. /\ wAmt' = amt /\ wCopied' = 0 /\ wpc' \in {"idle", "copy"} /\ wop # "one"
        /\ UNCHANGED <<ring, wop, wbuf, wTotal, wNew, reader>>
    BY <1>4 DEF Inv, WriterInv, WritePos
  <2> HIDE DEF put, amt
  <2>5. TypeOK'
    BY <1>4, <2>3, <2>4 DEF Inv, TypeOK
  <2>6. Free' = Free /\ Free \in Nat
    BY <1>4, <2>4, CountBounds DEF Inv, Free, Count
  <2>7. WriterInv'
    BY <1>4, <2>1, <2>2, <2>3, <2>4, <2>6, Lengths DEF Inv, WriterInv, TypeOK, Slots
  <2> QED BY <1>4, <2>4, <2>5, <2>7, ReaderIdleRing DEF Inv
<1>5. ASSUME Inv, CopyIn  PROVE Inv'
  <2>1. wTotal + wCopied + 1 \in 1 .. Len(wbuf)
    BY <1>5, Lengths DEF Inv, TypeOK, WriterInv, CopyIn
  <2>a. wbuf[wTotal + wCopied + 1] \in Value
    BY <1>5, <2>1, ElementOfSeq DEF Inv, TypeOK
  <2>b. contents' \in [Slots -> Value \union {Zero}]
    BY <1>5, <2>a DEF Inv, CopyIn, TypeOK
  <2>2. TypeOK'
    BY <1>5, <2>b DEF Inv, CopyIn, TypeOK
  <2>3. WriterInv'
    BY <1>5 DEF Inv, CopyIn, WriterInv, TypeOK, Free, Count
  <2>4. UNCHANGED <<writeHead, readTail, reader>>
    BY <1>5 DEF CopyIn
  <2> QED BY <1>5, <2>2, <2>3, <2>4, ReaderIdleRing DEF Inv
<1>6. ASSUME Inv, CopiedIn  PROVE Inv'
  <2>1. TypeOK'
    BY <1>6 DEF Inv, CopiedIn, TypeOK
  <2>2. WriterInv'
    BY <1>6 DEF Inv, CopiedIn, WriterInv, Free, Count
  <2>3. UNCHANGED <<writeHead, readTail, reader>>
    BY <1>6 DEF CopiedIn
  <2> QED BY <1>6, <2>1, <2>2, <2>3, ReaderIdleRing DEF Inv
<1>7. ASSUME Inv, WriteAdvance  PROVE Inv'
  <2>1. /\ UNCHANGED <<writeHead, readTail, contents, wop, wbuf, wAmt, wCopied, reader>>
        /\ wpc = "adv"
    BY <1>7 DEF WriteAdvance
  <2>2. CASE wAmt = 0
    <3>1. wpc' \in {"pos", "idle"} /\ (wpc' = "pos" => wop # "one")
          /\ UNCHANGED <<wNew, wTotal>>
      BY <1>7, <2>2 DEF WriteAdvance, AfterAdvance
    <3>2. TypeOK'
      BY <1>7, <2>1, <3>1 DEF Inv, TypeOK
    <3>3. WriterInv'
      BY <1>7, <2>1, <2>2, <3>1 DEF Inv, WriterInv
    <3> QED BY <1>7, <2>1, <3>2, <3>3, ReaderIdleRing DEF Inv
  <2>3. CASE wAmt # 0
    <3>1. wAmt \in Nat /\ wAmt > 0 /\ AdvanceAsserts(writeHead, wAmt)
      BY <1>7, <2>1, <2>3 DEF Inv, TypeOK, WriterInv, AdvanceAsserts, Slots
    <3>2. CASE AdvanceByN(writeHead, wAmt) = readTail
      <4>1. wop = "one"
        BY <1>7, <2>1, <3>1, <3>2, HeadAdvance DEF Inv, WriterInv
      <4>2. wpc' = "refused" /\ UNCHANGED <<wNew, wTotal>>
        BY <1>7, <2>3, <3>1, <3>2, <4>1 DEF WriteAdvance
      <4>3. TypeOK'
        BY <1>7, <2>1, <4>2 DEF Inv, TypeOK
      <4>4. WriterInv'
        BY <1>7, <2>1, <4>1, <4>2 DEF Inv, WriterInv
      <4> QED BY <1>7, <2>1, <4>3, <4>4, ReaderIdleRing DEF Inv
    <3>3. CASE AdvanceByN(writeHead, wAmt) # readTail
      <4>1. wNew' = AdvanceByN(writeHead, wAmt) /\ wpc' = "store" /\ UNCHANGED wTotal
        BY <1>7, <2>3, <3>1, <3>3 DEF WriteAdvance
      <4>2. wAmt <= Free
        <5>1. CASE wop # "one"
          BY <1>7, <2>1, <5>1 DEF Inv, WriterInv
        <5>2. CASE wop = "one"
          <6>1. wAmt = 1
            BY <1>7, <2>1, <5>2 DEF Inv, WriterInv
          <6> QED BY <1>7, <3>3, <6>1 DEF Inv, TypeOK, AdvanceByN, Free, Count,
                                         Distance, Slots
        <5> QED BY <5>1, <5>2
      <4>3. AdvanceByN(writeHead, wAmt) \in Slots
        BY <1>7, <3>1, <4>2, HeadAdvance DEF Inv
      <4>4. TypeOK'
        BY <1>7, <2>1, <4>1, <4>3 DEF Inv, TypeOK
      <4>5. Free' = Free
        BY <2>1 DEF Free, Count, Distance
      <4>6. WriterInv'
        BY <1>7, <2>1, <3>1, <4>1, <4>2, <4>5 DEF Inv, WriterInv, AdvanceByN
      <4> QED BY <1>7, <2>1, <4>4, <4>6, ReaderIdleRing DEF Inv
    <3> QED BY <3>2, <3>3
  <2> QED BY <2>2, <2>3
<1>8. ASSUME Inv, WriteStore  PROVE Inv'
  <2>1. /\ UNCHANGED <<readTail, contents, wop, wbuf, wAmt, wCopied, wNew, reader>>
        /\ writeHead' = AdvanceByN(writeHead, wAmt) /\ wTotal' = wTotal + wAmt
        /\ wpc' \in {"pos", "idle"} /\ (wpc' = "pos" => wop # "one")
    BY <1>8 DEF Inv, WriterInv, WriteStore, AfterAdvance
  <2>2. wAmt \in Nat /\ wAmt > 0 /\ wAmt <= Free
    BY <1>8 DEF Inv, TypeOK, WriterInv, WriteStore
  <2>3. writeHead' \in Slots /\ Count' = Count + wAmt
    BY <1>8, <2>1, <2>2, HeadAdvance DEF Inv, Count
  <2>4. TypeOK'
    BY <1>8, <2>1, <2>3 DEF Inv, TypeOK
  <2>5. wTotal' <= Len(wbuf)
    BY <1>8, <2>1 DEF Inv, WriterInv, WriteStore
  <2>6. WriterInv'
    BY <1>8, <2>1, <2>5 DEF Inv, WriterInv
  <2>7. Count <= Count'
    BY <1>8, <2>2, <2>3, CountBounds DEF Inv
  <2> QED BY <1>8, <2>1, <2>4, <2>6, <2>7, ReaderUndisturbed DEF Inv
<1> QED BY <1>1, <1>2, <1>3, <1>4, <1>5, <1>6, <1>7, <1>8 DEF WriterSteps

\* Giving slots back, or clearing the queue, only adds to the room.
LEMMA ReadStoreFrees ==
  ASSUME Inv, ReadStore
  PROVE  Distance(readTail, rNew) <= Count /\ Free <= Free'
<1>1. UNCHANGED writeHead /\ readTail' = rNew
  BY DEF ReadStore
<1>2. Distance(readTail, rNew) <= Count
  <2>1. CASE rop = "clear"
    BY <2>1 DEF Inv, ReaderInv, ReadStore
  <2>2. CASE rop # "clear"
    <3>1. rAmt \in Nat /\ rAmt > 0 /\ rAmt <= Count /\ rNew = AdvanceByN(readTail, rAmt)
      BY <2>2 DEF Inv, TypeOK, ReaderInv, ReadStore
    <3> QED BY <3>1, TailAdvance DEF Inv
  <2> QED BY <2>1, <2>2
<1>3. Free <= Free'
  BY <1>1, <1>2 DEF Inv, TypeOK, Free, Count, Distance, Slots
<1> QED BY <1>2, <1>3

\* The reader's steps preserve the invariant: giving slots back only adds to
\* the room the writer counts on.
LEMMA ReaderPreserves ==
  /\ Inv
  /\ \/ \E n \in Wants : ReadCall(n)
     \/ PeekCall \/ ClearCall \/ ReaderSteps
  => Inv'
<1> USE DEF ring, writer, reader
<1>1. ASSUME Inv, NEW n \in Wants, ReadCall(n)  PROVE Inv'
  <2>1. TypeOK'
    BY <1>1, WantsAssumption DEF Inv, ReadCall, TypeOK
  <2>2. ReaderInv'
    BY <1>1, WantsAssumption DEF Inv, ReadCall, ReaderInv
  <2>3. UNCHANGED <<writeHead, readTail, writer>>
    BY <1>1 DEF ReadCall
  <2> QED BY <1>1, <2>1, <2>2, <2>3, WriterIdleRing DEF Inv
<1>2. ASSUME Inv, PeekCall  PROVE Inv'
  <2>1. TypeOK'
    BY <1>2 DEF Inv, PeekCall, TypeOK
  <2>2. readTail + 1 <= NumElem /\ Count >= 1 /\ Count' = Count
    BY <1>2 DEF Inv, PeekCall, TypeOK, Count, Distance, Slots
  <2>3. ReaderInv'
    BY <1>2, <2>2, CountBounds DEF Inv, PeekCall, ReaderInv
  <2>4. UNCHANGED <<writeHead, readTail, writer>>
    BY <1>2 DEF PeekCall
  <2> QED BY <1>2, <2>1, <2>3, <2>4, WriterIdleRing DEF Inv
<1>3. ASSUME Inv, ClearCall  PROVE Inv'
  <2>1. TypeOK'
    BY <1>3 DEF Inv, ClearCall, TypeOK
  <2>2. Distance(readTail', rNew') = Count /\ Count' = Count /\ Count \in Nat
    BY <1>3, CountBounds DEF Inv, ClearCall, Count
  <2>3. ReaderInv'
    BY <1>3, <2>2 DEF Inv, ClearCall, ReaderInv
  <2>4. UNCHANGED <<writeHead, readTail, writer>>
    BY <1>3 DEF ClearCall
  <2> QED BY <1>3, <2>1, <2>3, <2>4, WriterIdleRing DEF Inv
<1>4. ASSUME Inv, ReadPos  PROVE Inv'
  <2> DEFINE get == ReadContig(writeHead, readTail)
             amt == Lesser(get, rWant - rTotal)
  <2>1. get \in Nat /\ get <= Count /\ readTail + get <= NumElem
    BY <1>4, ReadContigFits DEF Inv
  <2>2. rWant - rTotal \in Nat
    BY <1>4 DEF Inv, TypeOK, ReaderInv
  <2>3. amt \in Nat /\ amt <= get /\ amt <= rWant - rTotal
    BY <2>1, <2>2, LesserOf
  <2>4. /\ rAmt' = amt /\ rpc' \in {"idle", "copy"} /\ rpc = "pos"
        /\ UNCHANGED <<ring, rop, rWant, rbuf, rTotal, rNew, writer>>
    BY <1>4 DEF ReadPos
  <2> HIDE DEF get, amt
  <2>5. TypeOK'
    BY <1>4, <2>3, <2>4 DEF Inv, TypeOK
  <2>6. Count' = Count /\ Count \in Nat
    BY <1>4, <2>4, CountBounds DEF Inv, Count
  <2>7. rop = "read" /\ Len(rbuf) = rTotal
    BY <1>4, <2>4 DEF Inv, ReaderInv
  <2>8. ReaderInv'
    BY <1>4, <2>1, <2>2, <2>3, <2>4, <2>6, <2>7 DEF Inv, ReaderInv, TypeOK, Slots
  <2> QED BY <1>4, <2>4, <2>5, <2>8, WriterIdleRing DEF Inv
<1>5. ASSUME Inv, CopyOut  PROVE Inv'
  <2>1. readTail + (Len(rbuf) - rTotal) \in Slots
    BY <1>5, Lengths DEF Inv, CopyOut, TypeOK, ReaderInv, Slots
  <2>2. /\ rbuf' \in Seq(Value \union {Zero})
        /\ Len(rbuf') = Len(rbuf) + 1
    BY <1>5, <2>1, AppendProperties DEF Inv, CopyOut, TypeOK
  <2>3. TypeOK'
    BY <1>5, <2>2 DEF Inv, CopyOut, TypeOK
  <2>4. Count' = Count /\ Count \in Nat
    BY <1>5, CountBounds DEF Inv, CopyOut, Count
  <2>5. ReaderInv'
    BY <1>5, <2>2, <2>4, Lengths DEF Inv, CopyOut, TypeOK, ReaderInv
  <2>6. UNCHANGED <<writeHead, readTail, writer>>
    BY <1>5 DEF CopyOut
  <2> QED BY <1>5, <2>3, <2>5, <2>6, WriterIdleRing DEF Inv
<1>6. ASSUME Inv, CopiedOut  PROVE Inv'
  <2>1. TypeOK'
    BY <1>6 DEF Inv, CopiedOut, TypeOK
  <2>2. Count' = Count /\ Count \in Nat
    BY <1>6, CountBounds DEF Inv, CopiedOut, Count
  <2>3. ReaderInv'
    BY <1>6, <2>2 DEF Inv, CopiedOut, ReaderInv
  <2>4. UNCHANGED <<writeHead, readTail, writer>>
    BY <1>6 DEF CopiedOut
  <2> QED BY <1>6, <2>1, <2>3, <2>4, WriterIdleRing DEF Inv
<1>7. ASSUME Inv, ReadDone  PROVE Inv'
  <2>1. /\ UNCHANGED <<ring, rop, rWant, rbuf, rTotal, rAmt, writer>>
        /\ rpc = "done" /\ Count' = Count /\ Count \in Nat
    BY <1>7, CountBounds DEF Inv, ReadDone, Count
  <2>2. CASE rAmt = 0
    <3>1. /\ UNCHANGED rNew /\ rTotal = Len(rbuf)
          /\ rpc' \in {"pos", "idle"} /\ (rpc' = "pos" => rTotal < rWant)
      BY <1>7, <2>1, <2>2, Lengths DEF Inv, TypeOK, ReaderInv, ReadDone, AfterDone
    <3>2. TypeOK'
      BY <1>7, <2>1, <3>1 DEF Inv, TypeOK
    <3>3. rop = "read"
      BY <1>7, <2>1, <2>2 DEF Inv, TypeOK, ReaderInv
    <3>4. ReaderInv'
      BY <1>7, <2>1, <3>1, <3>3 DEF Inv, ReaderInv
    <3> QED BY <1>7, <2>1, <3>2, <3>4, WriterIdleRing DEF Inv
  <2>3. CASE rAmt # 0
    <3>1. rAmt \in Nat /\ rAmt > 0 /\ rAmt <= Count /\ readTail + rAmt <= NumElem
      BY <1>7, <2>1, <2>3 DEF Inv, TypeOK, ReaderInv
    <3>2. DoneAsserts
      BY <1>7, <3>1 DEF Inv, TypeOK, DoneAsserts, AdvanceAsserts, AdvanceByN, Count,
                        Distance, Slots
    <3>3. rNew' = AdvanceByN(readTail, rAmt) /\ rpc' = "store"
      BY <1>7, <2>3, <3>2 DEF ReadDone
    <3>4. AdvanceByN(readTail, rAmt) \in Slots
      BY <1>7, <3>1, TailAdvance DEF Inv
    <3>5. TypeOK'
      BY <1>7, <2>1, <3>3, <3>4 DEF Inv, TypeOK
    <3>6. ReaderInv'
      BY <1>7, <2>1, <3>1, <3>3 DEF Inv, ReaderInv, AdvanceByN
    <3> QED BY <1>7, <2>1, <3>5, <3>6, WriterIdleRing DEF Inv
  <2> QED BY <2>2, <2>3
<1>8. ASSUME Inv, ReadStore  PROVE Inv'
  <2>1. /\ UNCHANGED <<writeHead, contents, rop, rWant, rbuf, rAmt, rNew, writer>>
        /\ readTail' = rNew /\ rTotal' = rTotal + rAmt
        /\ rpc' = AfterDone(rTotal')
    BY <1>8 DEF ReadStore
  <2>2. TypeOK'
    BY <1>8, <2>1 DEF Inv, TypeOK, AfterDone
  <2>4. Free <= Free'
    BY <1>8, ReadStoreFrees
  <2>5. rTotal' <= rWant /\ Len(rbuf) = rTotal'
    BY <1>8, <2>1 DEF Inv, TypeOK, ReaderInv, ReadStore
  <2>6. rpc' = "pos" => rop = "read"
    BY <1>8, <2>1, <2>5 DEF Inv, TypeOK, ReaderInv, ReadStore, AfterDone
  <2>7. ReaderInv'
    BY <1>8, <2>1, <2>5, <2>6, Lengths DEF Inv, TypeOK, ReaderInv, AfterDone
  <2> QED BY <1>8, <2>1, <2>2, <2>4, <2>7, WriterUndisturbed DEF Inv
<1> QED BY <1>1, <1>2, <1>3, <1>4, <1>5, <1>6, <1>7, <1>8 DEF ReaderSteps

\* The invariant holds in every reachable state.
THEOREM Invariance == Spec => []Inv
<1>1. Inv /\ [Next]_vars => Inv'
  <2> SUFFICES ASSUME Inv, [Next]_vars  PROVE Inv'
    OBVIOUS
  <2>1. CASE UNCHANGED vars
    BY <2>1 DEF Inv, TypeOK, WriterInv, ReaderInv, Count, Free, Distance, Slots,
                vars, ring, writer, reader
  <2>2. CASE Next
    BY <2>2, WriterPreserves, ReaderPreserves DEF Next
  <2> QED BY <2>1, <2>2
<1> QED BY <1>1, InitInv, PTL DEF Spec

-----------------------------------------------------------------------------

\* Type correctness of the queue (rtisan_circqueue.c) in every reachable state.
THEOREM TypeCorrect == Spec => []TypeOK
<1>1. Inv => TypeOK
  BY DEF Inv
<1> QED BY <1>1, Invariance, PTL

\* No assert of rtisan_circqueue.c ever fails, for any ring and any calls.
THEOREM AssertsHold == Spec => []NoAbort
<1>1. Inv => NoAbort
  BY DEF Inv, WriterInv, ReaderInv, NoAbort
<1> QED BY <1>1, Invariance, PTL

\* The promise of RTCQWritePos: the contig elements it returns can be
\* advanced over, so that RTCQWrite may ignore RTCQWriteAdvance's return.
THEOREM PromiseKept == Spec => []ContigHonoured
<1>1. Inv => ContigHonoured
  BY DEF Inv, TypeOK, WriterInv, ContigHonoured, AdvanceByN, Count, Free, Slots
<1> QED BY <1>1, Invariance, PTL

\* The two memcpys stay in the ring and never share a slot.
THEOREM NoSharedSlot == Spec => []SlotsDisjoint
<1>1. Inv => SlotsDisjoint
  <2> SUFFICES ASSUME Inv  PROVE SlotsDisjoint
    OBVIOUS
  <2>1. WriterSlots \subseteq Slots
    BY DEF Inv, TypeOK, WriterInv, WriterSlots, Slots
  <2>2. ReaderSlots \subseteq Slots
    BY DEF Inv, TypeOK, ReaderInv, ReaderSlots, Slots
  <2>3. ASSUME NEW s \in WriterSlots, s \in ReaderSlots  PROVE FALSE
    <3>1. /\ s \in Nat /\ writeHead \in Slots /\ readTail \in Slots
          /\ wAmt \in Nat /\ rAmt \in Nat /\ wCopied \in Nat
      BY <2>1 DEF Inv, TypeOK, Slots
    <3>2. wpc = "copy" /\ writeHead + wCopied <= s /\ s <= writeHead + wAmt - 1
      BY <3>1 DEF WriterSlots
    <3>3. /\ rpc \in {"copy", "done"}
          /\ readTail <= s /\ s <= readTail + rAmt - 1 /\ rAmt <= Count
      BY <2>3, <3>1 DEF ReaderSlots, Inv, ReaderInv
    <3>4. CASE wop = "one"
      BY <3>1, <3>2, <3>3, <3>4 DEF Inv, WriterInv, Count, Distance, Slots
    <3>5. CASE wop # "one"
      BY <3>1, <3>2, <3>3, <3>5 DEF Inv, WriterInv, Free, Count, Distance, Slots
    <3> QED BY <3>4, <3>5
  <2> QED BY <2>1, <2>2, <2>3 DEF SlotsDisjoint
<1> QED BY <1>1, Invariance, PTL

-----------------------------------------------------------------------------
(* Whole batches.                                                          *)

\* What RTCQWritePos's avail said stays true until the batch is in: nobody
\* but the writer takes room away.
BatchInv ==
  wop = "batch" =>
    /\ wpc \in {"pos", "copy", "adv", "store"} => Len(wbuf) - wTotal <= Free
    /\ wpc = "idle" => wTotal = Len(wbuf)

LEMMA AvailIsFree ==
  ASSUME TypeOK
  PROVE  /\ WriteAvail(writeHead, readTail) = Free
         /\ WriteContig(writeHead, readTail) = 0 => Free = 0
BY DEF TypeOK, WriteAvail, WriteContig, Free, Count, Distance, Slots

LEMMA BatchPreserved ==
  ASSUME Inv, Inv', BatchInv, [Next]_vars
  PROVE  BatchInv'
<1>0. /\ TypeOK /\ WriterInv /\ Free \in Nat /\ Free' \in Nat
      /\ wTotal \in Nat /\ wAmt \in Nat /\ Len(wbuf) \in Nat
      /\ wTotal <= Len(wbuf)
  BY CountBounds, CountBoundsNext, Lengths DEF Inv, TypeOK, WriterInv
<1>1. CASE UNCHANGED writer /\ Free <= Free'
  BY <1>0, <1>1 DEF BatchInv, writer
<1>2. CASE UNCHANGED <<writeHead, readTail>> /\ UNCHANGED writer
  <2>1. Free' = Free
    BY <1>2 DEF Free, Count
  <2> QED BY <1>0, <1>1, <1>2, <2>1
<1>3. ASSUME NEW b \in Buffers, WriteCall(b) \/ BatchCall(b) PROVE BatchInv'
  <2>1. CASE WriteCall(b)
    BY <2>1 DEF WriteCall, BatchInv
  <2>2. CASE BatchCall(b)
    <3>1. wbuf' = b /\ wTotal' = 0 /\ wpc' = "pos" /\ UNCHANGED <<writeHead, readTail>>
      BY <2>2 DEF BatchCall, ring
    <3>2. Len(b) <= Free /\ Len(b) \in Nat
      BY <1>0, <2>2, AvailIsFree, BuffersAssumption DEF BatchCall
    <3>3. Free' = Free
      BY <3>1 DEF Free, Count
    <3> QED BY <1>0, <3>1, <3>2, <3>3 DEF BatchInv
  <2> QED BY <1>3, <2>1, <2>2
<1>4. ASSUME NEW v \in Value, OneCall(v) PROVE BatchInv'
  BY <1>4 DEF OneCall, BatchInv
<1>5. CASE RetryOne
  BY <1>0, <1>5 DEF RetryOne, WriterInv, BatchInv
<1>6. CASE WritePos \/ CopyIn \/ CopiedIn \/ WriteAdvance
  <2>1. /\ UNCHANGED <<writeHead, readTail, wop, wbuf>>
    BY <1>6 DEF WritePos, CopyIn, CopiedIn, WriteAdvance, ring
  <2>2. Free' = Free
    BY <2>1 DEF Free, Count
  <2>3. CASE WritePos
    <3>1. wpc' = "idle" => Free = 0
      BY <1>0, <2>3, AvailIsFree DEF WritePos
    <3>2. wpc = "pos" /\ wpc' \in {"idle", "copy"} /\ wTotal' = wTotal
      BY <2>3 DEF WritePos
    <3> QED BY <1>0, <2>1, <2>2, <3>1, <3>2 DEF BatchInv
  <2>4. CASE CopyIn \/ CopiedIn
    BY <1>0, <2>1, <2>2, <2>4 DEF CopyIn, CopiedIn, BatchInv
  <2>5. CASE WriteAdvance
    <3>1. CASE wTotal' = wTotal /\ wpc' = AfterAdvance(wTotal)
      BY <1>0, <2>1, <2>2, <2>5, <3>1 DEF WriteAdvance, AfterAdvance, BatchInv
    <3>2. CASE wTotal' = wTotal /\ wpc' \in {"store", "abort", "refused"}
      BY <1>0, <2>1, <2>2, <2>5, <3>2 DEF WriteAdvance, BatchInv
    <3>3. CASE wAmt # 0 /\ AdvanceByN(writeHead, wAmt) = readTail /\ wop # "one"
      BY <1>0, <2>5, <3>3, HeadAdvance DEF WriteAdvance, WriterInv
    <3> QED BY <2>5, <3>1, <3>2, <3>3 DEF WriteAdvance
  <2> QED BY <1>6, <2>3, <2>4, <2>5
<1>7. CASE WriteStore
  <2>1. /\ UNCHANGED <<readTail, wop, wbuf>> /\ wTotal' = wTotal + wAmt
        /\ writeHead' = AdvanceByN(writeHead, wAmt) /\ wAmt > 0 /\ wAmt <= Free
        /\ wpc = "store" /\ wpc' = AfterAdvance(wTotal')
    BY <1>0, <1>7 DEF WriteStore, WriterInv
  <2>2. Free' = Free - wAmt
    <3>1. Count' = Count + wAmt
      BY <1>0, <2>1, HeadAdvance DEF Count
    <3>2. Count \in Nat
      BY <1>0, CountBounds
    <3> QED BY <1>0, <3>1, <3>2 DEF Free
  <2>3. wTotal' <= Len(wbuf)
    BY <1>0, <2>1 DEF WriterInv
  <2> QED BY <1>0, <2>1, <2>2, <2>3 DEF AfterAdvance, BatchInv
<1>8. CASE ReadStore
  BY <1>1, <1>8, ReadStoreFrees DEF ReadStore, writer
<1>9. ASSUME \/ \E n \in Wants : ReadCall(n)
             \/ PeekCall \/ ClearCall \/ ReadPos \/ CopyOut \/ CopiedOut \/ ReadDone
             \/ UNCHANGED vars
      PROVE  BatchInv'
  BY <1>2, <1>9 DEF ReadCall, PeekCall, ClearCall, ReadPos, CopyOut, CopiedOut, ReadDone, vars,
                    ring, writer
<1> QED BY <1>3, <1>4, <1>5, <1>6, <1>7, <1>8, <1>9 DEF Next, WriterSteps, ReaderSteps

\* AvailHonoured: RTSPIDoTransfers may rely on avail, however the ring wraps
\* and the reader moves.
THEOREM BatchTakenWhole == Spec => []AvailHonoured
<1>1. Init => BatchInv
  BY DEF Init, BatchInv
<1>2. BatchInv => AvailHonoured
  BY DEF BatchInv, AvailHonoured
<1> QED BY <1>1, <1>2, BatchPreserved, Invariance, PTL DEF Spec

-----------------------------------------------------------------------------
(***************************************************************************)
(* Refinement: the circular queue implements the queue of Fifo, for every  *)
(* ring size, every set of buffers and every interleaving of its two sides. *)
(*                                                                         *)
(* The stores of writeHead and readTail are the only steps that change the *)
(* abstract queue.  That they change it by the elements that were copied   *)
(* rests on the data invariant: what is copied stays as it was copied      *)
(* until the store, because neither side touches the other's slots.        *)
(***************************************************************************)

Elem == Value \union {Zero}

\* What the writer has copied into the ring and the reader out of it.
WData ==
  /\ wpc \in {"copy", "adv", "store", "refused"} =>
       \A k \in 1 .. wCopied : contents[writeHead + k - 1] = wbuf[wTotal + k]
  /\ wpc \in {"adv", "store", "refused"} => wCopied = wAmt

RData ==
  rpc \in {"copy", "done", "store"} /\ rop # "clear" =>
    \A k \in 1 .. Len(rbuf) - rTotal : rbuf[rTotal + k] = contents[readTail + k - 1]

DataInv == WData /\ RData

Left     == SubSeq(wbuf, wTotal + 1, Len(wbuf))
Received == SubSeq(rbuf, 1, rTotal)

-----------------------------------------------------------------------------
(* The published elements.                                                 *)

LEMMA PlaceType ==
  ASSUME TypeOK, NEW i \in 0 .. NumElem - 1
  PROVE  Place(readTail, i) \in Slots
BY DEF TypeOK, Place, Slots

LEMMA PublishedSeq ==
  ASSUME TypeOK
  PROVE  /\ Published \in Seq(Elem) /\ Len(Published) = Count
         /\ \A i \in 1 .. Count : Published[i] = contents[Place(readTail, i - 1)]
<1>1. Count \in Nat /\ Count <= NumElem - 1
  BY CountBounds
<1>2. \A i \in 1 .. Count : contents[Place(readTail, i - 1)] \in Elem
  <2> TAKE i \in 1 .. Count
  <2>1. i - 1 \in 0 .. NumElem - 1
    BY <1>1
  <2> QED BY <2>1, PlaceType DEF TypeOK, Elem
<1>3. Published \in [1 .. Count -> Elem]
  BY <1>2 DEF Published
<1>4. Published \in Seq(Elem)
  BY <1>1, <1>3
<1>5. Len(Published) = Count
  BY <1>1, <1>3
<1> QED BY <1>4, <1>5 DEF Published

LEMMA PublishedSeqNext == TypeOK' => (Published \in Seq(Elem) /\ Len(Published) = Count)'
<1>1. TypeOK => Published \in Seq(Elem) /\ Len(Published) = Count
  BY PublishedSeq
<1> QED BY <1>1, PTL

\* The slot the writer fills next holds no published element.
LEMMA WriteSlotFree ==
  ASSUME Inv, wpc = "copy", wCopied < wAmt, NEW i \in 0 .. Count - 1
  PROVE  Place(readTail, i) # writeHead + wCopied
<1>1. /\ writeHead \in Slots /\ readTail \in Slots /\ wAmt \in Nat /\ wCopied \in Nat
      /\ writeHead + wAmt <= NumElem
      /\ wop # "one" => wAmt <= Free
      /\ wop = "one" => wAmt = 1
  BY DEF Inv, TypeOK, WriterInv
<1>2. CASE wop = "one"
  BY <1>1, <1>2 DEF Place, Count, Distance, Slots
<1>3. CASE wop # "one"
  BY <1>1, <1>3 DEF Place, Free, Count, Distance, Slots
<1> QED BY <1>2, <1>3

\* The first free places are those from writeHead on.
LEMMA NextPlaces ==
  ASSUME TypeOK, NEW k \in Nat, k >= 1, writeHead + k <= NumElem
  PROVE  Place(readTail, Count + k - 1) = writeHead + k - 1
BY DEF TypeOK, Place, Count, Distance, Slots

\* From a later tail on the places are the same.
LEMMA LaterPlaces ==
  ASSUME TypeOK, NEW new \in Slots, NEW i \in Nat,
         Distance(readTail, new) + i < NumElem
  PROVE  Place(new, i) = Place(readTail, Distance(readTail, new) + i)
BY DEF TypeOK, Place, Distance, Slots

\* A part of a part.
LEMMA Rest ==
  ASSUME NEW S, NEW s \in Seq(S), NEW m \in 0 .. Len(s), NEW n \in 0 .. Len(s) - m
  PROVE  /\ SubSeq(s, m + 1, Len(s)) \in Seq(S)
         /\ Len(SubSeq(s, m + 1, Len(s))) = Len(s) - m
         /\ \A i \in 1 .. Len(s) - m : SubSeq(s, m + 1, Len(s))[i] = s[m + i]
         /\ SubSeq(s, m + n + 1, Len(s)) =
              SubSeq(SubSeq(s, m + 1, Len(s)), n + 1, Len(SubSeq(s, m + 1, Len(s))))
<1> DEFINE r == SubSeq(s, m + 1, Len(s))
           x == SubSeq(s, m + n + 1, Len(s))
           y == SubSeq(r, n + 1, Len(r))
<1>0. Len(s) \in Nat /\ \A i \in 1 .. Len(s) : s[i] \in S
  BY ElementOfSeq, LenProperties
<1>1. r \in Seq(S) /\ Len(r) = Len(s) - m /\ \A i \in 1 .. Len(s) - m : r[i] = s[m + i]
  <2>1. \A i \in m + 1 .. Len(s) : s[i] \in S
    BY <1>0
  <2>2. m + 1 \in Int /\ Len(s) \in Int
    BY <1>0
  <2>3. /\ r \in Seq(S)
        /\ Len(r) = IF m + 1 <= Len(s) THEN Len(s) - (m + 1) + 1 ELSE 0
        /\ \A i \in 1 .. Len(s) - (m + 1) + 1 : r[i] = s[m + 1 + i - 1]
    BY <2>1, <2>2, SubSeqProperties
  <2> QED BY <1>0, <2>3
<1>2. x \in Seq(S) /\ Len(x) = Len(s) - m - n /\ \A i \in 1 .. Len(s) - m - n : x[i] = s[m + n + i]
  <2>1. \A i \in m + n + 1 .. Len(s) : s[i] \in S
    BY <1>0
  <2>2. m + n + 1 \in Int /\ Len(s) \in Int
    BY <1>0
  <2>3. /\ x \in Seq(S)
        /\ Len(x) = IF m + n + 1 <= Len(s) THEN Len(s) - (m + n + 1) + 1 ELSE 0
        /\ \A i \in 1 .. Len(s) - (m + n + 1) + 1 : x[i] = s[m + n + 1 + i - 1]
    BY <2>1, <2>2, SubSeqProperties
  <2> QED BY <1>0, <2>3
<1> HIDE DEF r
<1>3. y \in Seq(S) /\ Len(y) = Len(s) - m - n /\ \A i \in 1 .. Len(s) - m - n : y[i] = r[n + i]
  <2>1. \A i \in n + 1 .. Len(r) : r[i] \in S
    BY <1>0, <1>1, ElementOfSeq
  <2>2. n + 1 \in Int /\ Len(r) \in Int
    BY <1>0, <1>1
  <2>3. /\ y \in Seq(S)
        /\ Len(y) = IF n + 1 <= Len(r) THEN Len(r) - (n + 1) + 1 ELSE 0
        /\ \A i \in 1 .. Len(r) - (n + 1) + 1 : y[i] = r[n + 1 + i - 1]
    BY <2>1, <2>2, SubSeqProperties
  <2> QED BY <1>0, <1>1, <2>3
<1> HIDE DEF x, y
<1>4. \A i \in 1 .. Len(x) : x[i] = y[i]
  <2> TAKE i \in 1 .. Len(x)
  <2>1. n + i \in 1 .. Len(s) - m /\ i \in 1 .. Len(s) - m - n /\ m + (n + i) = m + n + i
    BY <1>0, <1>2
  <2> QED BY <1>1, <1>2, <1>3, <2>1
<1>5. x = y
  BY <1>2, <1>3, <1>4, SeqEqual
<1> QED BY <1>1, <1>5 DEF r, x, y

-----------------------------------------------------------------------------
(* The data invariant.                                                     *)

\* A copied element keeps its slot while the writer copies another.
LEMMA CopyInData ==
  ASSUME Inv, Inv', DataInv, CopyIn
  PROVE  DataInv'
<1>1. /\ wpc = "copy" /\ wpc' = "copy" /\ wCopied < wAmt /\ wCopied' = wCopied + 1
      /\ contents' = [contents EXCEPT ![writeHead + wCopied] = wbuf[wTotal + wCopied + 1]]
      /\ UNCHANGED <<writeHead, readTail, wbuf, wTotal, wAmt, reader>>
  BY DEF CopyIn
<1>2. /\ contents \in [Slots -> Value \union {Zero}] /\ wCopied \in Nat /\ wAmt \in Nat
      /\ writeHead \in Slots /\ readTail \in Slots /\ wTotal \in Nat /\ rTotal \in Nat
      /\ writeHead + wAmt <= NumElem /\ Len(rbuf) \in Nat
  BY <1>1, Lengths DEF Inv, TypeOK, WriterInv
<1>3. writeHead + wCopied \in Slots
  BY <1>1, <1>2 DEF Slots
<1>4. ASSUME NEW k \in 1 .. wCopied'
      PROVE  contents'[writeHead' + k - 1] = wbuf'[wTotal' + k]
  <2>1. CASE k = wCopied + 1
    BY <1>1, <1>2, <1>3, <2>1
  <2>2. CASE k # wCopied + 1
    <3>1. k \in 1 .. wCopied /\ writeHead + k - 1 \in Slots /\ writeHead + k - 1 # writeHead + wCopied
      BY <1>1, <1>2, <1>4, <2>2 DEF Slots
    <3> QED BY <1>1, <1>2, <3>1 DEF DataInv, WData
  <2> QED BY <2>1, <2>2
<1>5. ASSUME rpc \in {"copy", "done", "store"}, rop # "clear", NEW k \in 1 .. Len(rbuf) - rTotal
      PROVE  rbuf[rTotal + k] = contents'[readTail + k - 1]
  <2>1. /\ Len(rbuf) <= rTotal + rAmt /\ readTail + rAmt <= NumElem /\ rAmt <= Count
        /\ rAmt \in Nat
    BY <1>5 DEF Inv, TypeOK, ReaderInv
  <2>2. k \in Nat /\ k >= 1 /\ k <= rAmt /\ Count \in Nat /\ Count <= NumElem - 1
    BY <1>2, <2>1, CountBounds DEF Inv
  <2>3. k - 1 \in 0 .. Count - 1 /\ Place(readTail, k - 1) = readTail + k - 1
    BY <1>2, <2>1, <2>2 DEF Place, Slots
  <2>4. readTail + k - 1 # writeHead + wCopied
    BY <1>1, <2>3, WriteSlotFree
  <2>5. readTail + k - 1 \in Slots
    BY <1>2, <2>1, <2>2 DEF Slots
  <2> QED BY <1>1, <1>2, <1>5, <2>4, <2>5 DEF DataInv, RData
<1> QED BY <1>1, <1>4, <1>5 DEF DataInv, WData, RData, reader

\* A copied element has the place in the reader's buffer that it had in the
\* ring.
LEMMA CopyOutData ==
  ASSUME Inv, Inv', DataInv, CopyOut
  PROVE  DataInv'
<1>1. /\ rpc = "copy" /\ Len(rbuf) < rTotal + rAmt
      /\ rbuf' = Append(rbuf, contents[readTail + (Len(rbuf) - rTotal)])
      /\ UNCHANGED <<ring, writer, rpc, rop, rTotal, rAmt>>
  BY DEF CopyOut
<1>2. /\ rbuf \in Seq(Value \union {Zero}) /\ Len(rbuf) \in Nat /\ rTotal \in Nat /\ rAmt \in Nat
      /\ readTail \in Slots /\ readTail + rAmt <= NumElem /\ rTotal <= Len(rbuf)
      /\ contents \in [Slots -> Value \union {Zero}]
  BY <1>1, Lengths DEF Inv, TypeOK, ReaderInv
<1>3. readTail + (Len(rbuf) - rTotal) \in Slots
  BY <1>1, <1>2 DEF Slots
<1>4. /\ Len(rbuf') = Len(rbuf) + 1
      /\ \A i \in 1 .. Len(rbuf) : rbuf'[i] = rbuf[i]
      /\ rbuf'[Len(rbuf) + 1] = contents[readTail + (Len(rbuf) - rTotal)]
  BY <1>1, <1>2, <1>3, AppendProperties
<1>5. ASSUME rop # "clear", NEW k \in 1 .. Len(rbuf') - rTotal
      PROVE  rbuf'[rTotal + k] = contents[readTail + k - 1]
  <2>1. CASE k = Len(rbuf) + 1 - rTotal
    <3>1. rTotal + k = Len(rbuf) + 1 /\ readTail + k - 1 = readTail + (Len(rbuf) - rTotal)
      BY <1>2, <2>1 DEF Slots
    <3> QED BY <1>4, <3>1
  <2>2. CASE k # Len(rbuf) + 1 - rTotal
    <3>1. k \in 1 .. Len(rbuf) - rTotal /\ rTotal + k \in 1 .. Len(rbuf)
      BY <1>2, <1>4, <2>2
    <3> QED BY <1>1, <1>4, <1>5, <3>1 DEF DataInv, RData
  <2> QED BY <2>1, <2>2
<1> QED BY <1>1, <1>5 DEF DataInv, WData, RData, ring, writer

LEMMA WriterData ==
  ASSUME Inv, Inv', DataInv,
         \/ \E b \in Buffers : WriteCall(b) \/ BatchCall(b)
         \/ \E v \in Value : OneCall(v)
         \/ RetryOne \/ WritePos \/ CopiedIn \/ WriteAdvance \/ WriteStore
  PROVE  DataInv'
<1>1. UNCHANGED <<readTail, contents, reader>>
  BY DEF WriteCall, BatchCall, OneCall, RetryOne, WritePos, CopiedIn, WriteAdvance, WriteStore, ring
<1>2. RData'
  BY <1>1 DEF RData, DataInv, reader
<1>3. CASE \/ \E b \in Buffers : WriteCall(b) \/ BatchCall(b)
           \/ \E v \in Value : OneCall(v)
           \/ WritePos \/ WriteStore
  <2>1. wpc' \in {"pos", "idle"} \/ (wpc' \in {"idle", "copy"} /\ wCopied' = 0)
    BY <1>3 DEF WriteCall, BatchCall, OneCall, WritePos, WriteStore, AfterAdvance
  <2>2. WData'
    BY <2>1 DEF WData
  <2> QED BY <1>2, <2>2 DEF DataInv
<1>4. CASE RetryOne \/ CopiedIn \/ WriteAdvance
  <2>1. /\ UNCHANGED <<writeHead, contents, wbuf, wCopied, wAmt>>
        /\ wpc \in {"refused", "copy", "adv"}
        /\ wpc = "copy" => wCopied = wAmt
    BY <1>4 DEF RetryOne, CopiedIn, WriteAdvance, ring
  <2>2. UNCHANGED wTotal \/ wpc' \in {"pos", "idle"}
    BY <1>4 DEF RetryOne, CopiedIn, WriteAdvance, AfterAdvance
  <2>3. wpc' # "copy"
    BY <1>4 DEF RetryOne, CopiedIn, WriteAdvance, AfterAdvance
  <2>4. WData'
    BY <2>1, <2>2, <2>3 DEF WData, DataInv
  <2> QED BY <1>2, <2>4 DEF DataInv
<1> QED BY <1>3, <1>4

LEMMA ReaderData ==
  ASSUME Inv, Inv', DataInv,
         \/ \E n \in Wants : ReadCall(n)
         \/ PeekCall \/ ClearCall \/ ReadPos \/ CopiedOut \/ ReadDone \/ ReadStore
  PROVE  DataInv'
<1>1. UNCHANGED <<writeHead, contents, writer>>
  BY DEF ReadCall, PeekCall, ClearCall, ReadPos, CopiedOut, ReadDone, ReadStore, ring
<1>2. WData'
  BY <1>1 DEF WData, DataInv, writer
<1>3. RData'
  <2>1. CASE (\E n \in Wants : ReadCall(n)) \/ ReadStore
    <3>1. rpc' \in {"pos", "idle"}
      BY <2>1 DEF ReadCall, ReadStore, AfterDone
    <3> QED BY <3>1 DEF RData
  <2>2. CASE PeekCall \/ ClearCall
    <3>1. rbuf' = <<>> /\ rTotal' = 0
      BY <2>2 DEF PeekCall, ClearCall
    <3> QED BY <3>1 DEF RData
  <2>3. CASE ReadPos
    <3>1. Len(rbuf) = rTotal /\ UNCHANGED <<rbuf, rTotal>> /\ rTotal \in Nat
      BY <2>3 DEF ReadPos, Inv, TypeOK, ReaderInv
    <3> QED BY <3>1 DEF RData
  <2>4. CASE CopiedOut \/ ReadDone
    <3>1. /\ UNCHANGED <<readTail, rop, rbuf, rTotal>> /\ rpc \in {"copy", "done"}
      BY <2>4 DEF CopiedOut, ReadDone, ring
    <3> QED BY <1>1, <3>1 DEF RData, DataInv
  <2> QED BY <2>1, <2>2, <2>3, <2>4
<1> QED BY <1>2, <1>3 DEF DataInv

LEMMA DataPreserved ==
  ASSUME Inv, Inv', DataInv, [Next]_vars
  PROVE  DataInv'
<1>1. CASE UNCHANGED vars
  BY <1>1 DEF vars, ring, writer, reader, DataInv, WData, RData
<1> QED BY <1>1, CopyInData, CopyOutData, WriterData, ReaderData
        DEF Next, WriterSteps, ReaderSteps

-----------------------------------------------------------------------------
(* Steps of the abstract queue.                                            *)

\* Copying into the ring does not touch what is published.
LEMMA CopyInHidden ==
  ASSUME Inv, Inv', CopyIn
  PROVE  Published' = Published
<1>1. /\ UNCHANGED <<writeHead, readTail>> /\ wpc = "copy" /\ wCopied < wAmt
      /\ contents' = [contents EXCEPT ![writeHead + wCopied] = wbuf[wTotal + wCopied + 1]]
  BY DEF CopyIn
<1>2. Count' = Count /\ Count \in Nat /\ Count <= NumElem - 1
  BY <1>1, CountBounds DEF Count, Inv
<1>3. ASSUME NEW i \in 1 .. Count
      PROVE  contents'[Place(readTail, i - 1)] = contents[Place(readTail, i - 1)]
  <2>1. i - 1 \in 0 .. Count - 1 /\ i - 1 \in 0 .. NumElem - 1
    BY <1>2
  <2>2. Place(readTail, i - 1) \in Slots /\ Place(readTail, i - 1) # writeHead + wCopied
    BY <1>1, <2>1, WriteSlotFree, PlaceType DEF Inv
  <2>3. contents \in [Slots -> Value \union {Zero}]
    BY DEF Inv, TypeOK
  <2> QED BY <1>1, <2>2, <2>3
<1>4. Place(readTail, 0)' = Place(readTail, 0) /\ \A j : Place(readTail, j)' = Place(readTail, j)
  BY <1>1 DEF Place
<1> QED BY <1>2, <1>3, <1>4 DEF Published

LEMMA LeftType ==
  ASSUME Inv
  PROVE  /\ Left \in Seq(Value) /\ Len(Left) = Len(wbuf) - wTotal
         /\ \A i \in 1 .. Len(wbuf) - wTotal : Left[i] = wbuf[wTotal + i]
<1>1. wbuf \in Seq(Value) /\ wTotal \in 0 .. Len(wbuf)
  BY Lengths DEF Inv, TypeOK, WriterInv
<1>2. 0 \in 0 .. Len(wbuf) - wTotal
  BY <1>1, LenProperties
<1> QED BY <1>1, <1>2, Rest DEF Left

\* The store of writeHead.
LEMMA PublishStep ==
  ASSUME Inv, Inv', DataInv, WriteStore
  PROVE  /\ wAmt \in 1 .. NumElem - 1 /\ Abstract!Enqueue(wAmt)
<1>1. /\ wpc = "store" /\ writeHead' = AdvanceByN(writeHead, wAmt) /\ wTotal' = wTotal + wAmt
      /\ UNCHANGED <<readTail, contents, wbuf, reader>>
  BY DEF WriteStore, Inv, WriterInv
<1>2. /\ wAmt \in Nat /\ wAmt > 0 /\ wAmt <= Free /\ wTotal \in Nat /\ wTotal + wAmt <= Len(wbuf)
      /\ Len(wbuf) \in Nat /\ writeHead + wAmt <= NumElem /\ writeHead \in Slots
      /\ wbuf \in Seq(Value) /\ wCopied = wAmt
  BY <1>1, Lengths DEF Inv, TypeOK, WriterInv, DataInv, WData
<1>3. Count \in Nat /\ Count' = Count + wAmt /\ Count + wAmt <= NumElem - 1
  <2>1. Count' = Count + wAmt
    BY <1>1, <1>2, HeadAdvance DEF Inv, Count
  <2>2. Count \in Nat
    BY CountBounds DEF Inv
  <2> QED BY <1>2, <2>1, <2>2 DEF Free
<1>4. /\ Published \in Seq(Elem) /\ Len(Published) = Count
      /\ \A i \in 1 .. Count : Published[i] = contents[Place(readTail, i - 1)]
  BY PublishedSeq DEF Inv
<1>5. /\ Published' \in Seq(Elem) /\ Len(Published') = Count'
      /\ \A i \in 1 .. Count' : Published'[i] = contents[Place(readTail, i - 1)]
  <2>1. /\ Published' \in Seq(Elem) /\ Len(Published') = Count'
    BY PublishedSeqNext DEF Inv
  <2>2. \A i \in 1 .. Count' : Published'[i] = contents[Place(readTail, i - 1)]
    BY <1>1, <1>3 DEF Published, Place
  <2> QED BY <2>1, <2>2
<1>6. Left \in Seq(Value) /\ Len(Left) = Len(wbuf) - wTotal
  BY LeftType
<1>7. /\ SubSeq(Left, 1, wAmt) \in Seq(Elem) /\ Len(SubSeq(Left, 1, wAmt)) = wAmt
      /\ \A i \in 1 .. wAmt : SubSeq(Left, 1, wAmt)[i] = wbuf[wTotal + i]
  <2>1. \A i \in 1 .. wAmt : Left[i] = wbuf[wTotal + i] /\ Left[i] \in Value
    <3>1. \A i \in 1 .. wAmt : i \in 1 .. Len(Left)
      BY <1>2, <1>6
    <3>2. \A i \in 1 .. wAmt : Left[i] = wbuf[wTotal + i]
      BY <3>1, LeftType
    <3>3. \A i \in 1 .. wAmt : Left[i] \in Value
      BY <3>1, <1>6, ElementOfSeq
    <3> QED BY <3>2, <3>3
  <2>2. \A i \in 1 .. wAmt : Left[i] \in Elem
    BY <2>1 DEF Elem
  <2>3. /\ SubSeq(Left, 1, wAmt) \in Seq(Elem)
        /\ Len(SubSeq(Left, 1, wAmt)) = IF 1 <= wAmt THEN wAmt - 1 + 1 ELSE 0
        /\ \A i \in 1 .. wAmt - 1 + 1 : SubSeq(Left, 1, wAmt)[i] = Left[1 + i - 1]
    BY <1>2, <2>2, SubSeqProperties
  <2> QED BY <1>2, <2>1, <2>3
<1>8. Published' = Published \o SubSeq(Left, 1, wAmt)
  <2> DEFINE new == SubSeq(Left, 1, wAmt)
             sum == Published \o new
  <2>1. /\ sum \in Seq(Elem) /\ Len(sum) = Count + wAmt
        /\ \A i \in 1 .. Count + wAmt : sum[i] = IF i <= Count THEN Published[i] ELSE new[i - Count]
    BY <1>4, <1>7, ConcatProperties
  <2> HIDE DEF new, sum
  <2>2. ASSUME NEW i \in 1 .. Count + wAmt PROVE Published'[i] = sum[i]
    <3>1. CASE i <= Count
      BY <1>3, <1>4, <1>5, <2>1, <3>1
    <3>2. CASE i > Count
      <4>1. i - Count \in 1 .. wAmt /\ Count + (i - Count) - 1 = i - 1
        BY <1>2, <1>3, <3>2
      <4>2. Place(readTail, i - 1) = writeHead + (i - Count) - 1
        <5>1. \A k \in 1 .. wAmt : Place(readTail, Count + k - 1) = writeHead + k - 1
          BY <1>2, NextPlaces DEF Inv, Slots
        <5> QED BY <4>1, <5>1
      <4>3. contents[writeHead + (i - Count) - 1] = wbuf[wTotal + (i - Count)]
        BY <1>1, <1>2, <4>1 DEF DataInv, WData
      <4>4. new[i - Count] = wbuf[wTotal + (i - Count)]
        BY <1>7, <4>1 DEF new
      <4> QED BY <1>3, <1>5, <2>1, <3>2, <4>2, <4>3, <4>4
    <3> QED BY <1>3, <3>1, <3>2
  <2>3. Published' = sum
    BY <1>3, <1>5, <2>1, <2>2, SeqEqual
  <2> QED BY <2>3 DEF sum, new
<1>9. Left' = SubSeq(Left, wAmt + 1, Len(Left))
  <2>1. wTotal \in 0 .. Len(wbuf) /\ wAmt \in 0 .. Len(wbuf) - wTotal
    BY <1>2
  <2>2. SubSeq(wbuf, wTotal + wAmt + 1, Len(wbuf)) = SubSeq(Left, wAmt + 1, Len(Left))
    BY <1>2, <2>1, Rest DEF Left
  <2> QED BY <1>1, <2>2 DEF Left
<1>10. Received' = Received
  BY <1>1 DEF reader, Received
<1>11. wAmt \in 1 .. NumElem - 1 /\ wAmt <= Len(Left) /\ Len(Published) + wAmt <= NumElem - 1
  BY <1>2, <1>3, <1>4, <1>6
<1> QED BY <1>8, <1>9, <1>10, <1>11 DEF Abstract!Enqueue, Left, Received

\* Where the store of readTail leaves what is published.
LEMMA TailStep ==
  ASSUME Inv, Inv', ReadStore
  PROVE  LET n == Distance(readTail, rNew) IN
           /\ n \in 0 .. Count
           /\ Published' = SubSeq(Published, n + 1, Len(Published))
<1> DEFINE n == Distance(readTail, rNew)
           rest == SubSeq(Published, n + 1, Len(Published))
<1>1. /\ readTail' = rNew /\ UNCHANGED <<writeHead, contents>>
  BY DEF ReadStore
<1>2. readTail \in Slots /\ writeHead \in Slots /\ rNew \in Slots
  BY DEF Inv, TypeOK
<1>3. Count \in Nat /\ Count <= NumElem - 1 /\ n \in 0 .. Count
  <2>1. n <= Count
    BY ReadStoreFrees
  <2>2. n \in Nat
    BY <1>2, DistanceBounds
  <2> QED BY <2>1, <2>2, CountBounds DEF Inv
<1>4. Count' = Count - n
  BY <1>1, <1>2, <1>3 DEF Count, Distance, Slots
<1>5. /\ Published \in Seq(Elem) /\ Len(Published) = Count
      /\ \A i \in 1 .. Count : Published[i] = contents[Place(readTail, i - 1)]
  BY PublishedSeq DEF Inv
<1>6. /\ Published' \in Seq(Elem) /\ Len(Published') = Count - n
      /\ \A i \in 1 .. Count - n : Published'[i] = contents[Place(rNew, i - 1)]
  <2>1. Published' \in Seq(Elem) /\ Len(Published') = Count'
    BY PublishedSeqNext DEF Inv
  <2>2. \A i \in 1 .. Count' : Published'[i] = contents[Place(rNew, i - 1)]
    BY <1>1 DEF Published, Place
  <2> QED BY <1>4, <2>1, <2>2
<1> HIDE DEF n
<1>7. /\ rest \in Seq(Elem) /\ Len(rest) = Count - n
      /\ \A i \in 1 .. Count - n : rest[i] = Published[n + i]
  <2>1. n \in 0 .. Len(Published) /\ 0 \in 0 .. Len(Published) - n
    BY <1>3, <1>5
  <2> QED BY <1>5, <2>1, Rest
<1>8. ASSUME NEW i \in 1 .. Count - n PROVE Published'[i] = rest[i]
  <2>1. i - 1 \in Nat /\ n + (i - 1) < NumElem /\ n + i \in 1 .. Count /\ (n + i) - 1 = n + (i - 1)
    BY <1>3
  <2>2. Place(rNew, i - 1) = Place(readTail, n + (i - 1))
    BY <1>2, <2>1, LaterPlaces DEF n, Inv
  <2> QED BY <1>5, <1>6, <1>7, <2>1, <2>2
<1> HIDE DEF rest
<1>9. Published' = rest
  BY <1>3, <1>6, <1>7, <1>8, SeqEqual
<1> QED BY <1>3, <1>9 DEF n, rest

\* The store of readTail: elements received, or dropped by RTCQClear.
LEMMA GiveBackStep ==
  ASSUME Inv, Inv', DataInv, ReadStore
  PROVE  \/ \E n \in 1 .. NumElem - 1 : Abstract!Dequeue(n) \/ Abstract!Discard(n)
         \/ UNCHANGED Abstract!vars
<1>1. /\ rpc = "store" /\ readTail' = rNew /\ rTotal' = rTotal + rAmt
      /\ UNCHANGED <<writeHead, contents, rbuf, writer>>
  BY DEF ReadStore
<1>2. /\ readTail \in Slots /\ rNew \in Slots /\ rTotal \in Nat /\ rAmt \in Nat
      /\ Len(rbuf) = rTotal + rAmt /\ rbuf \in Seq(Elem)
  BY <1>1 DEF Inv, TypeOK, ReaderInv, Elem
<1>3. Count \in Nat /\ Count <= NumElem - 1
  BY CountBounds DEF Inv
<1>4. Left' = Left
  BY <1>1 DEF Left, writer
<1>5. /\ Published \in Seq(Elem) /\ Len(Published) = Count
      /\ \A i \in 1 .. Count : Published[i] = contents[Place(readTail, i - 1)]
  BY PublishedSeq DEF Inv
<1>6. CASE rop = "clear"
  <2> DEFINE n == Distance(readTail, rNew)
  <2>1. Received' = Received
    <3>1. rTotal' = rTotal
      BY <1>1, <1>2, <1>6 DEF Inv, ReaderInv
    <3> QED BY <1>1, <3>1 DEF Received
  <2>2. CASE n = 0
    <3>1. rNew = readTail
      BY <1>2, <2>2 DEF Distance, Slots
    <3>2. Published' = Published
      BY <1>1, <3>1 DEF Published, Place, Count, Distance
    <3> QED BY <1>4, <2>1, <3>2 DEF Abstract!vars, Left, Received
  <2>3. CASE n # 0
    <3>1. n \in 0 .. Count /\ Published' = SubSeq(Published, n + 1, Len(Published))
      BY TailStep
    <3> HIDE DEF n
    <3>2. n \in 1 .. NumElem - 1 /\ n <= Len(Published)
      BY <1>3, <1>5, <2>3, <3>1
    <3>3. Abstract!Discard(n)
      BY <1>4, <2>1, <3>1, <3>2 DEF Abstract!Discard, Left, Received
    <3> QED BY <3>2, <3>3
  <2> QED BY <2>2, <2>3
<1>7. CASE rop # "clear"
  <2>1. /\ rAmt > 0 /\ rAmt <= Count /\ readTail + rAmt <= NumElem
        /\ rNew = AdvanceByN(readTail, rAmt)
    BY <1>1, <1>7 DEF Inv, ReaderInv
  <2>2. Distance(readTail, rNew) = rAmt
    BY <1>2, <1>3, <2>1 DEF Distance, AdvanceByN, Slots
  <2>3. Published' = SubSeq(Published, rAmt + 1, Len(Published))
    BY <2>2, TailStep
  <2> DEFINE taken == SubSeq(Published, 1, rAmt)
             sum   == Received \o taken
  <2>4. /\ taken \in Seq(Elem) /\ Len(taken) = rAmt
        /\ \A i \in 1 .. rAmt : taken[i] = contents[readTail + i - 1]
    <3>1. \A i \in 1 .. rAmt : Published[i] \in Elem /\ Published[i] = contents[readTail + i - 1]
      <4> TAKE i \in 1 .. rAmt
      <4>1. i \in 1 .. Count /\ Place(readTail, i - 1) = readTail + i - 1
        BY <1>2, <1>3, <2>1 DEF Place, Slots
      <4> QED BY <1>5, <4>1, ElementOfSeq
    <3>2. /\ taken \in Seq(Elem)
          /\ Len(taken) = IF 1 <= rAmt THEN rAmt - 1 + 1 ELSE 0
          /\ \A i \in 1 .. rAmt - 1 + 1 : taken[i] = Published[1 + i - 1]
      BY <1>2, <3>1, SubSeqProperties
    <3> QED BY <1>2, <2>1, <3>1, <3>2
  <2>5. /\ Received \in Seq(Elem) /\ Len(Received) = rTotal
        /\ \A i \in 1 .. rTotal : Received[i] = rbuf[i]
    <3>1. \A i \in 1 .. rTotal : rbuf[i] \in Elem
      BY <1>2, ElementOfSeq
    <3>2. /\ Received \in Seq(Elem)
          /\ Len(Received) = IF 1 <= rTotal THEN rTotal - 1 + 1 ELSE 0
          /\ \A i \in 1 .. rTotal - 1 + 1 : Received[i] = rbuf[1 + i - 1]
      BY <1>2, <3>1, SubSeqProperties DEF Received
    <3> QED BY <1>2, <3>2
  <2>6. /\ Received' \in Seq(Elem) /\ Len(Received') = rTotal + rAmt
        /\ \A i \in 1 .. rTotal + rAmt : Received'[i] = rbuf[i]
    <3>1. \A i \in 1 .. rTotal + rAmt : rbuf[i] \in Elem
      BY <1>2, ElementOfSeq
    <3>2. Received' = SubSeq(rbuf, 1, rTotal + rAmt)
      BY <1>1 DEF Received
    <3>3. /\ Received' \in Seq(Elem)
          /\ Len(Received') = IF 1 <= rTotal + rAmt THEN rTotal + rAmt - 1 + 1 ELSE 0
          /\ \A i \in 1 .. rTotal + rAmt - 1 + 1 : Received'[i] = rbuf[1 + i - 1]
      BY <1>2, <3>1, <3>2, SubSeqProperties
    <3> QED BY <1>2, <3>3
  <2>7. /\ sum \in Seq(Elem) /\ Len(sum) = rTotal + rAmt
        /\ \A i \in 1 .. rTotal + rAmt : sum[i] = IF i <= rTotal THEN Received[i] ELSE taken[i - rTotal]
    BY <2>4, <2>5, ConcatProperties
  <2> HIDE DEF taken, sum
  <2>8. ASSUME NEW i \in 1 .. rTotal + rAmt PROVE Received'[i] = sum[i]
    <3>1. CASE i <= rTotal
      BY <1>2, <2>5, <2>6, <2>7, <3>1
    <3>2. CASE i > rTotal
      <4>1. i - rTotal \in 1 .. rAmt /\ rTotal + (i - rTotal) = i
        BY <1>2, <3>2
      <4>2. rbuf[i] = contents[readTail + (i - rTotal) - 1]
        BY <1>1, <1>2, <1>7, <4>1 DEF DataInv, RData
      <4> QED BY <1>2, <2>4, <2>6, <2>7, <3>2, <4>1, <4>2
    <3> QED BY <1>2, <3>1, <3>2
  <2>9. Received' = sum
    BY <1>2, <2>6, <2>7, <2>8, SeqEqual
  <2>10. rAmt \in 1 .. NumElem - 1 /\ rAmt <= Len(Published)
    BY <1>2, <1>3, <1>5, <2>1
  <2>11. Abstract!Dequeue(rAmt)
    BY <1>4, <2>3, <2>9, <2>10 DEF Abstract!Dequeue, Left, Received, sum, taken
  <2> QED BY <2>10, <2>11
<1> QED BY <1>6, <1>7

\* Elements copied for the reader count only at the store.
LEMMA CopyOutHidden ==
  ASSUME Inv, CopyOut
  PROVE  Received' = Received
<1>1. /\ rbuf' = Append(rbuf, contents[readTail + (Len(rbuf) - rTotal)])
      /\ rTotal' = rTotal /\ Len(rbuf) < rTotal + rAmt /\ rpc = "copy"
  BY DEF CopyOut
<1>2. /\ rbuf \in Seq(Elem) /\ rTotal \in Nat /\ rTotal <= Len(rbuf) /\ Len(rbuf) \in Nat
      /\ rAmt \in Nat /\ readTail \in Slots /\ readTail + rAmt <= NumElem
      /\ contents \in [Slots -> Elem]
  BY <1>1, Lengths DEF Inv, TypeOK, ReaderInv, Elem
<1>3. readTail + (Len(rbuf) - rTotal) \in Slots
  BY <1>1, <1>2 DEF Slots
<1>4. /\ rbuf' \in Seq(Elem) /\ Len(rbuf') = Len(rbuf) + 1
      /\ \A i \in 1 .. Len(rbuf) : rbuf'[i] = rbuf[i]
  BY <1>1, <1>2, <1>3, AppendProperties
<1> DEFINE a == SubSeq(rbuf, 1, rTotal)
           b == SubSeq(rbuf', 1, rTotal)
<1>5. /\ a \in Seq(Elem) /\ Len(a) = IF 1 <= rTotal THEN rTotal - 1 + 1 ELSE 0
      /\ \A i \in 1 .. rTotal - 1 + 1 : a[i] = rbuf[1 + i - 1]
  <2>1. \A i \in 1 .. rTotal : rbuf[i] \in Elem
    BY <1>2, ElementOfSeq
  <2> QED BY <1>2, <2>1, SubSeqProperties
<1>6. /\ b \in Seq(Elem) /\ Len(b) = IF 1 <= rTotal THEN rTotal - 1 + 1 ELSE 0
      /\ \A i \in 1 .. rTotal - 1 + 1 : b[i] = rbuf'[1 + i - 1]
  <2>1. \A i \in 1 .. rTotal : rbuf'[i] \in Elem
    BY <1>2, <1>4, ElementOfSeq
  <2> QED BY <1>2, <2>1, SubSeqProperties
<1> HIDE DEF a, b
<1>7. \A i \in 1 .. Len(a) : a[i] = b[i]
  BY <1>2, <1>4, <1>5, <1>6
<1>8. a = b
  BY <1>5, <1>6, <1>7, SeqEqual
<1> QED BY <1>1, <1>8 DEF Received, a, b

-----------------------------------------------------------------------------

LEMMA AbstractInit == Init => Abstract!Init
<1> SUFFICES ASSUME Init PROVE Abstract!Init
  OBVIOUS
<1>1. Published = <<>>
  <2>1. Count = 0
    BY DEF Init, Count, Distance
  <2>2. TypeOK
    BY InitInv DEF Inv
  <2>3. Published \in Seq(Elem) /\ Len(Published) = 0
    BY <2>1, <2>2, PublishedSeq
  <2> QED BY <2>3, EmptySeq
<1>2. SubSeq(wbuf, wTotal + 1, Len(wbuf)) = <<>> /\ SubSeq(rbuf, 1, rTotal) = <<>>
  BY SubSeqEmpty DEF Init
<1> QED BY <1>1, <1>2 DEF Abstract!Init

LEMMA AbstractStep ==
  ASSUME Inv, Inv', DataInv, [Next]_vars
  PROVE  [Abstract!Next]_(Abstract!vars)
<1>1. CASE UNCHANGED <<Published, Left, Received>>
  BY <1>1 DEF Abstract!vars, Left, Received
<1>2. UNCHANGED <<writeHead, readTail, contents>> => Published' = Published
  BY DEF Published, Place, Count, Distance
<1>3. ASSUME NEW b \in Buffers, WriteCall(b) \/ BatchCall(b) PROVE Abstract!StartWrite
  <2>1. Left' \in Seq(Value) /\ UNCHANGED <<writeHead, readTail, contents, rbuf, rTotal>>
    <3>1. (Left \in Seq(Value))'
      <4>1. wbuf' \in Seq(Value) /\ wTotal' \in 0 .. Len(wbuf')
        BY <1>3, BuffersAssumption, LenProperties DEF WriteCall, BatchCall
      <4>2. 0 \in 0 .. Len(wbuf') - wTotal'
        BY <4>1, LenProperties
      <4> QED BY <4>1, <4>2, Rest DEF Left
    <3> QED BY <1>3, <3>1 DEF WriteCall, BatchCall, ring, reader
  <2> QED BY <1>2, <2>1 DEF Abstract!StartWrite, Left, Received
<1>4. ASSUME NEW v \in Value, OneCall(v) PROVE Abstract!StartWrite
  <2>1. Left' \in Seq(Value) /\ UNCHANGED <<writeHead, readTail, contents, rbuf, rTotal>>
    <3>1. wbuf' \in Seq(Value) /\ wTotal' \in 0 .. Len(wbuf')
      BY <1>4, LenProperties DEF OneCall
    <3>2. 0 \in 0 .. Len(wbuf') - wTotal'
      BY <3>1, LenProperties
    <3> QED BY <1>4, <3>1, <3>2, Rest DEF OneCall, Left, ring, reader
  <2> QED BY <1>2, <2>1 DEF Abstract!StartWrite, Left, Received
<1>5. ASSUME \/ \E n \in Wants : ReadCall(n)
             \/ PeekCall \/ ClearCall
      PROVE  Abstract!StartRead
  <2>1. /\ rbuf' = <<>> /\ rTotal' = 0
        /\ UNCHANGED <<writeHead, readTail, contents, wbuf, wTotal>>
    BY <1>5 DEF ReadCall, PeekCall, ClearCall, ring, writer
  <2>2. Received' = <<>>
    BY <2>1, SubSeqEmpty DEF Received
  <2> QED BY <1>2, <2>1, <2>2 DEF Abstract!StartRead, Left, Received
<1>6. CASE WriteStore
  BY <1>6, PublishStep DEF Abstract!Next
<1>7. CASE ReadStore
  BY <1>7, GiveBackStep DEF Abstract!Next
<1>8. CASE CopyIn
  BY <1>1, <1>8, CopyInHidden DEF CopyIn, reader, Left, Received
<1>9. CASE CopyOut
  BY <1>1, <1>2, <1>9, CopyOutHidden DEF CopyOut, ring, writer, Left
<1>10. CASE RetryOne \/ WritePos \/ CopiedIn \/ WriteAdvance
  <2>1. UNCHANGED <<writeHead, readTail, contents, wbuf, rbuf, rTotal>>
    BY <1>10 DEF RetryOne, WritePos, CopiedIn, WriteAdvance, ring, reader
  <2>2. UNCHANGED wTotal
    <3>1. CASE RetryOne \/ WritePos \/ CopiedIn
      BY <3>1 DEF RetryOne, WritePos, CopiedIn
    <3>2. CASE WriteAdvance
      <4>1. wpc = "adv" /\ wAmt \in Nat /\ (wop # "one" => wAmt <= Free)
        BY <3>2 DEF WriteAdvance, Inv, TypeOK, WriterInv
      <4>2. wAmt # 0 /\ wop # "one" => AdvanceByN(writeHead, wAmt) # readTail
        BY <4>1, HeadAdvance DEF Inv
      <4> QED BY <3>2, <4>2 DEF WriteAdvance
    <3> QED BY <1>10, <3>1, <3>2
  <2> QED BY <1>1, <1>2, <2>1, <2>2 DEF Left, Received
<1>11. CASE ReadPos \/ CopiedOut \/ ReadDone \/ UNCHANGED vars
  <2>1. UNCHANGED <<writeHead, readTail, contents, wbuf, wTotal, rbuf, rTotal>>
    BY <1>11 DEF ReadPos, CopiedOut, ReadDone, vars, ring, writer, reader
  <2> QED BY <1>1, <1>2, <2>1 DEF Left, Received
<1> QED BY <1>3, <1>4, <1>5, <1>6, <1>7, <1>8, <1>9, <1>10, <1>11
        DEF Next, WriterSteps, ReaderSteps, Abstract!Next

\* ImplementsFifo: rtisan_circqueue.c hands its reader the elements its
\* writer sent, in order, none lost or repeated, whatever the interleaving.
THEOREM Refinement == Spec => ImplementsFifo
<1>1. Init => DataInv
  BY DEF Init, DataInv, WData, RData
<1>2. Spec => [](Inv /\ DataInv)
  BY <1>1, Invariance, DataPreserved, PTL DEF Spec
<1>3. (Inv /\ DataInv) /\ (Inv /\ DataInv)' /\ [Next]_vars => [Abstract!Next]_(Abstract!vars)
  BY AbstractStep
<1> QED BY <1>2, <1>3, AbstractInit, PTL DEF Spec, ImplementsFifo, Abstract!Spec
=============================================================================
