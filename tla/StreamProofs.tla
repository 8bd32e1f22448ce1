----------------------------- MODULE StreamProofs -----------------------------
(***************************************************************************)
(* Streams, for any tasks, ring sizes and buffers, with either driver.     *)
(* The TCP stream on Linux's tasks: types, no wake is missed, and each     *)
(* direction is a FIFO that loses nothing, whatever read and write take,   *)
(* however threads interleave and connections break.  The USB serial       *)
(* interface: types, and each direction is a FIFO that loses nothing,      *)
(* whoever starts packets, with the packet memory intact.                  *)
(***************************************************************************)
EXTENDS TCP, CDC, SequenceTheorems, WellFoundedInduction, TLAPS

-----------------------------------------------------------------------------
(* Parts of sequences.                                                     *)

\* The first n elements and the others.
LEMMA Parts ==
  ASSUME NEW S, NEW s \in Seq(S), NEW n \in 0 .. Len(s)
  PROVE  /\ SubSeq(s, 1, n) \in Seq(S) /\ Len(SubSeq(s, 1, n)) = n
         /\ SubSeq(s, n + 1, Len(s)) \in Seq(S) /\ Len(SubSeq(s, n + 1, Len(s))) = Len(s) - n
         /\ SubSeq(s, 1, n) \o SubSeq(s, n + 1, Len(s)) = s
<1>1. Len(s) \in Nat /\ \A k \in 1 .. Len(s) : s[k] \in S
  BY ElementOfSeq, LenProperties
<1>2. SubSeq(s, 1, n) \in Seq(S) /\ Len(SubSeq(s, 1, n)) = n
  <2>1. \A k \in 1 .. n : s[k] \in S
    BY <1>1
  <2>2. /\ SubSeq(s, 1, n) \in Seq(S)
        /\ Len(SubSeq(s, 1, n)) = IF 1 <= n THEN n - 1 + 1 ELSE 0
    BY <1>1, <2>1, SubSeqProperties
  <2> QED BY <1>1, <2>2
<1>3. SubSeq(s, n + 1, Len(s)) \in Seq(S) /\ Len(SubSeq(s, n + 1, Len(s))) = Len(s) - n
  <2>1. \A k \in n + 1 .. Len(s) : s[k] \in S
    BY <1>1
  <2>2. n + 1 \in Int /\ Len(s) \in Int
    BY <1>1
  <2>3. /\ SubSeq(s, n + 1, Len(s)) \in Seq(S)
        /\ Len(SubSeq(s, n + 1, Len(s))) = IF n + 1 <= Len(s) THEN Len(s) - (n + 1) + 1 ELSE 0
    BY <2>1, <2>2, SubSeqProperties
  <2> QED BY <1>1, <2>3
<1>4. SubSeq(s, 1, n) \o SubSeq(s, n + 1, Len(s)) = SubSeq(s, 1, Len(s))
  <2>1. 1 \in 1 .. Len(s) + 1 /\ n \in 1 - 1 .. Len(s) /\ Len(s) \in n .. Len(s)
    BY <1>1
  <2> QED BY <2>1, ConcatAdjacentSubSeq
<1> QED BY <1>2, <1>3, <1>4, SubSeqFull

\* The parts of what was put together.
LEMMA Split ==
  ASSUME NEW S, NEW p \in Seq(S), NEW x \in Seq(S)
  PROVE  /\ SubSeq(p \o x, 1, Len(p)) = p
         /\ SubSeq(p \o x, Len(p) + 1, Len(p \o x)) = x
<1> DEFINE s == p \o x
           a == SubSeq(s, 1, Len(p))
           b == SubSeq(s, Len(p) + 1, Len(s))
<1>1. /\ s \in Seq(S) /\ Len(s) = Len(p) + Len(x)
      /\ \A k \in 1 .. Len(p) + Len(x) : s[k] = IF k <= Len(p) THEN p[k] ELSE x[k - Len(p)]
  BY ConcatProperties
<1>2. Len(p) \in Nat /\ Len(x) \in Nat
  BY LenProperties
<1> HIDE DEF s
<1>3. \A k \in 1 .. Len(s) : s[k] \in S
  BY <1>1, ElementOfSeq
<1>4. a \in Seq(S) /\ Len(a) = Len(p) /\ \A k \in 1 .. Len(p) : a[k] = s[k]
  <2>1. \A k \in 1 .. Len(p) : s[k] \in S
    BY <1>1, <1>2, <1>3
  <2>2. /\ a \in Seq(S) /\ Len(a) = IF 1 <= Len(p) THEN Len(p) - 1 + 1 ELSE 0
        /\ \A k \in 1 .. Len(p) - 1 + 1 : a[k] = s[1 + k - 1]
    BY <1>2, <2>1, SubSeqProperties
  <2> QED BY <1>2, <2>2
<1>5. b \in Seq(S) /\ Len(b) = Len(x) /\ \A k \in 1 .. Len(x) : b[k] = s[Len(p) + k]
  <2>1. \A k \in Len(p) + 1 .. Len(s) : s[k] \in S
    BY <1>2, <1>3
  <2>2. Len(p) + 1 \in Int /\ Len(s) \in Int
    BY <1>1, <1>2
  <2>3. /\ b \in Seq(S)
        /\ Len(b) = IF Len(p) + 1 <= Len(s) THEN Len(s) - (Len(p) + 1) + 1 ELSE 0
        /\ \A k \in 1 .. Len(s) - (Len(p) + 1) + 1 : b[k] = s[Len(p) + 1 + k - 1]
    BY <2>1, <2>2, SubSeqProperties
  <2> QED BY <1>1, <1>2, <2>3
<1> HIDE DEF a, b
<1>6. a = p
  <2>1. \A k \in 1 .. Len(a) : a[k] = p[k]
    BY <1>1, <1>2, <1>4
  <2> QED BY <1>4, <2>1, SeqEqual
<1>7. b = x
  <2>1. \A k \in 1 .. Len(b) : b[k] = x[k]
    <3> TAKE k \in 1 .. Len(b)
    <3>1. k \in 1 .. Len(x) /\ Len(p) + k \in 1 .. Len(p) + Len(x) /\ ~(Len(p) + k <= Len(p))
          /\ Len(p) + k - Len(p) = k
      BY <1>2, <1>5
    <3>2. b[k] = s[Len(p) + k]
      BY <1>5, <3>1
    <3>3. s[Len(p) + k] = x[Len(p) + k - Len(p)]
      BY <1>1, <3>1
    <3> QED BY <3>1, <3>2, <3>3
  <2> QED BY <1>5, <2>1, SeqEqual
<1> QED BY <1>6, <1>7 DEF a, b, s

\* Taking from the front, with more at the end.
LEMMA FrontOfSum ==
  ASSUME NEW S, NEW s \in Seq(S), NEW y \in Seq(S), NEW n \in 0 .. Len(s)
  PROVE  /\ SubSeq(s \o y, 1, n) = SubSeq(s, 1, n)
         /\ SubSeq(s \o y, n + 1, Len(s \o y)) = SubSeq(s, n + 1, Len(s)) \o y
<1> DEFINE p == SubSeq(s, 1, n)
           r == SubSeq(s, n + 1, Len(s))
<1>1. p \in Seq(S) /\ r \in Seq(S) /\ Len(p) = n /\ p \o r = s
  BY Parts
<1> HIDE DEF p, r
<1>2. s \o y = p \o (r \o y) /\ r \o y \in Seq(S)
  <2>0. p \o r = s
    BY <1>1
  <2>1. (p \o r) \o y = p \o (r \o y)
    <3>1. p \in Seq(S) /\ r \in Seq(S)
      BY <1>1
    <3> QED BY <3>1, ConcatAssociative
  <2>2. r \o y \in Seq(S)
    BY <1>1, ConcatProperties
  <2> QED BY <2>0, <2>1, <2>2, Zenon
<1>3. PICK z \in Seq(S) : z = r \o y
  BY <1>2
<1>4. /\ SubSeq(p \o z, 1, Len(p)) = p
      /\ SubSeq(p \o z, Len(p) + 1, Len(p \o z)) = z
  BY <1>1, Split
<1>5. s \o y = p \o z /\ Len(p) = n
  BY <1>1, <1>2, <1>3, Zenon
<1>6. /\ SubSeq(s \o y, 1, n) = p
      /\ SubSeq(s \o y, n + 1, Len(s \o y)) = z
  BY <1>4, <1>5, Zenon
<1> QED BY <1>3, <1>6, Zenon DEF p, r

-----------------------------------------------------------------------------
(* A queue that loses nothing.                                             *)

\* A step that leaves the queue, adds to it or gives to the reader discards
\* nothing.
LEMMA NoDiscard ==
  ASSUME NEW S, NEW q \in Seq(S), NEW o \in Seq(S), NEW x \in Seq(S), NEW q2, NEW o2,
         NEW n \in Nat \ {0}, n <= Len(q), q2 = SubSeq(q, n + 1, Len(q)), o2 = o,
         q2 = q \/ q2 = q \o x \/ (o2 = o \o x /\ x # <<>>)
  PROVE  FALSE
<1>1. Len(q) \in Nat /\ Len(x) \in Nat /\ Len(o) \in Nat
  BY LenProperties
<1>2. Len(q2) = Len(q) - n
  <2>1. n \in 0 .. Len(q)
    BY <1>1
  <2> QED BY <2>1, Parts
<1>3. CASE q2 = q
  BY <1>1, <1>2, <1>3
<1>4. CASE q2 = q \o x
  <2>1. Len(q2) = Len(q) + Len(x)
    BY <1>4, ConcatProperties
  <2> QED BY <1>1, <1>2, <2>1
<1>5. CASE o2 = o \o x /\ x # <<>>
  BY <1>5, ConcatEqualIffEmpty
<1> QED BY <1>3, <1>4, <1>5

\* A step of a queue of c places that loses nothing, with what its writer
\* still has, its elements and what its reader has got.
Moves(c, b, q, o, b2, q2, o2) ==
  \/ b2 \in Seq(Byte) /\ q2 = q /\ o2 = o
  \/ b2 = b /\ q2 = q /\ o2 = <<>>
  \/ \E n \in 1 .. c :
       /\ n <= Len(b) /\ Len(q) + n <= c
       /\ q2 = q \o SubSeq(b, 1, n) /\ b2 = SubSeq(b, n + 1, Len(b)) /\ o2 = o
  \/ \E n \in 1 .. c :
       /\ n <= Len(q)
       /\ o2 = o \o SubSeq(q, 1, n) /\ q2 = SubSeq(q, n + 1, Len(q)) /\ b2 = b

LEMMA MovesDiscardNothing ==
  ASSUME NEW c \in Nat, NEW b \in Seq(Byte), NEW q \in Seq(Byte), NEW o \in Seq(Byte),
         NEW b2, NEW q2, NEW o2, Moves(c, b, q, o, b2, q2, o2),
         NEW n \in 1 .. c, n <= Len(q), q2 = SubSeq(q, n + 1, Len(q)), b2 = b, o2 = o
  PROVE  FALSE
<1>0. n \in Nat \ {0} /\ <<>> \in Seq(Byte)
  BY EmptySeq
<1>1. CASE q2 = q
  BY <1>0, <1>1, NoDiscard
<1>2. ASSUME NEW m \in 1 .. c, m <= Len(b), q2 = q \o SubSeq(b, 1, m) PROVE FALSE
  <2>1. m \in 0 .. Len(b)
    BY <1>2, LenProperties
  <2>2. PICK x \in Seq(Byte) : x = SubSeq(b, 1, m)
    BY <2>1, Parts
  <2> QED BY <1>0, <1>2, <2>2, NoDiscard
<1>3. ASSUME NEW m \in 1 .. c, m <= Len(q), o2 = o \o SubSeq(q, 1, m) PROVE FALSE
  <2>1. m \in 0 .. Len(q) /\ m # 0
    BY <1>3, LenProperties
  <2>2. PICK x \in Seq(Byte) : x = SubSeq(q, 1, m) /\ Len(x) = m
    <3>1. SubSeq(q, 1, m) \in Seq(Byte) /\ Len(SubSeq(q, 1, m)) = m
      BY <2>1, Parts
    <3> QED BY <3>1
  <2>3. o \o x = o
    BY <1>3, <2>2
  <2>4. x = <<>>
    BY <2>2, <2>3, ConcatEqualIffEmpty
  <2> QED BY <2>1, <2>2, <2>4, EmptySeq
<1> QED BY <1>1, <1>2, <1>3 DEF Moves

-----------------------------------------------------------------------------
(* The stream's state.                                                     *)

LEMMA QueueLengths ==
  ASSUME StreamTypeOK
  PROVE  /\ Len(txCircQueue) \in 0 .. TxCapacity /\ Len(rxCircQueue) \in 0 .. RxCapacity
         /\ RxRoom \in Nat /\ TxRoom \in Nat
<1>1. /\ TxCapacity \in Nat /\ RxCapacity \in Nat
      /\ txCircQueue \in Seq(Byte) /\ Len(txCircQueue) <= TxCapacity
      /\ rxCircQueue \in Seq(Byte) /\ Len(rxCircQueue) <= RxCapacity
  BY StreamAssumption DEF StreamTypeOK
<1>2. Len(txCircQueue) \in Nat /\ Len(rxCircQueue) \in Nat
  BY <1>1, LenProperties
<1>3. Len(txCircQueue) \in 0 .. TxCapacity /\ Len(rxCircQueue) \in 0 .. RxCapacity
  BY <1>1, <1>2
<1>4. ASSUME NEW c \in Nat, NEW n \in 0 .. c PROVE c - n \in Nat
  OBVIOUS
<1> QED BY <1>1, <1>3, <1>4 DEF RxRoom, TxRoom

LEMMA QueueLengthsNext ==
  StreamTypeOK' => (Len(txCircQueue) \in Nat /\ Len(rxCircQueue) \in Nat)'
<1>1. StreamTypeOK => Len(txCircQueue) \in Nat /\ Len(rxCircQueue) \in Nat
  BY LenProperties DEF StreamTypeOK
<1> QED BY <1>1, PTL

\* What RTCQWrite does.
LEMMA PutTypes ==
  ASSUME StreamTypeOK, NEW t \in Task, Put(t)
  PROVE  StreamTypeOK' /\ Len(txCircQueue) <= Len(txCircQueue') /\ rxCircQueue' = rxCircQueue
<1>1. Len(txCircQueue) \in 0 .. TxCapacity
  BY QueueLengths
<1>2. CASE Goto(t, "move", "cb") /\ UNCHANGED <<txCircQueue, call>>
  <2>1. pc' = [pc EXCEPT ![t] = "cb"] /\ UNCHANGED <<stream, call, woken>>
    BY <1>2 DEF Put, Goto, stream
  <2>2. rxCircQueue' = rxCircQueue /\ txCircQueue' = txCircQueue
    BY <2>1 DEF stream
  <2>3. Len(txCircQueue) <= Len(txCircQueue) /\ Len(rxCircQueue) <= Len(rxCircQueue)
    BY QueueLengths
  <2>4. StreamTypeOK'
    BY <2>1 DEF StreamTypeOK, stream
  <2> QED BY <2>2, <2>3, <2>4
<1>3. CASE \E n \in 1 .. Len(call[t].buf) :
             /\ n <= TxRoom /\ UNCHANGED pc
             /\ txCircQueue' = txCircQueue \o SubSeq(call[t].buf, 1, n)
             /\ call' = [call EXCEPT ![t].buf = SubSeq(@, n + 1, Len(@))]
  <2>1. PICK n \in 1 .. Len(call[t].buf) :
          /\ n <= TxRoom /\ UNCHANGED pc
          /\ txCircQueue' = txCircQueue \o SubSeq(call[t].buf, 1, n)
          /\ call' = [call EXCEPT ![t].buf = SubSeq(@, n + 1, Len(@))]
    BY <1>3
  <2>2. call[t].buf \in Seq(Byte) /\ txCircQueue \in Seq(Byte)
    BY DEF StreamTypeOK
  <2>3. n \in 0 .. Len(call[t].buf) /\ n \in Nat
    BY <2>1, <2>2, LenProperties
  <2>4. /\ SubSeq(call[t].buf, 1, n) \in Seq(Byte) /\ Len(SubSeq(call[t].buf, 1, n)) = n
        /\ SubSeq(call[t].buf, n + 1, Len(call[t].buf)) \in Seq(Byte)
    BY <2>2, <2>3, Parts
  <2>5. txCircQueue' \in Seq(Byte) /\ Len(txCircQueue') = Len(txCircQueue) + n
    BY <2>1, <2>2, <2>4, ConcatProperties
  <2>6. Len(txCircQueue') <= TxCapacity /\ Len(txCircQueue) <= Len(txCircQueue')
    BY <1>1, <2>1, <2>3, <2>5, StreamAssumption DEF TxRoom
  <2>7. call' \in [Task -> [dir : Direction, buf : Seq(Byte), len : Nat,
                            block : BOOLEAN, all : BOOLEAN]]
    <3> DEFINE rest == SubSeq(call[t].buf, n + 1, Len(call[t].buf))
    <3>1. call' = [call EXCEPT ![t].buf = rest]
      BY <2>1
    <3> HIDE DEF rest
    <3>2. rest \in Seq(Byte)
      BY <2>4 DEF rest
    <3> QED BY <3>1, <3>2 DEF StreamTypeOK
  <2> QED BY <2>1, <2>5, <2>6, <2>7 DEF Put, StreamTypeOK
<1> QED BY <1>2, <1>3 DEF Put

\* What RTCQRead does.
LEMMA GetTypes ==
  ASSUME StreamTypeOK, NEW t \in Task, Get(t)
  PROVE  StreamTypeOK' /\ Len(rxCircQueue') <= Len(rxCircQueue) /\ txCircQueue' = txCircQueue
<1>1. Len(rxCircQueue) \in 0 .. RxCapacity
  BY QueueLengths
<1>2. CASE Goto(t, "move", "cb") /\ UNCHANGED <<rxCircQueue, call>>
  <2>1. pc' = [pc EXCEPT ![t] = "cb"] /\ UNCHANGED <<stream, call, woken>>
    BY <1>2 DEF Get, Goto, stream
  <2>2. rxCircQueue' = rxCircQueue /\ txCircQueue' = txCircQueue
    BY <2>1 DEF stream
  <2>3. Len(txCircQueue) <= Len(txCircQueue) /\ Len(rxCircQueue) <= Len(rxCircQueue)
    BY QueueLengths
  <2>4. StreamTypeOK'
    BY <2>1 DEF StreamTypeOK, stream
  <2> QED BY <2>2, <2>3, <2>4
<1>3. CASE \E n \in 1 .. Len(rxCircQueue) :
             /\ UNCHANGED pc
             /\ rxCircQueue' = SubSeq(rxCircQueue, n + 1, Len(rxCircQueue))
             /\ call' = [call EXCEPT ![t].buf = @ \o SubSeq(rxCircQueue, 1, n)]
  <2>1. PICK n \in 1 .. Len(rxCircQueue) :
          /\ UNCHANGED pc
          /\ rxCircQueue' = SubSeq(rxCircQueue, n + 1, Len(rxCircQueue))
          /\ call' = [call EXCEPT ![t].buf = @ \o SubSeq(rxCircQueue, 1, n)]
    BY <1>3
  <2>2. call[t].buf \in Seq(Byte) /\ rxCircQueue \in Seq(Byte)
    BY DEF StreamTypeOK
  <2>3. n \in 0 .. Len(rxCircQueue) /\ n \in Nat
    BY <1>1, <2>1
  <2>4. /\ SubSeq(rxCircQueue, 1, n) \in Seq(Byte)
        /\ rxCircQueue' \in Seq(Byte) /\ Len(rxCircQueue') = Len(rxCircQueue) - n
    BY <2>1, <2>2, <2>3, Parts
  <2>5. Len(rxCircQueue') <= RxCapacity /\ Len(rxCircQueue') <= Len(rxCircQueue)
    BY <1>1, <2>3, <2>4, StreamAssumption
  <2>6. call' \in [Task -> [dir : Direction, buf : Seq(Byte), len : Nat,
                            block : BOOLEAN, all : BOOLEAN]]
    <3> DEFINE more == call[t].buf \o SubSeq(rxCircQueue, 1, n)
    <3>1. call' = [call EXCEPT ![t].buf = more]
      BY <2>1
    <3>2. more \in Seq(Byte)
      BY <2>2, <2>4, ConcatProperties
    <3> HIDE DEF more
    <3> QED BY <3>1, <3>2 DEF StreamTypeOK
  <2> QED BY <2>1, <2>4, <2>5, <2>6 DEF Get, StreamTypeOK
<1> QED BY <1>2, <1>3 DEF Get

Calls == [dir : Direction, buf : Seq(Byte), len : Nat, block : BOOLEAN, all : BOOLEAN]

Begins(t, c) ==
  /\ call' = [call EXCEPT ![t] = c]
  /\ pc' = [pc EXCEPT ![t] = "lock"]
  /\ UNCHANGED <<stream, woken>>

LEMMA CallTypes ==
  ASSUME StreamTypeOK, NEW t \in Task,
         \/ \E buf \in Sends[t], block \in BOOLEAN : Send(t, buf, block)
         \/ \E len \in Lengths[t], block, all \in BOOLEAN : Receive(t, len, block, all)
  PROVE  StreamTypeOK' /\ UNCHANGED <<txCircQueue, rxCircQueue>>
<1>0. NoCall \in Calls
  BY EmptySeq DEF NoCall, Calls, Direction
<1>1. PICK c \in Calls : Begins(t, c)
  <2>1. ASSUME NEW buf \in Sends[t], NEW block \in BOOLEAN, Send(t, buf, block)
        PROVE  \E c \in Calls : Begins(t, c)
    <3>1. PICK c : c = [NoCall EXCEPT !.dir = "tx", !.buf = buf, !.block = block]
      OBVIOUS
    <3>2. c \in Calls
      <4>1. buf \in Seq(Byte)
        BY StreamAssumption
      <4> QED BY <1>0, <3>1, <4>1 DEF Calls, Direction
    <3>3. Begins(t, c)
      BY <2>1, <3>1 DEF Begins, Send, Goto
    <3> QED BY <3>2, <3>3
  <2>2. ASSUME NEW len \in Lengths[t], NEW block \in BOOLEAN, NEW all \in BOOLEAN,
               Receive(t, len, block, all)
        PROVE  \E c \in Calls : Begins(t, c)
    <3>1. PICK c : c = [NoCall EXCEPT !.len = len, !.block = block, !.all = all]
      OBVIOUS
    <3>2. c \in Calls
      <4>1. len \in Nat
        BY StreamAssumption
      <4> QED BY <1>0, <3>1, <4>1 DEF Calls, Direction
    <3>3. Begins(t, c)
      BY <2>2, <3>1 DEF Begins, Receive, Goto
    <3> QED BY <3>2, <3>3
  <2> QED BY <2>1, <2>2
<1>2. StreamTypeOK'
  BY <1>1 DEF Begins, Calls, StreamTypeOK, stream
<1> QED BY <1>1, <1>2 DEF Begins, stream

LEMMA StreamTypes ==
  ASSUME StreamTypeOK, NEW t \in Task,
         Lock(t) \/ Announce(t) \/ GetWakeCount(t) \/ CallBack(t) \/ Test(t) \/ Wait(t) \/ Unlock(t)
  PROVE  StreamTypeOK' /\ UNCHANGED <<txCircQueue, rxCircQueue>>
<1>0. UNCHANGED <<txCircQueue, rxCircQueue, hasCb>>
  BY DEF Lock, Announce, GetWakeCount, CallBack, Test, Wait, Unlock, stream
<1>1. Dir(t) \in Direction
  BY DEF StreamTypeOK, Dir
<1>2. CASE Lock(t)
  BY <1>1, <1>2 DEF Lock, Goto, StreamTypeOK
<1>3. CASE Announce(t)
  <2>1. waitingFor' \in [Direction -> Task \cup {None}]
    BY <1>1, <1>3 DEF Announce, StreamTypeOK
  <2>2. pc' = [pc EXCEPT ![t] = "count"] \/ pc' = [pc EXCEPT ![t] = "move"]
    BY <1>3 DEF Announce, Goto
  <2> QED BY <1>0, <1>3, <2>1, <2>2 DEF Announce, StreamTypeOK
<1>4. CASE GetWakeCount(t)
  BY <1>4 DEF GetWakeCount, Goto, StreamTypeOK, stream
<1>5. CASE CallBack(t)
  <2>1. pc' = [pc EXCEPT ![t] = "driver"] \/ pc' = [pc EXCEPT ![t] = "test"]
    BY <1>5 DEF CallBack, Goto
  <2> QED BY <1>0, <1>5, <2>1 DEF CallBack, StreamTypeOK, stream
<1>6. CASE Test(t)
  <2>1. waitingFor' \in [Direction -> Task \cup {None}]
    BY <1>1, <1>6 DEF Test, StreamTypeOK
  <2>2. pc' = [pc EXCEPT ![t] = "unlock"] \/ pc' = [pc EXCEPT ![t] = "wait"]
    BY <1>6 DEF Test
  <2>3. woken' \in [Task -> BOOLEAN]
    BY <1>6 DEF Test, StreamTypeOK
  <2> QED BY <1>0, <1>6, <2>1, <2>2, <2>3 DEF Test, StreamTypeOK
<1>7. CASE Wait(t)
  BY <1>7 DEF Wait, Goto, StreamTypeOK, stream
<1>8. CASE Unlock(t)
  <2>1. NoCall \in [dir : Direction, buf : Seq(Byte), len : Nat, block : BOOLEAN, all : BOOLEAN]
    BY EmptySeq DEF NoCall, Direction
  <2> QED BY <1>1, <1>8, <2>1 DEF Unlock, Goto, StreamTypeOK
<1> QED BY <1>0, <1>2, <1>3, <1>4, <1>5, <1>6, <1>7, <1>8

-----------------------------------------------------------------------------
(* Who holds the locks.                                                    *)

Inside(t) == pc[t] \notin {"idle", "lock"}

\* A call past its lock has it, and who has a lock is in such a call of that
\* direction; a receive that waits for the lock has received nothing yet.
Locks ==
  /\ \A t \in Task : /\ Inside(t) => lock[Dir(t)] = t
                     /\ pc[t] = "lock" /\ Dir(t) = "rx" => call[t].buf = <<>>
  /\ \A d \in Direction : lock[d] # None => Dir(lock[d]) = d /\ Inside(lock[d])

\* What a task's step does to the tasks' own state, other tasks' excepted.
Others(t) == \A u \in Task \ {t} : pc'[u] = pc[u] /\ call'[u] = call[u]

\* A task's step in the stream.
CallStep(t) ==
  \/ \E buf \in Sends[t], block \in BOOLEAN : Send(t, buf, block)
  \/ \E len \in Lengths[t], block, all \in BOOLEAN : Receive(t, len, block, all)
  \/ Lock(t) \/ Announce(t) \/ GetWakeCount(t) \/ Put(t) \/ Get(t) \/ CallBack(t)
  \/ Test(t) \/ Wait(t) \/ Unlock(t)

LEMMA OneTask ==
  ASSUME StreamTypeOK, NEW t \in Task, CallStep(t)
  PROVE  Others(t)
<1> SUFFICES ASSUME NEW u \in Task \ {t} PROVE pc'[u] = pc[u] /\ call'[u] = call[u]
  BY DEF Others
<1>1. pc'[u] = pc[u]
  BY DEF CallStep, Send, Receive, Lock, Announce, GetWakeCount, Put, Get, CallBack, Test, Wait, Unlock, Goto,
         StreamTypeOK
<1>2. UNCHANGED call \/ \E c : call' = [call EXCEPT ![t] = c]
  <2>1. CASE \/ \E buf \in Sends[t], block \in BOOLEAN : Send(t, buf, block)
             \/ \E len \in Lengths[t], block, all \in BOOLEAN : Receive(t, len, block, all)
             \/ Unlock(t)
    BY <2>1, Zenon DEF Send, Receive, Unlock
  <2>2. CASE Lock(t) \/ Announce(t) \/ GetWakeCount(t) \/ CallBack(t) \/ Test(t) \/ Wait(t)
    BY <2>2 DEF Lock, Announce, GetWakeCount, CallBack, Test, Wait
  <2>3. CASE Put(t) \/ Get(t)
    <3>1. UNCHANGED call \/ \E b : call' = [call EXCEPT ![t].buf = b]
      BY <2>3, Zenon DEF Put, Get
    <3>2. ASSUME NEW b, call' = [call EXCEPT ![t].buf = b]
          PROVE  call' = [call EXCEPT ![t] = [call[t] EXCEPT !.buf = b]]
      BY <3>2
    <3> QED BY <3>1, <3>2
  <2> QED BY <2>1, <2>2, <2>3 DEF CallStep
<1> QED BY <1>1, <1>2 DEF StreamTypeOK

\* Steps inside a call keep its lock and its direction.
LEMMA InsideStep ==
  ASSUME StreamTypeOK, NEW t \in Task,
         Announce(t) \/ GetWakeCount(t) \/ Put(t) \/ Get(t) \/ CallBack(t) \/ Test(t) \/ Wait(t)
  PROVE  Inside(t) /\ Inside(t)' /\ Dir(t)' = Dir(t) /\ lock' = lock
<1>1. /\ pc \in [Task -> {"idle", "lock", "loop", "count", "move", "cb", "driver", "pos",
                          "mark", "start", "test", "wait", "unlock"}]
      /\ call \in [Task -> [dir : Direction, buf : Seq(Byte), len : Nat,
                            block : BOOLEAN, all : BOOLEAN]]
  BY DEF StreamTypeOK
<1>2. Inside(t) /\ Inside(t)' /\ lock' = lock
  BY <1>1 DEF Announce, GetWakeCount, Put, Get, CallBack, Test, Wait, Goto, Inside, stream
<1>3. Dir(t)' = Dir(t)
  <2>1. UNCHANGED call \/ \E b : call' = [call EXCEPT ![t].buf = b]
    <3>1. CASE Put(t) \/ Get(t)
      BY <3>1, Zenon DEF Put, Get
    <3>2. CASE Announce(t) \/ GetWakeCount(t) \/ CallBack(t) \/ Test(t) \/ Wait(t)
      BY <3>2 DEF Announce, GetWakeCount, CallBack, Test, Wait
    <3> QED BY <3>1, <3>2
  <2> QED BY <1>1, <2>1 DEF Dir
<1> QED BY <1>2, <1>3

LEMMA TaskLocks ==
  ASSUME StreamTypeOK, Locks, NEW t \in Task, CallStep(t)
  PROVE  Locks'
<1>1. /\ pc \in [Task -> {"idle", "lock", "loop", "count", "move", "cb", "driver", "pos",
                          "mark", "start", "test", "wait", "unlock"}]
      /\ call \in [Task -> [dir : Direction, buf : Seq(Byte), len : Nat,
                            block : BOOLEAN, all : BOOLEAN]]
      /\ lock \in [Direction -> Task \cup {None}] /\ None \notin Task
  BY StreamAssumption DEF StreamTypeOK
<1>2. Others(t)
  BY OneTask
<1>3. \A u \in Task \ {t} : (Inside(u)' <=> Inside(u)) /\ Dir(u)' = Dir(u)
  BY <1>2 DEF Others, Inside, Dir
<1>4. CASE Announce(t) \/ GetWakeCount(t) \/ Put(t) \/ Get(t) \/ CallBack(t) \/ Test(t) \/ Wait(t)
  <2>1. Inside(t) /\ Inside(t)' /\ Dir(t)' = Dir(t) /\ lock' = lock
    BY <1>4, InsideStep
  <2>2. \A u \in Task : (Inside(u)' <=> Inside(u)) /\ Dir(u)' = Dir(u)
    BY <1>3, <2>1
  <2>3. \A u \in Task : (Inside(u) => lock[Dir(u)] = u)'
    BY <2>1, <2>2 DEF Locks
  <2>4. \A u \in Task : (pc[u] = "lock" /\ Dir(u) = "rx" => call[u].buf = <<>>)'
    <3> SUFFICES ASSUME NEW u \in Task, pc'[u] = "lock", Dir(u)' = "rx" PROVE call'[u].buf = <<>>
      OBVIOUS
    <3>1. u # t
      BY <2>1 DEF Inside
    <3> QED BY <1>2, <1>3, <3>1 DEF Others, Locks
  <2>5. \A d \in Direction : (lock[d] # None => Dir(lock[d]) = d /\ Inside(lock[d]))'
    <3> SUFFICES ASSUME NEW d \in Direction, lock[d] # None
                 PROVE  Dir(lock[d])' = d /\ Inside(lock[d])'
      BY <2>1
    <3>1. PICK u \in Task : u = lock[d]
      BY <1>1
    <3>2. Dir(u) = d /\ Inside(u)
      BY <3>1 DEF Locks
    <3>3. Dir(u)' = d /\ Inside(u)'
      BY <2>2, <3>2
    <3>4. u = lock'[d]
      BY <2>1, <3>1
    <3> QED BY <3>3, <3>4 DEF Dir, Inside
  <2> QED BY <2>3, <2>4, <2>5 DEF Locks
<1>5. CASE \/ \E buf \in Sends[t], block \in BOOLEAN : Send(t, buf, block)
           \/ \E len \in Lengths[t], block, all \in BOOLEAN : Receive(t, len, block, all)
  <2>1. pc[t] = "idle" /\ pc'[t] = "lock" /\ lock' = lock
    BY <1>1, <1>5 DEF Send, Receive, Goto, stream
  <2>2. Dir(t)' = "rx" => call'[t].buf = <<>>
    <3>1. CASE \E buf \in Sends[t], block \in BOOLEAN : Send(t, buf, block)
      <4>1. PICK buf \in Sends[t], block \in BOOLEAN : Send(t, buf, block)
        BY <3>1
      <4>2. call'[t] = [NoCall EXCEPT !.dir = "tx", !.buf = buf, !.block = block]
        BY <1>1, <4>1 DEF Send
      <4>3. call'[t].dir = "tx"
        BY <4>2 DEF NoCall
      <4> QED BY <4>3 DEF Dir
    <3>2. CASE \E len \in Lengths[t], block, all \in BOOLEAN : Receive(t, len, block, all)
      <4>1. PICK len \in Lengths[t], block \in BOOLEAN, all \in BOOLEAN : Receive(t, len, block, all)
        BY <3>2
      <4>2. call'[t] = [NoCall EXCEPT !.len = len, !.block = block, !.all = all]
        BY <1>1, <4>1 DEF Receive
      <4>3. call'[t].buf = <<>>
        BY <4>2 DEF NoCall
      <4> QED BY <4>3
    <3> QED BY <1>5, <3>1, <3>2
  <2>3. \A u \in Task : (Inside(u) => lock[Dir(u)] = u)'
    <3> SUFFICES ASSUME NEW u \in Task, Inside(u)' PROVE (lock[Dir(u)] = u)'
      OBVIOUS
    <3>1. u # t
      BY <2>1 DEF Inside
    <3>2. Inside(u) /\ Dir(u)' = Dir(u)
      BY <1>3, <3>1
    <3>3. lock[Dir(u)] = u
      BY <3>2 DEF Locks
    <3> QED BY <2>1, <3>2, <3>3
  <2>4. \A u \in Task : (pc[u] = "lock" /\ Dir(u) = "rx" => call[u].buf = <<>>)'
    <3> SUFFICES ASSUME NEW u \in Task, pc'[u] = "lock", Dir(u)' = "rx" PROVE call'[u].buf = <<>>
      OBVIOUS
    <3>1. CASE u = t
      BY <2>2, <3>1
    <3>2. CASE u # t
      BY <1>2, <1>3, <3>2 DEF Others, Locks
    <3> QED BY <3>1, <3>2
  <2>5. \A d \in Direction : (lock[d] # None => Dir(lock[d]) = d /\ Inside(lock[d]))'
    <3> SUFFICES ASSUME NEW d \in Direction, lock[d] # None
                 PROVE  Dir(lock[d])' = d /\ Inside(lock[d])'
      BY <2>1
    <3>1. PICK u \in Task : u = lock[d]
      BY <1>1
    <3>2. Dir(u) = d /\ Inside(u)
      BY <3>1 DEF Locks
    <3>3. u # t
      BY <2>1, <3>2 DEF Inside
    <3>4. Dir(u)' = d /\ Inside(u)'
      BY <1>3, <3>2, <3>3
    <3>5. u = lock'[d]
      BY <2>1, <3>1
    <3> QED BY <3>4, <3>5 DEF Dir, Inside
  <2> QED BY <2>3, <2>4, <2>5 DEF Locks
<1>6. CASE Lock(t)
  <2>1. PICK e \in Direction : e = Dir(t)
    BY <1>1 DEF Dir
  <2>2. /\ lock[e] = None /\ pc[t] = "lock" /\ pc'[t] = "loop" /\ call' = call
        /\ lock' = [lock EXCEPT ![e] = t]
    BY <1>1, <1>6, <2>1 DEF Lock, Goto
  <2>3. Dir(t)' = e /\ Inside(t)' /\ ~Inside(t)
    BY <2>1, <2>2 DEF Dir, Inside
  <2>4. \A u \in Task : (Inside(u) => lock[Dir(u)] = u)'
    <3> SUFFICES ASSUME NEW u \in Task, Inside(u)' PROVE (lock[Dir(u)] = u)'
      OBVIOUS
    <3>1. CASE u = t
      <4>1. lock'[e] = t
        BY <1>1, <2>2
      <4> QED BY <2>3, <3>1, <4>1
    <3>2. CASE u # t
      <4>1. PICK d \in Direction : d = Dir(u)
        BY <1>1 DEF Dir
      <4>2. lock[d] = u /\ Dir(u)' = d
        BY <1>3, <3>2, <4>1 DEF Locks
      <4>3. lock'[d] = u
        BY <1>1, <2>2, <4>2
      <4> QED BY <4>2, <4>3
    <3> QED BY <3>1, <3>2
  <2>5. \A u \in Task : (pc[u] = "lock" /\ Dir(u) = "rx" => call[u].buf = <<>>)'
    <3> SUFFICES ASSUME NEW u \in Task, pc'[u] = "lock", Dir(u)' = "rx" PROVE call'[u].buf = <<>>
      OBVIOUS
    <3>1. u # t
      BY <2>2
    <3> QED BY <1>2, <1>3, <3>1 DEF Others, Locks
  <2>6. \A d \in Direction : (lock[d] # None => Dir(lock[d]) = d /\ Inside(lock[d]))'
    <3> SUFFICES ASSUME NEW d \in Direction, lock'[d] # None
                 PROVE  Dir(lock[d])' = d /\ Inside(lock[d])'
      OBVIOUS
    <3>1. CASE d = e
      <4>1. t = lock'[d]
        BY <1>1, <2>2, <3>1
      <4> QED BY <2>3, <3>1, <4>1 DEF Dir, Inside
    <3>2. CASE d # e
      <4>1. lock'[d] = lock[d]
        BY <1>1, <2>2, <3>2
      <4>2. PICK u \in Task : u = lock[d]
        BY <1>1, <4>1
      <4>3. Dir(u) = d /\ Inside(u)
        BY <4>1, <4>2 DEF Locks
      <4>4. u # t
        BY <2>3, <4>3
      <4>5. Dir(u)' = d /\ Inside(u)'
        BY <1>3, <4>3, <4>4
      <4> QED BY <4>1, <4>2, <4>5 DEF Dir, Inside
    <3> QED BY <3>1, <3>2
  <2> QED BY <2>4, <2>5, <2>6 DEF Locks
<1>7. CASE Unlock(t)
  <2>1. PICK e \in Direction : e = Dir(t)
    BY <1>1 DEF Dir
  <2>2. /\ pc[t] = "unlock" /\ pc'[t] = "idle" /\ lock' = [lock EXCEPT ![e] = None]
    BY <1>1, <1>7, <2>1 DEF Unlock, Goto
  <2>3. lock[e] = t /\ ~Inside(t)'
    BY <2>1, <2>2 DEF Locks, Inside
  <2>4. \A u \in Task : (Inside(u) => lock[Dir(u)] = u)'
    <3> SUFFICES ASSUME NEW u \in Task, Inside(u)' PROVE (lock[Dir(u)] = u)'
      OBVIOUS
    <3>1. u # t
      BY <2>3
    <3>2. PICK d \in Direction : d = Dir(u)
      BY <1>1 DEF Dir
    <3>3. lock[d] = u /\ Dir(u)' = d
      BY <1>3, <3>1, <3>2 DEF Locks
    <3>4. lock'[d] = u
      BY <1>1, <2>2, <2>3, <3>1, <3>3
    <3> QED BY <3>3, <3>4
  <2>5. \A u \in Task : (pc[u] = "lock" /\ Dir(u) = "rx" => call[u].buf = <<>>)'
    <3> SUFFICES ASSUME NEW u \in Task, pc'[u] = "lock", Dir(u)' = "rx" PROVE call'[u].buf = <<>>
      OBVIOUS
    <3>1. u # t
      BY <2>2
    <3> QED BY <1>2, <1>3, <3>1 DEF Others, Locks
  <2>6. \A d \in Direction : (lock[d] # None => Dir(lock[d]) = d /\ Inside(lock[d]))'
    <3> SUFFICES ASSUME NEW d \in Direction, lock'[d] # None
                 PROVE  Dir(lock[d])' = d /\ Inside(lock[d])'
      OBVIOUS
    <3>1. d # e /\ lock'[d] = lock[d]
      BY <1>1, <2>2
    <3>2. PICK u \in Task : u = lock[d]
      BY <1>1, <3>1
    <3>3. Dir(u) = d /\ Inside(u)
      BY <3>1, <3>2 DEF Locks
    <3>4. u # t
      BY <2>1, <3>1, <3>3
    <3>5. Dir(u)' = d /\ Inside(u)'
      BY <1>3, <3>3, <3>4
    <3> QED BY <3>1, <3>2, <3>5 DEF Dir, Inside
  <2> QED BY <2>4, <2>5, <2>6 DEF Locks
<1> QED BY <1>4, <1>5, <1>6, <1>7 DEF CallStep

LEMMA SameLocks ==
  ASSUME Locks, UNCHANGED <<pc, call, lock>>
  PROVE  Locks'
BY DEF Locks, Inside, Dir

LEMMA InitLocks == StreamInit => Locks
BY DEF StreamInit, Locks, Inside, Dir, NoCall

\* What the lock's holder does not change stays the call's buffer.
LEMMA SameBuf ==
  ASSUME NEW d \in Direction, lock'[d] = lock[d],
         lock[d] # None => call'[lock[d]].buf = call[lock[d]].buf
  PROVE  Buf(d)' = Buf(d)
BY DEF Buf

LEMMA BufType ==
  ASSUME StreamTypeOK, NEW d \in Direction
  PROVE  Buf(d) \in Seq(Byte)
BY EmptySeq DEF StreamTypeOK, Buf

LEMMA BufTypeNext ==
  StreamTypeOK' => (Buf("tx") \in Seq(Byte))' /\ (Buf("rx") \in Seq(Byte))'
<1>1. StreamTypeOK => Buf("tx") \in Seq(Byte) /\ Buf("rx") \in Seq(Byte)
  BY BufType DEF Direction
<1> QED BY <1>1, PTL

\* Who holds the lock of a direction keeps its buffer in all steps but those
\* that move bytes.
LEMMA BufKept ==
  ASSUME StreamTypeOK, Locks, NEW t \in Task, CallStep(t), ~Lock(t), ~Unlock(t), ~Get(t)
  PROVE  Buf("rx")' = Buf("rx")
<1>1. Others(t)
  BY OneTask
<1>2. lock' = lock
  BY DEF CallStep, Send, Receive, Announce, GetWakeCount, Put, CallBack, Test, Wait, stream
<1>3. CASE lock["rx"] = None
  BY <1>2, <1>3 DEF Buf
<1>4. CASE lock["rx"] # None
  <2>1. PICK u \in Task : u = lock["rx"]
    BY <1>4 DEF StreamTypeOK, Direction
  <2>2. Dir(u) = "rx" /\ Inside(u)
    BY <1>4, <2>1 DEF Locks, Direction
  <2>3. call'[u] = call[u]
    <3>1. CASE u # t
      BY <1>1, <3>1 DEF Others
    <3>2. CASE u = t
      <4>1. ~Put(t) /\ pc[t] # "idle"
        BY <2>2, <3>2 DEF Put, Inside
      <4>2. call' = call
        BY <4>1 DEF CallStep, Send, Receive, Goto, Announce, GetWakeCount, CallBack, Test, Wait
      <4> QED BY <4>2
    <3> QED BY <3>1, <3>2
  <2>4. lock'["rx"] = u /\ u # None
    BY <1>2, <1>4, <2>1
  <2>5. Buf("rx")' = call'[u].buf /\ Buf("rx") = call[u].buf
    BY <2>1, <2>4 DEF Buf
  <2> QED BY <2>3, <2>5
<1> QED BY <1>3, <1>4

LEMMA LockedBuf ==
  ASSUME StreamTypeOK, Locks, NEW t \in Task, Lock(t)
  PROVE  Buf("rx")' = Buf("rx")
<1>1. /\ lock[Dir(t)] = None /\ pc[t] = "lock" /\ call' = call
      /\ lock' = [lock EXCEPT ![Dir(t)] = t] /\ Dir(t) \in Direction
      /\ lock \in [Direction -> Task \cup {None}] /\ t # None
  BY StreamAssumption DEF Lock, Goto, StreamTypeOK, Dir
<1>2. CASE Dir(t) = "rx"
  <2>1. call[t].buf = <<>>
    BY <1>1, <1>2 DEF Locks
  <2>2. lock'["rx"] = t /\ lock["rx"] = None
    BY <1>1, <1>2
  <2> QED BY <1>1, <2>1, <2>2 DEF Buf
<1>3. CASE Dir(t) # "rx"
  <2>1. lock'["rx"] = lock["rx"]
    BY <1>1, <1>3 DEF Direction
  <2> QED BY <1>1, <2>1 DEF Buf
<1> QED BY <1>2, <1>3

LEMMA UnlockedBuf ==
  ASSUME StreamTypeOK, Locks, NEW t \in Task, Unlock(t)
  PROVE  Buf("rx")' = Buf("rx") \/ Buf("rx")' = <<>>
<1>1. /\ pc[t] = "unlock" /\ call' = [call EXCEPT ![t] = NoCall]
      /\ lock' = [lock EXCEPT ![Dir(t)] = None] /\ Dir(t) \in Direction
      /\ lock \in [Direction -> Task \cup {None}]
  BY DEF Unlock, Goto, StreamTypeOK, Dir
<1>2. CASE Dir(t) = "rx"
  <2>1. lock'["rx"] = None
    BY <1>1, <1>2
  <2> QED BY <2>1 DEF Buf
<1>3. CASE Dir(t) # "rx"
  <2>1. lock'["rx"] = lock["rx"]
    BY <1>1, <1>3 DEF Direction
  <2>2. lock["rx"] # None => call'[lock["rx"]] = call[lock["rx"]]
    <3>1. lock["rx"] # None => lock["rx"] # t /\ lock["rx"] \in Task
      BY <1>1, <1>3 DEF Locks, Direction
    <3> QED BY <1>1, <3>1 DEF StreamTypeOK
  <2> QED BY <2>1, <2>2 DEF Buf
<1> QED BY <1>2, <1>3

\* RTCQWrite takes from the front of the buffer, RTCQRead from the ring's.
LEMMA PutMoves ==
  ASSUME StreamTypeOK, Locks, NEW t \in Task, Put(t), ~UNCHANGED txCircQueue
  PROVE  \E n \in 1 .. TxCapacity :
           /\ n <= Len(Buf("tx")) /\ Len(txCircQueue) + n <= TxCapacity
           /\ txCircQueue' = txCircQueue \o SubSeq(Buf("tx"), 1, n)
           /\ Buf("tx")' = SubSeq(Buf("tx"), n + 1, Len(Buf("tx")))
<1>1. PICK n \in 1 .. Len(call[t].buf) :
        /\ pc[t] = "move" /\ n <= TxRoom
        /\ txCircQueue' = txCircQueue \o SubSeq(call[t].buf, 1, n)
        /\ call' = [call EXCEPT ![t].buf = SubSeq(@, n + 1, Len(@))]
  BY DEF Put
<1>2. Dir(t) = "tx" /\ lock' = lock /\ lock["tx"] = t /\ t # None
  BY <1>1, StreamAssumption DEF Put, Locks, Inside
<1>3. PICK b \in Seq(Byte) : b = call[t].buf
  BY DEF StreamTypeOK
<1>4. Buf("tx") = b
  BY <1>2, <1>3 DEF Buf
<1>5. Buf("tx")' = SubSeq(b, n + 1, Len(b))
  <2>1. call'[t].buf = SubSeq(b, n + 1, Len(b))
    <3>1. call' = [call EXCEPT ![t].buf = SubSeq(b, n + 1, Len(b))]
      BY <1>1, <1>3
    <3> QED BY <3>1 DEF StreamTypeOK
  <2> QED BY <1>2, <2>1 DEF Buf
<1>6. /\ Len(txCircQueue) \in 0 .. TxCapacity /\ TxCapacity \in Nat /\ n \in Nat /\ n >= 1
      /\ n <= Len(b) /\ n <= TxCapacity - Len(txCircQueue)
  BY <1>1, <1>3, QueueLengths, StreamAssumption DEF TxRoom
<1>7. n \in 1 .. TxCapacity /\ Len(txCircQueue) + n <= TxCapacity
  BY <1>6
<1> QED BY <1>1, <1>3, <1>4, <1>5, <1>6, <1>7

LEMMA GetMoves ==
  ASSUME StreamTypeOK, Locks, NEW t \in Task, Get(t), ~UNCHANGED <<rxCircQueue, Buf("rx")>>
  PROVE  \E n \in 1 .. RxCapacity :
           /\ n <= Len(rxCircQueue)
           /\ Buf("rx")' = Buf("rx") \o SubSeq(rxCircQueue, 1, n)
           /\ rxCircQueue' = SubSeq(rxCircQueue, n + 1, Len(rxCircQueue))
<1>1. lock' = lock /\ Dir(t) = "rx" /\ pc[t] = "move" /\ t # None
  BY StreamAssumption DEF Get, Goto
<1>2. lock["rx"] = t
  BY <1>1 DEF Locks, Inside
<1>3. ~UNCHANGED <<rxCircQueue, call>>
  BY <1>1 DEF Buf
<1>4. PICK n \in 1 .. Len(rxCircQueue) :
        /\ rxCircQueue' = SubSeq(rxCircQueue, n + 1, Len(rxCircQueue))
        /\ call' = [call EXCEPT ![t].buf = @ \o SubSeq(rxCircQueue, 1, n)]
  BY <1>3 DEF Get
<1>5. Len(rxCircQueue) \in 0 .. RxCapacity /\ RxCapacity \in Nat
  BY QueueLengths, StreamAssumption
<1>6. n \in 1 .. RxCapacity /\ n <= Len(rxCircQueue)
  BY <1>5
<1>7. Buf("rx")' = Buf("rx") \o SubSeq(rxCircQueue, 1, n)
  <2> DEFINE more == call[t].buf \o SubSeq(rxCircQueue, 1, n)
  <2>1. call' = [call EXCEPT ![t].buf = more]
    BY <1>4
  <2> HIDE DEF more
  <2>2. call'[t].buf = more
    BY <2>1 DEF StreamTypeOK
  <2> QED BY <1>1, <1>2, <2>2 DEF Buf, more
<1> QED BY <1>4, <1>6, <1>7

-----------------------------------------------------------------------------
(* TCP: arithmetic of counters that wrap.                                  *)

LEMMA RemainderOfSum ==
  ASSUME NEW m \in Nat \ {0}, NEW a \in 0 .. 2 * m - 1
  PROVE  a % m = IF a < m THEN a ELSE a - m
<1> DEFINE q == a \div m
           r == a % m
<1>1. q \in Int /\ r \in 0 .. m - 1 /\ a = m * q + r
  OBVIOUS
<1> HIDE DEF q, r
<1>2. q >= 0
  <2>1. ASSUME q <= -1 PROVE FALSE
    <3>1. m * q <= m * (-1)
      BY <1>1, <2>1
    <3> QED BY <1>1, <3>1
  <2> QED BY <1>1, <2>1
<1>3. q <= 1
  <2>1. ASSUME q >= 2 PROVE FALSE
    <3>1. m * q >= m * 2
      BY <1>1, <2>1
    <3> QED BY <1>1, <3>1
  <2> QED BY <1>1, <2>1
<1>4. CASE q = 0
  BY <1>1, <1>4 DEF r
<1>5. CASE q = 1
  BY <1>1, <1>5 DEF r
<1> QED BY <1>1, <1>2, <1>3, <1>4, <1>5

\* threshold - count, and a count and one more.
LEMMA CounterSums ==
  ASSUME NEW x \in Counter, NEW c \in Counter
  PROVE  /\ Consider(x, c) = IF x < c THEN x + 2 * Half - c ELSE x - c
         /\ Plus(c, 1) = IF c = 2 * Half - 1 THEN 0 ELSE c + 1
<1>1. PICK m \in Nat \ {0, 1} : m = 2 * Half
  BY CounterAssumption
<1>2. x \in 0 .. m - 1 /\ c \in 0 .. m - 1
  BY <1>1 DEF Counter
<1>3. x + m - c \in 0 .. 2 * m - 1 /\ c + 1 \in 0 .. 2 * m - 1
  BY <1>1, <1>2
<1>4. \A a \in 0 .. 2 * m - 1 : a % m = IF a < m THEN a ELSE a - m
  BY <1>1, RemainderOfSum
<1>5. /\ (x + m - c) % m = IF x < c THEN x + m - c ELSE x - c
      /\ (c + 1) % m = IF c = m - 1 THEN 0 ELSE c + 1
  BY <1>1, <1>2, <1>3, <1>4
<1>6. Consider(x, c) = (x + m - c) % m /\ Plus(c, 1) = (c + 1) % m
  BY <1>1 DEF Consider, Plus
<1> QED BY <1>1, <1>5, <1>6

LEMMA CounterTypes ==
  ASSUME NEW x \in Counter, NEW c \in Counter
  PROVE  /\ Consider(x, c) \in Counter /\ Plus(c, 1) \in Counter
         /\ Consider(Plus(c, 1), c) = 1
<1>1. Half \in Nat \ {0, 1} /\ x \in 0 .. 2 * Half - 1 /\ c \in 0 .. 2 * Half - 1
  BY CounterAssumption DEF Counter
<1>2. /\ Consider(x, c) = IF x < c THEN x + 2 * Half - c ELSE x - c
      /\ Plus(c, 1) = IF c = 2 * Half - 1 THEN 0 ELSE c + 1
  BY CounterSums
<1>3. Consider(x, c) \in Counter /\ Plus(c, 1) \in Counter
  BY <1>1, <1>2 DEF Counter
<1>4. PICK y \in Counter : y = Plus(c, 1)
  BY <1>3
<1>5. Consider(y, c) = IF y < c THEN y + 2 * Half - c ELSE y - c
  BY CounterSums
<1>6. Consider(y, c) = 1
  BY <1>1, <1>2, <1>4, <1>5
<1> QED BY <1>3, <1>4, <1>6

LEMMA ModType ==
  ASSUME NEW m \in Nat \ {0}, NEW x \in Nat
  PROVE  x % m \in 0 .. m - 1
OBVIOUS

\* A wake moves the counter one step towards the threshold or past it.
LEMMA ConsiderPlus ==
  ASSUME NEW x \in Counter, NEW c \in Counter
  PROVE  /\ Consider(x, Plus(c, 1)) =
              IF Consider(x, c) = 0 THEN 2 * Half - 1 ELSE Consider(x, c) - 1
         /\ Consider(Plus(x, 1), c) =
              IF Consider(x, c) = 2 * Half - 1 THEN 0 ELSE Consider(x, c) + 1
<1>1. Half \in Nat \ {0, 1} /\ x \in 0 .. 2 * Half - 1 /\ c \in 0 .. 2 * Half - 1
  BY CounterAssumption DEF Counter
<1>2. Plus(c, 1) \in Counter /\ Plus(x, 1) \in Counter
  BY CounterTypes
<1>3. /\ Consider(x, c) = IF x < c THEN x + 2 * Half - c ELSE x - c
      /\ Consider(x, Plus(c, 1)) =
           IF x < Plus(c, 1) THEN x + 2 * Half - Plus(c, 1) ELSE x - Plus(c, 1)
      /\ Consider(Plus(x, 1), c) =
           IF Plus(x, 1) < c THEN Plus(x, 1) + 2 * Half - c ELSE Plus(x, 1) - c
      /\ Plus(c, 1) = IF c = 2 * Half - 1 THEN 0 ELSE c + 1
      /\ Plus(x, 1) = IF x = 2 * Half - 1 THEN 0 ELSE x + 1
  BY <1>2, CounterSums
<1> QED BY <1>1, <1>3

-----------------------------------------------------------------------------
(* Threads.                                                                *)

\* A thread in pthread_cond_wait is not awake: no wake is slept through.
BlockedAsleep == \A t \in blocked : ~IsWoke(t)

\* Ticks wake a thread only between Mark and Unmark.
Marks ==
  \A t \in Thread : /\ op[t] \in {"new", "listed", "run", "check", "mark"} => ~ticksCreateWakes[t]
                    /\ op[t] \in {"count", "unmark"} => ticksCreateWakes[t]

ThreadInv == ThreadsTypeOK /\ BlockedAsleep /\ Marks

LEMMA ThreadsStart == ThreadsInit => ThreadInv
<1> SUFFICES ASSUME ThreadsInit PROVE ThreadInv
  OBVIOUS
<1>1. Half \in Nat \ {0, 1} /\ TickHalf \in Nat /\ Half < TickHalf
  BY CounterAssumption
<1>2. 0 \in Counter /\ 0 \in Ticks /\ 2 * TickHalf - 1 \in Ticks
  BY <1>1 DEF Counter, Ticks
<1> QED BY <1>2 DEF ThreadsInit, ThreadInv, ThreadsTypeOK, OpType, BlockedAsleep, Marks

LEMMA CreateThread ==
  ASSUME ThreadInv, NEW t \in Thread, RTTaskCreate(t)
  PROVE  ThreadInv'
<1>1. ThreadsTypeOK'
  BY DEF RTTaskCreate, ListEntry, StartThread, Op, Set, ThreadInv, ThreadsTypeOK, OpType
<1>2. BlockedAsleep'
  BY DEF RTTaskCreate, ListEntry, StartThread, ThreadInv, BlockedAsleep, IsWoke
<1>3. Marks'
  BY DEF RTTaskCreate, ListEntry, StartThread, Op, Set, ThreadInv, ThreadsTypeOK, OpType, Marks
<1> QED BY <1>1, <1>2, <1>3 DEF ThreadInv

LEMMA WakeThread ==
  ASSUME ThreadInv, NEW t \in Thread, IncrementWakes(t), i' \in taskTable \cup {TASK_MAX},
         UNCHANGED <<taskTable, ticksCreateWakes, systick_cnt, op, completion, target>>
  PROVE  ThreadInv'
<1>1. wakes[t] \in Counter /\ thresh[t] \in Counter
  BY DEF ThreadInv, ThreadsTypeOK
<1>2. Plus(wakes[t], 1) \in Counter /\ Plus(thresh[t], 1) \in Counter
  BY <1>1, CounterTypes
<1>3. ThreadsTypeOK'
  BY <1>2 DEF IncrementWakes, Set, ThreadInv, ThreadsTypeOK, OpType
<1>4. \A u \in blocked' : u # t /\ u \in blocked /\ wakes'[u] = wakes[u] /\ thresh'[u] = thresh[u]
  BY DEF IncrementWakes, Set, ThreadInv, ThreadsTypeOK, OpType
<1>5. BlockedAsleep' /\ Marks'
  BY <1>4 DEF ThreadInv, BlockedAsleep, Marks, IsWoke
<1> QED BY <1>3, <1>5 DEF ThreadInv

LEMMA WaitThread ==
  ASSUME ThreadInv, NEW t \in Thread, NEW back \in {"run", "unmark"}, RTWait(t, back),
         ticksCreateWakes[t] <=> back = "unmark"
  PROVE  ThreadInv'
<1>1. /\ thresh' \in [Thread -> Counter] /\ op[t] \in {"wait", "cond"} /\ t \notin blocked
      /\ \A u \in Thread \ {t} : thresh'[u] = thresh[u]
  BY DEF RTWait, Set, ThreadInv, ThreadsTypeOK, OpType
<1>2. /\ op' \in [Thread -> OpType]
      /\ \A u \in Thread \ {t} : op'[u] = op[u]
      /\ op'[t] \in {back, "cond"}
      /\ \/ blocked' = blocked
         \/ blocked' = blocked \cup {t} /\ op'[t] = "cond"
  <2>1. \/ op' = [op EXCEPT ![t] = back] /\ blocked' = blocked
        \/ op' = [op EXCEPT ![t] = "cond"] /\ blocked' = blocked \cup {t}
    BY DEF RTWait, Set
  <2>2. op \in [Thread -> OpType]
    BY DEF ThreadInv, ThreadsTypeOK
  <2>3. CASE op' = [op EXCEPT ![t] = back] /\ blocked' = blocked
    BY <2>2, <2>3 DEF OpType
  <2>4. CASE op' = [op EXCEPT ![t] = "cond"] /\ blocked' = blocked \cup {t}
    BY <2>2, <2>4 DEF OpType
  <2> QED BY <2>1, <2>3, <2>4
<1>3. ThreadsTypeOK'
  BY <1>1, <1>2 DEF RTWait, ThreadInv, ThreadsTypeOK, OpType
<1>4. BlockedAsleep'
  <2> SUFFICES ASSUME NEW u \in blocked' PROVE ~IsWoke(u)'
    BY DEF BlockedAsleep
  <2>1. CASE u = t
    BY <1>1, <2>1 DEF RTWait, IsWoke
  <2>2. CASE u # t
    BY <1>1, <1>2, <2>2 DEF RTWait, ThreadInv, ThreadsTypeOK, OpType, BlockedAsleep, IsWoke
  <2> QED BY <2>1, <2>2
<1>5. Marks'
  BY <1>2 DEF RTWait, ThreadInv, Marks
<1> QED BY <1>3, <1>4, <1>5 DEF ThreadInv

LEMMA SpuriousThread ==
  ASSUME ThreadInv, NEW t \in Thread, SpuriousWake(t)
  PROVE  ThreadInv'
BY DEF SpuriousWake, ThreadInv, ThreadsTypeOK, BlockedAsleep, Marks, IsWoke

LEMMA SleepThread ==
  ASSUME ThreadInv, NEW t \in Thread, NEW n \in Nat, RTSleep(t, n)
  PROVE  ThreadInv'
<1>1. TickPlus(systick_cnt, n) \in Ticks
  <2>1. PICK m \in Nat \ {0} : m = 2 * TickHalf
    BY CounterAssumption
  <2>2. systick_cnt + n \in Nat
    BY DEF ThreadInv, ThreadsTypeOK, Ticks
  <2> QED BY <2>1, <2>2, ModType DEF TickPlus, Ticks
<1>2. ThreadsTypeOK'
  BY <1>1 DEF RTSleep, Op, Set, ThreadInv, ThreadsTypeOK, OpType
<1>3. BlockedAsleep'
  BY DEF RTSleep, ThreadInv, BlockedAsleep, IsWoke
<1>4. Marks'
  BY DEF RTSleep, Op, Set, ThreadInv, ThreadsTypeOK, OpType, Marks
<1> QED BY <1>2, <1>3, <1>4 DEF ThreadInv

LEMMA SleepStepThread ==
  ASSUME ThreadInv, NEW t \in Thread, SleepStep(t)
  PROVE  ThreadInv'
<1>1. CASE CheckRemain(t)
  <2>1. Half \in Nat \ {0, 1}
    BY CounterAssumption
  <2>2. target' \in [Thread -> Counter]
    <3>1. MAX_SLEEP_CHUNK \in Counter
      BY <2>1 DEF MAX_SLEEP_CHUNK, Counter
    <3>2. Remain(t) \in 1 .. TickHalf - 1 /\ ~(Remain(t) > MAX_SLEEP_CHUNK) => Remain(t) \in Counter
      BY <2>1 DEF MAX_SLEEP_CHUNK, Counter
    <3> QED BY <1>1, <3>1, <3>2 DEF CheckRemain, Set, ThreadInv, ThreadsTypeOK
  <2>3. /\ op[t] = "check" /\ (op' = [op EXCEPT ![t] = "mark"] \/ op' = [op EXCEPT ![t] = "run"])
        /\ UNCHANGED <<taskTable, wakes, thresh, ticksCreateWakes, systick_cnt, i, blocked, completion>>
    BY <1>1 DEF CheckRemain, Op, Set
  <2>4. ThreadsTypeOK'
    BY <2>2, <2>3 DEF ThreadInv, ThreadsTypeOK, OpType
  <2> QED BY <2>3, <2>4 DEF ThreadInv, ThreadsTypeOK, BlockedAsleep, Marks, IsWoke
<1>2. CASE Mark(t) \/ Unmark(t)
  BY <1>2 DEF Mark, Unmark, Op, Set, ThreadInv, ThreadsTypeOK, OpType, BlockedAsleep, Marks, IsWoke
<1>3. CASE TakeCount(t)
  <2>1. Plus(wakes[t], target[t]) \in Counter
    <3>1. PICK m \in Nat \ {0} : m = 2 * Half
      BY CounterAssumption
    <3>2. wakes[t] + target[t] \in Nat
      BY DEF ThreadInv, ThreadsTypeOK, Counter
    <3> QED BY <3>1, <3>2, ModType DEF Plus, Counter
  <2>2. ThreadsTypeOK'
    BY <1>3, <2>1 DEF TakeCount, Op, Set, ThreadInv, ThreadsTypeOK, OpType
  <2> QED BY <1>3, <2>2 DEF TakeCount, Op, Set, ThreadInv, ThreadsTypeOK, OpType, BlockedAsleep, Marks, IsWoke
<1>4. CASE Sleeping(t) /\ RTWait(t, "unmark")
  <2>1. ticksCreateWakes[t]
    BY <1>4 DEF Sleeping, RTWait
  <2> QED BY <1>4, <2>1, WaitThread
<1> QED BY <1>1, <1>2, <1>3, <1>4 DEF SleepStep

LEMMA LeastEntry ==
  ASSUME NEW T, T \subseteq Nat, T # {}
  PROVE  \E x \in T : \A y \in T : x <= y
<1> DEFINE R == OpToRel(<, Nat)
<1>1. PICK x \in T : \A y \in T : ~(<<y, x>> \in R)
  <2>1. IsWellFoundedOn(R, Nat)
    BY NatLessThanWellFounded, PTL
  <2> HIDE DEF R
  <2> QED BY <2>1, WFMin
<1>2. ASSUME NEW y \in T PROVE x <= y
  <2>1. x \in Nat /\ y \in Nat
    OBVIOUS
  <2>2. y < x => <<y, x>> \in R
    BY <2>1 DEF OpToRel
  <2> HIDE DEF R
  <2> QED BY <1>1, <2>1, <2>2
<1> QED BY <1>2

LEMMA NextTaskType ==
  ASSUME NEW n, taskTable \subseteq Thread
  PROVE  NextTask(n) \in taskTable \cup {TASK_MAX}
<1> DEFINE rest == {t \in taskTable : t >= n /\ t < TASK_MAX}
<1>1. CASE rest = {}
  BY <1>1 DEF NextTask
<1>2. CASE rest # {}
  <2>1. rest \subseteq Nat
    <3>1. rest \subseteq taskTable
      OBVIOUS
    <3> HIDE DEF rest
    <3> QED BY <3>1, ThreadAssumption
  <2>2. NextTask(n) = CHOOSE t \in rest : \A u \in rest : t <= u
    BY <1>2 DEF NextTask
  <2>3. rest \subseteq taskTable
    OBVIOUS
  <2> HIDE DEF rest
  <2> QED BY <1>2, <2>1, <2>2, <2>3, LeastEntry
<1> QED BY <1>1, <1>2

LEMMA TickThread ==
  ASSUME ThreadInv, TickCount \/ TickTask
  PROVE  ThreadInv'
<1>0. taskTable \subseteq Thread
  BY DEF ThreadInv, ThreadsTypeOK
<1>1. CASE TickCount
  <2>1. TickPlus(systick_cnt, 1) \in Ticks
    <3>1. PICK m \in Nat \ {0} : m = 2 * TickHalf
      BY CounterAssumption
    <3>2. systick_cnt + 1 \in Nat
      BY DEF ThreadInv, ThreadsTypeOK, Ticks
    <3> QED BY <3>1, <3>2, ModType DEF TickPlus, Ticks
  <2>2. i' \in taskTable \cup {TASK_MAX}
    BY <1>0, <1>1, NextTaskType DEF TickCount
  <2> QED BY <1>1, <2>1, <2>2 DEF TickCount, ThreadInv, ThreadsTypeOK, BlockedAsleep, Marks, IsWoke
<1>2. CASE TickTask
  <2>1. i' \in taskTable \cup {TASK_MAX}
    BY <1>0, <1>2, NextTaskType DEF TickTask
  <2>2. i \in Thread
    BY <1>0, <1>2, ThreadAssumption DEF TickTask, ThreadInv, ThreadsTypeOK
  <2>3. UNCHANGED <<taskTable, ticksCreateWakes, systick_cnt, op, completion, target>>
    BY <1>2 DEF TickTask
  <2>4. CASE ticksCreateWakes[i]
    <3>1. IncrementWakes(i)
      BY <1>2, <2>4 DEF TickTask
    <3>2. PICK t \in Thread : t = i
      BY <2>2
    <3> QED BY <2>1, <2>3, <3>1, <3>2, WakeThread
  <2>5. CASE ~ticksCreateWakes[i]
    <3>1. UNCHANGED <<wakes, thresh, blocked>>
      BY <1>2, <2>5 DEF TickTask
    <3> QED BY <2>1, <2>3, <3>1 DEF ThreadInv, ThreadsTypeOK, BlockedAsleep, Marks, IsWoke
  <2> QED BY <2>4, <2>5
<1> QED BY <1>1, <1>2

-----------------------------------------------------------------------------
(* Types, with what the driver's locals are bounded by and where a thread  *)
(* may be when it is in a call of the stream.                              *)

DriverTypeOK ==
  /\ at \in {"loop", "read", "rxdone", "wakerx", "rtwakerx", "txpos", "write", "txdone", "waketx",
             "rtwaketx", "end"}
  /\ active \in BOOLEAN /\ didSomething \in BOOLEAN
  /\ avail \in Nat /\ cnt \in Nat /\ waiting \in Task \cup {None}
  /\ read \in Seq(Byte) /\ toRead \in Seq(Byte) /\ written \in Seq(Byte)
  /\ peer \in {"away", "here", "gone"}

\* What the driver found in a ring is still there when it uses it.
Places ==
  /\ at = "read" => avail <= RxRoom
  /\ at = "rxdone" => Len(read) <= RxRoom
  /\ at # "rxdone" => read = <<>>
  /\ at = "write" => avail <= Len(txCircQueue)
  /\ at = "txdone" => cnt <= Len(txCircQueue)

\* A task in a call of the stream is in RTWait only at the stream's wait.
Modes ==
  \A t \in Task : /\ pc[t] # "idle" => op[t] \in {"run", "wait", "cond"} /\ ~ticksCreateWakes[t]
                  /\ pc[t] \notin {"idle", "wait"} => op[t] = "run"

Inv == StreamTypeOK /\ ThreadInv /\ DriverTypeOK /\ Places /\ Modes

LEMMA InvTypeOK == Inv => TypeOK
BY DEF Inv, ThreadInv, DriverTypeOK, TypeOK

LEMMA TaskIsThread == Task \subseteq Thread /\ TCPTask \in Thread \ Task /\ None \notin Task
BY TCPAssumption

LEMMA InitInv == Init => Inv
<1> SUFFICES ASSUME Init PROVE Inv
  OBVIOUS
<1>1. StreamTypeOK
  <2>1. <<>> \in Seq(Byte) /\ Len(<<>>) = 0
    BY EmptySeq
  <2> QED BY <2>1, StreamAssumption
          DEF Init, StreamInit, StreamTypeOK, Direction, NoCall
<1>2. ThreadInv
  BY ThreadsStart DEF Init
<1>3. DriverTypeOK /\ Places
  BY EmptySeq DEF Init, DriverTypeOK, Places
<1>4. Modes
  BY DEF Init, StreamInit, Modes
<1> QED BY <1>1, <1>2, <1>3, <1>4 DEF Inv

\* The tasks' steps leave the driver's bounds alone: they take from the ring
\* that it fills and fill the one that it takes from.
LEMMA PlacesKept ==
  ASSUME Inv, StreamTypeOK', UNCHANGED driver,
         Len(txCircQueue) <= Len(txCircQueue'), Len(rxCircQueue') <= Len(rxCircQueue)
  PROVE  Places'
<1>1. /\ Len(txCircQueue) \in Nat /\ Len(rxCircQueue) \in Nat
      /\ RxCapacity \in Nat /\ avail \in Nat /\ cnt \in Nat /\ Len(read) \in Nat
  <2>1. Len(read) \in Nat
    BY LenProperties DEF Inv, DriverTypeOK
  <2> QED BY <2>1, QueueLengths, StreamAssumption DEF Inv, DriverTypeOK
<1>2. Len(txCircQueue)' \in Nat /\ Len(rxCircQueue)' \in Nat
  BY QueueLengthsNext
<1>3. UNCHANGED <<at, avail, cnt, read>>
  BY DEF driver
<1>4. ASSUME NEW x \in Nat, NEW a \in Nat, NEW b \in Nat, a <= b PROVE x <= a => x <= b
  BY <1>4
<1>5. ASSUME NEW x \in Nat PROVE x <= RxRoom => x <= RxCapacity - Len(rxCircQueue')
  BY <1>1, <1>2 DEF RxRoom
<1>6. RxRoom' = RxCapacity - Len(rxCircQueue')
  BY DEF RxRoom
<1>7. ASSUME NEW x \in Nat PROVE x <= Len(txCircQueue) => x <= Len(txCircQueue')
  BY <1>1, <1>2
<1>8. Places
  BY DEF Inv
<1> QED BY <1>1, <1>3, <1>5, <1>6, <1>7, <1>8 DEF Places

LEMMA ModesKept ==
  ASSUME Inv, NEW t \in Task,
         \A u \in Task \ {t} : pc'[u] = pc[u] /\ op'[u] = op[u]
                               /\ ticksCreateWakes'[u] = ticksCreateWakes[u],
         \/ pc'[t] = "idle"
         \/ op'[t] = "run" /\ ~ticksCreateWakes'[t]
         \/ pc'[t] = "wait" /\ op'[t] \in {"wait", "cond"} /\ ~ticksCreateWakes'[t]
  PROVE  Modes'
BY DEF Inv, Modes

LEMMA UnchangedThreads ==
  ASSUME ThreadInv, UNCHANGED threads
  PROVE  ThreadInv'
BY DEF ThreadInv, ThreadsTypeOK, BlockedAsleep, Marks, IsWoke, threads

LEMMA UnchangedDriver ==
  ASSUME DriverTypeOK, UNCHANGED driver, UNCHANGED socket
  PROVE  DriverTypeOK'
BY DEF DriverTypeOK, driver, socket

\* Steps of the stream's calls other than RTWait.
LEMMA CallInv ==
  ASSUME Inv, NEW t \in Task, op[t] = "run", UNCHANGED <<threads, driver, socket>>,
         \/ \E buf \in Sends[t], block \in BOOLEAN : Send(t, buf, block)
         \/ \E len \in Lengths[t], block, all \in BOOLEAN : Receive(t, len, block, all)
         \/ Lock(t) \/ Announce(t) \/ Put(t) \/ Get(t) \/ CallBack(t) \/ Test(t) \/ Unlock(t)
  PROVE  Inv'
<1>1. StreamTypeOK /\ ThreadInv /\ DriverTypeOK
  BY DEF Inv
<1>2. /\ StreamTypeOK'
      /\ Len(txCircQueue) <= Len(txCircQueue') /\ Len(rxCircQueue') <= Len(rxCircQueue)
  <2>1. Len(txCircQueue) \in Nat /\ Len(rxCircQueue) \in Nat
    BY <1>1, QueueLengths
  <2>2. CASE Put(t)
    BY <1>1, <2>1, <2>2, PutTypes
  <2>3. CASE Get(t)
    BY <1>1, <2>1, <2>3, GetTypes
  <2>4. CASE \/ \E buf \in Sends[t], block \in BOOLEAN : Send(t, buf, block)
             \/ \E len \in Lengths[t], block, all \in BOOLEAN : Receive(t, len, block, all)
    <3>1. StreamTypeOK' /\ UNCHANGED <<txCircQueue, rxCircQueue>>
      BY <1>1, <2>4, CallTypes
    <3> QED BY <2>1, <3>1
  <2>5. CASE Lock(t) \/ Announce(t) \/ CallBack(t) \/ Test(t) \/ Unlock(t)
    <3>1. StreamTypeOK' /\ UNCHANGED <<txCircQueue, rxCircQueue>>
      BY <1>1, <2>5, StreamTypes
    <3> QED BY <2>1, <3>1
  <2> QED BY <2>2, <2>3, <2>4, <2>5
<1>3. Places'
  BY <1>2, PlacesKept
<1>4. ThreadInv' /\ DriverTypeOK'
  BY <1>1, UnchangedThreads, UnchangedDriver
<1>5. \A u \in Task \ {t} : pc'[u] = pc[u]
  BY DEF Send, Receive, Lock, Announce, Put, Get, CallBack, Test, Unlock, Goto, Inv, StreamTypeOK
<1>6. ~ticksCreateWakes[t] /\ UNCHANGED <<op, ticksCreateWakes>>
  BY <1>1, TaskIsThread DEF ThreadInv, Marks, threads
<1>7. Modes'
  BY <1>5, <1>6, ModesKept
<1> QED BY <1>2, <1>3, <1>4, <1>7 DEF Inv

\* With RTGetWakeCount, and the call of RTWait.
LEMMA StreamCallInv ==
  ASSUME Inv, NEW t \in Task, StreamCall(t)
  PROVE  Inv'
<1>1. StreamTypeOK /\ ThreadInv /\ DriverTypeOK /\ t \in Thread /\ UNCHANGED <<driver, socket>>
      /\ op[t] = "run"
  BY TaskIsThread DEF Inv, StreamCall
<1>2. Len(txCircQueue) \in Nat /\ Len(rxCircQueue) \in Nat
  BY <1>1, QueueLengths
<1>3. ~ticksCreateWakes[t]
  BY <1>1 DEF ThreadInv, Marks
<1>4. CASE GetWakeCount(t) /\ target' = Set(target, t, Plus(wakes[t], 1))
           /\ UNCHANGED <<taskTable, wakes, thresh, ticksCreateWakes, systick_cnt, i, blocked, op,
                          completion>>
  <2>1. StreamTypeOK' /\ UNCHANGED <<txCircQueue, rxCircQueue>>
    BY <1>1, <1>4, StreamTypes
  <2>2. Plus(wakes[t], 1) \in Counter
    BY <1>1, CounterTypes DEF ThreadInv, ThreadsTypeOK
  <2>3. ThreadInv'
    BY <1>1, <1>4, <2>2 DEF Set, ThreadInv, ThreadsTypeOK, OpType, BlockedAsleep, Marks, IsWoke
  <2>4. \A u \in Task \ {t} : pc'[u] = pc[u]
    BY <1>1, <1>4 DEF GetWakeCount, Goto, StreamTypeOK
  <2>5. Modes'
    BY <1>1, <1>3, <1>4, <2>4, ModesKept
  <2> QED BY <1>1, <1>2, <2>1, <2>3, <2>5, PlacesKept, UnchangedDriver DEF Inv
<1>5. CASE /\ pc[t] = "wait" /\ op' = Set(op, t, "wait")
           /\ UNCHANGED <<taskTable, wakes, thresh, ticksCreateWakes, systick_cnt, i, blocked,
                          completion, target, stream, tasks>>
  <2>1. StreamTypeOK' /\ UNCHANGED <<txCircQueue, rxCircQueue, pc>>
    BY <1>1, <1>5 DEF stream, tasks, StreamTypeOK
  <2>2. ThreadInv'
    BY <1>1, <1>3, <1>5 DEF Set, ThreadInv, ThreadsTypeOK, OpType, BlockedAsleep, Marks, IsWoke
  <2>3. op'[t] = "wait" /\ \A u \in Task \ {t} : op'[u] = op[u]
    BY <1>1, <1>5 DEF Set, ThreadInv, ThreadsTypeOK, OpType
  <2>4. Modes'
    BY <1>3, <1>5, <2>1, <2>3, ModesKept
  <2> QED BY <1>1, <1>2, <2>1, <2>2, <2>4, PlacesKept, UnchangedDriver DEF Inv
<1>6. CASE /\ Lock(t) \/ Announce(t) \/ Put(t) \/ Get(t) \/ CallBack(t) \/ Test(t) \/ Unlock(t)
           /\ UNCHANGED threads
  BY <1>1, <1>6, CallInv
<1> QED BY <1>4, <1>5, <1>6 DEF StreamCall

\* RTWait.
LEMMA StreamWaitInv ==
  ASSUME Inv, NEW t \in Task, StreamWait(t)
  PROVE  Inv'
<1>1. StreamTypeOK /\ ThreadInv /\ DriverTypeOK /\ t \in Thread /\ UNCHANGED <<driver, socket>>
  BY TaskIsThread DEF Inv, StreamWait
<1>2. Len(txCircQueue) \in Nat /\ Len(rxCircQueue) \in Nat
  BY <1>1, QueueLengths
<1>3. pc[t] = "wait" /\ RTWait(t, "run") /\ ~ticksCreateWakes[t]
  BY DEF StreamWait, Inv, Modes
<1>4. ThreadInv'
  BY <1>1, <1>3, WaitThread
<1>5. /\ UNCHANGED ticksCreateWakes
      /\ op'[t] \in {"run", "cond"} /\ \A u \in Task \ {t} : op'[u] = op[u]
  <2>1. op' = [op EXCEPT ![t] = "run"] \/ op' = [op EXCEPT ![t] = "cond"]
    BY <1>3 DEF RTWait, Set
  <2>2. op \in [Thread -> OpType]
    BY <1>1 DEF ThreadInv, ThreadsTypeOK
  <2>3. UNCHANGED ticksCreateWakes
    BY <1>3 DEF RTWait
  <2> QED BY <1>1, <2>1, <2>2, <2>3, TaskIsThread
<1>6. /\ StreamTypeOK' /\ UNCHANGED <<txCircQueue, rxCircQueue>>
      /\ \A u \in Task \ {t} : pc'[u] = pc[u]
      /\ op'[t] # "run" => pc'[t] = "wait"
  <2>1. CASE op'[t] = "run"
    <3>1. Wait(t)
      BY <2>1 DEF StreamWait
    <3>2. StreamTypeOK' /\ UNCHANGED <<txCircQueue, rxCircQueue>>
      BY <1>1, <3>1, StreamTypes
    <3> QED BY <1>1, <2>1, <3>1, <3>2 DEF Wait, Goto, StreamTypeOK
  <2>2. CASE op'[t] # "run"
    <3>1. UNCHANGED <<stream, tasks>>
      BY <2>2 DEF StreamWait
    <3> QED BY <1>1, <1>3, <3>1 DEF stream, tasks, StreamTypeOK
  <2> QED BY <2>1, <2>2
<1>7. Modes'
  BY <1>3, <1>5, <1>6, ModesKept
<1> QED BY <1>1, <1>2, <1>4, <1>6, <1>7, PlacesKept, UnchangedDriver DEF Inv

\* RTSleep, of any thread.
LEMMA SleepInv ==
  ASSUME Inv, NEW t \in Thread,
         \/ SleepStep(t)
         \/ t \in Task /\ op[t] = "run" /\ pc[t] = "idle" /\ \E n \in Sleeps[t] : RTSleep(t, n),
         UNCHANGED <<stream, tasks, driver, socket>>
  PROVE  Inv'
<1>1. StreamTypeOK /\ ThreadInv /\ DriverTypeOK
  BY DEF Inv
<1>2. Len(txCircQueue) \in Nat /\ Len(rxCircQueue) \in Nat
  BY <1>1, QueueLengths
<1>3. StreamTypeOK' /\ UNCHANGED <<txCircQueue, rxCircQueue, pc>>
  BY <1>1 DEF stream, tasks, StreamTypeOK
<1>4. ThreadInv'
  <2>1. CASE SleepStep(t)
    BY <1>1, <2>1, SleepStepThread
  <2>2. CASE t \in Task /\ \E n \in Sleeps[t] : RTSleep(t, n)
    <3>1. PICK n \in Nat : RTSleep(t, n)
      <4>1. Sleeps[t] \subseteq Nat
        BY <2>2, TCPAssumption, CounterAssumption
      <4> QED BY <2>2, <4>1
    <3> QED BY <1>1, <3>1, SleepThread
  <2> QED BY <2>1, <2>2
<1>5. t \in Task => pc[t] = "idle"
  <2>1. ASSUME t \in Task, pc[t] # "idle", SleepStep(t) PROVE FALSE
    <3>1. op[t] \in {"run", "wait", "cond"} /\ ~ticksCreateWakes[t]
      BY <2>1 DEF Inv, Modes
    <3> QED BY <2>1, <3>1 DEF SleepStep, CheckRemain, Mark, TakeCount, Unmark, Sleeping, Op
  <2> QED BY <2>1
<1>6. \A u \in Thread \ {t} : op'[u] = op[u] /\ ticksCreateWakes'[u] = ticksCreateWakes[u]
  <2>1. op \in [Thread -> OpType]
        /\ ticksCreateWakes \in [Thread -> BOOLEAN]
    BY <1>1 DEF ThreadInv, ThreadsTypeOK
  <2>2. ASSUME NEW u \in Thread \ {t} PROVE op'[u] = op[u] /\ ticksCreateWakes'[u] = ticksCreateWakes[u]
    <3>1. CASE CheckRemain(t) \/ Mark(t) \/ TakeCount(t) \/ Unmark(t)
      BY <2>1, <3>1 DEF CheckRemain, Mark, TakeCount, Unmark, Op, Set
    <3>2. CASE RTWait(t, "unmark")
      <4>1. op' = [op EXCEPT ![t] = "unmark"] \/ op' = [op EXCEPT ![t] = "cond"]
        BY <3>2 DEF RTWait, Set
      <4> QED BY <2>1, <3>2, <4>1 DEF RTWait
    <3>3. CASE \E n \in Sleeps[t] : RTSleep(t, n)
      BY <2>1, <3>3 DEF RTSleep, Op, Set
    <3> QED BY <3>1, <3>2, <3>3 DEF SleepStep
  <2> QED BY <2>2
<1>7. Modes'
  BY <1>3, <1>5, <1>6, TaskIsThread DEF Inv, Modes
<1> QED BY <1>1, <1>2, <1>3, <1>4, <1>7, PlacesKept, UnchangedDriver DEF Inv

LEMMA TaskInv ==
  ASSUME Inv, NEW t \in Task, NewCall(t) \/ TaskStep(t)
  PROVE  Inv'
<1>1. CASE NewCall(t)
  <2>1. op[t] = "run" /\ pc[t] = "idle" /\ UNCHANGED <<driver, socket>>
    BY <1>1 DEF NewCall
  <2>2. CASE /\ UNCHANGED threads
             /\ \/ \E buf \in Sends[t], block \in BOOLEAN : Send(t, buf, block)
                \/ \E len \in Lengths[t], block, all \in BOOLEAN : Receive(t, len, block, all)
    BY <2>1, <2>2, CallInv
  <2>3. CASE UNCHANGED <<stream, tasks>> /\ \E n \in Sleeps[t] : RTSleep(t, n)
    BY <2>1, <2>3, SleepInv, TaskIsThread
  <2> QED BY <1>1, <2>2, <2>3 DEF NewCall
<1>2. CASE StreamCall(t)
  BY <1>2, StreamCallInv
<1>3. CASE StreamWait(t)
  BY <1>3, StreamWaitInv
<1>4. CASE SleepStep(t) /\ UNCHANGED <<stream, tasks, driver, socket>>
  BY <1>4, SleepInv, TaskIsThread
<1> QED BY <1>1, <1>2, <1>3, <1>4 DEF TaskStep

-----------------------------------------------------------------------------
(* The driver, the main thread and the peer.                               *)

LEMMA ModesUnchanged ==
  ASSUME Inv, UNCHANGED <<pc, op, ticksCreateWakes>>
  PROVE  Modes'
BY DEF Inv, Modes

\* Steps of TCPStreamTask that leave the rings and the tasks alone.
LEMMA DriverInv ==
  ASSUME Inv, Accept \/ RXPos \/ Read \/ Close \/ TXPos \/ Write \/ WhoWaits
  PROVE  Inv'
<1>1. StreamTypeOK /\ ThreadInv /\ DriverTypeOK /\ Places
  BY DEF Inv
<1>2. UNCHANGED <<stream, tasks, threads>>
  BY DEF Accept, RXPos, Read, Close, TXPos, Write, WhoWaits
<1>3. StreamTypeOK' /\ ThreadInv' /\ Modes'
  <2>1. StreamTypeOK'
    BY <1>1, <1>2 DEF stream, tasks, StreamTypeOK
  <2>2. ThreadInv'
    BY <1>1, <1>2, UnchangedThreads
  <2>3. Modes'
    BY <1>2, ModesUnchanged DEF tasks, threads
  <2> QED BY <2>1, <2>2, <2>3
<1>4. /\ txCircQueue' = txCircQueue /\ rxCircQueue' = rxCircQueue /\ waitingFor' = waitingFor
      /\ RxRoom' = RxRoom /\ RxRoom \in Nat /\ Len(txCircQueue) \in Nat
  BY <1>1, <1>2, QueueLengths DEF stream, RxRoom
<1>5. \A n \in Nat : \A m \in Contiguous(n) : m \in Nat /\ m <= n
  BY DEF Contiguous
<1>6. CASE Accept
  BY <1>1, <1>3, <1>6 DEF Accept, Step, Inv, DriverTypeOK, Places, socket
<1>7. CASE RXPos
  <2>1. avail' \in Nat /\ avail' <= RxRoom /\ at' \in {"txpos", "read"} /\ at = "loop"
    BY <1>4, <1>5, <1>7 DEF RXPos, Step
  <2>2. UNCHANGED <<active, cnt, waiting, read, socket>> /\ didSomething' = FALSE
    BY <1>7 DEF RXPos
  <2>3. DriverTypeOK'
    BY <1>1, <2>1, <2>2 DEF DriverTypeOK, socket
  <2>4. Places'
    BY <1>1, <1>4, <2>1, <2>2 DEF Places
  <2> QED BY <1>3, <2>3, <2>4 DEF Inv
<1>8. CASE Read
  <2>1. CASE at' = "rxdone"
    <3>1. PICK n \in 1 .. Len(toRead) :
            /\ n <= avail
            /\ cnt' = n /\ read' = SubSeq(toRead, 1, n)
            /\ toRead' = SubSeq(toRead, n + 1, Len(toRead))
      BY <1>8, <2>1 DEF Read, Step
    <3>2. /\ at = "read" /\ didSomething' = TRUE
          /\ UNCHANGED <<active, avail, waiting, peer, written>>
      BY <1>8, <2>1 DEF Read, Step
    <3>3. toRead \in Seq(Byte) /\ Len(toRead) \in Nat
      BY <1>1, LenProperties DEF DriverTypeOK
    <3>4. n \in 0 .. Len(toRead) /\ n \in Nat
      BY <3>1, <3>3
    <3>5. read' \in Seq(Byte) /\ Len(read') = n /\ toRead' \in Seq(Byte)
      BY <3>1, <3>3, <3>4, Parts
    <3>6. avail <= RxRoom /\ avail \in Nat
      BY <1>1, <3>2 DEF Places, DriverTypeOK
    <3>7. Len(read') <= RxRoom'
      BY <1>4, <3>1, <3>4, <3>5, <3>6
    <3>8. DriverTypeOK'
      BY <1>1, <2>1, <3>1, <3>2, <3>4, <3>5 DEF DriverTypeOK
    <3>9. Places'
      BY <2>1, <3>7 DEF Places
    <3> QED BY <1>3, <3>8, <3>9 DEF Inv
  <2>2. CASE at' # "rxdone"
    BY <1>1, <1>3, <1>8, <2>2 DEF Read, Step, Inv, DriverTypeOK, Places, socket
  <2> QED BY <2>1, <2>2
<1>9. CASE Close
  <2>1. DriverTypeOK'
    BY <1>1, <1>9, EmptySeq DEF Close, Step, DriverTypeOK
  <2> QED BY <1>1, <1>3, <1>9, <2>1 DEF Close, Step, Inv, Places
<1>10. CASE TXPos
  <2>1. avail' \in Nat /\ avail' <= Len(txCircQueue) /\ at' \in {"end", "write"} /\ at = "txpos"
    BY <1>4, <1>5, <1>10 DEF TXPos, Step
  <2>2. UNCHANGED <<active, cnt, didSomething, waiting, read, socket>>
    BY <1>10 DEF TXPos
  <2>3. DriverTypeOK'
    BY <1>1, <2>1, <2>2 DEF DriverTypeOK, socket
  <2>4. Places'
    BY <1>1, <1>4, <2>1, <2>2 DEF Places
  <2> QED BY <1>3, <2>3, <2>4 DEF Inv
<1>11. CASE Write
  <2>1. UNCHANGED <<active, avail, waiting, read, peer, toRead>> /\ at = "write"
    BY <1>11 DEF Write, Step
  <2>2. CASE at' = "txdone"
    <3>1. PICK n \in 1 .. avail :
            cnt' = n /\ written' = written \o SubSeq(txCircQueue, 1, n) /\ didSomething' = TRUE
      BY <1>11, <2>2 DEF Write, Step
    <3>2. avail \in Nat /\ avail <= Len(txCircQueue)
      BY <1>1, <2>1 DEF Places, DriverTypeOK
    <3>3. n \in 0 .. Len(txCircQueue) /\ n \in Nat
      BY <1>4, <3>1, <3>2
    <3>4. txCircQueue \in Seq(Byte) /\ written \in Seq(Byte)
      BY <1>1 DEF StreamTypeOK, DriverTypeOK
    <3>5. written' \in Seq(Byte)
      <4>1. SubSeq(txCircQueue, 1, n) \in Seq(Byte)
        BY <3>3, <3>4, Parts
      <4> QED BY <3>1, <3>4, <4>1, ConcatProperties
    <3>6. DriverTypeOK'
      BY <1>1, <2>1, <2>2, <3>1, <3>3, <3>5 DEF DriverTypeOK
    <3>7. Places'
      BY <1>1, <1>4, <2>1, <2>2, <3>1, <3>3 DEF Places
    <3> QED BY <1>3, <3>6, <3>7 DEF Inv
  <2>3. CASE at' # "txdone"
    BY <1>1, <1>3, <1>11, <2>1, <2>3 DEF Write, Step, Inv, DriverTypeOK, Places
  <2> QED BY <2>2, <2>3
<1>12. CASE WhoWaits
  <2>1. waiting' \in Task \cup {None}
    BY <1>1, <1>12 DEF WhoWaits, StreamTypeOK, Direction
  <2> QED BY <1>1, <1>3, <1>12, <2>1 DEF WhoWaits, Step, Inv, DriverTypeOK, Places, socket
<1> QED BY <1>6, <1>7, <1>8, <1>9, <1>10, <1>11, <1>12

\* RTStreamZeroCopyRXDone and RTStreamZeroCopyTXDone.
LEMMA DoneInv ==
  ASSUME Inv, RXDone \/ TXDone
  PROVE  Inv'
<1>1. StreamTypeOK /\ ThreadInv /\ DriverTypeOK /\ Places
  BY DEF Inv
<1>2. UNCHANGED <<hasCb, waitingFor, lock, tasks, threads, socket, active, avail, cnt, waiting, didSomething>>
  BY DEF RXDone, TXDone
<1>3. ThreadInv' /\ Modes'
  BY <1>1, <1>2, UnchangedThreads, ModesUnchanged DEF tasks, threads
<1>4. CASE RXDone
  <2>1. /\ at = "rxdone" /\ at' = "wakerx" /\ read' = <<>>
        /\ rxCircQueue' = rxCircQueue \o read /\ UNCHANGED txCircQueue
    BY <1>4 DEF RXDone, Step
  <2>2. rxCircQueue \in Seq(Byte) /\ read \in Seq(Byte)
    BY <1>1 DEF StreamTypeOK, DriverTypeOK
  <2>3. rxCircQueue' \in Seq(Byte) /\ Len(rxCircQueue') = Len(rxCircQueue) + Len(read)
    BY <2>1, <2>2, ConcatProperties
  <2>4. Len(rxCircQueue') <= RxCapacity
    <3>1. Len(read) <= RxCapacity - Len(rxCircQueue)
      BY <1>1, <2>1 DEF Places, RxRoom
    <3>2. Len(read) \in Nat /\ Len(rxCircQueue) \in Nat /\ RxCapacity \in Nat
      BY <2>2, LenProperties, StreamAssumption
    <3> QED BY <2>3, <3>1, <3>2
  <2>5. StreamTypeOK'
    BY <1>1, <1>2, <2>1, <2>3, <2>4 DEF StreamTypeOK, tasks
  <2>6. DriverTypeOK'
    BY <1>1, <1>2, <2>1, EmptySeq DEF DriverTypeOK, socket
  <2>7. Places'
    BY <2>1 DEF Places
  <2> QED BY <1>3, <2>5, <2>6, <2>7 DEF Inv
<1>5. CASE TXDone
  <2>1. /\ at = "txdone" /\ at' = "waketx" /\ UNCHANGED <<read, rxCircQueue>>
        /\ txCircQueue' = SubSeq(txCircQueue, cnt + 1, Len(txCircQueue))
    BY <1>5 DEF TXDone, Step
  <2>2. /\ txCircQueue \in Seq(Byte) /\ Len(txCircQueue) \in 0 .. TxCapacity
        /\ TxCapacity \in Nat /\ cnt \in Nat /\ cnt <= Len(txCircQueue)
    BY <1>1, <2>1, QueueLengths, StreamAssumption DEF StreamTypeOK, DriverTypeOK, Places
  <2>3. txCircQueue' \in Seq(Byte) /\ Len(txCircQueue') = Len(txCircQueue) - cnt
    <3>1. cnt \in 0 .. Len(txCircQueue)
      BY <2>2
    <3> QED BY <2>1, <2>2, <3>1, Parts
  <2>4. Len(txCircQueue') <= TxCapacity
    BY <2>2, <2>3
  <2>5. StreamTypeOK'
    BY <1>1, <1>2, <2>1, <2>3, <2>4 DEF StreamTypeOK, tasks
  <2>6. DriverTypeOK'
    BY <1>1, <1>2, <2>1 DEF DriverTypeOK, socket
  <2>7. Places'
    BY <1>1, <2>1 DEF Places
  <2> QED BY <1>3, <2>5, <2>6, <2>7 DEF Inv
<1> QED BY <1>4, <1>5

LEMMA WakeWaiterInv ==
  ASSUME Inv, WakeWaiter
  PROVE  Inv'
<1>1. StreamTypeOK /\ ThreadInv /\ DriverTypeOK /\ Places
  BY DEF Inv
<1>2. /\ at \in {"rtwakerx", "rtwaketx"} /\ at' \in {"txpos", "end"} /\ waiting' = None
      /\ UNCHANGED <<stream, pc, call, active, avail, cnt, didSomething, read, socket>>
  BY DEF WakeWaiter, Step
<1>3. DriverTypeOK' /\ Places'
  BY <1>1, <1>2 DEF DriverTypeOK, Places, socket
<1>4. CASE waiting = None /\ UNCHANGED <<threads, woken>>
  <2>1. StreamTypeOK'
    BY <1>1, <1>2, <1>4 DEF StreamTypeOK, stream
  <2>2. ThreadInv' /\ Modes'
    BY <1>1, <1>2, <1>4, UnchangedThreads, ModesUnchanged DEF threads
  <2> QED BY <1>3, <2>1, <2>2 DEF Inv
<1>5. CASE waiting # None /\ RTWake(waiting) /\ woken' = Set(woken, waiting, TRUE)
  <2>1. PICK t \in Task : t = waiting
    BY <1>1, <1>5 DEF DriverTypeOK
  <2>2. StreamTypeOK'
    BY <1>1, <1>2, <1>5, <2>1 DEF StreamTypeOK, stream, Set
  <2>3. RTWake(t) /\ t \in Thread
    BY <1>5, <2>1, TaskIsThread
  <2>4. i \in taskTable \cup {TASK_MAX}
    BY <1>1 DEF ThreadInv, ThreadsTypeOK
  <2>5. ThreadInv'
    BY <1>1, <2>3, <2>4, WakeThread DEF RTWake
  <2>6. Modes'
    BY <1>2, <2>3, ModesUnchanged DEF RTWake
  <2> QED BY <1>3, <2>2, <2>5, <2>6 DEF Inv
<1> QED BY <1>4, <1>5 DEF WakeWaiter

LEMMA EndRoundInv ==
  ASSUME Inv, EndRound
  PROVE  Inv'
<1>1. StreamTypeOK /\ ThreadInv /\ DriverTypeOK /\ Places
  BY DEF Inv
<1>2. /\ at = "end" /\ at' = "loop"
      /\ UNCHANGED <<stream, tasks, active, avail, cnt, didSomething, waiting, read, socket>>
  BY DEF EndRound, Step
<1>3. DriverTypeOK' /\ Places'
  BY <1>1, <1>2 DEF DriverTypeOK, Places, socket
<1>4. StreamTypeOK'
  BY <1>1, <1>2 DEF StreamTypeOK, stream, tasks
<1>5. CASE UNCHANGED threads
  <2>1. ThreadInv' /\ Modes'
    BY <1>1, <1>2, <1>5, UnchangedThreads, ModesUnchanged DEF threads, tasks
  <2> QED BY <1>3, <1>4, <2>1 DEF Inv
<1>6. CASE RTSleep(TCPTask, 1)
  <2>1. ThreadInv'
    BY <1>1, <1>6, SleepThread, TaskIsThread
  <2>2. /\ \A t \in Task : op'[t] = op[t]
        /\ UNCHANGED <<pc, ticksCreateWakes>>
    BY <1>1, <1>2, <1>6, TaskIsThread DEF RTSleep, Op, Set, ThreadInv, ThreadsTypeOK, OpType, tasks
  <2>3. Modes'
    BY <2>2 DEF Inv, Modes
  <2> QED BY <1>3, <1>4, <2>1, <2>3 DEF Inv
<1> QED BY <1>5, <1>6 DEF EndRound

LEMMA MainInv ==
  ASSUME Inv, \/ \E t \in Thread : Create(t) \/ Spurious(t)
              \/ Tick
  PROVE  Inv'
<1>1. StreamTypeOK /\ ThreadInv /\ DriverTypeOK /\ Places
  BY DEF Inv
<1>2. UNCHANGED <<stream, tasks, driver, socket>>
  BY DEF Create, Spurious, Tick
<1>3. StreamTypeOK' /\ DriverTypeOK' /\ Places'
  BY <1>1, <1>2 DEF StreamTypeOK, DriverTypeOK, Places, RxRoom, stream, tasks, driver, socket
<1>4. ASSUME NEW t \in Thread, Create(t) PROVE Inv'
  <2>1. ThreadInv'
    BY <1>1, <1>4, CreateThread DEF Create
  <2>2. /\ \A u \in Task : op'[u] = op[u] \/ op[u] \in {"new", "listed"}
        /\ UNCHANGED <<pc, ticksCreateWakes>>
    BY <1>1, <1>2, <1>4, TaskIsThread
       DEF Create, RTTaskCreate, ListEntry, StartThread, Op, Set, ThreadInv, ThreadsTypeOK, OpType, tasks
  <2>3. Modes'
    BY <2>2 DEF Inv, Modes
  <2> QED BY <1>3, <2>1, <2>3 DEF Inv
<1>5. ASSUME NEW t \in Thread, Spurious(t) PROVE Inv'
  <2>1. ThreadInv'
    BY <1>1, <1>5, SpuriousThread DEF Spurious
  <2>2. Modes'
    BY <1>2, <1>5, ModesUnchanged DEF Spurious, SpuriousWake, tasks
  <2> QED BY <1>3, <2>1, <2>2 DEF Inv
<1>6. CASE Tick
  <2>1. TickCount \/ TickTask
    BY <1>6 DEF Tick
  <2>2. ThreadInv'
    BY <1>1, <2>1, TickThread
  <2>3. Modes'
    BY <1>2, <2>1, ModesUnchanged DEF TickCount, TickTask, tasks
  <2> QED BY <1>3, <2>2, <2>3 DEF Inv
<1> QED BY <1>4, <1>5, <1>6

LEMMA PeerInv ==
  ASSUME Inv, Peer \/ PeerGoes
  PROVE  Inv'
<1>1. StreamTypeOK /\ ThreadInv /\ DriverTypeOK /\ Places
  BY DEF Inv
<1>2. UNCHANGED <<stream, tasks, threads, driver>>
  BY DEF Peer, PeerGoes, PeerConnects, PeerSends, PeerTakes
<1>3. StreamTypeOK' /\ ThreadInv' /\ Modes' /\ Places'
  <2>1. StreamTypeOK' /\ Places'
    BY <1>1, <1>2 DEF StreamTypeOK, Places, RxRoom, stream, tasks, driver
  <2>2. ThreadInv' /\ Modes'
    BY <1>1, <1>2, UnchangedThreads, ModesUnchanged DEF threads, tasks
  <2> QED BY <2>1, <2>2
<1>4. toRead' \in Seq(Byte) /\ written' \in Seq(Byte) /\ peer' \in {"away", "here", "gone"}
  BY <1>1, EmptySeq, TCPAssumption
     DEF Peer, PeerGoes, PeerConnects, PeerSends, PeerTakes, DriverTypeOK
<1>5. DriverTypeOK'
  BY <1>1, <1>2, <1>4 DEF DriverTypeOK, driver
<1> QED BY <1>3, <1>5 DEF Inv

LEMMA NextInv == Inv /\ [Next]_vars => Inv'
<1> SUFFICES ASSUME Inv, [Next]_vars PROVE Inv'
  OBVIOUS
<1>1. CASE TCPStep
  <2>1. CASE SleepStep(TCPTask) /\ UNCHANGED <<stream, tasks, driver, socket>>
    BY <2>1, SleepInv, TaskIsThread
  <2> QED BY <1>1, <2>1, DriverInv, DoneInv, WakeWaiterInv, EndRoundInv DEF TCPStep
<1>2. ASSUME NEW t \in Task, NewCall(t) \/ TaskStep(t) PROVE Inv'
  BY <1>2, TaskInv
<1>3. CASE (\E t \in Thread : Create(t) \/ Spurious(t)) \/ Tick
  BY <1>3, MainInv
<1>4. CASE Peer \/ PeerGoes
  BY <1>4, PeerInv
<1>5. CASE UNCHANGED vars
  <2>1. UNCHANGED <<stream, tasks, threads, driver, socket>>
    BY <1>5 DEF vars
  <2>2. StreamTypeOK' /\ Places' /\ DriverTypeOK'
    BY <2>1 DEF Inv, StreamTypeOK, Places, DriverTypeOK, RxRoom, stream, tasks, driver, socket
  <2>3. ThreadInv' /\ Modes'
    BY <2>1, UnchangedThreads, ModesUnchanged DEF threads, tasks, Inv
  <2> QED BY <2>2, <2>3 DEF Inv
<1> QED BY <1>1, <1>2, <1>3, <1>4, <1>5 DEF Next

\* All that the stream, the threads and the driver keep has its type, and no
\* counter leaves its width: the rings are never overfilled, though the
\* driver fills and empties them from another thread.
THEOREM TypesCorrect == Spec => []TypeOK
<1>1. Spec => []Inv
  BY InitInv, NextInv, PTL DEF Spec
<1> QED BY <1>1, InvTypeOK, PTL

-----------------------------------------------------------------------------
(* Wakes.  From RTGetWakeCount on, the distance from a task's counter to   *)
(* its threshold is 1 until a wake, and then 0 or negative: RTWait lets it *)
(* through.  A threshold that would be passed by more than half the width  *)
(* moves along with the counter while the task is in pthread_cond_wait;    *)
(* before, RoomForWake bounds the wakes.                                   *)

CountAt(t) ==
  /\ pc[t] = "wait" => call[t].block
  /\ pc[t] \in {"move", "cb", "test", "wait"} /\ call[t].block /\ op[t] \in {"run", "wait"} =>
       IF woken[t] THEN IsWokeAt(target[t], wakes[t]) ELSE Consider(target[t], wakes[t]) = 1
  /\ pc[t] = "wait" /\ op[t] = "cond" =>
       IF woken[t] THEN LET c == Consider(thresh[t], wakes[t]) IN c = 0 \/ c > Half
                   ELSE Consider(thresh[t], wakes[t]) = 1

Counts == \A t \in Task : CountAt(t)

\* A threshold one ahead is not reached.
LEMMA OneAhead ==
  ASSUME NEW x, NEW c, Consider(x, c) = 1
  PROVE  ~IsWokeAt(x, c)
BY CounterAssumption DEF IsWokeAt

LEMMA PastIsWoke ==
  ASSUME NEW x \in Counter, NEW c \in Counter, Consider(x, c) = 0 \/ Consider(x, c) > Half
  PROVE  IsWokeAt(x, c)
<1>1. Consider(x, c) \in Nat /\ Half \in Nat
  BY CounterTypes, CounterAssumption DEF Counter
<1> QED BY <1>1 DEF IsWokeAt

LEMMA CountsSeen == Inv /\ Counts => WakeIsSeen
<1> SUFFICES ASSUME Inv, Counts, NEW t \in Task, pc[t] = "wait"
             PROVE  /\ op[t] \in {"run", "wait"} => (woken[t] <=> IsWokeAt(target[t], wakes[t]))
                    /\ op[t] = "cond" => (woken[t] <=> IsWoke(t))
                    /\ woken[t] => t \notin blocked
  BY DEF WakeIsSeen
<1>1. /\ t \in Thread /\ CountAt(t) /\ call[t].block /\ woken[t] \in BOOLEAN
      /\ thresh[t] \in Counter /\ wakes[t] \in Counter
  BY TaskIsThread DEF Inv, Counts, CountAt, StreamTypeOK, ThreadInv, ThreadsTypeOK
<1>2. CASE woken[t]
  <2>1. op[t] \in {"run", "wait"} => IsWokeAt(target[t], wakes[t])
    BY <1>1, <1>2 DEF CountAt
  <2>2. op[t] = "cond" => IsWoke(t)
    BY <1>1, <1>2, PastIsWoke DEF CountAt, IsWoke
  <2>3. t \in blocked => op[t] = "cond" /\ ~IsWoke(t)
    BY DEF Inv, ThreadInv, ThreadsTypeOK, BlockedAsleep
  <2> QED BY <1>2, <2>1, <2>2, <2>3
<1>3. CASE ~woken[t]
  <2>1. op[t] \in {"run", "wait"} => ~IsWokeAt(target[t], wakes[t])
    BY <1>1, <1>3, OneAhead DEF CountAt
  <2>2. op[t] = "cond" => ~IsWoke(t)
    BY <1>1, <1>3, OneAhead DEF CountAt, IsWoke
  <2> QED BY <1>3, <2>1, <2>2
<1> QED BY <1>2, <1>3

LEMMA SameCount ==
  ASSUME NEW t, CountAt(t), pc'[t] = pc[t], call'[t] = call[t], woken'[t] = woken[t],
         op'[t] = op[t], wakes'[t] = wakes[t], thresh'[t] = thresh[t], target'[t] = target[t]
  PROVE  CountAt(t)'
BY DEF CountAt, IsWokeAt, Consider

\* Without a count.
LEMMA NoCount ==
  ASSUME NEW t, pc'[t] \notin {"move", "cb", "test", "wait"} \/ (pc'[t] # "wait" /\ ~call'[t].block)
  PROVE  CountAt(t)'
BY DEF CountAt

\* The effect of a call's step on its task.
LEMMA CallCount ==
  ASSUME Inv, NEW t \in Task, CountAt(t), op[t] = "run", UNCHANGED threads,
         \/ \E buf \in Sends[t], block \in BOOLEAN : Send(t, buf, block)
         \/ \E len \in Lengths[t], block, all \in BOOLEAN : Receive(t, len, block, all)
         \/ Lock(t) \/ Announce(t) \/ Put(t) \/ Get(t) \/ CallBack(t) \/ Test(t) \/ Unlock(t)
  PROVE  CountAt(t)'
<1>1. pc \in [Task -> {"idle", "lock", "loop", "count", "move", "cb", "driver", "pos",
                      "mark", "start", "test", "wait", "unlock"}]
      /\ call \in [Task -> [dir : Direction, buf : Seq(Byte), len : Nat,
                            block : BOOLEAN, all : BOOLEAN]]
      /\ woken \in [Task -> BOOLEAN]
  BY DEF Inv, StreamTypeOK
<1>2. UNCHANGED <<op, wakes, thresh, target>>
  BY DEF threads
<1>3. CASE \/ \E buf \in Sends[t], block \in BOOLEAN : Send(t, buf, block)
           \/ \E len \in Lengths[t], block, all \in BOOLEAN : Receive(t, len, block, all)
           \/ Lock(t) \/ Unlock(t)
  <2>1. pc'[t] \in {"lock", "loop", "idle"}
    BY <1>1, <1>3 DEF Send, Receive, Lock, Unlock, Goto
  <2> QED BY <2>1, NoCount
<1>4. CASE Announce(t)
  <2>1. call' = call /\ pc'[t] = IF call[t].block THEN "count" ELSE "move"
    BY <1>1, <1>4 DEF Announce, Goto
  <2> QED BY <2>1, NoCount
<1>5. CASE Put(t) \/ Get(t) \/ CallBack(t)
  <2>1. /\ pc[t] \in {"move", "cb"} /\ pc'[t] \in {"move", "cb", "test", "driver"}
        /\ woken' = woken
    BY <1>1, <1>5 DEF Put, Get, CallBack, Goto
  <2>2. call'[t].block = call[t].block
    <3>1. CASE UNCHANGED call
      BY <3>1
    <3>2. ASSUME NEW b, call' = [call EXCEPT ![t].buf = b]
          PROVE  call'[t].block = call[t].block
      BY <1>1, <3>2
    <3>3. UNCHANGED call \/ \E b : call' = [call EXCEPT ![t].buf = b]
      BY <1>5, Zenon DEF Put, Get, CallBack
    <3> QED BY <3>1, <3>2, <3>3
  <2> QED BY <1>2, <2>1, <2>2 DEF CountAt, IsWokeAt, Consider
<1>6. CASE Test(t)
  <2>1. call' = call /\ pc[t] = "test"
    BY <1>6 DEF Test
  <2>2. CASE Finished(t)
    <3>1. pc'[t] = "unlock"
      BY <1>1, <1>6, <2>2 DEF Test
    <3> QED BY <3>1, NoCount
  <2>3. CASE ~Finished(t)
    <3>1. pc'[t] = "wait" /\ call[t].block /\ (woken'[t] <=> woken[t])
      BY <1>1, <1>6, <2>3 DEF Test, Finished
    <3> QED BY <1>2, <2>1, <3>1 DEF CountAt, IsWokeAt, Consider
  <2> QED BY <2>2, <2>3
<1> QED BY <1>3, <1>4, <1>5, <1>6

\* It touches no other task.
LEMMA CallFrame ==
  ASSUME Inv, NEW t \in Task, NEW u \in Task \ {t}, CountAt(u), UNCHANGED threads,
         \/ \E buf \in Sends[t], block \in BOOLEAN : Send(t, buf, block)
         \/ \E len \in Lengths[t], block, all \in BOOLEAN : Receive(t, len, block, all)
         \/ Lock(t) \/ Announce(t) \/ Put(t) \/ Get(t) \/ CallBack(t) \/ Test(t) \/ Unlock(t)
  PROVE  CountAt(u)'
<1>1. u # t
  OBVIOUS
<1>2. pc'[u] = pc[u] /\ woken'[u] = woken[u]
  BY <1>1 DEF Send, Receive, Lock, Announce, Put, Get, CallBack, Test, Unlock, Goto, Inv, StreamTypeOK
<1>3. call'[u] = call[u]
  <2>1. UNCHANGED call \/ \E c : call' = [call EXCEPT ![t] = c]
    <3>1. CASE \/ \E buf \in Sends[t], block \in BOOLEAN : Send(t, buf, block)
               \/ \E len \in Lengths[t], block, all \in BOOLEAN : Receive(t, len, block, all)
               \/ Unlock(t)
      BY <3>1, Zenon DEF Send, Receive, Unlock
    <3>2. CASE Lock(t) \/ Announce(t) \/ CallBack(t) \/ Test(t)
      BY <3>2 DEF Lock, Announce, CallBack, Test
    <3>3. CASE Put(t) \/ Get(t)
      <4>1. UNCHANGED call \/ \E b : call' = [call EXCEPT ![t].buf = b]
        BY <3>3, Zenon DEF Put, Get
      <4>2. ASSUME NEW b, call' = [call EXCEPT ![t].buf = b]
            PROVE  call' = [call EXCEPT ![t] = [call[t] EXCEPT !.buf = b]]
        BY <4>2
      <4> QED BY <4>1, <4>2
    <3> QED BY <3>1, <3>2, <3>3
  <2> QED BY <1>1, <2>1 DEF Inv, StreamTypeOK
<1> QED BY <1>2, <1>3, SameCount DEF threads

LEMMA StreamCallCounts ==
  ASSUME Inv, Counts, NEW t \in Task, StreamCall(t)
  PROVE  Counts'
<1> SUFFICES ASSUME NEW u \in Task PROVE CountAt(u)'
  BY DEF Counts
<1>1. /\ CountAt(t) /\ CountAt(u) /\ op[t] = "run" /\ t \in Thread /\ u \in Thread
      /\ wakes \in [Thread -> Counter] /\ target \in [Thread -> Counter]
      /\ op \in [Thread -> OpType]
      /\ pc \in [Task -> {"idle", "lock", "loop", "count", "move", "cb", "driver", "pos",
                          "mark", "start", "test", "wait", "unlock"}]
      /\ woken \in [Task -> BOOLEAN]
  BY TaskIsThread DEF Counts, StreamCall, Inv, ThreadInv, ThreadsTypeOK, StreamTypeOK
<1>2. CASE /\ Lock(t) \/ Announce(t) \/ Put(t) \/ Get(t) \/ CallBack(t) \/ Test(t) \/ Unlock(t)
           /\ UNCHANGED threads
  <2>1. CASE u = t
    BY <1>1, <1>2, <2>1, CallCount
  <2>2. CASE u # t
    BY <1>1, <1>2, <2>2, CallFrame
  <2> QED BY <2>1, <2>2
<1>3. CASE GetWakeCount(t) /\ target' = Set(target, t, Plus(wakes[t], 1))
           /\ UNCHANGED <<taskTable, wakes, thresh, ticksCreateWakes, systick_cnt, i, blocked, op,
                          completion>>
  <2>1. CASE u = t
    <3>1. woken'[t] = FALSE /\ target'[t] = Plus(wakes[t], 1) /\ op'[t] = "run" /\ pc'[t] = "move"
      BY <1>1, <1>3 DEF GetWakeCount, Goto, Set
    <3>2. Consider(Plus(wakes[t], 1), wakes[t]) = 1
      BY <1>1, CounterTypes
    <3>3. Consider(target[t], wakes[t])' = 1
      BY <1>3, <3>1, <3>2 DEF Consider
    <3> QED BY <2>1, <3>1, <3>3 DEF CountAt
  <2>2. CASE u # t
    <3>1. /\ pc'[u] = pc[u] /\ call' = call /\ woken'[u] = woken[u] /\ target'[u] = target[u]
          /\ UNCHANGED <<op, wakes, thresh>>
      BY <1>1, <1>3, <2>2 DEF GetWakeCount, Goto, Set
    <3> QED BY <1>1, <3>1, SameCount
  <2> QED BY <2>1, <2>2
<1>4. CASE /\ pc[t] = "wait" /\ op' = Set(op, t, "wait")
           /\ UNCHANGED <<taskTable, wakes, thresh, ticksCreateWakes, systick_cnt, i, blocked,
                          completion, target, stream, tasks>>
  <2>1. UNCHANGED <<pc, call, woken, wakes, thresh, target>>
    BY <1>4 DEF tasks
  <2>2. CASE u = t
    <3>1. op'[t] = "wait"
      BY <1>1, <1>4 DEF Set
    <3> QED BY <1>1, <2>1, <2>2, <3>1 DEF CountAt, IsWokeAt, Consider
  <2>3. CASE u # t
    <3>1. op'[u] = op[u]
      BY <1>1, <1>4, <2>3 DEF Set
    <3> QED BY <1>1, <2>1, <3>1, SameCount
  <2> QED BY <2>2, <2>3
<1> QED BY <1>2, <1>3, <1>4 DEF StreamCall

\* RTWait enters pthread_cond_wait, or goes on in it, only one ahead.
LEMMA StreamWaitCounts ==
  ASSUME Inv, Counts, NEW t \in Task, StreamWait(t)
  PROVE  Counts'
<1> SUFFICES ASSUME NEW u \in Task PROVE CountAt(u)'
  BY DEF Counts
<1>1. /\ CountAt(t) /\ CountAt(u) /\ t \in Thread /\ u \in Thread
      /\ wakes \in [Thread -> Counter] /\ target \in [Thread -> Counter]
      /\ thresh \in [Thread -> Counter]
      /\ op \in [Thread -> OpType]
      /\ pc \in [Task -> {"idle", "lock", "loop", "count", "move", "cb", "driver", "pos",
                          "mark", "start", "test", "wait", "unlock"}]
      /\ woken \in [Task -> BOOLEAN]
  BY TaskIsThread DEF Counts, Inv, ThreadInv, ThreadsTypeOK, StreamTypeOK
<1>2. pc[t] = "wait" /\ call[t].block /\ RTWait(t, "run") /\ UNCHANGED <<wakes, target>>
  BY <1>1 DEF StreamWait, CountAt, RTWait
<1>3. CASE u = t
  <2>1. CASE op'[t] = "run"
    <3>1. pc'[t] = "loop"
      BY <1>1, <2>1 DEF StreamWait, Wait, Goto
    <3> QED BY <1>3, <3>1, NoCount
  <2>2. CASE op'[t] # "run"
    <3>1. UNCHANGED <<pc, call, woken>>
      BY <2>2 DEF StreamWait, tasks
    <3>2. ~IsWokeAt(thresh'[t], wakes[t]) /\ op' = Set(op, t, "cond")
      <4>1. CASE op' = Set(op, t, "run")
        BY <1>1, <2>2, <4>1 DEF Set
      <4> QED BY <1>2, <4>1 DEF RTWait
    <3>3. op'[t] = "cond"
      BY <1>1, <3>2 DEF Set
    <3>4. Consider(thresh'[t], wakes[t]) = 1
      <4>1. CASE op[t] = "wait" /\ thresh' = Set(thresh, t, target[t])
        <5>1. thresh'[t] = target[t]
          BY <1>1, <4>1 DEF Set
        <5> QED BY <1>1, <1>2, <3>2, <4>1, <5>1 DEF CountAt
      <4>2. CASE op[t] = "cond" /\ UNCHANGED thresh
        <5>1. thresh'[t] = thresh[t] /\ thresh[t] \in Counter /\ wakes[t] \in Counter
          BY <1>1, <4>2
        <5>2. ~woken[t]
          <6>1. ASSUME woken[t] PROVE FALSE
            <7>1. Consider(thresh[t], wakes[t]) = 0 \/ Consider(thresh[t], wakes[t]) > Half
              BY <1>1, <1>2, <4>2, <6>1 DEF CountAt
            <7> QED BY <3>2, <5>1, <7>1, PastIsWoke
          <6> QED BY <6>1
        <5> QED BY <1>1, <1>2, <4>2, <5>1, <5>2 DEF CountAt
      <4> QED BY <1>2, <4>1, <4>2 DEF RTWait
    <3>5. ~woken[t]
      <4>1. ASSUME woken[t] PROVE FALSE
        <5>1. CASE op[t] = "wait" /\ thresh' = Set(thresh, t, target[t])
          <6>1. thresh'[t] = target[t]
            BY <1>1, <5>1 DEF Set
          <6> QED BY <1>1, <1>2, <3>2, <4>1, <5>1, <6>1 DEF CountAt
        <5>2. CASE op[t] = "cond" /\ UNCHANGED thresh
          <6>1. thresh'[t] = thresh[t] /\ thresh[t] \in Counter /\ wakes[t] \in Counter
            BY <1>1, <5>2
          <6>2. Consider(thresh[t], wakes[t]) = 0 \/ Consider(thresh[t], wakes[t]) > Half
            BY <1>1, <1>2, <4>1, <5>2 DEF CountAt
          <6> QED BY <3>2, <6>1, <6>2, PastIsWoke
        <5> QED BY <1>2, <5>1, <5>2 DEF RTWait
      <4> QED BY <4>1
    <3>6. Consider(thresh[t], wakes[t])' = 1 /\ ~woken'[t] /\ call'[t].block
      BY <1>2, <3>1, <3>4, <3>5 DEF Consider
    <3> QED BY <1>3, <3>3, <3>6 DEF CountAt
  <2> QED BY <2>1, <2>2
<1>4. CASE u # t
  <2>1. op'[u] = op[u] /\ thresh'[u] = thresh[u]
    <3>1. op' = [op EXCEPT ![t] = "run"] \/ op' = [op EXCEPT ![t] = "cond"]
      BY <1>2 DEF RTWait, Set
    <3>2. thresh' = thresh \/ thresh' = [thresh EXCEPT ![t] = target[t]]
      BY <1>2 DEF RTWait, Set
    <3> QED BY <1>1, <1>4, <3>1, <3>2
  <2>2. pc'[u] = pc[u] /\ call' = call /\ woken'[u] = woken[u]
    <3>1. CASE Wait(t)
      BY <1>1, <1>4, <3>1 DEF Wait, Goto
    <3>2. CASE UNCHANGED <<stream, tasks>>
      BY <3>2 DEF tasks
    <3> QED BY <3>1, <3>2 DEF StreamWait
  <2> QED BY <1>1, <1>2, <2>1, <2>2, SameCount
<1> QED BY <1>3, <1>4

\* A wake of a task with a count.
LEMMA WakeCount ==
  ASSUME NEW x \in Counter, NEW c \in Counter, NEW d \in Counter, d = Plus(c, 1)
  PROVE  /\ Consider(x, c) = 1 => Consider(x, d) = 0
         /\ IsWokeAt(x, c) /\ Consider(x, c) # Half => IsWokeAt(x, d)
         /\ Consider(x, c) \in {0, 1} \/ Consider(x, c) > Half =>
              Consider(x, d) = 0 \/ Consider(x, d) >= Half
         /\ Consider(x, d) = Half => Consider(Plus(x, 1), d) > Half
<1>1. Half \in Nat \ {0, 1} /\ Consider(x, c) \in 0 .. 2 * Half - 1 /\ Consider(x, d) \in 0 .. 2 * Half - 1
  BY CounterAssumption, CounterTypes DEF Counter
<1>2. Consider(x, d) = IF Consider(x, c) = 0 THEN 2 * Half - 1 ELSE Consider(x, c) - 1
  BY ConsiderPlus
<1>3. Consider(Plus(x, 1), d) = IF Consider(x, d) = 2 * Half - 1 THEN 0 ELSE Consider(x, d) + 1
  BY ConsiderPlus
<1> QED BY <1>1, <1>2, <1>3 DEF IsWokeAt

LEMMA WakeWaiterCounts ==
  ASSUME Inv, Counts, WakeWaiter
  PROVE  Counts'
<1> SUFFICES ASSUME NEW u \in Task PROVE CountAt(u)'
  BY DEF Counts
<1>1. CountAt(u) /\ u \in Thread /\ UNCHANGED <<pc, call>>
  BY TaskIsThread DEF Counts, WakeWaiter
<1>2. CASE waiting = None /\ UNCHANGED <<threads, woken>>
  BY <1>1, <1>2, SameCount DEF threads
<1>3. CASE waiting # None /\ RoomForWake(waiting) /\ RTWake(waiting) /\ woken' = Set(woken, waiting, TRUE)
  <2>0. /\ wakes \in [Thread -> Counter] /\ thresh \in [Thread -> Counter]
        /\ target \in [Thread -> Counter] /\ woken \in [Task -> BOOLEAN]
    BY DEF Inv, ThreadInv, ThreadsTypeOK, StreamTypeOK
  <2>1. PICK t \in Task : t = waiting
    BY <1>3 DEF Inv, DriverTypeOK
  <2>2. /\ t \in Thread /\ woken' = [woken EXCEPT ![t] = TRUE] /\ RoomForWake(t)
        /\ wakes' = [wakes EXCEPT ![t] = Plus(wakes[t], 1)]
        /\ thresh' = IF Consider(thresh[t], wakes'[t]) = Half
                       THEN [thresh EXCEPT ![t] = Plus(thresh[t], 1)] ELSE thresh
        /\ UNCHANGED <<op, target>>
    BY <1>3, <2>1, TaskIsThread DEF RTWake, IncrementWakes, Set
  <2>3. CASE u = t
    <3>1. woken'[u] /\ wakes'[u] = Plus(wakes[u], 1) /\ wakes[u] \in Counter /\ wakes'[u] \in Counter
      BY <1>1, <2>0, <2>2, <2>3, CounterTypes
    <3>2. thresh[u] \in Counter /\ target[u] \in Counter
      BY <1>1, <2>0
    <3>3. ASSUME pc[u] \in {"move", "cb", "test", "wait"}, call[u].block, op[u] \in {"run", "wait"}
          PROVE  IsWokeAt(target[u], wakes'[u])
      <4>1. Consider(target[u], wakes[u]) # Half
        BY <2>2, <2>3, <3>3 DEF RoomForWake, Holds
      <4>2. CASE woken[u]
        <5>1. IsWokeAt(target[u], wakes[u])
          BY <1>1, <3>3, <4>2 DEF CountAt
        <5> QED BY <3>1, <3>2, <4>1, <5>1, WakeCount
      <4>3. CASE ~woken[u]
        <5>1. Consider(target[u], wakes[u]) = 1
          BY <1>1, <3>3, <4>3 DEF CountAt
        <5>2. Consider(target[u], wakes'[u]) = 0
          BY <3>1, <3>2, <5>1, WakeCount
        <5> QED BY <5>2 DEF IsWokeAt
      <4> QED BY <4>2, <4>3
    <3>4. ASSUME pc[u] = "wait", op[u] = "cond"
          PROVE  LET c == Consider(thresh'[u], wakes'[u]) IN c = 0 \/ c > Half
      <4>1. Consider(thresh[u], wakes[u]) \in {0, 1} \/ Consider(thresh[u], wakes[u]) > Half
        BY <1>1, <3>4 DEF CountAt
      <4>2. /\ Consider(thresh[u], wakes'[u]) = 0 \/ Consider(thresh[u], wakes'[u]) >= Half
            /\ Consider(thresh[u], wakes'[u]) = Half => Consider(Plus(thresh[u], 1), wakes'[u]) > Half
        BY <3>1, <3>2, <4>1, WakeCount
      <4>3. CASE Consider(thresh[u], wakes'[u]) = Half
        <5>1. thresh'[u] = Plus(thresh[u], 1)
          BY <1>1, <2>0, <2>2, <2>3, <4>3
        <5> QED BY <4>2, <4>3, <5>1
      <4>4. CASE Consider(thresh[u], wakes'[u]) # Half
        <5>1. thresh'[u] = thresh[u]
          BY <2>2, <2>3, <4>4
        <5>2. Consider(thresh[u], wakes'[u]) \in Counter
          BY <3>1, <3>2, CounterTypes
        <5>3. Counter \subseteq Nat /\ Half \in Nat
          BY CounterAssumption DEF Counter
        <5>4. PICK n \in Nat : n = Consider(thresh[u], wakes'[u])
          BY <5>2, <5>3
        <5>5. n = 0 \/ n > Half
          BY <4>2, <4>4, <5>3, <5>4
        <5> QED BY <5>1, <5>4, <5>5
      <4> QED BY <4>3, <4>4
    <3>5. target'[u] = target[u] /\ op'[u] = op[u]
      BY <2>2
    <3>6. IsWokeAt(target[u], wakes[u])' = IsWokeAt(target[u], wakes'[u])
      BY <3>5 DEF IsWokeAt, Consider
    <3>7. Consider(thresh[u], wakes[u])' = Consider(thresh'[u], wakes'[u])
      BY DEF Consider
    <3> QED BY <1>1, <3>1, <3>3, <3>4, <3>5, <3>6, <3>7 DEF CountAt
  <2>4. CASE u # t
    <3>1. woken'[u] = woken[u] /\ wakes'[u] = wakes[u] /\ thresh'[u] = thresh[u]
      BY <1>1, <2>0, <2>2, <2>4
    <3> QED BY <1>1, <2>2, <3>1, SameCount
  <2> QED BY <2>3, <2>4
<1> QED BY <1>2, <1>3 DEF WakeWaiter

\* Sleeping and ticking change the counters of tasks outside the stream only.
LEMMA SleepCounts ==
  ASSUME Inv, Counts, NEW t \in Thread, UNCHANGED <<stream, tasks>>,
         \/ SleepStep(t)
         \/ \E n \in Nat : RTSleep(t, n) /\ (t \in Task => pc[t] = "idle")
  PROVE  Counts'
<1> SUFFICES ASSUME NEW u \in Task PROVE CountAt(u)'
  BY DEF Counts
<1>1. CountAt(u) /\ u \in Thread /\ UNCHANGED <<pc, call, woken>>
  BY TaskIsThread DEF Counts, tasks
<1>2. CASE pc[u] = "idle"
  BY <1>1, <1>2, NoCount
<1>3. CASE pc[u] # "idle"
  <2>1. op[u] \in {"run", "wait", "cond"} /\ ~ticksCreateWakes[u]
    BY <1>3 DEF Inv, Modes
  <2>2. u # t
    <3>1. ASSUME SleepStep(u) PROVE FALSE
      BY <2>1, <3>1 DEF SleepStep, CheckRemain, Mark, TakeCount, Unmark, Sleeping, Op
    <3> QED BY <1>3, <3>1
  <2>3. /\ wakes' = wakes
        /\ thresh' = thresh \/ thresh' = Set(thresh, t, target[t])
        /\ op' = op \/ \E v : op' = Set(op, t, v)
        /\ target' = target \/ \E v : target' = Set(target, t, v)
    <3>1. CASE CheckRemain(t) \/ Mark(t) \/ TakeCount(t) \/ Unmark(t)
      BY <3>1 DEF CheckRemain, Mark, TakeCount, Unmark, Op
    <3>2. CASE RTWait(t, "unmark")
      BY <3>2 DEF RTWait
    <3>3. CASE \E n \in Nat : RTSleep(t, n)
      BY <3>3 DEF RTSleep, Op
    <3> QED BY <3>1, <3>2, <3>3 DEF SleepStep
  <2>4. op'[u] = op[u] /\ thresh'[u] = thresh[u] /\ target'[u] = target[u] /\ wakes'[u] = wakes[u]
    <3>1. /\ op \in [Thread -> OpType]
          /\ thresh \in [Thread -> Counter] /\ target \in [Thread -> Counter]
      BY DEF Inv, ThreadInv, ThreadsTypeOK
    <3> QED BY <1>1, <2>2, <2>3, <3>1 DEF Set
  <2> QED BY <1>1, <2>4, SameCount
<1> QED BY <1>2, <1>3

LEMMA MainCounts ==
  ASSUME Inv, Counts, (\E t \in Thread : Create(t) \/ Spurious(t)) \/ Tick
  PROVE  Counts'
<1> SUFFICES ASSUME NEW u \in Task PROVE CountAt(u)'
  BY DEF Counts
<1>1. CountAt(u) /\ u \in Thread /\ UNCHANGED <<pc, call, woken>>
  BY TaskIsThread DEF Counts, Create, Spurious, Tick, tasks
<1>2. CASE pc[u] = "idle"
  BY <1>1, <1>2, NoCount
<1>3. CASE pc[u] # "idle"
  <2>1. op[u] \in {"run", "wait", "cond"} /\ ~ticksCreateWakes[u]
    BY <1>3 DEF Inv, Modes
  <2>2. op'[u] = op[u] /\ thresh'[u] = thresh[u] /\ target'[u] = target[u] /\ wakes'[u] = wakes[u]
    <3>1. CASE \E t \in Thread : Spurious(t)
      BY <3>1 DEF Spurious, SpuriousWake
    <3>2. ASSUME NEW t \in Thread, Create(t)
          PROVE  op'[u] = op[u] /\ thresh'[u] = thresh[u] /\ target'[u] = target[u]
                 /\ wakes'[u] = wakes[u]
      <4>1. /\ op[t] \in {"new", "listed"} /\ \E v : op' = [op EXCEPT ![t] = v]
            /\ UNCHANGED <<wakes, thresh, target>>
        BY <3>2 DEF Create, RTTaskCreate, ListEntry, StartThread, Op, Set
      <4> QED BY <2>1, <4>1 DEF Inv, ThreadInv, ThreadsTypeOK
    <3>3. CASE Tick
      <4>1. UNCHANGED <<op, target>>
        BY <3>3 DEF Tick, TickCount, TickTask
      <4>2. CASE UNCHANGED <<wakes, thresh>>
        BY <4>1, <4>2
      <4>3. CASE ticksCreateWakes[i] /\ IncrementWakes(i)
        <5>1. i # u
          BY <2>1, <4>3
        <5>2. wakes'[u] = wakes[u] /\ thresh'[u] = thresh[u]
          BY <1>1, <4>3, <5>1 DEF IncrementWakes, Set, Inv, ThreadInv, ThreadsTypeOK, OpType
        <5> QED BY <4>1, <5>2
      <4> QED BY <3>3, <4>2, <4>3 DEF Tick, TickCount, TickTask
    <3> QED BY <3>1, <3>2, <3>3
  <2> QED BY <1>1, <2>2, SameCount
<1> QED BY <1>2, <1>3

LEMMA NextCounts == Inv /\ Counts /\ [Next]_vars => Counts'
<1> SUFFICES ASSUME Inv, Counts, [Next]_vars PROVE Counts'
  OBVIOUS
<1>0. ASSUME UNCHANGED <<tasks, threads>> PROVE Counts'
  <2> SUFFICES ASSUME NEW u \in Task PROVE CountAt(u)'
    BY DEF Counts
  <2> QED BY <1>0, SameCount DEF Counts, tasks, threads
<1>1. CASE TCPStep
  <2>1. CASE SleepStep(TCPTask) /\ UNCHANGED <<stream, tasks, driver, socket>>
    BY <2>1, SleepCounts, TaskIsThread
  <2>2. CASE EndRound
    <3>1. CASE RTSleep(TCPTask, 1)
      BY <2>2, <3>1, SleepCounts, TaskIsThread DEF EndRound
    <3>2. CASE UNCHANGED threads
      BY <1>0, <2>2, <3>2 DEF EndRound
    <3> QED BY <2>2, <3>1, <3>2 DEF EndRound
  <2>3. CASE Accept \/ RXPos \/ Read \/ Close \/ RXDone \/ TXPos \/ Write \/ TXDone \/ WhoWaits
    <3>1. UNCHANGED <<tasks, threads>>
      BY <2>3 DEF Accept, RXPos, Read, Close, RXDone, TXPos, Write, TXDone, WhoWaits
    <3> QED BY <1>0, <3>1
  <2> QED BY <1>1, <2>1, <2>2, <2>3, WakeWaiterCounts DEF TCPStep
<1>2. ASSUME NEW t \in Task, NewCall(t) PROVE Counts'
  <2>1. op[t] = "run" /\ pc[t] = "idle"
    BY <1>2 DEF NewCall
  <2>2. CASE /\ UNCHANGED threads
             /\ \/ \E buf \in Sends[t], block \in BOOLEAN : Send(t, buf, block)
                \/ \E len \in Lengths[t], block, all \in BOOLEAN : Receive(t, len, block, all)
    <3> SUFFICES ASSUME NEW u \in Task PROVE CountAt(u)'
      BY DEF Counts
    <3>1. CountAt(t) /\ CountAt(u)
      BY DEF Counts
    <3>2. CASE u = t
      BY <2>1, <2>2, <3>1, <3>2, CallCount
    <3>3. CASE u # t
      BY <2>2, <3>1, <3>3, CallFrame
    <3> QED BY <3>2, <3>3
  <2>3. CASE UNCHANGED <<stream, tasks>> /\ \E n \in Sleeps[t] : RTSleep(t, n)
    <3>1. \E n \in Nat : RTSleep(t, n)
      <4>1. Sleeps[t] \subseteq Nat
        BY TCPAssumption, CounterAssumption
      <4> QED BY <2>3, <4>1
    <3> QED BY <2>1, <2>3, <3>1, SleepCounts, TaskIsThread
  <2> QED BY <1>2, <2>2, <2>3 DEF NewCall
<1>3. ASSUME NEW t \in Task, TaskStep(t) PROVE Counts'
  <2>1. CASE SleepStep(t) /\ UNCHANGED <<stream, tasks, driver, socket>>
    BY <2>1, SleepCounts, TaskIsThread
  <2> QED BY <1>3, <2>1, StreamCallCounts, StreamWaitCounts DEF TaskStep
<1>4. CASE (\E t \in Thread : Create(t) \/ Spurious(t)) \/ Tick
  BY <1>4, MainCounts
<1>5. CASE Peer \/ PeerGoes
  <2>1. UNCHANGED <<tasks, threads>>
    BY <1>5 DEF Peer, PeerGoes, PeerConnects, PeerSends, PeerTakes
  <2> QED BY <1>0, <2>1
<1>6. CASE UNCHANGED vars
  BY <1>0, <1>6 DEF vars
<1> QED BY <1>1, <1>2, <1>3, <1>4, <1>5, <1>6 DEF Next

\* A task that is woken after its RTGetWakeCount comes out of RTWait, and no
\* other does: the wake counter that wraps and the threshold that moves with
\* it say the same as Stream's flag, in every interleaving of the driver, the
\* ticks, spurious wakes and the tasks, and nobody sleeps through a wake.
THEOREM WakesAreSeen == Spec => []WakeIsSeen
<1>1. Init => Counts
  BY DEF Init, StreamInit, Counts, CountAt
<1>2. Spec => [](Inv /\ Counts)
  BY <1>1, InitInv, NextInv, NextCounts, PTL DEF Spec
<1> QED BY <1>2, CountsSeen, PTL

-----------------------------------------------------------------------------
(* Steps of the two sides.                                                 *)

\* Every step is one of a task's in the stream, or leaves the calls and the
\* tasks' end of the rings alone.
DriverStep ==
  Accept \/ RXPos \/ Read \/ Close \/ RXDone \/ TXPos \/ Write \/ TXDone \/ WhoWaits \/ WakeWaiter \/ EndRound

LEMMA Steps ==
  ASSUME [Next]_vars
  PROVE  \/ \E t \in Task : CallStep(t) /\ UNCHANGED <<driver, socket>>
         \/ DriverStep
         \/ Peer \/ PeerGoes
         \/ UNCHANGED <<stream, tasks, driver, socket>>
<1>1. ASSUME NEW t \in Task, NewCall(t) \/ TaskStep(t)
      PROVE  \/ CallStep(t) /\ UNCHANGED <<driver, socket>>
             \/ UNCHANGED <<stream, tasks, driver, socket>>
  BY <1>1 DEF NewCall, TaskStep, StreamCall, StreamWait, CallStep
<1>2. CASE TCPStep
  BY <1>2 DEF TCPStep, DriverStep
<1>3. CASE (\E t \in Thread : Create(t) \/ Spurious(t)) \/ Tick
  BY <1>3 DEF Create, Spurious, Tick
<1>4. CASE UNCHANGED vars
  BY <1>4 DEF vars
<1> QED BY <1>1, <1>2, <1>3, <1>4 DEF Next

LEMMA DriverLeavesCalls ==
  ASSUME DriverStep
  PROVE  UNCHANGED <<pc, call, lock>>
BY DEF DriverStep, Accept, RXPos, Read, Close, RXDone, TXPos, Write, TXDone, WhoWaits, WakeWaiter,
       EndRound, stream, tasks

LEMMA NextLocks == Inv /\ Locks /\ [Next]_vars => Locks'
<1> SUFFICES ASSUME Inv, Locks, [Next]_vars PROVE Locks'
  OBVIOUS
<1>1. ASSUME NEW t \in Task, CallStep(t) PROVE Locks'
  BY <1>1, TaskLocks DEF Inv
<1>2. CASE DriverStep
  BY <1>2, DriverLeavesCalls, SameLocks
<1>3. CASE Peer \/ PeerGoes \/ UNCHANGED <<stream, tasks, driver, socket>>
  <2>1. UNCHANGED <<pc, call, lock>>
    BY <1>3 DEF Peer, PeerGoes, PeerConnects, PeerSends, PeerTakes, stream, tasks
  <2> QED BY <2>1, SameLocks
<1> QED BY <1>1, <1>2, <1>3, Steps

-----------------------------------------------------------------------------
(* What is sent.  Bytes leave the abstract queue when write takes them, and*)
(* the ring a little later.                                                *)

SentQueue == IF at = "txdone" THEN SubSeq(txCircQueue, cnt + 1, Len(txCircQueue)) ELSE txCircQueue

SentStep ==
  \/ Sent!StartWrite \/ Sent!StartRead
  \/ \E n \in 1 .. TxCapacity : Sent!Enqueue(n) \/ Sent!Dequeue(n)

LEMMA SentQueueType ==
  ASSUME Inv
  PROVE  SentQueue \in Seq(Byte) /\ Len(SentQueue) <= Len(txCircQueue)
<1>1. txCircQueue \in Seq(Byte) /\ Len(txCircQueue) \in Nat
  BY LenProperties DEF Inv, StreamTypeOK
<1>2. CASE at = "txdone"
  <2>1. cnt \in 0 .. Len(txCircQueue)
    BY <1>1, <1>2 DEF Inv, Places, DriverTypeOK
  <2> QED BY <1>1, <1>2, <2>1, Parts DEF SentQueue
<1>3. CASE at # "txdone"
  BY <1>1, <1>3 DEF SentQueue
<1> QED BY <1>2, <1>3

LEMMA SentUnchanged ==
  ASSUME Inv', UNCHANGED <<SentQueue, written>>
  PROVE  SentStep
<1>1. (Buf("tx") \in Seq(Byte))'
  BY BufTypeNext DEF Inv
<1> QED BY <1>1 DEF SentStep, Sent!StartWrite, SentQueue

LEMMA SentCall ==
  ASSUME Inv, Inv', Locks, NEW t \in Task, CallStep(t), UNCHANGED <<driver, socket>>
  PROVE  SentStep
<1>1. UNCHANGED <<at, cnt, written>>
  BY DEF driver, socket
<1>2. CASE UNCHANGED txCircQueue
  BY <1>1, <1>2, SentUnchanged DEF SentQueue
<1>3. CASE ~UNCHANGED txCircQueue
  <2>1. Put(t)
    BY <1>3 DEF CallStep, Send, Receive, Lock, Announce, GetWakeCount, Get, CallBack, Test, Wait,
                Unlock, stream
  <2>2. PICK n \in 1 .. TxCapacity :
          /\ n <= Len(Buf("tx")) /\ Len(txCircQueue) + n <= TxCapacity
          /\ txCircQueue' = txCircQueue \o SubSeq(Buf("tx"), 1, n)
          /\ Buf("tx")' = SubSeq(Buf("tx"), n + 1, Len(Buf("tx")))
    BY <1>3, <2>1, PutMoves DEF Inv
  <2>3. PICK x \in Seq(Byte) : x = SubSeq(Buf("tx"), 1, n)
    <3>1. n \in 0 .. Len(Buf("tx")) /\ Buf("tx") \in Seq(Byte)
      BY <2>2, BufType, LenProperties DEF Inv, Direction
    <3> QED BY <3>1, Parts
  <2>4. SentQueue' = SentQueue \o x
    <3>1. txCircQueue' = txCircQueue \o x
      BY <2>2, <2>3
    <3>2. CASE at = "txdone"
      <4>1. txCircQueue \in Seq(Byte) /\ cnt \in 0 .. Len(txCircQueue)
        BY <3>2, LenProperties DEF Inv, StreamTypeOK, Places, DriverTypeOK
      <4>2. SubSeq(txCircQueue \o x, cnt + 1, Len(txCircQueue \o x)) =
              SubSeq(txCircQueue, cnt + 1, Len(txCircQueue)) \o x
        BY <4>1, FrontOfSum
      <4>3. SentQueue' = SubSeq(txCircQueue', cnt + 1, Len(txCircQueue'))
        BY <1>1, <3>2 DEF SentQueue
      <4> QED BY <3>1, <3>2, <4>2, <4>3 DEF SentQueue
    <3>3. CASE at # "txdone"
      BY <1>1, <3>1, <3>3 DEF SentQueue
    <3> QED BY <3>2, <3>3
  <2>5. Len(SentQueue) + n <= TxCapacity
    <3>1. Len(SentQueue) <= Len(txCircQueue) /\ Len(SentQueue) \in Nat
      BY SentQueueType, LenProperties
    <3>2. Len(txCircQueue) \in Nat /\ TxCapacity \in Nat
      BY QueueLengths, StreamAssumption DEF Inv
    <3> QED BY <2>2, <3>1, <3>2
  <2>6. /\ n <= Len(Buf("tx")) /\ Len(SentQueue) + n <= TxCapacity
        /\ SentQueue' = SentQueue \o SubSeq(Buf("tx"), 1, n)
        /\ Buf("tx")' = SubSeq(Buf("tx"), n + 1, Len(Buf("tx")))
        /\ UNCHANGED written
    BY <1>1, <2>2, <2>3, <2>4, <2>5, Zenon
  <2>7. Sent!Enqueue(n)
    BY <2>6, Zenon DEF Sent!Enqueue, SentQueue
  <2> QED BY <2>7 DEF SentStep
<1> QED BY <1>2, <1>3

LEMMA SentDriver ==
  ASSUME Inv, Inv', DriverStep
  PROVE  SentStep
<1>0. UNCHANGED Buf("tx")
  BY DriverLeavesCalls DEF Buf
<1>1. CASE TXDone
  BY <1>1, SentUnchanged DEF TXDone, Step, SentQueue, socket
<1>2. CASE Write /\ at' = "txdone"
  <2>1. PICK n \in 1 .. avail :
          cnt' = n /\ written' = written \o SubSeq(txCircQueue, 1, n)
    BY <1>2 DEF Write, Step
  <2>2. at = "write" /\ UNCHANGED txCircQueue
    BY <1>2 DEF Write, Step, stream
  <2>3. /\ avail \in Nat /\ avail <= Len(txCircQueue) /\ Len(txCircQueue) \in 0 .. TxCapacity
        /\ TxCapacity \in Nat
    BY <2>2, QueueLengths, StreamAssumption DEF Inv, Places, DriverTypeOK
  <2>4. n \in 1 .. TxCapacity /\ n <= Len(txCircQueue)
    BY <2>1, <2>3
  <2>5. SentQueue = txCircQueue /\ SentQueue' = SubSeq(txCircQueue, n + 1, Len(txCircQueue))
    BY <1>2, <2>1, <2>2 DEF SentQueue
  <2>6. Sent!Dequeue(n)
    BY <1>0, <2>1, <2>4, <2>5 DEF Sent!Dequeue, SentQueue
  <2> QED BY <2>4, <2>6 DEF SentStep
<1>3. CASE Close
  <2>1. written' = <<>> /\ UNCHANGED SentQueue
    BY <1>3 DEF Close, Step, SentQueue, stream
  <2> QED BY <1>0, <2>1 DEF SentStep, Sent!StartRead, SentQueue
<1>4. CASE /\ Accept \/ RXPos \/ Read \/ RXDone \/ TXPos \/ Write \/ WhoWaits \/ WakeWaiter \/ EndRound
           /\ at' # "txdone"
  <2>1. at # "txdone" /\ UNCHANGED <<txCircQueue, written>>
    BY <1>4 DEF Accept, RXPos, Read, RXDone, TXPos, Write, WhoWaits, WakeWaiter, EndRound, Step,
                stream, socket
  <2> QED BY <1>4, <2>1, SentUnchanged DEF SentQueue
<1>5. at' = "txdone" => Write
  BY DEF DriverStep, Accept, RXPos, Read, Close, RXDone, TXPos, TXDone, WhoWaits, WakeWaiter,
         EndRound, Step
<1> QED BY <1>1, <1>2, <1>3, <1>4, <1>5 DEF DriverStep

LEMMA SentOther ==
  ASSUME Inv, Inv', Peer \/ PeerGoes \/ UNCHANGED <<stream, tasks, driver, socket>>
  PROVE  SentStep
<1>1. UNCHANGED <<stream, tasks, driver>>
  BY DEF Peer, PeerGoes, PeerConnects, PeerSends, PeerTakes
<1>2. UNCHANGED <<Buf("tx"), SentQueue>>
  BY <1>1 DEF Buf, SentQueue, stream, tasks, driver
<1>3. CASE UNCHANGED written
  BY <1>2, <1>3, SentUnchanged
<1>4. CASE written' = <<>>
  BY <1>2, <1>4 DEF SentStep, Sent!StartRead, SentQueue
<1> QED BY <1>3, <1>4 DEF Peer, PeerGoes, PeerConnects, PeerSends, PeerTakes, socket

LEMMA SentLossless ==
  ASSUME Inv, SentStep
  PROVE  [Sent!Next]_Sent!vars /\ [\A n \in 1 .. TxCapacity : ~Sent!Discard(n)]_Sent!vars
<1>1. Sent!Next
  BY DEF SentStep, Sent!Next
<1>2. Moves(TxCapacity, Buf("tx"), SentQueue, written, Buf("tx")', SentQueue', written')
  <2>1. CASE Sent!StartWrite \/ Sent!StartRead
    BY <2>1 DEF Sent!StartWrite, Sent!StartRead, SentQueue, Moves
  <2>2. ASSUME NEW n \in 1 .. TxCapacity, Sent!Enqueue(n)
        PROVE  Moves(TxCapacity, Buf("tx"), SentQueue, written, Buf("tx")', SentQueue', written')
    BY <2>2, Zenon DEF Sent!Enqueue, SentQueue, Moves
  <2>3. ASSUME NEW n \in 1 .. TxCapacity, Sent!Dequeue(n)
        PROVE  Moves(TxCapacity, Buf("tx"), SentQueue, written, Buf("tx")', SentQueue', written')
    BY <2>3, Zenon DEF Sent!Dequeue, SentQueue, Moves
  <2> QED BY <2>1, <2>2, <2>3 DEF SentStep
<1>3. /\ TxCapacity \in Nat
      /\ Buf("tx") \in Seq(Byte) /\ SentQueue \in Seq(Byte) /\ written \in Seq(Byte)
  BY StreamAssumption, SentQueueType, BufType DEF Inv, DriverTypeOK, Direction
<1>4. ASSUME NEW n \in 1 .. TxCapacity, Sent!Discard(n) PROVE FALSE
  <2>1. /\ n <= Len(SentQueue) /\ SentQueue' = SubSeq(SentQueue, n + 1, Len(SentQueue))
        /\ Buf("tx")' = Buf("tx") /\ written' = written
    BY <1>4, Zenon DEF Sent!Discard, SentQueue
  <2> QED BY <1>2, <1>3, <2>1, MovesDiscardNothing
<1> QED BY <1>1, <1>4

LEMMA SentInit == Init => Sent!Init
BY DEF Init, StreamInit, Sent!Init, Buf, Direction

LEMMA SentNext ==
  Inv /\ Inv' /\ Locks /\ [Next]_vars =>
    [Sent!Next]_Sent!vars /\ [\A n \in 1 .. TxCapacity : ~Sent!Discard(n)]_Sent!vars
<1> SUFFICES ASSUME Inv, Inv', Locks, [Next]_vars PROVE SentStep
  BY SentLossless
<1> QED BY Steps, SentCall, SentDriver, SentOther

\* The bytes that the driver writes to its connections are those that the
\* tasks sent, in order and each once, for every ring and any traffic in both
\* directions, however the tasks and the driver interleave (with wakes and
\* ticks within RoomForWake and RoomForTick) and whatever write takes.
THEOREM SendsInOrder == Spec => SendIsFifo
<1>1. Spec => [](Inv /\ Locks)
  BY InitInv, NextInv, InitLocks, NextLocks, PTL DEF Spec, Init
<1>2. Spec => Sent!Init
  BY SentInit, PTL DEF Spec
<1>3. Spec => [][Sent!Next]_Sent!vars
  BY <1>1, SentNext, NextInv, PTL DEF Spec
<1>4. Spec => [][\A n \in 1 .. TxCapacity : ~Sent!Discard(n)]_Sent!vars
  BY <1>1, SentNext, NextInv, PTL DEF Spec
<1> QED BY <1>2, <1>3, <1>4, PTL DEF SendIsFifo, Sent!Lossless, Sent!Spec

-----------------------------------------------------------------------------
(* What is received.  Bytes enter the abstract queue when the driver reads *)
(* them to the ring, and are handed over a little later.                   *)

ReceivedQueue == rxCircQueue \o read

ReceivedStep ==
  \/ Received!StartWrite \/ Received!StartRead
  \/ \E n \in 1 .. RxCapacity : Received!Enqueue(n) \/ Received!Dequeue(n)

LEMMA ReceivedQueueType ==
  ASSUME Inv
  PROVE  /\ ReceivedQueue \in Seq(Byte)
         /\ at # "rxdone" => read = <<>> /\ ReceivedQueue = rxCircQueue
<1>1. rxCircQueue \in Seq(Byte) /\ read \in Seq(Byte)
  BY DEF Inv, StreamTypeOK, DriverTypeOK
<1>2. ReceivedQueue \in Seq(Byte)
  BY <1>1, ConcatProperties DEF ReceivedQueue
<1>3. ASSUME at # "rxdone" PROVE read = <<>> /\ ReceivedQueue = rxCircQueue
  <2>1. read = <<>>
    BY <1>3 DEF Inv, Places
  <2> QED BY <1>1, <2>1, ConcatEmptySeq DEF ReceivedQueue
<1> QED BY <1>2, <1>3

LEMMA ReceivedUnchanged ==
  ASSUME Inv', UNCHANGED <<ReceivedQueue, Buf("rx")>>
  PROVE  ReceivedStep
<1>1. toRead' \in Seq(Byte)
  BY DEF Inv, DriverTypeOK
<1> QED BY <1>1 DEF ReceivedStep, Received!StartWrite, ReceivedQueue

LEMMA ReceivedGet ==
  ASSUME Inv, Inv', Locks, NEW t \in Task, Get(t), UNCHANGED <<driver, socket>>
  PROVE  ReceivedStep
<1>1. UNCHANGED <<at, read, toRead>>
  BY DEF driver, socket
<1>2. CASE UNCHANGED <<rxCircQueue, Buf("rx")>>
  <2>1. UNCHANGED <<ReceivedQueue, Buf("rx")>>
    BY <1>1, <1>2 DEF ReceivedQueue
  <2> QED BY <2>1, ReceivedUnchanged
<1>3. CASE ~UNCHANGED <<rxCircQueue, Buf("rx")>>
  <2>1. PICK n \in 1 .. RxCapacity :
          /\ n <= Len(rxCircQueue)
          /\ Buf("rx")' = Buf("rx") \o SubSeq(rxCircQueue, 1, n)
          /\ rxCircQueue' = SubSeq(rxCircQueue, n + 1, Len(rxCircQueue))
    BY <1>3, GetMoves DEF Inv
  <2>2. PICK q \in Seq(Byte), r \in Seq(Byte) : q = rxCircQueue /\ r = read
    BY DEF Inv, StreamTypeOK, DriverTypeOK
  <2>3. n \in 0 .. Len(q)
    BY <2>1, <2>2, LenProperties
  <2>4. /\ SubSeq(q \o r, 1, n) = SubSeq(q, 1, n)
        /\ SubSeq(q \o r, n + 1, Len(q \o r)) = SubSeq(q, n + 1, Len(q)) \o r
    BY <2>3, FrontOfSum
  <2>5. ReceivedQueue = q \o r /\ ReceivedQueue' = SubSeq(q, n + 1, Len(q)) \o r
    BY <1>1, <2>1, <2>2 DEF ReceivedQueue
  <2>6. n <= Len(ReceivedQueue)
    <3>1. Len(q \o r) = Len(q) + Len(r) /\ Len(q) \in Nat /\ Len(r) \in Nat
      BY ConcatProperties, LenProperties
    <3> QED BY <2>3, <2>5, <3>1
  <2>7. /\ n <= Len(ReceivedQueue)
        /\ Buf("rx")' = Buf("rx") \o SubSeq(ReceivedQueue, 1, n)
        /\ ReceivedQueue' = SubSeq(ReceivedQueue, n + 1, Len(ReceivedQueue))
        /\ UNCHANGED toRead
    BY <1>1, <2>1, <2>2, <2>4, <2>5, <2>6, Zenon
  <2>8. Received!Dequeue(n)
    BY <2>7, Zenon DEF Received!Dequeue, ReceivedQueue
  <2> QED BY <2>8 DEF ReceivedStep
<1> QED BY <1>2, <1>3

LEMMA ReceivedCall ==
  ASSUME Inv, Inv', Locks, NEW t \in Task, CallStep(t), UNCHANGED <<driver, socket>>
  PROVE  ReceivedStep
<1>1. CASE Get(t)
  BY <1>1, ReceivedGet
<1>2. CASE ~Get(t)
  <2>1. UNCHANGED <<ReceivedQueue, toRead>>
    BY <1>2 DEF CallStep, Send, Receive, Lock, Announce, GetWakeCount, Put, CallBack, Test, Wait,
                Unlock, stream, ReceivedQueue, driver, socket
  <2>2. Buf("rx")' = Buf("rx") \/ Buf("rx")' = <<>>
    BY <1>2, BufKept, LockedBuf, UnlockedBuf DEF Inv
  <2>3. CASE Buf("rx")' = Buf("rx")
    BY <2>1, <2>3, ReceivedUnchanged
  <2>4. CASE Buf("rx")' = <<>>
    BY <2>1, <2>4 DEF ReceivedStep, Received!StartRead, ReceivedQueue
  <2> QED BY <2>2, <2>3, <2>4
<1> QED BY <1>1, <1>2

LEMMA ReceivedDriver ==
  ASSUME Inv, Inv', DriverStep
  PROVE  ReceivedStep
<1>0. UNCHANGED Buf("rx")
  BY DriverLeavesCalls DEF Buf
<1>1. CASE RXDone
  <2>1. rxCircQueue' = rxCircQueue \o read /\ read' = <<>>
    BY <1>1 DEF RXDone
  <2>2. ReceivedQueue' = ReceivedQueue
    <3>1. PICK q \in Seq(Byte) : q = ReceivedQueue
      BY ReceivedQueueType
    <3>2. q \o <<>> = q
      BY ConcatEmptySeq
    <3> QED BY <2>1, <3>1, <3>2 DEF ReceivedQueue
  <2> QED BY <1>0, <2>2, ReceivedUnchanged
<1>2. CASE Read /\ at' = "rxdone"
  <2>1. PICK n \in 1 .. Len(toRead) :
          /\ n <= avail /\ read' = SubSeq(toRead, 1, n)
          /\ toRead' = SubSeq(toRead, n + 1, Len(toRead))
    BY <1>2 DEF Read, Step
  <2>2. at = "read" /\ UNCHANGED rxCircQueue
    BY <1>2 DEF Read, Step, stream
  <2>3. /\ avail \in Nat /\ avail <= RxRoom /\ Len(rxCircQueue) \in 0 .. RxCapacity
        /\ RxCapacity \in Nat /\ Len(toRead) \in Nat
    <3>1. Len(toRead) \in Nat
      BY LenProperties DEF Inv, DriverTypeOK
    <3> QED BY <2>2, <3>1, QueueLengths, StreamAssumption DEF Inv, Places, DriverTypeOK
  <2>4. n \in 1 .. RxCapacity /\ n <= Len(toRead) /\ Len(rxCircQueue) + n <= RxCapacity
    BY <2>1, <2>3 DEF RxRoom
  <2>5. ReceivedQueue = rxCircQueue
    BY <2>2, ReceivedQueueType
  <2>6. /\ n <= Len(toRead) /\ Len(ReceivedQueue) + n <= RxCapacity
        /\ ReceivedQueue' = ReceivedQueue \o SubSeq(toRead, 1, n)
        /\ toRead' = SubSeq(toRead, n + 1, Len(toRead))
        /\ UNCHANGED Buf("rx")
    <3>1. ReceivedQueue' = rxCircQueue \o SubSeq(toRead, 1, n)
      BY <2>1, <2>2 DEF ReceivedQueue
    <3> QED BY <1>0, <2>1, <2>4, <2>5, <3>1
  <2>7. Received!Enqueue(n)
    BY <2>6 DEF Received!Enqueue, ReceivedQueue
  <2> QED BY <2>4, <2>7 DEF ReceivedStep
<1>3. CASE /\ \/ Accept \/ RXPos \/ Close \/ TXPos \/ Write \/ TXDone \/ WhoWaits \/ WakeWaiter
              \/ EndRound
              \/ Read /\ at' # "rxdone"
  <2>1. UNCHANGED ReceivedQueue
    BY <1>3 DEF Accept, RXPos, Read, Close, TXPos, Write, TXDone, WhoWaits, WakeWaiter, EndRound,
                Step, stream, ReceivedQueue
  <2> QED BY <1>0, <2>1, ReceivedUnchanged
<1> QED BY <1>1, <1>2, <1>3 DEF DriverStep

LEMMA ReceivedOther ==
  ASSUME Inv, Inv', Peer \/ PeerGoes \/ UNCHANGED <<stream, tasks, driver, socket>>
  PROVE  ReceivedStep
<1>1. UNCHANGED <<stream, tasks, driver>>
  BY DEF Peer, PeerGoes, PeerConnects, PeerSends, PeerTakes
<1>2. UNCHANGED <<Buf("rx"), ReceivedQueue>>
  BY <1>1 DEF Buf, ReceivedQueue, stream, tasks, driver
<1> QED BY <1>2, ReceivedUnchanged

LEMMA ReceivedLossless ==
  ASSUME Inv, ReceivedStep
  PROVE  [Received!Next]_Received!vars /\ [\A n \in 1 .. RxCapacity : ~Received!Discard(n)]_Received!vars
<1>1. Received!Next
  BY DEF ReceivedStep, Received!Next
<1>2. Moves(RxCapacity, toRead, ReceivedQueue, Buf("rx"), toRead', ReceivedQueue', Buf("rx")')
  <2>1. CASE Received!StartWrite \/ Received!StartRead
    BY <2>1 DEF Received!StartWrite, Received!StartRead, ReceivedQueue, Moves
  <2>2. ASSUME NEW n \in 1 .. RxCapacity, Received!Enqueue(n)
        PROVE  Moves(RxCapacity, toRead, ReceivedQueue, Buf("rx"), toRead', ReceivedQueue', Buf("rx")')
    BY <2>2, Zenon DEF Received!Enqueue, ReceivedQueue, Moves
  <2>3. ASSUME NEW n \in 1 .. RxCapacity, Received!Dequeue(n)
        PROVE  Moves(RxCapacity, toRead, ReceivedQueue, Buf("rx"), toRead', ReceivedQueue', Buf("rx")')
    BY <2>3, Zenon DEF Received!Dequeue, ReceivedQueue, Moves
  <2> QED BY <2>1, <2>2, <2>3 DEF ReceivedStep
<1>3. /\ RxCapacity \in Nat
      /\ toRead \in Seq(Byte) /\ ReceivedQueue \in Seq(Byte) /\ Buf("rx") \in Seq(Byte)
  BY StreamAssumption, ReceivedQueueType, BufType DEF Inv, DriverTypeOK, Direction
<1>4. ASSUME NEW n \in 1 .. RxCapacity, Received!Discard(n) PROVE FALSE
  <2>1. /\ n <= Len(ReceivedQueue) /\ ReceivedQueue' = SubSeq(ReceivedQueue, n + 1, Len(ReceivedQueue))
        /\ toRead' = toRead /\ Buf("rx")' = Buf("rx")
    BY <1>4, Zenon DEF Received!Discard, ReceivedQueue
  <2> QED BY <1>2, <1>3, <2>1, MovesDiscardNothing
<1> QED BY <1>1, <1>4

LEMMA ReceivedInit == Init => Received!Init
<1> SUFFICES ASSUME Init PROVE Received!Init
  OBVIOUS
<1>1. rxCircQueue = <<>> /\ read = <<>> /\ toRead = <<>> /\ Buf("rx") = <<>>
  BY DEF Init, StreamInit, Buf, Direction
<1>2. rxCircQueue \o read = <<>>
  BY <1>1, EmptySeq, ConcatEmptySeq
<1> QED BY <1>1, <1>2 DEF Received!Init

LEMMA ReceivedNext ==
  Inv /\ Inv' /\ Locks /\ [Next]_vars =>
    [Received!Next]_Received!vars
    /\ [\A n \in 1 .. RxCapacity : ~Received!Discard(n)]_Received!vars
<1> SUFFICES ASSUME Inv, Inv', Locks, [Next]_vars PROVE ReceivedStep
  BY ReceivedLossless
<1> QED BY Steps, ReceivedCall, ReceivedDriver, ReceivedOther

\* The bytes that tasks receive are those that the driver reads from its
\* connections, in order and each once, for every ring and any traffic in both
\* directions, whichever tasks receive and however connections end (with wakes
\* and ticks within RoomForWake and RoomForTick).
THEOREM ReceivesInOrder == Spec => ReceiveIsFifo
<1>1. Spec => [](Inv /\ Locks)
  BY InitInv, NextInv, InitLocks, NextLocks, PTL DEF Spec, Init
<1>2. Spec => Received!Init
  BY ReceivedInit, PTL DEF Spec
<1>3. Spec => [][Received!Next]_Received!vars
  BY <1>1, ReceivedNext, NextInv, PTL DEF Spec
<1>4. Spec => [][\A n \in 1 .. RxCapacity : ~Received!Discard(n)]_Received!vars
  BY <1>1, ReceivedNext, NextInv, PTL DEF Spec
<1> QED BY <1>2, <1>3, <1>4, PTL DEF ReceiveIsFifo, Received!Lossless, Received!Spec

-----------------------------------------------------------------------------
(* USB.  Who starts a packet has the bytes or the room for it, and nobody  *)
(* else starts one: the lock keeps other tasks away, txInProg and rxInProg *)
(* the handler.                                                            *)

IfaceTypeOK ==
  /\ txInProg \in BOOLEAN /\ rxInProg \in BOOLEAN
  /\ txNumBytes \in 0 .. MaxPacket /\ count \in [Task -> 0 .. MaxPacket]
  /\ txState \in {"idle", "busy", "taken"} /\ rxState \in {"off", "on", "arrived"}
  /\ txPacket \in Seq(Byte) /\ rxPacket \in Seq(Byte)

\* A task in CDC_StartTx, and one in CDC_StartRx.
StartsTx(t) ==
  /\ pc[t] \in {"pos", "mark"} => ~txInProg
  /\ pc[t] \in {"mark", "start"} => count[t] \in 1 .. Len(txCircQueue)
  /\ pc[t] = "start" => txInProg /\ txState = "idle" /\ txNumBytes = count[t]

StartsRx(t) ==
  /\ pc[t] \in {"pos", "mark"} => ~rxInProg
  /\ pc[t] \in {"mark", "start"} => RxRoom >= MaxPacket
  /\ pc[t] = "start" => rxInProg /\ rxState = "off"

\* A packet is the front of the ring.
TxPackets ==
  /\ txState = "idle" => txPacket = <<>>
  /\ txState # "idle" => /\ txInProg /\ txNumBytes \in 1 .. Len(txCircQueue)
                         /\ txPacket = SubSeq(txCircQueue, 1, txNumBytes)

\* There is room for the packet that arrives.
RxPackets ==
  /\ rxState # "off" => rxInProg
  /\ rxState = "on" => RxRoom >= MaxPacket
  /\ rxState = "arrived" => Len(rxPacket) \in 1 .. MaxPacket /\ Len(rxPacket) <= RxRoom
  /\ rxState # "arrived" => rxPacket = <<>>

CDCInv ==
  /\ Apart
  /\ StreamTypeOK /\ IfaceTypeOK /\ Locks
  /\ \A t \in Task : (Dir(t) = "tx" => StartsTx(t)) /\ (Dir(t) = "rx" => StartsRx(t))
  /\ TxPackets /\ RxPackets

LEMMA CDCInvTypeOK == CDCInv => CDCTypeOK
BY DEF CDCInv, IfaceTypeOK, CDCTypeOK

LEMMA PacketSizes == MaxPacket \in Nat \ {0} /\ MaxPacket <= RxCapacity
BY PacketAssumption, StreamAssumption

LEMMA StreamStart == StreamInit => StreamTypeOK
<1>1. <<>> \in Seq(Byte) /\ Len(<<>>) = 0
  BY EmptySeq
<1> QED BY <1>1, StreamAssumption DEF StreamInit, StreamTypeOK, Direction, NoCall

LEMMA CDCInitInv == Apart /\ CDCInit => CDCInv
<1> SUFFICES ASSUME Apart, CDCInit PROVE CDCInv
  OBVIOUS
<1>1. StreamTypeOK /\ Locks
  BY StreamStart, InitLocks DEF CDCInit
<1>2. IfaceTypeOK
  <2>1. <<>> \in Seq(Byte) /\ 0 \in 0 .. MaxPacket
    BY PacketSizes, EmptySeq
  <2> QED BY <2>1 DEF CDCInit, IfaceTypeOK
<1>3. \A t \in Task : StartsTx(t) /\ StartsRx(t)
  BY DEF CDCInit, StreamInit, StartsTx, StartsRx
<1>4. TxPackets /\ RxPackets
  BY DEF CDCInit, TxPackets, RxPackets
<1> QED BY <1>1, <1>2, <1>3, <1>4 DEF CDCInv

-----------------------------------------------------------------------------
(* Packets.                                                                *)

LEMMA LesserOfTwo ==
  ASSUME NEW m \in Nat, NEW n \in Nat
  PROVE  /\ Min({m, n}) \in Nat /\ Min({m, n}) <= m /\ Min({m, n}) <= n
         /\ m <= n => Min({m, n}) = m
<1>1. \E x \in {m, n} : \A y \in {m, n} : x <= y
  <2>1. CASE m <= n
    BY <2>1
  <2>2. CASE n <= m
    BY <2>2
  <2> QED BY <2>1, <2>2
<1>2. Min({m, n}) \in {m, n} /\ \A y \in {m, n} : Min({m, n}) <= y
  BY <1>1 DEF Min
<1> QED BY <1>2

\* What ZeroCopyTXPos finds is in the ring.
LEMMA TransmitFront ==
  ASSUME NEW q \in Seq(Byte), NEW n \in 0 .. MaxPacket, MayTransmit(q, n), n # 0
  PROVE  n \in 1 .. Len(q)
<1>1. q # <<>> /\ n \in 1 .. Min({Len(q), MaxPacket})
  BY DEF MayTransmit
<1>2. Len(q) \in Nat /\ MaxPacket \in Nat
  BY LenProperties, PacketSizes
<1>3. Min({Len(q), MaxPacket}) <= Len(q) /\ Min({Len(q), MaxPacket}) \in Nat
  BY <1>2, LesserOfTwo
<1> QED BY <1>1, <1>2, <1>3

\* Packet memory that does not overlap is not overwritten.
LEMMA NotOverwritten ==
  ASSUME NEW p \in Seq(Byte), NEW o \in Seq(Byte), NEW a \in Nat, NEW b \in Nat,
         Len(o) + b <= a \/ Len(p) + a <= b
  PROVE  Overwritten(p, a, o, b) = p
<1>1. DOMAIN p = 1 .. Len(p) /\ DOMAIN o = 1 .. Len(o) /\ Len(p) \in Nat /\ Len(o) \in Nat
  BY LenProperties
<1>2. \A k \in DOMAIN p : k + a - b \notin DOMAIN o
  BY <1>1
<1>3. Overwritten(p, a, o, b) = [k \in DOMAIN p |-> p[k]]
  BY <1>2 DEF Overwritten
<1>4. p = [k \in DOMAIN p |-> p[k]]
  BY <1>1
<1> QED BY <1>3, <1>4

\* A packet that is started does not change the other endpoint's.
LEMMA Transmits ==
  ASSUME CDCInv, txState # "busy", NEW q \in Seq(Byte), NEW n \in 1 .. Len(q), n <= MaxPacket,
         TransmitPacket(q, n)
  PROVE  /\ txState' = "busy" /\ rxPacket' = rxPacket
         /\ txPacket' = SubSeq(q, 1, n) /\ txPacket' \in Seq(Byte) /\ Len(txPacket') = n
<1>1. /\ txState' = "busy" /\ txPacket' = SubSeq(q, 1, n)
      /\ rxPacket' = Overwritten(rxPacket, OutOffset, txPacket', 0)
  BY DEF TransmitPacket
<1>2. n \in 0 .. Len(q)
  BY LenProperties
<1>3. txPacket' \in Seq(Byte) /\ Len(txPacket') = n
  BY <1>1, <1>2, Parts
<1>4. PICK x \in Seq(Byte) : x = txPacket' /\ Len(x) = n
  BY <1>3
<1>5. PICK p \in Seq(Byte) : p = rxPacket
  BY DEF CDCInv, IfaceTypeOK
<1>6. Len(x) + 0 <= OutOffset /\ OutOffset \in Nat /\ 0 \in Nat
  BY <1>2, <1>4, PacketSizes, PacketAssumption DEF CDCInv, Apart
<1>7. Overwritten(p, OutOffset, x, 0) = p
  BY <1>6, NotOverwritten
<1> QED BY <1>1, <1>3, <1>4, <1>5, <1>7

-----------------------------------------------------------------------------
(* Steps of calls.                                                         *)

LEMMA CallStreamTypes ==
  ASSUME StreamTypeOK, NEW t \in Task, CallStep(t)
  PROVE  /\ StreamTypeOK' /\ Len(rxCircQueue') <= Len(rxCircQueue)
         /\ \E x \in Seq(Byte) : txCircQueue' = txCircQueue \o x
<1>1. txCircQueue \in Seq(Byte) /\ Len(rxCircQueue) \in Nat
  BY QueueLengths DEF StreamTypeOK
<1>2. ASSUME UNCHANGED txCircQueue PROVE \E x \in Seq(Byte) : txCircQueue' = txCircQueue \o x
  <2>1. <<>> \in Seq(Byte) /\ txCircQueue' = txCircQueue \o <<>>
    BY <1>1, <1>2, ConcatEmptySeq, EmptySeq
  <2> WITNESS <<>> \in Seq(Byte)
  <2> QED BY <2>1
<1>3. ASSUME rxCircQueue' = rxCircQueue PROVE Len(rxCircQueue') <= Len(rxCircQueue)
  BY <1>1, <1>3
<1>4. CASE Put(t)
  <2>1. StreamTypeOK' /\ rxCircQueue' = rxCircQueue
    BY <1>4, PutTypes
  <2>2. ASSUME ~UNCHANGED txCircQueue PROVE \E x \in Seq(Byte) : txCircQueue' = txCircQueue \o x
    <3>1. PICK n \in 1 .. Len(call[t].buf) : txCircQueue' = txCircQueue \o SubSeq(call[t].buf, 1, n)
      BY <1>4, <2>2 DEF Put
    <3>2. call[t].buf \in Seq(Byte)
      BY DEF StreamTypeOK
    <3>3. n \in 0 .. Len(call[t].buf)
      BY <3>2, LenProperties
    <3>4. SubSeq(call[t].buf, 1, n) \in Seq(Byte)
      BY <3>2, <3>3, Parts
    <3> QED BY <3>1, <3>4
  <2> QED BY <1>2, <1>3, <2>1, <2>2
<1>5. CASE Get(t)
  BY <1>2, <1>5, GetTypes
<1>6. CASE \/ \E buf \in Sends[t], block \in BOOLEAN : Send(t, buf, block)
           \/ \E len \in Lengths[t], block, all \in BOOLEAN : Receive(t, len, block, all)
  <2>1. StreamTypeOK' /\ UNCHANGED <<txCircQueue, rxCircQueue>>
    BY <1>6, CallTypes
  <2> QED BY <1>2, <1>3, <2>1
<1>7. CASE Lock(t) \/ Announce(t) \/ GetWakeCount(t) \/ CallBack(t) \/ Test(t) \/ Wait(t) \/ Unlock(t)
  <2>1. StreamTypeOK' /\ UNCHANGED <<txCircQueue, rxCircQueue>>
    BY <1>7, StreamTypes
  <2> QED BY <1>2, <1>3, <2>1
<1> QED BY <1>4, <1>5, <1>6, <1>7 DEF CallStep

\* The stream's steps are outside of the driver's.
LEMMA NotInDriver ==
  ASSUME StreamTypeOK, NEW t \in Task, CallStep(t)
  PROVE  pc'[t] \notin {"pos", "mark", "start"}
BY DEF StreamTypeOK, CallStep, Send, Receive, Lock, Announce, GetWakeCount, Put, Get, CallBack,
       Test, Wait, Unlock, Goto

\* Bytes that are sent do not change the front of the ring.
LEMMA SameFront ==
  ASSUME NEW q \in Seq(Byte), NEW x \in Seq(Byte), NEW n \in 1 .. Len(q)
  PROVE  n \in 1 .. Len(q \o x) /\ SubSeq(q \o x, 1, n) = SubSeq(q, 1, n)
<1>1. Len(q) \in Nat /\ Len(x) \in Nat /\ Len(q \o x) = Len(q) + Len(x)
  BY LenProperties, ConcatProperties
<1>2. n \in 0 .. Len(q)
  BY <1>1
<1> QED BY <1>1, <1>2, FrontOfSum

\* Steps that add at the senders' end and take at the receivers'.
LEMMA EndsKept ==
  ASSUME CDCInv, StreamTypeOK', UNCHANGED <<iface, usb>>,
         Len(rxCircQueue') <= Len(rxCircQueue),
         NEW x \in Seq(Byte), txCircQueue' = txCircQueue \o x
  PROVE  /\ IfaceTypeOK' /\ TxPackets' /\ RxPackets'
         /\ \A u \in Task : pc'[u] = pc[u] => (StartsTx(u) => StartsTx(u)') /\ (StartsRx(u) => StartsRx(u)')
<1>1. /\ UNCHANGED <<txInProg, rxInProg, txNumBytes, count, txState, rxState, txPacket, rxPacket>>
      /\ IfaceTypeOK /\ TxPackets /\ RxPackets
  BY DEF CDCInv, iface, usb
<1>2. IfaceTypeOK'
  BY <1>1 DEF IfaceTypeOK
<1>3. \A n \in 1 .. Len(txCircQueue) :
        n \in 1 .. Len(txCircQueue') /\ SubSeq(txCircQueue', 1, n) = SubSeq(txCircQueue, 1, n)
  BY SameFront DEF CDCInv, StreamTypeOK
<1>4. Len(rxCircQueue) \in Nat /\ Len(rxCircQueue') \in Nat /\ RxCapacity \in Nat
  BY QueueLengths, QueueLengthsNext, StreamAssumption DEF CDCInv
<1>5. MaxPacket \in Nat /\ Len(rxPacket) \in Nat
  BY <1>1, PacketSizes, LenProperties DEF IfaceTypeOK
<1>6. /\ RxRoom >= MaxPacket => RxRoom' >= MaxPacket
      /\ Len(rxPacket) <= RxRoom => Len(rxPacket) <= RxRoom'
  BY <1>4, <1>5 DEF RxRoom
<1>7. TxPackets'
  BY <1>1, <1>3 DEF TxPackets
<1>8. RxPackets'
  BY <1>1, <1>6 DEF RxPackets
<1>9. ASSUME NEW u \in Task, pc'[u] = pc[u]
      PROVE  (StartsTx(u) => StartsTx(u)') /\ (StartsRx(u) => StartsRx(u)')
  <2>1. StartsTx(u) => StartsTx(u)'
    BY <1>1, <1>3, <1>9 DEF StartsTx
  <2>2. StartsRx(u) => StartsRx(u)'
    BY <1>1, <1>6, <1>9 DEF StartsRx
  <2> QED BY <2>1, <2>2
<1> QED BY <1>2, <1>7, <1>8, <1>9

LEMMA CDCCallInv ==
  ASSUME CDCInv, NEW t \in Task, CallStep(t), UNCHANGED <<iface, usb>>
  PROVE  CDCInv'
<1>1. StreamTypeOK' /\ Len(rxCircQueue') <= Len(rxCircQueue)
  BY CallStreamTypes DEF CDCInv
<1>2. PICK x \in Seq(Byte) : txCircQueue' = txCircQueue \o x
  BY CallStreamTypes DEF CDCInv
<1>3. /\ IfaceTypeOK' /\ TxPackets' /\ RxPackets'
      /\ \A u \in Task : pc'[u] = pc[u] => (StartsTx(u) => StartsTx(u)') /\ (StartsRx(u) => StartsRx(u)')
  BY <1>1, <1>2, EndsKept
<1>4. Locks'
  BY TaskLocks DEF CDCInv
<1>5. ASSUME NEW u \in Task
      PROVE  ((Dir(u) = "tx" => StartsTx(u)) /\ (Dir(u) = "rx" => StartsRx(u)))'
  <2>1. CASE u = t
    <3>1. pc'[u] \notin {"pos", "mark", "start"}
      BY <2>1, NotInDriver DEF CDCInv
    <3> QED BY <3>1 DEF StartsTx, StartsRx
  <2>2. CASE u # t
    <3>1. pc'[u] = pc[u] /\ Dir(u)' = Dir(u)
      BY <2>2, OneTask DEF Others, CDCInv, Dir
    <3> QED BY <1>3, <3>1 DEF CDCInv
  <2> QED BY <2>1, <2>2
<1> QED BY <1>1, <1>3, <1>4, <1>5 DEF CDCInv, Apart

-----------------------------------------------------------------------------
(* CDC_StartTx and CDC_StartRx by a task.                                  *)

\* Two tasks are not in the driver for the same direction.
LEMMA Alone ==
  ASSUME Locks, NEW t \in Task, NEW u \in Task, Inside(t), Inside(u), Dir(t) = Dir(u)
  PROVE  t = u
BY DEF Locks

DriverPlaces == {"driver", "pos", "mark", "start", "test"}

\* What these steps do to the stream: they go on.
Moved(t) ==
  /\ pc[t] \in DriverPlaces
  /\ \E to \in DriverPlaces : pc' = [pc EXCEPT ![t] = to]
  /\ UNCHANGED <<stream, call, woken>>

LEMMA MovedStream ==
  ASSUME CDCInv, NEW t \in Task, Moved(t)
  PROVE  /\ StreamTypeOK' /\ Locks'
         /\ \A u \in Task : Dir(u)' = Dir(u) /\ (u # t => pc'[u] = pc[u])
         /\ RxRoom' = RxRoom
<1>1. PICK to \in DriverPlaces : pc' = [pc EXCEPT ![t] = to]
  BY DEF Moved
<1>2. /\ pc[t] \in DriverPlaces /\ UNCHANGED <<txCircQueue, rxCircQueue, hasCb, waitingFor, lock, call, woken>>
      /\ StreamTypeOK /\ Locks
  BY DEF Moved, stream, CDCInv
<1>3. pc \in [Task -> {"idle", "lock", "loop", "count", "move", "cb", "driver", "pos",
                       "mark", "start", "test", "wait", "unlock"}]
  BY <1>2 DEF StreamTypeOK
<1>4. StreamTypeOK'
  BY <1>1, <1>2 DEF StreamTypeOK, DriverPlaces
<1>5. \A u \in Task : Dir(u)' = Dir(u) /\ (u # t => pc'[u] = pc[u])
  BY <1>1, <1>2, <1>3 DEF Dir
<1>6. \A u \in Task : Inside(u)' <=> Inside(u)
  BY <1>1, <1>2, <1>3 DEF Inside, DriverPlaces
<1>7. Locks'
  <2>1. \A u \in Task : (Inside(u) => lock[Dir(u)] = u)'
    BY <1>2, <1>5, <1>6 DEF Locks
  <2>2. \A u \in Task : (pc[u] = "lock" /\ Dir(u) = "rx" => call[u].buf = <<>>)'
    BY <1>1, <1>2, <1>3 DEF Locks, Dir, DriverPlaces
  <2>3. \A d \in Direction : (lock[d] # None => Dir(lock[d]) = d /\ Inside(lock[d]))'
    <3> SUFFICES ASSUME NEW d \in Direction, lock[d] # None
                 PROVE  Dir(lock[d])' = d /\ Inside(lock[d])'
      BY <1>2
    <3>1. PICK u \in Task : u = lock[d]
      BY <1>2 DEF StreamTypeOK
    <3>2. Dir(u) = d /\ Inside(u)
      BY <1>2, <3>1 DEF Locks
    <3>3. Dir(u)' = d /\ Inside(u)'
      BY <1>5, <1>6, <3>2
    <3>4. u = lock'[d]
      BY <1>2, <3>1
    <3> QED BY <3>3, <3>4 DEF Dir, Inside
  <2> QED BY <2>1, <2>2, <2>3 DEF Locks
<1>8. RxRoom' = RxRoom
  BY <1>2 DEF RxRoom
<1> QED BY <1>4, <1>5, <1>7, <1>8

LEMMA StepsMove ==
  ASSUME NEW t \in Task,
         LookInProg(t) \/ TxPos(t) \/ RxPos(t) \/ MarkInProg(t) \/ StartTx(t) \/ StartRx(t)
  PROVE  Moved(t)
<1>1. CASE LookInProg(t)
  BY <1>1 DEF LookInProg, Goto, Moved, DriverPlaces
<1>2. CASE TxPos(t)
  BY <1>2 DEF TxPos, Goto, Moved, DriverPlaces
<1>3. CASE RxPos(t)
  BY <1>3 DEF RxPos, Goto, Moved, DriverPlaces
<1>4. CASE MarkInProg(t) \/ StartTx(t) \/ StartRx(t)
  BY <1>4 DEF MarkInProg, StartTx, StartRx, Goto, Moved, DriverPlaces
<1> QED BY <1>1, <1>2, <1>3, <1>4

\* Other tasks are not in the driver for that direction.
LEMMA OthersElsewhere ==
  ASSUME CDCInv, NEW t \in Task, pc[t] \in DriverPlaces, NEW u \in Task, u # t, Dir(u) = Dir(t)
  PROVE  pc[u] \notin {"pos", "mark", "start"}
BY Alone DEF CDCInv, Inside, DriverPlaces

\* Another task's part of the invariant: a step for one direction leaves the
\* other one's variables alone.
LEMMA OthersKept ==
  ASSUME CDCInv, NEW t \in Task, Moved(t), NEW u \in Task, u # t,
         \A v \in Task \ {t} : count'[v] = count[v],
         Dir(t) = "tx" => UNCHANGED <<rxInProg, rxState>>,
         Dir(t) = "rx" => UNCHANGED <<txInProg, txNumBytes, txState>>
  PROVE  ((Dir(u) = "tx" => StartsTx(u)) /\ (Dir(u) = "rx" => StartsRx(u)))'
<1>1. /\ pc'[u] = pc[u] /\ Dir(u)' = Dir(u) /\ UNCHANGED <<txCircQueue, RxRoom>>
      /\ pc[t] \in DriverPlaces /\ Dir(t) \in Direction /\ count'[u] = count[u]
  BY MovedStream DEF Moved, stream, Dir, CDCInv, StreamTypeOK
<1>2. CASE Dir(u) = Dir(t)
  <2>1. pc'[u] \notin {"pos", "mark", "start"}
    BY <1>1, <1>2, OthersElsewhere
  <2> QED BY <2>1 DEF StartsTx, StartsRx
<1>3. CASE Dir(u) # Dir(t) /\ Dir(u) = "tx"
  <2>1. StartsTx(u) /\ UNCHANGED <<txInProg, txNumBytes, txState>>
    BY <1>1, <1>3 DEF CDCInv, Direction
  <2>2. StartsTx(u)'
    BY <1>1, <2>1 DEF StartsTx
  <2> QED BY <1>1, <1>3, <2>2
<1>4. CASE Dir(u) # Dir(t) /\ Dir(u) = "rx"
  <2>1. StartsRx(u) /\ UNCHANGED <<rxInProg, rxState>>
    BY <1>1, <1>4 DEF CDCInv, Direction
  <2>2. StartsRx(u)'
    BY <1>1, <2>1 DEF StartsRx
  <2> QED BY <1>1, <1>4, <2>2
<1>5. CASE Dir(u) \notin {"tx", "rx"}
  BY <1>1, <1>5
<1> QED BY <1>2, <1>3, <1>4, <1>5

LEMMA StartTxInv ==
  ASSUME CDCInv, NEW t \in Task, LookInProg(t) \/ TxPos(t) \/ MarkInProg(t) \/ StartTx(t), Dir(t) = "tx"
  PROVE  CDCInv'
<1>1. Moved(t)
  BY StepsMove
<1>2. StreamTypeOK' /\ Locks' /\ Dir(t)' = "tx" /\ RxRoom' = RxRoom /\ UNCHANGED txCircQueue
  BY <1>1, MovedStream DEF Moved, stream
<1>3. /\ IfaceTypeOK /\ TxPackets /\ RxPackets /\ StartsTx(t)
      /\ txCircQueue \in Seq(Byte) /\ Len(txCircQueue) \in Nat
      /\ pc \in [Task -> {"idle", "lock", "loop", "count", "move", "cb", "driver", "pos",
                          "mark", "start", "test", "wait", "unlock"}]
  BY LenProperties DEF CDCInv, StreamTypeOK
<1>4. UNCHANGED <<rxInProg, rxState>> /\ \A v \in Task \ {t} : count'[v] = count[v]
  BY <1>3 DEF LookInProg, TxPos, MarkInProg, StartTx, iface, usb, IfaceTypeOK
<1>5. ASSUME NEW u \in Task, u # t
      PROVE  ((Dir(u) = "tx" => StartsTx(u)) /\ (Dir(u) = "rx" => StartsRx(u)))'
  BY <1>1, <1>4, <1>5, OthersKept
<1>6. UNCHANGED rxPacket /\ IfaceTypeOK' /\ TxPackets' /\ StartsTx(t)'
  <2>1. CASE LookInProg(t)
    <3>1. UNCHANGED <<txInProg, rxInProg, txNumBytes, count, txState, rxState, txPacket, rxPacket>>
      BY <2>1 DEF LookInProg, iface, usb
    <3>2. pc'[t] = "pos" => ~txInProg
      BY <1>3, <2>1 DEF LookInProg, Goto
    <3>3. pc'[t] \in {"pos", "test"}
      BY <1>3, <2>1 DEF LookInProg, Goto
    <3> QED BY <1>2, <1>3, <3>1, <3>2, <3>3 DEF IfaceTypeOK, TxPackets, StartsTx
  <2>2. CASE TxPos(t)
    <3>1. UNCHANGED <<txInProg, rxInProg, txNumBytes, txState, rxState, txPacket, rxPacket>>
      BY <2>2 DEF TxPos, usb
    <3>2. PICK n \in 0 .. MaxPacket :
            /\ MayTransmit(txCircQueue, n) /\ count' = [count EXCEPT ![t] = n]
            /\ pc[t] = "pos" /\ pc' = [pc EXCEPT ![t] = IF n = 0 THEN "test" ELSE "mark"]
      BY <2>2 DEF TxPos, Goto
    <3>3. n # 0 => n \in 1 .. Len(txCircQueue)
      BY <1>3, <3>2, TransmitFront
    <3>4. count' \in [Task -> 0 .. MaxPacket] /\ count'[t] = n
      BY <1>3, <3>2 DEF IfaceTypeOK
    <3>5. pc'[t] = IF n = 0 THEN "test" ELSE "mark"
      BY <1>3, <3>2
    <3>6. IfaceTypeOK' /\ TxPackets'
      BY <1>2, <1>3, <3>1, <3>4 DEF IfaceTypeOK, TxPackets
    <3>7. ~txInProg
      BY <1>3, <3>2 DEF StartsTx
    <3> QED BY <1>2, <3>1, <3>3, <3>4, <3>5, <3>6, <3>7 DEF StartsTx
  <2>3. CASE MarkInProg(t)
    <3>1. /\ txInProg' = TRUE /\ txNumBytes' = count[t] /\ pc[t] = "mark" /\ pc'[t] = "start"
          /\ UNCHANGED <<rxInProg, count, txState, rxState, txPacket, rxPacket>>
      BY <1>3, <2>3 DEF MarkInProg, Goto, usb
    <3>2. ~txInProg /\ count[t] \in 1 .. Len(txCircQueue) /\ txState = "idle"
      BY <1>3, <3>1 DEF StartsTx, TxPackets
    <3>3. IfaceTypeOK'
      BY <1>3, <3>1 DEF IfaceTypeOK
    <3> QED BY <1>2, <1>3, <3>1, <3>2, <3>3 DEF TxPackets, StartsTx
  <2>4. CASE StartTx(t)
    <3>1. /\ pc[t] = "start" /\ pc'[t] = "test" /\ TransmitPacket(txCircQueue, count[t])
          /\ count' = [count EXCEPT ![t] = 0]
          /\ UNCHANGED <<txInProg, rxInProg, txNumBytes, rxState>>
      BY <1>3, <2>4 DEF StartTx, Goto
    <3>2. /\ count[t] \in 1 .. Len(txCircQueue) /\ txInProg /\ txState = "idle"
          /\ txNumBytes = count[t] /\ count[t] <= MaxPacket
      BY <1>3, <3>1, PacketSizes DEF StartsTx, IfaceTypeOK
    <3>3. /\ txState' = "busy" /\ rxPacket' = rxPacket
          /\ txPacket' = SubSeq(txCircQueue, 1, count[t]) /\ txPacket' \in Seq(Byte)
      BY <1>3, <3>1, <3>2, Transmits
    <3>4. count' \in [Task -> 0 .. MaxPacket]
      BY <1>3, <3>1, PacketSizes DEF IfaceTypeOK
    <3>5. IfaceTypeOK'
      BY <1>3, <3>1, <3>3, <3>4 DEF IfaceTypeOK
    <3> QED BY <1>2, <3>1, <3>2, <3>3, <3>5 DEF TxPackets, StartsTx
  <2> QED BY <2>1, <2>2, <2>3, <2>4
<1>7. RxPackets'
  BY <1>2, <1>3, <1>4, <1>6 DEF RxPackets
<1> QED BY <1>2, <1>5, <1>6, <1>7 DEF CDCInv, Apart

LEMMA StartRxInv ==
  ASSUME CDCInv, NEW t \in Task, LookInProg(t) \/ RxPos(t) \/ MarkInProg(t) \/ StartRx(t), Dir(t) = "rx"
  PROVE  CDCInv'
<1>1. Moved(t)
  BY StepsMove
<1>2. StreamTypeOK' /\ Locks' /\ Dir(t)' = "rx" /\ RxRoom' = RxRoom /\ UNCHANGED txCircQueue
  BY <1>1, MovedStream DEF Moved, stream
<1>3. /\ IfaceTypeOK /\ TxPackets /\ RxPackets /\ StartsRx(t)
      /\ pc \in [Task -> {"idle", "lock", "loop", "count", "move", "cb", "driver", "pos",
                          "mark", "start", "test", "wait", "unlock"}]
  BY DEF CDCInv, StreamTypeOK
<1>4. UNCHANGED <<txInProg, txNumBytes, count, txState, txPacket, rxPacket>>
  BY DEF LookInProg, RxPos, MarkInProg, StartRx, iface, usb
<1>5. ASSUME NEW u \in Task, u # t
      PROVE  ((Dir(u) = "tx" => StartsTx(u)) /\ (Dir(u) = "rx" => StartsRx(u)))'
  BY <1>1, <1>4, <1>5, OthersKept
<1>6. rxInProg' \in BOOLEAN /\ rxState' \in {"off", "on", "arrived"} /\ RxPackets' /\ StartsRx(t)'
  <2>1. CASE LookInProg(t)
    <3>1. UNCHANGED <<rxInProg, rxState>>
      BY <2>1 DEF LookInProg, iface, usb
    <3>2. pc'[t] = "pos" => ~rxInProg
      BY <1>3, <2>1 DEF LookInProg, Goto
    <3>3. pc'[t] \in {"pos", "test"}
      BY <1>3, <2>1 DEF LookInProg, Goto
    <3> QED BY <1>2, <1>3, <1>4, <3>1, <3>2, <3>3 DEF IfaceTypeOK, RxPackets, StartsRx
  <2>2. CASE RxPos(t)
    <3>1. UNCHANGED <<rxInProg, rxState>>
      BY <2>2 DEF RxPos, iface, usb
    <3>2. pc[t] = "pos" /\ pc'[t] = IF RxRoom >= MaxPacket THEN "mark" ELSE "test"
      BY <1>3, <2>2 DEF RxPos, Goto, EnoughRoom
    <3> QED BY <1>2, <1>3, <1>4, <3>1, <3>2 DEF IfaceTypeOK, RxPackets, StartsRx
  <2>3. CASE MarkInProg(t)
    <3>1. rxInProg' = TRUE /\ pc[t] = "mark" /\ pc'[t] = "start" /\ UNCHANGED rxState
      BY <1>3, <2>3 DEF MarkInProg, Goto, usb
    <3> QED BY <1>2, <1>3, <1>4, <3>1 DEF IfaceTypeOK, RxPackets, StartsRx
  <2>4. CASE StartRx(t)
    <3>1. pc[t] = "start" /\ pc'[t] = "test" /\ rxState' = "on" /\ UNCHANGED rxInProg
      BY <1>3, <2>4 DEF StartRx, Goto, iface
    <3> QED BY <1>2, <1>3, <1>4, <3>1 DEF IfaceTypeOK, RxPackets, StartsRx
  <2> QED BY <2>1, <2>2, <2>3, <2>4
<1>7. TxPackets' /\ IfaceTypeOK'
  BY <1>2, <1>3, <1>4, <1>6 DEF TxPackets, IfaceTypeOK
<1> QED BY <1>2, <1>5, <1>6, <1>7 DEF CDCInv, Apart

-----------------------------------------------------------------------------
(* The handler and the host.                                               *)

\* What these steps do to the tasks: they may wake them.
Handles ==
  /\ UNCHANGED <<waitingFor, lock, pc, call, count>>
  /\ hasCb' \in [Direction -> BOOLEAN] /\ woken' \in [Task -> BOOLEAN]

LEMMA HandlesInv ==
  ASSUME CDCInv, Handles, IfaceTypeOK', TxPackets', RxPackets',
         txCircQueue' \in Seq(Byte), Len(txCircQueue') <= TxCapacity,
         rxCircQueue' \in Seq(Byte), Len(rxCircQueue') <= RxCapacity,
         \/ UNCHANGED <<txCircQueue, txInProg, txNumBytes, txState>>
         \/ txState # "idle" /\ txState' # "idle" /\ UNCHANGED <<txCircQueue, txInProg, txNumBytes>>
         \/ txState = "taken",
         \/ UNCHANGED <<rxCircQueue, rxInProg, rxState>>
         \/ rxState # "off"
  PROVE  CDCInv'
<1>1. StreamTypeOK'
  BY DEF CDCInv, StreamTypeOK, Handles
<1>2. Locks'
  BY SameLocks DEF CDCInv, Handles
<1>3. ASSUME NEW u \in Task
      PROVE  ((Dir(u) = "tx" => StartsTx(u)) /\ (Dir(u) = "rx" => StartsRx(u)))'
  <2>1. pc'[u] = pc[u] /\ Dir(u)' = Dir(u) /\ UNCHANGED count
    BY DEF Handles, Dir
  <2>2. ASSUME Dir(u) = "tx" PROVE StartsTx(u)'
    <3>1. StartsTx(u) /\ TxPackets
      BY <2>2 DEF CDCInv
    <3>2. CASE txState # "idle"
      <4>1. pc[u] \notin {"pos", "mark", "start"}
        BY <3>1, <3>2 DEF StartsTx, TxPackets
      <4> QED BY <2>1, <4>1 DEF StartsTx
    <3>3. CASE UNCHANGED <<txCircQueue, txInProg, txNumBytes, txState>>
      BY <2>1, <3>1, <3>3 DEF StartsTx
    <3> QED BY <3>2, <3>3
  <2>3. ASSUME Dir(u) = "rx" PROVE StartsRx(u)'
    <3>1. StartsRx(u) /\ RxPackets
      BY <2>3 DEF CDCInv
    <3>2. CASE rxState # "off"
      <4>1. pc[u] \notin {"pos", "mark", "start"}
        BY <3>1, <3>2 DEF StartsRx, RxPackets
      <4> QED BY <2>1, <4>1 DEF StartsRx
    <3>3. CASE UNCHANGED <<rxCircQueue, rxInProg, rxState>>
      BY <2>1, <3>1, <3>3 DEF StartsRx, RxRoom
    <3> QED BY <3>2, <3>3
  <2> QED BY <2>1, <2>2, <2>3
<1> QED BY <1>1, <1>2, <1>3 DEF CDCInv, Apart

LEMMA WakeTypes ==
  ASSUME StreamTypeOK, NEW D, WakeWaiting(D)
  PROVE  woken' \in [Task -> BOOLEAN]
BY DEF StreamTypeOK, WakeWaiting

LEMMA ConfigureInv == CDCInv /\ Configure => CDCInv'
<1> SUFFICES ASSUME CDCInv, Configure PROVE CDCInv'
  OBVIOUS
<1>1. UNCHANGED <<txCircQueue, rxCircQueue, waitingFor, lock, pc, call, iface, usb>>
  BY DEF Configure, SetCallbacks
<1>2. woken' \in [Task -> BOOLEAN] /\ hasCb' \in [Direction -> BOOLEAN]
  BY WakeTypes DEF Configure, SetCallbacks, CDCInv
<1>3. Handles
  BY <1>1, <1>2 DEF Handles, iface
<1>4. IfaceTypeOK' /\ TxPackets' /\ RxPackets'
  BY <1>1 DEF CDCInv, IfaceTypeOK, TxPackets, RxPackets, RxRoom, iface, usb
<1>5. UNCHANGED <<txInProg, txNumBytes, txState, rxInProg, rxState>>
  BY <1>1 DEF iface, usb
<1> QED BY <1>1, <1>3, <1>4, <1>5, HandlesInv DEF CDCInv, StreamTypeOK

\* The ring without the packet that the host has taken.
LEMMA TxDoneQueue ==
  ASSUME CDCInv, TxDone
  PROVE  /\ txCircQueue' = SubSeq(txCircQueue, txNumBytes + 1, Len(txCircQueue))
         /\ txNumBytes \in 1 .. Len(txCircQueue)
         /\ txCircQueue' \in Seq(Byte) /\ Len(txCircQueue') <= TxCapacity
         /\ Len(txPacket) = txNumBytes
<1>1. /\ txCircQueue' = SubSeq(txCircQueue, txNumBytes + 1, Len(txCircQueue))
      /\ txState = "taken"
  BY DEF TxDone, ZeroCopyTXDone
<1>2. txNumBytes \in 1 .. Len(txCircQueue) /\ txPacket = SubSeq(txCircQueue, 1, txNumBytes)
  BY <1>1 DEF CDCInv, TxPackets
<1>3. txCircQueue \in Seq(Byte) /\ Len(txCircQueue) \in 0 .. TxCapacity /\ TxCapacity \in Nat
  BY QueueLengths, StreamAssumption DEF CDCInv, StreamTypeOK
<1>4. txNumBytes \in 0 .. Len(txCircQueue)
  BY <1>2, <1>3
<1>5. txCircQueue' \in Seq(Byte) /\ Len(txCircQueue') = Len(txCircQueue) - txNumBytes
      /\ Len(txPacket) = txNumBytes
  BY <1>1, <1>2, <1>3, <1>4, Parts
<1>6. Len(txCircQueue') <= TxCapacity
  BY <1>3, <1>4, <1>5
<1> QED BY <1>1, <1>2, <1>5, <1>6

LEMMA TxDoneInv == CDCInv /\ TxDone => CDCInv' /\ rxPacket' = rxPacket
<1> SUFFICES ASSUME CDCInv, TxDone PROVE CDCInv' /\ rxPacket' = rxPacket
  OBVIOUS
<1>1. PICK n \in 0 .. MaxPacket :
        /\ MayTransmit(txCircQueue', n)
        /\ txInProg' = (n > 0) /\ txNumBytes' = n
        /\ IF n > 0 THEN TransmitPacket(txCircQueue', n)
                    ELSE txState' = "idle" /\ txPacket' = <<>> /\ UNCHANGED rxPacket
  BY DEF TxDone
<1>2. /\ txState = "taken"
      /\ UNCHANGED <<rxCircQueue, hasCb, waitingFor, lock, pc, call, rxInProg, count, rxState>>
  BY DEF TxDone
<1>3. txCircQueue' \in Seq(Byte) /\ Len(txCircQueue') <= TxCapacity
  BY TxDoneQueue
<1>4. StreamTypeOK /\ IfaceTypeOK /\ RxPackets
  BY DEF CDCInv
<1>5. Handles
  <2>1. woken' \in [Task -> BOOLEAN]
    BY <1>4, WakeTypes DEF TxDone, ZeroCopyTXDone
  <2> QED BY <1>2, <1>4, <2>1 DEF Handles, StreamTypeOK
<1>6. /\ rxPacket' = rxPacket /\ txPacket' \in Seq(Byte) /\ TxPackets'
      /\ txState' \in {"idle", "busy", "taken"} /\ txInProg' \in BOOLEAN
  <2>1. CASE n > 0
    <3>1. PICK q \in Seq(Byte) : q = txCircQueue'
      BY <1>3
    <3>2. n \in 1 .. Len(q) /\ n <= MaxPacket
      BY <1>1, <2>1, <3>1, PacketSizes, TransmitFront
    <3>3. TransmitPacket(q, n)
      BY <1>1, <2>1, <3>1
    <3>4. /\ txState' = "busy" /\ rxPacket' = rxPacket
          /\ txPacket' = SubSeq(q, 1, n) /\ txPacket' \in Seq(Byte)
      BY <1>2, <3>2, <3>3, Transmits
    <3> QED BY <1>1, <2>1, <3>1, <3>2, <3>4 DEF TxPackets
  <2>2. CASE ~(n > 0)
    BY <1>1, <2>2, EmptySeq DEF TxPackets
  <2> QED BY <2>1, <2>2
<1>7. IfaceTypeOK'
  BY <1>1, <1>2, <1>4, <1>6 DEF IfaceTypeOK
<1>8. RxPackets'
  BY <1>2, <1>4, <1>6 DEF RxPackets, RxRoom
<1>9. rxCircQueue' \in Seq(Byte) /\ Len(rxCircQueue') <= RxCapacity
  BY <1>2, <1>4 DEF StreamTypeOK
<1> QED BY <1>2, <1>3, <1>5, <1>6, <1>7, <1>8, <1>9, HandlesInv

\* A packet that arrived fits.
LEMMA RxDoneQueue ==
  ASSUME CDCInv, RxDone
  PROVE  /\ rxCircQueue' = rxCircQueue \o rxPacket /\ rxCircQueue' \in Seq(Byte)
         /\ Len(rxCircQueue) + Len(rxPacket) <= RxCapacity
         /\ Len(rxCircQueue') = Len(rxCircQueue) + Len(rxPacket)
         /\ Len(rxPacket) \in 1 .. RxCapacity
<1>1. rxState = "arrived" /\ DoRXChunk(rxPacket)
  BY DEF RxDone
<1>2. /\ rxCircQueue \in Seq(Byte) /\ rxPacket \in Seq(Byte)
      /\ Len(rxCircQueue) \in 0 .. RxCapacity /\ RxCapacity \in Nat /\ RxRoom \in Nat
  BY QueueLengths, StreamAssumption DEF CDCInv, StreamTypeOK, IfaceTypeOK
<1>3. Len(rxPacket) \in Nat /\ Len(rxPacket) # 0 /\ Len(rxPacket) <= RxRoom
  BY <1>1, <1>2, LenProperties DEF CDCInv, RxPackets
<1>4. Min({Len(rxPacket), RxRoom}) = Len(rxPacket)
  BY <1>2, <1>3, LesserOfTwo
<1>5. SubSeq(rxPacket, 1, Len(rxPacket)) = rxPacket
  BY <1>2, SubSeqFull
<1>6. rxCircQueue' = rxCircQueue \o rxPacket
  BY <1>1, <1>4, <1>5 DEF DoRXChunk
<1>7. rxCircQueue' \in Seq(Byte) /\ Len(rxCircQueue') = Len(rxCircQueue) + Len(rxPacket)
  BY <1>2, <1>6, ConcatProperties
<1>8. Len(rxCircQueue) + Len(rxPacket) <= RxCapacity /\ Len(rxPacket) \in 1 .. RxCapacity
  BY <1>2, <1>3 DEF RxRoom
<1> QED BY <1>6, <1>7, <1>8

LEMMA RxDoneInv == CDCInv /\ RxDone => CDCInv'
<1> SUFFICES ASSUME CDCInv, RxDone PROVE CDCInv'
  OBVIOUS
<1>1. /\ rxCircQueue' \in Seq(Byte) /\ Len(rxCircQueue') <= RxCapacity
  BY RxDoneQueue
<1>2. /\ rxState = "arrived" /\ rxPacket' = <<>>
      /\ rxInProg' = EnoughRoom(RxCapacity - Len(rxCircQueue'))
      /\ rxState' = IF rxInProg' THEN "on" ELSE "off"
      /\ UNCHANGED <<txCircQueue, hasCb, waitingFor, lock, pc, call, txInProg, txNumBytes, count,
                     txState, txPacket>>
  BY DEF RxDone
<1>3. StreamTypeOK /\ IfaceTypeOK /\ TxPackets
  BY DEF CDCInv
<1>4. Handles
  <2>1. woken' \in [Task -> BOOLEAN]
    BY <1>3, WakeTypes DEF RxDone, DoRXChunk
  <2> QED BY <1>2, <1>3, <2>1 DEF Handles, StreamTypeOK
<1>5. rxInProg' \in BOOLEAN /\ (rxInProg' <=> RxRoom' >= MaxPacket)
  <2>1. PICK room \in Int : room = RxCapacity - Len(rxCircQueue')
    BY <1>1, LenProperties, StreamAssumption
  <2>2. rxInProg' = (room >= MaxPacket) /\ RxRoom' = room
    BY <1>2, <2>1 DEF EnoughRoom, RxRoom
  <2>3. MaxPacket \in Int
    BY PacketSizes
  <2>4. (room >= MaxPacket) \in BOOLEAN
    BY <2>3
  <2> QED BY <2>2, <2>4, Zenon
<1>6. IfaceTypeOK'
  <2>1. rxPacket' \in Seq(Byte)
    BY <1>2, EmptySeq
  <2> QED BY <1>2, <1>3, <1>5, <2>1 DEF IfaceTypeOK
<1>7. TxPackets'
  BY <1>2, <1>3 DEF TxPackets
<1>8. RxPackets'
  BY <1>2, <1>5 DEF RxPackets
<1>9. txCircQueue' \in Seq(Byte) /\ Len(txCircQueue') <= TxCapacity
  BY <1>2, <1>3 DEF StreamTypeOK
<1> QED BY <1>1, <1>2, <1>4, <1>6, <1>7, <1>8, <1>9, HandlesInv

LEMMA HostTakesInv == CDCInv /\ HostTakes => CDCInv'
<1> SUFFICES ASSUME CDCInv, HostTakes PROVE CDCInv'
  OBVIOUS
<1>1. /\ txState = "busy" /\ txState' = "taken"
      /\ UNCHANGED <<stream, tasks, iface, rxState, txPacket, rxPacket>>
  BY DEF HostTakes
<1>2. StreamTypeOK /\ IfaceTypeOK /\ TxPackets /\ RxPackets
  BY DEF CDCInv
<1>3. UNCHANGED <<txCircQueue, rxCircQueue, txInProg, txNumBytes, rxInProg, count>>
  BY <1>1 DEF stream, iface
<1>4. Handles
  BY <1>1, <1>2, <1>3 DEF Handles, stream, tasks, StreamTypeOK
<1>5. IfaceTypeOK' /\ TxPackets' /\ RxPackets'
  BY <1>1, <1>2, <1>3 DEF IfaceTypeOK, TxPackets, RxPackets, RxRoom
<1>6. /\ txCircQueue' \in Seq(Byte) /\ Len(txCircQueue') <= TxCapacity
      /\ rxCircQueue' \in Seq(Byte) /\ Len(rxCircQueue') <= RxCapacity
  BY <1>2, <1>3 DEF StreamTypeOK
<1> QED BY <1>1, <1>3, <1>4, <1>5, <1>6, HandlesInv

\* What arrives does not change the packet that is being sent.
LEMMA HostSendsInv == CDCInv /\ HostSends => CDCInv' /\ txPacket' = txPacket
<1> SUFFICES ASSUME CDCInv, HostSends PROVE CDCInv' /\ txPacket' = txPacket
  OBVIOUS
<1>1. /\ rxState = "on" /\ rxState' = "arrived" /\ rxPacket' \in Packets
      /\ txPacket' = Overwritten(txPacket, 0, rxPacket', OutOffset)
      /\ UNCHANGED <<stream, tasks, iface, txState>>
  BY DEF HostSends
<1>2. StreamTypeOK /\ IfaceTypeOK /\ TxPackets /\ RxPackets
  BY DEF CDCInv
<1>3. UNCHANGED <<txCircQueue, rxCircQueue, txInProg, txNumBytes, rxInProg, count>>
  BY <1>1 DEF stream, iface
<1>4. Handles
  BY <1>1, <1>2, <1>3 DEF Handles, stream, tasks, StreamTypeOK
<1>5. PICK p \in Seq(Byte) : p = rxPacket' /\ Len(p) \in 1 .. MaxPacket
  BY <1>1, PacketAssumption
<1>6. txPacket' = txPacket
  <2>1. PICK x \in Seq(Byte) : x = txPacket /\ Len(x) <= MaxPacket
    <3>1. txPacket \in Seq(Byte)
      BY <1>2 DEF IfaceTypeOK
    <3>2. CASE txState = "idle"
      <4>1. txPacket = <<>> /\ Len(<<>>) = 0
        BY <1>2, <3>2, EmptySeq DEF TxPackets
      <4>2. 0 <= MaxPacket
        BY PacketSizes
      <4> QED BY <3>1, <4>1, <4>2
    <3>3. CASE txState # "idle"
      <4>1. txNumBytes \in 1 .. Len(txCircQueue) /\ txPacket = SubSeq(txCircQueue, 1, txNumBytes)
        BY <1>2, <3>3 DEF TxPackets
      <4>2. txNumBytes \in 0 .. Len(txCircQueue) /\ txCircQueue \in Seq(Byte)
        BY <1>2, <4>1, QueueLengths DEF StreamTypeOK
      <4>3. Len(txPacket) = txNumBytes
        BY <4>1, <4>2, Parts
      <4>4. txNumBytes <= MaxPacket
        BY <1>2, PacketSizes DEF IfaceTypeOK
      <4> QED BY <3>1, <4>3, <4>4
    <3> QED BY <3>2, <3>3
  <2>2. Len(x) + 0 <= OutOffset /\ OutOffset \in Nat /\ 0 \in Nat
    BY <2>1, PacketSizes, PacketAssumption, LenProperties DEF CDCInv, Apart
  <2>3. Overwritten(x, 0, p, OutOffset) = x
    BY <2>2, NotOverwritten
  <2> QED BY <1>1, <1>5, <2>1, <2>3
<1>7. IfaceTypeOK'
  BY <1>1, <1>2, <1>3, <1>5, <1>6 DEF IfaceTypeOK
<1>8. TxPackets'
  BY <1>1, <1>2, <1>3, <1>6 DEF TxPackets
<1>9. RxPackets'
  <2>1. MaxPacket <= RxRoom /\ RxRoom' = RxRoom /\ rxInProg' /\ RxRoom \in Nat /\ MaxPacket \in Nat
    BY <1>1, <1>2, <1>3, PacketSizes, QueueLengths DEF RxPackets, RxRoom
  <2>2. Len(rxPacket') <= RxRoom' /\ Len(rxPacket') \in 1 .. MaxPacket
    BY <1>5, <2>1
  <2> QED BY <1>1, <2>1, <2>2 DEF RxPackets
<1>10. /\ txCircQueue' \in Seq(Byte) /\ Len(txCircQueue') <= TxCapacity
       /\ rxCircQueue' \in Seq(Byte) /\ Len(rxCircQueue') <= RxCapacity
  BY <1>2, <1>3 DEF StreamTypeOK
<1> QED BY <1>1, <1>3, <1>4, <1>6, <1>7, <1>8, <1>9, <1>10, HandlesInv

LEMMA CDCUnchanged ==
  ASSUME CDCInv, UNCHANGED <<stream, pc, call, iface, usb>>, woken' \in [Task -> BOOLEAN]
  PROVE  CDCInv'
<1>1. UNCHANGED <<txCircQueue, rxCircQueue, hasCb, waitingFor, lock, txInProg, rxInProg, txNumBytes,
                  count, txState, rxState, txPacket, rxPacket>>
  BY DEF stream, iface, usb
<1>2. StreamTypeOK /\ IfaceTypeOK /\ TxPackets /\ RxPackets
  BY DEF CDCInv
<1>3. Handles
  BY <1>1, <1>2 DEF Handles, StreamTypeOK
<1>4. IfaceTypeOK' /\ TxPackets' /\ RxPackets'
  BY <1>1, <1>2 DEF IfaceTypeOK, TxPackets, RxPackets, RxRoom
<1>5. /\ txCircQueue' \in Seq(Byte) /\ Len(txCircQueue') <= TxCapacity
      /\ rxCircQueue' \in Seq(Byte) /\ Len(rxCircQueue') <= RxCapacity
  BY <1>1, <1>2 DEF StreamTypeOK
<1> QED BY <1>1, <1>3, <1>4, <1>5, HandlesInv

\* What a step is, where it can disturb the queues: a task's in the stream, one
\* of its in the driver, the handler's or the host's.
LEMMA CDCSteps ==
  ASSUME CDCTypeOK, [CDCNext]_cdcVars
  PROVE  \/ \E t \in Task : CallStep(t) /\ UNCHANGED <<iface, usb>>
         \/ \E t \in Task : LookInProg(t) \/ TxPos(t) \/ RxPos(t) \/ MarkInProg(t) \/ StartTx(t) \/ StartRx(t)
         \/ Configure \/ TxDone \/ RxDone \/ HostTakes \/ HostSends
         \/ UNCHANGED <<stream, pc, call, iface, usb>> /\ woken' \in [Task -> BOOLEAN]
<1>1. CASE CDCNext
  <2>1. ASSUME NEW t \in Task, CDCNewCall(t) \/ (StreamStep(t) /\ UNCHANGED <<iface, usb>>)
        PROVE  CallStep(t) /\ UNCHANGED <<iface, usb>>
    BY <2>1 DEF CDCNewCall, StreamStep, CallStep
  <2>2. ASSUME NEW t \in Task, OtherWake(t), UNCHANGED <<iface, usb>>
        PROVE  UNCHANGED <<stream, pc, call, iface, usb>> /\ woken' \in [Task -> BOOLEAN]
    BY <2>2 DEF OtherWake, CDCTypeOK, StreamTypeOK
  <2> QED BY <1>1, <2>1, <2>2 DEF CDCNext, CDCTaskStep, Handler
<1>2. CASE UNCHANGED cdcVars
  BY <1>2 DEF cdcVars, tasks, CDCTypeOK, StreamTypeOK
<1> QED BY <1>1, <1>2

LEMMA CDCNextInv == CDCInv /\ [CDCNext]_cdcVars => CDCInv'
<1> SUFFICES ASSUME CDCInv, [CDCNext]_cdcVars PROVE CDCInv'
  OBVIOUS
<1>1. ASSUME NEW t \in Task, CallStep(t), UNCHANGED <<iface, usb>> PROVE CDCInv'
  BY <1>1, CDCCallInv
<1>2. ASSUME NEW t \in Task,
             LookInProg(t) \/ TxPos(t) \/ RxPos(t) \/ MarkInProg(t) \/ StartTx(t) \/ StartRx(t)
      PROVE  CDCInv'
  <2>1. Dir(t) \in {"tx", "rx"}
    BY DEF CDCInv, StreamTypeOK, Dir, Direction
  <2>2. CASE Dir(t) = "tx"
    <3>1. ~RxPos(t) /\ ~StartRx(t)
      BY <2>2 DEF RxPos, StartRx
    <3> QED BY <1>2, <2>2, <3>1, StartTxInv
  <2>3. CASE Dir(t) = "rx"
    <3>1. ~TxPos(t) /\ ~StartTx(t)
      BY <2>3 DEF TxPos, StartTx
    <3> QED BY <1>2, <2>3, <3>1, StartRxInv
  <2> QED BY <2>1, <2>2, <2>3
<1>3. CASE Configure \/ TxDone \/ RxDone \/ HostTakes \/ HostSends
  BY <1>3, ConfigureInv, TxDoneInv, RxDoneInv, HostTakesInv, HostSendsInv
<1>4. CASE UNCHANGED <<stream, pc, call, iface, usb>> /\ woken' \in [Task -> BOOLEAN]
  BY <1>4, CDCUnchanged
<1> QED BY <1>1, <1>2, <1>3, <1>4, CDCSteps, CDCInvTypeOK

\* Whatever is sent and received, whoever starts packets and whenever the host
\* configures the device, rings are not overrun and no packet is longer than
\* the endpoint's; as everything here, of an interface whose packets lie apart.
THEOREM CDCTypesCorrect == Apart => (CDCSpec => []CDCTypeOK)
<1> SUFFICES ASSUME Apart PROVE CDCSpec => []CDCTypeOK
  OBVIOUS
<1>1. CDCSpec => []CDCInv
  <2>1. CDCInit => CDCInv
    BY CDCInitInv
  <2> QED BY <2>1, CDCNextInv, PTL DEF CDCSpec
<1> QED BY <1>1, CDCInvTypeOK, PTL

-----------------------------------------------------------------------------
(* What is sent to the host.  Bytes leave the abstract queue when the host *)
(* takes a packet, and the ring when the handler is told.                  *)

CDCSentQueue ==
  IF txState = "taken" THEN SubSeq(txCircQueue, Len(txPacket) + 1, Len(txCircQueue)) ELSE txCircQueue
CDCSentOut == IF txState = "taken" THEN txPacket ELSE <<>>

CDCSentStep ==
  Moves(TxCapacity, Buf("tx"), CDCSentQueue, CDCSentOut, Buf("tx")', CDCSentQueue', CDCSentOut')

\* The packet that the host has taken is the front of the ring.
LEMMA CDCTaken ==
  ASSUME CDCInv
  PROVE  /\ txCircQueue \in Seq(Byte) /\ Len(txCircQueue) \in 0 .. TxCapacity
         /\ txState # "idle" => /\ txNumBytes \in 1 .. Len(txCircQueue)
                                /\ txPacket = SubSeq(txCircQueue, 1, txNumBytes)
                                /\ Len(txPacket) = txNumBytes
<1>1. txCircQueue \in Seq(Byte) /\ Len(txCircQueue) \in 0 .. TxCapacity /\ TxCapacity \in Nat
  BY QueueLengths, StreamAssumption DEF CDCInv, StreamTypeOK
<1>2. ASSUME txState # "idle" PROVE Len(txPacket) = txNumBytes
  <2>1. txNumBytes \in 0 .. Len(txCircQueue) /\ txPacket = SubSeq(txCircQueue, 1, txNumBytes)
    BY <1>1, <1>2 DEF CDCInv, TxPackets
  <2> QED BY <1>1, <2>1, Parts
<1> QED BY <1>1, <1>2 DEF CDCInv, TxPackets

LEMMA CDCSentTypes ==
  ASSUME CDCInv
  PROVE  /\ CDCSentQueue \in Seq(Byte) /\ Len(CDCSentQueue) <= Len(txCircQueue)
         /\ CDCSentOut \in Seq(Byte)
<1>1. CASE txState = "taken"
  <2>1. /\ txCircQueue \in Seq(Byte) /\ Len(txCircQueue) \in Nat
        /\ Len(txPacket) \in 0 .. Len(txCircQueue)
    BY <1>1, CDCTaken
  <2>2. /\ CDCSentQueue \in Seq(Byte)
        /\ Len(CDCSentQueue) = Len(txCircQueue) - Len(txPacket)
    BY <1>1, <2>1, Parts DEF CDCSentQueue
  <2> QED BY <1>1, <2>1, <2>2 DEF CDCSentOut, CDCInv, IfaceTypeOK
<1>2. CASE txState # "taken"
  <2>1. CDCSentOut \in Seq(Byte)
    BY <1>2, EmptySeq DEF CDCSentOut
  <2> QED BY <1>2, <2>1, CDCTaken DEF CDCSentQueue
<1> QED BY <1>1, <1>2

LEMMA CDCSentSame ==
  ASSUME CDCInv', UNCHANGED txCircQueue,
         UNCHANGED <<txState, txPacket>> \/ (txState # "taken" /\ txState' # "taken")
  PROVE  CDCSentStep
<1>1. (Buf("tx") \in Seq(Byte))'
  BY BufTypeNext DEF CDCInv
<1>2. UNCHANGED <<CDCSentQueue, CDCSentOut>>
  BY DEF CDCSentQueue, CDCSentOut
<1> QED BY <1>1, <1>2 DEF CDCSentStep, Moves

LEMMA CDCSentCall ==
  ASSUME CDCInv, CDCInv', NEW t \in Task, CallStep(t), UNCHANGED <<iface, usb>>
  PROVE  CDCSentStep
<1>1. UNCHANGED <<txState, txPacket>>
  BY DEF usb
<1>2. CASE UNCHANGED txCircQueue
  BY <1>1, <1>2, CDCSentSame
<1>3. CASE ~UNCHANGED txCircQueue
  <2>1. Put(t)
    BY <1>3 DEF CallStep, Send, Receive, Lock, Announce, GetWakeCount, Get, CallBack, Test, Wait,
                Unlock, stream
  <2>2. PICK n \in 1 .. TxCapacity :
          /\ n <= Len(Buf("tx")) /\ Len(txCircQueue) + n <= TxCapacity
          /\ txCircQueue' = txCircQueue \o SubSeq(Buf("tx"), 1, n)
          /\ Buf("tx")' = SubSeq(Buf("tx"), n + 1, Len(Buf("tx")))
    BY <1>3, <2>1, PutMoves DEF CDCInv
  <2>3. PICK x \in Seq(Byte) : x = SubSeq(Buf("tx"), 1, n)
    <3>1. n \in 0 .. Len(Buf("tx")) /\ Buf("tx") \in Seq(Byte)
      BY <2>2, BufType, LenProperties DEF CDCInv, Direction
    <3> QED BY <3>1, Parts
  <2>4. CDCSentQueue' = CDCSentQueue \o x
    <3>1. txCircQueue' = txCircQueue \o x
      BY <2>2, <2>3
    <3>2. CASE txState = "taken"
      <4>1. PICK k \in 0 .. Len(txCircQueue) : k = Len(txPacket)
        BY <3>2, CDCTaken
      <4>2. SubSeq(txCircQueue \o x, k + 1, Len(txCircQueue \o x)) =
              SubSeq(txCircQueue, k + 1, Len(txCircQueue)) \o x
        BY <4>1, CDCTaken, FrontOfSum
      <4> QED BY <1>1, <3>1, <3>2, <4>1, <4>2 DEF CDCSentQueue
    <3>3. CASE txState # "taken"
      BY <1>1, <3>1, <3>3 DEF CDCSentQueue
    <3> QED BY <3>2, <3>3
  <2>5. Len(CDCSentQueue) + n <= TxCapacity
    <3>1. Len(CDCSentQueue) <= Len(txCircQueue) /\ Len(CDCSentQueue) \in Nat
      BY CDCSentTypes, LenProperties
    <3>2. Len(txCircQueue) \in Nat /\ TxCapacity \in Nat
      BY CDCTaken, StreamAssumption
    <3> QED BY <2>2, <3>1, <3>2
  <2>6. CDCSentOut' = CDCSentOut
    BY <1>1 DEF CDCSentOut
  <2> QED BY <2>2, <2>3, <2>4, <2>5, <2>6, Zenon DEF CDCSentStep, Moves
<1> QED BY <1>2, <1>3

LEMMA CDCSentHandler ==
  ASSUME CDCInv, CDCInv', Configure \/ TxDone \/ RxDone \/ HostTakes \/ HostSends
  PROVE  CDCSentStep
<1>1. CASE Configure \/ RxDone \/ HostSends
  <2>1. UNCHANGED <<txCircQueue, txState, txPacket>>
    BY <1>1, HostSendsInv DEF Configure, SetCallbacks, RxDone, HostSends, stream, usb
  <2> QED BY <2>1, CDCSentSame
<1>2. CASE TxDone
  <2>1. Buf("tx")' = Buf("tx")
    BY <1>2 DEF TxDone, Buf
  <2>2. txState = "taken" /\ txState' # "taken"
    BY <1>2 DEF TxDone, TransmitPacket
  <2>3. CDCSentQueue' = CDCSentQueue /\ CDCSentOut' = <<>>
    BY <1>2, <2>2, TxDoneQueue DEF CDCSentQueue, CDCSentOut
  <2> QED BY <2>1, <2>3 DEF CDCSentStep, Moves
<1>3. CASE HostTakes
  <2>1. /\ txState = "busy" /\ txState' = "taken"
        /\ UNCHANGED <<txCircQueue, lock, call, txPacket>>
    BY <1>3 DEF HostTakes, stream, tasks
  <2>2. PICK n \in 1 .. Len(txCircQueue) :
          txPacket = SubSeq(txCircQueue, 1, n) /\ Len(txPacket) = n
    BY <2>1, CDCTaken
  <2>3. n \in 1 .. TxCapacity /\ n <= Len(txCircQueue) /\ txPacket \in Seq(Byte)
    <3>1. Len(txCircQueue) \in 0 .. TxCapacity /\ TxCapacity \in Nat
      BY CDCTaken, StreamAssumption
    <3>2. n \in 1 .. TxCapacity /\ n <= Len(txCircQueue)
      BY <3>1
    <3> QED BY <3>2 DEF CDCInv, IfaceTypeOK
  <2>4. CDCSentQueue' = SubSeq(CDCSentQueue, n + 1, Len(CDCSentQueue))
    BY <2>1, <2>2 DEF CDCSentQueue
  <2>5. CDCSentOut' = CDCSentOut \o SubSeq(CDCSentQueue, 1, n)
    <3>1. <<>> \o txPacket = txPacket
      BY <2>3, ConcatEmptySeq
    <3> QED BY <2>1, <2>2, <3>1 DEF CDCSentOut, CDCSentQueue
  <2>6. Buf("tx")' = Buf("tx")
    BY <2>1 DEF Buf
  <2>7. n <= Len(CDCSentQueue)
    BY <2>1, <2>3 DEF CDCSentQueue
  <2> QED BY <2>3, <2>4, <2>5, <2>6, <2>7, Zenon DEF CDCSentStep, Moves
<1> QED BY <1>1, <1>2, <1>3

LEMMA CDCSentMoves ==
  ASSUME CDCInv, CDCInv', [CDCNext]_cdcVars
  PROVE  CDCSentStep
<1>1. ASSUME NEW t \in Task,
             LookInProg(t) \/ TxPos(t) \/ RxPos(t) \/ MarkInProg(t) \/ StartTx(t) \/ StartRx(t)
      PROVE  CDCSentStep
  <2>1. UNCHANGED txCircQueue
    BY <1>1, StepsMove DEF Moved, stream
  <2>2. CASE StartTx(t)
    <3>1. Dir(t) = "tx" /\ pc[t] = "start" /\ TransmitPacket(txCircQueue, count[t])
      BY <2>2 DEF StartTx, Goto
    <3>2. txState = "idle"
      BY <3>1 DEF CDCInv, StartsTx
    <3>3. txState' # "taken"
      BY <3>1, <3>2 DEF TransmitPacket
    <3> QED BY <2>1, <3>2, <3>3, CDCSentSame
  <2>3. CASE ~StartTx(t)
    <3>1. UNCHANGED <<txState, txPacket>>
      BY <1>1, <2>3 DEF LookInProg, TxPos, RxPos, MarkInProg, StartRx, usb
    <3> QED BY <2>1, <3>1, CDCSentSame
  <2> QED BY <2>2, <2>3
<1>2. CASE UNCHANGED <<stream, pc, call, iface, usb>>
  BY <1>2, CDCSentSame DEF stream, usb
<1> QED BY <1>1, <1>2, CDCSentCall, CDCSentHandler, CDCSteps, CDCInvTypeOK

LEMMA CDCSentNext ==
  CDCInv /\ CDCInv' /\ [CDCNext]_cdcVars =>
    [CDCSent!Next]_CDCSent!vars /\ [\A n \in 1 .. TxCapacity : ~CDCSent!Discard(n)]_CDCSent!vars
<1> SUFFICES ASSUME CDCInv, CDCInv', [CDCNext]_cdcVars
             PROVE  CDCSent!Next /\ \A n \in 1 .. TxCapacity : ~CDCSent!Discard(n)
  OBVIOUS
<1>1. CDCSentStep
  BY CDCSentMoves
<1>2. CDCSent!Next
  <2>1. \/ CDCSent!StartWrite \/ CDCSent!StartRead
        \/ \E n \in 1 .. TxCapacity : CDCSent!Enqueue(n) \/ CDCSent!Dequeue(n)
    BY <1>1, Zenon DEF CDCSentStep, Moves, CDCSentQueue, CDCSentOut, CDCSent!StartWrite,
                       CDCSent!StartRead, CDCSent!Enqueue, CDCSent!Dequeue
  <2> QED BY <2>1 DEF CDCSent!Next
<1>3. /\ TxCapacity \in Nat /\ Buf("tx") \in Seq(Byte)
      /\ CDCSentQueue \in Seq(Byte) /\ CDCSentOut \in Seq(Byte)
  BY StreamAssumption, CDCSentTypes, BufType DEF CDCInv, Direction
<1>4. ASSUME NEW n \in 1 .. TxCapacity, CDCSent!Discard(n) PROVE FALSE
  <2>1. /\ n <= Len(CDCSentQueue)
        /\ CDCSentQueue' = SubSeq(CDCSentQueue, n + 1, Len(CDCSentQueue))
        /\ Buf("tx")' = Buf("tx") /\ CDCSentOut' = CDCSentOut
    BY <1>4, Zenon DEF CDCSent!Discard, CDCSentQueue, CDCSentOut
  <2> QED BY <1>1, <1>3, <2>1, MovesDiscardNothing DEF CDCSentStep
<1> QED BY <1>2, <1>4

LEMMA CDCSentInit == CDCInit => CDCSent!Init
BY DEF CDCInit, StreamInit, CDCSent!Init, Buf, Direction

\* What the host takes is what the tasks sent, in order and each byte once, for
\* every ring and packet size, whoever starts the packets, of an interface
\* whose packets lie apart in packet memory.
THEOREM CDCSendsInOrder == Apart => (CDCSpec => CDCSendIsFifo)
<1> SUFFICES ASSUME Apart PROVE CDCSpec => CDCSendIsFifo
  OBVIOUS
<1>1. CDCSpec => []CDCInv
  <2>1. CDCInit => CDCInv
    BY CDCInitInv
  <2> QED BY <2>1, CDCNextInv, PTL DEF CDCSpec
<1>2. CDCSpec => CDCSent!Init
  BY CDCSentInit, PTL DEF CDCSpec
<1>3. CDCSpec => [][CDCSent!Next]_CDCSent!vars
  BY <1>1, CDCSentNext, CDCNextInv, PTL DEF CDCSpec
<1>4. CDCSpec => [][\A n \in 1 .. TxCapacity : ~CDCSent!Discard(n)]_CDCSent!vars
  BY <1>1, CDCSentNext, CDCNextInv, PTL DEF CDCSpec
<1> QED BY <1>2, <1>3, <1>4, PTL DEF CDCSendIsFifo, CDCSent!Lossless, CDCSent!Spec

-----------------------------------------------------------------------------
(* What the host sends.  A packet that arrives is the writer's buffer; the *)
(* handler finds room for all of it.                                       *)

CDCReceivedInp == IF rxState = "arrived" THEN rxPacket ELSE <<>>

CDCReceivedStep ==
  Moves(RxCapacity, CDCReceivedInp, rxCircQueue, Buf("rx"),
        CDCReceivedInp', rxCircQueue', Buf("rx")')

LEMMA CDCReceivedType == CDCInv => CDCReceivedInp \in Seq(Byte)
<1>1. <<>> \in Seq(Byte)
  BY EmptySeq
<1> QED BY <1>1 DEF CDCInv, IfaceTypeOK, CDCReceivedInp

LEMMA CDCReceivedTypeNext == CDCInv' => (CDCReceivedInp \in Seq(Byte))'
BY CDCReceivedType, PTL

LEMMA CDCReceivedSame ==
  ASSUME CDCInv', UNCHANGED <<rxCircQueue, lock, call>>
  PROVE  CDCReceivedStep
<1>1. (CDCReceivedInp \in Seq(Byte))'
  BY CDCReceivedTypeNext
<1>2. Buf("rx")' = Buf("rx")
  BY DEF Buf
<1> QED BY <1>1, <1>2, Zenon DEF CDCReceivedStep, Moves

LEMMA CDCReceivedCall ==
  ASSUME CDCInv, CDCInv', NEW t \in Task, CallStep(t), UNCHANGED <<iface, usb>>
  PROVE  CDCReceivedStep
<1>1. CDCReceivedInp' = CDCReceivedInp /\ (CDCReceivedInp \in Seq(Byte))'
  BY CDCReceivedTypeNext DEF CDCReceivedInp, usb
<1>2. CASE Get(t) /\ ~UNCHANGED <<rxCircQueue, Buf("rx")>>
  BY <1>1, <1>2, GetMoves, Zenon DEF CDCReceivedStep, Moves, CDCInv
<1>3. CASE Get(t) /\ UNCHANGED <<rxCircQueue, Buf("rx")>>
  BY <1>1, <1>3, Zenon DEF CDCReceivedStep, Moves
<1>4. CASE ~Get(t)
  <2>1. rxCircQueue' = rxCircQueue
    BY <1>4 DEF CallStep, Send, Receive, Lock, Announce, GetWakeCount, Put, CallBack, Test, Wait,
                Unlock, stream
  <2>2. Buf("rx")' = Buf("rx") \/ Buf("rx")' = <<>>
    BY <1>4, BufKept, LockedBuf, UnlockedBuf DEF CDCInv
  <2> QED BY <1>1, <2>1, <2>2, Zenon DEF CDCReceivedStep, Moves
<1> QED BY <1>2, <1>3, <1>4

LEMMA CDCReceivedDone ==
  ASSUME CDCInv, RxDone
  PROVE  CDCReceivedStep
<1>1. rxState = "arrived" /\ rxState' # "arrived" /\ UNCHANGED <<lock, call>>
  BY DEF RxDone
<1>2. PICK p \in Seq(Byte) : p = rxPacket
  BY DEF CDCInv, IfaceTypeOK
<1>3. PICK n \in 1 .. RxCapacity : n = Len(p)
  BY <1>2, RxDoneQueue
<1>4. Len(rxCircQueue) + n <= RxCapacity /\ rxCircQueue' = rxCircQueue \o p
  BY <1>2, <1>3, RxDoneQueue
<1>5. SubSeq(p, 1, n) = p /\ SubSeq(p, n + 1, Len(p)) = <<>>
  <2>1. SubSeq(p, 1, n) = p
    BY <1>3, SubSeqFull
  <2>2. SubSeq(p, n + 1, Len(p)) \in Seq(Byte) /\ Len(SubSeq(p, n + 1, Len(p))) = 0
    <3>1. n \in 0 .. Len(p) /\ Len(p) - n = 0
      BY <1>3
    <3> QED BY <3>1, Parts
  <2> QED BY <2>1, <2>2, EmptySeq
<1>6. CDCReceivedInp = p /\ CDCReceivedInp' = <<>>
  BY <1>1, <1>2 DEF CDCReceivedInp
<1>7. Buf("rx")' = Buf("rx")
  BY <1>1 DEF Buf
<1>8. n <= Len(p)
  BY <1>3
<1> QED BY <1>4, <1>5, <1>6, <1>7, <1>8, Zenon DEF CDCReceivedStep, Moves

LEMMA CDCReceivedMoves ==
  ASSUME CDCInv, CDCInv', [CDCNext]_cdcVars
  PROVE  CDCReceivedStep
<1>1. ASSUME NEW t \in Task,
             LookInProg(t) \/ TxPos(t) \/ RxPos(t) \/ MarkInProg(t) \/ StartTx(t) \/ StartRx(t)
      PROVE  CDCReceivedStep
  BY <1>1, StepsMove, CDCReceivedSame DEF Moved, stream
<1>2. CASE Configure \/ TxDone \/ HostTakes \/ HostSends
  <2>1. UNCHANGED <<rxCircQueue, lock, call>>
    BY <1>2 DEF Configure, SetCallbacks, TxDone, HostTakes, HostSends, stream, tasks
  <2> QED BY <2>1, CDCReceivedSame
<1>3. CASE UNCHANGED <<stream, pc, call, iface, usb>>
  BY <1>3, CDCReceivedSame DEF stream
<1> QED BY <1>1, <1>2, <1>3, CDCReceivedCall, CDCReceivedDone, CDCSteps, CDCInvTypeOK

LEMMA CDCReceivedNext ==
  CDCInv /\ CDCInv' /\ [CDCNext]_cdcVars =>
    /\ [CDCReceived!Next]_CDCReceived!vars
    /\ [\A n \in 1 .. RxCapacity : ~CDCReceived!Discard(n)]_CDCReceived!vars
<1> SUFFICES ASSUME CDCInv, CDCInv', [CDCNext]_cdcVars
             PROVE  CDCReceived!Next /\ \A n \in 1 .. RxCapacity : ~CDCReceived!Discard(n)
  OBVIOUS
<1>1. CDCReceivedStep
  BY CDCReceivedMoves
<1>2. CDCReceived!Next
  <2>1. \/ CDCReceived!StartWrite \/ CDCReceived!StartRead
        \/ \E n \in 1 .. RxCapacity : CDCReceived!Enqueue(n) \/ CDCReceived!Dequeue(n)
    BY <1>1, Zenon DEF CDCReceivedStep, Moves, CDCReceivedInp, CDCReceived!StartWrite,
                       CDCReceived!StartRead, CDCReceived!Enqueue, CDCReceived!Dequeue
  <2> QED BY <2>1 DEF CDCReceived!Next
<1>3. /\ RxCapacity \in Nat /\ Buf("rx") \in Seq(Byte)
      /\ rxCircQueue \in Seq(Byte) /\ CDCReceivedInp \in Seq(Byte)
  BY StreamAssumption, CDCReceivedType, BufType DEF CDCInv, StreamTypeOK, Direction
<1>4. ASSUME NEW n \in 1 .. RxCapacity, CDCReceived!Discard(n) PROVE FALSE
  <2>1. /\ n <= Len(rxCircQueue)
        /\ rxCircQueue' = SubSeq(rxCircQueue, n + 1, Len(rxCircQueue))
        /\ CDCReceivedInp' = CDCReceivedInp /\ Buf("rx")' = Buf("rx")
    BY <1>4, Zenon DEF CDCReceived!Discard, CDCReceivedInp
  <2> QED BY <1>1, <1>3, <2>1, MovesDiscardNothing DEF CDCReceivedStep
<1> QED BY <1>2, <1>4

\* Packets that lie apart stay what they are until they are taken.
LEMMA PacketsStay ==
  CDCInv /\ [CDCNext]_cdcVars =>
    [/\ rxState = "arrived" /\ rxState' = "arrived" => rxPacket' = rxPacket
     /\ txState = "busy" => txPacket' = txPacket]_cdcVars
<1> SUFFICES ASSUME CDCInv, [CDCNext]_cdcVars
             PROVE  /\ rxState = "arrived" /\ rxState' = "arrived" => rxPacket' = rxPacket
                    /\ txState = "busy" => txPacket' = txPacket
  OBVIOUS
<1>1. ASSUME NEW t \in Task,
             LookInProg(t) \/ TxPos(t) \/ RxPos(t) \/ MarkInProg(t) \/ StartTx(t) \/ StartRx(t)
      PROVE  rxPacket' = rxPacket /\ (txState = "busy" => txPacket' = txPacket)
  <2>1. CASE StartTx(t)
    <3>1. Dir(t) = "tx" /\ pc[t] = "start" /\ TransmitPacket(txCircQueue, count[t])
      BY <2>1 DEF StartTx, Goto
    <3>2. /\ txState # "busy" /\ count[t] \in 1 .. Len(txCircQueue) /\ count[t] <= MaxPacket
          /\ txCircQueue \in Seq(Byte)
      BY <3>1, PacketSizes DEF CDCInv, StartsTx, IfaceTypeOK, StreamTypeOK
    <3> QED BY <3>1, <3>2, Transmits
  <2>2. CASE ~StartTx(t)
    BY <1>1, <2>2 DEF LookInProg, TxPos, RxPos, MarkInProg, StartRx, usb
  <2> QED BY <2>1, <2>2
<1>2. CASE TxDone
  <2>1. txState # "busy"
    BY <1>2 DEF TxDone
  <2> QED BY <1>2, <2>1, TxDoneInv
<1>3. CASE Configure \/ HostTakes
  BY <1>3 DEF Configure, HostTakes, usb
<1>4. CASE RxDone
  <2>1. rxState' # "arrived" /\ txPacket' = txPacket
    BY <1>4 DEF RxDone
  <2> QED BY <2>1
<1>5. CASE HostSends
  <2>1. rxState # "arrived"
    BY <1>5 DEF HostSends
  <2> QED BY <1>5, <2>1, HostSendsInv
<1>6. CASE UNCHANGED usb
  BY <1>6 DEF usb
<1> QED BY <1>1, <1>2, <1>3, <1>4, <1>5, <1>6, CDCSteps, CDCInvTypeOK

LEMMA CDCReceivedInit == CDCInit => CDCReceived!Init
BY DEF CDCInit, StreamInit, CDCReceived!Init, Buf, Direction

\* What tasks receive is what the host sent, in order and each byte once; a
\* packet that has arrived finds room for all of it, though the handler takes
\* that on trust, and packets are not overwritten where they lie apart.
THEOREM CDCReceivesInOrder == Apart => (CDCSpec => CDCReceiveIsFifo)
<1> SUFFICES ASSUME Apart PROVE CDCSpec => CDCReceiveIsFifo
  OBVIOUS
<1>1. CDCSpec => []CDCInv
  <2>1. CDCInit => CDCInv
    BY CDCInitInv
  <2> QED BY <2>1, CDCNextInv, PTL DEF CDCSpec
<1>2. CDCSpec => CDCReceived!Init
  BY CDCReceivedInit, PTL DEF CDCSpec
<1>3. CDCSpec => [][CDCReceived!Next]_CDCReceived!vars
  BY <1>1, CDCReceivedNext, CDCNextInv, PTL DEF CDCSpec
<1>4. CDCSpec => [][\A n \in 1 .. RxCapacity : ~CDCReceived!Discard(n)]_CDCReceived!vars
  BY <1>1, CDCReceivedNext, CDCNextInv, PTL DEF CDCSpec
<1>5. CDCSpec => PacketsKept
  BY <1>1, PacketsStay, PTL DEF CDCSpec, PacketsKept
<1>6. CDCSpec => [](rxState = "arrived" => Len(rxPacket) <= RxRoom)
  <2>1. CDCInv => (rxState = "arrived" => Len(rxPacket) <= RxRoom)
    BY DEF CDCInv, RxPackets
  <2> QED BY <1>1, <2>1, PTL
<1> QED BY <1>2, <1>3, <1>4, <1>5, <1>6, PTL
        DEF CDCReceiveIsFifo, CDCReceived!Lossless, CDCReceived!Spec
=============================================================================
