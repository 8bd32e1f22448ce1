------------------------------ MODULE HeapProofs ------------------------------
(***************************************************************************)
(* Safety of the allocator for every number of callers, heap and set of    *)
(* sizes, as long as no size is within a heap of 2^32: those wrap.         *)
(***************************************************************************)
EXTENDS Heap, SequenceTheorems, TLAPS

NoWrap == \A n \in Sizes : n + Align + Capacity < Wrap

\* A caller between its load and its compare-and-swap has seen that its
\* block fits, and blocks end below HeapPos.
Fits ==
  /\ HeapPos <= HeapSize
  /\ \A p \in Caller : pc[p] # "idle" => asked[p] \in Sizes /\ size[p] = RoundUp(asked[p])
  /\ \A p \in Caller : pc[p] = "swap" => myPos[p] + size[p] <= HeapSize
  /\ \A i \in 1 .. Len(blocks) : End(blocks[i]) <= HeapPos

Inv == TypeOK /\ Fits /\ BlocksDisjoint /\ BlocksTile

USE AlignAssumption, CapacityAssumption, SizesAssumption

-----------------------------------------------------------------------------

LEMMA RoundUpBounds ==
  ASSUME NoWrap, NEW n \in Sizes
  PROVE  RoundUp(n) \in Nat /\ n <= RoundUp(n) /\ RoundUp(n) <= n + Align
<1>1. n % Align \in 0 .. Align - 1
  OBVIOUS
<1>2. n \in Nat /\ n + Align < Wrap
  BY DEF NoWrap
<1> QED BY <1>1, <1>2 DEF RoundUp, Plus

LEMMA NoWrapPlus ==
  ASSUME NoWrap, NEW n \in Sizes, NEW m \in 0 .. Capacity
  PROVE  Plus(m, RoundUp(n)) = m + RoundUp(n)
<1>1. n + Align + Capacity < Wrap /\ n \in Nat
  BY DEF NoWrap
<1> QED BY <1>1, RoundUpBounds DEF Plus

LEMMA InitInv == Init => Inv
BY DEF Init, Inv, TypeOK, Fits, BlocksDisjoint, BlocksTile

\* No bytes take no space.
LEMMA RoundUpZero == RoundUp(0) = 0
<1>1. 0 % Align = 0
  OBVIOUS
<1> QED BY <1>1 DEF RoundUp

\* The parts of Inv that do not depend on the blocks.
LEMMA Plain ==
  ASSUME Inv
  PROVE  /\ HeapPos \in Nat /\ HeapSize \in Nat /\ HeapPos \in 0 .. Capacity
         /\ HeapPos <= HeapSize /\ HeapSize <= Capacity
         /\ \A i \in 1 .. Len(blocks) :
              blocks[i].at \in Nat /\ blocks[i].len \in Nat /\ End(blocks[i]) \in Nat
<1>1. HeapPos \in Nat /\ HeapSize \in Nat /\ HeapPos <= HeapSize /\ HeapSize <= Capacity
  BY DEF Inv, TypeOK, Fits
<1>2. \A i \in 1 .. Len(blocks) : blocks[i] \in [at : Nat, len : Nat]
  <2>1. blocks \in Seq([at : Nat, len : Nat])
    BY DEF Inv, TypeOK
  <2> QED BY <2>1, ElementOfSeq
<1>3. \A i \in 1 .. Len(blocks) : blocks[i].at \in Nat /\ blocks[i].len \in Nat
  BY <1>2
<1>4. \A i \in 1 .. Len(blocks) : End(blocks[i]) \in Nat
  BY <1>3 DEF End
<1>5. HeapPos \in 0 .. Capacity
  BY <1>1
<1> QED BY <1>1, <1>3, <1>4, <1>5

\* The successful compare-and-swap.
LEMMA GrantInv ==
  ASSUME NoWrap, Inv, NEW p \in Caller, pc[p] = "swap", HeapPos = myPos[p],
         HeapPos' = newPos(p), pc' = Set(pc, p, "idle"), asked[p] # 0,
         blocks' = Append(blocks, [at |-> myPos[p], len |-> asked[p]]),
         UNCHANGED <<HeapSize, size, asked, myPos>>
  PROVE  Inv'
<1> DEFINE b == [at |-> myPos[p], len |-> asked[p]]
           n == Len(blocks)
<1>1. asked[p] \in Sizes /\ size[p] = RoundUp(asked[p]) /\ HeapPos + size[p] <= HeapSize
  BY DEF Inv, Fits
<1>2. /\ RoundUp(asked[p]) \in Nat /\ asked[p] <= RoundUp(asked[p]) /\ asked[p] \in Nat
      /\ HeapPos' = HeapPos + RoundUp(asked[p]) /\ HeapPos' <= HeapSize
  <2>1. Plus(HeapPos, RoundUp(asked[p])) = HeapPos + RoundUp(asked[p])
    BY <1>1, Plain, NoWrapPlus
  <2>2. HeapPos' = HeapPos + RoundUp(asked[p])
    BY <1>1, <2>1 DEF newPos
  <2>3. \A m \in Sizes : RoundUp(m) \in Nat /\ m <= RoundUp(m) /\ m \in Nat
    BY RoundUpBounds
  <2>4. HeapPos' <= HeapSize
    BY <1>1, <2>2
  <2> QED BY <1>1, <2>2, <2>3, <2>4
<1>3. b \in [at : Nat, len : Nat] /\ n \in Nat /\ blocks \in Seq([at : Nat, len : Nat])
  BY <1>2, Plain DEF Inv, TypeOK
<1>4. /\ blocks' \in Seq([at : Nat, len : Nat]) /\ Len(blocks') = n + 1
      /\ blocks'[n + 1] = b /\ \A i \in 1 .. n : blocks'[i] = blocks[i]
  BY <1>3, AppendProperties
<1>5. HeapPos' \in Nat /\ HeapPos <= HeapPos' /\ HeapPos' \in 0 .. Wrap - 1
  BY <1>2, Plain
<1>6. b.at = HeapPos /\ b.len = asked[p] /\ End(b) = HeapPos + asked[p] /\ End(b) \in Nat
  BY <1>2, Plain DEF End
<1>7. End(b) <= HeapPos'
  BY <1>2, <1>6, Plain
<1>8. \A i \in 1 .. n + 1 : i = n + 1 \/ i \in 1 .. n
  BY <1>3
<1> HIDE DEF b, n
<1>9. TypeOK'
  BY <1>4, <1>5 DEF Inv, TypeOK, Set
<1>10. \A i \in 1 .. n + 1 : End(blocks'[i]) \in Nat /\ End(blocks'[i]) <= HeapPos'
  <2>1. \A i \in 1 .. n : End(blocks[i]) <= HeapPos /\ End(blocks[i]) \in Nat
    BY Plain DEF Inv, Fits, n
  <2>2. \A i \in 1 .. n : End(blocks[i]) <= HeapPos'
    BY <1>5, <2>1, Plain
  <2> QED BY <1>4, <1>6, <1>7, <1>8, <2>1, <2>2
<1>11. Fits'
  <2>1. \A i \in 1 .. Len(blocks') : End(blocks'[i]) <= HeapPos'
    BY <1>4, <1>10
  <2>2. \A q \in Caller : pc'[q] # "idle" => pc'[q] = pc[q]
    BY DEF Inv, TypeOK, Set
  <2> QED BY <1>2, <1>5, <2>1, <2>2, Plain DEF Inv, Fits
<1>12. BlocksDisjoint'
  <2>1. \A i \in 1 .. n + 1 : End(blocks'[i]) <= HeapSize'
    <3>1. HeapSize' = HeapSize /\ HeapSize \in Nat /\ HeapPos' \in Nat /\ HeapPos' <= HeapSize
      BY <1>2, <1>5, Plain
    <3>2. \A x \in Nat : x <= HeapPos' => x <= HeapSize
      BY <3>1
    <3> QED BY <1>10, <3>1, <3>2
  <2>2. ASSUME NEW i \in 1 .. n + 1, NEW j \in 1 .. n + 1, i < j
        PROVE  End(blocks'[i]) <= blocks'[j].at
    <3>1. i \in 1 .. n
      BY <1>3, <2>2 DEF n
    <3>2. CASE j \in 1 .. n
      BY <1>4, <2>2, <3>1, <3>2 DEF Inv, BlocksDisjoint, n
    <3>3. CASE j = n + 1
      BY <1>4, <1>6, <3>1, <3>3 DEF Inv, Fits, n
    <3> QED BY <1>8, <3>2, <3>3
  <2> QED BY <1>4, <2>1, <2>2 DEF BlocksDisjoint
<1>13. BlocksTile'
  <2>1. blocks'[1].at = 0
    <3>1. CASE n = 0
      <4>1. blocks = <<>> /\ HeapPos = 0
        BY <3>1, <1>3 DEF Inv, BlocksTile, n
      <4> QED BY <1>4, <1>6, <3>1, <4>1
    <3>2. CASE n # 0
      <4>1. 1 \in 1 .. n /\ blocks # <<>>
        BY <1>3, <3>2 DEF n
      <4> QED BY <1>4, <4>1 DEF Inv, BlocksTile
    <3> QED BY <3>1, <3>2
  <2>2. ASSUME NEW i \in 1 .. n + 1
        PROVE  (IF i = n + 1 THEN HeapPos' ELSE blocks'[i + 1].at)
                 = blocks'[i].at + RoundUp(blocks'[i].len)
    <3>1. CASE i = n + 1
      BY <1>2, <1>4, <1>6, <3>1
    <3>2. CASE i = n /\ i \in 1 .. n
      <4>1. HeapPos = blocks[i].at + RoundUp(blocks[i].len)
        BY <3>2 DEF Inv, BlocksTile, n
      <4>2. i + 1 = n + 1 /\ i # n + 1
        BY <1>3, <3>2
      <4>3. blocks'[i + 1].at = HeapPos /\ blocks'[i] = blocks[i]
        BY <1>4, <1>6, <3>2, <4>2
      <4> QED BY <4>1, <4>2, <4>3
    <3>3. CASE i \in 1 .. n - 1
      <4>1. i \in 1 .. n /\ i + 1 \in 1 .. n /\ i # n /\ i # n + 1
        BY <1>3, <3>3
      <4>2. blocks[i + 1].at = blocks[i].at + RoundUp(blocks[i].len)
        BY <4>1 DEF Inv, BlocksTile, n
      <4>3. blocks'[i + 1] = blocks[i + 1] /\ blocks'[i] = blocks[i]
        BY <1>4, <4>1
      <4> QED BY <4>1, <4>2, <4>3
    <3>4. i \in 1 .. n - 1 \/ (i = n /\ i \in 1 .. n) \/ i = n + 1
      BY <1>3
    <3> QED BY <3>1, <3>2, <3>3, <3>4
  <2>3. blocks' # <<>>
    BY <1>3, <1>4 DEF n
  <2> QED BY <1>4, <2>1, <2>2, <2>3 DEF BlocksTile
<1> QED BY <1>9, <1>11, <1>12, <1>13 DEF Inv

\* A step that leaves HeapPos and the blocks alone.
LEMMA QuietInv ==
  ASSUME Inv, TypeOK', UNCHANGED <<HeapPos, blocks>>, HeapSize <= HeapSize', HeapSize' \in Nat,
         \A p \in Caller : pc'[p] # "idle" =>
                             asked'[p] \in Sizes /\ size'[p] = RoundUp(asked'[p]),
         \A p \in Caller : pc'[p] = "swap" => myPos'[p] + size'[p] <= HeapSize'
  PROVE  Inv'
<1>1. Fits'
  BY Plain DEF Inv, Fits
<1>2. BlocksDisjoint'
  <2>1. \A i \in 1 .. Len(blocks) : End(blocks[i]) <= HeapSize'
    BY Plain DEF Inv, BlocksDisjoint
  <2> QED BY <2>1 DEF Inv, BlocksDisjoint
<1>3. BlocksTile'
  BY DEF Inv, BlocksTile
<1> QED BY <1>1, <1>2, <1>3 DEF Inv

LEMMA StepInv ==
  ASSUME NoWrap, Inv, [Next]_vars
  PROVE  Inv'
<1> DEFINE Know(p) ==
      /\ pc[p] # "idle" => asked[p] \in Sizes /\ size[p] = RoundUp(asked[p])
      /\ pc[p] = "swap" => myPos[p] + size[p] <= HeapSize
<1>0. TypeOK /\ \A p \in Caller : Know(p)
  BY DEF Inv, Fits
<1>1. CASE RTHeapInit
  <2>1. TypeOK' /\ HeapSize <= HeapSize' /\ HeapSize' \in Nat
    BY <1>0, <1>1 DEF RTHeapInit, TypeOK
  <2>2. \A p \in Caller : pc[p] = "swap" => myPos[p] + size[p] <= HeapSize'
    <3>1. \A p \in Caller : myPos[p] + size[p] \in Nat
      BY <1>0 DEF TypeOK
    <3> QED BY <1>0, <2>1, <3>1, Plain
  <2> QED BY <1>0, <1>1, <2>1, <2>2, QuietInv DEF RTHeapInit
<1>2. ASSUME NEW p \in Caller, NEW n \in Sizes, Call(p, n) PROVE Inv'
  <2>1. RoundUp(n) \in 0 .. Wrap - 1
    <3>1. n \in Nat /\ n + Align < Wrap
      BY DEF NoWrap
    <3> QED BY <3>1, RoundUpBounds
  <2>2. TypeOK'
    BY <1>0, <1>2, <2>1 DEF Call, TypeOK, Set
  <2>3. /\ asked'[p] = n /\ size'[p] = RoundUp(n) /\ pc'[p] = "load"
        /\ \A q \in Caller \ {p} : asked'[q] = asked[q] /\ size'[q] = size[q] /\ pc'[q] = pc[q]
        /\ UNCHANGED <<HeapPos, HeapSize, myPos, blocks>>
    BY <1>0, <1>2 DEF Call, TypeOK, Set
  <2>4. \A q \in Caller : pc'[q] # "idle" => asked'[q] \in Sizes /\ size'[q] = RoundUp(asked'[q])
    BY <1>0, <2>3
  <2>5. \A q \in Caller : pc'[q] = "swap" => q # p /\ pc[q] = "swap"
    BY <2>3
  <2>6. \A q \in Caller : pc'[q] = "swap" => myPos'[q] + size'[q] <= HeapSize'
    BY <1>0, <2>3, <2>5
  <2>7. HeapSize' = HeapSize /\ HeapSize \in Nat /\ HeapSize <= HeapSize
    BY <2>3, Plain
  <2> QED BY <2>2, <2>3, <2>4, <2>6, <2>7, QuietInv
<1>3. ASSUME NEW p \in Caller, Load(p) PROVE Inv'
  <2>1. asked[p] \in Sizes /\ size[p] = RoundUp(asked[p])
    BY <1>0, <1>3 DEF Load
  <2>2. Plus(HeapPos, size[p]) = HeapPos + size[p] /\ size[p] \in Nat
    BY <2>1, Plain, NoWrapPlus, RoundUpBounds
  <2>3. /\ myPos'[p] = HeapPos
        /\ pc'[p] \in {"idle", "swap"} /\ (pc'[p] = "swap" => HeapPos + size[p] <= HeapSize)
        /\ \A q \in Caller \ {p} : myPos'[q] = myPos[q] /\ pc'[q] = pc[q]
        /\ UNCHANGED <<HeapPos, HeapSize, size, asked, blocks>>
    BY <1>0, <1>3, <2>2, Plain DEF Load, TypeOK, Set
  <2>4. TypeOK'
    BY <1>0, <1>3 DEF Load, TypeOK, Set
  <2> QED BY <1>0, <2>1, <2>3, <2>4, Plain, QuietInv
<1>4. ASSUME NEW p \in Caller, Swap(p) PROVE Inv'
  <2>1. CASE pc' = Set(pc, p, "idle") /\ asked[p] # 0 /\ HeapPos = myPos[p] /\ HeapPos' = newPos(p)
    BY <1>4, <2>1, GrantInv DEF Swap
  <2>2. CASE UNCHANGED <<HeapPos, blocks>>
    <3>1. TypeOK'
      BY <1>0, <1>4, <2>2 DEF Swap, TypeOK, Set
    <3>2. \A q \in Caller : pc'[q] = pc[q] \/ pc'[q] \in {"idle", "load"}
      BY <1>0, <1>4 DEF Swap, TypeOK, Set
    <3>3. UNCHANGED <<HeapSize, size, asked, myPos>>
      BY <1>4 DEF Swap
    <3>4. HeapSize' = HeapSize /\ HeapSize \in Nat /\ HeapSize <= HeapSize
      BY <3>3, Plain
    <3>5. \A q \in Caller : pc'[q] # "idle" => pc[q] # "idle"
      BY <1>0, <1>4 DEF Swap, TypeOK, Set
    <3>6. \A q \in Caller : pc'[q] = "swap" => pc[q] = "swap"
      BY <3>2
    <3> QED BY <1>0, <2>2, <3>1, <3>3, <3>4, <3>5, <3>6, QuietInv
  <2>3. CASE HeapPos = myPos[p] /\ asked[p] = 0 /\ HeapPos' = newPos(p) /\ UNCHANGED blocks
    <3>1. size[p] = 0
      BY <1>0, <1>4, <2>3, RoundUpZero DEF Swap
    <3>2. newPos(p) = HeapPos
      BY <2>3, <3>1, Plain DEF newPos, Plus
    <3> QED BY <2>2, <2>3, <3>2
  <2> QED BY <1>4, <2>1, <2>2, <2>3 DEF Swap
<1>5. CASE UNCHANGED vars
  <2>1. TypeOK'
    BY <1>0, <1>5 DEF vars, TypeOK
  <2> QED BY <1>0, <1>5, <2>1, Plain, QuietInv DEF vars
<1> QED BY <1>1, <1>2, <1>3, <1>4, <1>5 DEF Next

\* The inductive invariant.
THEOREM Invariance == ASSUME NoWrap PROVE Spec => []Inv
BY InitInv, StepInv, PTL DEF Spec

\* BlocksDisjoint: no two callers share a byte.
THEOREM NoSharedByte == ASSUME NoWrap PROVE Spec => []BlocksDisjoint
<1>1. Inv => BlocksDisjoint
  BY DEF Inv
<1> QED BY <1>1, Invariance, PTL

\* BlocksTile: the space of a failed compare-and-swap is not lost.
THEOREM NothingLost == ASSUME NoWrap PROVE Spec => []BlocksTile
<1>1. Inv => BlocksTile
  BY DEF Inv
<1> QED BY <1>1, Invariance, PTL
===============================================================================
