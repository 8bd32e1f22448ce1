-------------------------------- MODULE Heap --------------------------------
(***************************************************************************)
(* The allocator of arm/rtisan_heap.c: memory is handed out from the       *)
(* bottom of the heap and never taken back.  Tasks and start-up code call  *)
(* it without a lock; each round of its loop reads HeapPos and then tries  *)
(* to move it with a compare-and-swap.  size_t and uint32_t are 32 bits    *)
(* wide, Wrap = 2^32.                                                      *)
(***************************************************************************)
EXTENDS Naturals, Sequences

CONSTANTS
  Caller,     \* the tasks that allocate
  Sizes,      \* the sizes they ask for
  Align,      \* RTmalloc's alignment, 8
  Capacity,   \* &_eheap - &_sheap
  Wrap

ASSUME AlignAssumption ==
  /\ Align \in 1 .. 256         \* alignFudge is a uint8_t
  /\ Wrap \in Nat /\ Align < Wrap
ASSUME CapacityAssumption == Capacity \in 0 .. Wrap - 1
ASSUME SizesAssumption    == Sizes \subseteq 0 .. Wrap - 1

VARIABLES
  HeapSize, HeapPos,
  pc,         \* where each caller is
  size,       \* its argument, as asked and rounded up
  asked,
  myPos,      \* its local myPos
  blocks      \* the blocks handed out, oldest first, but for empty ones

vars == <<HeapSize, HeapPos, pc, size, asked, myPos, blocks>>

Set(f, p, v) == [f EXCEPT ![p] = v]

\* Addition of 32 bit numbers.
Plus(m, n) == IF m + n < Wrap THEN m + n ELSE m + n - Wrap

\* size after `size += alignment - alignFudge'.
RoundUp(n) ==
  LET alignFudge == n % Align
  IN  IF alignFudge = 0 THEN n ELSE Plus(n, Align - alignFudge)

newPos(p) == Plus(myPos[p], size[p])

Init ==
  /\ HeapSize = 0 /\ HeapPos = 0
  /\ pc = [p \in Caller |-> "idle"]
  /\ size = [p \in Caller |-> 0] /\ asked = [p \in Caller |-> 0]
  /\ myPos = [p \in Caller |-> 0]
  /\ blocks = <<>>

\* Mutant: the end of the heap, not its size.
RTHeapInit_End ==
  /\ HeapSize = 0
  /\ HeapSize' = Capacity + Align
  /\ UNCHANGED <<HeapPos, pc, size, asked, myPos, blocks>>

RTHeapInit ==
  /\ HeapSize = 0
  /\ HeapSize' = Capacity
  /\ UNCHANGED <<HeapPos, pc, size, asked, myPos, blocks>>

\* RTmalloc(n), also as _sbrk_r with an increment.
Call(p, n) ==
  /\ pc[p] = "idle"
  /\ asked' = Set(asked, p, n)
  /\ size' = Set(size, p, RoundUp(n))
  /\ pc' = Set(pc, p, "load")
  /\ UNCHANGED <<HeapSize, HeapPos, myPos, blocks>>

\* myPos = HeapPos; a block that does not fit is refused.
Load(p) ==
  /\ pc[p] = "load"
  /\ myPos' = Set(myPos, p, HeapPos)
  /\ pc' = Set(pc, p, IF Plus(HeapPos, size[p]) > HeapSize THEN "idle" ELSE "swap")
  /\ UNCHANGED <<HeapSize, HeapPos, size, asked, blocks>>

\* Mutant: a store in place of the compare-and-swap.
Swap_Store(p) ==
  /\ pc[p] = "swap"
  /\ HeapPos' = newPos(p)
  /\ blocks' = IF asked[p] = 0 THEN blocks
               ELSE Append(blocks, [at |-> myPos[p], len |-> asked[p]])
  /\ pc' = Set(pc, p, "idle")
  /\ UNCHANGED <<HeapSize, size, asked, myPos>>

\* Mutant: HeapPos is not read again for another round.
Swap_NoReload(p) ==
  /\ pc[p] = "swap"
  /\ \/ /\ HeapPos = myPos[p]
        /\ HeapPos' = newPos(p)
        /\ blocks' = IF asked[p] = 0 THEN blocks
                     ELSE Append(blocks, [at |-> myPos[p], len |-> asked[p]])
        /\ pc' = Set(pc, p, "idle")
     \/ /\ HeapPos # myPos[p]
        /\ UNCHANGED <<HeapPos, blocks, pc>>
  /\ UNCHANGED <<HeapSize, size, asked, myPos>>

\* The compare-and-swap; its failure is another round.
Swap(p) ==
  /\ pc[p] = "swap"
  /\ \/ /\ HeapPos = myPos[p]
        /\ HeapPos' = newPos(p)
        /\ blocks' = IF asked[p] = 0 THEN blocks
                     ELSE Append(blocks, [at |-> myPos[p], len |-> asked[p]])
        /\ pc' = Set(pc, p, "idle")
     \/ /\ HeapPos # myPos[p]
        /\ pc' = Set(pc, p, "load")
        /\ UNCHANGED <<HeapPos, blocks>>
  /\ UNCHANGED <<HeapSize, size, asked, myPos>>

Next ==
  \/ RTHeapInit
  \/ \E p \in Caller : Load(p) \/ Swap(p) \/ \E n \in Sizes : Call(p, n)

\* A caller is not kept from the processor for ever.
Spec == Init /\ [][Next]_vars /\ \A p \in Caller : WF_vars(Load(p) \/ Swap(p))

-----------------------------------------------------------------------------
(* Properties.                                                             *)

\* The type invariant.
TypeOK ==
  /\ HeapSize \in {0, Capacity} /\ HeapPos \in 0 .. Wrap - 1
  /\ pc \in [Caller -> {"idle", "load", "swap"}]
  /\ size \in [Caller -> 0 .. Wrap - 1] /\ asked \in [Caller -> Sizes \cup {0}]
  /\ myPos \in [Caller -> 0 .. Wrap - 1]
  /\ blocks \in Seq([at : Nat, len : Nat])

End(b) == b.at + b.len

\* No byte belongs to two callers, and none lies outside the heap, however
\* their compare-and-swaps interleave.
BlocksDisjoint ==
  /\ \A i \in 1 .. Len(blocks) : End(blocks[i]) <= HeapSize
  /\ \A i, j \in 1 .. Len(blocks) : i < j => End(blocks[i]) <= blocks[j].at

\* The blocks tile the used part of the heap: they are aligned and nothing
\* is lost to failed rounds.
BlocksTile ==
  /\ (IF blocks = <<>> THEN HeapPos ELSE blocks[1].at) = 0
  /\ \A i \in 1 .. Len(blocks) :
       LET next == IF i = Len(blocks) THEN HeapPos ELSE blocks[i + 1].at
       IN  next = blocks[i].at + RoundUp(blocks[i].len)
=============================================================================
