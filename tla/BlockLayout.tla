----------------------------- MODULE BlockLayout -----------------------------
(***************************************************************************)
(* LargeAllocator::computeLayout (csrc/large_allocator.cc): the sizes of   *)
(* the physical blocks a large allocation is packed from, in the order in  *)
(* which they are mapped.                                                  *)
(***************************************************************************)
EXTENDS Totals, SequencesExt

CONSTANT kLargeBlockSizes   \* the block classes, largest first

ASSUME ClassesAssumption ==
  /\ kLargeBlockSizes \in Seq(Nat \ {0})
  /\ kLargeBlockSizes # <<>>
  /\ \A i, j \in DOMAIN kLargeBlockSizes :
       i < j => kLargeBlockSizes[j] < kLargeBlockSizes[i]

(* Each class is the double of the next one in the code; what its packing  *)
(* needs is that it is a multiple.                                         *)
ASSUME MultiplesAssumption ==
  \A i \in 2..Len(kLargeBlockSizes) : kLargeBlockSizes[i - 1] % kLargeBlockSizes[i] = 0

kNumLargeClasses == Len(kLargeBlockSizes)
kMinLargeBlock == kLargeBlockSizes[kNumLargeClasses]
BlockClasses == Range(kLargeBlockSizes)

LayoutBytes(layout) == Total(layout)

Bug_Remaining(size) ==                 \* mutant: a block must be smaller than the rest
  LET left[i \in 0..kNumLargeClasses] ==
        IF i = 0 THEN size
        ELSE left[i - 1] - kLargeBlockSizes[i] * ((left[i - 1] - 1) \div kLargeBlockSizes[i])
  IN left

(* Bytes not yet covered once the classes 1..i have been tried. *)
Remaining(size) ==
  LET left[i \in 0..kNumLargeClasses] ==
        IF i = 0 THEN size ELSE left[i - 1] % kLargeBlockSizes[i]
  IN left

(* Greedy: as many blocks of each class as fit, then for what is left the  *)
(* smallest class that covers it.                                          *)
computeLayout(size) ==
  LET left == Remaining(size)
      greedy == FlattenSeq([i \in 1..kNumLargeClasses |->
                  [k \in 1..((left[i - 1] - left[i]) \div kLargeBlockSizes[i]) |->
                     kLargeBlockSizes[i]]])
      rest == left[kNumLargeClasses]
  IN IF rest = 0 THEN greedy
     ELSE greedy \o <<Min({c \in BlockClasses : c >= rest})>>

-----------------------------------------------------------------------------
(* The layout covers the size with less than one smallest block of waste.  *)
(* The whole multiple of the smallest class below the size cannot be had   *)
(* with fewer blocks; what is left above it takes one more block, so that  *)
(* the layout as a whole need not be the shortest that covers the size.    *)
IsTight(layout, size) ==
  LET n == size \div kMinLargeBlock
      extra == IF size % kMinLargeBlock = 0 THEN 0 ELSE 1
  IN /\ LayoutBytes(layout) = (n + extra) * kMinLargeBlock
     /\ \A fewer \in SeqOf(BlockClasses, Len(layout) - extra - 1) :
          LayoutBytes(fewer) # n * kMinLargeBlock
=============================================================================
