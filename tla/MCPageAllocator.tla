--------------------------- MODULE MCPageAllocator ---------------------------
(* Small instances of PageAllocator for TLC. *)
EXTENDS PageAllocator, TLC

CONSTANTS small, large

\* Two chunks of the small class fit a page, one of the large class.
MCSize == [c \in Classes |-> IF c = small THEN 2 ELSE 4]

\* The two memories lie one behind the other.  Node 0 has a bit for one segment,
\* and is full before node 1, whose five are enough for the bound.
MCMemory == [n \in 0..(MemoryNodes - 1) |-> IF n = 0 THEN 16 ELSE 100]
MCCapacity == [n \in 0..(MemoryNodes - 1) |-> PageSize + 4 * n * SegmentSize]

\* Memory nodes of unequal capacity.
MCUnequal == [n \in 0..(MemoryNodes - 1) |-> PageSize + n * SegmentSize]

\* The premises of the theorem about PointersResolve hold in the instance.
ASSUME MCPremises == OffsetCounts /\ SegmentsAddressed

AllocatorSymmetry == Permutations(Threads)
=============================================================================
