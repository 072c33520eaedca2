----------------------------- MODULE MCHandover -----------------------------
(* Small instances of Handover for TLC. *)
EXTENDS Handover, TLC

CONSTANTS n1, n2, n3

\* Two neighbours behind the head; with n3, n2's split-off sibling, whose
\* `backward' and n2's meet at n1, as async_update leaves them.
MCBackward ==
    [n \in Nodes |-> IF n = n1 THEN Sentinel ELSE n1]

ThreadSymmetry == Permutations(Threads)
=============================================================================
