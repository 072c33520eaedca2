----------------------------- MODULE RemotePointer -----------------------------
(***************************************************************************)
(* RemotePointer (memory/remote_memory): an address of a memory node and   *)
(* the id of the node in one word.  From the top: 2 bits that mark a       *)
(* remote pointer, the node id, a byte that is zero in an address of the   *)
(* machine, and the rest of the address.                                   *)
(*                                                                         *)
(* A word is a number; the widths are parameters, each given as the number *)
(* of values it has.                                                       *)
(***************************************************************************)
EXTENDS Integers

CONSTANTS
    NodeSpan,       \* node ids, 2^6
    FillSpan,       \* values of the second byte, 2^8, and of the first
    AddressSpan,    \* addresses, 2^48
    PageSize        \* MEMORY_PAGE_SIZE; PAGE_MASK clears as many bits

ASSUME PointerAssumption ==
    /\ NodeSpan \in Nat \ {0} /\ FillSpan = 4 * NodeSpan
    /\ AddressSpan \in Nat \ {0} /\ PageSize \in Nat \ {0} /\ AddressSpan % PageSize = 0

Remote == 2                                 \* REMOTE_POINTER_BITS
TopByte == FillSpan * AddressSpan           \* the weight of the first byte
Words == 0..(FillSpan * TopByte - 1)
NullPointer == 0

MakeRemotePointer(node, address) ==
    (Remote * NodeSpan + (node % NodeSpan)) * TopByte + (address % AddressSpan)

IsNullptr(p) == p % AddressSpan = 0

GetNode(p) == (p \div TopByte) % NodeSpan

\* get_as: the first byte becomes a copy of the second.
GetAs(p) == ((p \div AddressSpan) % FillSpan) * TopByte + (p % TopByte)

\* offset and offset_by add to the whole word.
OffsetBy(p, off) == (p + off) % (FillSpan * TopByte)

\* page: the low bits are cleared.
PageOf(p) == p - (p % PageSize)
=============================================================================
