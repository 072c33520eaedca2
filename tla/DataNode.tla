------------------------------- MODULE DataNode -------------------------------
(***************************************************************************)
(* What the winner of a put does to the records of a data node: it stores  *)
(* its own record and the requests of its peers while they fit, morphs the *)
(* node to a larger type or splits it when they do not, and writes the     *)
(* result (put10 to put16, eager_morph and out_of_place_split_node of      *)
(* node/compute_node/compute_node.cpp, data_layer/data_layer.hpp).         *)
(*                                                                         *)
(* One winner at a time holds the node (module Handover), so the module    *)
(* follows one node, and after a split one of its halves, through any      *)
(* number of puts.  Records are counted, with the capacities of the code:  *)
(* which keys they have matters only for whether a record is already       *)
(* there.  Peers are counted too; a request may arrive at any time after   *)
(* its ticket was given, also between the winner's count of the pending    *)
(* requests and the writing of the buffer sized by that count.             *)
(*                                                                         *)
(* put_dispatcher picks the put by the type it reads before it competes.   *)
(* Here the reading and the winning are one step: no other put completes   *)
(* between them.                                                           *)
(***************************************************************************)
EXTENDS Naturals

CONSTANTS
    Losers,     \* threads other than the winner
    Window,     \* max_depth of an open context
    MaxZero     \* bound: records of a node whose fingerprint is 0

ASSUME CountsAssumption == Losers \in Nat /\ Window \in Nat /\ MaxZero \in Nat

Types == {10, 12, 14, 16}   \* LinkedNodeType, which is also the number of slots
Largest == 16               \* the slots of the buffer the node is fetched to
BufferSlots == 21           \* BufferNode

VARIABLES
    node,       \* the remote node: type, next, room (the slots of its last
                \* write) and zero (its records with fingerprint 0)
    pc,
    buffer,     \* the local copy: next and zero
    own,        \* the winner's own record is in the buffer
    plan,       \* what becomes of the node
    late,       \* a request arrived after the pending ones were counted
    depth,      \* max_depth
    tickets,    \* peers with a ticket that have not submitted their request
    queue       \* submitted requests for the node, and for its neighbour

vars == <<node, pc, buffer, own, plan, late, depth, tickets, queue>>

NoRequests == [mine |-> 0, pred |-> 0]
Pending == queue.mine + queue.pred

\* What an operation may leave of a node.  slots bounds the buffer it works on;
\* a split leaves left records to a node of type leftType and the others to one
\* of type rightType, of which it writes room slots.
InPlace == [how |-> "inPlace", slots |-> 0, left |-> 0, leftType |-> 0, rightType |-> 0, room |-> 0]
Morph == [InPlace EXCEPT !.how = "morph", !.slots = Largest]
EagerMorph == [InPlace EXCEPT !.how = "eager", !.slots = Largest]
Split(l, lt, rt, r) ==
    [how |-> "split", slots |-> BufferSlots, left |-> l, leftType |-> lt, rightType |-> rt, room |-> r]

\* quick_put flushed a LinkedNode12 with one record more than the LinkedNode10
\* it comes from, and a LinkedNode10.
Init ==
    /\ \E n \in 1..11, z \in 0..MaxZero :
          /\ z <= n
          /\ node = [type |-> IF n = 11 THEN 12 ELSE 10, next |-> n,
                     room |-> IF n = 11 THEN 12 ELSE 10, zero |-> z]
    /\ pc = "idle"
    /\ buffer = [next |-> 0, zero |-> 0]
    /\ own = FALSE
    /\ plan = InPlace
    /\ late = FALSE
    /\ depth = Window
    /\ tickets = 0
    /\ queue = NoRequests

-----------------------------------------------------------------------------
(***************************************************************************)
(* The peers.                                                              *)
(***************************************************************************)
Ticket ==
    /\ pc = "open"
    /\ depth > 0
    /\ tickets + Pending < Losers
    /\ depth' = depth - 1
    /\ tickets' = tickets + 1
    /\ UNCHANGED <<node, pc, buffer, own, plan, late, queue>>

Arrive ==
    /\ tickets > 0
    /\ tickets' = tickets - 1
    /\ \E n \in {"mine", "pred"} : queue' = [queue EXCEPT ![n] = @ + 1]
    /\ late' = (late \/ pc \in {"own", "morph", "write"})
    /\ UNCHANGED <<node, pc, buffer, own, plan, depth>>

(***************************************************************************)
(* The winner: drain, open, fetch, close.                                  *)
(***************************************************************************)
Start ==
    /\ pc = "idle"
    /\ queue' = NoRequests
    /\ depth' = Window
    /\ pc' = "open"
    /\ UNCHANGED <<node, buffer, own, plan, late, tickets>>

Fetch ==
    /\ pc = "open"
    /\ buffer' = [next |-> node.next, zero |-> node.zero]
    /\ own' = FALSE
    /\ pc' = "put"
    /\ UNCHANGED <<node, plan, late, depth, tickets, queue>>

\* Mutant: store does not test available().
StoredUnchecked(slots) ==
    {buffer} \cup {[next |-> buffer.next + 1, zero |-> z] :
                        z \in {buffer.zero, buffer.zero + 1} \cap 0..MaxZero}

\* LinkedNode::store into a node of the given slots: nothing when there is no
\* slot, even for a key that is there; otherwise the key may be there already,
\* and a new one may have fingerprint 0.
Stored(slots) ==
    IF buffer.next >= slots THEN {}
    ELSE (IF buffer.next = 0 THEN {} ELSE {buffer}) \cup {[next |-> buffer.next + 1, zero |-> z] :
                            z \in {buffer.zero, buffer.zero + 1} \cap 0..MaxZero}

\* try_put_to_existing_node: the own record first.
PutOwn ==
    /\ pc = "put"
    /\ \/ /\ buffer' \in Stored(node.type)
          /\ own' = TRUE
          /\ pc' = "help"
       \/ /\ Stored(node.type) = {}
          /\ pc' = "count"
          /\ UNCHANGED <<buffer, own>>
    /\ UNCHANGED <<node, plan, late, depth, tickets, queue>>

(***************************************************************************)
(* help_others, before and after the node has been morphed.                *)
(***************************************************************************)
Slots == IF pc = "help" THEN node.type ELSE plan.slots

\* A record for the neighbour is stored in the neighbour's buffer, or refused.
HelpOne ==
    /\ pc \in {"help", "morph"}
    /\ \/ /\ queue.pred > 0
          /\ queue' = [queue EXCEPT !.pred = @ - 1]
          /\ UNCHANGED buffer
       \/ /\ queue.mine > 0
          /\ queue' = [queue EXCEPT !.mine = @ - 1]
          /\ buffer' \in Stored(Slots)
    /\ UNCHANGED <<node, pc, own, plan, late, depth, tickets>>

\* A request that does not fit is pushed back and ends the loop; put10 has a
\* loop of its own, which refuses it and goes on.
HelpFull ==
    /\ pc \in {"help", "morph"}
    /\ queue.mine > 0
    /\ Stored(Slots) = {}
    /\ IF pc = "morph" /\ plan.how = "morph"
       THEN queue' = [queue EXCEPT !.mine = @ - 1] /\ UNCHANGED pc
       ELSE pc' = (IF pc = "help" THEN "count" ELSE "write") /\ UNCHANGED queue
    /\ UNCHANGED <<node, buffer, own, plan, late, depth, tickets>>

HelpDone ==
    /\ pc \in {"help", "morph"}
    /\ Pending = 0
    /\ pc' = IF pc = "help" THEN "count" ELSE "write"
    /\ UNCHANGED <<node, buffer, own, plan, late, depth, tickets, queue>>

(***************************************************************************)
(* What to do with the pending requests, the own record included.          *)
(***************************************************************************)
\* Mutant: put16 has the bound of put12.
PlanEager(t, pendings) ==
    CASE pendings = 0 -> InPlace
      [] pendings > 0 /\ t = 10 -> Morph
      [] pendings > 0 /\ t = 12 -> IF pendings <= 4 THEN EagerMorph ELSE Split(9, 10, 10, 10)
      [] pendings > 0 /\ t = 14 -> IF pendings <= 2 THEN EagerMorph ELSE Split(8, 10, 12, 10)
      [] pendings > 0 /\ t = 16 -> IF pendings <= 4 THEN Split(9, 10, 10, 10)
                                   ELSE Split(10, 12, 12, 12)

\* put14 announces a right half of 12 and writes one of 10.
Plan(t, pendings) ==
    CASE pendings = 0 -> InPlace
      [] pendings > 0 /\ t = 10 -> Morph
      [] pendings > 0 /\ t = 12 -> IF pendings <= 4 THEN EagerMorph ELSE Split(9, 10, 10, 10)
      [] pendings > 0 /\ t = 14 -> IF pendings <= 2 THEN EagerMorph ELSE Split(8, 10, 12, 10)
      [] pendings > 0 /\ t = 16 -> IF pendings <= 2 THEN Split(9, 10, 10, 10)
                                   ELSE IF pendings <= 4 THEN Split(9, 10, 12, 12)
                                   ELSE Split(10, 12, 12, 12)

Count ==
    /\ pc = "count"
    /\ plan' = Plan(node.type, Pending + (IF own THEN 0 ELSE 1))
    /\ late' = FALSE
    /\ pc' = IF plan' = InPlace THEN "write" ELSE "own"
    /\ UNCHANGED <<node, buffer, own, depth, tickets, queue>>

\* Mutant: the requests are helped before the own record is stored.
MorphOwnLast ==
    /\ pc = "own"
    /\ IF ~own /\ Pending = 0 /\ Stored(plan.slots) # {}
       THEN buffer' \in Stored(plan.slots) /\ own' = TRUE /\ pc' = "morph" /\ UNCHANGED queue
       ELSE IF queue.mine > 0 /\ Stored(plan.slots) # {}
       THEN buffer' \in Stored(plan.slots) /\ queue' = [queue EXCEPT !.mine = @ - 1]
            /\ UNCHANGED <<own, pc>>
       ELSE pc' = "morph" /\ UNCHANGED <<buffer, own, queue>>
    /\ UNCHANGED <<node, plan, late, depth, tickets>>

\* The own record goes into the larger buffer first; whether it fits is not
\* tested.
MorphOwn ==
    /\ pc = "own"
    /\ IF own \/ Stored(plan.slots) = {} THEN UNCHANGED <<buffer, own>>
       ELSE buffer' \in Stored(plan.slots) /\ own' = TRUE
    /\ pc' = "morph"
    /\ UNCHANGED <<node, plan, late, depth, tickets, queue>>

(***************************************************************************)
(* The result is written to remote memory.                                 *)
(***************************************************************************)
\* Mutant: a node of 11 is taken for a LinkedNode10.
TypeOfOver(count) == CHOOSE t \in Types : count <= t + 1 /\ \A u \in Types : count <= u + 1 => t <= u

TypeOf(count) == CHOOSE t \in Types : count <= t /\ \A u \in Types : count <= u => t <= u

\* morph_node counts the fingerprints that are not 0: those of the records, and
\* any number behind next that earlier uses of the buffer have left.
MorphNode == {TypeOf(c) : c \in (buffer.next - buffer.zero)..(Largest - buffer.zero)}

Written(t, n, r, z) == [type |-> t, next |-> n, room |-> r, zero |-> z]

\* construct_reorder_map picks one record more than the left half takes, the
\* smallest ones, and gives the last one it picked to the right half: a buffer
\* with fewer records leaves one to the right half.
LeftHalf == IF buffer.next > plan.left THEN plan.left ELSE buffer.next - 1
RightHalf == buffer.next - LeftHalf

\* The halves a split can leave, of which the next put meets one.
Halves ==
    {Written(plan.leftType, LeftHalf, plan.leftType, z) : z \in 0..buffer.zero}
    \cup {Written(plan.rightType, RightHalf, plan.room, z) : z \in 0..buffer.zero}

Write ==
    /\ pc = "write"
    /\ \/ plan.how = "inPlace" /\ node' = Written(node.type, buffer.next, node.type, buffer.zero)
       \/ plan.how = "morph" /\ \E t \in MorphNode : node' = Written(t, buffer.next, t, buffer.zero)
       \/ plan.how = "eager" /\ node' = Written(Largest, buffer.next, Largest, buffer.zero)
       \/ plan.how = "split" /\ node' \in Halves
    /\ pc' = "idle"
    /\ depth' = Window
    /\ plan' = InPlace
    /\ buffer' = [next |-> 0, zero |-> 0]
    /\ own' = FALSE
    /\ late' = FALSE
    /\ UNCHANGED <<tickets, queue>>

Next ==
    \/ Ticket \/ Arrive
    \/ Start \/ Fetch \/ PutOwn \/ HelpOne \/ HelpFull \/ HelpDone
    \/ Count \/ MorphOwn \/ Write

Spec == Init /\ [][Next]_vars

-----------------------------------------------------------------------------
(***************************************************************************)
(* Properties.                                                             *)
(***************************************************************************)

\* Every variable has its type; a header never counts more records than the
\* buffer a winner fetches the node to has slots.
TypeOK ==
    /\ node \in [type : Types, next : 0..Largest, room : Types, zero : 0..MaxZero]
    /\ pc \in {"idle", "open", "put", "help", "count", "own", "morph", "write"}
    /\ buffer \in [next : 0..BufferSlots, zero : 0..MaxZero]
    /\ own \in BOOLEAN
    /\ plan \in {Plan(t, pendings) : t \in Types, pendings \in 0..Losers + 1}
    /\ late \in BOOLEAN
    /\ depth \in 0..Window
    /\ tickets \in 0..Losers
    /\ queue \in [mine : 0..Losers, pred : 0..Losers]

\* put returns true for its own record, and the results of the stores into the
\* larger buffers are not looked at: there was a slot for it.
OwnStored == pc = "write" => own

\* Comment of put10, "space is guaranteed to be sufficient": no request meets a
\* full buffer while a node that fits its type is morphed.  Five requests beside
\* the own record are the most there is room for, so this holds for six threads
\* (a window and one late request) and fails for seven.
SpaceGuaranteed ==
    pc = "morph" /\ plan.how = "morph" /\ node.next <= node.type /\ queue.mine > 0
        => buffer.next < plan.slots

\* What is left of the node without a split is written as a whole: a put turns a
\* readable node into a readable node, unless a fingerprint is 0 and morph_node
\* counts one record too few.
MorphReadable ==
    [][pc = "write" /\ pc' = "idle" /\ plan.how # "split" /\ node.next <= node.room /\ buffer.zero = 0
           => node'.next <= node'.room]_vars

\* The halves of put12, and of put16 unless a request came after it had counted,
\* have a slot for every record, and the right one is not empty.  (The left one
\* can be: a request that arrives between the end of help_others and the count
\* makes put16 split a node however few records it has.)  Six threads do not make
\* the right half of put12 too large; seven do if a fingerprint is 0, and eight
\* in any case.
HalvesFit ==
    pc = "write" /\ plan.how = "split" /\ (node.type = 12 \/ (node.type = 16 /\ ~late))
        => LeftHalf <= plan.leftType /\ RightHalf \in 1..plan.room
=============================================================================
