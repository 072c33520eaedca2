----------------------------- MODULE DataNodeProofs -----------------------------
(***************************************************************************)
(* Theorems about DataNode, for every number of peers and every window: no *)
(* header counts more records than a node has slots, a node stays readable *)
(* through every put that does not split it, and, under the bounds on the  *)
(* records with fingerprint 0 and on the peers that the theorems state, a  *)
(* put stores its own record, the larger buffer of put10 has room for the  *)
(* requests of the peers, and the halves of a split fit.                   *)
(***************************************************************************)
EXTENDS DataNode, Integers, TLAPS

-----------------------------------------------------------------------------
(***************************************************************************)
(* The inductive invariant.                                                *)
(***************************************************************************)

\* A winner has fetched the node and has not written it back.
Working == pc \in {"put", "help", "count", "own", "morph", "write"}

\* The records that the winner has yet to store: its own one.
Owed == IF own THEN 0 ELSE 1

\* No more requests are under way than there are peers.
CountsOK == tickets + Pending <= Losers

\* What is decided, and when.  Nothing is planned until the pending requests are
\* counted; a node is left in place only when the own record is in it; and there is
\* a record in a buffer that is split.
PhaseOK ==
    /\ pc \in {"idle", "open", "put", "help", "count"} => plan = InPlace
    /\ pc \in {"own", "morph"} => plan.how # "inPlace"
    /\ pc \in {"own", "morph", "write"} => \E p \in Nat : plan = Plan(node.type, p)
    /\ pc = "put" => ~own
    /\ pc = "help" \/ (pc = "write" /\ plan.how = "inPlace") => own
    /\ own \/ pc \in {"morph", "write"} => buffer.next >= 1

\* A buffer counts more records than its slots only if the node did.
BufferOK ==
    /\ node.room <= node.type
    /\ pc \in {"put", "count", "own"} /\ ~own => buffer.next = node.next
    /\ Working /\ plan.how = "inPlace" => buffer.next <= node.type \/ buffer.next = node.next
    /\ plan.how # "inPlace" => buffer.next <= plan.slots

\* A record in the buffer is the winner's, a peer's or one that was there.
RecordsOK == Working => buffer.next + Owed + tickets + Pending <= node.next + 1 + Losers

\* Unless a request comes after the count, no more records are stored in a node of
\* the largest type than were counted.
CountedOK ==
    pc \in {"own", "morph", "write"} /\ node.type = Largest /\ ~late =>
        \E p \in Nat : plan = Plan(node.type, p) /\ buffer.next + Owed + Pending <= Largest + p

IInv == TypeOK /\ CountsOK /\ PhaseOK /\ BufferOK /\ RecordsOK /\ CountedOK

\* With at most one record of fingerprint 0, a header counts one record too many at
\* most, or two after a split.
SizesOK ==
    /\ node.type = 10 => node.next <= 12
    /\ node.type = 12 => node.next <= 13
    /\ node.type = 14 => node.next <= 15

-----------------------------------------------------------------------------
(***************************************************************************)
(* The operators of the model.                                             *)
(***************************************************************************)
Buffers == [next : 0..BufferSlots, zero : 0..MaxZero]

\* store changes nothing when there is no slot; otherwise the record is there.
LEMMA StoreLemma ==
  ASSUME buffer \in Buffers, NEW slots \in 1..BufferSlots
  PROVE  /\ Stored(slots) = {} <=> buffer.next >= slots
         /\ \A b \in Stored(slots) : /\ b \in Buffers /\ b.next \in 1..slots
                                     /\ b.next = buffer.next \/ b.next = buffer.next + 1
<1>1. buffer.next \in 0..21 /\ buffer.zero \in 0..MaxZero /\ MaxZero \in Nat /\ slots \in 1..21
  BY CountsAssumption DEF Buffers, BufferSlots
<1>2. CASE buffer.next >= slots
  <2>1. Stored(slots) = {}
    BY <1>2 DEF Stored
  <2>. QED BY <1>2, <2>1
<1>3. CASE ~(buffer.next >= slots)
  <2>1. buffer.next + 1 \in 1..slots /\ buffer.next + 1 \in 0..21
    BY <1>1, <1>3
  <2>2. [next |-> buffer.next + 1, zero |-> buffer.zero] \in Stored(slots)
    <3>1. buffer.zero \in {buffer.zero, buffer.zero + 1} \cap 0..MaxZero
      BY <1>1
    <3>2. [next |-> buffer.next + 1, zero |-> buffer.zero] \in
              {[next |-> buffer.next + 1, zero |-> z] : z \in {buffer.zero, buffer.zero + 1} \cap 0..MaxZero}
      BY <3>1
    <3>. QED BY <1>3, <3>2 DEF Stored
  <2>3. ASSUME NEW b \in Stored(slots)
        PROVE  /\ b \in Buffers /\ b.next \in 1..slots
               /\ b.next = buffer.next \/ b.next = buffer.next + 1
    <3>1. \/ buffer.next # 0 /\ b = buffer
          \/ b \in {[next |-> buffer.next + 1, zero |-> z] : z \in {buffer.zero, buffer.zero + 1} \cap 0..MaxZero}
      BY <1>3, <2>3 DEF Stored
    <3>2. CASE buffer.next # 0 /\ b = buffer
      BY <1>1, <1>3, <3>2
    <3>3. CASE b \in {[next |-> buffer.next + 1, zero |-> z] : z \in {buffer.zero, buffer.zero + 1} \cap 0..MaxZero}
      <4>1. PICK z \in 0..MaxZero : b = [next |-> buffer.next + 1, zero |-> z]
        BY <3>3
      <4>2. b.next = buffer.next + 1 /\ b \in Buffers
        BY <2>1, <4>1 DEF Buffers, BufferSlots
      <4>. QED BY <2>1, <4>2
    <3>. QED BY <3>1, <3>2, <3>3
  <2>. QED BY <1>3, <2>2, <2>3
<1>. QED BY <1>2, <1>3

\* The plans, field by field.
LEMMA PlanFields ==
  /\ InPlace.how = "inPlace"
  /\ Morph.how = "morph" /\ Morph.slots = 16
  /\ EagerMorph.how = "eager" /\ EagerMorph.slots = 16
  /\ \A l, lt, rt, r \in Nat : LET p == Split(l, lt, rt, r) IN
        /\ p.how = "split" /\ p.slots = 21 /\ p.left = l
        /\ p.leftType = lt /\ p.rightType = rt /\ p.room = r
BY DEF InPlace, Morph, EagerMorph, Split, Largest, BufferSlots

\* What is planned for a node and a number of pending requests.
LEMMA Plans ==
  ASSUME NEW t \in Types, NEW p \in Nat
  PROVE  /\ p = 0 <=> Plan(t, p) = InPlace
         /\ p = 0 <=> Plan(t, p).how = "inPlace"
         /\ p > 0 /\ t = 10 => Plan(t, p) = Morph
         /\ p > 0 /\ t = 12 => Plan(t, p) = IF p <= 4 THEN EagerMorph ELSE Split(9, 10, 10, 10)
         /\ p > 0 /\ t = 14 => Plan(t, p) = IF p <= 2 THEN EagerMorph ELSE Split(8, 10, 12, 10)
         /\ p > 0 /\ t = 16 => Plan(t, p) = IF p <= 2 THEN Split(9, 10, 10, 10)
                                         ELSE IF p <= 4 THEN Split(9, 10, 12, 12)
                                         ELSE Split(10, 12, 12, 12)
<1>1. CASE p = 0
  BY <1>1, PlanFields DEF Plan, Types
<1>2. CASE p # 0
  <2>1. p > 0
    BY <1>2
  <2>2. /\ t = 10 => Plan(t, p) = Morph
        /\ t = 12 => Plan(t, p) = IF p <= 4 THEN EagerMorph ELSE Split(9, 10, 10, 10)
        /\ t = 14 => Plan(t, p) = IF p <= 2 THEN EagerMorph ELSE Split(8, 10, 12, 10)
        /\ t = 16 => Plan(t, p) = IF p <= 2 THEN Split(9, 10, 10, 10)
                                  ELSE IF p <= 4 THEN Split(9, 10, 12, 12)
                                  ELSE Split(10, 12, 12, 12)
    BY <2>1 DEF Plan
  <2>3. Plan(t, p).how \in {"morph", "eager", "split"}
    <3>1. \A l \in 8..10, lt \in {10, 12}, rt \in {10, 12}, r \in {10, 12} :
             Split(l, lt, rt, r).how = "split"
      BY DEF Split
    <3>2. /\ Split(9, 10, 10, 10).how = "split" /\ Split(8, 10, 12, 10).how = "split"
          /\ Split(9, 10, 12, 12).how = "split" /\ Split(10, 12, 12, 12).how = "split"
      BY <3>1
    <3>3. t \in {10, 12, 14, 16}
      BY DEF Types
    <3>4. CASE t = 10
      BY <2>2, <3>4, PlanFields
    <3>5. CASE t = 12
      BY <2>2, <3>2, <3>5, PlanFields
    <3>6. CASE t = 14
      BY <2>2, <3>2, <3>6, PlanFields
    <3>7. CASE t = 16
      BY <2>2, <3>2, <3>7, PlanFields
    <3>. QED BY <3>3, <3>4, <3>5, <3>6, <3>7
  <2>. QED BY <1>2, <2>1, <2>2, <2>3, PlanFields
<1>. QED BY <1>1, <1>2

\* A node has as many slots as its type says.
LEMMA TypeOfLemma ==
  ASSUME NEW c \in Int, c <= 16
  PROVE  TypeOf(c) \in Types /\ c <= TypeOf(c)
<1>1. \E t \in Types : c <= t /\ \A u \in Types : c <= u => t <= u
  <2>1. CASE c <= 10
    <3>1. 10 \in Types /\ c <= 10 /\ \A u \in Types : c <= u => 10 <= u
      BY <2>1 DEF Types
    <3>. QED BY <3>1
  <2>2. CASE c \in 11..12
    <3>1. 12 \in Types /\ c <= 12 /\ \A u \in Types : c <= u => 12 <= u
      BY <2>2 DEF Types
    <3>. QED BY <3>1
  <2>3. CASE c \in 13..14
    <3>1. 14 \in Types /\ c <= 14 /\ \A u \in Types : c <= u => 14 <= u
      BY <2>3 DEF Types
    <3>. QED BY <3>1
  <2>4. CASE c \in 15..16
    <3>1. 16 \in Types /\ c <= 16 /\ \A u \in Types : c <= u => 16 <= u
      BY <2>4 DEF Types
    <3>. QED BY <3>1
  <2>. QED BY <2>1, <2>2, <2>3, <2>4
<1>. QED BY <1>1 DEF TypeOf

\* What a split leaves, and when it is planned.
LEMMA SplitFields ==
  ASSUME NEW t \in Types, NEW p \in Nat, Plan(t, p).how = "split"
  PROVE  LET plan0 == Plan(t, p) IN
         /\ plan0.left \in 8..10 /\ plan0.leftType \in {10, 12} /\ plan0.left <= plan0.leftType
         /\ plan0.rightType \in {10, 12} /\ plan0.room \in {10, 12} /\ plan0.room <= plan0.rightType
         /\ plan0.slots = 21 /\ t # 10
         /\ t = 12 => plan0.left = 9 /\ plan0.leftType = 10 /\ plan0.rightType = 10 /\ plan0.room = 10
         /\ t = 14 => plan0.left = 8 /\ plan0.leftType = 10 /\ plan0.rightType = 12 /\ plan0.room = 10
         /\ t = 16 => /\ p <= 2 => plan0.left = 9 /\ plan0.room = 10
                      /\ p \in 3..4 => plan0.left = 9 /\ plan0.room = 12
                      /\ p > 4 => plan0.left = 10 /\ plan0.room = 12
                      /\ plan0.rightType = plan0.room
<1>1. t \in {10, 12, 14, 16} /\ p > 0
  <2>1. p # 0
    BY Plans
  <2>. QED BY <2>1 DEF Types
<1>2. \A l \in 8..10, lt \in {10, 12}, rt \in {10, 12}, r \in {10, 12} :
        LET s == Split(l, lt, rt, r) IN
        /\ s.how = "split" /\ s.slots = 21 /\ s.left = l
        /\ s.leftType = lt /\ s.rightType = rt /\ s.room = r
  BY DEF Split, BufferSlots
<1>3. CASE t = 10
  BY <1>1, <1>3, PlanFields, Plans
<1>4. CASE t = 12
  <2>1. Plan(t, p) = Split(9, 10, 10, 10)
    BY <1>1, <1>4, PlanFields, Plans
  <2>. QED BY <1>2, <1>4, <2>1
<1>5. CASE t = 14
  <2>1. Plan(t, p) = Split(8, 10, 12, 10)
    BY <1>1, <1>5, PlanFields, Plans
  <2>. QED BY <1>2, <1>5, <2>1
<1>6. CASE t = 16
  <2>1. CASE p <= 2
    <3>1. Plan(t, p) = Split(9, 10, 10, 10)
      BY <1>1, <1>6, <2>1, Plans
    <3>. QED BY <1>2, <1>6, <2>1, <3>1
  <2>2. CASE p \in 3..4
    <3>1. Plan(t, p) = Split(9, 10, 12, 12)
      BY <1>1, <1>6, <2>2, Plans
    <3>. QED BY <1>2, <1>6, <2>2, <3>1
  <2>3. CASE p > 4
    <3>1. Plan(t, p) = Split(10, 12, 12, 12)
      BY <1>1, <1>6, <2>3, Plans
    <3>. QED BY <1>2, <1>6, <2>3, <3>1
  <2>. QED BY <2>1, <2>2, <2>3
<1>. QED BY <1>1, <1>3, <1>4, <1>5, <1>6

\* The slots of what is planned.
LEMMA PlanSlots ==
  ASSUME NEW t \in Types, NEW p \in Nat, Plan(t, p).how # "inPlace"
  PROVE  /\ Plan(t, p).slots \in {16, 21} /\ Plan(t, p).how \in {"morph", "eager", "split"}
         /\ Plan(t, p).how # "split" => Plan(t, p).slots = 16
         /\ Plan(t, p).how = "morph" => t = 10
         /\ Plan(t, p).how = "eager" => t \in {12, 14}
<1>1. t \in {10, 12, 14, 16} /\ p > 0
  BY Plans DEF Types
<1>2. CASE Plan(t, p).how = "split"
  BY <1>2, SplitFields
<1>3. CASE Plan(t, p).how # "split"
  <2>1. \A l \in 8..10, lt \in {10, 12}, rt \in {10, 12}, r \in {10, 12} :
           Split(l, lt, rt, r).how = "split"
    BY DEF Split
  <2>2. \/ Plan(t, p) = Morph /\ t = 10
        \/ Plan(t, p) = EagerMorph /\ t \in {12, 14}
    <3>1. t = 10 => Plan(t, p) = Morph
      BY <1>1, Plans
    <3>2. t = 12 => Plan(t, p) = EagerMorph
      BY <1>1, <1>3, <2>1, Plans
    <3>3. t = 14 => Plan(t, p) = EagerMorph
      BY <1>1, <1>3, <2>1, Plans
    <3>4. t # 16
      BY <1>1, <1>3, <2>1, Plans
    <3>. QED BY <1>1, <3>1, <3>2, <3>3, <3>4
  <2>. QED BY <2>2, PlanFields
<1>. QED BY <1>2, <1>3

\* The numbers that an invariant state has.
LEMMA Numbers ==
  ASSUME IInv
  PROVE  /\ node.type \in Types /\ node.type \in 10..16 /\ node.next \in 0..16
         /\ node.room \in Types /\ node.room \in 10..16 /\ node.zero \in 0..MaxZero
         /\ buffer \in Buffers /\ buffer.next \in 0..21 /\ buffer.zero \in 0..MaxZero
         /\ Losers \in Nat /\ Window \in Nat /\ MaxZero \in Nat
         /\ tickets \in 0..Losers /\ queue.mine \in 0..Losers /\ queue.pred \in 0..Losers
         /\ Pending \in Nat /\ Pending = queue.mine + queue.pred /\ Owed \in 0..1 /\ own \in BOOLEAN
         /\ depth \in 0..Window
BY CountsAssumption DEF IInv, TypeOK, Types, Buffers, Largest, BufferSlots, Pending, Owed

-----------------------------------------------------------------------------
(***************************************************************************)
(* The initial state and the peers.                                        *)
(***************************************************************************)
LEMMA InitOK == Init => IInv
<1>. SUFFICES ASSUME Init PROVE IInv
  OBVIOUS
<1>1. PICK n \in 1..11, z \in 0..MaxZero :
          node = [type |-> IF n = 11 THEN 12 ELSE 10, next |-> n,
                  room |-> IF n = 11 THEN 12 ELSE 10, zero |-> z]
  BY DEF Init
<1>2. /\ node.type \in Types /\ node.room = node.type /\ node.next \in 0..16 /\ node.zero \in 0..MaxZero
      /\ node \in [type : Types, next : 0..16, room : Types, zero : 0..MaxZero]
  BY <1>1 DEF Types
<1>3. /\ pc = "idle" /\ buffer = [next |-> 0, zero |-> 0] /\ own = FALSE /\ plan = InPlace
      /\ late = FALSE /\ depth = Window /\ tickets = 0 /\ queue = [mine |-> 0, pred |-> 0]
  BY DEF Init, NoRequests
<1>4. Losers \in Nat /\ Window \in Nat /\ MaxZero \in Nat
  BY CountsAssumption
<1>5. TypeOK
  <2>1. plan \in {Plan(t, pendings) : t \in Types, pendings \in 0..Losers + 1}
    <3>1. 10 \in Types /\ 0 \in 0..Losers + 1
      BY <1>4 DEF Types
    <3>2. Plan(10, 0) = InPlace
      BY <3>1, Plans
    <3>. QED BY <1>3, <3>1, <3>2
  <2>2. buffer \in [next : 0..BufferSlots, zero : 0..MaxZero]
    BY <1>3, <1>4 DEF BufferSlots
  <2>3. queue \in [mine : 0..Losers, pred : 0..Losers]
    BY <1>3, <1>4
  <2>4. tickets \in 0..Losers /\ depth \in 0..Window /\ own \in BOOLEAN /\ late \in BOOLEAN
    <3>1. 0 \in 0..Losers /\ Window \in 0..Window
      BY <1>4
    <3>. QED BY <1>3, <3>1
  <2>5. node \in [type : Types, next : 0..Largest, room : Types, zero : 0..MaxZero]
    BY <1>2 DEF Largest
  <2>. QED BY <1>3, <2>1, <2>2, <2>3, <2>4, <2>5 DEF TypeOK
<1>6. CountsOK /\ RecordsOK /\ CountedOK
  BY <1>3, <1>4 DEF CountsOK, RecordsOK, CountedOK, Pending, Working
<1>7. PhaseOK
  BY <1>3 DEF PhaseOK
<1>8. BufferOK
  <2>1. node.type \in 10..16
    BY <1>2 DEF Types
  <2>2. plan.how = "inPlace"
    BY <1>3, PlanFields
  <2>. QED BY <1>2, <1>3, <2>1, <2>2 DEF BufferOK, Working
<1>. QED BY <1>5, <1>6, <1>7, <1>8 DEF IInv

LEMMA TicketKeeps == ASSUME IInv, Ticket PROVE IInv'
<1>1. /\ pc = "open" /\ depth > 0 /\ tickets + Pending < Losers
      /\ depth' = depth - 1 /\ tickets' = tickets + 1
      /\ UNCHANGED <<node, pc, buffer, own, plan, late, queue>>
  BY DEF Ticket
<1>2. Pending' = Pending
  BY <1>1 DEF Pending
<1>3. tickets' \in 0..Losers /\ depth' \in 0..Window /\ tickets' + Pending' <= Losers
  BY <1>1, <1>2, Numbers
<1>4. TypeOK' /\ CountsOK'
  BY <1>1, <1>3 DEF IInv, TypeOK, CountsOK
<1>5. PhaseOK' /\ BufferOK'
  BY <1>1 DEF IInv, PhaseOK, BufferOK, Working
<1>6. RecordsOK' /\ CountedOK'
  BY <1>1 DEF RecordsOK, CountedOK, Working
<1>. QED BY <1>4, <1>5, <1>6 DEF IInv

\* A request that arrives was a ticket before.
LEMMA ArriveKeeps == ASSUME IInv, Arrive PROVE IInv'
<1>1. /\ tickets > 0 /\ tickets' = tickets - 1 /\ late' = (late \/ pc \in {"own", "morph", "write"})
      /\ UNCHANGED <<node, pc, buffer, own, plan, depth>>
  BY DEF Arrive
<1>2. queue \in [mine : 0..Losers, pred : 0..Losers]
  BY DEF IInv, TypeOK
<1>3. \/ queue'.mine = queue.mine + 1 /\ queue'.pred = queue.pred
      \/ queue'.mine = queue.mine /\ queue'.pred = queue.pred + 1
  BY <1>2 DEF Arrive
<1>4. Pending' = Pending + 1
  BY <1>3, Numbers DEF Pending
<1>5. tickets' + Pending' = tickets + Pending /\ tickets' \in 0..Losers
  BY <1>1, <1>4, Numbers
<1>6. tickets + Pending <= Losers
  BY DEF IInv, CountsOK
<1>7. queue' \in [mine : 0..Losers, pred : 0..Losers]
  <2>1. queue'.mine \in 0..Losers /\ queue'.pred \in 0..Losers
    BY <1>1, <1>3, <1>6, Numbers
  <2>2. PICK n \in {"mine", "pred"} : queue' = [queue EXCEPT ![n] = @ + 1]
    BY DEF Arrive
  <2>. QED BY <1>2, <2>1, <2>2
<1>8. TypeOK' /\ CountsOK'
  BY <1>1, <1>5, <1>6, <1>7 DEF IInv, TypeOK, CountsOK
<1>9. PhaseOK' /\ BufferOK'
  BY <1>1 DEF IInv, PhaseOK, BufferOK, Working
<1>10. RecordsOK'
  <2>1. Owed' = Owed /\ Working' = Working
    BY <1>1 DEF Owed, Working
  <2>2. ASSUME Working PROVE buffer'.next + Owed' + tickets' + Pending' <= node'.next + 1 + Losers
    BY <1>1, <1>4, <2>1, <2>2, Numbers DEF IInv, RecordsOK
  <2>. QED BY <2>1, <2>2 DEF RecordsOK
<1>11. CountedOK'
  BY <1>1 DEF IInv, TypeOK, CountedOK
<1>. QED BY <1>8, <1>9, <1>10, <1>11 DEF IInv

-----------------------------------------------------------------------------
(***************************************************************************)
(* The winner.                                                             *)
(***************************************************************************)
LEMMA StartKeeps == ASSUME IInv, Start PROVE IInv'
<1>1. /\ pc = "idle" /\ pc' = "open" /\ queue' = [mine |-> 0, pred |-> 0] /\ depth' = Window
      /\ UNCHANGED <<node, buffer, own, plan, late, tickets>>
  BY DEF Start, NoRequests
<1>2. Pending' = 0 /\ tickets \in 0..Losers /\ Losers \in Nat /\ Window \in Nat
  BY <1>1, Numbers DEF Pending
<1>3. TypeOK' /\ CountsOK'
  BY <1>1, <1>2 DEF IInv, TypeOK, CountsOK
<1>4. PhaseOK' /\ BufferOK'
  BY <1>1 DEF IInv, PhaseOK, BufferOK, Working
<1>5. RecordsOK' /\ CountedOK'
  BY <1>1 DEF RecordsOK, CountedOK, Working
<1>. QED BY <1>3, <1>4, <1>5 DEF IInv

LEMMA FetchKeeps == ASSUME IInv, Fetch PROVE IInv'
<1>1. /\ pc = "open" /\ pc' = "put" /\ own' = FALSE
      /\ buffer' = [next |-> node.next, zero |-> node.zero]
      /\ UNCHANGED <<node, plan, late, depth, tickets, queue>>
  BY DEF Fetch
<1>2. buffer' \in Buffers /\ buffer'.next = node.next
  <2>1. node.next \in 0..21
    BY Numbers
  <2>. QED BY <1>1, <2>1, Numbers DEF Buffers, BufferSlots
<1>3. TypeOK' /\ CountsOK'
  <2>1. buffer' \in [next : 0..BufferSlots, zero : 0..MaxZero]
    BY <1>2 DEF Buffers
  <2>2. pc' \in {"idle", "open", "put", "help", "count", "own", "morph", "write"} /\ own' \in BOOLEAN
    BY <1>1
  <2>3. TypeOK'
    BY <1>1, <2>1, <2>2 DEF IInv, TypeOK
  <2>. QED BY <1>1, <2>3 DEF IInv, CountsOK, Pending
<1>4. plan = InPlace /\ plan.how = "inPlace"
  BY <1>1, PlanFields DEF IInv, PhaseOK
<1>5. PhaseOK'
  BY <1>1, <1>4 DEF IInv, PhaseOK
<1>6. BufferOK'
  BY <1>1, <1>2, <1>4 DEF IInv, BufferOK
<1>7. RecordsOK'
  <2>1. Owed' = 1 /\ Pending' = Pending /\ tickets' = tickets /\ node' = node
    BY <1>1 DEF Owed, Pending
  <2>2. tickets + Pending <= Losers
    BY DEF IInv, CountsOK
  <2>3. buffer'.next + Owed' + tickets' + Pending' <= node'.next + 1 + Losers
    BY <1>2, <2>1, <2>2, Numbers
  <2>. QED BY <2>3 DEF RecordsOK
<1>8. CountedOK'
  BY <1>1 DEF CountedOK
<1>. QED BY <1>3, <1>5, <1>6, <1>7, <1>8 DEF IInv

LEMMA PutOwnKeeps == ASSUME IInv, PutOwn PROVE IInv'
<1>1. /\ pc = "put" /\ UNCHANGED <<node, plan, late, depth, tickets, queue>>
      /\ \/ buffer' \in Stored(node.type) /\ own' = TRUE /\ pc' = "help"
         \/ Stored(node.type) = {} /\ pc' = "count" /\ UNCHANGED <<buffer, own>>
  BY DEF PutOwn
<1>2. plan = InPlace /\ plan.how = "inPlace" /\ ~own
  BY <1>1, PlanFields DEF IInv, PhaseOK
<1>3. /\ own' \in BOOLEAN /\ buffer' \in Buffers
      /\ own' => pc' = "help" /\ buffer'.next \in 1..node.type
                 /\ buffer'.next \in {buffer.next, buffer.next + 1}
      /\ ~own' => pc' = "count" /\ buffer' = buffer
  <2>1. CASE buffer' \in Stored(node.type) /\ own' = TRUE /\ pc' = "help"
    <3>1. buffer \in Buffers /\ node.type \in 1..BufferSlots
      BY Numbers DEF BufferSlots
    <3>. QED BY <2>1, <3>1, StoreLemma
  <2>2. CASE Stored(node.type) = {} /\ pc' = "count" /\ UNCHANGED <<buffer, own>>
    BY <1>2, <2>2, Numbers
  <2>. QED BY <1>1, <2>1, <2>2
<1>4. TypeOK' /\ CountsOK'
  <2>1. pc' \in {"help", "count"}
    BY <1>1
  <2>. QED BY <1>1, <1>3, <2>1 DEF IInv, TypeOK, CountsOK, Buffers, Pending
<1>5. PhaseOK'
  BY <1>1, <1>2, <1>3, Numbers DEF PhaseOK
<1>6. buffer.next = node.next
  BY <1>1, <1>2 DEF IInv, BufferOK
<1>7. BufferOK'
  BY <1>1, <1>2, <1>3, <1>6, Numbers DEF IInv, BufferOK
<1>8. RecordsOK'
  <2>1. Pending' = Pending /\ tickets' = tickets /\ node' = node /\ Owed = 1 /\ Working
    BY <1>1, <1>2 DEF Pending, Owed, Working
  <2>2. buffer'.next + Owed' <= buffer.next + Owed
    BY <1>3, <2>1, Numbers DEF Owed
  <2>3. buffer.next + Owed + tickets + Pending <= node.next + 1 + Losers
    BY <2>1 DEF IInv, RecordsOK
  <2>4. buffer'.next \in 0..21 /\ Owed' \in 0..1
    BY <1>3 DEF Buffers, BufferSlots, Owed
  <2>5. /\ buffer.next \in Nat /\ Owed \in Nat /\ tickets \in Nat /\ Pending \in Nat
        /\ node.next \in Nat /\ Losers \in Nat
    BY <2>1, Numbers
  <2>6. buffer'.next + Owed' + tickets + Pending <= node.next + 1 + Losers
    BY <2>2, <2>3, <2>4, <2>5
  <2>. QED BY <2>1, <2>6 DEF RecordsOK
<1>9. CountedOK'
  BY <1>1 DEF CountedOK
<1>. QED BY <1>4, <1>5, <1>7, <1>8, <1>9 DEF IInv

\* What helping does to the requests and to the buffer.
LEMMA HelpLemma ==
  ASSUME IInv, pc \in {"help", "morph"}
  PROVE  /\ Slots \in 1..BufferSlots /\ (pc = "help" => Slots = node.type) /\ (pc = "morph" => Slots = plan.slots)
         /\ pc = "help" => plan = InPlace /\ plan.how = "inPlace" /\ own
         /\ pc = "morph" => plan.how # "inPlace" /\ plan.slots \in {16, 21} /\ buffer.next >= 1
<1>1. CASE pc = "help"
  <2>1. plan = InPlace /\ own
    BY <1>1 DEF IInv, PhaseOK
  <2>2. Slots = node.type
    BY <1>1 DEF Slots
  <2>3. plan.how = "inPlace"
    BY <2>1, PlanFields
  <2>4. node.type \in 1..BufferSlots
    BY Numbers DEF BufferSlots
  <2>. QED BY <1>1, <2>1, <2>2, <2>3, <2>4
<1>2. CASE pc = "morph"
  <2>1. plan.how # "inPlace" /\ buffer.next >= 1
    BY <1>2 DEF IInv, PhaseOK
  <2>2. PICK p \in Nat : plan = Plan(node.type, p)
    BY <1>2 DEF IInv, PhaseOK
  <2>3. plan.slots \in {16, 21}
    BY <2>1, <2>2, Numbers, PlanSlots
  <2>4. Slots = plan.slots
    BY <1>2 DEF Slots
  <2>. QED BY <1>2, <2>1, <2>3, <2>4 DEF BufferSlots
<1>. QED BY <1>1, <1>2

\* A step of the winner that takes a request and may store its record.
LEMMA HelpsOne ==
  ASSUME IInv, pc \in {"help", "morph"}, UNCHANGED <<node, pc, own, plan, late, depth, tickets>>,
         queue' \in [mine : 0..Losers, pred : 0..Losers], Pending' + 1 = Pending,
         buffer' = buffer \/ buffer' \in Stored(Slots)
  PROVE  IInv'
<1>1. /\ buffer' \in Buffers /\ buffer'.next \in {buffer.next, buffer.next + 1}
      /\ buffer' = buffer \/ buffer'.next \in 1..Slots
  <2>1. buffer \in Buffers /\ Slots \in 1..BufferSlots
    BY HelpLemma, Numbers
  <2>2. CASE buffer' = buffer
    BY <2>1, <2>2
  <2>3. CASE buffer' \in Stored(Slots)
    BY <2>1, <2>3, StoreLemma
  <2>. QED BY <2>2, <2>3
<1>2. Pending' \in Nat /\ Pending' < Pending
  <2>1. queue'.mine \in Nat /\ queue'.pred \in Nat
    BY Numbers
  <2>2. Pending' \in Nat
    BY <2>1 DEF Pending
  <2>. QED BY <2>2, Numbers
<1>3. TypeOK' /\ CountsOK'
  <2>1. TypeOK'
    BY <1>1 DEF IInv, TypeOK, Buffers
  <2>. QED BY <1>2, <2>1, Numbers DEF IInv, CountsOK
<1>4. PhaseOK'
  BY <1>1, HelpLemma, Numbers DEF IInv, PhaseOK
<1>5. BufferOK'
  <2>1. CASE pc = "help"
    BY <1>1, <2>1, HelpLemma, Numbers DEF IInv, BufferOK, Working
  <2>2. CASE pc = "morph"
    BY <1>1, <2>2, HelpLemma, Numbers DEF IInv, BufferOK, Working
  <2>. QED BY <2>1, <2>2
<1>6. buffer'.next + Pending' <= buffer.next + Pending
  BY <1>1, <1>2, Numbers
<1>7. Owed' = Owed /\ buffer'.next \in 0..21
  BY <1>1 DEF Owed, Buffers, BufferSlots
<1>8. RecordsOK'
  <2>1. buffer.next + Owed + tickets + Pending <= node.next + 1 + Losers
    BY DEF IInv, RecordsOK, Working
  <2>2. node'.next = node.next /\ tickets' = tickets /\ Owed' \in Nat
    BY <1>7, Numbers
  <2>3. buffer'.next + Owed' + tickets' + Pending' <= node'.next + 1 + Losers
    <3>1. /\ buffer.next \in Nat /\ tickets \in Nat /\ Pending \in Nat /\ node.next \in Nat
          /\ Losers \in Nat /\ buffer'.next \in Nat
      BY <1>7, Numbers
    <3>. QED BY <1>2, <1>6, <1>7, <2>1, <2>2, <3>1
  <2>. QED BY <2>3 DEF RecordsOK
<1>9. CountedOK'
  <2>1. ASSUME pc = "morph", node.type = Largest, ~late
        PROVE  \E p \in Nat : plan = Plan(node.type, p) /\ buffer'.next + Owed' + Pending' <= Largest + p
    <3>1. PICK p \in Nat : plan = Plan(node.type, p) /\ buffer.next + Owed + Pending <= Largest + p
      BY <2>1 DEF IInv, CountedOK
    <3>2. buffer'.next + Owed' + Pending' <= Largest + p
      BY <1>2, <1>6, <1>7, <3>1, Numbers DEF Largest
    <3>. QED BY <3>1, <3>2
  <2>. QED BY <2>1 DEF CountedOK
<1>. QED BY <1>3, <1>4, <1>5, <1>8, <1>9 DEF IInv

LEMMA HelpOneKeeps == ASSUME IInv, HelpOne PROVE IInv'
<1>1. queue \in [mine : 0..Losers, pred : 0..Losers]
  BY DEF IInv, TypeOK
<1>2. /\ pc \in {"help", "morph"} /\ UNCHANGED <<node, pc, own, plan, late, depth, tickets>>
      /\ \/ queue.pred > 0 /\ queue' = [queue EXCEPT !.pred = @ - 1] /\ buffer' = buffer
         \/ queue.mine > 0 /\ queue' = [queue EXCEPT !.mine = @ - 1] /\ buffer' \in Stored(Slots)
  BY DEF HelpOne
<1>3. queue' \in [mine : 0..Losers, pred : 0..Losers] /\ Pending' + 1 = Pending
  <2>1. CASE queue.pred > 0 /\ queue' = [queue EXCEPT !.pred = @ - 1]
    <3>1. queue'.mine = queue.mine /\ queue'.pred = queue.pred - 1
      BY <1>1, <2>1
    <3>2. queue.pred - 1 \in 0..Losers
      BY <2>1, Numbers
    <3>. QED BY <1>1, <2>1, <3>1, <3>2, Numbers DEF Pending
  <2>2. CASE queue.mine > 0 /\ queue' = [queue EXCEPT !.mine = @ - 1]
    <3>1. queue'.pred = queue.pred /\ queue'.mine = queue.mine - 1
      BY <1>1, <2>2
    <3>2. queue.mine - 1 \in 0..Losers
      BY <2>2, Numbers
    <3>. QED BY <1>1, <2>2, <3>1, <3>2, Numbers DEF Pending
  <2>. QED BY <1>2, <2>1, <2>2
<1>. QED BY <1>2, <1>3, HelpsOne

\* The loop over the requests ends, because none is left or because one does not fit.
LEMMA HelpEnds ==
  ASSUME IInv, pc \in {"help", "morph"}, pc' = (IF pc = "help" THEN "count" ELSE "write"),
         UNCHANGED <<node, buffer, own, plan, late, depth, tickets, queue>>
  PROVE  IInv'
<1>1. Pending' = Pending /\ Owed' = Owed
  BY DEF Pending, Owed
<1>2. TypeOK' /\ CountsOK'
  BY <1>1 DEF IInv, TypeOK, CountsOK
<1>3. PhaseOK'
  BY HelpLemma DEF IInv, PhaseOK
<1>4. BufferOK'
  BY HelpLemma DEF IInv, BufferOK, Working
<1>5. RecordsOK' /\ CountedOK'
  BY <1>1 DEF IInv, RecordsOK, CountedOK, Working
<1>. QED BY <1>2, <1>3, <1>4, <1>5 DEF IInv

LEMMA HelpFullKeeps == ASSUME IInv, HelpFull PROVE IInv'
<1>1. /\ pc \in {"help", "morph"} /\ queue.mine > 0
      /\ UNCHANGED <<node, buffer, own, plan, late, depth, tickets>>
  BY DEF HelpFull
<1>2. CASE pc = "morph" /\ plan.how = "morph"
  <2>1. queue' = [queue EXCEPT !.mine = @ - 1] /\ pc' = pc
    BY <1>2 DEF HelpFull
  <2>2. queue \in [mine : 0..Losers, pred : 0..Losers]
    BY DEF IInv, TypeOK
  <2>3. queue'.pred = queue.pred /\ queue'.mine = queue.mine - 1 /\ queue.mine - 1 \in 0..Losers
    BY <1>1, <2>1, <2>2, Numbers
  <2>4. queue' \in [mine : 0..Losers, pred : 0..Losers]
    BY <2>1, <2>2, <2>3
  <2>5. Pending' + 1 = Pending
    BY <2>3, Numbers DEF Pending
  <2>. QED BY <1>1, <2>1, <2>4, <2>5, HelpsOne
<1>3. CASE ~(pc = "morph" /\ plan.how = "morph")
  <2>1. pc' = (IF pc = "help" THEN "count" ELSE "write") /\ UNCHANGED queue
    BY <1>3 DEF HelpFull
  <2>. QED BY <1>1, <2>1, HelpEnds
<1>. QED BY <1>2, <1>3

LEMMA HelpDoneKeeps == ASSUME IInv, HelpDone PROVE IInv'
BY HelpEnds DEF HelpDone

\* The count of the pending requests decides what is planned.
LEMMA CountKeeps == ASSUME IInv, Count PROVE IInv'
<1>. DEFINE p == Pending + Owed
<1>1. /\ pc = "count" /\ plan' = Plan(node.type, p) /\ late' = FALSE
      /\ pc' = (IF plan' = InPlace THEN "write" ELSE "own")
      /\ UNCHANGED <<node, buffer, own, depth, tickets, queue>>
  BY DEF Count, Owed
<1>2. p \in Nat /\ p \in 0..Losers + 1 /\ Pending' = Pending /\ Owed' = Owed
  <2>1. tickets + Pending <= Losers
    BY DEF IInv, CountsOK
  <2>. QED BY <1>1, <2>1, Numbers DEF Pending, Owed
<1>3. plan = InPlace /\ plan.how = "inPlace"
  BY <1>1, PlanFields DEF IInv, PhaseOK
<1>. HIDE DEF p
<1>4. TypeOK' /\ CountsOK'
  <2>1. plan' \in {Plan(t, pendings) : t \in Types, pendings \in 0..Losers + 1}
    BY <1>1, <1>2, Numbers
  <2>2. /\ pc' \in {"idle", "open", "put", "help", "count", "own", "morph", "write"}
        /\ late' \in BOOLEAN
    BY <1>1
  <2>3. TypeOK'
    BY <1>1, <2>1, <2>2 DEF IInv, TypeOK
  <2>. QED BY <1>1, <1>2, <2>3 DEF IInv, CountsOK
<1>5. /\ plan' = InPlace <=> plan'.how = "inPlace"
      /\ plan' = InPlace => own
      /\ plan'.how # "inPlace" => plan'.slots \in {16, 21}
  <2>1. p = 0 => own
    BY Numbers DEF p, Owed
  <2>2. PICK q \in Nat : q = p
    BY <1>2
  <2>. QED BY <1>1, <2>1, <2>2, Plans, PlanSlots, Numbers
<1>6. PhaseOK'
  <2>1. own => buffer.next >= 1
    BY DEF IInv, PhaseOK
  <2>2. \E q \in Nat : plan' = Plan(node'.type, q)
    BY <1>1, <1>2
  <2>3. \/ pc' = "own" /\ plan'.how # "inPlace"
        \/ pc' = "write" /\ plan'.how = "inPlace" /\ own'
    BY <1>1, <1>5
  <2>. QED BY <1>1, <2>1, <2>2, <2>3 DEF PhaseOK
<1>7. BufferOK'
  <2>1. buffer.next <= node.type \/ buffer.next = node.next
    BY <1>1, <1>3 DEF IInv, BufferOK, Working
  <2>2. plan'.how # "inPlace" => buffer.next <= plan'.slots
    BY <1>5, <2>1, Numbers
  <2>3. ~own => buffer.next = node.next
    BY <1>1 DEF IInv, BufferOK
  <2>4. node.room <= node.type
    BY DEF IInv, BufferOK
  <2>. QED BY <1>1, <2>1, <2>2, <2>3, <2>4 DEF BufferOK
<1>8. RecordsOK'
  BY <1>1, <1>2 DEF IInv, RecordsOK, Working
<1>9. CountedOK'
  <2>1. ASSUME node.type = Largest PROVE buffer.next + Owed + Pending <= Largest + p
    <3>1. buffer.next <= 16
      BY <1>1, <1>3, <2>1, Numbers DEF IInv, BufferOK, Working, Largest
    <3>. QED BY <3>1, Numbers DEF p, Largest
  <2>. QED BY <1>1, <1>2, <2>1 DEF CountedOK
<1>. QED BY <1>4, <1>6, <1>7, <1>8, <1>9 DEF IInv

LEMMA MorphOwnKeeps == ASSUME IInv, MorphOwn PROVE IInv'
<1>1. /\ pc = "own" /\ pc' = "morph" /\ UNCHANGED <<node, plan, late, depth, tickets, queue>>
      /\ \/ own /\ UNCHANGED <<buffer, own>>
         \/ Stored(plan.slots) = {} /\ UNCHANGED <<buffer, own>>
         \/ ~own /\ buffer' \in Stored(plan.slots) /\ own' = TRUE
  BY DEF MorphOwn
<1>2. plan.how # "inPlace" /\ plan.slots \in {16, 21}
  <2>1. plan.how # "inPlace"
    BY <1>1 DEF IInv, PhaseOK
  <2>2. PICK p \in Nat : plan = Plan(node.type, p)
    BY <1>1 DEF IInv, PhaseOK
  <2>. QED BY <2>1, <2>2, Numbers, PlanSlots
<1>3. /\ buffer' \in Buffers /\ own' \in BOOLEAN /\ buffer'.next \in 1..plan.slots
      /\ buffer'.next + Owed' <= buffer.next + Owed
  <2>1. buffer \in Buffers /\ plan.slots \in 1..BufferSlots /\ buffer.next <= plan.slots
    BY <1>2, Numbers DEF BufferSlots, IInv, BufferOK
  <2>2. CASE own /\ UNCHANGED <<buffer, own>>
    <3>1. buffer.next >= 1
      BY <2>2 DEF IInv, PhaseOK
    <3>. QED BY <1>2, <2>1, <2>2, <3>1, Numbers DEF Owed
  <2>3. CASE Stored(plan.slots) = {} /\ UNCHANGED <<buffer, own>>
    <3>1. buffer.next >= plan.slots
      BY <2>1, <2>3, StoreLemma
    <3>. QED BY <1>2, <2>1, <2>3, <3>1, Numbers DEF Owed
  <2>4. CASE ~own /\ buffer' \in Stored(plan.slots) /\ own' = TRUE
    <3>1. /\ buffer' \in Buffers /\ buffer'.next \in 1..plan.slots
          /\ buffer'.next = buffer.next \/ buffer'.next = buffer.next + 1
      BY <2>1, <2>4, StoreLemma
    <3>2. Owed = 1 /\ Owed' = 0
      BY <2>4 DEF Owed
    <3>. QED BY <2>4, <3>1, <3>2, Numbers
  <2>. QED BY <1>1, <2>2, <2>3, <2>4
<1>4. Pending' = Pending
  BY <1>1 DEF Pending
<1>5. TypeOK' /\ CountsOK'
  <2>1. pc' \in {"own", "morph"}
    BY <1>1
  <2>2. TypeOK'
    BY <1>1, <1>3, <2>1 DEF IInv, TypeOK, Buffers
  <2>. QED BY <1>1, <1>4, <2>2 DEF IInv, CountsOK
<1>6. PhaseOK'
  <2>1. buffer'.next >= 1
    BY <1>2, <1>3
  <2>. QED BY <1>1, <1>2, <2>1 DEF IInv, PhaseOK
<1>7. BufferOK'
  <2>1. buffer'.next <= plan'.slots
    BY <1>1, <1>2, <1>3
  <2>. QED BY <1>1, <1>2, <2>1 DEF IInv, BufferOK
<1>8. Owed' \in 0..1 /\ buffer'.next \in 0..21
  BY <1>3 DEF Owed, Buffers, BufferSlots
<1>9. RecordsOK'
  <2>1. buffer.next + Owed + tickets + Pending <= node.next + 1 + Losers
    BY <1>1 DEF IInv, RecordsOK, Working
  <2>2. node'.next = node.next /\ tickets' = tickets /\ Owed' \in Nat /\ Owed \in Nat
    BY <1>1, <1>8, Numbers
  <2>3. buffer'.next + Owed' + tickets' + Pending' <= node'.next + 1 + Losers
    <3>1. /\ buffer.next \in Nat /\ tickets \in Nat /\ Pending \in Nat /\ node.next \in Nat
          /\ Losers \in Nat /\ buffer'.next \in Nat
      BY <1>8, Numbers
    <3>. QED BY <1>3, <1>4, <2>1, <2>2, <3>1
  <2>. QED BY <2>3 DEF RecordsOK
<1>10. CountedOK'
  <2>1. ASSUME node.type = Largest, ~late
        PROVE  \E p \in Nat : plan = Plan(node.type, p) /\ buffer'.next + Owed' + Pending' <= Largest + p
    <3>1. PICK p \in Nat : plan = Plan(node.type, p) /\ buffer.next + Owed + Pending <= Largest + p
      BY <1>1, <2>1 DEF IInv, CountedOK
    <3>2. buffer'.next + Owed' + Pending' <= Largest + p
      BY <1>3, <1>4, <1>8, <3>1, Numbers DEF Largest
    <3>. QED BY <3>1, <3>2
  <2>. QED BY <1>1, <2>1 DEF CountedOK
<1>. QED BY <1>5, <1>6, <1>7, <1>9, <1>10 DEF IInv

-----------------------------------------------------------------------------
(***************************************************************************)
(* The writing of the result.                                              *)
(***************************************************************************)

\* The halves: where the records of the buffer go.
LEMMA HalvesLemma ==
  ASSUME IInv, pc = "write", plan.how = "split"
  PROVE  /\ LeftHalf \in 0..10 /\ LeftHalf <= plan.left
         /\ LeftHalf = (IF buffer.next > plan.left THEN plan.left ELSE buffer.next - 1)
         /\ RightHalf = buffer.next - LeftHalf /\ RightHalf \in 1..13
         /\ plan.leftType \in {10, 12} /\ plan.left <= plan.leftType
         /\ plan.rightType \in {10, 12} /\ plan.room \in {10, 12} /\ plan.room <= plan.rightType
         /\ plan.rightType = 10 => RightHalf <= 12
<1>1. PICK p \in Nat : plan = Plan(node.type, p)
  BY DEF IInv, PhaseOK
<1>2. /\ plan.left \in 8..10 /\ plan.leftType \in {10, 12} /\ plan.left <= plan.leftType
      /\ plan.rightType \in {10, 12} /\ plan.room \in {10, 12} /\ plan.room <= plan.rightType
      /\ node.type \in {12, 14, 16}
  <2>1. node.type \in Types /\ Plan(node.type, p).how = "split"
    BY <1>1, Numbers
  <2>2. node.type # 10
    BY <2>1, SplitFields
  <2>. QED BY <1>1, <2>1, <2>2, SplitFields DEF Types
<1>3. plan.rightType = 10 => plan.left >= 9
  <2>1. node.type \in Types /\ Plan(node.type, p).how = "split"
    BY <1>1, Numbers
  <2>2. /\ node.type = 12 => plan.left = 9
        /\ node.type = 14 => plan.rightType = 12
        /\ node.type = 16 => plan.left = 9 \/ plan.left = 10
    <3>1. p <= 2 \/ p \in 3..4 \/ p > 4
      OBVIOUS
    <3>. QED BY <1>1, <2>1, <3>1, SplitFields
  <2>. QED BY <1>2, <2>2
<1>4. buffer.next \in 1..21
  BY Numbers DEF IInv, PhaseOK
<1>5. LeftHalf = (IF buffer.next > plan.left THEN plan.left ELSE buffer.next - 1)
      /\ RightHalf = buffer.next - LeftHalf
  BY DEF LeftHalf, RightHalf
<1>. QED BY <1>2, <1>3, <1>4, <1>5

\* What a put leaves of a node is a node, and one that is not split is readable if the
\* node was and no fingerprint is 0.
LEMMA Result ==
  ASSUME IInv, Write
  PROVE  /\ node' \in [type : Types, next : 0..16, room : Types, zero : 0..MaxZero]
         /\ node'.room <= node'.type
         /\ plan.how = "split" => node' \in Halves
         /\ plan.how # "split" =>
               /\ node'.next = buffer.next /\ node'.room = node'.type
               /\ plan.how = "inPlace" => node'.type = node.type
               /\ plan.how = "morph" => \E c \in Int : /\ c <= 16 /\ buffer.next - buffer.zero <= c
                                                      /\ node'.type = TypeOf(c)
               /\ plan.how = "eager" => node'.type = 16
<1>1. pc = "write" /\ plan.how \in {"inPlace", "morph", "eager", "split"}
  BY DEF Write
<1>2. PICK p \in Nat : plan = Plan(node.type, p)
  BY <1>1 DEF IInv, PhaseOK
<1>3. CASE plan.how = "inPlace"
  <2>1. node' = Written(node.type, buffer.next, node.type, buffer.zero)
    BY <1>3 DEF Write
  <2>2. buffer.next \in 0..16
    BY <1>1, <1>3, Numbers DEF IInv, BufferOK, Working
  <2>. QED BY <1>3, <2>1, <2>2, Numbers DEF Written
<1>4. CASE plan.how \in {"morph", "eager"}
  <2>1. plan.slots = 16
    BY <1>2, <1>4, Numbers, PlanSlots
  <2>2. buffer.next \in 0..16
    BY <1>4, <2>1, Numbers DEF IInv, BufferOK
  <2>3. CASE plan.how = "morph"
    <3>1. PICK t \in MorphNode : node' = Written(t, buffer.next, t, buffer.zero)
      BY <2>3 DEF Write
    <3>2. PICK c \in (buffer.next - buffer.zero)..(16 - buffer.zero) : t = TypeOf(c)
      BY <3>1 DEF MorphNode, Largest
    <3>3. c \in Int /\ c <= 16 /\ buffer.next - buffer.zero <= c
      BY <3>2, Numbers
    <3>4. t \in Types
      BY <3>2, <3>3, TypeOfLemma
    <3>5. t <= t
      BY <3>4 DEF Types
    <3>6. /\ node'.type = t /\ node'.next = buffer.next /\ node'.room = t
          /\ node' \in [type : Types, next : 0..16, room : Types, zero : 0..MaxZero]
      BY <2>2, <3>1, <3>4, Numbers DEF Written
    <3>. QED BY <2>3, <3>2, <3>3, <3>5, <3>6
  <2>4. CASE plan.how = "eager"
    <3>1. node' = Written(16, buffer.next, 16, buffer.zero)
      BY <2>4 DEF Write, Largest
    <3>2. 16 \in Types
      BY DEF Types
    <3>. QED BY <2>2, <2>4, <3>1, <3>2, Numbers DEF Written
  <2>. QED BY <1>4, <2>3, <2>4
<1>5. CASE plan.how = "split"
  <2>1. node' \in Halves
    BY <1>5 DEF Write
  <2>2. \/ \E z \in 0..buffer.zero : node' = Written(plan.leftType, LeftHalf, plan.leftType, z)
        \/ \E z \in 0..buffer.zero : node' = Written(plan.rightType, RightHalf, plan.room, z)
    BY <2>1 DEF Halves
  <2>3. LeftHalf \in 0..16 /\ RightHalf \in 0..16 /\ 0..buffer.zero \subseteq 0..MaxZero
    BY <1>1, <1>5, HalvesLemma, Numbers
  <2>4. {10, 12} \subseteq Types
    BY DEF Types
  <2>. QED BY <1>1, <1>5, <2>1, <2>2, <2>3, <2>4, HalvesLemma DEF Written
<1>. QED BY <1>1, <1>3, <1>4, <1>5

LEMMA WriteKeeps == ASSUME IInv, Write PROVE IInv'
<1>1. /\ pc = "write" /\ pc' = "idle" /\ depth' = Window /\ plan' = InPlace
      /\ buffer' = [next |-> 0, zero |-> 0] /\ own' = FALSE /\ late' = FALSE
      /\ UNCHANGED <<tickets, queue>>
  BY DEF Write
<1>2. plan'.how = "inPlace"
  BY <1>1, PlanFields
<1>3. TypeOK'
  <2>1. node' \in [type : Types, next : 0..Largest, room : Types, zero : 0..MaxZero]
    BY Result DEF Largest
  <2>2. plan' \in {Plan(t, pendings) : t \in Types, pendings \in 0..Losers + 1}
    <3>1. 10 \in Types /\ 0 \in 0..Losers + 1
      BY Numbers DEF Types
    <3>2. Plan(10, 0) = InPlace
      BY <3>1, Plans
    <3>. QED BY <1>1, <3>1, <3>2
  <2>3. 0 \in 0..BufferSlots /\ 0 \in 0..MaxZero /\ Window \in 0..Window
    BY Numbers DEF BufferSlots
  <2>4. buffer' \in [next : 0..BufferSlots, zero : 0..MaxZero]
    BY <1>1, <2>3
  <2>5. pc' \in {"idle", "open", "put", "help", "count", "own", "morph", "write"}
        /\ own' \in BOOLEAN /\ late' \in BOOLEAN
    BY <1>1
  <2>. QED BY <1>1, <2>1, <2>2, <2>3, <2>4, <2>5 DEF IInv, TypeOK
<1>4. CountsOK'
  BY <1>1 DEF IInv, CountsOK, Pending
<1>5. PhaseOK' /\ RecordsOK' /\ CountedOK'
  BY <1>1 DEF PhaseOK, RecordsOK, CountedOK, Working
<1>6. BufferOK'
  BY <1>1, <1>2, Result DEF BufferOK, Working
<1>. QED BY <1>3, <1>4, <1>5, <1>6 DEF IInv

LEMMA StutterKeeps == ASSUME IInv, UNCHANGED vars PROVE IInv'
<1>1. Pending' = Pending /\ Owed' = Owed /\ Working' = Working
  BY DEF vars, Pending, Owed, Working
<1>2. TypeOK' /\ CountsOK' /\ PhaseOK'
  BY <1>1 DEF vars, IInv, TypeOK, CountsOK, PhaseOK
<1>3. BufferOK' /\ RecordsOK' /\ CountedOK'
  BY <1>1 DEF vars, IInv, BufferOK, RecordsOK, CountedOK
<1>. QED BY <1>2, <1>3 DEF IInv

LEMMA StepOK == IInv /\ [Next]_vars => IInv'
<1>. SUFFICES ASSUME IInv, [Next]_vars PROVE IInv'
  OBVIOUS
<1>. QED BY TicketKeeps, ArriveKeeps, StartKeeps, FetchKeeps, PutOwnKeeps, HelpOneKeeps,
            HelpFullKeeps, HelpDoneKeeps, CountKeeps, MorphOwnKeeps, WriteKeeps, StutterKeeps DEF Next

LEMMA Invariant == Spec => []IInv
<1>. QED BY InitOK, StepOK, PTL DEF Spec

-----------------------------------------------------------------------------
(***************************************************************************)
(* The theorems.                                                           *)
(***************************************************************************)

\* put10 to put16: whatever the peers send and whenever, no header counts more than
\* the 16 records of the largest node and no buffer more than its 21 slots.
THEOREM TypeCorrect == Spec => []TypeOK
<1>1. IInv => TypeOK
  BY DEF IInv
<1>. QED BY <1>1, Invariant, PTL

\* try_put_to_existing_node, morph_node and eager_morph: without a fingerprint that is
\* 0, a readable node stays readable through every put that does not split it.
THEOREM StaysReadable == Spec => MorphReadable
<1>1. ASSUME IInv, [Next]_vars
      PROVE  [pc = "write" /\ pc' = "idle" /\ plan.how # "split" /\ node.next <= node.room /\ buffer.zero = 0
                 => node'.next <= node'.room]_vars
  <2>1. CASE UNCHANGED vars
    BY <2>1
  <2>2. CASE Next
    <3>1. SUFFICES ASSUME pc = "write", pc' = "idle", plan.how # "split", node.next <= node.room,
                          buffer.zero = 0
                   PROVE  node'.next <= node'.room
      OBVIOUS
    <3>2. Write
      BY <2>2, <3>1 DEF Next, Ticket, Arrive, Start, Fetch, PutOwn, HelpOne, HelpFull, HelpDone,
                        Count, MorphOwn
    <3>3. plan.how \in {"inPlace", "morph", "eager"}
      BY <3>1, <3>2 DEF Write
    <3>4. node'.next = buffer.next /\ node'.room = node'.type
      BY <1>1, <3>1, <3>2, Result
    <3>5. CASE plan.how = "inPlace"
      <4>1. node'.type = node.type /\ node.next <= node.type
        BY <1>1, <3>1, <3>2, <3>5, Result, Numbers DEF IInv, BufferOK
      <4>2. buffer.next <= node.type
        BY <1>1, <3>1, <3>5, <4>1 DEF IInv, BufferOK, Working
      <4>. QED BY <3>4, <4>1, <4>2
    <3>6. CASE plan.how = "morph"
      <4>1. PICK c \in Int : c <= 16 /\ buffer.next - buffer.zero <= c /\ node'.type = TypeOf(c)
        BY <1>1, <3>2, <3>6, Result
      <4>2. c <= TypeOf(c) /\ TypeOf(c) \in 10..16
        BY <4>1, TypeOfLemma DEF Types
      <4>. QED BY <1>1, <3>1, <3>4, <4>1, <4>2, Numbers
    <3>7. CASE plan.how = "eager"
      <4>1. node'.type = 16
        BY <1>1, <3>2, <3>7, Result
      <4>2. buffer.next <= 16
        <5>1. PICK p \in Nat : plan = Plan(node.type, p)
          BY <1>1, <3>1 DEF IInv, PhaseOK
        <5>2. plan.slots = 16
          BY <1>1, <3>7, <5>1, PlanSlots, Numbers
        <5>. QED BY <1>1, <3>7, <5>2 DEF IInv, BufferOK
      <4>. QED BY <3>4, <4>1, <4>2
    <3>. QED BY <3>3, <3>5, <3>6, <3>7
  <2>. QED BY <1>1, <2>1, <2>2
<1>. QED BY <1>1, Invariant, PTL DEF Spec, MorphReadable

-----------------------------------------------------------------------------
(***************************************************************************)
(* With at most one record of fingerprint 0 in a node.                     *)
(***************************************************************************)

\* The own record is in the larger buffer before the requests are.
OwnOK == pc \in {"morph", "write"} => own

SizedInv == IInv /\ SizesOK /\ OwnOK

LEMMA SizesInit == Init => SizesOK /\ OwnOK
BY DEF Init, SizesOK, OwnOK

\* Only a write changes what a node counts.
LEMMA SizesStep == ASSUME MaxZero <= 1, IInv, SizesOK, [Next]_vars PROVE SizesOK'
<1>1. CASE node' = node
  BY <1>1 DEF SizesOK
<1>2. CASE Write
  <2>1. node'.type \in {10, 12, 14, 16}
    BY <1>2, Result DEF Types
  <2>2. pc = "write" /\ plan.how \in {"inPlace", "morph", "eager", "split"}
    BY <1>2 DEF Write
  <2>3. CASE plan.how = "inPlace"
    <3>1. node'.next = buffer.next /\ node'.type = node.type
      BY <1>2, <2>3, Result
    <3>2. buffer.next <= node.type \/ buffer.next = node.next
      BY <2>2, <2>3 DEF IInv, BufferOK, Working
    <3>. QED BY <3>1, <3>2, Numbers DEF SizesOK
  <2>4. CASE plan.how = "morph"
    <3>1. PICK c \in Int : /\ c <= 16 /\ buffer.next - buffer.zero <= c
                           /\ node'.type = TypeOf(c)
      BY <1>2, <2>4, Result
    <3>2. node'.next = buffer.next /\ c <= node'.type
      BY <1>2, <2>4, <3>1, Result, TypeOfLemma
    <3>3. buffer.zero <= 1
      BY Numbers
    <3>4. node'.next <= node'.type + 1
      BY <2>1, <3>1, <3>2, <3>3, Numbers
    <3>5. node'.next \in 0..21
      BY <3>2, Numbers
    <3>. QED BY <2>1, <3>4, <3>5 DEF SizesOK
  <2>5. CASE plan.how = "eager"
    <3>1. node'.type = 16
      BY <1>2, <2>5, Result
    <3>. QED BY <3>1 DEF SizesOK
  <2>6. CASE plan.how = "split"
    <3>1. \/ \E z \in 0..buffer.zero : node' = Written(plan.leftType, LeftHalf, plan.leftType, z)
          \/ \E z \in 0..buffer.zero : node' = Written(plan.rightType, RightHalf, plan.room, z)
      BY <1>2, <2>6, Result DEF Halves
    <3>2. /\ LeftHalf \in 0..10 /\ plan.leftType \in {10, 12}
          /\ RightHalf \in 1..13 /\ plan.rightType \in {10, 12}
          /\ plan.rightType = 10 => RightHalf <= 12
      BY <2>2, <2>6, HalvesLemma
    <3>3. \/ node'.type = plan.leftType /\ node'.next = LeftHalf
          \/ node'.type = plan.rightType /\ node'.next = RightHalf
      BY <3>1 DEF Written
    <3>. QED BY <3>2, <3>3 DEF SizesOK
  <2>. QED BY <2>2, <2>3, <2>4, <2>5, <2>6
<1>. QED BY <1>1, <1>2 DEF Next, vars, Ticket, Arrive, Start, Fetch, PutOwn, HelpOne, HelpFull,
                           HelpDone, Count, MorphOwn

\* A node that does not take the own record is planned to be larger than it counts.
LEMMA OwnFits == ASSUME IInv, SizesOK, MorphOwn PROVE own'
<1>1. pc = "own"
  BY DEF MorphOwn
<1>2. CASE own
  BY <1>2 DEF MorphOwn
<1>3. CASE ~own
  <2>1. PICK p \in Nat : plan = Plan(node.type, p)
    BY <1>1 DEF IInv, PhaseOK
  <2>2. plan.how # "inPlace"
    BY <1>1 DEF IInv, PhaseOK
  <2>3. /\ plan.slots \in {16, 21}
        /\ plan.slots = 16 => node.type \in {10, 12, 14}
    <3>1. /\ plan.slots \in {16, 21} /\ plan.how \in {"morph", "eager", "split"}
          /\ plan.how = "morph" => node.type = 10
          /\ plan.how = "eager" => node.type \in {12, 14}
      BY <2>1, <2>2, Numbers, PlanSlots
    <3>2. plan.how = "split" => plan.slots = 21
      BY <2>1, Numbers, SplitFields
    <3>. QED BY <3>1, <3>2
  <2>4. buffer.next = node.next
    BY <1>1, <1>3 DEF IInv, BufferOK
  <2>5. buffer.next < plan.slots
    BY <2>3, <2>4, Numbers DEF SizesOK
  <2>6. Stored(plan.slots) # {}
    <3>1. buffer \in Buffers /\ plan.slots \in 1..BufferSlots
      BY <2>3, Numbers DEF BufferSlots
    <3>. QED BY <2>3, <2>5, <3>1, StoreLemma, Numbers
  <2>. QED BY <1>3, <2>6 DEF MorphOwn
<1>. QED BY <1>2, <1>3

LEMMA OwnStep == ASSUME IInv, SizesOK, OwnOK, [Next]_vars PROVE OwnOK'
<1>1. CASE UNCHANGED <<pc, own>>
  BY <1>1 DEF OwnOK
<1>2. CASE pc' \notin {"morph", "write"}
  BY <1>2 DEF OwnOK
<1>3. CASE HelpFull \/ HelpDone
  <2>1. own' = own /\ (pc = "morph" => own)
    BY <1>3 DEF HelpFull, HelpDone, OwnOK
  <2>2. CASE pc = "help"
    BY <1>2, <1>3, <2>2 DEF HelpFull, HelpDone
  <2>3. CASE pc = "morph"
    BY <2>1, <2>3 DEF OwnOK
  <2>. QED BY <1>3, <2>2, <2>3 DEF HelpFull, HelpDone
<1>4. CASE Count
  <2>1. PhaseOK'
    BY <1>4, CountKeeps DEF IInv
  <2>2. pc' = "write" => plan'.how = "inPlace"
    BY <1>4, PlanFields DEF Count
  <2>3. pc' \in {"own", "write"}
    BY <1>4 DEF Count
  <2>. QED BY <2>1, <2>2, <2>3 DEF PhaseOK, OwnOK
<1>5. CASE MorphOwn
  BY <1>5, OwnFits DEF OwnOK
<1>. QED BY <1>1, <1>2, <1>3, <1>4, <1>5 DEF Next, vars, Ticket, Arrive, Start, Fetch, PutOwn,
                                             HelpOne, Write

LEMMA SizedInvariant == ASSUME MaxZero <= 1 PROVE Spec => []SizedInv
<1>1. Init => SizedInv
  BY InitOK, SizesInit DEF SizedInv
<1>2. SizedInv /\ [Next]_vars => SizedInv'
  BY StepOK, SizesStep, OwnStep DEF SizedInv
<1>. QED BY <1>1, <1>2, PTL DEF Spec

\* put10 to put16 return true for the own record without a look at the result of the
\* store: there was a slot for it, for any number of peers.  A node counts too many
\* records when a fingerprint is 0; with two of them, the next put finds no slot.
THEOREM OwnAlwaysStored == ASSUME MaxZero <= 1 PROVE Spec => []OwnStored
<1>1. SizedInv => OwnStored
  BY DEF SizedInv, OwnOK, OwnStored
<1>. QED BY <1>1, SizedInvariant, PTL

\* The halves of put16 fit by what was counted; those of put12, if the node and the requests
\* are no more than 19 records.
LEMMA HalvesWhen ==
  ASSUME IInv, OwnOK, pc = "write" /\ node.type = 12 => buffer.next <= 19
  PROVE  HalvesFit
<1>1. SUFFICES ASSUME pc = "write", plan.how = "split",
                      node.type = 12 \/ (node.type = 16 /\ ~late)
               PROVE  LeftHalf <= plan.leftType /\ RightHalf \in 1..plan.room
  BY DEF HalvesFit
<1>2. own
  BY <1>1 DEF OwnOK
<1>3. /\ LeftHalf \in 0..10 /\ LeftHalf <= plan.left /\ plan.left <= plan.leftType
      /\ LeftHalf = (IF buffer.next > plan.left THEN plan.left ELSE buffer.next - 1)
      /\ RightHalf = buffer.next - LeftHalf /\ RightHalf \in 1..13
      /\ plan.leftType \in {10, 12} /\ plan.room \in {10, 12}
  BY <1>1, HalvesLemma
<1>4. buffer.next \in 0..21 /\ Owed = 0 /\ Pending \in Nat
  BY <1>2, Numbers DEF Owed
<1>5. CASE node.type = 12
  <2>1. plan.left = 9 /\ plan.room = 10
    <3>1. PICK p \in Nat : plan = Plan(node.type, p)
      BY <1>1 DEF IInv, PhaseOK
    <3>. QED BY <1>1, <1>5, <3>1, SplitFields, Numbers
  <2>2. buffer.next <= 19
    BY <1>1, <1>5
  <2>. QED BY <1>3, <1>4, <2>1, <2>2
<1>6. CASE node.type = 16 /\ ~late
  <2>1. PICK p \in Nat : plan = Plan(node.type, p) /\ buffer.next + Owed + Pending <= Largest + p
    BY <1>1, <1>6 DEF IInv, CountedOK, Largest
  <2>2. buffer.next <= 16 + p
    BY <1>4, <2>1 DEF Largest
  <2>3. /\ p <= 2 => plan.left = 9 /\ plan.room = 10
        /\ p \in 3..4 => plan.left = 9 /\ plan.room = 12
        /\ p > 4 => plan.left = 10 /\ plan.room = 12
    BY <1>1, <1>6, <2>1, SplitFields, Numbers
  <2>4. CASE p <= 2
    BY <1>3, <1>4, <2>2, <2>3, <2>4
  <2>5. CASE p \in 3..4
    BY <1>3, <1>4, <2>2, <2>3, <2>5
  <2>6. CASE p > 4
    BY <1>3, <1>4, <2>2, <2>3, <2>6
  <2>. QED BY <2>4, <2>5, <2>6
<1>. QED BY <1>1, <1>5, <1>6

\* put12 and put16: up to five peers, whatever the window, do not bring more records
\* than the halves of a split have slots, late requests included.
THEOREM HalvesAlwaysFit == ASSUME MaxZero <= 1, Losers <= 5 PROVE Spec => []HalvesFit
<1>1. ASSUME SizedInv PROVE HalvesFit
  <2>1. ASSUME pc = "write", node.type = 12 PROVE buffer.next <= 19
    <3>1. buffer.next + Owed + tickets + Pending <= node.next + 1 + Losers
      BY <1>1, <2>1 DEF SizedInv, IInv, RecordsOK, Working
    <3>2. node.next <= 13
      BY <1>1, <2>1 DEF SizedInv, SizesOK
    <3>3. /\ buffer.next \in 0..21 /\ Owed \in 0..1 /\ Pending \in Nat /\ tickets \in Nat
          /\ Losers \in Nat /\ node.next \in 0..16
      BY <1>1, Numbers DEF SizedInv
    <3>. QED BY <3>1, <3>2, <3>3
  <2>. QED BY <1>1, <2>1, HalvesWhen DEF SizedInv
<1>. QED BY <1>1, SizedInvariant, PTL

\* put10, "space is guaranteed to be sufficient": it is for six threads, whatever the window
\* and the fingerprints, with every request that comes late.
THEOREM SpaceForSix == ASSUME Losers <= 5 PROVE Spec => []SpaceGuaranteed
<1>1. ASSUME IInv PROVE SpaceGuaranteed
  <2>1. SUFFICES ASSUME pc = "morph", plan.how = "morph", node.next <= node.type, queue.mine > 0
                 PROVE  buffer.next < plan.slots
    BY DEF SpaceGuaranteed
  <2>2. PICK p \in Nat : plan = Plan(node.type, p)
    BY <1>1, <2>1 DEF IInv, PhaseOK
  <2>3. node.type = 10 /\ plan.slots = 16
    <3>1. plan.how # "inPlace" /\ plan.how # "split"
      BY <2>1
    <3>. QED BY <1>1, <2>1, <2>2, <3>1, PlanSlots, Numbers
  <2>4. buffer.next + Owed + tickets + Pending <= node.next + 1 + Losers
    BY <1>1, <2>1 DEF IInv, RecordsOK, Working
  <2>5. /\ buffer.next \in 0..21 /\ Owed \in 0..1 /\ tickets \in Nat /\ Losers \in Nat
        /\ node.next \in 0..16 /\ Pending \in Nat /\ Pending >= 1
    BY <1>1, <2>1, Numbers
  <2>. QED BY <2>1, <2>3, <2>4, <2>5
<1>. QED BY <1>1, Invariant, PTL

-----------------------------------------------------------------------------
(***************************************************************************)
(* Seven threads, no record of fingerprint 0, and a window of up to five.  *)
(***************************************************************************)

\* The records that the buffer has, and may still get.
Due == buffer.next + Owed + tickets + Pending

\* A node whose own put is in place is not overfull.
FilledOK == own /\ plan.how = "inPlace" => buffer.next <= node.type

\* Only the right half of put14 counts 13 records with 12 slots.  When it does, the peers
\* that made it so large have no request left: the next window brings the only ones.
CrowdOK ==
    /\ node.type = 14 => node.next <= 14
    /\ node.type = 12 =>
          /\ pc = "idle" => node.next <= 12 \/ node.next + tickets + Pending <= 13
          /\ pc = "open" => node.next <= 12 \/ node.next + tickets + Pending + depth <= 13 + Window
          /\ Working => Due <= 19

LEMMA CrowdInit == Init => FilledOK /\ CrowdOK
BY DEF Init, FilledOK, CrowdOK, Pending, NoRequests, Working

LEMMA DueNumbers ==
  ASSUME IInv
  PROVE  Due = buffer.next + Owed + tickets + Pending /\ Due \in Nat
BY Numbers DEF Due

\* A request that arrives.
LEMMA ArriveMoves ==
  ASSUME IInv, Arrive
  PROVE  Pending' = Pending + 1 /\ tickets' = tickets - 1 /\ tickets > 0
<1>1. queue \in [mine : 0..Losers, pred : 0..Losers]
  BY DEF IInv, TypeOK
<1>2. \/ queue'.mine = queue.mine + 1 /\ queue'.pred = queue.pred
      \/ queue'.mine = queue.mine /\ queue'.pred = queue.pred + 1
  BY <1>1 DEF Arrive
<1>. QED BY <1>2, Numbers DEF Pending, Arrive

\* A request that is taken.
LEMMA HelpMoves ==
  ASSUME IInv, HelpOne \/ HelpFull
  PROVE  \/ Pending' = Pending /\ UNCHANGED <<buffer, queue>>
         \/ /\ Pending' = Pending - 1
            /\ \/ buffer' = buffer
               \/ /\ buffer' \in Stored(Slots) /\ buffer'.next \in 1..Slots
                  /\ buffer'.next = buffer.next \/ buffer'.next = buffer.next + 1
<1>1. pc \in {"help", "morph"}
  BY DEF HelpOne, HelpFull
<1>2. queue \in [mine : 0..Losers, pred : 0..Losers]
  BY DEF IInv, TypeOK
<1>3. \/ UNCHANGED <<buffer, queue>>
      \/ /\ \/ queue.mine > 0 /\ queue' = [queue EXCEPT !.mine = @ - 1]
            \/ queue.pred > 0 /\ queue' = [queue EXCEPT !.pred = @ - 1]
         /\ buffer' = buffer \/ buffer' \in Stored(Slots)
  BY DEF HelpOne, HelpFull
<1>4. CASE UNCHANGED <<buffer, queue>>
  BY <1>4 DEF Pending
<1>5. ASSUME \/ queue.mine > 0 /\ queue' = [queue EXCEPT !.mine = @ - 1]
             \/ queue.pred > 0 /\ queue' = [queue EXCEPT !.pred = @ - 1]
      PROVE  Pending' = Pending - 1
  <2>1. \/ queue'.mine = queue.mine - 1 /\ queue'.pred = queue.pred
        \/ queue'.mine = queue.mine /\ queue'.pred = queue.pred - 1
    BY <1>2, <1>5
  <2>. QED BY <2>1, Numbers DEF Pending
<1>6. ASSUME buffer' \in Stored(Slots)
      PROVE  /\ buffer'.next \in 1..Slots
             /\ buffer'.next = buffer.next \/ buffer'.next = buffer.next + 1
  <2>1. buffer \in Buffers /\ Slots \in 1..BufferSlots
    BY <1>1, HelpLemma, Numbers
  <2>. QED BY <1>6, <2>1, StoreLemma
<1>. QED BY <1>3, <1>4, <1>5, <1>6

\* What the winner works on never comes to more records: a ticket becomes a request, and a
\* request or the own record becomes a record, or nothing.
LEMMA DueFalls ==
  ASSUME IInv, Working, Working', [Next]_vars
  PROVE  node' = node /\ Due' <= Due
<1>1. IInv' /\ node' = node
  <2>1. ~ Write
    BY DEF Write, Working
  <2>. QED BY <2>1, StepOK DEF Next, vars, Ticket, Arrive, Start, Fetch, PutOwn, HelpOne, HelpFull,
                           HelpDone, Count, MorphOwn
<1>2. /\ buffer.next \in Nat /\ Owed \in Nat /\ tickets \in Nat /\ Pending \in Nat
      /\ buffer'.next \in Nat /\ Owed' \in Nat /\ tickets' \in Nat /\ Pending' \in Nat
  <2>1. /\ buffer.next \in 0..21 /\ Owed \in 0..1 /\ tickets \in Nat /\ Pending \in Nat
    BY Numbers
  <2>2. /\ buffer'.next \in 0..21 /\ Owed' \in 0..1 /\ tickets' \in Nat /\ Pending' \in Nat
    BY <1>1, CountsAssumption DEF IInv, TypeOK, BufferSlots, Owed, Pending
  <2>. QED BY <2>1, <2>2
<1>3. CASE UNCHANGED <<buffer, own, tickets, queue>>
  <2>1. Due' = Due
    BY <1>3 DEF Due, Owed, Pending
  <2>. QED BY <1>1, <1>2, <2>1 DEF Due
<1>4. CASE Arrive
  <2>1. buffer' = buffer /\ Owed' = Owed
    BY <1>4 DEF Arrive, Owed
  <2>. QED BY <1>1, <1>2, <1>4, <2>1, ArriveMoves DEF Due
<1>5. CASE HelpOne \/ HelpFull
  <2>1. Owed' = Owed /\ tickets' = tickets
    BY <1>5 DEF HelpOne, HelpFull, Owed
  <2>2. \/ Pending' = Pending /\ buffer'.next = buffer.next
        \/ Pending' = Pending - 1 /\ (buffer'.next = buffer.next \/ buffer'.next = buffer.next + 1)
    BY <1>5, HelpMoves, Zenon
  <2>3. CASE Pending' = Pending /\ buffer'.next = buffer.next
    BY <1>1, <1>2, <2>1, <2>3 DEF Due
  <2>4. CASE Pending' = Pending - 1 /\ (buffer'.next = buffer.next \/ buffer'.next = buffer.next + 1)
    <3>1. buffer'.next <= buffer.next + 1
      BY <1>2, <2>4
    <3>. QED BY <1>1, <1>2, <2>1, <2>4, <3>1 DEF Due
  <2>. QED BY <2>2, <2>3, <2>4
<1>6. ASSUME NEW slots \in 1..BufferSlots, ~own, own', buffer' \in Stored(slots),
             UNCHANGED <<tickets, queue>>
      PROVE  Due' <= Due
  <2>1. buffer'.next = buffer.next \/ buffer'.next = buffer.next + 1
    BY <1>6, StoreLemma, Numbers
  <2>2. Owed = 1 /\ Owed' = 0 /\ tickets' = tickets /\ Pending' = Pending
    BY <1>6 DEF Owed, Pending
  <2>. QED BY <1>2, <2>1, <2>2 DEF Due
<1>7. CASE PutOwn
  <2>1. node.type \in 1..BufferSlots /\ ~own
    BY <1>7, Numbers DEF BufferSlots, PutOwn, IInv, PhaseOK
  <2>. QED BY <1>1, <1>3, <1>6, <1>7, <2>1 DEF PutOwn
<1>8. CASE MorphOwn
  <2>1. plan.slots \in 1..BufferSlots
    <3>1. PICK p \in Nat : plan = Plan(node.type, p)
      BY <1>8 DEF MorphOwn, IInv, PhaseOK
    <3>2. plan.how # "inPlace"
      BY <1>8 DEF MorphOwn, IInv, PhaseOK
    <3>3. plan.slots \in {16, 21}
      BY <3>1, <3>2, PlanSlots, Numbers
    <3>. QED BY <3>3 DEF BufferSlots
  <2>. QED BY <1>1, <1>3, <1>6, <1>8, <2>1 DEF MorphOwn
<1>9. CASE HelpDone \/ Count
  BY <1>3, <1>9 DEF HelpDone, Count
<1>10. ~ (Ticket \/ Start \/ Fetch \/ Write)
  BY DEF Working, Ticket, Start, Fetch, Write
<1>. QED BY <1>3, <1>4, <1>5, <1>7, <1>8, <1>9, <1>10 DEF Next, vars

\* store tests whether the node has a slot left.
LEMMA FilledStep == ASSUME IInv, FilledOK, [Next]_vars PROVE FilledOK'
<1>1. CASE UNCHANGED <<node, buffer, own, plan>>
  BY <1>1 DEF FilledOK
<1>2. CASE Fetch \/ Write
  BY <1>2 DEF Fetch, Write, FilledOK
<1>3. CASE PutOwn
  <2>1. node.type \in 1..BufferSlots /\ ~own
    BY <1>3, Numbers DEF BufferSlots, PutOwn, IInv, PhaseOK
  <2>2. CASE buffer' \in Stored(node.type)
    <3>1. buffer'.next \in 1..node.type
      BY <2>1, <2>2, StoreLemma, Numbers
    <3>. QED BY <1>3, <3>1, Numbers DEF PutOwn, FilledOK
  <2>3. CASE UNCHANGED <<buffer, own>>
    BY <2>1, <2>3 DEF FilledOK
  <2>. QED BY <1>3, <2>2, <2>3 DEF PutOwn
<1>4. CASE HelpOne \/ HelpFull
  <2>1. pc \in {"help", "morph"} /\ UNCHANGED <<node, own, plan>>
    BY <1>4 DEF HelpOne, HelpFull
  <2>2. CASE pc = "morph"
    BY <2>1, <2>2 DEF FilledOK, IInv, PhaseOK
  <2>3. CASE pc = "help"
    <3>1. Slots = node.type
      BY <2>3 DEF Slots
    <3>2. buffer' = buffer \/ buffer'.next \in 1..node.type
      BY <1>4, <3>1, HelpMoves
    <3>. QED BY <2>1, <3>2, Numbers DEF FilledOK
  <2>. QED BY <2>1, <2>2, <2>3
<1>5. CASE Count
  <2>1. plan.how = "inPlace"
    BY <1>5, PlanFields DEF Count, IInv, PhaseOK
  <2>. QED BY <1>5, <2>1 DEF Count, FilledOK
<1>6. CASE MorphOwn
  BY <1>6 DEF MorphOwn, FilledOK, IInv, PhaseOK
<1>. QED BY <1>1, <1>2, <1>3, <1>4, <1>5, <1>6 DEF Next, vars, Ticket, Arrive, Start, HelpDone

\* What a put leaves of a node of 12 or 14 slots.
LEMMA CrowdWrite ==
  ASSUME MaxZero = 0, Losers <= 6, IInv, FilledOK, CrowdOK, Write
  PROVE  /\ node'.type = 14 => node'.next <= 14
         /\ node'.type = 12 => node'.next <= 12 \/ node'.next + tickets + Pending <= 13
<1>1. pc = "write" /\ plan.how \in {"inPlace", "morph", "eager", "split"} /\ Working
  BY DEF Write, Working
<1>2. node'.type \in {10, 12, 14, 16} /\ node'.next \in 0..16
  BY Result DEF Types
<1>3. CASE plan.how = "inPlace"
  <2>1. buffer.next <= node.type
    BY <1>1, <1>3 DEF IInv, PhaseOK, FilledOK
  <2>2. node'.next = buffer.next /\ node'.type = node.type
    BY <1>3, Result
  <2>. QED BY <1>2, <2>1, <2>2
<1>4. CASE plan.how = "morph"
  <2>1. PICK c \in Int : /\ c <= 16 /\ buffer.next - buffer.zero <= c
                         /\ node'.type = TypeOf(c)
    BY <1>4, Result
  <2>2. node'.next = buffer.next /\ c <= node'.type /\ buffer.zero = 0 /\ buffer.next \in Nat
    BY <1>4, <2>1, Result, TypeOfLemma, Numbers
  <2>3. node'.next <= node'.type
    BY <1>2, <2>1, <2>2
  <2>. QED BY <1>2, <2>3
<1>5. CASE plan.how = "eager"
  BY <1>5, Result
<1>6. CASE plan.how = "split"
  <2>1. \/ \E z \in 0..buffer.zero : node' = Written(plan.leftType, LeftHalf, plan.leftType, z)
        \/ \E z \in 0..buffer.zero : node' = Written(plan.rightType, RightHalf, plan.room, z)
    BY <1>6, Result DEF Halves
  <2>2. \/ node'.type = plan.leftType /\ node'.next = LeftHalf
        \/ node'.type = plan.rightType /\ node'.next = RightHalf
    BY <2>1 DEF Written
  <2>3. /\ LeftHalf \in 0..10 /\ plan.leftType \in {10, 12} /\ plan.rightType \in {10, 12}
        /\ LeftHalf = (IF buffer.next > plan.left THEN plan.left ELSE buffer.next - 1)
        /\ RightHalf = buffer.next - LeftHalf /\ RightHalf \in 1..13
    BY <1>1, <1>6, HalvesLemma
  <2>4. PICK p \in Nat : plan = Plan(node.type, p)
    BY <1>1 DEF IInv, PhaseOK
  <2>5. /\ node.type \in {12, 14, 16} /\ plan.left \in 8..10
        /\ node.type = 12 => plan.rightType = 10
        /\ node.type = 14 => plan.left = 8
        /\ node.type = 16 => plan.left \in 9..10
    <3>1. node.type \in Types /\ Plan(node.type, p).how = "split"
      BY <1>6, <2>4, Numbers
    <3>2. p <= 2 \/ p \in 3..4 \/ p > 4
      BY <2>4
    <3>. QED BY <2>4, <3>1, <3>2, SplitFields DEF Types
  <2>6. /\ buffer.next \in 0..21 /\ tickets \in Nat /\ Pending \in Nat /\ Owed \in 0..1
        /\ Losers \in Nat /\ node.next \in 0..16
    BY Numbers
  <2>7. CASE node.type = 14
    <3>1. buffer.next + Owed + tickets + Pending <= node.next + 1 + Losers
      BY <1>1 DEF IInv, RecordsOK
    <3>2. buffer.next + tickets + Pending <= 21
      BY <2>6, <2>7, <3>1 DEF CrowdOK
    <3>3. RightHalf <= 12 \/ RightHalf + tickets + Pending <= 13
      BY <2>3, <2>5, <2>6, <2>7, <3>2
    <3>. QED BY <2>2, <2>3, <3>3
  <2>8. CASE node.type = 16
    <3>1. RightHalf <= 12
      BY <2>3, <2>5, <2>6, <2>8
    <3>. QED BY <2>2, <2>3, <3>1
  <2>9. CASE node.type = 12
    BY <2>2, <2>3, <2>5, <2>9
  <2>. QED BY <2>5, <2>7, <2>8, <2>9
<1>. QED BY <1>1, <1>3, <1>4, <1>5, <1>6

LEMMA CrowdStep ==
  ASSUME MaxZero = 0, Losers <= 6, Window <= 5, IInv, FilledOK, CrowdOK, [Next]_vars
  PROVE  CrowdOK'
<1>1. /\ node.type \in 10..16 /\ node.next \in 0..16 /\ tickets \in Nat /\ Pending \in Nat
      /\ depth \in 0..Window /\ Window \in Nat /\ Losers \in Nat
  BY Numbers
<1>2. CASE Working /\ Working'
  <2>1. node' = node /\ Due' <= Due
    BY <1>2, DueFalls
  <2>2. Due \in Nat /\ Due' \in Nat
    <3>1. IInv'
      BY StepOK
    <3>2. /\ buffer'.next \in Nat /\ Owed' \in Nat /\ tickets' \in Nat /\ Pending' \in Nat
      BY <3>1, CountsAssumption DEF IInv, TypeOK, BufferSlots, Owed, Pending
    <3>. QED BY <3>2, DueNumbers DEF Due
  <2>3. pc' # "idle" /\ pc' # "open"
    BY <1>2 DEF Working
  <2>4. node.type = 12 => Due <= 19
    BY <1>2 DEF CrowdOK
  <2>5. node'.type = 12 => Due' <= 19
    BY <2>1, <2>2, <2>4
  <2>. QED BY <2>1, <2>3, <2>5 DEF CrowdOK
<1>3. CASE Write
  <2>1. pc' = "idle" /\ tickets' = tickets /\ Pending' = Pending /\ ~Working'
    BY <1>3 DEF Write, Pending, Working
  <2>. QED BY <1>3, <2>1, CrowdWrite DEF CrowdOK
<1>4. CASE Ticket
  <2>1. /\ pc = "open" /\ pc' = "open" /\ depth > 0 /\ depth' = depth - 1 /\ tickets' = tickets + 1
        /\ Pending' = Pending /\ node' = node /\ ~Working'
    BY <1>4 DEF Ticket, Pending, Working
  <2>2. node.next + tickets' + Pending' + depth' = node.next + tickets + Pending + depth
    BY <1>1, <2>1
  <2>. QED BY <2>1, <2>2 DEF CrowdOK
<1>5. CASE Arrive /\ ~Working
  <2>1. pc' = pc /\ depth' = depth /\ node' = node /\ ~Working'
    BY <1>5 DEF Arrive, Working
  <2>2. Pending' = Pending + 1 /\ tickets' = tickets - 1
    BY <1>5, ArriveMoves
  <2>3. /\ node.next + tickets' + Pending' = node.next + tickets + Pending
        /\ node.next + tickets' + Pending' + depth' = node.next + tickets + Pending + depth
    BY <1>1, <2>1, <2>2
  <2>. QED BY <2>1, <2>3 DEF CrowdOK
<1>6. CASE Start
  <2>1. /\ pc = "idle" /\ pc' = "open" /\ depth' = Window /\ Pending' = 0 /\ tickets' = tickets
        /\ node' = node /\ ~Working'
    BY <1>6 DEF Start, Pending, NoRequests, Working
  <2>2. node.next + tickets + Pending <= 13 => node.next + tickets' + Pending' + depth' <= 13 + Window
    BY <1>1, <2>1
  <2>. QED BY <2>1, <2>2 DEF CrowdOK
<1>7. CASE Fetch
  <2>1. /\ pc = "open" /\ pc' = "put" /\ tickets' = tickets /\ Pending' = Pending /\ Owed' = 1
        /\ buffer'.next = node.next /\ node' = node
    BY <1>7 DEF Fetch, Pending, Owed
  <2>2. tickets + Pending <= Losers
    BY DEF IInv, CountsOK
  <2>3. Due' = node.next + 1 + tickets + Pending
    BY <2>1 DEF Due
  <2>4. node.type = 12 => Due' <= 19
    BY <1>1, <2>1, <2>2, <2>3 DEF CrowdOK
  <2>. QED BY <2>1, <2>4 DEF CrowdOK
<1>8. CASE UNCHANGED vars
  BY <1>8 DEF vars, CrowdOK, Working, Due, Owed, Pending
<1>9. CASE PutOwn \/ HelpOne \/ HelpFull \/ HelpDone \/ Count \/ MorphOwn
  <2>1. Working /\ Working'
    BY <1>9 DEF Working, PutOwn, HelpOne, HelpFull, HelpDone, Count, MorphOwn
  <2>. QED BY <1>2, <2>1
<1>10. Arrive => Working' = Working
  BY DEF Arrive, Working
<1>. QED BY <1>2, <1>3, <1>4, <1>5, <1>6, <1>7, <1>8, <1>9, <1>10 DEF Next

\* put12 and put16 with a window of up to five (the code's max_depth is four): six peers do
\* not bring too many records either, when no fingerprint is 0, though the node of 12 slots
\* that put14 leaves may count 13.
THEOREM HalvesFitForSeven ==
  ASSUME MaxZero = 0, Losers <= 6, Window <= 5 PROVE Spec => []HalvesFit
<1>. DEFINE CrowdedInv == SizedInv /\ FilledOK /\ CrowdOK
<1>1. Init => CrowdedInv
  BY InitOK, SizesInit, CrowdInit DEF SizedInv
<1>2. CrowdedInv /\ [Next]_vars => CrowdedInv'
  BY StepOK, SizesStep, OwnStep, FilledStep, CrowdStep DEF SizedInv
<1>3. ASSUME CrowdedInv PROVE HalvesFit
  <2>1. ASSUME pc = "write", node.type = 12 PROVE buffer.next <= 19
    <3>1. Due <= 19
      BY <1>3, <2>1 DEF CrowdOK, Working
    <3>2. /\ buffer.next \in 0..21 /\ Owed \in 0..1 /\ Pending \in Nat /\ tickets \in Nat
      BY <1>3, Numbers DEF SizedInv
    <3>. QED BY <3>1, <3>2 DEF Due
  <2>. QED BY <1>3, <2>1, HalvesWhen DEF SizedInv
<1>. HIDE DEF CrowdedInv
<1>. QED BY <1>1, <1>2, <1>3, PTL DEF Spec
=============================================================================
