------------------------------ MODULE LocalStage ------------------------------
(***************************************************************************)
(* The early stage of a compute node (node/compute_node/compute_node.cpp): *)
(* records go to two local nodes until one of them is full, then both are  *)
(* flushed to remote memory, inserted into the skip list, and remote_put   *)
(* is set.                                                                 *)
(*                                                                         *)
(* put and update read remote_put without a lock, and take local_mutex     *)
(* afterwards: what is decided before the lock may be stale under it.  One *)
(* action is one critical section, or one access outside of any.  A remote *)
(* operation is a single step here; how threads compete for a remote node, *)
(* and how it grows by morphing and splitting, is left to module Handover. *)
(*                                                                         *)
(* get has no effect: it is the operator Lookup.                           *)
(***************************************************************************)
EXTENDS Naturals, Sequences, FiniteSets

CONSTANTS
    Threads,
    MaxKey,         \* keys are 1..MaxKey, ordered as strings are
    Values,
    Capacity,       \* the slots of a LinkedNode10
    NoValue         \* what find returns for a key that is not there

ASSUME StageAssumption ==
    /\ MaxKey \in Nat \ {0} /\ Capacity \in Nat \ {0}
    /\ NoValue \notin Values

Keys == 1..MaxKey
Empty == 0          \* the empty anchor; every key is greater
Nodes == {0, 1}

VARIABLES
    anchors,        \* ComputeNode::local_anchors
    local,          \* ComputeNode::local_nodes: the value find yields for a key
    remotePut,      \* ComputeNode::remote_put
    slist,          \* the bottom level of the skip list, with the remote records
    call,           \* the operation of each thread
    acked           \* the keys a put has returned true for

vars == <<anchors, local, remotePut, slist, call, acked>>

NoCall == [pc |-> "idle", op |-> "put", key |-> 1]
NoRecords == [k \in Keys |-> NoValue]

Stored(node) == {k \in Keys : node[k] # NoValue}

Init ==
    /\ anchors = [n \in Nodes |-> Empty]
    /\ local = [n \in Nodes |-> NoRecords]
    /\ remotePut = FALSE
    /\ slist = <<>>
    /\ call = [t \in Threads |-> NoCall]
    /\ acked = {}

\* LinkedNode::store of a record that fits: "uninsert, not upsert".
Store(node, k, v) == IF node[k] = NoValue THEN [node EXCEPT ![k] = v] ELSE node

(***************************************************************************)
(* The skip list at its bottom level.                                      *)
(***************************************************************************)

\* The nodes before the first one whose anchor is not smaller than k.
Before(list, k) == Cardinality({i \in DOMAIN list : list[i].anchor < k})

\* SkipList::insert
Insert(list, a, node) ==
    LET at == Before(list, a) IN
    SubSeq(list, 1, at) \o <<[anchor |-> a, records |-> node]>>
        \o SubSeq(list, at + 1, Len(list))

\* fuzzy_search: the node k is routed to; 0 is the head of the list.
Route(k) ==
    LET at == Before(slist, k) IN
    IF at < Len(slist) /\ slist[at + 1].anchor = k THEN at + 1 ELSE at

\* What a get of key k returns.
Lookup(k) ==
    IF remotePut THEN IF Route(k) = 0 THEN NoValue ELSE slist[Route(k)].records[k]
    ELSE IF k >= anchors[1] /\ anchors[1] # Empty THEN local[1][k]
    ELSE local[0][k]

-----------------------------------------------------------------------------
(***************************************************************************)
(* The unlocked test of remote_put, and the return.  The value an operation *)
(* carries matters only where it is stored, and is chosen there.           *)
(***************************************************************************)
Call(t) ==
    /\ call[t].pc = "idle"
    /\ \E o \in {"put", "update"}, k \in Keys :
          call' = [call EXCEPT ![t] =
              [pc |-> IF remotePut THEN "remote" ELSE "local", op |-> o, key |-> k]]
    /\ UNCHANGED <<anchors, local, remotePut, slist, acked>>

Return(t) == call' = [call EXCEPT ![t] = NoCall]
GoRemote(t) == call' = [call EXCEPT ![t].pc = "remote"]
Ack(k) == acked' = acked \cup {k}

(***************************************************************************)
(* quick_put, under local_mutex.                                           *)
(***************************************************************************)

\* Mutant: the nodes keep their places when a smaller key comes second.
PickNodeUnswapped(k) ==
    IF anchors[0] = Empty \/ k < anchors[0]
    THEN [at |-> 0, anchors |-> [anchors EXCEPT ![0] = k], local |-> local]
    ELSE IF anchors[1] = Empty
    THEN [at |-> 1, anchors |-> [anchors EXCEPT ![1] = k], local |-> local]
    ELSE [at |-> IF k > anchors[1] THEN 1 ELSE 0, anchors |-> anchors, local |-> local]

\* quick_put_pick_node: the target, and the anchors and nodes it leaves.  A key
\* before the first anchor becomes the first anchor; when it comes second, the
\* nodes change places.
PickNode(k) ==
    IF anchors[0] = Empty
    THEN [at |-> 0, anchors |-> [anchors EXCEPT ![0] = k], local |-> local]
    ELSE IF k < anchors[0]
    THEN IF anchors[1] = Empty
         THEN [at |-> 0, anchors |-> [n \in Nodes |-> IF n = 0 THEN k ELSE anchors[0]],
               local |-> [n \in Nodes |-> local[1 - n]]]
         ELSE [at |-> 0, anchors |-> [anchors EXCEPT ![0] = k], local |-> local]
    ELSE IF anchors[1] = Empty
    THEN [at |-> 1, anchors |-> [anchors EXCEPT ![1] = k], local |-> local]
    ELSE [at |-> IF k > anchors[1] THEN 1 ELSE 0, anchors |-> anchors, local |-> local]

\* Mutant: one record more than the node has slots.
LocalStoreOver(t, v) ==
    LET k == call[t].key
        picked == PickNode(k)
    IN
    /\ call[t].pc = "local" /\ call[t].op = "put"
    /\ ~remotePut
    /\ Cardinality(Stored(picked.local[picked.at])) <= Capacity
    /\ anchors' = picked.anchors
    /\ local' = [picked.local EXCEPT ![picked.at] = Store(@, k, v)]
    /\ Ack(k)
    /\ Return(t)
    /\ UNCHANGED <<remotePut, slist>>

LocalStore(t, v) ==
    LET k == call[t].key
        picked == PickNode(k)
    IN
    /\ call[t].pc = "local" /\ call[t].op = "put"
    /\ ~remotePut
    /\ Cardinality(Stored(picked.local[picked.at])) < Capacity
    /\ anchors' = picked.anchors
    /\ local' = [picked.local EXCEPT ![picked.at] = Store(@, k, v)]
    /\ Ack(k)
    /\ Return(t)
    /\ UNCHANGED <<remotePut, slist>>

\* Mutant: the record that did not fit is not added to the flushed node.
FlushForgets(t, v) ==
    LET k == call[t].key
        picked == PickNode(k)
        node == picked.local
    IN
    /\ call[t].pc = "local" /\ call[t].op = "put"
    /\ ~remotePut
    /\ Cardinality(Stored(picked.local[picked.at])) = Capacity
    /\ anchors' = picked.anchors
    /\ local' = picked.local
    /\ slist' = Insert(Insert(slist, picked.anchors[0], node[0]), picked.anchors[1], node[1])
    /\ remotePut' = TRUE
    /\ Ack(k)
    /\ Return(t)

\* The target is full: a copy with the record, as a LinkedNode12, and the other
\* node are written to remote memory and inserted under the two anchors.
Flush(t, v) ==
    LET k == call[t].key
        picked == PickNode(k)
        node == [picked.local EXCEPT ![picked.at] = Store(@, k, v)]
    IN
    /\ call[t].pc = "local" /\ call[t].op = "put"
    /\ ~remotePut
    /\ Cardinality(Stored(picked.local[picked.at])) = Capacity
    /\ anchors' = picked.anchors
    /\ local' = picked.local
    /\ slist' = Insert(Insert(slist, picked.anchors[0], node[0]), picked.anchors[1], node[1])
    /\ remotePut' = TRUE
    /\ Ack(k)
    /\ Return(t)

\* One of the two writes fails: nothing but the anchors has changed, and put
\* goes on as if the store were remote.
FlushFails(t) ==
    LET picked == PickNode(call[t].key) IN
    /\ call[t].pc = "local" /\ call[t].op = "put"
    /\ ~remotePut
    /\ Cardinality(Stored(picked.local[picked.at])) = Capacity
    /\ anchors' = picked.anchors
    /\ local' = picked.local
    /\ GoRemote(t)
    /\ UNCHANGED <<remotePut, slist, acked>>

\* The store has become remote before the lock was taken.
LocalLate(t) ==
    /\ call[t].pc = "local" /\ call[t].op = "put"
    /\ remotePut
    /\ GoRemote(t)
    /\ UNCHANGED <<anchors, local, remotePut, slist, acked>>

(***************************************************************************)
(* update under local_mutex: remote_put is not read again.                 *)
(***************************************************************************)
\* Mutant: only the first node is looked at.
LocalUpdateFirst(t, v) ==
    LET k == call[t].key
        n == 0
    IN
    /\ call[t].pc = "local" /\ call[t].op = "update"
    /\ local' = IF local[n][k] = NoValue THEN local
                ELSE [local EXCEPT ![n][k] = v]
    /\ Return(t)
    /\ UNCHANGED <<anchors, remotePut, slist, acked>>

LocalUpdate(t, v) ==
    LET k == call[t].key
        n == IF k > anchors[1] THEN 1 ELSE 0
    IN
    /\ call[t].pc = "local" /\ call[t].op = "update"
    /\ local' = IF local[n][k] = NoValue THEN local
                ELSE [local EXCEPT ![n][k] = v]
    /\ Return(t)
    /\ UNCHANGED <<anchors, remotePut, slist, acked>>

(***************************************************************************)
(* Remote operations.                                                      *)
(***************************************************************************)

\* Mutant: a remote put overwrites.
RemotePutUpserts(t, v) ==
    LET k == call[t].key
        i == Route(k)
    IN
    /\ call[t].pc = "remote" /\ call[t].op = "put"
    /\ IF i = 0 THEN UNCHANGED <<slist, acked>>
       ELSE /\ slist' = [slist EXCEPT ![i].records[k] = v]
            /\ Ack(k)
    /\ Return(t)
    /\ UNCHANGED <<anchors, local, remotePut>>

\* put_dispatcher throws for the head of the list: the put is not acknowledged.
RemotePut(t, v) ==
    LET k == call[t].key
        i == Route(k)
    IN
    /\ call[t].pc = "remote" /\ call[t].op = "put"
    /\ IF i = 0 THEN UNCHANGED <<slist, acked>>
       ELSE /\ slist' = [slist EXCEPT ![i].records = Store(@, k, v)]
            /\ Ack(k)
    /\ Return(t)
    /\ UNCHANGED <<anchors, local, remotePut>>

RemoteUpdate(t, v) ==
    LET k == call[t].key
        i == Route(k)
    IN
    /\ call[t].pc = "remote" /\ call[t].op = "update"
    /\ slist' = IF i = 0 \/ slist[i].records[k] = NoValue THEN slist
                ELSE [slist EXCEPT ![i].records[k] = v]
    /\ Return(t)
    /\ UNCHANGED <<anchors, local, remotePut, acked>>

-----------------------------------------------------------------------------
Put(t) ==
    \/ \E v \in Values : LocalStore(t, v) \/ Flush(t, v) \/ RemotePut(t, v)
    \/ FlushFails(t) \/ LocalLate(t)

Update(t) == \E v \in Values : LocalUpdate(t, v) \/ RemoteUpdate(t, v)

Next == \E t \in Threads : Call(t) \/ Put(t) \/ Update(t)

Spec == Init /\ [][Next]_vars

-----------------------------------------------------------------------------
(***************************************************************************)
(* Properties.                                                             *)
(***************************************************************************)

\* Every variable has its type, and a local node never outgrows its slots.
TypeOK ==
    /\ anchors \in [Nodes -> Keys \cup {Empty}]
    /\ local \in [Nodes -> [Keys -> Values \cup {NoValue}]]
    /\ \A n \in Nodes : Cardinality(Stored(local[n])) <= Capacity
    /\ remotePut \in BOOLEAN
    /\ slist \in Seq([anchor : Keys, records : [Keys -> Values \cup {NoValue}]])
    /\ call \in [Threads -> [pc : {"idle", "local", "remote"}, op : {"put", "update"}, key : Keys]]
    /\ acked \subseteq Keys

\* The two local nodes split the keys at the second anchor, whatever the order
\* in which the keys came; only the anchor itself may be in both.
NodesOrdered ==
    /\ anchors[1] # Empty => anchors[0] <= anchors[1] /\ local[1][anchors[1]] # NoValue
    /\ \A k \in Stored(local[0]) : anchors[0] <= k /\ (anchors[1] # Empty => k <= anchors[1])
    /\ \A k \in Stored(local[1]) : anchors[1] # Empty /\ anchors[1] <= k

DistinctAnchors == anchors[0] # anchors[1]

\* A record whose put was acknowledged is found by every later get, before and
\* after the flush, as long as the two anchors differ.
AckedPutReadable ==
    \A k \in acked : (remotePut => DistinctAnchors) => Lookup(k) # NoValue

Finishes(t, op) ==
    /\ call[t].op = op /\ call[t].pc # "idle"
    /\ call'[t].pc = "idle"

\* "uninsert, not upsert": once acknowledged, a record changes by an update of
\* its key and by nothing else, neither by another put nor by the flush, unless
\* the key is put twice in a row into an empty store and becomes both anchors.
FirstPutWins ==
    [][DistinctAnchors /\ DistinctAnchors' =>
           \A k \in acked :
               \/ Lookup(k)' = Lookup(k)
               \/ \E t \in Threads : Finishes(t, "update") /\ call[t].key = k]_vars

\* An update of a readable record is seen by the next get, save in three cases: a
\* store without a second anchor, the second anchor itself, both of which update
\* routes to the other node than get does, and an update that waited for the lock
\* while the nodes were flushed.
UpdateVisible ==
    [][\A t \in Threads :
           /\ Finishes(t, "update")
           /\ anchors[1] \notin {Empty, call[t].key}
           /\ ~(call[t].pc = "local" /\ remotePut)
           => \A k \in {call[t].key}, v \in Values :
                  /\ Lookup(k) # NoValue
                  /\ LocalUpdate(t, v) \/ RemoteUpdate(t, v)
                  => Lookup(k)' = v]_vars

\* The validation of the test program: every key that was put is found again.
FlushKeepsRecords == \A k \in acked : Lookup(k) # NoValue
=============================================================================
