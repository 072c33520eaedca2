--------------------------------- MODULE Store ---------------------------------
(***************************************************************************)
(* put and get of a compute node once its data is remote: the handover     *)
(* lock table, the bottom level of the search layer, and the records of    *)
(* the data nodes together (node/compute_node/compute_node.{hpp,cpp}).     *)
(*                                                                         *)
(* Module Handover follows the lock table access by access, SearchLayer    *)
(* the list pointer by pointer and DataNode the sizes; here the two locks  *)
(* of a put are taken in one step, the walk of fuzzy_search is one step,   *)
(* and a data node has one of two sizes.  What this module adds is where   *)
(* the records are: in the remote nodes, and in the buffers of the winners *)
(* until they are written back.                                            *)
(*                                                                         *)
(* A record is its key: store refuses nothing but a full node, and leaves  *)
(* a key alone that is there.                                              *)
(***************************************************************************)
EXTENDS Naturals, FiniteSets

CONSTANTS
    Threads,
    Readers,        \* threads that get; all of them put
    MaxKey,         \* keys are 1..MaxKey; 1 is the smallest key of the store
    MaxNodes,       \* bound: data nodes that ever exist
    Second,         \* anchor of the second node the flush leaves
    Flushed,        \* keys whose records the flush leaves
    PutKeys,        \* bound: keys the application puts
    Small, Large,   \* records of a node before and after it is morphed
    Extra,          \* records a BufferNode takes beyond those of a large node
    None            \* no thread

ASSUME StoreAssumption ==
    /\ MaxKey \in Nat /\ MaxNodes \in Nat /\ MaxNodes >= 2 /\ Second \in 2..MaxKey
    /\ {1, Second} \subseteq Flushed /\ Flushed \subseteq 1..MaxKey /\ PutKeys \subseteq 1..MaxKey
    /\ Small \in Nat \ {0} /\ Large \in Nat /\ Small < Large /\ Extra \in Nat \ {0}
    /\ None \notin Threads /\ Readers \subseteq Threads

Keys == 1..MaxKey
Nodes == 1..MaxNodes
Sentinel == 0               \* SkipList::head; its fake data node holds no record
Nil == MaxNodes + 1
Lockable == {Sentinel} \cup Nodes

VARIABLES
    next,       \* SkipListNode::forwards[0]
    backward,   \* SkipListNode::backward
    anchor,     \* SkipListNode::anchor, 0 while the node does not exist
    size,       \* SkipListNode::type
    recs,       \* the records of the remote node data_node points to
    fresh,      \* the node's crc matches its records, and type is the one it was made with
    ctx,        \* SkipListNode::ctx
    window,     \* max_depth: closed (-1), shut (0) or open
    requests,   \* ConcurrencyContext::requests, by thread
    pc, op, key, at, owner,
    own,        \* the winner has stored its own record
    real, pred, \* the winner's buffers of its node and of the neighbour
    plan,       \* whether the winner morphs or splits the node
    right,      \* the right half of a split, until it is linked
    answer,     \* is_done, succeed and retry; the result of a get
    handed,     \* for the properties: keys stored for a neighbour not written yet
    astray,     \* ... a put has stored a record in a node that does not hold its key,
                \* or a split has given both halves one anchor
    due         \* ... the record was in remote memory when the get was called

list == <<next, backward, anchor>>
remote == <<size, recs, fresh>>
table == <<ctx, window, requests>>
local == <<key, op, at, owner>>
work == <<own, real, pred, plan, right>>
history == <<handed, astray, due>>
vars == <<list, remote, table, pc, local, work, answer, history>>

Goto(t, label) == pc' = [pc EXCEPT ![t] = label]

\* The operation returns; its local variables are gone.
Finish(t) ==
    /\ Goto(t, "idle")
    /\ op' = [op EXCEPT ![t] = "put"]
    /\ key' = [key EXCEPT ![t] = 1]
    /\ at' = [at EXCEPT ![t] = 1]
    /\ owner' = [owner EXCEPT ![t] = None]

\* quick_put has flushed the two local nodes.
Init ==
    /\ next = [n \in Lockable |-> CASE n = Sentinel -> 1 [] n = 1 -> 2 [] OTHER -> Nil]
    /\ backward = [n \in Nodes |-> IF n = 2 THEN 1 ELSE Sentinel]
    /\ anchor = [n \in Nodes |-> CASE n = 1 -> 1 [] n = 2 -> Second [] OTHER -> 0]
    /\ size = [n \in Nodes |-> Small]
    /\ recs = [n \in Lockable |-> CASE n = 1 -> {k \in Flushed : k < Second}
                                 [] n = 2 -> {k \in Flushed : k >= Second}
                                 [] OTHER -> {}]
    /\ fresh = [n \in Nodes |-> TRUE]
    /\ ctx = [n \in Lockable |-> None]
    /\ window = [t \in Threads |-> "open"]
    /\ requests = [t \in Threads |-> {}]
    /\ pc = [t \in Threads |-> "idle"]
    /\ op = [t \in Threads |-> "put"]
    /\ key = [t \in Threads |-> 1]
    /\ at = [t \in Threads |-> 1]
    /\ owner = [t \in Threads |-> None]
    /\ own = [t \in Threads |-> FALSE]
    /\ real = [t \in Threads |-> {}]
    /\ pred = [t \in Threads |-> {}]
    /\ plan = [t \in Threads |-> "none"]
    /\ right = [t \in Threads |-> Nil]
    /\ answer = [t \in Threads |-> "none"]
    /\ handed = {}
    /\ astray = FALSE
    /\ due = [t \in Threads |-> FALSE]

\* fuzzy_search: the node whose anchor the key is, or the last one before the first
\* anchor beyond it.  walk[i] is where the walker is after i turns of the loop.
Holder(k) ==
    LET walk[i \in 0..MaxNodes] ==
            IF i = 0 THEN Sentinel
            ELSE LET n == walk[i - 1] IN
                 IF next[n] # Nil /\ anchor[next[n]] < k THEN next[n] ELSE n
        last == walk[MaxNodes]
    IN  IF next[last] # Nil /\ anchor[next[last]] = k THEN next[last] ELSE last

-----------------------------------------------------------------------------
(***************************************************************************)
(* put and get are called; put_dispatcher competes.                        *)
(***************************************************************************)

\* drain_pending: what an earlier operation left in the queue must retry.
Drain(t) ==
    /\ requests' = [requests EXCEPT ![t] = {}]
    /\ answer' = [u \in Threads |-> IF u \in requests[t] THEN "retry" ELSE answer[u]]

CallPut(t, k) ==
    /\ pc[t] = "idle"
    /\ op' = [op EXCEPT ![t] = "put"]
    /\ key' = [key EXCEPT ![t] = k]
    /\ at' = [at EXCEPT ![t] = Holder(k)]
    /\ Goto(t, "try")
    /\ UNCHANGED <<list, remote, table, owner, work, answer, history>>

\* Mutant: the neighbour is not locked.
WinNodeOnly(t) ==
    LET n == at[t] IN
    /\ pc[t] = "try"
    /\ ctx[n] = None
    /\ ctx' = [ctx EXCEPT ![n] = t]
    /\ window' = [window EXCEPT ![t] = "open"]
    /\ Drain(t)
    /\ Goto(t, "fetch")
    /\ UNCHANGED <<list, remote, local, work, history>>

Win(t) ==
    LET n == at[t] IN
    /\ pc[t] = "try"
    /\ ctx[n] = None /\ ctx[backward[n]] = None
    /\ ctx' = [ctx EXCEPT ![n] = t, ![backward[n]] = t]
    /\ window' = [window EXCEPT ![t] = "open"]
    /\ Drain(t)
    /\ Goto(t, "fetch")
    /\ UNCHANGED <<list, remote, local, work, history>>

\* The node is free and the neighbour is not: spinning peers are let go, and the
\* put tries the same node again.
PredBusy(t) ==
    /\ pc[t] = "try"
    /\ ctx[at[t]] = None /\ ctx[backward[at[t]]] # None
    /\ window' = [window EXCEPT ![t] = "shut"]
    /\ Drain(t)
    /\ UNCHANGED <<list, remote, ctx, pc, local, work, history>>

Lose(t) ==
    /\ pc[t] = "try"
    /\ ctx[at[t]] # None
    /\ owner' = [owner EXCEPT ![t] = ctx[at[t]]]
    /\ window' = [window EXCEPT ![t] = "closed"]
    /\ Drain(t)
    /\ Goto(t, "lost")
    /\ UNCHANGED <<list, remote, ctx, op, key, at, work, history>>

(***************************************************************************)
(* failed_write.                                                           *)
(***************************************************************************)
Ticket(t) ==
    /\ pc[t] = "lost"
    /\ \/ window[owner[t]] = "open" /\ Goto(t, "submit")
       \/ window[owner[t]] = "shut" /\ Goto(t, "try")
    /\ UNCHANGED <<list, remote, table, local, work, answer, history>>

Submit(t) ==
    /\ pc[t] = "submit"
    /\ requests' = [requests EXCEPT ![owner[t]] = @ \cup {t}]
    /\ Goto(t, "wait")
    /\ UNCHANGED <<list, remote, ctx, window, local, work, answer, history>>

\* is_done: true to the caller, or once more on the node found first.
PutReturns(t) ==
    /\ pc[t] = "wait" /\ op[t] = "put" /\ answer[t] # "none"
    /\ answer' = [answer EXCEPT ![t] = "none"]
    /\ \/ answer[t] = "ok" /\ Finish(t)
       \/ answer[t] = "retry" /\ Goto(t, "try") /\ UNCHANGED local
    /\ UNCHANGED <<list, remote, table, work, history>>

(***************************************************************************)
(* The winner's buffers: try_put_to_existing_node, help_others, and the    *)
(* bodies of put10 to put16.                                               *)
(***************************************************************************)
Fits(buffer, slots) == Cardinality(buffer) < slots

\* The records are for node n; the put of one that it does not hold was overtaken.
Placed(n, k) == astray' = (astray \/ Holder(k) # n)

\* The slots the winner's buffer has.
Room(t) ==
    CASE plan[t] = "none" -> size[at[t]]
      [] plan[t] = "morph" -> Large
      [] plan[t] = "split" -> Large + Extra

\* A small node is morphed, or split when many requests are pending; a large one
\* is split, however few records it has.
Plans(n) == IF size[n] = Small THEN {"morph", "split"} ELSE {"split"}

\* Both nodes are read, the window closes, and the own record goes first.  When
\* the node is full it goes to the larger buffer.
Fetch(t) ==
    LET n == at[t]
        full == ~Fits(recs[n], size[n])
        buffer == recs[n] \cup {key[t]}
    IN
    /\ pc[t] = "fetch"
    /\ window' = [window EXCEPT ![t] = "closed"]
    /\ real' = [real EXCEPT ![t] = buffer]
    /\ pred' = [pred EXCEPT ![t] = recs[backward[n]]]
    /\ own' = [own EXCEPT ![t] = TRUE]
    /\ \E p \in (IF full THEN Plans(n) ELSE {"none"}) : plan' = [plan EXCEPT ![t] = p]
    /\ handed' = handed \ {key[t]}
    /\ Placed(n, key[t])
    /\ Goto(t, "help")
    /\ UNCHANGED <<list, remote, ctx, requests, local, right, answer, due>>

\* The next request is answered a.
Serve(t, u, a) ==
    /\ pc[t] = "help" /\ u \in requests[t]
    /\ requests' = [requests EXCEPT ![t] = @ \ {u}]
    /\ answer' = [answer EXCEPT ![u] = a]
    /\ UNCHANGED <<list, remote, ctx, window, pc, local, own, plan, right, due>>

ServeOwn(t, u) ==
    LET k == key[u] IN
    /\ k >= anchor[at[t]]
    /\ Fits(real[t], Room(t))
    /\ Serve(t, u, "ok")
    /\ real' = [real EXCEPT ![t] = @ \cup {k}]
    /\ handed' = handed \ {k}
    /\ Placed(at[t], k)
    /\ UNCHANGED pred

\* help_pred: the neighbour's buffer has the slots of its own type.
ServePred(t, u) ==
    LET k == key[u]  p == backward[at[t]] IN
    /\ k < anchor[at[t]]
    /\ p # Sentinel /\ Fits(pred[t], size[p])
    /\ Serve(t, u, "ok")
    /\ pred' = [pred EXCEPT ![t] = @ \cup {k}]
    /\ handed' = IF k \in pred[t] THEN handed ELSE handed \cup {k}
    /\ Placed(p, k)
    /\ UNCHANGED real

\* A request that does not fit is refused when it is for the neighbour, or when the
\* node is morphed by put10; help_others pushes it back.
Refused(t, u) ==
    IF key[u] < anchor[at[t]]
    THEN backward[at[t]] = Sentinel \/ ~Fits(pred[t], size[backward[at[t]]])
    ELSE plan[t] = "morph" /\ ~Fits(real[t], Room(t))

ServeRefused(t, u) ==
    /\ Refused(t, u)
    /\ Serve(t, u, "retry")
    /\ UNCHANGED <<real, pred, handed, astray>>

\* The loop over the requests ends when none is left, or when one that does not fit
\* is pushed back.
Helped(t) ==
    \/ requests[t] = {}
    \/ \E u \in requests[t] : key[u] >= anchor[at[t]] /\ ~Fits(real[t], Room(t))

\* A request that does not fit was pushed back, or one arrived after the last
\* was popped: unsafe_size is not 0.
Outgrow(t) ==
    /\ pc[t] = "help" /\ plan[t] = "none"
    /\ requests[t] # {}
    /\ \E p \in Plans(at[t]) : plan' = [plan EXCEPT ![t] = p]
    /\ UNCHANGED <<list, remote, table, pc, local, own, real, pred, right, answer, history>>

(***************************************************************************)
(* The buffers are written back.                                           *)
(***************************************************************************)

\* No request is pending: write_back_current writes the node, not the
\* neighbour, and leaves the crc as it was.
WriteInPlace(t) ==
    LET n == at[t] IN
    /\ pc[t] = "help" /\ plan[t] = "none" /\ requests[t] = {}
    /\ recs' = [recs EXCEPT ![n] = real[t]]
    /\ fresh' = [fresh EXCEPT ![n] = @ /\ real[t] = recs[n]]
    /\ real' = [real EXCEPT ![t] = {}]
    /\ pred' = [pred EXCEPT ![t] = {}]
    /\ Goto(t, "leave")
    /\ UNCHANGED <<list, size, table, local, own, plan, right, answer, history>>

\* The neighbour is written with the node; its crc is not computed again.
PredWritten(t, r) ==
    [r EXCEPT ![backward[at[t]]] = IF backward[at[t]] = Sentinel THEN {} ELSE pred[t]]
PredFresh(t, f) ==
    [m \in Nodes |-> IF m = backward[at[t]] THEN f[m] /\ pred[t] = recs[m] ELSE f[m]]

\* Mutant: the type is the number of records.
SizeForExact(records) == Cardinality(records)

\* morph_node: the smallest type the records fit.
SizeFor(records) == IF Cardinality(records) <= Small THEN Small ELSE Large

\* write_back_morphed, and the type: the smallest (put10) or the largest
\* (eager_morph).  A request that arrives now stays in the queue.
WriteMorphed(t) ==
    LET n == at[t] IN
    /\ pc[t] = "help" /\ plan[t] = "morph" /\ Helped(t)
    /\ recs' = PredWritten(t, [recs EXCEPT ![n] = real[t]])
    /\ fresh' = PredFresh(t, [fresh EXCEPT ![n] = TRUE])
    /\ \E s \in {SizeFor(real[t]), Large} : size' = [size EXCEPT ![n] = s]
    /\ real' = [real EXCEPT ![t] = {}]
    /\ pred' = [pred EXCEPT ![t] = {}]
    /\ handed' = handed \ pred[t]
    /\ Goto(t, "leave")
    /\ UNCHANGED <<list, table, local, own, plan, right, answer, astray, due>>

\* Mutant: the anchor's record stays on the left, where no search finds it.
RightOfBad(records, a) == {k \in records : k > a}

\* construct_reorder_map picks the Small (left_cap) smallest records for the left
\* half, and the next one as the anchor of the right half, which it opens.  Where
\* there is no next one the largest is picked again.
LeftSize(records) ==
    IF Small < Cardinality(records) THEN Small ELSE Cardinality(records) - 1
RightAnchor(records) ==
    CHOOSE a \in records : Cardinality({k \in records : k < a}) = LeftSize(records)
RightOf(records, a) == {k \in records : k >= a}

\* write_back_splitted: data_node points to the left half from now on, whose crc is
\* not the one of the old type; the right half is written to memory that nothing
\* points to yet.
WriteSplit(t) ==
    LET n == at[t]  new == CHOOSE m \in Nodes : anchor[m] = 0 IN
    /\ pc[t] = "help" /\ plan[t] = "split" /\ Helped(t)
    /\ \E m \in Nodes : anchor[m] = 0
    /\ LET a == RightAnchor(real[t])
           r == RightOf(real[t], a)
       IN
          /\ size' = [size EXCEPT ![new] = SizeFor(r)]
          /\ anchor' = [anchor EXCEPT ![new] = a]
          /\ astray' = (astray \/ a <= anchor[n])
          /\ recs' = PredWritten(t, [recs EXCEPT ![n] = real[t] \ r, ![new] = r])
    /\ right' = [right EXCEPT ![t] = new]
    /\ fresh' = PredFresh(t, [fresh EXCEPT ![n] = FALSE, ![new] = TRUE])
    /\ real' = [real EXCEPT ![t] = {}]
    /\ pred' = [pred EXCEPT ![t] = {}]
    /\ handed' = handed \ pred[t]
    /\ Goto(t, "link")
    /\ UNCHANGED <<next, backward, table, local, own, plan, answer, due>>

\* async_update, and the type of the left half.
Link(t) ==
    LET n == at[t]  new == right[t] IN
    /\ pc[t] = "link"
    /\ next' = [next EXCEPT ![new] = next[n], ![n] = new]
    /\ backward' = [backward EXCEPT ![new] = n]
    /\ size' = [size EXCEPT ![n] = Small]
    /\ fresh' = [fresh EXCEPT ![n] = TRUE]
    /\ right' = [right EXCEPT ![t] = Nil]
    /\ Goto(t, "leave")
    /\ UNCHANGED <<anchor, recs, table, local, own, real, pred, plan, answer, history>>

\* The locks are given back, the window opens, and the put returns.
Leave(t) ==
    /\ pc[t] = "leave"
    /\ ctx' = [n \in Lockable |-> IF n \in {at[t], backward[at[t]]} THEN None ELSE ctx[n]]
    /\ window' = [window EXCEPT ![t] = "open"]
    /\ own' = [own EXCEPT ![t] = FALSE]
    /\ plan' = [plan EXCEPT ![t] = "none"]
    /\ Finish(t)
    /\ UNCHANGED <<list, remote, requests, real, pred, right, answer, handed, astray, due>>

(***************************************************************************)
(* get takes no lock.                                                      *)
(***************************************************************************)
CallGet(t, k) ==
    /\ pc[t] = "idle" /\ t \in Readers
    /\ op' = [op EXCEPT ![t] = "get"]
    /\ key' = [key EXCEPT ![t] = k]
    /\ at' = [at EXCEPT ![t] = Holder(k)]
    /\ due' = [due EXCEPT ![t] = k \in recs[Holder(k)]]
    /\ Drain(t)
    /\ Goto(t, "read")
    /\ UNCHANGED <<list, remote, ctx, window, owner, work, handed, astray>>

\* The whole node is read at the address data_node has now.
GetReads(t) ==
    /\ pc[t] = "read"
    /\ fresh[at[t]]
    /\ answer' = [answer EXCEPT ![t] = IF key[t] \in recs[at[t]] THEN "ok" ELSE "fail"]
    /\ Goto(t, "wait")
    /\ UNCHANGED <<list, remote, table, local, work, history>>

\* The crc does not match: drain, search and read again.
GetRetries(t) ==
    /\ pc[t] = "read"
    /\ ~fresh[at[t]]
    /\ at' = [at EXCEPT ![t] = Holder(key[t])]
    /\ Drain(t)
    /\ UNCHANGED <<list, remote, ctx, window, pc, op, key, owner, work, history>>

GetReturns(t) ==
    /\ pc[t] = "wait" /\ op[t] = "get"
    /\ answer' = [answer EXCEPT ![t] = "none"]
    /\ due' = [due EXCEPT ![t] = FALSE]
    /\ Finish(t)
    /\ UNCHANGED <<list, remote, table, work, handed, astray>>

-----------------------------------------------------------------------------
Call(t) == (\E k \in PutKeys : CallPut(t, k)) \/ (\E k \in Keys : CallGet(t, k))

\* What a winner does until it has left.
WinnerStep(t) ==
    \/ Fetch(t)
    \/ \E u \in Threads : ServeOwn(t, u) \/ ServePred(t, u) \/ ServeRefused(t, u)
    \/ Outgrow(t) \/ WriteInPlace(t) \/ WriteMorphed(t) \/ WriteSplit(t) \/ Link(t) \/ Leave(t)

Next ==
    \E t \in Threads :
        \/ Call(t)
        \/ Win(t) \/ PredBusy(t) \/ Lose(t) \/ Ticket(t) \/ Submit(t) \/ PutReturns(t)
        \/ WinnerStep(t)
        \/ GetReads(t) \/ GetRetries(t) \/ GetReturns(t)

Spec == Init /\ [][Next]_vars

-----------------------------------------------------------------------------
(***************************************************************************)
(* Properties.                                                             *)
(***************************************************************************)
Winners == {t \in Threads : pc[t] \in {"fetch", "help", "link", "leave"}}

\* Every variable has its type; only a winner has buffers.
TypeOK ==
    /\ next \in [Lockable -> Nodes \cup {Nil}]
    /\ backward \in [Nodes -> Lockable]
    /\ anchor \in [Nodes -> 0..MaxKey]
    /\ size \in [Nodes -> {Small, Large}]
    /\ recs \in [Lockable -> SUBSET Keys] /\ recs[Sentinel] = {}
    /\ fresh \in [Nodes -> BOOLEAN]
    /\ ctx \in [Lockable -> Threads \cup {None}]
    /\ window \in [Threads -> {"open", "shut", "closed"}]
    /\ requests \in [Threads -> SUBSET Threads]
    /\ pc \in [Threads -> {"idle", "try", "lost", "submit", "wait", "fetch", "help", "link",
                           "leave", "read"}]
    /\ op \in [Threads -> {"put", "get"}] /\ key \in [Threads -> Keys]
    /\ at \in [Threads -> Nodes] /\ owner \in [Threads -> Threads \cup {None}]
    /\ own \in [Threads -> BOOLEAN] /\ plan \in [Threads -> {"none", "morph", "split"}]
    /\ real \in [Threads -> SUBSET Keys] /\ pred \in [Threads -> SUBSET Keys]
    /\ \A t \in Threads : real[t] # {} => t \in Winners
    /\ right \in [Threads -> Nodes \cup {Nil}]
    /\ answer \in [Threads -> {"none", "ok", "retry", "fail"}]
    /\ handed \subseteq Keys
    /\ astray \in BOOLEAN /\ due \in [Threads -> BOOLEAN]

\* Every record that is anywhere: in a remote node or in a winner's buffer.
Stored == (UNION {recs[n] : n \in Nodes}) \cup (UNION {real[t] \cup pred[t] : t \in Threads})

CallOf(t) ==
    IF pc[t] = "idle" THEN [op |-> "none", key |-> {}, state |-> "idle"]
    ELSE [op |-> op[t], key |-> {key[t]},
          state |-> IF own[t] THEN "ok"
                    ELSE IF answer[t] \in {"ok", "fail"} THEN answer[t] ELSE "pending"]

KV == INSTANCE KVStore WITH
          stored <- Stored, soft <- handed, call <- [t \in Threads |-> CallOf(t)]

\* put and get implement KVStore: a put returns true only after its record has
\* reached a winner's buffer, whoever the winner is, and the only records that
\* any morph, split, write back or retry loses are those a winner stored for its
\* neighbour and then did not write.
Implements == KV!Spec

\* The records that are, or will be, in node n: those of its remote node, of the
\* buffer of its winner, and of a right half that is not linked yet.
RecordsOf(n) ==
    recs[n] \cup (UNION {real[t] : t \in {u \in Winners : at[u] = n}})
    \cup (UNION {recs[right[t]] : t \in {u \in Threads : at[u] = n /\ right[u] # Nil}})

\* As long as no put is overtaken by a split of the node it retries on, and no node
\* is split that has nothing but the record of its anchor, every record is in the
\* node a search for its key ends at: morphs, splits and links leave none where no
\* get, update or put would look.
RecordsPlaced ==
    ~astray =>
        \A n \in Nodes : n \notin {right[t] : t \in Threads} =>
            \A k \in RecordsOf(n) : Holder(k) = n

\* tests/test_store.cpp:113 takes a get that finds nothing for a failure: the
\* record of a key that was populated before the get was called is found.
WrittenFound ==
    \A t \in Threads : op[t] = "get" /\ pc[t] = "wait" /\ due[t] => answer[t] = "ok"
=============================================================================
