------------------------------ MODULE Handover ------------------------------
(***************************************************************************)
(* The handover lock table of a compute node: how the threads of one       *)
(* process compete for a data node, and how the losers hand their records  *)
(* to the winner (node/compute_node/compute_node.{hpp,cpp} and             *)
(* handover_locktable/handover_locktable.hpp).                             *)
(*                                                                         *)
(* A data node is locked by a compare-and-swap of a pointer to the         *)
(* thread's ConcurrencyContext into SkipListNode::ctx.  put() locks the    *)
(* node and its `backward' neighbour, update() the node alone.  A thread   *)
(* whose CAS fails may take a ticket from the winner's max_depth, push a   *)
(* request to the winner's queue and spin until the winner answers it.     *)
(*                                                                         *)
(* One action is one access to shared memory (ctx, max_depth, requests,    *)
(* is_done), with the thread-local work around it.  Records, keys and the  *)
(* RDMA buffers are abstracted: whether a record still fits a buffer is a  *)
(* nondeterministic choice.  `backward' never changes once a node is       *)
(* published, so it is a constant.                                         *)
(***************************************************************************)
EXTENDS Naturals, Integers, Sequences, FiniteSets

CONSTANTS
    Threads,        \* registered threads; a thread stands for its ConcurrencyContext too
    Nodes,          \* data nodes of the search layer that a key can be routed to
    Sentinel,           \* SkipList::head: locked as a neighbour, never a target
    Backward,       \* SkipListNode::backward
    MaxDepth,       \* requests a winner accepts while it fetches (4 in the code)
    Offered,        \* the kinds of operation the application issues
    None            \* the null ConcurrencyContext pointer

ASSUME ThreadsAssumption == None \notin Threads
ASSUME NodesAssumption ==
    /\ Sentinel \notin Nodes
    /\ Backward \in [Nodes -> Nodes \cup {Sentinel}]
    /\ \A n \in Nodes : Backward[n] # n
ASSUME DepthAssumption == MaxDepth \in Nat \ {0}

Writers == {"insert", "update"}
Kinds == Writers \cup {"get"}
ASSUME OfferedAssumption == Offered \subseteq Kinds

VARIABLES
    pc,         \* next shared access of each thread
    kind,       \* the operation a thread runs
    node,       \* the node fuzzy_search returned to a writer (Sentinel at rest)
    owner,      \* the context it read from a failed CAS
    ctx,        \* SkipListNode::ctx
    maxDepth,   \* ConcurrencyContext::max_depth
    type,       \* ConcurrencyContext::type
    requests,   \* ConcurrencyContext::requests; a request is named by its thread
    answer      \* is_done, succeed and retry of a thread's request

vars == <<pc, kind, node, owner, ctx, maxDepth, type, requests, answer>>

Lockable == Nodes \cup {Sentinel}

Closed == -1
\* fetch_sub below -1 never brings back -1 or a ticket, so -2 stands for all of them
Floor == -2

PCs == {"idle", "drain", "mark", "casNode", "casPred", "shut", "giveUp",
        "open", "fetch", "help", "count", "morph",
        "leaveNode", "leavePred", "leaveDepth",
        "checkType", "spin", "ticket", "enqueue", "wait"}

\* The program counters at which a thread holds its node, and (an insert) the
\* neighbour as well.
Critical == {"open", "fetch", "help", "count", "morph", "leaveNode"}
HoldsNode(t) == pc[t] \in Critical \cup {"casPred", "shut", "giveUp"}
HoldsPred(t) == kind[t] = "insert" /\ pc[t] \in Critical \cup {"leavePred"}
Held(t) == (IF HoldsNode(t) THEN {node[t]} ELSE {})
           \cup (IF HoldsPred(t) THEN {Backward[node[t]]} ELSE {})

\* A thread that spins on another thread's context.
Waiting(t) == pc[t] = "wait" /\ answer[t] = "none"
SpinsOn(t) == pc[t] \in {"checkType", "spin", "ticket", "enqueue"} \/ Waiting(t)

Goto(t, label) == pc' = [pc EXCEPT ![t] = label]

\* The operation returns; its local variables are gone.
Finish(t) ==
    /\ Goto(t, "idle")
    /\ kind' = [kind EXCEPT ![t] = "get"]
    /\ node' = [node EXCEPT ![t] = Sentinel]
    /\ owner' = [owner EXCEPT ![t] = None]

-----------------------------------------------------------------------------
Init ==
    /\ pc = [t \in Threads |-> "idle"]
    /\ kind = [t \in Threads |-> "get"]
    /\ node = [t \in Threads |-> Sentinel]
    /\ owner = [t \in Threads |-> None]
    /\ ctx = [n \in Lockable |-> None]
    /\ maxDepth = [t \in Threads |-> MaxDepth]
    /\ type = [t \in Threads |-> "insert"]
    /\ requests = [t \in Threads |-> <<>>]
    /\ answer = [t \in Threads |-> "none"]

(***************************************************************************)
(* The start of an operation and the drain of the thread's own queue.      *)
(***************************************************************************)

\* put, update and get route the key and then answer whatever an earlier
\* operation of this thread left in its queue.
Start(t) ==
    /\ pc[t] = "idle"
    /\ \E k \in Offered, n \in Nodes :
          /\ kind' = [kind EXCEPT ![t] = k]
          /\ node' = [node EXCEPT ![t] = IF k = "get" THEN Sentinel ELSE n]
    /\ Goto(t, "drain")
    /\ UNCHANGED <<owner, ctx, maxDepth, type, requests, answer>>

\* Pop the oldest request of t's queue and answer it with a.
Answer(t, a) ==
    /\ requests[t] # <<>>
    /\ answer' = [answer EXCEPT ![Head(requests[t])] = a]
    /\ requests' = [requests EXCEPT ![t] = Tail(@)]

DrainOne(t) ==
    /\ pc[t] = "drain"
    /\ Answer(t, "retry")
    /\ UNCHANGED <<pc, kind, node, owner, ctx, maxDepth, type>>

\* Mutant: the queue of an earlier operation is not drained.
DrainSkipped(t) ==
    /\ pc[t] = "drain"
    /\ \/ kind[t] \in Writers /\ Goto(t, "mark") /\ UNCHANGED <<kind, node, owner>>
       \/ kind[t] = "get" /\ Finish(t)
    /\ UNCHANGED <<ctx, maxDepth, type, requests, answer>>

\* A get goes on to search, fetch and validate; a checksum that does not match
\* sends it back to the drain.
DrainDone(t) ==
    /\ pc[t] = "drain"
    /\ requests[t] = <<>>
    /\ \/ kind[t] \in Writers /\ Goto(t, "mark") /\ UNCHANGED <<kind, node, owner>>
       \/ kind[t] = "get" /\ Finish(t)
    /\ UNCHANGED <<ctx, maxDepth, type, requests, answer>>

(***************************************************************************)
(* try_win_for_insert and try_win_for_update.                              *)
(***************************************************************************)

\* An insert closes its context before it competes, an update does not.  A peer
\* reads type before max_depth, so the two stores may be one step.
Mark(t) ==
    /\ pc[t] = "mark"
    /\ maxDepth' = [maxDepth EXCEPT ![t] = IF kind[t] = "insert" THEN Closed ELSE @]
    /\ type' = [type EXCEPT ![t] = kind[t]]
    /\ Goto(t, "casNode")
    /\ UNCHANGED <<kind, node, owner, ctx, requests, answer>>

CasNodeWin(t) ==
    /\ pc[t] = "casNode"
    /\ ctx[node[t]] = None
    /\ ctx' = [ctx EXCEPT ![node[t]] = t]
    /\ Goto(t, IF kind[t] = "insert" THEN "casPred" ELSE "open")
    /\ UNCHANGED <<kind, node, owner, maxDepth, type, requests, answer>>

CasNodeLose(t) ==
    /\ pc[t] = "casNode"
    /\ ctx[node[t]] # None
    /\ owner' = [owner EXCEPT ![t] = ctx[node[t]]]
    /\ Goto(t, "checkType")
    /\ UNCHANGED <<kind, node, ctx, maxDepth, type, requests, answer>>

CasPredWin(t) ==
    /\ pc[t] = "casPred"
    /\ ctx[Backward[node[t]]] = None
    /\ ctx' = [ctx EXCEPT ![Backward[node[t]]] = t]
    /\ Goto(t, "open")
    /\ UNCHANGED <<kind, node, owner, maxDepth, type, requests, answer>>

\* Mutant: the neighbour's lock is taken for granted.
CasPredIgnored(t) ==
    /\ pc[t] = "casPred"
    /\ ctx[Backward[node[t]]] # None
    /\ Goto(t, "open")
    /\ UNCHANGED <<kind, node, owner, ctx, maxDepth, type, requests, answer>>

\* Mutant: the loser waits for the neighbour's owner and keeps the node.
CasPredWaits(t) ==
    /\ pc[t] = "casPred"
    /\ ctx[Backward[node[t]]] # None
    /\ owner' = [owner EXCEPT ![t] = ctx[Backward[node[t]]]]
    /\ Goto(t, "checkType")
    /\ UNCHANGED <<kind, node, ctx, maxDepth, type, requests, answer>>

CasPredLose(t) ==
    /\ pc[t] = "casPred"
    /\ ctx[Backward[node[t]]] # None
    /\ Goto(t, "shut")
    /\ UNCHANGED <<kind, node, owner, ctx, maxDepth, type, requests, answer>>

\* The node is given back: spinning peers are let go first (depth 0).
Shut(t) ==
    /\ pc[t] = "shut"
    /\ maxDepth' = [maxDepth EXCEPT ![t] = 0]
    /\ Goto(t, "giveUp")
    /\ UNCHANGED <<kind, node, owner, ctx, type, requests, answer>>

\* Mutant: the neighbour, which a peer holds, is released as well.
GiveUpBoth(t) ==
    /\ pc[t] = "giveUp"
    /\ ctx' = [ctx EXCEPT ![node[t]] = None, ![Backward[node[t]]] = None]
    /\ Goto(t, "drain")
    /\ UNCHANGED <<kind, node, owner, maxDepth, type, requests, answer>>

\* Mutant: the node is not given back.
GiveUpNothing(t) ==
    /\ pc[t] = "giveUp"
    /\ Goto(t, "drain")
    /\ UNCHANGED <<kind, node, owner, ctx, maxDepth, type, requests, answer>>

GiveUp(t) ==
    /\ pc[t] = "giveUp"
    /\ ctx' = [ctx EXCEPT ![node[t]] = None]
    /\ Goto(t, "drain")
    /\ UNCHANGED <<kind, node, owner, maxDepth, type, requests, answer>>

\* Mutant: the window is added to what an earlier operation left.
OpenAdds(t) ==
    /\ pc[t] = "open"
    /\ maxDepth' = [maxDepth EXCEPT ![t] = @ + MaxDepth]
    /\ Goto(t, "fetch")
    /\ UNCHANGED <<kind, node, owner, ctx, type, requests, answer>>

\* Peers may submit from here until the nodes have been fetched.
Open(t) ==
    /\ pc[t] = "open"
    /\ maxDepth' = [maxDepth EXCEPT ![t] = MaxDepth]
    /\ Goto(t, "fetch")
    /\ UNCHANGED <<kind, node, owner, ctx, type, requests, answer>>

\* Mutant: the context stays open after the nodes have been read.
FetchStaysOpen(t) ==
    /\ pc[t] = "fetch"
    /\ \/ Goto(t, "help")
       \/ kind[t] = "insert" /\ Goto(t, "morph")
    /\ UNCHANGED <<kind, node, owner, ctx, maxDepth, type, requests, answer>>

\* Both nodes have been read: the context closes, and the winner puts its own
\* record into the buffer.  A put whose node is full must morph or split it; an
\* update changes a record in place.
Fetch(t) ==
    /\ pc[t] = "fetch"
    /\ maxDepth' = [maxDepth EXCEPT ![t] = Closed]
    /\ \/ Goto(t, "help")
       \/ kind[t] = "insert" /\ Goto(t, "morph")
    /\ UNCHANGED <<kind, node, owner, ctx, type, requests, answer>>

(***************************************************************************)
(* The winner's work on the fetched buffers: put10..put16 and update.      *)
(***************************************************************************)

\* The answers a winner t may give to w's record: an update reports whether the
\* key was there; before a morph only a record for the neighbour can be refused
\* (help_pred), a record for the node itself waits for the morph instead.
Verdicts(t, w) ==
    IF kind[t] = "update" THEN {"ok", "fail"}
    ELSE IF pc[t] = "morph" \/ node[w] # node[t] THEN {"ok", "retry"}
    ELSE {"ok"}

HelpOne(t) ==
    /\ pc[t] \in {"help", "morph"}
    /\ requests[t] # <<>>
    /\ \E a \in Verdicts(t, Head(requests[t])) : Answer(t, a)
    /\ UNCHANGED <<pc, kind, node, owner, ctx, maxDepth, type>>

\* Mutant: the request is pushed back, and marked done all the same.
HelpFullAnswered(t) ==
    /\ pc[t] \in {"help", "morph"}
    /\ kind[t] = "insert"
    /\ requests[t] # <<>>
    /\ requests' = [requests EXCEPT ![t] = Append(Tail(@), Head(@))]
    /\ answer' = [answer EXCEPT ![Head(requests[t])] = "retry"]
    /\ Goto(t, IF pc[t] = "help" THEN "morph" ELSE "leaveNode")
    /\ UNCHANGED <<kind, node, owner, ctx, maxDepth, type>>

\* Mutant: the request that did not fit is not pushed back.
HelpFullDropped(t) ==
    /\ pc[t] \in {"help", "morph"}
    /\ kind[t] = "insert"
    /\ requests[t] # <<>>
    /\ requests' = [requests EXCEPT ![t] = Tail(@)]
    /\ Goto(t, IF pc[t] = "help" THEN "morph" ELSE "leaveNode")
    /\ UNCHANGED <<kind, node, owner, ctx, maxDepth, type, answer>>

\* No room for the oldest request: it goes back to the tail of the queue, and
\* an insert that has morphed or split already leaves it there.
HelpFull(t) ==
    /\ pc[t] \in {"help", "morph"}
    /\ kind[t] = "insert"
    /\ requests[t] # <<>>
    /\ requests' = [requests EXCEPT ![t] = Append(Tail(@), Head(@))]
    /\ Goto(t, IF pc[t] = "help" THEN "morph" ELSE "leaveNode")
    /\ UNCHANGED <<kind, node, owner, ctx, maxDepth, type, answer>>

HelpDone(t) ==
    /\ pc[t] \in {"help", "morph"}
    /\ requests[t] = <<>>
    /\ Goto(t, IF pc[t] = "help" /\ kind[t] = "insert" THEN "count" ELSE "leaveNode")
    /\ UNCHANGED <<kind, node, owner, ctx, maxDepth, type, requests, answer>>

\* Its own record and every request popped so far are stored: with no request
\* left the node is written back as it is, otherwise it is morphed or split.
Count(t) ==
    /\ pc[t] = "count"
    /\ Goto(t, IF requests[t] = <<>> THEN "leaveNode" ELSE "morph")
    /\ UNCHANGED <<kind, node, owner, ctx, maxDepth, type, requests, answer>>

(***************************************************************************)
(* The winner leaves: the node, the neighbour, then the depth.             *)
(***************************************************************************)
LeaveNode(t) ==
    /\ pc[t] = "leaveNode"
    /\ ctx' = [ctx EXCEPT ![node[t]] = None]
    /\ Goto(t, IF kind[t] = "insert" THEN "leavePred" ELSE "leaveDepth")
    /\ UNCHANGED <<kind, node, owner, maxDepth, type, requests, answer>>

LeavePred(t) ==
    /\ pc[t] = "leavePred"
    /\ ctx' = [ctx EXCEPT ![Backward[node[t]]] = None]
    /\ Goto(t, "leaveDepth")
    /\ UNCHANGED <<kind, node, owner, maxDepth, type, requests, answer>>

LeaveDepth(t) ==
    /\ pc[t] = "leaveDepth"
    /\ maxDepth' = [maxDepth EXCEPT ![t] = MaxDepth]
    /\ Finish(t)
    /\ UNCHANGED <<ctx, type, requests, answer>>

(***************************************************************************)
(* failed_write: a loser takes a ticket and waits for the winner.          *)
(***************************************************************************)

\* put retries on the node it has, update searches again.
Retry(t) ==
    /\ Goto(t, "drain")
    /\ \E n \in Nodes : node' = [node EXCEPT ![t] = IF kind[t] = "update" THEN n ELSE @]
    /\ owner' = [owner EXCEPT ![t] = None]
    /\ UNCHANGED kind

\* An insert retries against a winner of another type, an update fails.
CheckType(t) ==
    /\ pc[t] = "checkType"
    /\ \/ /\ type[owner[t]] = kind[t]
          /\ Goto(t, "spin")
          /\ UNCHANGED <<kind, node, owner>>
       \/ /\ type[owner[t]] # kind[t]
          /\ kind[t] = "insert"
          /\ Retry(t)
       \/ /\ type[owner[t]] # kind[t]
          /\ kind[t] = "update"
          /\ Finish(t)
    /\ UNCHANGED <<ctx, maxDepth, type, requests, answer>>

SpinEnds(t) ==
    /\ pc[t] = "spin"
    /\ maxDepth[owner[t]] # Closed
    /\ Goto(t, "ticket")
    /\ UNCHANGED <<kind, node, owner, ctx, maxDepth, type, requests, answer>>

\* fetch_sub(1); a positive old value admits the request.
Ticket(t) ==
    LET depth == maxDepth[owner[t]] IN
    /\ pc[t] = "ticket"
    /\ maxDepth' = [maxDepth EXCEPT ![owner[t]] = IF depth > Floor THEN depth - 1 ELSE Floor]
    /\ \/ depth > 0 /\ Goto(t, "enqueue") /\ UNCHANGED <<kind, node, owner>>
       \/ depth <= 0 /\ Retry(t)
    /\ UNCHANGED <<ctx, type, requests, answer>>

Enqueue(t) ==
    /\ pc[t] = "enqueue"
    /\ requests' = [requests EXCEPT ![owner[t]] = Append(@, t)]
    /\ Goto(t, "wait")
    /\ UNCHANGED <<kind, node, owner, ctx, maxDepth, type, answer>>

\* is_done was seen.
Return(t) ==
    /\ pc[t] = "wait"
    /\ answer[t] # "none"
    /\ answer' = [answer EXCEPT ![t] = "none"]
    /\ \/ answer[t] = "retry" /\ Retry(t)
       \/ answer[t] # "retry" /\ Finish(t)
    /\ UNCHANGED <<ctx, maxDepth, type, requests>>

-----------------------------------------------------------------------------
TryWin(t) ==
    \/ Mark(t) \/ CasNodeWin(t) \/ CasNodeLose(t) \/ CasPredWin(t) \/ CasPredLose(t)
    \/ Shut(t) \/ GiveUp(t) \/ Open(t) \/ Fetch(t)

Win(t) ==
    \/ HelpOne(t) \/ HelpFull(t) \/ HelpDone(t) \/ Count(t)
    \/ LeaveNode(t) \/ LeavePred(t) \/ LeaveDepth(t)

FailedWrite(t) ==
    CheckType(t) \/ SpinEnds(t) \/ Ticket(t) \/ Enqueue(t) \/ Return(t)

\* Everything a thread does inside an operation.
Step(t) == DrainOne(t) \/ DrainDone(t) \/ TryWin(t) \/ Win(t) \/ FailedWrite(t)

Next == \E t \in Threads : Start(t) \/ Step(t)

Spec == Init /\ [][Next]_vars

\* The operating system keeps running a thread that can take a step.
FairSpec == Spec /\ \A t \in Threads : WF_vars(Step(t))

\* The application also keeps every thread busy, and a thread that spins on
\* max_depth reads it in one of the windows in which it is open.
BusySpec ==
    Spec /\ \A t \in Threads : WF_vars(Start(t) \/ Step(t)) /\ SF_vars(SpinEnds(t))

-----------------------------------------------------------------------------
(***************************************************************************)
(* Properties.                                                             *)
(***************************************************************************)

\* Every variable has its type: depths stay within the window the code opens
\* and every queue holds threads.
TypeOK ==
    /\ pc \in [Threads -> PCs]
    /\ kind \in [Threads -> Kinds]
    /\ node \in [Threads -> Lockable]
    /\ \A t \in Threads : kind[t] \in Writers => node[t] \in Nodes
    /\ owner \in [Threads -> Threads \cup {None}]
    /\ ctx \in [Lockable -> Threads \cup {None}]
    /\ maxDepth \in [Threads -> Floor..MaxDepth]
    /\ type \in [Threads -> Writers]
    /\ requests \in [Threads -> Seq(Threads)]
    /\ answer \in [Threads -> {"none", "ok", "fail", "retry"}]

\* SkipListNode::ctx names a thread exactly while that thread's program counter
\* says it holds the node: no lock is lost, leaked, or released for a peer.
LockOwner ==
    \A n \in Lockable, t \in Threads : ctx[n] = t <=> n \in Held(t)

\* A winner reads and rewrites the remote copies of its node and, as an insert,
\* of the neighbour: two winners never have a node in common, whichever of them
\* holds it as a neighbour.
Touched(t) ==
    IF pc[t] \in Critical
    THEN {node[t]} \cup (IF kind[t] = "insert" THEN {Backward[node[t]]} ELSE {})
    ELSE {}
MutualExclusion ==
    \A t, u \in Threads : t # u => Touched(t) \cap Touched(u) = {}

\* A request carries pointers into the stack of the thread that waits for it
\* (tag = &key, content = &value).  Every queued request belongs to a thread
\* that still waits, unanswered, for the owner of that queue, and is there once.
RequestsAlive ==
    \A o \in Threads : \A i \in DOMAIN requests[o] :
        /\ Waiting(requests[o][i])
        /\ owner[requests[o][i]] = o
        /\ \A j \in DOMAIN requests[o] : requests[o][i] = requests[o][j] => i = j

\* ... and a thread that waits unanswered has its request in its owner's queue:
\* push-back, hand-over and drain lose none.
NoRequestLost ==
    \A t \in Threads : Waiting(t) =>
        \E i \in DOMAIN requests[owner[t]] : requests[owner[t]][i] = t

\* No set of threads spins on one another: a thread that reads an owner from a
\* failed CAS reads one that is not spinning itself, although that owner may
\* have left the node and be losing elsewhere by the time its peer waits.
NoCircularWait ==
    \A S \in SUBSET Threads :
        (\A t \in S : SpinsOn(t) /\ owner[t] \in S) => S = {}

\* Once the winner has fetched, its context stays closed until it has released
\* its locks: no ticket is given for a buffer that is already being written.
ClosedWhileServing ==
    \A t \in Threads :
        pc[t] \in (Critical \ {"open", "fetch"}) \cup {"leavePred", "leaveDepth"}
            => maxDepth[t] < 0

\* A winner never waits for anybody, so every lock it takes is released.
LockReleased ==
    \A n \in Lockable, t \in Threads : (ctx[n] = t) ~> (ctx[n] # t)

\* A thread whose request is queued is answered as long as every thread goes on
\* running operations: by the winner, or by a later drain of the same context.
RequestAnswered ==
    \A t \in Threads : Waiting(t) ~> ~Waiting(t)

\* Comment at the leave of put10: the order in which the context is reset avoids
\* pending requests in the queue of a winner that has left.
NoRequestLeftBehind ==
    \A t \in Threads : pc[t] = "idle" => requests[t] = <<>>

\* Comment of ConcurrencyRequests: the winner serves a request only if the node
\* it operates on is the node the waiting thread expects.
ServedOnExpectedNode ==
    [][\A w \in Threads :
         Waiting(w) /\ answer'[w] = "ok" => node[w] \in Touched(owner[w])]_vars
=============================================================================
