------------------------------- MODULE Transfers -------------------------------
(***************************************************************************)
(* The one-sided transfers of one registered thread: its two RDMA contexts *)
(* over one buffer, and what get, put, update and scan post and poll       *)
(* (rdma_util, memory/compute_node, node/compute_node).                    *)
(*                                                                         *)
(* A thread shares no queue and no buffer with another, so one thread is   *)
(* enough; what runs beside it is the network adapter.  The buffer has     *)
(* three slots of a LinkedNode16: 0 for the neighbour, 1 for the node, 2   *)
(* for the right half of a split.  The content of a slot or of a remote    *)
(* node is the name of the node whose records it holds: a thread that      *)
(* stores a record in a slot does not change whose node it is.             *)
(***************************************************************************)
EXTENDS Naturals, Sequences

CONSTANTS
    Last,       \* bound: data nodes in list order are 1..Last; 0 is the fake one of head
    Updated,    \* bound: nodes the application updates
    Depth,      \* MAX_QP_DEPTH, the send queue of a context
    Garbage     \* what a slot holds before it is first used

\* A queue has room for the largest batch, the one of a split.
ASSUME TransfersAssumption ==
    Last \in Nat \ {0} /\ Depth \in Nat /\ Depth >= 3 /\ Garbage \notin Nat
    /\ Updated \subseteq 1..Last

Nodes == 1..Last
New == Last + 1                 \* the right half of a split
Address == 0..New
Slots == 0..2
Contexts == {"rdma", "prdma"}

VARIABLES
    remote,     \* memory nodes: whose records each data node holds
    buf,        \* common_buffer
    sq,         \* work requests of each context that no polled completion retires
    executed,   \* how many of them the adapter has executed
    op,         \* what the thread is doing, and on which node
    at,
    pc,         \* idle, poll (in poll_one_completion) or use (of the buffer)
    stage,      \* fetch, pair (a scan has two nodes), one (the last one) or write
    polls,      \* contexts still to be polled
    start,      \* for the properties: the node a scan has started at
    scanned,    \* ... whose records the scan has returned
    ruined      \* ... nodes that update has written to

adapter == <<remote, buf, sq, executed>>
thread == <<op, at, pc, stage, polls>>
history == <<start, scanned, ruined>>
vars == <<adapter, thread, history>>

\* setup_rdma_per_thread has just returned; quick_put has written the nodes.
Init ==
    /\ remote = [n \in Address |-> n]
    /\ buf = [s \in Slots |-> Garbage]
    /\ sq = [c \in Contexts |-> <<>>]
    /\ executed = [c \in Contexts |-> 0]
    /\ op = "none" /\ at = 1 /\ pc = "idle" /\ stage = "fetch" /\ polls = <<>>
    /\ start = 1 /\ scanned = {} /\ ruined = {}

-----------------------------------------------------------------------------
(***************************************************************************)
(* RDMAContext.                                                            *)
(***************************************************************************)

\* post_send_helper always asks for a completion; the requests of a batch are
\* posted without, but for the last one.
Request(kind, n, s, signaled) == [kind |-> kind, node |-> n, slot |-> s, signaled |-> signaled]
Read(n, s) == Request("read", n, s, TRUE)
Write(n, s) == Request("write", n, s, TRUE)
Quietly(request) == [request EXCEPT !.signaled = FALSE]

\* ibv_post_send takes as many requests as the queue has room for; the result of
\* a post is not looked at.
Post(c, requests) ==
    LET queue == sq[c] \o requests IN
    sq' = [sq EXCEPT ![c] = SubSeq(queue, 1, IF Len(queue) < Depth THEN Len(queue) ELSE Depth)]

\* Mutant: a batch of reads asks for a completion of each.
BatchReadLoud(requests) == Post("rdma", requests)
BatchRead(requests) ==
    Post("rdma", [i \in DOMAIN requests |->
                     IF i = Len(requests) THEN requests[i] ELSE Quietly(requests[i])])
\* Mutant: no request of a batch of writes asks for a completion.
BatchWriteMute(requests) == Post("rdma", [i \in DOMAIN requests |-> Quietly(requests[i])])
BatchWrite(requests) ==
    Post("rdma", [i \in DOMAIN requests |->
                     IF i = Len(requests) THEN requests[i] ELSE Quietly(requests[i])])

\* The adapter executes the requests of a queue pair in order, those of the two
\* in any order: RDMA reads and writes of whole nodes.
Execute(c) ==
    /\ executed[c] < Len(sq[c])
    /\ LET r == sq[c][executed[c] + 1] IN
       IF r.kind = "read"
       THEN buf' = [buf EXCEPT ![r.slot] = remote[r.node]] /\ UNCHANGED remote
       ELSE remote' = [remote EXCEPT ![r.node] = buf[r.slot]] /\ UNCHANGED buf
    /\ executed' = [executed EXCEPT ![c] = @ + 1]
    /\ UNCHANGED <<sq, thread, history>>

\* The completions of c that are waiting, oldest first.
Completions(c) == {i \in 1..executed[c] : sq[c][i].signaled}

\* Mutant: the requests are retired, the count of executed ones is not.
PollMiscounts ==
    /\ pc = "poll" /\ Completions(Head(polls)) # {}
    /\ LET c == Head(polls)
           i == CHOOSE i \in Completions(c) : \A j \in Completions(c) : i <= j
       IN sq' = [sq EXCEPT ![c] = SubSeq(@, i + 1, Len(@))]
    /\ polls' = Tail(polls)
    /\ pc' = IF Len(polls) = 1 THEN "use" ELSE "poll"
    /\ UNCHANGED <<remote, buf, executed, op, at, stage, history>>

\* poll_one_completion spins until the context has a completion, takes the oldest
\* whatever its status, and so retires the requests posted before it.
Poll ==
    /\ pc = "poll" /\ Completions(Head(polls)) # {}
    /\ LET c == Head(polls)
           i == CHOOSE i \in Completions(c) : \A j \in Completions(c) : i <= j
       IN
          /\ sq' = [sq EXCEPT ![c] = SubSeq(@, i + 1, Len(@))]
          /\ executed' = [executed EXCEPT ![c] = @ - i]
    /\ polls' = Tail(polls)
    /\ pc' = IF Len(polls) = 1 THEN "use" ELSE "poll"
    /\ UNCHANGED <<remote, buf, op, at, stage, history>>

-----------------------------------------------------------------------------
(***************************************************************************)
(* What is posted.                                                         *)
(***************************************************************************)

\* fetch_as: the node goes to slot 0.
FetchAs(n) ==
    /\ Post("rdma", <<Read(n, 0)>>)
    /\ polls' = <<"rdma">>

\* write_back_current writes slot 1.
WriteBackCurrent(n) ==
    /\ Post("rdma", <<Write(n, 1)>>)
    /\ polls' = <<"rdma">>

\* Mutant: one poll for the two reads.
FetchTwoOnePoll(l, r) ==
    /\ Post("rdma", <<Read(r, 1), Read(l, 0)>>)
    /\ polls' = <<"rdma">>

\* fetch_two: the right node, then the left one.
FetchTwo(l, r) ==
    /\ Post("rdma", <<Read(r, 1), Read(l, 0)>>)
    /\ polls' = <<"rdma", "rdma">>

\* try_win_for_insert with a breakdown: each context reads one of them.
FetchParallel(l, r) ==
    /\ sq' = [c \in Contexts |-> sq[c] \o IF c = "rdma" THEN <<Read(r, 1)>> ELSE <<Read(l, 0)>>]
    /\ polls' = <<"rdma", "prdma">>

\* fetch_two_async gives l_sge to both requests: the right node overwrites the
\* left one, and slot 1 keeps what it has.
FetchTwoAsync(l, r) ==
    /\ BatchRead(<<Read(l, 0), Read(r, 0)>>)
    /\ polls' = <<"rdma">>

Call(o, n) == pc = "idle" /\ op' = o /\ at' = n /\ start' = n /\ scanned' = {} /\ pc' = "poll"
Return ==
    /\ pc' = "idle" /\ op' = "none" /\ at' = 1 /\ polls' = <<>> /\ stage' = "fetch"

-----------------------------------------------------------------------------
(***************************************************************************)
(* get and update.                                                         *)
(***************************************************************************)
CallGet(n) ==
    /\ Call("get", n) /\ FetchAs(n) /\ stage' = "fetch"
    /\ UNCHANGED <<remote, buf, executed, ruined>>

\* The crc does not match.
GetAgain ==
    /\ pc = "use" /\ op = "get"
    /\ FetchAs(at) /\ pc' = "poll"
    /\ UNCHANGED <<remote, buf, executed, op, at, stage, start, scanned, ruined>>

GetReturns ==
    /\ pc = "use" /\ op = "get" /\ Return
    /\ start' = 1
    /\ UNCHANGED <<adapter, scanned, ruined>>

CallUpdate(n) ==
    /\ Call("update", n) /\ FetchAs(n) /\ stage' = "fetch"
    /\ UNCHANGED <<remote, buf, executed, ruined>>

\* The record is updated in slot 0; slot 1 is written.
UpdateWrites ==
    /\ pc = "use" /\ op = "update" /\ stage = "fetch"
    /\ WriteBackCurrent(at) /\ pc' = "poll" /\ stage' = "write"
    /\ ruined' = ruined \cup {at}
    /\ UNCHANGED <<remote, buf, executed, op, at, start, scanned>>

-----------------------------------------------------------------------------
(***************************************************************************)
(* put, by the winner of a node and of its neighbour.                      *)
(***************************************************************************)
CallPut(n) ==
    /\ Call("put", n) /\ stage' = "fetch"
    /\ FetchTwo(n - 1, n) \/ FetchParallel(n - 1, n)
    /\ UNCHANGED <<remote, buf, executed, ruined>>

\* try_put_to_existing_node: no request is left.
PutInPlace ==
    /\ pc = "use" /\ op = "put" /\ stage = "fetch"
    /\ WriteBackCurrent(at) /\ pc' = "poll" /\ stage' = "write"
    /\ UNCHANGED <<remote, buf, executed, op, at, history>>

\* Mutant: the slots of the node and of its neighbour are swapped.
PutMorphedSwapped ==
    /\ pc = "use" /\ op = "put" /\ stage = "fetch"
    /\ BatchWrite(<<Write(at - 1, 1), Write(at, 0)>>)
    /\ polls' = <<"rdma">> /\ pc' = "poll" /\ stage' = "write"
    /\ UNCHANGED <<remote, buf, executed, op, at, history>>

\* write_back_morphed: the neighbour, and the node at its new address.
PutMorphed ==
    /\ pc = "use" /\ op = "put" /\ stage = "fetch"
    /\ BatchWrite(<<Write(at - 1, 0), Write(at, 1)>>)
    /\ polls' = <<"rdma">> /\ pc' = "poll" /\ stage' = "write"
    /\ UNCHANGED <<remote, buf, executed, op, at, history>>

\* out_of_place_split_node leaves the halves in slots 1 and 2.
PutSplit ==
    /\ pc = "use" /\ op = "put" /\ stage = "fetch"
    /\ buf' = [buf EXCEPT ![2] = New]
    /\ BatchWrite(<<Write(at - 1, 0), Write(at, 1), Write(New, 2)>>)
    /\ polls' = <<"rdma">> /\ pc' = "poll" /\ stage' = "write"
    /\ UNCHANGED <<remote, executed, op, at, history>>

\* update and put return, or the records were written and the locks are freed.
WriteReturns ==
    /\ pc = "use" /\ op \in {"put", "update"} /\ stage = "write" /\ Return
    /\ start' = 1
    /\ UNCHANGED <<adapter, scanned, ruined>>

-----------------------------------------------------------------------------
(***************************************************************************)
(* scan.                                                                   *)
(***************************************************************************)

\* The node and its successor, or the node alone when it is the last one.
CallScan(n) ==
    /\ Call("scan", n)
    /\ IF n < Last THEN FetchTwo(n, n + 1) /\ stage' = "pair"
                   ELSE FetchAs(n) /\ stage' = "one"
    /\ UNCHANGED <<remote, buf, executed, ruined>>

Pair == pc = "use" /\ op = "scan" /\ stage = "pair"

\* Both slots are copied to l[flip] and r[flip], and scanned in a later round.
ScanPair == scanned' = scanned \cup {buf[0], buf[1]}

\* The next two nodes are fetched while the last two are scanned.
ScanTwo ==
    /\ Pair /\ at + 3 <= Last
    /\ FetchTwoAsync(at + 2, at + 3) /\ pc' = "poll"
    /\ ScanPair /\ at' = at + 2
    /\ UNCHANGED <<remote, buf, executed, op, stage, start, ruined>>

\* One node is left.
ScanLast ==
    /\ Pair /\ at + 2 = Last
    /\ FetchAs(Last) /\ pc' = "poll" /\ stage' = "one"
    /\ ScanPair /\ at' = Last
    /\ UNCHANGED <<remote, buf, executed, op, start, ruined>>

\* No node is left: a completion is polled for that nobody has posted, in the
\* first round on a null context.
ScanStrands ==
    /\ Pair /\ at + 1 = Last
    /\ polls' = <<"rdma">> /\ pc' = "poll"
    /\ UNCHANGED <<adapter, op, at, stage, history>>

\* total has reached count; the last pair is not scanned.
ScanFull ==
    /\ Pair /\ at # start /\ Return
    /\ UNCHANGED <<adapter, start, scanned, ruined>>

ScanReturns ==
    /\ pc = "use" /\ op = "scan" /\ stage = "one" /\ Return
    /\ scanned' = scanned \cup {buf[0]}
    /\ UNCHANGED <<adapter, start, ruined>>

-----------------------------------------------------------------------------
Adapter == \E c \in Contexts : Execute(c)

Next ==
    \/ Adapter \/ Poll
    \/ \E n \in Nodes : CallGet(n) \/ CallPut(n) \/ CallScan(n)
    \/ \E n \in Updated : CallUpdate(n)
    \/ GetAgain \/ GetReturns \/ UpdateWrites
    \/ PutInPlace \/ PutMorphed \/ PutSplit \/ WriteReturns
    \/ ScanTwo \/ ScanLast \/ ScanStrands \/ ScanFull \/ ScanReturns

\* The adapter executes what it is given, and a thread that polls goes on polling.
Spec == Init /\ [][Next]_vars /\ WF_vars(Adapter) /\ WF_vars(Poll)

-----------------------------------------------------------------------------
(***************************************************************************)
(* Properties.                                                             *)
(***************************************************************************)
Content == Address \cup {Garbage}
WorkRequests == [kind : {"read", "write"}, node : Address, slot : Slots, signaled : BOOLEAN]

\* Every variable has its type: the adapter is never ahead of the queues, and a
\* thread that polls has a context to poll.
TypeOK ==
    /\ remote \in [Address -> Content] /\ buf \in [Slots -> Content]
    /\ \A c \in Contexts : /\ sq[c] \in Seq(WorkRequests) /\ Len(sq[c]) <= Depth
                           /\ executed[c] \in 0..Len(sq[c])
    /\ op \in {"none", "get", "put", "update", "scan"} /\ at \in Nodes
    /\ pc \in {"idle", "poll", "use"} /\ stage \in {"fetch", "pair", "one", "write"}
    /\ polls \in Seq(Contexts) /\ (pc = "poll" <=> polls # <<>>)
    /\ start \in Nodes /\ scanned \subseteq Content
    /\ ruined \subseteq Nodes

\* When an operation uses its buffer, or has returned, its queues hold nothing: no
\* completion is left for a later operation to take for its own, and no request of
\* an earlier operation fills the queue of Depth entries.
QueuesDrained == pc # "poll" => \A c \in Contexts : sq[c] = <<>>

\* No operation but update writes to a data node what it has not read from it:
\* every node that no update has written to holds its own records.
RemoteIntact == \A n \in Address \ ruined : remote[n] = n

\* As long as no node is overwritten by an update, every node whose records a scan
\* returns is one from its first on, and none that an earlier operation left in the
\* buffer.  Not which of these nodes, how often, or in which order: both reads of a
\* pair go to slot 0, slot 1 keeps an older node of the scan, and the right node of
\* a pair is scanned before the left one.
ScanForward == ruined = {} => \A n \in scanned : n \in start..Last

\* A wait for completions ends, but for the scan that polls at the end of the list.
Stranded == op = "scan" /\ pc = "poll" /\ sq["rdma"] = <<>>
PollsEnd == pc = "poll" ~> pc = "use" \/ Stranded

\* memory/compute_node/compute_node.hpp:322: write_back_current writes content that
\* is "already filled by fetch_two"; so a slot on its way to a data node holds what
\* was fetched from that node.
FilledByFetch ==
    \A c \in Contexts : \A i \in (executed[c] + 1)..Len(sq[c]) :
        LET r == sq[c][i] IN r.kind = "write" => buf[r.slot] = remote[r.node]
=============================================================================
