# DiStore in TLA+

DiStore is a key-value store for disaggregated memory: a *compute node* runs the
operations of many threads, *memory nodes* hold the records and are reached by
one-sided RDMA. This directory holds TLA+ models of what the
threads, the nodes and the network adapter share, an abstract key-value map that
puts and gets are checked to implement, configurations that check all of them
with TLC, and proofs, checked by TLAPS, of their safety properties for every value
of the constants: that put and get implement the map, which thread writes a node,
what a search of the list finds, what the early stage and its flush keep, what fits
into a data node, which completion belongs to whom, what the two ends of a connection
know of each other, and who owns a page of remote memory.
Paths below are relative to `src/src/components/`.

## 1. The system

| Component | Where | State | Operations |
|---|---|---|---|
| Handover lock table | `handover_locktable/`, `node/compute_node/compute_node.{hpp,cpp}` | `SkipListNode::ctx`; per thread `ConcurrencyContext` (`type`, `max_depth`, `requests`); per request `is_done`, `succeed`, `retry` | `try_win_for_insert`, `try_win_for_update`, `failed_write`, `help_others`, `help_pred`, `drain_pending`, the leaves of `put10`..`put16` and `update` |
| Search layer | `search_layer/` | skip list of anchors: `forwards[]`, `backward`, `current_level` | `insert`, `fuzzy_search`, `calibrate`; `update`, `remove`, `search` (tests only) |
| Data layer | `data_layer/` | `LinkedNode<M,N>`: `next`, fingerprints, records, `crc`, `rlink` | `store`, `find`, `update`, `scan`; morph and split in the compute node |
| Early stage | `compute_node.cpp` | `local_nodes[2]`, `local_anchors[2]`, `remote_put`, `local_mutex` | `quick_put`, `quick_put_pick_node`, the local halves of `get` and `update` |
| Remote memory, compute side | `memory/compute_node/` | `SegmentTracker`, `Segment`, `PageGroup`, `PageDescriptor`, `thread_info`, `RemoteMemoryManager::current` | `allocate`, `refill`, `refill_single_page`, `offer_page`, `offer_remote_segment`, `free` |
| Remote memory, memory side | `memory/memory_node/`, `memory/memory.hpp`, `node/memory_node/` | bitmap of segments | `allocate`, `deallocate` (no client ever asks for it) |
| Scan | `compute_node.cpp` | RDMA buffers | `scan`, `fetch_two_async` |
| Remote pointers | `memory/remote_memory/` | 64 bits: node id and address | encoding, page arithmetic |
| Set-up | `node/`, `memory/compute_node/`, `erpc_wrapper/` | threads of a memory node, sessions, registered contexts | `launch_*_thread`, `connect_memory_nodes`, `register_thread` |
| Transport | `rdma_util/` | queue pairs, completion queues, the buffer of a thread | `post_read`, `post_write`, batches, `poll_one_completion`, `exchange_certificate` |
| Harness | `workload/`, `stats/`, `cmd_parser/`, `debug/`, `misc/`, `src/tests/` | none of the store | benchmark |

How they interact. Every operation starts with `remote_put`: while it is false
the early stage serves it under `local_mutex`; the flush writes both local nodes
to chunks of remote memory, inserts two anchors into the skip list and sets
`remote_put`. From then on `fuzzy_search` routes a key to a skip-list node, the
handover protocol decides which thread fetches, changes and writes the data
node, a morph or a split allocates new chunks, and `async_update` links the
right half into the bottom level; a background thread links it into the upper
levels later. The list has no lock: what protects it is that one thread at a
time holds the data node it splits.

What is hard. Threads compete by CAS for a node *and* its neighbour; losers take
a ticket, queue a request that points into their own stack, and spin; a request
can be late for the window it was admitted to; the skip list is changed under
its readers; `remote_put` and the current segment are read without the lock that
protects what they stand for; writes, flushes and grants can fail half-way.
`PROJECT.json` lists each of these under `hazards`, at its line.

What makes each part correct:

* handover: a lock has one owner and is released; two winners never touch a
  common node; every waiting thread's request is in exactly one queue and is
  answered; nobody spins in a circle; no ticket is given for a buffer that is
  being rewritten;
* search layer: every level is a sublist of the bottom, and sorted except where a
  split linked an anchor that belongs elsewhere; no node is ever unlinked; a search
  of a sorted list returns the node that holds the key; `backward` names an earlier
  node for ever;
* early stage: an acknowledged record is found before and after the flush; the
  first put of a key wins; an update is seen by the next get;
* operations: a put that returns true has stored its record, no record but a soft
  one is ever lost, and records are where a search for their key ends;
* remote memory: a page of a segment that one thread took for its own belongs to
  one thread, every pointer into it is given once and leads to bytes of its own on
  the node that granted them;
* transfers: no completion is left for the next operation, no node is written with
  the records of another, every poll ends;
* set-up: what one thread hands to the next is there when it does, and both ends of
  a connection become ready.

## 2. The modules

| Module | Models | One action is |
|---|---|---|
| `Handover` | the handover lock table | one access to `ctx`, `max_depth`, `requests` or `is_done`, with the thread-local work around it |
| `HandoverProofs` | theorems about `Handover` | |
| `SearchLayer` | the skip list, its splitters, the calibration, a search | one access to a pointer that another thread reads or writes |
| `SearchLayerProofs` | theorems about `SearchLayer` | |
| `LocalStage` | the early stage and the flush | one critical section, or one access outside of any |
| `LocalStageProofs` | theorems about `LocalStage` | |
| `DataNode` | the records of a data node: store, morph, split | one request stored, one ticket or arrival of a peer, or one step of the winner |
| `DataNodeProofs` | theorems about `DataNode` | |
| `KVStore` | what put and get promise: an abstract map with records that may still be forgotten | an invocation, the effect of a call, its return |
| `Store` | put and get on the flushed store: locks, list and records composed; implements `KVStore` | one critical step: a try for the two locks, a request served, a write back, a link |
| `StoreProofs` | theorems about `Store`: among them that it implements `KVStore` | |
| `Transfers` | what the operations of one thread post and poll, and the adapter | one call into the transport and the work up to the next, or one request executed |
| `TransfersProofs` | theorems about `Transfers` | |
| `RemotePointer` | the encoding of a remote pointer, as operators | |
| `PageAllocator` | segments, pages and chunks, and their addresses; the RPC that grants segments | one critical section; the two unlocked accesses to `current` in `offer_page`, and each access to what concurrent requests share, are steps of their own |
| `PageAllocatorProofs` | theorems about `RemotePointer` and `PageAllocator` | |
| `SetUp` | the launch of the memory nodes, the compute node's sessions, `register_thread` | one blocking call or hand-over |
| `SetUpProofs` | theorems about `SetUp` | |
| `MCHandover`, `MCLocalStage`, `MCPageAllocator` | the instances TLC checks | |

A loop of the code that runs within one step (a walk along a level, the search of
the holder) is a function of the number of its turns, run for as many turns as there
are nodes; nothing is declared `RECURSIVE`.

Operators whose comment begins with *Mutant* are faulty variants of an action;
they are no part of any specification, and `PROJECT.json` names the property each
of them breaks.

### Handover

A thread stands for its `ConcurrencyContext`, and a request is named by the
thread that waits for it. `pc` is the next shared access:

* `idle`, `drain`: `put`, `get`, `update` begin with `drain_pending`;
* `mark`, `casNode`, `casPred`, `shut`, `giveUp`, `open`, `fetch`: the two
  `try_win` functions. An insert sets `max_depth = -1`, takes the node and then
  `backward`, gives the node back if the neighbour is taken (`max_depth = 0`
  first), opens the window (`4`), reads both nodes, closes it (`-1`). An update
  takes the node alone;
* `help`, `count`, `morph`: the winner's work. `help` is the pop loop on the
  fetched buffer, `count` reads `unsafe_size`, `morph` is the pop loop on the
  morphed or split buffer. Whether a record fits is a nondeterministic choice, as
  is whether a key for the neighbour can be stored there;
* `leaveNode`, `leavePred`, `leaveDepth`: the three stores at the end;
* `checkType`, `spin`, `ticket`, `enqueue`, `wait`: a loser's `failed_write`.

`backward` is a constant of this module: `SearchLayer` checks that it never moves
once a node is published (`BackwardStable`). Keys, values and RDMA are left out.
`max_depth` keeps its window and `-1`; below `-1` one value, `Floor`, stands for
all, because `fetch_sub` from there never gives a ticket nor comes back to `-1`.

### SearchLayer

A list node is its anchor; `Nil` lies behind all of them, so `forwards < a` is the
code's `forwards && anchor < a`. `Load` is `quick_put` inserting with
`SkipList::insert` before `remote_put`. `SplitMake`, `SplitPublish` and
`SplitBackward` are the stores of `async_update`, behind any node and with any anchor:
`async_update` compares the new anchor with no neighbour, and the buffer it comes from
may hold keys of other nodes, those of puts that a split overtook and of late requests.
`stray` remembers the anchors that came to lie out of order; the properties that need
an order say how far it goes. `CalibratePop` walks and raises
`current_level`, `CalibrateLink` links one level at a time. A search hops one
pointer at a time and then reads `walker->forwards[0]` for the equality, for the
return of it, and for the range test, as three steps. `floor`, in a search's
record, is for the property only.

A node is its anchor, so an anchor that a node has is not given to a second one. In the
code a split can do that, and the composition `Store`, which names nodes otherwise, has
it (`astray`).

### LocalStage

`PickNode` gives the target, anchors and nodes `quick_put_pick_node` leaves;
`LocalStore`, `Flush`, `FlushFails` and `LocalLate` are the ways through
`quick_put`. `Call` is the test of `remote_put` outside of the lock, so what
follows can be late. `Store` keeps the first value of a key. `get` changes nothing
and is the operator `Lookup`. The remote store is a sequence of anchors with
their records and a remote put or update one step.

### DataNode

The work of a winner of `put10`..`put16` in capacities and counts: a node has a
type, which is the number of its slots, `next` records and `room`, the slots that
were written to remote memory. `Plan` is what the four functions decide from the
number of pending requests; `PutOwn`, `HelpOne`, `HelpFull`, `HelpDone` and `Count`
are `try_put_to_existing_node`, `MorphOwn` and the same help loop on the larger
buffer are the bodies of the morphs and splits, `Write` is the write-back.
After a split the module follows either half. `Ticket` and `Arrive` are the peers:
an arrival may come at any time after its ticket, also in a later window and
between the winner's `unsafe_size` and the use of the buffer that it chose by it.
`zero` counts records whose fingerprint is 0, which `morph_node` overlooks;
`MorphNode` allows for the old fingerprints behind `next`. Which records are there
matters only for whether a stored key was there before, a nondeterministic choice.
The lock is `Handover`'s, so there is one winner at a time; the read of
`data_node->type` in `put_dispatcher` is part of winning, a put that another one
overtakes in between is not modelled (see `hazards`).

### KVStore and Store

`Handover`, `SearchLayer` and `DataNode` each follow one mechanism closely and leave the
records out. `Store` composes them at a coarser grain and adds where the records are:
`recs` are the remote nodes, `real` and `pred` the winners' buffers of the node and of
its neighbour. A record is its key. A node is small or large; when it is full, or a
request is pending after the help loop, a small one is morphed (or split when many are
pending) and a large one split, however few records it has: `RightAnchor` is the largest
then, and the left half has what is below it, if anything. `Win`, `PredBusy` and `Lose`
are `try_win_for_insert` with its two CASes in one step, `Holder` is `fuzzy_search` in
one step, `Ticket`, `Submit` and `PutReturns` are `failed_write`, `Serve*` is
`help_others`, `Outgrow` is `unsafe_size` not being 0, `WriteInPlace`, `WriteMorphed`,
`WriteSplit` and `Link` are the write backs and `async_update`. `put_dispatcher`'s retry
on the node found first is `PutReturns` going back to `try` with `at` unchanged. A get
takes no lock: `CallGet` searches and `GetReads` reads whatever `data_node` points to by
then, if the crc of those records is the one that `get` computes for the node's type
(`fresh`); otherwise `GetRetries` searches again. The type of a split node is set after
the link, so between the write back and `Link` a get retries. `WriteMorphed` changes the
pointer and the type in one step; a get in between would retry, too.

`KVStore` is the specification it implements, with

    stored <- Stored    records in remote nodes and in winners' buffers
    soft   <- handed    keys a winner has stored for its neighbour, not yet written
    call   <- CallOf    the operation, its key, and whether its effect is known

A put takes effect when its record is in a winner's buffer, its own or another's;
only soft records may be forgotten, which `WriteInPlace` does when it writes the
node and not the neighbour (`compute_node.hpp:376`); a get may miss. So `Implements`
says that no put returns true without having been stored and that no other record
is lost by any interleaving of morphs, splits, retries and hand-overs. What it does
not promise is stated as an expectation of the tests and violated: `WrittenFound`.

### Transfers

One registered thread, its two contexts and its buffer of three slots, against the
adapter. `sq` is a send queue of depth `MAX_QP_DEPTH`, `executed` how far the
adapter is in it; requests of one queue are executed in order, those of the two
queues in any. `Post` drops what the queue has no room for, as nobody looks at the
result; `Poll` takes the oldest completion and retires what was posted before it.
Content is reduced to the name of the node whose records a slot or a data node
holds, so that a write of the wrong slot, or of one that is filled too late, shows.
`CallGet` .. `WriteReturns` are get, update and put by their calls to `fetch_as`,
`fetch_two`, `write_back_current`, `write_back_morphed`, `write_back_splitted`;
`CallScan` .. `ScanReturns` are `scan`. Threads share no context and no buffer, so
one is enough; what other threads write to remote nodes does not change whose
records they are.

### SetUp

A memory node goes from `down` to `up` as `main` launches its eRPC, TCP and RDMA
threads; `loop_thread` waits for the RPC (`rpc`), and the TCP thread takes its id by
value (`told`). The compute node dials, is greeted and opens a session with one
memory node after another. A thread that registers opens two connections to each;
a connection waits in the port's backlog until the RDMA thread accepts it, and each
end writes its certificate and reads the other's. The accepted socket does not block,
so the server's read can find nothing (`ServerReadsEarly`). The calls that may fail are
`DialFails` (nothing listens), `SessionFails`, and in a registration `OpenFails`,
`WriteFails` (the connection was refused) and `ReadyFails` (the queue pair does not
become ready), and at the server `AcceptEnds`.

### PageAllocator and RemotePointer

`Offer`, `Ask` and `Take` are `offer_remote_segment` up to the load of
`RemoteMemoryManager::current`, the request with `info->done = false`, and the end of the
wait with the read of the response buffer; `Answer` is the memory node's handler with
`memory_continuation`; `Assign` is `assign_new_seg`. None of them holds a lock: two
threads that ask the same memory node share its `done` and its response buffer, the
event loop that either runs may deliver the other's answer, and so both may take one
segment. Assigning a segment a second time starts it again at its first page, and,
because the map has it already, `current` points to a `Segment` that is freed: it may
read as the segment or as no granted memory. `twice` remembers such segments for the
properties. A thread that is told null asks the next memory node and drops the answer,
again and again when that one is full, as the nested calls do. `Refill` to
`PageAdvance` are `refill` and `refill_single_page` under it. `PageRead` and
`PageAdvance` split `offer_page` between computing the page and advancing the
segment, and the second may use either the pointer it loaded or a fresh load: a
plain field written by another thread is undefined behaviour, and both happen.
Segments and pages have names; `SegmentAt`, `PageAt` and `ChunkAt` are the pointers
the code computes for them with the operators of `RemotePointer`, whose field widths
are parameters. `Bits` is the number of bits of `make_bitmap`, in whole bytes.

## 3. The runs

| Run | Instance | Result |
|---|---|---|
| `Handover` | 3 threads, 2 neighbouring nodes, window of 1, all operations | safety holds, 3.0 million states |
| `HandoverLive` | 3 threads putting to 1 node | locks are released, requests answered |
| `SearchLayer` | 4 anchors, 2 levels, 2 splitters, 1 search of key 3 | holds, 274 thousand states |
| `SearchLayerNull` | same, a search of any key | **violated**: `fuzzy_search` returns null |
| `LocalStage` | 2 threads, 4 keys, 2 values, 2 slots per local node | holds, 1.3 million states |
| `DataNode` | 6 threads (5 peers), window of 4, the code's capacities, at most 1 fingerprint 0 | holds, 1.3 million states |
| `Store` | 2 threads that put, one of them gets; 4 keys, 3 nodes of 2 or 3 records | holds, refines `KVStore`, 1.1 million states |
| `StoreFound` | same | **violated**: a get that searched before a split was linked misses a record of the right half |
| `Transfers` | 6 data nodes, 2 of them updated, send queue of 8 | holds, 154 thousand states |
| `TransfersFilled` | 3 data nodes | **violated**: update writes a slot it has not fetched |
| `PageAllocator` | 2 threads, 2 memory nodes, 2 classes, groups of 2 pages, 4 requests | holds, 423 thousand states |
| `SetUp` | 2 memory nodes, 2 threads, backlog of 1 | holds, 300 thousand states |

Seven more configurations check statements of comments that the code does not keep.
They are run by hand and stop at a counterexample within seconds:

| Configuration (module) | Violated | Shows |
|---|---|---|
| `HandoverLeftBehind.cfg` (`MCHandover`) | `NoRequestLeftBehind` | a request stays in the queue of an idle thread |
| `HandoverExpected.cfg` (`MCHandover`) | `ServedOnExpectedNode` | a request is answered for another node |
| `LocalStageAnchors.cfg` (`MCLocalStage`) | `FlushKeepsRecords` | equal anchors lose records at the flush |
| `DataNodeSpace.cfg` (`DataNode`) | `SpaceGuaranteed` | with 7 threads a request meets a full buffer in `put10` |
| `PageAllocatorDepleted.cfg` (`MCPageAllocator`) | `ChunkIsGranted` | chunks of the null pointer while a node has memory |
| `PageAllocatorRegion.cfg` (`MCPageAllocator`) | `WithinRegion` | chunks behind the registered memory of a node |
| `PageAllocatorShared.cfg` (`MCPageAllocator`) | `SegmentsTakenOnce` | two threads take one segment out of the response buffer they share |

Each violation is described under `findings` in `PROJECT.json` with the comment or
test it contradicts; the other findings were met while modelling and have no
configuration.

Why the bounds are enough. *Handover*: three threads are a winner, a loser on its node
and a winner of the neighbour, which is what a lost lock or a circle needs; two nodes
give a node that is both a target and a neighbour, plus the head. A window of 1 lets
tickets run out and be refused; any number of operations may follow, so stale tickets
meet every later operation. The proofs below remove these bounds. *SearchLayer*: with
four anchors a split can fall before, behind and between a search and a second split, in
order or not; the search is of key 3, which has anchors below, at and above it; two
levels are the bottom, which splits link, and one upper level, which the calibration
links. The list is finite because it only grows. *LocalStage*: two slots per node make a
flush after three to five puts, four keys can be below, on, between and above both
anchors. *DataNode*: the capacities and the window are the code's own, not scaled down,
and there is no bound on the number of puts. Six threads are the winner, four tickets of
its window and one late request of an earlier one: 10 records, the own one and five
requests fill the 16 slots, and one thread more breaks `SpaceGuaranteed`. `HalvesFit`
holds for six threads; with seven, a node that counts a record too many because of a
fingerprint 0 gives the right half of `put12` eleven records for its ten slots, and with
eight any node can. *PageAllocator*: a segment of 4 usable pages holds two groups of 2,
so that a segment is used up, one page of a group is replaced while the other has room,
and another request forces a second segment, within four requests. Two of them are
enough for two threads to share an answer, and a third and a fourth cut pages of what
was assigned. One memory node has one segment and is full before the other, which has
one for each request; a byte of the bitmap has one bit. The words are scaled down (2
node ids, 256 addresses, pages of 4 bytes); the proofs about `RemotePointer` are for
every width. *Store*: two threads are a winner and a loser that hands over, or a writer
and a reader; two flushed nodes give a node whose neighbour is a real one and one whose
neighbour is the head; a third node is one split, after which a late put and a late get
meet the left half. Nodes of two and three records are full after one put and morphed or
split by the next. A third thread, which could win the neighbour during a hand-over, is
`Handover`'s. *Transfers*: six nodes give a scan that starts at every distance from the
end of the list, with no pair, one pair or two pairs fetched asynchronously, so each of
its ends is reached; a queue of 8 holds the largest batch (3 requests) more than twice,
and no operation lets it fill up; the proofs need room for one batch (`Depth >= 3`; the
code's `MAX_QP_DEPTH` is 8). *SetUp*: two memory nodes and two threads make each port
serve two clients at different turns, and a backlog of 1 lets a client wait for room.

`CHECK_DEADLOCK FALSE` is set where the system may stop: `PageAllocator` at the
request bound; `Store` when a split needs a node beyond the bound and its winner
waits, with everyone behind it; `Transfers` in the poll at the end of a scan that
nobody answers; `SetUp` when all threads have returned. All others have no deadlock.

Exceptions in properties. `AckedPutReadable` and `FirstPutWins` leave out equal anchors,
which is the finding of `LocalStageAnchors`. `UpdateVisible` leaves out three cases the
code gets wrong, named in its comment: no second anchor yet and the second anchor
itself, where `update` (`compute_node.cpp:155`) compares with `>` and `get` (106) with
`>=`, and an update that waited for `local_mutex` while the nodes were flushed (153 does
not read `remote_put` again). `HalvesFit` leaves out `put14`, whose right half is typed
12 and written as 10 (a finding), and a `put16` that a request joined after it had
counted: 16 records, two counted and two late requests exceed the two `LinkedNode10` it
chose. It does not promise a left half with a record: a request that arrives between the
end of the help loop and `unsafe_size` makes `put16` split a node of one record.
`MorphReadable` leaves out a fingerprint of 0. `OwnStored` is checked with at most one
such record. `LevelsSorted` leaves out the links of the bottom level from and to an
anchor that a split linked where it does not belong (`stray`), `BackwardBehind` the
neighbour of such a node, and `SearchFindsHolder` lists with one: a search walks such a
list in its order of links and may end anywhere. How a key of another node gets into a
buffer is what `Handover` (`ServedOnExpectedNode`) and `Store` (`astray`) show.
`RecordsPlaced` holds until a put that a split overtook stores its record in the node it
found first, or a node is split whose only record is that of its own anchor: the right
half gets the same anchor, the left half, where searches for it may end, is empty
(`astray`). `RemoteIntact` and `ScanForward` leave out nodes that update has written
(`ruined`), the finding of `TransfersFilled`; `PollsEnd` leaves out the poll at the end
of the list (`Stranded`). `RegistrationEnds` leaves out a memory node whose RDMA thread
has ended, `BothEndsReady` a server that read before its client wrote (`early`).
`PagesPrivate` and `PointersResolve` are about memory that was granted and assigned
once: pages of the null pointer are the finding of `PageAllocatorDepleted.cfg`, segments
that two threads took from one answer that of `PageAllocatorShared.cfg` (`Unsafe`). No
pointer of a safe segment has bytes in common with one of a segment that was assigned
twice.

Fairness. `HandoverLive` uses `BusySpec`: each thread is scheduled again (weak
fairness of its next step) and the application keeps issuing operations, because
a request left in a queue is answered only by a later `drain_pending` of the same
context. A thread that spins on `max_depth` needs strong fairness of its exit: the
value alternates between `-1` and the window as the winner repeats operations,
and a spinning core samples it often enough to see a window; weak fairness alone
would let it miss every one. `SearchLayer` assumes weak fairness of the splitters
and of the background thread, an endless loop, for `Calibrated`; the searches
need none. `Transfers` assumes that the adapter executes what is queued, which is
what a reliable connection is for, and that a polling thread goes on polling; the
application may stop calling. `SetUp` assumes that each memory node, the compute node
and each thread that has called `register_thread` is scheduled: they are loops and
blocking calls of threads of their own. None of them is assumed to succeed: the calls
named in section 2 may fail each time they are made.

## 4. What is proved

Every theorem is for all values of the constants that its module's named assumptions
admit. In each module an inductive invariant (`TypeInv` with one more part in
`HandoverProofs`, `IInv` elsewhere) holds initially, is kept by every action, and
implies the property; TLC has checked each of these invariants on a small instance
before it was proved. The parts of an invariant are named and commented at the
head of the module.

| Module | Theorem | Property |
|---|---|---|
| `HandoverProofs` | `TypeCorrect` | `TypeOK` |
| | `LockCorrect`, `OwnerKnown` | `LockOwner`, `MutualExclusion` |
| | `RequestsCorrect`, `RequestsKept` | `RequestsAlive`, `NoRequestLost` |
| | `NoDeadlock` | `NoCircularWait` |
| | `ClosedCorrect` | `ClosedWhileServing` |
| `SearchLayerProofs` | `TypeCorrect` | `TypeOK` |
| | `Ordered` | `LevelsSorted` |
| | `Behind`, `NeighbourStays` | `BackwardBehind`, `BackwardStable` |
| | `SearchCorrect` | `SearchFindsHolder` |
| | `NothingLost` | `NothingUnlinked` |
| | `NoneForgotten` | `NothingForgotten`, what `Calibrated` rests on |
| `LocalStageProofs` | `TypeCorrect` | `TypeOK` |
| | `OrderKept` | `NodesOrdered` |
| | `Readable` | `AckedPutReadable` |
| | `PutsKept`, `UpdatesSeen` | `FirstPutWins`, `UpdateVisible` |
| `DataNodeProofs` | `TypeCorrect` | `TypeOK` |
| | `StaysReadable` | `MorphReadable` |
| | `OwnAlwaysStored` | `OwnStored`, given `MaxZero <= 1` |
| | `HalvesAlwaysFit` | `HalvesFit`, given `MaxZero <= 1` and `Losers <= 5` |
| | `HalvesFitForSeven` | `HalvesFit`, given `MaxZero = 0`, `Losers <= 6` and `Window <= 5` |
| | `SpaceForSix` | `SpaceGuaranteed`, given `Losers <= 5` |
| `StoreProofs` | `TypeCorrect` | `TypeOK` |
| | `Implementation` | `Implements`, that is `Spec => KV!Spec` |
| | `Placement` | `RecordsPlaced` |
| `TransfersProofs` | `TypeCorrect` | `TypeOK` |
| | `Drained` | `QueuesDrained` |
| | `OthersIntact` | `RemoteIntact` |
| | `ScanGoesForward` | `ScanForward` |
| | `NoIdlePoll` | `PollsAnswered`, what `PollsEnd` rests on |
| `SetUpProofs` | `SetUpTypes` | `TypeOK` |
| | `InfoIsDelivered` | `InfoDelivered` |
| | `ReadyWithCertificate` | `CertificatesExchanged` |
| | `RegisteredIsReady` | `ContextsReady`, what `BothEndsReady` rests on |
| | `RegistrationNotStuck` | `NobodyStuck`, what `RegistrationEnds` rests on |
| `PageAllocatorProofs` | `TypeCorrect` | `TypeOK` |
| | `PagesStayPrivate` | `PagesPrivate` |
| | `PointersAlwaysResolve` | `PointersResolve`, given `OffsetCounts` and `SegmentsAddressed` |
| | `PointerRoundTrip`, `OffsetMovesAddress`, `PageOfAddress` | about operators of `RemotePointer` |

### Handover

For every set of threads, every list of nodes (`Backward[n] # n` is all that is assumed
of `backward`, plus that a target is never the head) and every `MaxDepth > 0`.
`TypeOK` alone is not inductive: that a winner in `casPred` runs an
insert, or that a loser's `owner` is a thread, follows from its program counter.
`TypeInv` adds that as `ControlOK`. `LockOwner` (`ctx[n] = t` exactly if `t`'s
program counter holds `n`) is inductive with it, and mutual exclusion follows
since `ctx` has one value. For the requests, the queues and the waiting threads
are one invariant, `QueueInv`: each action appends an unqueued thread, rotates a
queue, or removes a head that it answers, and there is a lemma for each of these
three. `NoCircularWait` looks at the edges `t -> owner[t]` of spinning threads:
every step keeps the old edges or drops some (`EdgesKept`), except
`CasNodeLose`, which adds one edge to a thread that `LockOwner` shows to hold the
node and hence not to spin (`NewEdge`); an edge to a thread without an edge closes
no circle. `ClosedWhileServing` needs only that others decrement and that the
owner alone raises its depth.

### SearchLayer

For every number of anchors and levels and every set of splitters and searches. A level
is `Linked(link)`, what a walk from the head comes to. Two lemmas replace induction
along the list: `LinkedClosed` (the walk ends within as many turns as there are nodes,
because each turn adds a node or is the last) and
`LinkedLeast` (it is the least set closed under the pointers); `LinkAfter` then says
that a store of a new node behind one of the level adds that node and nothing else. None
of the three needs an order: the bottom level has none that a split would keep. A link of
it that leads to no greater anchor has a stray at one of its ends (`Excused`), whatever
the splits before it did; the calibration sorts in a stray where it belongs, so the upper
levels are in order.
`Splits` is why the unlocked stores of `async_update` are safe: until the new node is
published, its successor is still the successor of the node being split, because no
other thread splits that node (what `Handover` grants), and the new node is on no level
above. `QueueOK` and `CalibrationOK` say the same of a node that waits for its upper
levels and of the one being linked: it is on the levels below `level` and on no other.
So in every step each level either stays or gets one node (`Grows`), from which
`NothingUnlinked` follows. `Searches` is the loop invariant of `fuzzy_search` under this
growth: the walker is on its level and before the member (`Walks`), and, in a list without
strays, once it has reached the bottom the node that held the member when the search began
is not behind it (`Arrives`).

That every node gets to all of its levels is a matter of fairness, but that somebody is
about to take it there is not: `InHand(a, i)` says that a node is with the thread that
splits it off, in the queue, or with the background thread below level `i`.
`NothingForgotten` has it of every node that misses a level. A hand-over is the place to
lose one: the splitting thread must queue every node of more than one level when it is
done, `CalibratePop` must start at the first level the node is not on, and the background
thread may drop it only when it has linked the last. There is one lemma per action
(`*Forgets`).

### LocalStage

For every number of threads, keys (`MaxKey >= 1`), values and slots. A put in the local
stage picks a node by what is in the nodes (`quick_put_pick_node`), a get by the anchors
alone. `Picked` and `StoredFits` show that after every choice, also one that swaps or
moves the nodes, the record is where `Found` looks, and that the records which were found
before still are. The flush turns two nodes into a list of two (`InsertFirst`,
`InsertSecond`); `RouteTwo` shows that a walk over that list is the comparison with the
second anchor which the local get made, if the anchors differ. From then on the list's
anchors never change, so the route of a key is fixed and only its own put or update
touches its record (`RouteKeeps`, `SameBut`). The proof showed that a local node never
exceeds `Capacity`, which `TypeOK` now states.

### DataNode

For every number of peers, every window and every number of fingerprints that are 0.
`RecordsOK` counts: what is in the buffer, owed, under way and pending is at most what
was in the node, the own record and one per peer, since a peer has one request. `PhaseOK`
ties the plan to the number that was counted, `CountedOK` the buffer to it unless a
request was late. The two premises are where the code has its limits, and TLC shows that
they are needed. With two fingerprints 0 a node can count so many records too many that
the next put has no slot (`OwnStored` fails for `Losers = 5`, `MaxZero = 2`), while one
leaves at most one record too many, or two after a split (`SizesOK`). With six peers and
one fingerprint 0 the right half of `put12` overflows; up to five peers it does not,
whatever the window.

With seven threads and no fingerprint 0 a node may be overfull, and yet the halves fit
(`HalvesFitForSeven`), by an argument that needs the window. Only the right half of `put14`
counts more records than it has slots, 13 of 12, and it does so only if all the peers
handed a record over. They have no request left then, neither pending nor late, and the
next window brings the only ones: `CrowdOK` bounds what the node has and may still get,
with the window in the bound, and `DueFalls` shows that a winner's work never raises it.
Both premises are sharp: TLC finds `HalvesFit` violated with a window of six, and with one
thread more. `SpaceForSix` is the comment of `put10`, "space is guaranteed to be
sufficient", for up to six threads: ten records, the own one and five requests are the 16
slots, and `RecordsOK` counts no more, late requests included.

### Store

For every number of threads, keys and nodes, every size of a node and every
`Flushed`, that is every store a flush can leave. `Linked` says what a search can end at:
a node that exists and is not a right half waiting for its link. Threads, pointers and
neighbours only know linked nodes (`ListOK`), a winner holds its two nodes alone
(`LocksOK`), so two winners' nodes are four different ones (`Alone`), a request belongs to
one waiting put and one winner (`RequestsOK`), and a buffer contains at least what its
remote node does (`BuffersOK`). `Implementation` follows the mapping of the module:
`FirmKept` shows that no step takes a record out of the remote nodes and the winners' own
buffers, so `stored` loses only records that are in `handed`, and each action is then an
invocation, an effect, a return or a stutter of `KVStore`. `Placement` needs the keys as
well: `Covers(n, k)` is the range of a node by its anchor and its successor's,
`SortedOK` the order of the list, `CoveredOK` that records, buffers and halves keep to
their ranges; `HolderCovers` shows that the search ends at the node whose range the key is
in. A put that a split overtakes breaks exactly `CoveredOK`, and the split of a node of one
record `SortedOK`; `Placement` speaks of the time before either, and
`Implementation` of all times: that a search ends at a linked node (`HolderLinked`) needs
no order of the list.

### Transfers

For every length of the list and every queue with room for the largest batch.
`Awaited` is the set of requests the adapter has yet to execute; a call adds some
(`OneAsked`, `TwoAsked`, `BatchAsked`), an execution takes one away, and a poll retires
only executed ones (`Retired`), because of each queue only the last request asks for a
completion (`Single`) or the queue is polled as often as it has requests (`PolledOK`).
`StagesOK` says that an operation awaits reads first and then writes, each of a slot that
holds the records of the node it goes to. `PolledOK` also says that only a scan polls a
queue in which nothing is left, so a poll of any other operation has its completion or a
request to wait for (`NoIdlePoll`). `Fetching` is what a slot will hold when the
awaited reads are done, whichever comes last. `ScanForward` says what the two reads into one
slot cannot do: show a scan a node before its first. It says nothing of order or
completeness, and neither holds: a pair's right node is scanned before its left one, and
the slot that is not read into keeps an older node of the scan.

### SetUp

For every number of memory nodes, every set of threads and every backlog; the
assumption is that there is a memory node, that the backlog has room for one connection
and that `NoConnection` is none. The invariant follows a connection from end to end.
`TurnsOK` is the client's side: a thread has made the contexts before its turn and none
after it. `BacklogOK` and `ServingOK` are the port's: a connection waits at its own port,
at one place, and is not served at the same time; its certificate is written exactly when
it is given up. `PlacedOK` joins the two: a connection that the client has opened waits,
is served, or has the server's certificate, unless the RDMA thread has ended.
`AnsweredOK` says what became of the server's end, and `CertificatesExchanged` that
neither end was made ready on its own. `InfoDelivered` needs only `BootOK` and
`DialledOK`: the RPC is there before the TCP thread runs, which is `loop_thread`'s wait.

The two properties that need fairness rest on invariants that do not. `ContextsReady`: a
registered thread has every context ready, and the other end is ready, about to be, or has
read too early. `NobodyStuck`: while a thread registers, it has a step to take
(`CanGoOn`), or the RDMA thread of the memory node it is at has one (`CanServe`), or that
thread has ended; so a full backlog or a certificate that has not come is never waited for
in a circle. Both operators are spelled out from the guards, as `ENABLED` is beyond the
prover; TLC has compared them with `ENABLED` of the actions, for one memory node with two
threads and for two with one.

### RemotePointer and PageAllocator

For words of every width (`PointerAssumption`: the first two bytes hold two bits and the
node id, and an address is a whole number of pages) a node id and an address come out of
a remote pointer as they went in (`PointerRoundTrip`), adding to the word adds to the
address (`OffsetMovesAddress`) and clearing its low bits leads to the page
(`PageOfAddress`). For every number of threads, memory nodes, segments, pages and chunk
classes, and without a bound on the requests other than the constant `MaxRequests`, the
allocator is proved from `AllocatorAssumption` and `NobodyAssumption`, which the code's
constants satisfy. The two premises of `PointersAlwaysResolve` leave out `Chunk16`, of
which a page has 256 while its offset has 8 bits (no data node is that small), and memory
behind the addresses a remote pointer holds; TLC evaluates them on the instance
(`MCPremises`).

That an offset stays within its segment depends on how much the thread
with the mutex has left to cut, of the segment it read and of the one that is current
now: `CutOK` counts both, and a segment that becomes current starts with a whole group
left. For `PagesPrivate`, a page is `Cut` if it is before the offset of its segment or
the very one being cut; pages in groups are cut, a cut page stays cut (`CutStays`), and
the page `PageRead` hands out is not (`CutIsNew`). The step that could break this is
`Assign`, which sets an offset back to the first page. It does not for a segment that is
not tracked yet, since pages are cut from tracked segments only (`SegmentsInv`, `Cut`);
one that is tracked is assigned twice and unsafe from then on (`TwiceStays`). That a
thread may take the segment of another's answer needs no argument of its own: what is in
the response buffer was granted, whoever asked. For chunks, all that were carved
from a page that is in a group lie before the page's offset (`ChunkOK`), so that the
next one is new, and two of the same page have the same class; the rest is arithmetic:
chunks lie in pages, pages in segments, segments behind the page of the bitmap, and
what differs in its name lies apart (`EndsBefore`).

### Only model-checked

Every invariant and every action property of the passing runs is stated by a theorem, and
so is the refinement; `OwnStored` and `HalvesFit` under the premises of the table, which
the runs share. What stays with TLC is liveness, because what needs fairness and `ENABLED`
is beyond the prover. For each such property a theorem has the part that does not:

| Property | What is proved of it |
|---|---|
| `LockReleased` | `NoCircularWait`: no threads spin on one another in a circle |
| `RequestAnswered` | `NoRequestLost`, `RequestsAlive`: the request is in the queue of the thread waited for |
| `Calibrated` | `NothingForgotten`: somebody has the node that misses a level |
| `PollsEnd` | `PollsAnswered`: a completion is there or a request that gives one |
| `RegistrationEnds` | `NobodyStuck`: somebody has a step to take |
| `BothEndsReady` | `ContextsReady`: the other end is ready or being made so |

What a bound costs (`SpaceGuaranteed` with seven threads, `HalvesFit` with eight or a
wider window, `OwnStored` with two fingerprints 0) and all other counterexamples are TLC's.

## 5. What is not modelled

*Failures.* Completions with an error and writes that fail, except in the flush
(`LocalStage`): the code takes any completion for success and drops the result of a
post, so there is no handling to model. The crash of a node: nothing survives it and
nothing is recovered. A registration tried again after it failed, and operations that
run while a thread registers. A socket that breaks in the middle of an exchange, and a
queue pair of the server that does not become ready. `recv_all` at the end of a closed
connection, where it loops.

*Operations.* `update` in `Store` (it is in `Handover`, `LocalStage` and `Transfers`).
The put functions on a node whose type has changed since `put_dispatcher` read it, and
several memory nodes in one put. The upper levels of the list in `Store`, which
`SearchLayer` has. Records within the nodes a scan reads, and splits under a scan.
`thread_info` searched while another thread inserts, a data race on a library container.
What eRPC itself does when two threads run one event loop and reuse one request buffer
(the repository's `README.md:55-57` says that it can fail): requests and answers are counted and
delivered, in any order. Two skip-list nodes with one anchor in `SearchLayer`.

*Never called.* `free`, `deallocate` and recycling of memory; `SkipList::update`,
`search` and `remove`, which only tests call; `page_id`; `PolymorphicPointer`;
receive queues and atomics of the transport. `remove` of the store has an empty body.

*Not of the store.* The harness, configuration files, opening of devices, vendored
CityHash, statistics.

## 6. Plan

In this order:

1. `Store` with updates and with write backs that fail, and with a third thread; then
   its refinement again.
2. Puts that were dispatched on an older type of the node, in `DataNode`.
3. Splits under a scan, in `Transfers`; the skip-list operations that only tests call.
