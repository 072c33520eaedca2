----------------------------- MODULE PageAllocator -----------------------------
(***************************************************************************)
(* Remote memory (memory/compute_node, memory/memory_node): a memory node  *)
(* grants segments from a bitmap; the compute node cuts its current        *)
(* segment into pages, gives each thread a group of pages, and each thread *)
(* carves its chunks, of one size class per page, from its own group.      *)
(*                                                                         *)
(* Pages are handed to threads under the allocator's mutex.  Fetching a    *)
(* segment and making it the current one (ComputeNode::allocate) holds no  *)
(* lock, so it interleaves with the page hand-out of another thread, and   *)
(* with another thread that fetches a segment: there is one RPC, one flag  *)
(* and one response buffer for each memory node.                           *)
(* Chunks are never reused: free only counts, and nothing calls it.        *)
(*                                                                         *)
(* Segments, pages and chunks have names; SegmentAt, PageAt and ChunkAt    *)
(* are the remote pointers the code makes for them.                        *)
(***************************************************************************)
EXTENDS RemotePointer, FiniteSets

CONSTANTS
    Threads,
    MemoryNodes,    \* memory nodes are 0..(MemoryNodes - 1)
    Memory,         \* address of the memory of each memory node
    Capacity,       \* mem_cap of each memory node
    ByteBits,       \* bits of a byte of the bitmap, 8
    PagesOf,        \* pages of a segment; the first one is not used
    GroupSize,      \* PAGEGROUP_NO
    Classes,        \* allocation classes
    Size,           \* allocation_class_size_map
    OffsetLimit,    \* PageDescriptor::offset is kept modulo this, 2^8
    MaxRequests,    \* bound: calls of allocate and preallocate
    Nobody          \* no thread, no class, no segment

ASSUME AllocatorAssumption ==
    /\ MemoryNodes \in 1..NodeSpan /\ PagesOf \in Nat \ {0} /\ GroupSize \in Nat \ {0}
    /\ Memory \in [0..(MemoryNodes - 1) -> 1..(AddressSpan - 1)]
    /\ \A n \in 0..(MemoryNodes - 1) : Memory[n] % PageSize = 0
    /\ Capacity \in [0..(MemoryNodes - 1) -> Nat] /\ ByteBits \in Nat \ {0}
    /\ Size \in [Classes -> 1..PageSize]
    /\ OffsetLimit \in Nat \ {0} /\ MaxRequests \in Nat
    /\ Nobody \notin Threads /\ Nobody \notin Classes

SegmentSize == PagesOf * PageSize

\* make_bitmap: one bit for each segment of the memory, in whole bytes and at
\* least one of them.
Bits(n) == ByteBits * (((Capacity[n] \div SegmentSize) \div ByteBits) + 1)

\* A segment is named by its node and its bit; Null is what a memory node
\* answers when its bitmap is full.
Null == <<MemoryNodes, 0>>
Segments == UNION {{n} \X (0..(Bits(n) - 1)) : n \in 0..(MemoryNodes - 1)}
Pages == (Segments \cup {Null}) \X (1..(PagesOf - 1))
Positions == 1..GroupSize
Slots(c) == PageSize \div Size[c]

ASSUME NobodyAssumption == Nobody \notin Segments \cup {Null}

\* MemoryNodeAllocator::allocate: the bitmap is in the page before the first
\* segment.
SegmentAt(s) == MakeRemotePointer(s[1], Memory[s[1]] + PageSize + s[2] * SegmentSize)

\* offer_page: page_base.
PageAt(p) == OffsetBy(SegmentAt(p[1]), p[2] * PageSize)

VARIABLES
    granted,        \* the bitmaps of the memory nodes
    turn,           \* RemoteMemoryManager::current
    wanted,         \* requests to each memory node that are not answered
    done,           \* RPCConnectionInfo::done of each memory node
    answer,         \* RPCConnectionInfo::resp_buf of each memory node
    tracked,        \* the keys of SegmentTracker::segments
    current,        \* SegmentTracker::current
    offset,         \* Segment::offset; available_pages is PagesOf - offset
    mutex,          \* ComputeNodeAllocator::mutex
    group,          \* thread_info: the PageMirrors of each thread, with the class
                    \* and the offset of their descriptors
    call,           \* each thread's allocate
    given,          \* chunks that allocate has returned
    again,          \* ... those returned more than once
    twice,          \* history, for the properties alone: segments that were
                    \* assigned more than once
    requests        \* calls so far

rpcVars == <<granted, turn, wanted, done, answer>>
segmentVars == <<tracked, current, offset, twice>>
chunkVars == <<given, again>>
vars == <<rpcVars, segmentVars, mutex, group, call, chunkVars, requests>>

Mirror(p, c) == [page |-> p, class |-> c, next |-> 0]
NoMirror == Mirror(<<Null, 0>>, Nobody)
NoCall == [pc |-> "idle", class |-> Nobody, init |-> Nobody, todo |-> {}, loaded |-> Null,
           node |-> 0, dropped |-> FALSE, retried |-> FALSE]
NodeIds == 0..(MemoryNodes - 1)

Init ==
    /\ granted = {}
    /\ turn = 0
    /\ wanted = [n \in NodeIds |-> 0]
    /\ done = [n \in NodeIds |-> FALSE]
    /\ answer = [n \in NodeIds |-> Null]
    /\ tracked = {}
    /\ current = Nobody
    /\ offset = [s \in Segments \cup {Null} |-> 1]
    /\ mutex = Nobody
    /\ group = [t \in Threads |-> [i \in Positions |-> NoMirror]]
    /\ call = [t \in Threads |-> NoCall]
    /\ given = {}
    /\ again = {}
    /\ twice = {}
    /\ requests = 0

Has(t) == \A i \in Positions : group[t][i] # NoMirror
\* PageMirror::available
Available(m) == m.next < Slots(m.class)
Usable(m, c) == m.class = Nobody \/ (m.class = c /\ Available(m))
Exhausted(t, c) == {i \in Positions : group[t][i].class = c /\ ~Available(group[t][i])}

\* PageGroup::available, and what ComputeNodeAllocator::allocate does next.
Status(t, c) ==
    IF ~Has(t) THEN "refill"
    ELSE IF \E i \in Positions : Usable(group[t][i], c) THEN "carve"
    ELSE IF Exhausted(t, c) # {} THEN "refillPage"
    ELSE "refill"

-----------------------------------------------------------------------------
\* ComputeNode::allocate
Allocate(t) ==
    /\ call[t].pc = "idle"
    /\ requests < MaxRequests
    /\ requests' = requests + 1
    /\ \E c \in Classes :
          call' = [call EXCEPT ![t].class = c, ![t].pc = Status(t, c)]
    /\ UNCHANGED <<rpcVars, segmentVars, mutex, group, chunkVars>>

\* ComputeNode::preallocate
Preallocate(t) ==
    /\ call[t].pc = "idle"
    /\ requests < MaxRequests
    /\ requests' = requests + 1
    /\ call' = [call EXCEPT ![t].pc = "offer"]
    /\ UNCHANGED <<rpcVars, segmentVars, mutex, group, chunkVars>>

(***************************************************************************)
(* refill and refill_single_page, under the mutex.                         *)
(***************************************************************************)
TrackerAvailable == current # Nobody /\ PagesOf - offset[current] >= GroupSize

\* A new group, or new pages in place of the exhausted ones of the class.
Refilling(t) ==
    LET q == call[t] IN
    IF q.pc = "refill" THEN [q EXCEPT !.pc = "read", !.todo = Positions, !.init = Nobody]
    ELSE [q EXCEPT !.pc = "read", !.todo = Exhausted(t, q.class), !.init = q.class]

\* Mutant: a segment with one page left is thought to hold a group.
RefillShort(t) ==
    /\ call[t].pc \in {"refill", "refillPage"}
    /\ mutex = Nobody
    /\ current # Nobody /\ offset[current] < PagesOf
    /\ mutex' = t
    /\ call' = [call EXCEPT ![t] = Refilling(t)]
    /\ UNCHANGED <<rpcVars, segmentVars, group, chunkVars, requests>>

\* Mutant: the mutex is not taken.
RefillUnlocked(t) ==
    /\ call[t].pc \in {"refill", "refillPage"}
    /\ TrackerAvailable
    /\ call' = [call EXCEPT ![t] = Refilling(t)]
    /\ UNCHANGED <<rpcVars, segmentVars, mutex, group, chunkVars, requests>>

Refill(t) ==
    /\ call[t].pc \in {"refill", "refillPage"}
    /\ mutex = Nobody
    /\ TrackerAvailable
    /\ mutex' = t
    /\ call' = [call EXCEPT ![t] = Refilling(t)]
    /\ UNCHANGED <<rpcVars, segmentVars, group, chunkVars, requests>>

\* The segment is used up: null, and after a second try null for the caller.
RefillFails(t) ==
    /\ call[t].pc \in {"refill", "refillPage"}
    /\ mutex = Nobody
    /\ ~TrackerAvailable
    /\ call' = [call EXCEPT ![t] = IF call[t].retried THEN NoCall ELSE [@ EXCEPT !.pc = "offer"]]
    /\ UNCHANGED <<rpcVars, segmentVars, mutex, group, chunkVars, requests>>

\* offer_page computes the page from the segment that is current now ...
PageRead(t) ==
    LET i == CHOOSE i \in call[t].todo : \A j \in call[t].todo : i <= j
    IN
    /\ call[t].pc = "read"
    /\ group' = [group EXCEPT ![t][i] = Mirror(<<current, offset[current]>>, call[t].init)]
    /\ call' = [call EXCEPT ![t].pc = "advance", ![t].todo = @ \ {i}, ![t].loaded = current]
    /\ UNCHANGED <<rpcVars, segmentVars, mutex, chunkVars, requests>>

\* ... and advances it: `current' is a plain field that another thread may have
\* replaced since, and whether it is loaded again is the compiler's choice.
PageAdvance(t) ==
    /\ call[t].pc = "advance"
    /\ \E s \in {current, call[t].loaded} : offset' = [offset EXCEPT ![s] = @ + 1]
    /\ IF call[t].todo = {}
       THEN mutex' = Nobody /\ call' = [call EXCEPT ![t].pc = "carve", ![t].loaded = Null]
       ELSE UNCHANGED mutex /\ call' = [call EXCEPT ![t].pc = "read", ![t].loaded = Null]
    /\ UNCHANGED <<rpcVars, tracked, current, twice, group, chunkVars, requests>>

Return(c) == given' = given \cup {c} /\ again' = again \cup ({c} \cap given)

\* The first page that is unused or has a slot of the class.
FirstUsable(t) ==
    LET c == call[t].class
    IN  CHOOSE i \in Positions : Usable(group[t][i], c)
            /\ \A j \in Positions : Usable(group[t][j], c) => i <= j

\* Mutant: the slot is not used up.
CarveStays(t) ==
    LET c == call[t].class  i == FirstUsable(t)  m == group[t][i] IN
    /\ call[t].pc = "carve"
    /\ group' = [group EXCEPT ![t][i].class = c]
    /\ Return([page |-> m.page, class |-> c, slot |-> m.next])
    /\ call' = [call EXCEPT ![t] = NoCall]
    /\ UNCHANGED <<rpcVars, segmentVars, mutex, requests>>

\* PageGroup::allocate and PageMirror::allocate.
Carve(t) ==
    LET c == call[t].class  i == FirstUsable(t)  m == group[t][i] IN
    /\ call[t].pc = "carve"
    /\ group' = [group EXCEPT ![t][i] = [m EXCEPT !.class = c, !.next = (@ + 1) % OffsetLimit]]
    /\ Return([page |-> m.page, class |-> c, slot |-> m.next])
    /\ call' = [call EXCEPT ![t] = NoCall]
    /\ UNCHANGED <<rpcVars, segmentVars, mutex, requests>>

(***************************************************************************)
(* offer_remote_segment, allocation_handler, apply_for_memory: no lock.    *)
(***************************************************************************)
NextTurn(n) == (n + 1) % MemoryNodes
Free(n) == {b \in 0..(Bits(n) - 1) : <<n, b>> \notin granted}
\* Bitmap::get_empty
Lowest(n) == <<n, CHOOSE b \in Free(n) : \A o \in Free(n) : b <= o>>

\* current++ on a plain field: the load, ...
Offer(t) ==
    /\ call[t].pc = "offer"
    /\ call' = [call EXCEPT ![t].pc = "ask", ![t].node = turn]
    /\ UNCHANGED <<rpcVars, segmentVars, mutex, group, chunkVars, requests>>

\* ... and the store, which may undo that of another thread.  The flag is reset
\* whoever else waits for it.
Ask(t) ==
    LET n == call[t].node IN
    /\ call[t].pc = "ask"
    /\ turn' = NextTurn(n)
    /\ done' = [done EXCEPT ![n] = FALSE]
    /\ wanted' = [wanted EXCEPT ![n] = @ + 1]
    /\ call' = [call EXCEPT ![t].pc = "wait"]
    /\ UNCHANGED <<granted, answer, segmentVars, mutex, group, chunkVars, requests>>

\* allocation_handler grants a segment, or null when the bitmap is full; a thread
\* that waits runs the event loop, which writes the response buffer and calls
\* memory_continuation, for whichever thread's request it is.
Answer(n) ==
    LET s == IF Free(n) = {} THEN Null ELSE Lowest(n) IN
    /\ wanted[n] > 0
    /\ \E t \in Threads : call[t].pc = "wait" /\ call[t].node = n
    /\ granted' = granted \cup ({s} \ {Null})
    /\ answer' = [answer EXCEPT ![n] = s]
    /\ done' = [done EXCEPT ![n] = TRUE]
    /\ wanted' = [wanted EXCEPT ![n] = @ - 1]
    /\ UNCHANGED <<turn, segmentVars, mutex, group, call, chunkVars, requests>>

\* What the response buffer holds, whoever was answered.  On null a nested call
\* asks the next memory node, and its result is dropped.
Take(t) ==
    LET s == answer[call[t].node] IN
    /\ call[t].pc = "wait"
    /\ done[call[t].node]
    /\ call' = [call EXCEPT ![t] =
           IF s = Null THEN [@ EXCEPT !.pc = "offer", !.dropped = TRUE]
           ELSE [@ EXCEPT !.pc = "assign", !.loaded = IF call[t].dropped THEN Null ELSE s]]
    /\ UNCHANGED <<rpcVars, segmentVars, mutex, group, chunkVars, requests>>

\* assign_new_seg makes it the current segment, whatever is left of the old one;
\* allocate tries once more.  When the map has the segment already, insert drops
\* the new Segment: `current' points to freed memory, which may still read as the
\* segment, or as nothing that was granted.
Assign(t) ==
    LET new == call[t].loaded IN
    /\ call[t].pc = "assign"
    /\ tracked' = tracked \cup {new}
    /\ twice' = twice \cup ({new} \cap tracked)
    /\ \E s \in {new} \cup (IF new \in tracked THEN {Null} ELSE {}) :
          current' = s /\ offset' = [offset EXCEPT ![s] = 1]
    /\ call' = [call EXCEPT ![t] =
           IF call[t].class = Nobody THEN NoCall
           ELSE [@ EXCEPT !.pc = Status(t, call[t].class), !.loaded = Null, !.node = 0,
                          !.dropped = FALSE, !.retried = TRUE]]
    /\ UNCHANGED <<rpcVars, mutex, group, chunkVars, requests>>

-----------------------------------------------------------------------------
Next ==
    \/ \E t \in Threads :
          \/ Allocate(t) \/ Preallocate(t)
          \/ Refill(t) \/ RefillFails(t) \/ PageRead(t) \/ PageAdvance(t) \/ Carve(t)
          \/ Offer(t) \/ Ask(t) \/ Take(t) \/ Assign(t)
    \/ \E n \in NodeIds : Answer(n)

Spec == Init /\ [][Next]_vars

-----------------------------------------------------------------------------
(***************************************************************************)
(* Properties.                                                             *)
(***************************************************************************)

Mirrors ==
    [page : Pages \cup {<<Null, 0>>}, class : Classes \cup {Nobody}, next : 0..(OffsetLimit - 1)]
Calls ==
    [pc : {"idle", "refill", "refillPage", "read", "advance", "carve", "offer", "ask", "wait",
           "assign"},
     class : Classes \cup {Nobody}, init : Classes \cup {Nobody}, todo : SUBSET Positions,
     loaded : Segments \cup {Null}, node : NodeIds, dropped : BOOLEAN, retried : BOOLEAN]
Chunks == [page : Pages, class : Classes, slot : 0..PageSize]

\* Every variable has its type; no page is cut off behind the end of a segment.
TypeOK ==
    /\ granted \subseteq Segments
    /\ turn \in NodeIds
    /\ wanted \in [NodeIds -> Nat] /\ done \in [NodeIds -> BOOLEAN]
    /\ answer \in [NodeIds -> Segments \cup {Null}]
    /\ tracked \subseteq Segments \cup {Null} /\ twice \subseteq tracked
    /\ current \in Segments \cup {Null, Nobody}
    /\ offset \in [Segments \cup {Null} -> 1..PagesOf]
    /\ mutex \in Threads \cup {Nobody}
    /\ group \in [Threads -> [Positions -> Mirrors]]
    /\ call \in [Threads -> Calls]
    /\ given \subseteq Chunks /\ again \subseteq given
    /\ requests \in 0..MaxRequests

\* Memory of which nothing is promised: what no memory node granted, and a segment
\* that two threads have both taken for theirs.
Unsafe == {Null} \cup twice

\* Whatever segment a thread finds current while pages are cut, no page of memory
\* that was granted belongs to two threads or twice to one, unless its segment was
\* assigned twice.
PagesPrivate ==
    \A t, u \in Threads, i, j \in Positions :
        group[t][i].page = group[u][j].page /\ group[t][i].page[1] \notin Unsafe => t = u /\ i = j

\* PageMirror::allocate: what the caller gets.
ChunkAt(c) == OffsetBy(PageAt(c.page), c.slot * Size[c.class])
End(c) == GetAs(ChunkAt(c)) + Size[c.class]

SegmentOf(c) == c.page[1]
NodeOf(c) == SegmentOf(c)[1]
Granted == {c \in given : SegmentOf(c) # Null}

\* ... so two data nodes never share a byte of such a segment.  Every pointer into
\* it that allocate returns has been returned once; it leads to the memory node
\* whose bitmap granted it, behind the page the bitmap is in; the page it is in is
\* one that free finds; and no other pointer leads to bytes in common with it,
\* not even one into a segment that was assigned twice.
PointersResolve ==
    \A c \in {c \in Granted : SegmentOf(c) \notin twice} :
        LET p == ChunkAt(c)  n == NodeOf(c) IN
        /\ c \notin again /\ SegmentOf(c) \in granted
        /\ GetNode(p) = n /\ ~IsNullptr(p)
        /\ GetAs(p) >= Memory[n] + PageSize
        /\ PageOf(p) = PageAt(c.page)
        /\ \A d \in Granted : c # d /\ NodeOf(d) = n =>
               End(c) <= GetAs(ChunkAt(d)) \/ End(d) <= GetAs(p)

\* What it takes: the 8 bits of an offset count every chunk of a page, and what the
\* bitmap of a node stands for has addresses.
OffsetCounts == \A c \in Classes : Slots(c) < OffsetLimit
SegmentsAddressed ==
    \A n \in 0..(MemoryNodes - 1) : Memory[n] + PageSize + Bits(n) * SegmentSize <= AddressSpan

\* node/compute_node/compute_node.hpp:71: memory is depleted when the memory nodes
\* have none left, so what allocate returns lies in the memory of a node.
WithinRegion == \A c \in Granted : End(c) <= Memory[NodeOf(c)] + Capacity[NodeOf(c)]

\* Comment of ComputeNode::allocate and of offer_remote_segment: as long as one
\* memory node has memory left, what allocate returns is memory of some node.
ChunkIsGranted == \A c \in given : SegmentOf(c) \in granted

\* README.md:55-57 preallocates memory because concurrent remote allocation makes
\* eRPC fail; were that all, each segment would still be assigned once.
SegmentsTakenOnce == twice \subseteq {Null}
=============================================================================
