----------------------------- MODULE SearchLayer -----------------------------
(***************************************************************************)
(* The search layer of a compute node: the skip list of anchors            *)
(* (search_layer/search_layer.{hpp,cpp}), as the compute node uses it      *)
(* (node/compute_node/compute_node.cpp).                                   *)
(*                                                                         *)
(* While the store is local one thread inserts into the list under the     *)
(* local mutex.  Afterwards nobody locks it: a thread that splits a data   *)
(* node links the new anchor into the bottom level with plain stores       *)
(* (async_update), one background thread links it into the upper levels    *)
(* (calibrate), and every operation walks the list meanwhile               *)
(* (fuzzy_search).                                                         *)
(*                                                                         *)
(* A list node is named by its anchor, so an anchor that a node has is not *)
(* given to a second one.  The handover lock (module Handover) lets one    *)
(* thread at a time split a given node.  One action is one access to a     *)
(* pointer another thread may read or write.                               *)
(***************************************************************************)
EXTENDS Naturals, Sequences

CONSTANTS
    MaxAnchor,      \* anchors and keys are 1..MaxAnchor, ordered as strings are
    MaxLevel,       \* MAX_LEVEL
    Splitters,      \* threads that put
    Readers,        \* threads that search
    Members         \* the keys they search for

Anchors == 1..MaxAnchor

ASSUME BoundsAssumption ==
    MaxAnchor \in Nat /\ MaxLevel \in Nat \ {0} /\ Members \subseteq Anchors

Sentinel == 0               \* SkipList::head, whose anchor is empty
Nil == MaxAnchor + 1        \* the null pointer, behind every anchor
Nodes == {Sentinel} \cup Anchors
Levels == 0..(MaxLevel - 1)

VARIABLES
    forwards,       \* SkipListNode::forwards, by level
    backward,       \* SkipListNode::backward
    height,         \* the level drawn for a node, 0 while it does not exist
    currentLevel,   \* SkipList::current_level
    remotePut,      \* ComputeNode::remote_put: the list is shared
    updateQueue,    \* ComputeNode::update_queue, of CalibrateContexts
    split,          \* async_update of each splitter
    calibration,    \* calibrate of the background thread
    search,         \* fuzzy_search of each reader
    stray           \* history, for the properties alone: the anchors that a split
                    \* has put where they are out of order

vars == <<forwards, backward, height, currentLevel, remotePut, updateQueue,
          split, calibration, search, stray>>
listVars == <<forwards, backward, height, currentLevel>>

NoSplit == [pc |-> "idle", node |-> Nil, new |-> Nil]
NoCalibration == [node |-> Nil, level |-> 0]

\* floor records, for the properties alone, the node that held the member when
\* the search began, in a list without strays.
NoSearch == [pc |-> "idle", member |-> Nil, walker |-> Sentinel, level |-> 0,
             floor |-> Nil, result |-> Nil]

Init ==
    /\ forwards = [i \in Levels |-> [n \in Nodes |-> Nil]]
    /\ backward = [a \in Anchors |-> Nil]
    /\ height = [a \in Anchors |-> 0]
    /\ currentLevel = 1
    /\ remotePut = FALSE
    /\ updateQueue = <<>>
    /\ split = [s \in Splitters |-> NoSplit]
    /\ calibration = NoCalibration
    /\ search = [r \in Readers |-> NoSearch]
    /\ stray = {}

\* Where the walk along level i that starts at node n ends: at the last node
\* before anchor a.  walk[j] is where the walker is after j turns of the loop.
Walk(i, n, a) ==
    LET walk[j \in 0..MaxAnchor] ==
            IF j = 0 THEN n
            ELSE LET w == walk[j - 1] IN
                 IF forwards[i][w] < a THEN forwards[i][w] ELSE w
    IN  walk[MaxAnchor]

\* update[]: the nodes after which a is linked, found from the top level down.
Preds(a) ==
    LET pred[i \in Levels] ==
            IF i >= currentLevel THEN Sentinel
            ELSE Walk(i, IF i + 1 \in Levels THEN pred[i + 1] ELSE Sentinel, a)
    IN  pred

\* The nodes a level links: from[j] are those at most j links behind the head.
Linked(link) ==
    LET from[j \in 0..MaxAnchor] ==
            IF j = 0 THEN {Sentinel}
            ELSE from[j - 1] \cup ({link[n] : n \in from[j - 1]} \cap Anchors)
    IN  from[MaxAnchor]

OnLevel(i) == Linked(forwards[i])

Higher(l) == IF l > currentLevel THEN l ELSE currentLevel

\* make_new_node with random_level.
MakeNewNode(a, h) ==
    /\ height[a] = 0
    /\ height' = [height EXCEPT ![a] = h]

-----------------------------------------------------------------------------
(***************************************************************************)
(* The store is local: SkipList::insert by the thread that flushes the     *)
(* two local nodes, one after the other, before remote_put is set.         *)
(***************************************************************************)
Insert(a, h) ==
    LET pred == Preds(a) IN
    /\ ~remotePut
    /\ MakeNewNode(a, h)
    /\ currentLevel' = Higher(h)
    /\ forwards' = [i \in Levels |->
           IF i < h THEN [forwards[i] EXCEPT ![a] = forwards[i][pred[i]], ![pred[i]] = a]
           ELSE forwards[i]]
    /\ backward' = [b \in Anchors |->
           IF b = a THEN pred[0]
           ELSE IF b = forwards[0][pred[0]] THEN a
           ELSE backward[b]]
    /\ remotePut' = \E b \in Anchors : height[b] > 0
    /\ UNCHANGED <<updateQueue, split, calibration, search, stray>>

(***************************************************************************)
(* async_update, by a thread that has locked a data node and split it.     *)
(***************************************************************************)

\* Anchor a is out of order behind node n when it is not between n and its successor.
Strays(n, a) == IF n < a /\ a < forwards[0][n] THEN stray ELSE stray \cup {a}

\* Mutant: two threads may split the same node at once.
SplitMakeUnlocked(s, a, h) ==
    /\ remotePut
    /\ split[s].pc = "idle"
    /\ MakeNewNode(a, h)
    /\ \E n \in OnLevel(0) \ {Sentinel} :
          /\ backward[n] # Nil
          /\ stray' = Strays(n, a)
          /\ forwards' = [forwards EXCEPT ![0][a] = forwards[0][n]]
          /\ split' = [split EXCEPT ![s] = [pc |-> "publish", node |-> n, new |-> a]]
    /\ UNCHANGED <<backward, currentLevel, remotePut, updateQueue, calibration, search>>

\* new_node->forwards[0] = data_node->forwards[0], on a node nobody knows yet.
\* Any key may be the anchor: it is one of the buffer's, which a put that waited
\* while its node was split, or a request that came late, fills with keys of
\* other nodes; nothing compares it with the neighbours.  try_win_for_insert
\* dereferences `backward': a node without one cannot be locked.
SplitMake(s, a, h) ==
    /\ remotePut
    /\ split[s].pc = "idle"
    /\ MakeNewNode(a, h)
    /\ \E n \in OnLevel(0) \ {Sentinel} :
          /\ backward[n] # Nil
          /\ \A o \in Splitters : split[o].node # n
          /\ stray' = Strays(n, a)
          /\ forwards' = [forwards EXCEPT ![0][a] = forwards[0][n]]
          /\ split' = [split EXCEPT ![s] = [pc |-> "publish", node |-> n, new |-> a]]
    /\ UNCHANGED <<backward, currentLevel, remotePut, updateQueue, calibration, search>>

\* data_node->forwards[0] = new_node
SplitPublish(s) ==
    /\ split[s].pc = "publish"
    /\ forwards' = [forwards EXCEPT ![0][split[s].node] = split[s].new]
    /\ split' = [split EXCEPT ![s].pc = "backward"]
    /\ UNCHANGED <<backward, height, currentLevel, remotePut, updateQueue, calibration, search, stray>>

\* Mutant: the old successor is taken for the predecessor.
SplitBackwardWrong(s) ==
    /\ split[s].pc = "backward"
    /\ backward' = [backward EXCEPT ![split[s].new] = forwards[0][split[s].node]]
    /\ split' = [split EXCEPT ![s] = NoSplit]
    /\ updateQueue' = IF height[split[s].new] = 1 THEN updateQueue
                      ELSE Append(updateQueue, split[s].new)
    /\ UNCHANGED <<forwards, height, currentLevel, remotePut, calibration, search, stray>>

\* Mutant: the old successor is told of its new neighbour, as insert does.
SplitBackwardBoth(s) ==
    /\ split[s].pc = "backward"
    /\ backward' = [b \in Anchors |->
           IF b = split[s].new THEN split[s].node
           ELSE IF b = forwards[0][split[s].new] THEN split[s].new
           ELSE backward[b]]
    /\ split' = [split EXCEPT ![s] = NoSplit]
    /\ updateQueue' = IF height[split[s].new] = 1 THEN updateQueue
                      ELSE Append(updateQueue, split[s].new)
    /\ UNCHANGED <<forwards, height, currentLevel, remotePut, calibration, search, stray>>

\* Mutant: only a node taller than the list is queued.
SplitBackwardTall(s) ==
    /\ split[s].pc = "backward"
    /\ backward' = [backward EXCEPT ![split[s].new] = split[s].node]
    /\ split' = [split EXCEPT ![s] = NoSplit]
    /\ updateQueue' = IF height[split[s].new] <= currentLevel THEN updateQueue
                      ELSE Append(updateQueue, split[s].new)
    /\ UNCHANGED <<forwards, height, currentLevel, remotePut, calibration, search, stray>>

\* new_node->backward = data_node; a node of more than one level is queued for
\* the background thread.  The old successor keeps the `backward' it has.
SplitBackward(s) ==
    /\ split[s].pc = "backward"
    /\ backward' = [backward EXCEPT ![split[s].new] = split[s].node]
    /\ split' = [split EXCEPT ![s] = NoSplit]
    /\ updateQueue' = IF height[split[s].new] = 1 THEN updateQueue
                      ELSE Append(updateQueue, split[s].new)
    /\ UNCHANGED <<forwards, height, currentLevel, remotePut, calibration, search, stray>>

(***************************************************************************)
(* calibrate: the only writer of the upper levels and of current_level.    *)
(***************************************************************************)

\* Mutant: the level of the list is one too high.
CalibratePopHigh ==
    /\ calibration = NoCalibration
    /\ updateQueue # <<>>
    /\ calibration' = [node |-> Head(updateQueue), level |-> 1]
    /\ currentLevel' = Higher(height[Head(updateQueue)] + 1)
    /\ updateQueue' = Tail(updateQueue)
    /\ UNCHANGED <<forwards, backward, height, remotePut, split, search, stray>>

\* Only this thread changes what its walk over the upper levels reads, so the
\* walk itself needs no step.
CalibratePop ==
    /\ calibration = NoCalibration
    /\ updateQueue # <<>>
    /\ calibration' = [node |-> Head(updateQueue), level |-> 1]
    /\ currentLevel' = Higher(height[Head(updateQueue)])
    /\ updateQueue' = Tail(updateQueue)
    /\ UNCHANGED <<forwards, backward, height, remotePut, split, search, stray>>

\* Mutant: the node is linked behind the head, wherever it belongs.
CalibrateLinkFirst ==
    LET a == calibration.node
        i == calibration.level
    IN
    /\ calibration # NoCalibration
    /\ forwards' = [forwards EXCEPT ![i][a] = forwards[i][Sentinel], ![i][Sentinel] = a]
    /\ calibration' = IF i + 1 < height[a] THEN [calibration EXCEPT !.level = i + 1]
                      ELSE NoCalibration
    /\ UNCHANGED <<backward, height, currentLevel, remotePut, updateQueue, split, search, stray>>

\* Nobody reads the forwards pointer of a node on a level that does not reach
\* the node yet, so the two stores are one step.
CalibrateLink ==
    LET a == calibration.node
        i == calibration.level
        p == Preds(a)[i]
    IN
    /\ calibration # NoCalibration
    /\ forwards' = [forwards EXCEPT ![i][a] = forwards[i][p], ![i][p] = a]
    /\ calibration' = IF i + 1 < height[a] THEN [calibration EXCEPT !.level = i + 1]
                      ELSE NoCalibration
    /\ UNCHANGED <<backward, height, currentLevel, remotePut, updateQueue, split, search, stray>>

(***************************************************************************)
(* fuzzy_search.  Every `walker->forwards[i]' in it is a load of its own.   *)
(***************************************************************************)

\* The last node of the bottom level whose anchor is at most m.
Holder(m) == CHOOSE n \in OnLevel(0) : n <= m /\ \A o \in OnLevel(0) : o <= m => o <= n

SearchStart(r, m) ==
    /\ remotePut
    /\ search[r].pc = "idle"
    /\ search' = [search EXCEPT ![r] =
           [pc |-> "walk", member |-> m, walker |-> Sentinel, level |-> currentLevel - 1,
            floor |-> IF stray = {} THEN Holder(m) ELSE Nil, result |-> Nil]]
    /\ UNCHANGED <<listVars, remotePut, updateQueue, split, calibration, stray>>

\* Mutant: the anchor of the walker is compared, not the next one.
SearchHopLate(r) ==
    LET q == search[r]
        next == forwards[q.level][q.walker]
    IN
    /\ q.pc = "walk"
    /\ search' = [search EXCEPT ![r] =
           IF next # Nil /\ q.walker < q.member THEN [q EXCEPT !.walker = next]
           ELSE IF q.level > 0 THEN [q EXCEPT !.level = q.level - 1]
           ELSE [q EXCEPT !.pc = "equal"]]
    /\ UNCHANGED <<listVars, remotePut, updateQueue, split, calibration, stray>>

\* One turn of the loops: forward, down, or out of them.  Nodes are only added,
\* so a successor that is re-read after the comparison is no further away; one
\* that a split has just made a stray may be, and nothing is said of that search.
SearchHop(r) ==
    LET q == search[r]
        next == forwards[q.level][q.walker]
    IN
    /\ q.pc = "walk"
    /\ search' = [search EXCEPT ![r] =
           IF next < q.member THEN [q EXCEPT !.walker = next]
           ELSE IF q.level > 0 THEN [q EXCEPT !.level = q.level - 1]
           ELSE [q EXCEPT !.pc = "equal"]]
    /\ UNCHANGED <<listVars, remotePut, updateQueue, split, calibration, stray>>

\* forwards[0]->anchor == member
SearchEqual(r) ==
    LET q == search[r] IN
    /\ q.pc = "equal"
    /\ search' = [search EXCEPT ![r].pc =
           IF forwards[0][q.walker] = q.member THEN "hit" ELSE "range"]
    /\ UNCHANGED <<listVars, remotePut, updateQueue, split, calibration, stray>>

\* return walker->forwards[0]
SearchHit(r) ==
    LET q == search[r] IN
    /\ q.pc = "hit"
    /\ search' = [search EXCEPT ![r].pc = "done", ![r].result = forwards[0][q.walker]]
    /\ UNCHANGED <<listVars, remotePut, updateQueue, split, calibration, stray>>

\* The walker holds the member unless its successor does not lie behind the
\* member any more; then there is no result.
SearchRange(r) ==
    LET q == search[r] IN
    /\ q.pc = "range"
    /\ search' = [search EXCEPT ![r].pc = "done", ![r].result =
           IF forwards[0][q.walker] > q.member THEN q.walker ELSE Nil]
    /\ UNCHANGED <<listVars, remotePut, updateQueue, split, calibration, stray>>

SearchReturn(r) ==
    /\ search[r].pc = "done"
    /\ search' = [search EXCEPT ![r] = NoSearch]
    /\ UNCHANGED <<listVars, remotePut, updateQueue, split, calibration, stray>>

-----------------------------------------------------------------------------
Load == \E a \in Anchors, h \in 1..MaxLevel : Insert(a, h)

AsyncUpdate(s) ==
    \/ \E a \in Anchors, h \in 1..MaxLevel : SplitMake(s, a, h)
    \/ SplitPublish(s)
    \/ SplitBackward(s)

Calibrate == CalibratePop \/ CalibrateLink

FuzzySearch(r) ==
    \/ \E m \in Members : SearchStart(r, m)
    \/ SearchHop(r) \/ SearchEqual(r) \/ SearchHit(r) \/ SearchRange(r) \/ SearchReturn(r)

Next ==
    \/ Load
    \/ \E s \in Splitters : AsyncUpdate(s)
    \/ Calibrate
    \/ \E r \in Readers : FuzzySearch(r)

Spec == Init /\ [][Next]_vars

\* A thread that has begun to link a node finishes; the background thread polls
\* its queue for ever.
FairSpec ==
    /\ Spec
    /\ \A s \in Splitters : WF_vars(SplitPublish(s) \/ SplitBackward(s))
    /\ WF_vars(Calibrate)

-----------------------------------------------------------------------------
(***************************************************************************)
(* Properties.                                                             *)
(***************************************************************************)

\* Every variable has its type; only nodes that exist are queued.
TypeOK ==
    /\ forwards \in [Levels -> [Nodes -> Anchors \cup {Nil}]]
    /\ backward \in [Anchors -> Nodes \cup {Nil}]
    /\ height \in [Anchors -> 0..MaxLevel]
    /\ currentLevel \in 1..MaxLevel
    /\ remotePut \in BOOLEAN
    /\ updateQueue \in Seq(Anchors)
    /\ split \in [Splitters -> [pc : {"idle", "publish", "backward"},
                                node : Anchors \cup {Nil}, new : Anchors \cup {Nil}]]
    /\ calibration \in [node : Anchors \cup {Nil}, level : Levels]
    /\ search \in [Readers -> [pc : {"idle", "walk", "equal", "hit", "range", "done"},
                               member : Anchors \cup {Nil}, walker : Nodes, level : Levels,
                               floor : Nodes \cup {Nil}, result : Nodes \cup {Nil}]]
    /\ stray \subseteq Anchors

\* A link between these two nodes need not be in order: one of them is a stray of
\* the bottom level.
Excused(i, n, next) == i = 0 /\ (n \in stray \/ next \in stray)

\* However the splits, the background thread and the flush interleave, a link
\* leads to a greater anchor, and a level is part of the level below it.  On the
\* bottom level the links from and to a stray are excepted, and no others: a split
\* behind a stray is in order again or makes another.  The background thread
\* finds the place of a stray, too, so the upper levels are always sorted.
LevelsSorted ==
    \A i \in Levels :
        /\ \A n \in Nodes : n < forwards[i][n] \/ Excused(i, n, forwards[i][n])
        /\ i > 0 => OnLevel(i) \subseteq OnLevel(i - 1)

\* No link is lost: a node that some level reaches is reached by it for ever,
\* whoever stores to its predecessor.
NothingUnlinked == [][\A i \in Levels : OnLevel(i) \subseteq OnLevel(i)']_forwards

\* `backward' is null or a node of the list, with a smaller anchor though not
\* always the nearest: locks are taken towards the head.  Of a stray only the
\* first is said.
BackwardBehind ==
    \A a \in Anchors : backward[a] # Nil =>
        /\ backward[a] \in OnLevel(0)
        /\ backward[a] < a \/ a \in stray

\* Once the list is shared, the neighbour of a node never changes: the thread
\* that leaves a node releases the neighbour it locked.
BackwardStable ==
    [][remotePut => \A a \in Anchors : backward[a] # Nil => backward'[a] = backward[a]]_vars

\* As long as no split has linked a stray, a search never overshoots, and returns
\* no node further ahead than the one that held the member when it began, except
\* that it loads an exact hit twice: when the member is itself an anchor, a split
\* may slip in between.
SearchFindsHolder ==
    \A r \in Readers :
        LET q == search[r] IN
        stray = {} /\ q.pc = "done" /\ q.result # Nil =>
            q.result <= q.member /\ (q.floor <= q.result \/ q.floor = q.member)

\* Every node that is made is linked on all levels it was given: on the topmost
\* of them, and a level is part of the one below it (LevelsSorted).
Calibrated ==
    \A a \in Anchors : height[a] > 0 ~> (height[a] > 0 /\ a \in OnLevel(height[a] - 1))

\* Comment in put: the search cannot return nullptr once remote_put is enabled.
SearchNeverNull ==
    \A r \in Readers : search[r].pc = "done" => search[r].result # Nil
=============================================================================
