--------------------------- MODULE LocalStageProofs ---------------------------
(***************************************************************************)
(* Theorems about LocalStage, for every number of threads and keys and     *)
(* every capacity of a node: the variables keep their types and the local  *)
(* nodes their order; an acknowledged record is found before and after the *)
(* flush, and changes by an update alone; an update is seen.               *)
(***************************************************************************)
EXTENDS LocalStage, FiniteSetTheorems, SequenceTheorems, TLAPS

-----------------------------------------------------------------------------
(***************************************************************************)
(* The inductive invariant.                                                *)
(***************************************************************************)

\* Where a get of key k looks in two local nodes with these anchors.
Found(as, nodes, k) == IF k >= as[1] /\ as[1] # Empty THEN nodes[1][k] ELSE nodes[0][k]

\* Until there are two anchors, only the key that became the first one is stored.
AnchorsOK ==
    /\ anchors[0] = Empty => anchors[1] = Empty
    /\ anchors[1] = Empty => Stored(local[0]) = {anchors[0]} \ {Empty}

\* The list is empty until the flush, which inserts both nodes under their anchors.
ListOK ==
    /\ ~remotePut => slist = <<>> /\ \A k \in acked : Found(anchors, local, k) # NoValue
    /\ remotePut =>
          /\ Len(slist) = 2
          /\ DistinctAnchors => /\ anchors[0] < anchors[1]
                                /\ slist[1].anchor = anchors[0] /\ slist[2].anchor = anchors[1]

\* Only a put may go to the remote store before there is one.
CallsOK == \A t \in Threads : call[t].pc = "remote" /\ call[t].op = "update" => remotePut

IInv == TypeOK /\ NodesOrdered /\ AckedPutReadable /\ AnchorsOK /\ ListOK /\ CallsOK

-----------------------------------------------------------------------------
(***************************************************************************)
(* Lemmas about records and nodes.                                         *)
(***************************************************************************)

Records == [Keys -> Values \cup {NoValue}]
Listed == [anchor : Keys, records : Records]

\* Keys are numbers, and the empty anchor is before them all.
LEMMA KeyNumbers ==
  /\ MaxKey \in Nat /\ MaxKey # 0 /\ Capacity \in Nat /\ Capacity # 0 /\ NoValue \notin Values
  /\ \A k \in Keys : k \in Nat /\ k > Empty /\ k # Empty
  /\ Empty \in Nat /\ 0 \in Nodes /\ 1 \in Nodes /\ 0 # 1 /\ \A n \in Nodes : n = 0 \/ n = 1
BY StageAssumption DEF Keys, Empty, Nodes

\* store adds its key, and leaves every record that is there.
LEMMA StoreAdds ==
  ASSUME NEW node \in Records, NEW k \in Keys, NEW v \in Values
  PROVE  /\ Store(node, k, v) \in Records
         /\ Stored(Store(node, k, v)) = Stored(node) \cup {k}
         /\ Store(node, k, v)[k] # NoValue
         /\ \A j \in Keys : node[j] # NoValue => Store(node, k, v)[j] = node[j]
BY KeyNumbers DEF Store, Stored, Records

\* The keys of a node are finitely many.
LEMMA StoredFinite ==
  ASSUME NEW node
  PROVE  IsFiniteSet(Stored(node)) /\ Cardinality(Stored(node)) \in Nat
<1>1. IsFiniteSet(Keys)
  <2>1. MaxKey \in Int /\ 1 \in Int
    BY KeyNumbers
  <2>. QED BY <2>1, FS_Interval DEF Keys
<1>2. Stored(node) \in SUBSET Keys
  BY DEF Stored
<1>3. IsFiniteSet(Stored(node))
  BY <1>1, <1>2, FS_Subset
<1>. QED BY <1>3, FS_CardinalityType

-----------------------------------------------------------------------------
(***************************************************************************)
(* Lemmas about quick_put_pick_node.                                       *)
(***************************************************************************)

\* A key k may be stored in node `at' of two nodes with these anchors.
Fits(as, nodes, at, k) ==
    /\ as \in [Nodes -> Keys \cup {Empty}] /\ nodes \in [Nodes -> Records] /\ at \in Nodes
    /\ as[0] # Empty /\ as[0] <= k
    /\ at = 1 => as[1] # Empty /\ as[1] <= k
    /\ at = 0 /\ as[1] # Empty => k <= as[1]
    /\ as[1] # Empty => as[0] <= as[1] /\ (nodes[1][as[1]] # NoValue \/ (at = 1 /\ k = as[1]))
    /\ as[1] = Empty => k = as[0] /\ Stored(nodes[0]) = {}
    /\ \A j \in Stored(nodes[0]) : as[0] <= j /\ (as[1] # Empty => j <= as[1])
    /\ \A j \in Stored(nodes[1]) : as[1] # Empty /\ as[1] <= j

\* The invariant of the local stage, in terms of the anchors and nodes.
LEMMA LocalFacts ==
  ASSUME IInv
  PROVE  /\ anchors \in [Nodes -> Keys \cup {Empty}] /\ local \in [Nodes -> Records]
         /\ anchors[0] \in Nat /\ anchors[1] \in Nat
         /\ anchors[1] # Empty => anchors[0] <= anchors[1] /\ local[1][anchors[1]] # NoValue
         /\ \A j \in Keys : local[0][j] # NoValue =>
               anchors[0] <= j /\ (anchors[1] # Empty => j <= anchors[1])
                               /\ (anchors[1] = Empty => j = anchors[0])
         /\ \A j \in Keys : local[1][j] # NoValue => anchors[1] # Empty /\ anchors[1] <= j
         /\ anchors[0] = Empty => anchors[1] = Empty
         /\ anchors[1] = Empty /\ anchors[0] # Empty => local[0][anchors[0]] # NoValue
<1>1. /\ anchors \in [Nodes -> Keys \cup {Empty}] /\ local \in [Nodes -> Records]
  BY DEF IInv, TypeOK, Records
<1>2. anchors[0] \in Keys \cup {Empty} /\ anchors[1] \in Keys \cup {Empty}
  BY <1>1, KeyNumbers
<1>3. anchors[0] \in Nat /\ anchors[1] \in Nat
  BY <1>2, KeyNumbers
<1>4. anchors[1] = Empty => \A j \in Keys : local[0][j] # NoValue <=> (j = anchors[0] /\ j # Empty)
  <2>1. anchors[1] = Empty => Stored(local[0]) = {anchors[0]} \ {Empty}
    BY DEF IInv, AnchorsOK
  <2>2. \A j \in Keys : j \in Stored(local[0]) <=> local[0][j] # NoValue
    BY DEF Stored
  <2>. QED BY <2>1, <2>2
<1>. QED BY <1>1, <1>2, <1>3, <1>4 DEF IInv, NodesOrdered, AnchorsOK, Stored

\* What it picks: anchors and nodes that the key fits, where every record is found that
\* was; full nodes are those the store had, under a first anchor that may have moved.
LEMMA Picked ==
  ASSUME IInv, NEW k \in Keys, NEW p, p = PickNode(k)
  PROVE  /\ Fits(p.anchors, p.local, p.at, k)
         /\ \A j \in Keys : Found(anchors, local, j) # NoValue =>
               \/ Found(p.anchors, p.local, j) = Found(anchors, local, j)
               \/ j = k /\ p.anchors[0] = p.anchors[1]
         /\ p.local # local \/ p.anchors[1] # anchors[1] =>
               anchors[1] = Empty /\ Stored(p.local[p.at]) = {}
         /\ p.anchors[1] = Empty => Stored(p.local[p.at]) = {}
         /\ \A n \in Nodes : \E m \in Nodes : p.local[n] = local[m]
<1>1. /\ anchors \in [Nodes -> Keys \cup {Empty}] /\ local \in [Nodes -> Records]
      /\ anchors[0] \in Nat /\ anchors[1] \in Nat
      /\ anchors[1] # Empty => anchors[0] <= anchors[1] /\ local[1][anchors[1]] # NoValue
      /\ \A j \in Keys : local[0][j] # NoValue =>
            anchors[0] <= j /\ (anchors[1] # Empty => j <= anchors[1])
                            /\ (anchors[1] = Empty => j = anchors[0])
      /\ \A j \in Keys : local[1][j] # NoValue => anchors[1] # Empty /\ anchors[1] <= j
      /\ anchors[0] = Empty => anchors[1] = Empty
      /\ anchors[1] = Empty /\ anchors[0] # Empty => local[0][anchors[0]] # NoValue
  BY LocalFacts
<1>2. /\ 0 \in Nodes /\ 1 \in Nodes /\ k \in Nat /\ k > Empty /\ k # Empty /\ Empty \in Nat
      /\ \A j \in Keys : j \in Nat /\ j # Empty
  BY KeyNumbers
<1>3. anchors[0] \in Keys \cup {Empty} /\ anchors[1] \in Keys \cup {Empty}
      /\ local[0] \in Records /\ local[1] \in Records
  BY <1>1, <1>2
<1>4. CASE anchors[0] = Empty
  <2>1. p.at = 0 /\ p.local = local /\ p.anchors = [anchors EXCEPT ![0] = k]
    BY <1>4 DEF PickNode
  <2>2. p.anchors[0] = k /\ p.anchors[1] = Empty /\ p.anchors \in [Nodes -> Keys \cup {Empty}]
    BY <1>1, <1>2, <1>4, <2>1
  <2>3. Stored(local[0]) = {} /\ Stored(local[1]) = {}
    BY <1>1, <1>2, <1>4 DEF Stored
  <2>4. Fits(p.anchors, p.local, p.at, k)
    BY <1>1, <1>2, <2>1, <2>2, <2>3 DEF Fits
  <2>5. \A j \in Keys : Found(anchors, local, j) = NoValue
    BY <1>1, <1>2, <1>4 DEF Found
  <2>. QED BY <1>1, <1>2, <1>4, <2>1, <2>2, <2>3, <2>4, <2>5
<1>5. CASE anchors[0] # Empty /\ k < anchors[0] /\ anchors[1] = Empty
  <2>1. /\ p.at = 0 /\ p.anchors = [n \in Nodes |-> IF n = 0 THEN k ELSE anchors[0]]
        /\ p.local = [n \in Nodes |-> local[1 - n]]
    BY <1>5 DEF PickNode
  <2>2. /\ p.anchors[0] = k /\ p.anchors[1] = anchors[0] /\ p.anchors \in [Nodes -> Keys \cup {Empty}]
        /\ p.local[0] = local[1] /\ p.local[1] = local[0] /\ p.local \in [Nodes -> Records]
    <3>1. 1 - 0 = 1 /\ 1 - 1 = 0
      OBVIOUS
    <3>2. p.local[0] = local[1] /\ p.local[1] = local[0]
      BY <1>2, <2>1, <3>1
    <3>3. p.local = [n \in Nodes |-> p.local[n]]
      BY <2>1
    <3>4. p.local \in [Nodes -> Records]
      BY <1>3, <3>2, <3>3, KeyNumbers
    <3>. QED BY <1>2, <1>3, <2>1, <3>2, <3>4
  <2>3. Stored(local[1]) = {} /\ Stored(local[0]) = {anchors[0]}
    BY <1>1, <1>2, <1>3, <1>5 DEF Stored
  <2>4. Fits(p.anchors, p.local, p.at, k)
    BY <1>1, <1>2, <1>3, <1>5, <2>1, <2>2, <2>3 DEF Fits
  <2>5. \A j \in Keys : Found(anchors, local, j) # NoValue =>
                          Found(p.anchors, p.local, j) = Found(anchors, local, j)
    BY <1>1, <1>2, <1>5, <2>2 DEF Found
  <2>. QED BY <1>2, <1>5, <2>1, <2>2, <2>3, <2>4, <2>5, KeyNumbers
<1>6. CASE anchors[0] # Empty /\ k < anchors[0] /\ anchors[1] # Empty
  <2>1. p.at = 0 /\ p.local = local /\ p.anchors = [anchors EXCEPT ![0] = k]
    BY <1>6 DEF PickNode
  <2>2. p.anchors[0] = k /\ p.anchors[1] = anchors[1] /\ p.anchors \in [Nodes -> Keys \cup {Empty}]
    BY <1>1, <1>2, <2>1
  <2>3. Fits(p.anchors, p.local, p.at, k)
    BY <1>1, <1>2, <1>3, <1>6, <2>1, <2>2 DEF Fits, Stored
  <2>4. \A j \in Keys : Found(p.anchors, p.local, j) = Found(anchors, local, j)
    BY <2>1, <2>2 DEF Found
  <2>. QED BY <1>6, <2>1, <2>2, <2>3, <2>4
<1>7. CASE anchors[0] # Empty /\ ~(k < anchors[0]) /\ anchors[1] = Empty
  <2>1. p.at = 1 /\ p.local = local /\ p.anchors = [anchors EXCEPT ![1] = k]
    BY <1>7 DEF PickNode
  <2>2. p.anchors[0] = anchors[0] /\ p.anchors[1] = k /\ p.anchors \in [Nodes -> Keys \cup {Empty}]
    BY <1>1, <1>2, <2>1
  <2>3. Stored(local[1]) = {} /\ Stored(local[0]) = {anchors[0]}
    BY <1>1, <1>2, <1>3, <1>7 DEF Stored
  <2>4. Fits(p.anchors, p.local, p.at, k)
    BY <1>1, <1>2, <1>3, <1>7, <2>1, <2>2, <2>3 DEF Fits
  <2>5. \A j \in Keys : Found(anchors, local, j) # NoValue =>
               \/ Found(p.anchors, p.local, j) = Found(anchors, local, j)
               \/ j = k /\ p.anchors[0] = p.anchors[1]
    BY <1>1, <1>2, <1>7, <2>1, <2>2 DEF Found
  <2>. QED BY <1>2, <1>7, <2>1, <2>2, <2>3, <2>4, <2>5
<1>8. CASE anchors[0] # Empty /\ ~(k < anchors[0]) /\ anchors[1] # Empty
  <2>1. p.at = (IF k > anchors[1] THEN 1 ELSE 0) /\ p.local = local /\ p.anchors = anchors
    BY <1>8 DEF PickNode
  <2>2. Fits(p.anchors, p.local, p.at, k)
    BY <1>1, <1>2, <1>3, <1>8, <2>1 DEF Fits, Stored
  <2>. QED BY <1>8, <2>1, <2>2
<1>. QED BY <1>4, <1>5, <1>6, <1>7, <1>8

\* Nodes `new' are ordered under these anchors, hold key k, and have the records of `nodes'.
Holds(as, nodes, new, k) ==
    /\ new \in [Nodes -> Records]
    /\ as[1] # Empty => as[0] <= as[1] /\ new[1][as[1]] # NoValue
    /\ \A j \in Stored(new[0]) : as[0] <= j /\ (as[1] # Empty => j <= as[1])
    /\ \A j \in Stored(new[1]) : as[1] # Empty /\ as[1] <= j
    /\ as[1] = Empty => Stored(new[0]) = {as[0]}
    /\ Found(as, new, k) # NoValue
    /\ \A j \in Keys : Found(as, nodes, j) # NoValue => Found(as, new, j) = Found(as, nodes, j)

\* A record that is stored where it fits leaves the nodes ordered, and is found.
LEMMA StoredFits ==
  ASSUME NEW as, NEW nodes, NEW at, NEW k \in Keys, NEW v \in Values, Fits(as, nodes, at, k),
         NEW new, new = [nodes EXCEPT ![at] = Store(@, k, v)]
  PROVE  Holds(as, nodes, new, k)
<1>1. /\ nodes \in [Nodes -> Records] /\ at \in Nodes /\ nodes[0] \in Records /\ nodes[1] \in Records
      /\ as[0] \in Nat /\ as[1] \in Nat /\ k \in Nat /\ Empty \in Nat
      /\ as[1] \in Keys \cup {Empty}
  BY KeyNumbers DEF Fits
<1>2. \A n \in Nodes : new[n] = IF n = at THEN Store(nodes[n], k, v) ELSE nodes[n]
  BY <1>1
<1>3. \A n \in Nodes : /\ Store(nodes[n], k, v) \in Records
                       /\ Stored(Store(nodes[n], k, v)) = Stored(nodes[n]) \cup {k}
                       /\ Store(nodes[n], k, v)[k] # NoValue
                       /\ \A j \in Keys : nodes[n][j] # NoValue => Store(nodes[n], k, v)[j] = nodes[n][j]
  BY <1>1, StoreAdds
<1>4. new \in [Nodes -> Records]
  <2>1. new = [n \in Nodes |-> new[n]]
    BY <1>1
  <2>. QED BY <1>1, <1>2, <1>3, <2>1
<1>5. /\ Stored(new[0]) = IF at = 0 THEN Stored(nodes[0]) \cup {k} ELSE Stored(nodes[0])
      /\ Stored(new[1]) = IF at = 1 THEN Stored(nodes[1]) \cup {k} ELSE Stored(nodes[1])
      /\ (at = 0 => new[0][k] # NoValue) /\ (at = 1 => new[1][k] # NoValue)
      /\ \A j \in Keys : nodes[0][j] # NoValue => new[0][j] = nodes[0][j]
      /\ \A j \in Keys : nodes[1][j] # NoValue => new[1][j] = nodes[1][j]
  <2>1. 0 \in Nodes /\ 1 \in Nodes
    BY KeyNumbers
  <2>2. /\ new[0] = IF at = 0 THEN Store(nodes[0], k, v) ELSE nodes[0]
        /\ new[1] = IF at = 1 THEN Store(nodes[1], k, v) ELSE nodes[1]
    BY <1>2, <2>1
  <2>3. /\ Stored(Store(nodes[0], k, v)) = Stored(nodes[0]) \cup {k} /\ Store(nodes[0], k, v)[k] # NoValue
        /\ \A j \in Keys : nodes[0][j] # NoValue => Store(nodes[0], k, v)[j] = nodes[0][j]
    BY <1>3, <2>1
  <2>4. /\ Stored(Store(nodes[1], k, v)) = Stored(nodes[1]) \cup {k} /\ Store(nodes[1], k, v)[k] # NoValue
        /\ \A j \in Keys : nodes[1][j] # NoValue => Store(nodes[1], k, v)[j] = nodes[1][j]
    BY <1>3, <2>1
  <2>. QED BY <2>2, <2>3, <2>4
<1>6. /\ as[0] # Empty /\ as[0] <= k /\ (at = 0 \/ at = 1)
      /\ at = 1 => as[1] # Empty /\ as[1] <= k
      /\ at = 0 /\ as[1] # Empty => k <= as[1]
      /\ as[1] # Empty => as[0] <= as[1] /\ (nodes[1][as[1]] # NoValue \/ (at = 1 /\ k = as[1]))
      /\ as[1] = Empty => k = as[0] /\ Stored(nodes[0]) = {}
      /\ \A j \in Stored(nodes[0]) : as[0] <= j /\ (as[1] # Empty => j <= as[1])
      /\ \A j \in Stored(nodes[1]) : as[1] # Empty /\ as[1] <= j
  BY KeyNumbers DEF Fits
<1>7. as[1] # Empty => as[0] <= as[1] /\ new[1][as[1]] # NoValue
  BY <1>1, <1>5, <1>6
<1>8. /\ \A j \in Stored(new[0]) : as[0] <= j /\ (as[1] # Empty => j <= as[1])
      /\ \A j \in Stored(new[1]) : as[1] # Empty /\ as[1] <= j
      /\ as[1] = Empty => Stored(new[0]) = {as[0]}
  <2>1. \A j \in Stored(new[0]) : j \in Stored(nodes[0]) \/ (at = 0 /\ j = k)
    BY <1>5
  <2>2. \A j \in Stored(new[1]) : j \in Stored(nodes[1]) \/ (at = 1 /\ j = k)
    BY <1>5
  <2>3. as[1] = Empty => Stored(new[0]) = {as[0]}
    BY <1>5, <1>6
  <2>. QED BY <1>6, <2>1, <2>2, <2>3
<1>9. \A j \in Keys : Found(as, nodes, j) # NoValue => Found(as, new, j) = Found(as, nodes, j)
  BY <1>5 DEF Found
<1>10. Found(as, new, k) # NoValue
  <2>1. CASE k >= as[1] /\ as[1] # Empty
    <3>1. at = 1 \/ k = as[1]
      <4>1. at = 0 => k <= as[1]
        BY <1>6, <2>1
      <4>2. (at = 0 \/ at = 1) /\ k \in Nat /\ as[1] \in Nat
        BY <1>1, <1>6
      <4>3. \A m, n \in Nat : m <= n /\ n <= m => m = n
        OBVIOUS
      <4>4. as[1] <= k
        BY <2>1, <4>2
      <4>. QED BY <4>1, <4>2, <4>3, <4>4
    <3>. QED BY <1>5, <1>7, <2>1, <3>1 DEF Found
  <2>2. CASE ~(k >= as[1] /\ as[1] # Empty)
    <3>1. at = 0
      BY <1>1, <1>6, <2>2
    <3>. QED BY <1>5, <2>2, <3>1 DEF Found
  <2>. QED BY <2>1, <2>2
<1>. QED BY <1>4, <1>7, <1>8, <1>9, <1>10 DEF Holds

-----------------------------------------------------------------------------
(***************************************************************************)
(* Lemmas about the skip list.                                             *)
(***************************************************************************)

\* A route is a place of the list, or its head.
LEMMA RouteIn ==
  ASSUME slist \in Seq(Listed), NEW k \in Keys
  PROVE  Route(k) \in 0..Len(slist)
<1>1. Len(slist) \in Nat /\ DOMAIN slist = 1..Len(slist)
  BY LenProperties
<1>2. IsFiniteSet(1..Len(slist)) /\ Cardinality(1..Len(slist)) = Len(slist)
  <2>1. 1 \in Int /\ Len(slist) \in Int
    BY <1>1
  <2>2. IsFiniteSet(1..Len(slist))
        /\ Cardinality(1..Len(slist)) = IF 1 > Len(slist) THEN 0 ELSE Len(slist) - 1 + 1
    BY <2>1, FS_Interval
  <2>. QED BY <1>1, <2>2
<1>3. Before(slist, k) \in 0..Len(slist)
  <2>1. {i \in DOMAIN slist : slist[i].anchor < k} \in SUBSET (1..Len(slist))
    BY <1>1
  <2>. QED BY <1>1, <1>2, <2>1, FS_Subset, FS_CardinalityType DEF Before
<1>. QED BY <1>1, <1>3 DEF Route

\* It is decided by the anchors alone.
LEMMA RouteKeeps ==
  ASSUME slist \in Seq(Listed), slist' \in Seq(Listed), Len(slist') = Len(slist),
         \A i \in 1..Len(slist) : slist'[i].anchor = slist[i].anchor, NEW k \in Keys
  PROVE  Route(k)' = Route(k)
<1>1. DOMAIN slist = 1..Len(slist) /\ DOMAIN slist' = 1..Len(slist) /\ Len(slist) \in Nat
  BY LenProperties
<1>2. Before(slist, k)' = Before(slist, k)
  <2>1. {i \in DOMAIN slist' : slist'[i].anchor < k} = {i \in DOMAIN slist : slist[i].anchor < k}
    BY <1>1
  <2>. QED BY <2>1 DEF Before
<1>3. PICK at : at = Before(slist, k)
  OBVIOUS
<1>4. at \in Nat
  <2>1. IsFiniteSet(1..Len(slist))
    BY <1>1, FS_Interval
  <2>2. {i \in DOMAIN slist : slist[i].anchor < k} \in SUBSET (1..Len(slist))
    BY <1>1
  <2>. QED BY <1>3, <2>1, <2>2, FS_Subset, FS_CardinalityType DEF Before
<1>5. at < Len(slist) => slist'[at + 1].anchor = slist[at + 1].anchor
  BY <1>1, <1>4
<1>. QED BY <1>2, <1>3, <1>5 DEF Route

\* The place of a list that a key is routed to.
Way(list, k) ==
    LET at == Before(list, k) IN
    IF at < Len(list) /\ list[at + 1].anchor = k THEN at + 1 ELSE at

\* After the flush the anchors route a key as they did before.
LEMMA WayTwo ==
  ASSUME NEW list \in Seq(Listed), NEW a, NEW b, NEW k \in Keys,
         Len(list) = 2, list[1].anchor = a, list[2].anchor = b, a < b
  PROVE  /\ Way(list, k) = IF k >= b THEN 2 ELSE IF k >= a THEN 1 ELSE 0
         /\ a \in Keys /\ b \in Keys
<1>1. DOMAIN list = 1..2
  BY LenProperties
<1>2. list[1] \in Listed /\ list[2] \in Listed
  <2>1. 1 \in 1..Len(list) /\ 2 \in 1..Len(list)
    BY <1>1
  <2>. QED BY <2>1, ElementOfSeq
<1>3. a \in Keys /\ b \in Keys
  BY <1>1, <1>2 DEF Listed
<1>4. k \in Nat /\ a \in Nat /\ b \in Nat
  BY <1>3, KeyNumbers
<1>5. PICK S : S = {i \in DOMAIN list : list[i].anchor < k}
  OBVIOUS
<1>6. Before(list, k) = Cardinality(S)
  BY <1>5 DEF Before
<1>7. CASE k <= a
  <2>1. S = {}
    BY <1>1, <1>4, <1>5, <1>7
  <2>2. Before(list, k) = 0
    BY <1>6, <2>1, FS_EmptySet
  <2>. QED BY <1>1, <1>3, <1>4, <1>7, <2>2 DEF Way
<1>8. CASE a < k /\ k <= b
  <2>1. S = {1}
    BY <1>1, <1>4, <1>5, <1>8
  <2>2. Before(list, k) = 1
    BY <1>6, <2>1, FS_Singleton
  <2>. QED BY <1>1, <1>3, <1>4, <1>8, <2>2 DEF Way
<1>9. CASE b < k
  <2>1. S = 1..2
    BY <1>1, <1>4, <1>5, <1>9
  <2>2. Before(list, k) = 2
    <3>1. Cardinality(1..2) = IF 1 > 2 THEN 0 ELSE 2 - 1 + 1
      <4>1. 1 \in Int /\ 2 \in Int
        OBVIOUS
      <4>. QED BY <4>1, FS_Interval
    <3>. QED BY <1>6, <2>1, <3>1
  <2>. QED BY <1>1, <1>3, <1>4, <1>9, <2>2 DEF Way
<1>. QED BY <1>4, <1>7, <1>8, <1>9

LEMMA RouteTwo ==
  ASSUME slist \in Seq(Listed), ListOK, remotePut, DistinctAnchors, NEW k \in Keys
  PROVE  /\ Route(k) = IF k >= anchors[1] THEN 2 ELSE IF k >= anchors[0] THEN 1 ELSE 0
         /\ anchors[0] \in Keys /\ anchors[1] \in Keys /\ anchors[0] < anchors[1]
<1>1. /\ Len(slist) = 2 /\ slist[1].anchor = anchors[0] /\ slist[2].anchor = anchors[1]
      /\ anchors[0] < anchors[1]
  BY DEF ListOK
<1>2. Route(k) = Way(slist, k)
  BY DEF Route, Way
<1>. QED BY <1>1, <1>2, WayTwo

\* Insertion into an empty list and into one of a node.
LEMMA InsertFirst ==
  ASSUME NEW a \in Keys, NEW r \in Records
  PROVE  Insert(<<>>, a, r) = <<[anchor |-> a, records |-> r]>>
<1>1. PICK x : x = [anchor |-> a, records |-> r]
  OBVIOUS
<1>2. <<>> \in Seq(Listed) /\ x \in Listed /\ <<x>> \in Seq(Listed)
  BY <1>1 DEF Listed
<1>3. Before(<<>>, a) = 0
  <2>1. {i \in DOMAIN <<>> : <<>>[i].anchor < a} = {}
    OBVIOUS
  <2>. QED BY <2>1, FS_EmptySet DEF Before
<1>4. SubSeq(<<>>, 1, 0) = <<>> /\ Len(<<>>) = 0
  BY SubSeqEmpty, EmptySeq
<1>5. <<>> \o <<x>> \o <<>> = <<x>>
  <2>1. <<>> \o <<x>> = <<x>> /\ <<x>> \o <<>> = <<x>>
    BY <1>2, ConcatEmptySeq
  <2>. QED BY <2>1
<1>6. Insert(<<>>, a, r) = SubSeq(<<>>, 1, 0) \o <<x>> \o SubSeq(<<>>, 0 + 1, Len(<<>>))
  BY <1>1, <1>3 DEF Insert
<1>7. SubSeq(<<>>, 0 + 1, Len(<<>>)) = <<>>
  BY <1>4
<1>. QED BY <1>1, <1>4, <1>5, <1>6, <1>7

LEMMA TwoNodes ==
  ASSUME NEW x \in Listed, NEW y \in Listed
  PROVE  <<x>> \o <<y>> = <<x, y>> /\ <<x, y>> \in Seq(Listed)
<1>1. <<x>> \in Seq(Listed) /\ <<y>> \in Seq(Listed) /\ <<x, y>> \in Seq(Listed)
      /\ Len(<<x>>) = 1 /\ Len(<<y>>) = 1 /\ Len(<<x, y>>) = 2
  OBVIOUS
<1>2. <<x>> \o <<y>> \in Seq(Listed) /\ Len(<<x>> \o <<y>>) = 2
      /\ \A i \in 1..2 : (<<x>> \o <<y>>)[i] = IF i <= 1 THEN <<x>>[i] ELSE <<y>>[i - 1]
  BY <1>1, ConcatProperties
<1>3. \A i \in 1..2 : (<<x>> \o <<y>>)[i] = <<x, y>>[i]
  BY <1>2
<1>. QED BY <1>1, <1>2, <1>3, SeqEqual

LEMMA InsertSecond ==
  ASSUME NEW x \in Listed, NEW a \in Keys, NEW r \in Records
  PROVE  Insert(<<x>>, a, r) = IF x.anchor < a THEN <<x, [anchor |-> a, records |-> r]>>
                               ELSE <<[anchor |-> a, records |-> r], x>>
<1>1. PICK y : y = [anchor |-> a, records |-> r]
  OBVIOUS
<1>2. <<>> \in Seq(Listed) /\ y \in Listed /\ <<x>> \in Seq(Listed) /\ <<y>> \in Seq(Listed)
      /\ Len(<<x>>) = 1
  BY <1>1 DEF Listed
<1>3. PICK S : S = {i \in DOMAIN <<x>> : <<x>>[i].anchor < a}
  OBVIOUS
<1>4. Before(<<x>>, a) = Cardinality(S) /\ S = IF x.anchor < a THEN {1} ELSE {}
  <2>1. DOMAIN <<x>> = {1} /\ <<x>>[1] = x
    OBVIOUS
  <2>. QED BY <1>3, <2>1 DEF Before
<1>5. CASE x.anchor < a
  <2>1. Before(<<x>>, a) = 1
    BY <1>4, <1>5, FS_Singleton
  <2>2. Insert(<<x>>, a, r) = SubSeq(<<x>>, 1, 1) \o <<y>> \o SubSeq(<<x>>, 1 + 1, Len(<<x>>))
    BY <1>1, <2>1 DEF Insert
  <2>3. SubSeq(<<x>>, 1, 1) = <<x>> /\ SubSeq(<<x>>, 1 + 1, Len(<<x>>)) = <<>>
    <3>1. SubSeq(<<x>>, 1, Len(<<x>>)) = <<x>>
      BY <1>2, SubSeqFull
    <3>2. SubSeq(<<x>>, 2, 1) = <<>>
      BY SubSeqEmpty
    <3>. QED BY <1>2, <3>1, <3>2
  <2>4. <<x>> \o <<y>> = <<x, y>> /\ <<x, y>> \in Seq(Listed)
    BY <1>2, TwoNodes
  <2>5. <<x, y>> \o <<>> = <<x, y>>
    BY <2>4, ConcatEmptySeq
  <2>6. Insert(<<x>>, a, r) = <<x, y>>
    BY <2>2, <2>3, <2>4, <2>5
  <2>. QED BY <1>1, <1>5, <2>6
<1>6. CASE ~(x.anchor < a)
  <2>1. Before(<<x>>, a) = 0
    BY <1>4, <1>6, FS_EmptySet
  <2>2. Insert(<<x>>, a, r) = SubSeq(<<x>>, 1, 0) \o <<y>> \o SubSeq(<<x>>, 0 + 1, Len(<<x>>))
    BY <1>1, <2>1 DEF Insert
  <2>3. SubSeq(<<x>>, 0 + 1, Len(<<x>>)) = <<x>> /\ SubSeq(<<x>>, 1, 0) = <<>>
    <3>1. SubSeq(<<x>>, 1, Len(<<x>>)) = <<x>>
      BY <1>2, SubSeqFull
    <3>2. SubSeq(<<x>>, 1, 0) = <<>>
      BY SubSeqEmpty
    <3>. QED BY <1>2, <3>1, <3>2
  <2>4. <<>> \o <<y>> = <<y>> /\ <<y>> \o <<x>> = <<y, x>>
    BY <1>2, TwoNodes, ConcatEmptySeq
  <2>5. Insert(<<x>>, a, r) = <<y, x>>
    BY <2>2, <2>3, <2>4
  <2>. QED BY <1>1, <1>6, <2>5
<1>. QED BY <1>5, <1>6

-----------------------------------------------------------------------------
(***************************************************************************)
(* Every step keeps the invariant.                                         *)
(***************************************************************************)

\* Acknowledged records are what they were, as long as the anchors differ.
Same == DistinctAnchors /\ DistinctAnchors' => \A k \in acked : Lookup(k)' = Lookup(k)

\* A put that fits stores its record locally.
LEMMA LocalStoreKeeps ==
  ASSUME IInv, NEW t \in Threads, NEW v \in Values, LocalStore(t, v)
  PROVE  IInv' /\ Same
<1>. USE DEF IInv
<1>1. PICK k, p : k = call[t].key /\ p = PickNode(k)
  OBVIOUS
<1>2. /\ k \in Keys /\ ~remotePut /\ Cardinality(Stored(p.local[p.at])) < Capacity
      /\ anchors' = p.anchors /\ local' = [p.local EXCEPT ![p.at] = Store(@, k, v)]
      /\ acked' = acked \cup {k} /\ call' = [call EXCEPT ![t] = NoCall]
      /\ remotePut' = remotePut /\ slist' = slist
  BY <1>1 DEF LocalStore, Ack, Return, TypeOK
<1>3. /\ Fits(p.anchors, p.local, p.at, k)
      /\ \A j \in Keys : Found(anchors, local, j) # NoValue =>
            \/ Found(p.anchors, p.local, j) = Found(anchors, local, j)
            \/ j = k /\ p.anchors[0] = p.anchors[1]
      /\ \A n \in Nodes : \E m \in Nodes : p.local[n] = local[m]
  BY <1>1, <1>2, Picked
<1>4. /\ local' \in [Nodes -> Records]
      /\ anchors'[1] # Empty => anchors'[0] <= anchors'[1] /\ local'[1][anchors'[1]] # NoValue
      /\ \A j \in Stored(local'[0]) : anchors'[0] <= j /\ (anchors'[1] # Empty => j <= anchors'[1])
      /\ \A j \in Stored(local'[1]) : anchors'[1] # Empty /\ anchors'[1] <= j
      /\ anchors'[1] = Empty => Stored(local'[0]) = {anchors'[0]}
      /\ Found(anchors', local', k) # NoValue
      /\ \A j \in Keys : Found(p.anchors, p.local, j) # NoValue =>
                           Found(anchors', local', j) = Found(p.anchors, p.local, j)
      /\ \A n \in Nodes : local'[n] = IF n = p.at THEN Store(p.local[n], k, v) ELSE p.local[n]
  <2>1. Holds(p.anchors, p.local, local', k)
    <3>. HIDE DEF IInv
    <3>. QED BY <1>2, <1>3, StoredFits
  <2>2. \A n \in Nodes : local'[n] = IF n = p.at THEN Store(p.local[n], k, v) ELSE p.local[n]
    BY <1>2, <1>3 DEF Fits
  <2>. QED BY <1>2, <2>1, <2>2 DEF Holds
<1>5. anchors' \in [Nodes -> Keys \cup {Empty}] /\ p.local \in [Nodes -> Records] /\ p.at \in Nodes
      /\ anchors'[0] # Empty
  BY <1>2, <1>3 DEF Fits
<1>6. ASSUME NEW n \in Nodes PROVE Cardinality(Stored(local'[n])) <= Capacity
  <2>1. CASE n = p.at
    <3>1. PICK S : S = Stored(p.local[n])
      OBVIOUS
    <3>2. local'[n] = Store(p.local[n], k, v) /\ Stored(local'[n]) = S \cup {k}
      BY <1>2, <1>4, <1>5, <2>1, <3>1, StoreAdds
    <3>3. IsFiniteSet(S) /\ Cardinality(S) \in Nat /\ Cardinality(S) < Capacity
      BY <1>2, <2>1, <3>1, StoredFinite
    <3>4. Cardinality(S \cup {k}) = IF k \in S THEN Cardinality(S) ELSE Cardinality(S) + 1
      BY <3>3, FS_AddElement
    <3>. QED BY <3>2, <3>3, <3>4, KeyNumbers
  <2>2. CASE n # p.at
    <3>1. PICK m \in Nodes : p.local[n] = local[m]
      BY <1>3
    <3>2. local'[n] = local[m]
      BY <1>4, <2>2, <3>1
    <3>3. Cardinality(Stored(local[m])) <= Capacity
      BY <1>2, KeyNumbers DEF TypeOK
    <3>. QED BY <3>2, <3>3
  <2>. QED BY <2>1, <2>2
<1>7. call' \in [Threads -> [pc : {"idle", "local", "remote"}, op : {"put", "update"}, key : Keys]]
  <2>1. NoCall \in [pc : {"idle", "local", "remote"}, op : {"put", "update"}, key : Keys]
    BY KeyNumbers DEF NoCall, Keys
  <2>. QED BY <1>2, <2>1 DEF TypeOK
<1>8. TypeOK'
  BY <1>2, <1>4, <1>5, <1>6, <1>7 DEF TypeOK, Records
<1>9. NodesOrdered'
  BY <1>4 DEF NodesOrdered
<1>10. AnchorsOK'
  <2>1. anchors'[1] = Empty => Stored(local'[0]) = {anchors'[0]} \ {Empty}
    BY <1>4, <1>5
  <2>. QED BY <1>5, <2>1 DEF AnchorsOK
<1>11. \A j \in acked : j \in Keys /\ Found(anchors, local, j) # NoValue
  BY <1>2 DEF ListOK, TypeOK
<1>12. \A j \in acked' : Found(anchors', local', j) # NoValue
  BY <1>2, <1>3, <1>4, <1>11
<1>13. ListOK'
  BY <1>2, <1>12 DEF ListOK
<1>14. AckedPutReadable'
  BY <1>2, <1>12 DEF AckedPutReadable, Lookup, Found
<1>15. CallsOK'
  BY <1>2 DEF CallsOK, NoCall, TypeOK
<1>16. Same
  <2>1. SUFFICES ASSUME DistinctAnchors', NEW j \in acked PROVE Lookup(j)' = Lookup(j)
    BY DEF Same
  <2>2. p.anchors[0] # p.anchors[1]
    BY <1>2, <2>1 DEF DistinctAnchors
  <2>3. Found(anchors', local', j) = Found(anchors, local, j)
    BY <1>3, <1>4, <1>11, <2>2
  <2>. QED BY <1>2, <2>3 DEF Lookup, Found
<1>. QED BY <1>8, <1>9, <1>10, <1>13, <1>14, <1>15, <1>16

\* A flush that fails has moved the first anchor at most.
LEMMA FlushFailsKeeps ==
  ASSUME IInv, NEW t \in Threads, FlushFails(t)
  PROVE  IInv' /\ Same
<1>. USE DEF IInv
<1>1. PICK k, p : k = call[t].key /\ p = PickNode(k)
  OBVIOUS
<1>2. /\ k \in Keys /\ ~remotePut /\ Cardinality(Stored(p.local[p.at])) = Capacity
      /\ anchors' = p.anchors /\ local' = p.local
      /\ call' = [call EXCEPT ![t].pc = "remote"] /\ call[t].op = "put"
      /\ remotePut' = remotePut /\ slist' = slist /\ acked' = acked
  BY <1>1 DEF FlushFails, GoRemote, TypeOK
<1>3. Stored(p.local[p.at]) # {}
  BY <1>2, FS_EmptySet, KeyNumbers
<1>4. /\ Fits(p.anchors, p.local, p.at, k)
      /\ \A j \in Keys : Found(anchors, local, j) # NoValue =>
            \/ Found(p.anchors, p.local, j) = Found(anchors, local, j)
            \/ j = k /\ p.anchors[0] = p.anchors[1]
      /\ p.local = local /\ p.anchors[1] = anchors[1] /\ p.anchors[1] # Empty
  <2>1. /\ Fits(p.anchors, p.local, p.at, k)
        /\ \A j \in Keys : Found(anchors, local, j) # NoValue =>
              \/ Found(p.anchors, p.local, j) = Found(anchors, local, j)
              \/ j = k /\ p.anchors[0] = p.anchors[1]
        /\ p.local # local \/ p.anchors[1] # anchors[1] =>
              anchors[1] = Empty /\ Stored(p.local[p.at]) = {}
        /\ p.anchors[1] = Empty => Stored(p.local[p.at]) = {}
    <3>. HIDE DEF IInv
    <3>. QED BY <1>1, <1>2, Picked
  <2>. QED BY <1>3, <2>1
<1>5. \A j \in Keys : Found(p.anchors, p.local, j) = Found(anchors, local, j)
  BY <1>4 DEF Found
<1>6. call' \in [Threads -> [pc : {"idle", "local", "remote"}, op : {"put", "update"}, key : Keys]]
      /\ \A o \in Threads : call'[o].op = call[o].op /\ (o # t => call'[o] = call[o])
  BY <1>2 DEF TypeOK
<1>7. TypeOK'
  BY <1>2, <1>4, <1>6 DEF TypeOK, Fits
<1>8. local[1][anchors[1]] # NoValue
  BY <1>4 DEF NodesOrdered
<1>9. NodesOrdered'
  BY <1>2, <1>4, <1>8 DEF NodesOrdered, Fits
<1>10. AnchorsOK' /\ ListOK'
  BY <1>2, <1>4, <1>5 DEF AnchorsOK, ListOK, Fits, TypeOK
<1>11. AckedPutReadable'
  BY <1>2, <1>5 DEF AckedPutReadable, Lookup, Found, TypeOK
<1>12. CallsOK'
  BY <1>2, <1>6 DEF CallsOK
<1>13. Same
  BY <1>2, <1>5 DEF Same, Lookup, Found, TypeOK
<1>. QED BY <1>7, <1>9, <1>10, <1>11, <1>12, <1>13

\* The flush writes both nodes to remote memory, one of them with the record that did not
\* fit, and inserts them into the empty list.
LEMMA FlushKeeps ==
  ASSUME IInv, NEW t \in Threads, NEW v \in Values, Flush(t, v)
  PROVE  IInv' /\ Same
<1>. USE DEF IInv
<1>1. PICK k, p, new : k = call[t].key /\ p = PickNode(k)
                       /\ new = [p.local EXCEPT ![p.at] = Store(@, k, v)]
  OBVIOUS
<1>2. /\ k \in Keys /\ ~remotePut /\ Cardinality(Stored(p.local[p.at])) = Capacity
      /\ anchors' = p.anchors /\ local' = p.local
      /\ slist' = Insert(Insert(slist, p.anchors[0], new[0]), p.anchors[1], new[1])
      /\ acked' = acked \cup {k} /\ call' = [call EXCEPT ![t] = NoCall] /\ remotePut'
  BY <1>1 DEF Flush, Ack, Return, TypeOK
<1>3. Stored(p.local[p.at]) # {}
  BY <1>2, FS_EmptySet, KeyNumbers
<1>4. /\ Fits(p.anchors, p.local, p.at, k)
      /\ \A j \in Keys : Found(anchors, local, j) # NoValue =>
            \/ Found(p.anchors, p.local, j) = Found(anchors, local, j)
            \/ j = k /\ p.anchors[0] = p.anchors[1]
      /\ p.local = local /\ p.anchors[1] = anchors[1] /\ p.anchors[1] # Empty
  <2>1. /\ Fits(p.anchors, p.local, p.at, k)
        /\ \A j \in Keys : Found(anchors, local, j) # NoValue =>
              \/ Found(p.anchors, p.local, j) = Found(anchors, local, j)
              \/ j = k /\ p.anchors[0] = p.anchors[1]
        /\ p.local # local \/ p.anchors[1] # anchors[1] =>
              anchors[1] = Empty /\ Stored(p.local[p.at]) = {}
        /\ p.anchors[1] = Empty => Stored(p.local[p.at]) = {}
    <3>. HIDE DEF IInv
    <3>1. k \in Keys /\ p = PickNode(k)
      BY <1>1, <1>2
    <3>. QED BY <3>1, Picked
  <2>. QED BY <1>3, <2>1
<1>5. Holds(p.anchors, p.local, new, k)
  <2>. HIDE DEF IInv
  <2>. QED BY <1>1, <1>2, <1>4, StoredFits
<1>6. \A j \in acked : j \in Keys /\ Found(anchors, local, j) # NoValue
  BY <1>2 DEF ListOK, TypeOK
<1>7. \A j \in acked' : j \in Keys /\ Found(p.anchors, new, j) # NoValue
  BY <1>2, <1>4, <1>5, <1>6 DEF Holds
<1>8. PICK x, y : x = [anchor |-> p.anchors[0], records |-> new[0]]
                  /\ y = [anchor |-> p.anchors[1], records |-> new[1]]
  OBVIOUS
<1>9. /\ p.anchors[0] \in Keys /\ p.anchors[1] \in Keys /\ p.anchors[0] <= p.anchors[1]
      /\ new[0] \in Records /\ new[1] \in Records /\ x \in Listed /\ y \in Listed
      /\ p.anchors[0] \in Nat /\ p.anchors[1] \in Nat
  BY <1>4, <1>5, <1>8, KeyNumbers DEF Fits, Holds, Listed
<1>10. slist' = IF p.anchors[0] < p.anchors[1] THEN <<x, y>> ELSE <<y, x>>
  <2>1. slist = <<>>
    BY <1>2 DEF ListOK
  <2>2. Insert(slist, p.anchors[0], new[0]) = <<x>>
    BY <1>8, <1>9, <2>1, InsertFirst
  <2>3. Insert(<<x>>, p.anchors[1], new[1]) = IF x.anchor < p.anchors[1] THEN <<x, y>> ELSE <<y, x>>
    BY <1>8, <1>9, InsertSecond
  <2>. QED BY <1>2, <1>8, <2>2, <2>3
<1>11. slist' \in Seq(Listed) /\ Len(slist') = 2
  BY <1>9, <1>10, TwoNodes
<1>12. p.anchors[0] # p.anchors[1] =>
          /\ p.anchors[0] < p.anchors[1] /\ slist'[1] = x /\ slist'[2] = y
  BY <1>9, <1>10
<1>13. TypeOK'
  <2>1. NoCall \in [pc : {"idle", "local", "remote"}, op : {"put", "update"}, key : Keys]
    BY KeyNumbers DEF NoCall, Keys
  <2>2. call' \in [Threads -> [pc : {"idle", "local", "remote"}, op : {"put", "update"}, key : Keys]]
    BY <1>2, <2>1 DEF TypeOK
  <2>3. \A n \in Nodes : Cardinality(Stored(local'[n])) <= Capacity
    BY <1>2, <1>4 DEF TypeOK
  <2>. QED BY <1>2, <1>4, <1>11, <2>2, <2>3 DEF TypeOK, Records, Listed, Fits
<1>14. NodesOrdered'
  BY <1>2, <1>4 DEF NodesOrdered, Fits
<1>15. AnchorsOK'
  BY <1>2, <1>4 DEF AnchorsOK, Fits
<1>16. ListOK'
  BY <1>2, <1>8, <1>11, <1>12 DEF ListOK, DistinctAnchors
<1>17. DistinctAnchors' => \A j \in Keys : Lookup(j)' = IF j < p.anchors[0] THEN NoValue
                                                        ELSE Found(p.anchors, new, j)
  <2>1. SUFFICES ASSUME DistinctAnchors', NEW j \in Keys
                 PROVE  Lookup(j)' = IF j < p.anchors[0] THEN NoValue ELSE Found(p.anchors, new, j)
    OBVIOUS
  <2>2. Route(j)' = IF j >= anchors'[1] THEN 2 ELSE IF j >= anchors'[0] THEN 1 ELSE 0
    <3>1. /\ slist' \in Seq(Listed) /\ Len(slist') = 2 /\ slist'[1].anchor = anchors'[0]
          /\ slist'[2].anchor = anchors'[1] /\ anchors'[0] < anchors'[1]
      BY <1>2, <1>11, <1>16, <2>1 DEF ListOK
    <3>2. Route(j)' = Way(slist', j)
      BY DEF Route, Way
    <3>. QED BY <3>1, <3>2, WayTwo
  <2>3. PICK i : i = Route(j)'
    OBVIOUS
  <2>4. Lookup(j)' = IF i = 0 THEN NoValue ELSE slist'[i].records[j]
    BY <1>2, <2>3 DEF Lookup
  <2>5. slist'[1].records = new[0] /\ slist'[2].records = new[1] /\ j \in Nat
    BY <1>2, <1>8, <1>12, <2>1, KeyNumbers DEF DistinctAnchors
  <2>. QED BY <1>2, <1>4, <1>9, <2>2, <2>3, <2>4, <2>5 DEF Found
<1>18. \A j \in acked' : ~(j < p.anchors[0])
  <2>1. ASSUME NEW j \in acked' PROVE ~(j < p.anchors[0])
    <3>1. j \in Nat /\ (j \in Stored(new[0]) \/ j \in Stored(new[1]))
      BY <1>7, KeyNumbers DEF Found, Stored
    <3>2. CASE j \in Stored(new[0])
      BY <1>5, <1>7, <1>9, <3>2, KeyNumbers DEF Holds
    <3>3. CASE j \in Stored(new[1])
      BY <1>5, <1>7, <1>9, <3>3, KeyNumbers DEF Holds
    <3>. QED BY <3>1, <3>2, <3>3
  <2>. QED BY <2>1
<1>19. AckedPutReadable'
  BY <1>2, <1>7, <1>17, <1>18 DEF AckedPutReadable
<1>20. CallsOK'
  BY <1>2 DEF CallsOK
<1>21. Same
  <2>1. SUFFICES ASSUME DistinctAnchors', NEW j \in acked PROVE Lookup(j)' = Lookup(j)
    BY DEF Same
  <2>2. p.anchors[0] # p.anchors[1] /\ j \in acked'
    BY <1>2, <2>1 DEF DistinctAnchors
  <2>3. Found(p.anchors, new, j) = Found(anchors, local, j)
    BY <1>4, <1>5, <1>6, <2>2 DEF Holds
  <2>. QED BY <1>2, <1>6, <1>17, <1>18, <2>1, <2>2, <2>3 DEF Lookup, Found
<1>. QED BY <1>13, <1>14, <1>15, <1>16, <1>19, <1>20, <1>21

\* A call begins, or finds that the store has become remote.
LEMMA CallKeeps ==
  ASSUME IInv, NEW t \in Threads, Call(t) \/ LocalLate(t)
  PROVE  IInv' /\ Same
<1>. USE DEF IInv
<1>1. UNCHANGED <<anchors, local, remotePut, slist, acked>>
  BY DEF Call, LocalLate
<1>2. call' \in [Threads -> [pc : {"idle", "local", "remote"}, op : {"put", "update"}, key : Keys]]
      /\ CallsOK'
  <2>1. CASE Call(t)
    <3>1. PICK o \in {"put", "update"}, k \in Keys :
             call' = [call EXCEPT ![t] =
                        [pc |-> IF remotePut THEN "remote" ELSE "local", op |-> o, key |-> k]]
      BY <2>1 DEF Call
    <3>. QED BY <1>1, <3>1 DEF CallsOK, TypeOK
  <2>2. CASE LocalLate(t)
    BY <1>1, <2>2 DEF LocalLate, GoRemote, CallsOK, TypeOK
  <2>. QED BY <2>1, <2>2
<1>3. TypeOK'
  BY <1>1, <1>2 DEF TypeOK
<1>4. \A k : Lookup(k)' = Lookup(k)
  BY <1>1 DEF Lookup, Route
<1>5. NodesOrdered' /\ AnchorsOK' /\ ListOK'
  BY <1>1 DEF NodesOrdered, AnchorsOK, ListOK, DistinctAnchors
<1>6. AckedPutReadable' /\ Same
  BY <1>1, <1>4 DEF AckedPutReadable, Same, DistinctAnchors
<1>. QED BY <1>2, <1>3, <1>5, <1>6

\* The other records are what they were, as long as the anchors differ.
SameBut(k) ==
    DistinctAnchors /\ DistinctAnchors' => \A j \in acked : j # k => Lookup(j)' = Lookup(j)

\* A call that returns without a change of the anchors or the local nodes' keys.
LEMMA ReturnKeeps ==
  ASSUME IInv, NEW t \in Threads, call' = [call EXCEPT ![t] = NoCall], UNCHANGED remotePut
  PROVE  /\ call' \in [Threads -> [pc : {"idle", "local", "remote"}, op : {"put", "update"}, key : Keys]]
         /\ CallsOK'
<1>1. NoCall \in [pc : {"idle", "local", "remote"}, op : {"put", "update"}, key : Keys]
  BY KeyNumbers DEF NoCall, Keys
<1>2. call' \in [Threads -> [pc : {"idle", "local", "remote"}, op : {"put", "update"}, key : Keys]]
  BY <1>1 DEF IInv, TypeOK
<1>3. CallsOK'
  BY DEF IInv, CallsOK, NoCall, TypeOK
<1>. QED BY <1>2, <1>3

\* An update under local_mutex overwrites a record that is there.
LEMMA LocalUpdateKeeps ==
  ASSUME IInv, NEW t \in Threads, NEW v \in Values, LocalUpdate(t, v)
  PROVE  IInv' /\ SameBut(call[t].key)
<1>. USE DEF IInv
<1>1. PICK k, n : k = call[t].key /\ n = IF k > anchors[1] THEN 1 ELSE 0
  OBVIOUS
<1>2. /\ k \in Keys /\ n \in Nodes /\ call' = [call EXCEPT ![t] = NoCall]
      /\ local' = IF local[n][k] = NoValue THEN local ELSE [local EXCEPT ![n][k] = v]
      /\ UNCHANGED <<anchors, remotePut, slist, acked>>
  BY <1>1, KeyNumbers DEF LocalUpdate, Return, TypeOK
<1>3. /\ local \in [Nodes -> Records] /\ local' \in [Nodes -> Records]
      /\ \A m \in Nodes, j \in Keys :
            /\ local'[m][j] = NoValue <=> local[m][j] = NoValue
            /\ j # k => local'[m][j] = local[m][j]
  <2>1. local \in [Nodes -> Records]
    BY DEF TypeOK, Records
  <2>2. CASE local[n][k] = NoValue
    BY <1>2, <2>1, <2>2
  <2>3. CASE local[n][k] # NoValue
    BY <1>2, <2>1, <2>3, KeyNumbers DEF Records
  <2>. QED BY <2>1, <2>2, <2>3
<1>4. \A m \in Nodes : Stored(local'[m]) = Stored(local[m])
  BY <1>3 DEF Stored
<1>5. TypeOK'
  BY <1>2, <1>3, <1>4, ReturnKeeps DEF TypeOK, Records
<1>6. NodesOrdered'
  <2>1. anchors[1] # Empty => anchors[1] \in Keys
    BY KeyNumbers DEF TypeOK
  <2>. QED BY <1>2, <1>3, <1>4, <2>1, KeyNumbers DEF NodesOrdered
<1>7. AnchorsOK'
  BY <1>2, <1>4, KeyNumbers DEF AnchorsOK
<1>8. \A j \in Keys : /\ Found(anchors, local', j) = NoValue <=> Found(anchors, local, j) = NoValue
                      /\ j # k => Found(anchors, local', j) = Found(anchors, local, j)
  BY <1>3, KeyNumbers DEF Found
<1>9. ListOK'
  BY <1>2, <1>8 DEF ListOK, DistinctAnchors, TypeOK
<1>10. \A j \in Keys : /\ Lookup(j)' = NoValue <=> Lookup(j) = NoValue
                       /\ j # k => Lookup(j)' = Lookup(j)
  BY <1>2, <1>8 DEF Lookup, Route, Found
<1>11. AckedPutReadable' /\ SameBut(k)
  BY <1>2, <1>10 DEF AckedPutReadable, SameBut, DistinctAnchors, TypeOK
<1>. QED BY <1>1, <1>2, <1>5, <1>6, <1>7, <1>9, <1>11, ReturnKeeps

\* Key k is written in node i of the list, whose records are now r.
Wrote(k, i, r) ==
    /\ remotePut /\ slist' \in Seq(Listed) /\ Len(slist') = Len(slist)
    /\ \A j \in 1..Len(slist) : slist'[j].anchor = slist[j].anchor
    /\ slist'[i].records = r
    /\ \A j \in Keys :
          /\ Route(j)' = Route(j) /\ Route(j) \in 0..Len(slist)
          /\ j # k /\ Route(j) # 0 => slist'[Route(j)].records[j] = slist[Route(j)].records[j]

\* A remote write of key k, which keeps the other records of its node.
LEMMA WriteKeeps ==
  ASSUME IInv, NEW k \in Keys, NEW i, i = Route(k), i # 0, NEW r \in Records,
         slist' = [slist EXCEPT ![i].records = r],
         \A j \in Keys : j # k => r[j] = slist[i].records[j]
  PROVE  Wrote(k, i, r)
<1>1. slist \in Seq(Listed)
  BY DEF IInv, TypeOK, Listed, Records
<1>2. i \in 1..Len(slist) /\ DOMAIN slist = 1..Len(slist) /\ Len(slist) \in Nat
  BY <1>1, RouteIn, LenProperties
<1>3. remotePut
  BY <1>2, EmptySeq DEF IInv, ListOK
<1>4. slist[i] \in Listed
  BY <1>1, <1>2, ElementOfSeq
<1>5. PICK e : e = [slist[i] EXCEPT !.records = r]
  OBVIOUS
<1>6. e \in Listed /\ e.anchor = slist[i].anchor /\ e.records = r
  BY <1>4, <1>5 DEF Listed
<1>7. slist' = [slist EXCEPT ![i] = e]
  BY <1>5
<1>8. slist' \in Seq(Listed) /\ Len(slist') = Len(slist)
      /\ \A j \in 1..Len(slist) : slist'[j] = IF j = i THEN e ELSE slist[j]
  BY <1>1, <1>2, <1>6, <1>7, ExceptSeq
<1>9. \A j \in 1..Len(slist) : slist'[j].anchor = slist[j].anchor
  BY <1>6, <1>8
<1>10. \A j \in Keys : Route(j)' = Route(j) /\ Route(j) \in 0..Len(slist)
  BY <1>1, <1>8, <1>9, RouteKeeps, RouteIn
<1>11. ASSUME NEW j \in Keys, j # k, Route(j) # 0
       PROVE  slist'[Route(j)].records[j] = slist[Route(j)].records[j]
  <2>1. Route(j) \in 1..Len(slist)
    BY <1>2, <1>10, <1>11
  <2>. QED BY <1>6, <1>8, <1>11, <2>1
<1>. QED BY <1>2, <1>3, <1>6, <1>8, <1>9, <1>10, <1>11 DEF Wrote

\* The anchors of the list stay, and so does what is said of the local stage.
LEMMA RemoteKeeps ==
  ASSUME IInv, NEW t \in Threads, call' = [call EXCEPT ![t] = NoCall],
         UNCHANGED <<anchors, local, remotePut>>, acked' \subseteq Keys,
         slist' \in Seq(Listed), Len(slist') = Len(slist),
         \A j \in 1..Len(slist) : slist'[j].anchor = slist[j].anchor,
         ~remotePut => slist' = slist /\ acked' = acked
  PROVE  TypeOK' /\ NodesOrdered' /\ AnchorsOK' /\ ListOK' /\ CallsOK'
<1>. USE DEF IInv
<1>1. TypeOK' /\ CallsOK'
  BY ReturnKeeps DEF TypeOK, Listed, Records
<1>2. NodesOrdered' /\ AnchorsOK'
  BY DEF NodesOrdered, AnchorsOK
<1>3. ListOK'
  BY DEF ListOK, DistinctAnchors
<1>. QED BY <1>1, <1>2, <1>3

\* A remote put stores its record in the node that the list routes to, if any.
LEMMA RemotePutKeeps ==
  ASSUME IInv, NEW t \in Threads, NEW v \in Values, RemotePut(t, v)
  PROVE  IInv' /\ Same
<1>. USE DEF IInv
<1>1. PICK k, i : k = call[t].key /\ i = Route(k)
  OBVIOUS
<1>2. /\ k \in Keys /\ call' = [call EXCEPT ![t] = NoCall]
      /\ UNCHANGED <<anchors, local, remotePut>>
      /\ i = 0 => slist' = slist /\ acked' = acked
      /\ i # 0 => /\ slist' = [slist EXCEPT ![i].records = Store(@, k, v)]
                  /\ acked' = acked \cup {k}
  BY <1>1 DEF RemotePut, Return, Ack, TypeOK
<1>3. slist \in Seq(Listed) /\ acked \subseteq Keys
  BY DEF TypeOK, Listed, Records
<1>4. CASE i = 0
  <2>1. UNCHANGED <<anchors, local, remotePut, slist, acked>>
    BY <1>2, <1>4
  <2>2. TypeOK' /\ NodesOrdered' /\ AnchorsOK' /\ ListOK' /\ CallsOK'
    <3>. HIDE DEF IInv
    <3>. QED BY <1>2, <1>3, <2>1, RemoteKeeps
  <2>3. \A j : Lookup(j)' = Lookup(j)
    BY <2>1 DEF Lookup, Route
  <2>. QED BY <2>1, <2>2, <2>3 DEF AckedPutReadable, Same, DistinctAnchors
<1>5. CASE i # 0
  <2>1. i \in 1..Len(slist) /\ slist[i] \in Listed
    <3>1. i \in 1..Len(slist)
      BY <1>1, <1>2, <1>3, <1>5, RouteIn
    <3>. QED BY <1>3, <3>1, ElementOfSeq
  <2>2. PICK r : r = Store(slist[i].records, k, v)
    OBVIOUS
  <2>3. /\ r \in Records /\ r[k] # NoValue
        /\ \A j \in Keys : slist[i].records[j] # NoValue => r[j] = slist[i].records[j]
        /\ \A j \in Keys : j # k => r[j] = slist[i].records[j]
    <3>1. slist[i].records \in Records
      BY <2>1 DEF Listed
    <3>2. \A j \in Keys : j # k => r[j] = slist[i].records[j]
      BY <1>2, <2>2, <3>1 DEF Store, Records
    <3>. QED BY <1>2, <2>2, <3>1, <3>2, StoreAdds
  <2>4. slist' = [slist EXCEPT ![i].records = r]
    BY <1>2, <1>5, <2>2
  <2>5. /\ remotePut /\ slist' \in Seq(Listed) /\ Len(slist') = Len(slist)
        /\ \A j \in 1..Len(slist) : slist'[j].anchor = slist[j].anchor
        /\ slist'[i].records = r
        /\ \A j \in Keys : /\ Route(j)' = Route(j) /\ Route(j) \in 0..Len(slist)
                           /\ j # k /\ Route(j) # 0 => slist'[Route(j)].records[j] = slist[Route(j)].records[j]
    <3>1. Wrote(k, i, r)
      <4>. HIDE DEF IInv
      <4>. QED BY <1>1, <1>2, <1>5, <2>3, <2>4, WriteKeeps
    <3>. QED BY <3>1 DEF Wrote
  <2>6. TypeOK' /\ NodesOrdered' /\ AnchorsOK' /\ ListOK' /\ CallsOK'
    <3>1. acked' \subseteq Keys
      BY <1>2, <1>3, <1>5
    <3>. HIDE DEF IInv
    <3>. QED BY <1>2, <2>5, <3>1, RemoteKeeps
  <2>7. Lookup(k)' # NoValue /\ (Lookup(k) # NoValue => Lookup(k)' = Lookup(k))
    BY <1>1, <1>2, <1>5, <2>3, <2>5 DEF Lookup
  <2>8. \A j \in Keys : j # k => Lookup(j)' = Lookup(j)
    BY <1>2, <2>5 DEF Lookup
  <2>9. AckedPutReadable'
    BY <1>2, <1>3, <1>5, <2>5, <2>7, <2>8 DEF AckedPutReadable, DistinctAnchors
  <2>10. Same
    BY <1>3, <2>5, <2>7, <2>8 DEF AckedPutReadable, Same
  <2>. QED BY <2>6, <2>9, <2>10
<1>. QED BY <1>4, <1>5

\* A remote update overwrites a record that is there.
LEMMA RemoteUpdateKeeps ==
  ASSUME IInv, NEW t \in Threads, NEW v \in Values, RemoteUpdate(t, v)
  PROVE  /\ IInv' /\ SameBut(call[t].key)
         /\ \A k \in {call[t].key} : Lookup(k) # NoValue => Lookup(k)' = v
<1>. USE DEF IInv
<1>1. PICK k, i : k = call[t].key /\ i = Route(k)
  OBVIOUS
<1>2. /\ k \in Keys /\ call' = [call EXCEPT ![t] = NoCall] /\ remotePut
      /\ UNCHANGED <<anchors, local, remotePut, acked>>
      /\ slist' = IF i = 0 \/ slist[i].records[k] = NoValue THEN slist
                  ELSE [slist EXCEPT ![i].records[k] = v]
  BY <1>1 DEF RemoteUpdate, Return, TypeOK, CallsOK
<1>3. slist \in Seq(Listed) /\ acked \subseteq Keys
  BY DEF TypeOK, Listed, Records
<1>4. CASE i = 0 \/ slist[i].records[k] = NoValue
  <2>1. UNCHANGED <<anchors, local, remotePut, slist, acked>>
    BY <1>2, <1>4
  <2>2. TypeOK' /\ NodesOrdered' /\ AnchorsOK' /\ ListOK' /\ CallsOK'
    <3>. HIDE DEF IInv
    <3>. QED BY <1>2, <1>3, <2>1, RemoteKeeps
  <2>3. \A j : Lookup(j)' = Lookup(j)
    BY <2>1 DEF Lookup, Route
  <2>4. Lookup(k) = NoValue
    BY <1>1, <1>2, <1>4 DEF Lookup
  <2>. QED BY <1>1, <2>1, <2>2, <2>3, <2>4 DEF AckedPutReadable, SameBut, DistinctAnchors
<1>5. CASE i # 0 /\ slist[i].records[k] # NoValue
  <2>1. i \in 1..Len(slist) /\ slist[i] \in Listed
    <3>1. i \in 1..Len(slist)
      BY <1>1, <1>2, <1>3, <1>5, RouteIn
    <3>. QED BY <1>3, <3>1, ElementOfSeq
  <2>2. PICK r : r = [slist[i].records EXCEPT ![k] = v]
    OBVIOUS
  <2>3. /\ r \in Records /\ r[k] = v /\ v # NoValue
        /\ \A j \in Keys : j # k => r[j] = slist[i].records[j]
    <3>1. slist[i].records \in Records
      BY <2>1 DEF Listed
    <3>. QED BY <1>2, <2>2, <3>1, KeyNumbers DEF Records
  <2>4. slist' = [slist EXCEPT ![i].records = r]
    BY <1>2, <1>5, <2>2
  <2>5. /\ remotePut /\ slist' \in Seq(Listed) /\ Len(slist') = Len(slist)
        /\ \A j \in 1..Len(slist) : slist'[j].anchor = slist[j].anchor
        /\ slist'[i].records = r
        /\ \A j \in Keys : /\ Route(j)' = Route(j) /\ Route(j) \in 0..Len(slist)
                           /\ j # k /\ Route(j) # 0 => slist'[Route(j)].records[j] = slist[Route(j)].records[j]
    <3>1. Wrote(k, i, r)
      <4>. HIDE DEF IInv
      <4>. QED BY <1>1, <1>2, <1>5, <2>3, <2>4, WriteKeeps
    <3>. QED BY <3>1 DEF Wrote
  <2>6. TypeOK' /\ NodesOrdered' /\ AnchorsOK' /\ ListOK' /\ CallsOK'
    <3>1. acked' \subseteq Keys
      BY <1>2, <1>3
    <3>. HIDE DEF IInv
    <3>. QED BY <1>2, <2>5, <3>1, RemoteKeeps
  <2>7. Lookup(k)' = v
    BY <1>1, <1>2, <1>5, <2>3, <2>5 DEF Lookup
  <2>8. \A j \in Keys : j # k => Lookup(j)' = Lookup(j)
    BY <1>2, <2>5 DEF Lookup
  <2>9. AckedPutReadable'
    BY <1>2, <1>3, <2>3, <2>7, <2>8 DEF AckedPutReadable, DistinctAnchors
  <2>. QED BY <1>1, <1>3, <2>6, <2>7, <2>8, <2>9 DEF SameBut
<1>. QED BY <1>4, <1>5

-----------------------------------------------------------------------------
(***************************************************************************)
(* The theorems.                                                           *)
(***************************************************************************)

\* What a step does to the acknowledged records.
Puts == Same \/ \E t \in Threads : Finishes(t, "update") /\ SameBut(call[t].key)

\* At first nothing is stored.
LEMMA InvInit == Init => IInv
<1>. SUFFICES ASSUME Init PROVE IInv
  OBVIOUS
<1>. USE DEF Init
<1>1. \A n \in Nodes : Stored(local[n]) = {}
  BY DEF Stored, NoRecords
<1>2. TypeOK
  <2>1. NoCall \in [pc : {"idle", "local", "remote"}, op : {"put", "update"}, key : Keys]
    BY KeyNumbers DEF NoCall, Keys
  <2>2. call \in [Threads -> [pc : {"idle", "local", "remote"}, op : {"put", "update"}, key : Keys]]
    BY <2>1
  <2>3. slist \in Seq([anchor : Keys, records : [Keys -> Values \cup {NoValue}]])
    BY EmptySeq
  <2>4. \A n \in Nodes : Cardinality(Stored(local[n])) <= Capacity
    BY <1>1, FS_EmptySet, KeyNumbers
  <2>5. anchors \in [Nodes -> Keys \cup {Empty}] /\ local \in [Nodes -> [Keys -> Values \cup {NoValue}]]
    BY DEF NoRecords
  <2>. QED BY <2>2, <2>3, <2>4, <2>5 DEF TypeOK
<1>3. NodesOrdered /\ AnchorsOK
  BY <1>1, KeyNumbers DEF NodesOrdered, AnchorsOK
<1>4. ListOK /\ CallsOK /\ AckedPutReadable
  BY DEF ListOK, CallsOK, AckedPutReadable, NoCall
<1>. QED BY <1>2, <1>3, <1>4 DEF IInv

\* Every step keeps the invariant, and the acknowledged records unless it is an update.
LEMMA InvStep == IInv /\ [Next]_vars => IInv' /\ Puts
<1>. SUFFICES ASSUME IInv, [Next]_vars PROVE IInv' /\ Puts
  OBVIOUS
<1>1. ASSUME NEW t \in Threads, Call(t) PROVE IInv' /\ Puts
  BY <1>1, CallKeeps DEF Puts
<1>2. ASSUME NEW t \in Threads, Put(t) PROVE IInv' /\ Puts
  BY <1>2, LocalStoreKeeps, FlushKeeps, RemotePutKeeps, FlushFailsKeeps, CallKeeps DEF Put, Puts
<1>3. ASSUME NEW t \in Threads, Update(t) PROVE IInv' /\ Puts
  <2>1. PICK v \in Values : LocalUpdate(t, v) \/ RemoteUpdate(t, v)
    BY <1>3 DEF Update
  <2>2. Finishes(t, "update")
    BY <2>1 DEF LocalUpdate, RemoteUpdate, Return, Finishes, NoCall, IInv, TypeOK
  <2>. QED BY <2>1, <2>2, LocalUpdateKeeps, RemoteUpdateKeeps DEF Puts
<1>4. CASE UNCHANGED vars
  <2>. USE <1>4 DEF vars
  <2>1. \A k : Lookup(k)' = Lookup(k)
    BY DEF Lookup, Route
  <2>2. TypeOK' /\ NodesOrdered' /\ AnchorsOK' /\ ListOK' /\ CallsOK'
    BY DEF IInv, TypeOK, NodesOrdered, AnchorsOK, ListOK, CallsOK, DistinctAnchors
  <2>3. AckedPutReadable' /\ Same
    BY <2>1 DEF IInv, AckedPutReadable, Same, DistinctAnchors
  <2>. QED BY <2>2, <2>3 DEF IInv, Puts
<1>. QED BY <1>1, <1>2, <1>3, <1>4 DEF Next

\* The invariant holds in every state of every behaviour.
LEMMA Invariant == Spec => []IInv
<1>1. IInv /\ [Next]_vars => IInv'
  BY InvStep
<1>. QED BY <1>1, InvInit, PTL DEF Spec

\* Every variable keeps its type, and no local node is given more records than it has slots.
THEOREM TypeCorrect == Spec => []TypeOK
<1>1. IInv => TypeOK
  BY DEF IInv
<1>. QED BY <1>1, Invariant, PTL

\* In whatever order keys come, quick_put_pick_node keeps the two nodes apart.
THEOREM OrderKept == Spec => []NodesOrdered
<1>1. IInv => NodesOrdered
  BY DEF IInv
<1>. QED BY <1>1, Invariant, PTL

\* A get finds every record whose put has returned true, before and after the flush, as long
\* as the anchors differ.
THEOREM Readable == Spec => []AckedPutReadable
<1>1. IInv => AckedPutReadable
  BY DEF IInv
<1>. QED BY <1>1, Invariant, PTL

\* Neither another put nor the flush changes a record that was acknowledged.
THEOREM PutsKept == Spec => FirstPutWins
<1>1. IInv /\ [Next]_vars =>
        [DistinctAnchors /\ DistinctAnchors' =>
           \A k \in acked :
               \/ Lookup(k)' = Lookup(k)
               \/ \E t \in Threads : Finishes(t, "update") /\ call[t].key = k]_vars
  <2>. SUFFICES ASSUME IInv, [Next]_vars, DistinctAnchors, DistinctAnchors', NEW k \in acked
                PROVE  \/ Lookup(k)' = Lookup(k)
                       \/ \E t \in Threads : Finishes(t, "update") /\ call[t].key = k
    OBVIOUS
  <2>1. Puts
    BY InvStep
  <2>. QED BY <2>1 DEF Puts, Same, SameBut
<1>. QED BY <1>1, Invariant, PTL DEF Spec, FirstPutWins

\* What an update writes is what the next get returns.
THEOREM UpdatesSeen == Spec => UpdateVisible
<1>1. ASSUME IInv, NEW t \in Threads, anchors[1] \notin {Empty, call[t].key},
             ~(call[t].pc = "local" /\ remotePut), NEW v \in Values, NEW k, k = call[t].key,
             Lookup(k) # NoValue, LocalUpdate(t, v) \/ RemoteUpdate(t, v)
      PROVE  Lookup(k)' = v
  <2>1. CASE RemoteUpdate(t, v)
    BY <1>1, <2>1, RemoteUpdateKeeps
  <2>2. CASE LocalUpdate(t, v)
    <3>1. /\ k \in Keys /\ ~remotePut /\ ~remotePut' /\ anchors' = anchors
          /\ anchors[1] \in Nat /\ k \in Nat
      BY <1>1, <2>2, LocalFacts, KeyNumbers DEF LocalUpdate, IInv, TypeOK
    <3>2. PICK n : n = IF k > anchors[1] THEN 1 ELSE 0
      OBVIOUS
    <3>3. k > anchors[1] <=> k >= anchors[1] /\ anchors[1] # Empty
      BY <1>1, <3>1
    <3>4. n \in Nodes /\ Lookup(k) = local[n][k] /\ Lookup(k)' = local'[n][k]
      BY <3>1, <3>2, <3>3, KeyNumbers DEF Lookup
    <3>5. local' = [local EXCEPT ![n][k] = v] /\ local \in [Nodes -> Records]
      BY <1>1, <2>2, <3>2, <3>4, LocalFacts DEF LocalUpdate
    <3>. QED BY <3>1, <3>4, <3>5 DEF Records
  <2>. QED BY <1>1, <2>1, <2>2
<1>2. IInv =>
        [\A t \in Threads :
           /\ Finishes(t, "update")
           /\ anchors[1] \notin {Empty, call[t].key}
           /\ ~(call[t].pc = "local" /\ remotePut)
           => \A k \in {call[t].key}, v \in Values :
                  /\ Lookup(k) # NoValue
                  /\ LocalUpdate(t, v) \/ RemoteUpdate(t, v)
                  => Lookup(k)' = v]_vars
  BY <1>1
<1>. QED BY <1>2, Invariant, PTL DEF Spec, UpdateVisible
=============================================================================
