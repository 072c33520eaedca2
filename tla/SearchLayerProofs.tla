--------------------------- MODULE SearchLayerProofs ---------------------------
(***************************************************************************)
(* Theorems about SearchLayer, for every number of anchors, levels and     *)
(* threads: its variables keep their types; however splits, the background *)
(* thread and searches interleave, levels are part of one another, the     *)
(* upper ones are sorted, and the bottom one but for the links of anchors  *)
(* that a split put out of order; no link is lost, the neighbour of a node *)
(* stays what it is, a search of a list in order finds the node that holds *)
(* its key, and no node waits for a level with nobody about to link it     *)
(* there.                                                                  *)
(***************************************************************************)
EXTENDS SearchLayer, FiniteSetTheorems, WellFoundedInduction, TLAPS

-----------------------------------------------------------------------------
(***************************************************************************)
(* Loops.  A search that moves along a list is written as a function of    *)
(* the turns it has made: here is that such a function exists, whatever a  *)
(* turn does.  The induction is over a set, so that it can be cited for    *)
(* any statement about numbers up to a bound.                              *)
(***************************************************************************)

\* Every set of numbers that has an element has a smallest one: CHOOSE finds it.
LEMMA Minimum ==
  ASSUME NEW S \in SUBSET Nat, S # {}
  PROVE  \E m \in S : \A n \in S : m <= n
<1>. DEFINE R == {x \in Nat \X Nat : x[1] < x[2]}
<1>1. IsWellFoundedOn(R, Nat)
  BY NatLessThanWellFounded DEF OpToRel
<1>2. PICK m \in S : \A n \in S : <<n, m>> \notin R
  BY <1>1, WFMin
<1>3. \A n \in S : ~ (n < m)
  BY <1>2
<1>. QED BY <1>3

\* Induction up to N, over the set of the numbers for which a statement holds.
LEMMA UpTo ==
  ASSUME NEW N \in Nat, NEW G, 0 \in G, \A i \in 1..N : i - 1 \in G => i \in G
  PROVE  \A i \in 0..N : i \in G
<1>. DEFINE C == {i \in 0..N : i \notin G}
<1>1. SUFFICES ASSUME C # {} PROVE FALSE
  OBVIOUS
<1>2. C \in SUBSET Nat
  OBVIOUS
<1>3. PICK m \in C : \A n \in C : m <= n
  BY <1>1, <1>2, Minimum, Zenon
<1>4. m \in 0..N /\ m \notin G
  BY <1>3
<1>5. m \in 1..N /\ m - 1 \in 0..N /\ m - 1 < m
  BY <1>4
<1>6. m - 1 \in G
  <2>1. m - 1 \notin C
    BY <1>3, <1>5
  <2>. QED BY <2>1, <1>5
<1>. QED BY <1>4, <1>5, <1>6

\* The loops that turn N times, from x0 and in turn i by F[i].
Loops(N, S, x0, F) ==
    {w \in [0..N -> S] : w[0] = x0 /\ \A i \in 1..N : w[i] = F[i][w[i - 1]]}

\* There is one: a loop is a function of the turns it has made.
LEMMA Loop ==
  ASSUME NEW S, NEW N \in Nat, NEW x0 \in S, NEW F \in [1..N -> [S -> S]]
  PROVE  Loops(N, S, x0, F) # {}
<1>. DEFINE W(m) == Loops(m, S, x0, F)
            G == {m \in 0..N : W(m) # {}}
<1>1. 0 \in G
  <2>. DEFINE w == [i \in 0..0 |-> x0]
  <2>1. w \in [0..0 -> S] /\ w[0] = x0 /\ 1..0 = {}
    OBVIOUS
  <2>2. w \in W(0)
    BY <2>1 DEF Loops
  <2>. QED BY <2>2
<1>2. ASSUME NEW m \in 1..N, m - 1 \in G PROVE m \in G
  <2>1. PICK v \in [0..(m - 1) -> S] :
           v[0] = x0 /\ \A i \in 1..(m - 1) : v[i] = F[i][v[i - 1]]
    BY <1>2 DEF Loops
  <2>. DEFINE w == [i \in 0..m |-> IF i = m THEN F[m][v[m - 1]] ELSE v[i]]
  <2>2. m \in Nat /\ m # 0 /\ m - 1 \in 0..(m - 1) /\ 0..m = (0..(m - 1)) \cup {m}
    OBVIOUS
  <2>3. F[m][v[m - 1]] \in S
    BY <2>1, <2>2
  <2>4. w \in [0..m -> S] /\ w[0] = x0 /\ w[m] = F[m][v[m - 1]]
    BY <2>1, <2>2, <2>3
  <2>5. \A i \in 0..(m - 1) : w[i] = v[i]
    BY <2>2
  <2>6. ASSUME NEW i \in 1..m PROVE w[i] = F[i][w[i - 1]]
    <3>1. i - 1 \in 0..(m - 1) /\ w[i - 1] = v[i - 1]
      BY <2>5
    <3>2. CASE i = m
      BY <3>1, <3>2, <2>4
    <3>3. CASE i # m
      <4>1. i \in 1..(m - 1) /\ i \in 0..(m - 1)
        BY <3>3
      <4>. QED BY <4>1, <3>1, <2>1, <2>5
    <3>. QED BY <3>2, <3>3
  <2>7. w \in W(m)
    BY <2>4, <2>6 DEF Loops
  <2>8. m \in 0..N
    OBVIOUS
  <2>. HIDE DEF W, w
  <2>. QED BY <2>7, <2>8
<1>3. \A m \in 0..N : m \in G
  <2>. HIDE DEF G
  <2>. QED BY <1>1, <1>2, UpTo
<1>. QED BY <1>3

\* What holds of the first value and is kept by every turn holds of each value.
LEMMA LoopKeeps ==
  ASSUME NEW N \in Nat, NEW w, NEW G, w[0] \in G,
         \A i \in 1..N : w[i - 1] \in G => w[i] \in G
  PROVE  \A i \in 0..N : w[i] \in G
<1>. DEFINE H == {i \in 0..N : w[i] \in G}
<1>1. 0 \in H /\ \A i \in 1..N : i - 1 \in H => i \in H
  OBVIOUS
<1>2. \A i \in 0..N : i \in H
  <2>. HIDE DEF H
  <2>. QED BY <1>1, UpTo
<1>. QED BY <1>2

-----------------------------------------------------------------------------
(***************************************************************************)
(* The inductive invariant.                                                *)
(***************************************************************************)

\* As long as the store is local, only insert runs.
LocalOK ==
    ~remotePut =>
        /\ stray = {}
        /\ updateQueue = <<>> /\ calibration = NoCalibration
        /\ \A s \in Splitters : split[s] = NoSplit
        /\ \A r \in Readers : search[r].pc = "idle"

\* A node is on the levels of its height only, on none above the list's, and has a
\* neighbour only if it exists.
HeightsOK ==
    /\ \A i \in Levels :
          /\ \A a \in Anchors : a \in OnLevel(i) => i < height[a]
          /\ i >= currentLevel => forwards[i][Sentinel] = Nil
    /\ \A a \in Anchors : height[a] = 0 => backward[a] = Nil

\* A node that is on the bottom level at most.
Flat(a) == \A i \in Levels : i > 0 => a \notin OnLevel(i)

\* A splitting thread has the node it splits and the new one to itself; until the
\* new node is published, its successor is that of the other.
Splits(s, c) ==
    /\ c.pc # "idle" /\ c.node \in OnLevel(0) /\ c.node \in Anchors
    /\ c.new \in Anchors /\ (c.node < c.new \/ c.new \in stray)
    /\ height[c.new] > 0 /\ backward[c.new] = Nil /\ Flat(c.new)
    /\ c.pc = "publish" => /\ c.new \notin OnLevel(0)
                           /\ c.new < forwards[0][c.node] \/ c.new \in stray
                           /\ forwards[0][c.new] = forwards[0][c.node]
    /\ c.pc = "backward" => c.new \in OnLevel(0)
    /\ c.new # calibration.node
    /\ \A j \in 1..Len(updateQueue) : updateQueue[j] # c.new
    /\ \A o \in Splitters : split[o].new = c.new \/ split[o].node = c.node => o = s

SplitOK == \A s \in Splitters : split[s] # NoSplit => Splits(s, split[s])

\* A node is queued once, is on the bottom level, and on no other yet.
QueueOK ==
    \A j \in 1..Len(updateQueue) :
        LET a == updateQueue[j] IN
        /\ a \in OnLevel(0) /\ a \in Anchors /\ height[a] > 1 /\ Flat(a) /\ a # calibration.node
        /\ \A k \in 1..Len(updateQueue) : updateQueue[k] = a => k = j

\* The background thread has linked its node on the levels below, and on no other.
CalibrationOK ==
    LET a == calibration.node  l == calibration.level IN
    calibration # NoCalibration =>
        /\ a \in Anchors /\ l > 0 /\ l < height[a] /\ height[a] <= currentLevel
        /\ a \in OnLevel(l - 1)
        /\ \A i \in Levels : i >= l => a \notin OnLevel(i)

\* The walker is on its level, before the member.
Walks(q) ==
    /\ q.member \in Anchors
    /\ q.pc # "done" => q.walker \in OnLevel(q.level) /\ q.walker < q.member
    /\ q.pc \in {"equal", "hit", "range"} => q.level = 0

\* The node that held the member when the search began is not behind the walker when
\* it has arrived.
Arrives(q) ==
    /\ q.floor \in OnLevel(0) /\ q.floor <= q.member
    /\ q.pc \in {"equal", "hit", "range"} => q.floor <= q.walker \/ q.floor = q.member
    /\ q.pc = "hit" => forwards[0][q.walker] <= q.member

\* The second holds while the list is in order.
Searches(q) == q.pc # "idle" => Walks(q) /\ (stray = {} => Arrives(q))

SearchOK == \A r \in Readers : Searches(search[r])

IInv ==
    /\ TypeOK /\ LevelsSorted /\ BackwardBehind /\ SearchFindsHolder
    /\ LocalOK /\ HeightsOK /\ SplitOK /\ QueueOK /\ CalibrationOK /\ SearchOK

-----------------------------------------------------------------------------
(***************************************************************************)
(* Lemmas about a level.                                                   *)
(***************************************************************************)

\* The pointers of a level, and those that lead to greater anchors.
Links == [Nodes -> Anchors \cup {Nil}]
Sorted(link) == \A n \in Nodes : n < link[n]

\* A set of nodes that a walk from the head does not leave.
Closed(link, S) == Sentinel \in S /\ \A n \in S : link[n] \in Anchors => link[n] \in S

\* Nodes are numbers: the head is the least, and the null pointer behind them all.
LEMMA NodeNumbers ==
  /\ MaxAnchor \in Nat /\ Nodes = 0..MaxAnchor /\ Sentinel \in Nodes /\ Sentinel \notin Anchors
  /\ Nil \in Nat /\ Nil \notin Nodes /\ Nil # Sentinel
  /\ \A n \in Nodes : n \in Nat /\ n < Nil /\ Sentinel <= n
  /\ \A a \in Anchors : a \in Nodes /\ a \in Nat /\ Sentinel < a /\ a < Nil
  /\ \A n \in Nodes : n # Sentinel => n \in Anchors
BY BoundsAssumption DEF Nodes, Anchors, Sentinel, Nil

\* Linked is the end of a loop that adds the successors of what it has.
LEMMA LinkedFrom ==
  ASSUME NEW link \in Links
  PROVE  \E from \in [0..MaxAnchor -> SUBSET Nodes] :
            /\ from[0] = {Sentinel}
            /\ \A j \in 1..MaxAnchor :
                  from[j] = from[j - 1] \cup ({link[n] : n \in from[j - 1]} \cap Anchors)
            /\ Linked(link) = from[MaxAnchor]
<1>. DEFINE More(S) == S \cup ({link[n] : n \in S} \cap Anchors)
            Body(f) == [j \in 0..MaxAnchor |-> IF j = 0 THEN {Sentinel} ELSE More(f[j - 1])]
<1>1. MaxAnchor \in Nat /\ {Sentinel} \in SUBSET Nodes
  BY NodeNumbers
<1>2. \A S \in SUBSET Nodes : More(S) \in SUBSET Nodes
  BY NodeNumbers
<1>3. PICK F : F = [j \in 1..MaxAnchor |-> [S \in SUBSET Nodes |-> More(S)]]
  OBVIOUS
<1>4. PICK from \in [0..MaxAnchor -> SUBSET Nodes] :
         from[0] = {Sentinel} /\ \A j \in 1..MaxAnchor : from[j] = F[j][from[j - 1]]
  <2>1. F \in [1..MaxAnchor -> [SUBSET Nodes -> SUBSET Nodes]]
    <3>. HIDE DEF More
    <3>. QED BY <1>2, <1>3
  <2>2. Loops(MaxAnchor, SUBSET Nodes, {Sentinel}, F) # {}
    BY <1>1, <2>1, Loop
  <2>. QED BY <2>2 DEF Loops
<1>5. \A j \in 1..MaxAnchor : j - 1 \in 0..MaxAnchor /\ j # 0 /\ from[j - 1] \in SUBSET Nodes
  BY <1>1
<1>6. \A j \in 1..MaxAnchor : from[j] = More(from[j - 1])
  <2>. HIDE DEF More
  <2>. QED BY <1>3, <1>4, <1>5
<1>7. from = Body(from)
  <2>. HIDE DEF More
  <2>. QED BY <1>1, <1>4, <1>6
<1>8. ASSUME NEW f, f = Body(f) PROVE f \in [0..MaxAnchor -> SUBSET Nodes] /\ f[0] = {Sentinel}
                                   /\ \A j \in 1..MaxAnchor : f[j] = More(f[j - 1])
  <2>. HIDE DEF More
  <2>5. \A j \in 0..MaxAnchor : f[j] = IF j = 0 THEN {Sentinel} ELSE More(f[j - 1])
    BY <1>8
  <2>1. f[0] = {Sentinel} /\ \A j \in 1..MaxAnchor : f[j] = More(f[j - 1])
    BY <1>1, <2>5
  <2>. HIDE DEF Body
  <2>2. \A j \in 1..MaxAnchor : f[j - 1] \in SUBSET Nodes => f[j] \in SUBSET Nodes
    BY <1>2, <2>1
  <2>3. \A j \in 0..MaxAnchor : f[j] \in SUBSET Nodes
    <3>1. f[0] \in SUBSET Nodes
      BY <1>1, <2>1
    <3>. QED BY <1>1, <2>2, <3>1, LoopKeeps
  <2>4. f = [j \in 0..MaxAnchor |-> f[j]]
    BY <1>8 DEF Body
  <2>. QED BY <2>1, <2>3, <2>4
<1>9. Linked(link) = (CHOOSE f : f = Body(f))[MaxAnchor]
  BY DEF Linked
<1>10. PICK f : f = Body(f) /\ Linked(link) = f[MaxAnchor]
  <2>. HIDE DEF Body
  <2>. QED BY <1>7, <1>9
<1>. QED BY <1>8, <1>10

\* It is closed: with every turn that adds something it has one more of the nodes.
LEMMA LinkedClosed ==
  ASSUME NEW link \in Links
  PROVE  Linked(link) \in SUBSET Nodes /\ Closed(link, Linked(link))
<1>1. PICK from \in [0..MaxAnchor -> SUBSET Nodes] :
         /\ from[0] = {Sentinel}
         /\ \A j \in 1..MaxAnchor :
               from[j] = from[j - 1] \cup ({link[n] : n \in from[j - 1]} \cap Anchors)
         /\ Linked(link) = from[MaxAnchor]
  BY LinkedFrom
<1>. DEFINE G == {j \in 0..MaxAnchor : Closed(link, from[j]) \/ j < Cardinality(from[j])}
<1>2. MaxAnchor \in Nat
  BY NodeNumbers
<1>3. IsFiniteSet(Nodes) /\ Cardinality(Nodes) = MaxAnchor + 1
  <2>1. Nodes = 0..MaxAnchor /\ 0 \in Int /\ MaxAnchor \in Int /\ 0 <= MaxAnchor
    BY <1>2, NodeNumbers
  <2>2. IsFiniteSet(0..MaxAnchor) /\ Cardinality(0..MaxAnchor) = MaxAnchor - 0 + 1
    BY <2>1, FS_Interval
  <2>. QED BY <1>2, <2>1, <2>2
<1>4. \A j \in 0..MaxAnchor : Sentinel \in from[j]
  <2>. DEFINE H == {S \in SUBSET Nodes : Sentinel \in S}
  <2>1. from[0] \in H
    BY <1>1, NodeNumbers
  <2>2. ASSUME NEW j \in 1..MaxAnchor, from[j - 1] \in H PROVE from[j] \in H
    <3>1. j \in 0..MaxAnchor
      OBVIOUS
    <3>. QED BY <1>1, <2>2, <3>1
  <2>3. \A j \in 0..MaxAnchor : from[j] \in H
    <3>. HIDE DEF H
    <3>. QED BY <1>2, <2>1, <2>2, LoopKeeps
  <2>. QED BY <2>3
<1>5. 0 \in G
  <2>1. Cardinality({Sentinel}) = 1
    BY FS_Singleton
  <2>2. 0 < Cardinality(from[0]) /\ 0 \in 0..MaxAnchor
    BY <1>1, <1>2, <2>1
  <2>. QED BY <2>2
<1>6. ASSUME NEW j \in 1..MaxAnchor, j - 1 \in G PROVE j \in G
  <2>1. j \in 0..MaxAnchor /\ j - 1 \in 0..MaxAnchor /\ from[j - 1] \subseteq from[j]
        /\ from[j] \in SUBSET Nodes
    BY <1>1, <1>2
  <2>2. CASE Closed(link, from[j - 1])
    <3>1. from[j] = from[j - 1]
      <4>1. {link[n] : n \in from[j - 1]} \cap Anchors \subseteq from[j - 1]
        BY <2>2 DEF Closed
      <4>. QED BY <1>1, <4>1
    <3>. QED BY <2>1, <2>2, <3>1
  <2>3. CASE ~Closed(link, from[j - 1])
    <3>1. PICK n \in from[j - 1] : link[n] \in Anchors /\ link[n] \notin from[j - 1]
      BY <1>4, <2>1, <2>3 DEF Closed
    <3>2. link[n] \in from[j]
      BY <1>1, <3>1
    <3>3. /\ IsFiniteSet(from[j]) /\ IsFiniteSet(from[j - 1])
          /\ Cardinality(from[j]) \in Nat /\ Cardinality(from[j - 1]) \in Nat
          /\ Cardinality(from[j - 1]) <= Cardinality(from[j])
          /\ Cardinality(from[j - 1]) # Cardinality(from[j])
      <4>1. IsFiniteSet(from[j])
        BY <1>3, <2>1, FS_Subset
      <4>2. IsFiniteSet(from[j - 1]) /\ Cardinality(from[j - 1]) <= Cardinality(from[j])
            /\ (Cardinality(from[j - 1]) = Cardinality(from[j]) => from[j - 1] = from[j])
        BY <2>1, <4>1, FS_Subset
      <4>. QED BY <3>1, <3>2, <4>1, <4>2, FS_CardinalityType
    <3>4. j - 1 < Cardinality(from[j - 1])
      BY <1>6, <2>3
    <3>5. j < Cardinality(from[j])
      BY <1>2, <3>3, <3>4
    <3>. QED BY <2>1, <3>5
  <2>. QED BY <2>2, <2>3
<1>7. \A j \in 0..MaxAnchor : j \in G
  <2>. HIDE DEF G
  <2>. QED BY <1>2, <1>5, <1>6, UpTo
<1>8. MaxAnchor \in 0..MaxAnchor /\ Linked(link) \in SUBSET Nodes
  BY <1>1, <1>2
<1>9. CASE MaxAnchor < Cardinality(Linked(link))
  <2>1. Cardinality(Linked(link)) <= Cardinality(Nodes)
        /\ (Cardinality(Linked(link)) = Cardinality(Nodes) => Linked(link) = Nodes)
    BY <1>3, <1>8, FS_Subset
  <2>2. Cardinality(Linked(link)) \in Nat
    BY <1>3, <1>8, FS_Subset, FS_CardinalityType
  <2>3. Linked(link) = Nodes
    BY <1>2, <1>3, <1>9, <2>1, <2>2
  <2>. QED BY <2>3, NodeNumbers DEF Closed
<1>. QED BY <1>1, <1>7, <1>8, <1>9

\* And it is part of every closed set.
LEMMA LinkedLeast ==
  ASSUME NEW link \in Links, NEW S, Closed(link, S)
  PROVE  Linked(link) \subseteq S
<1>1. PICK from \in [0..MaxAnchor -> SUBSET Nodes] :
         /\ from[0] = {Sentinel}
         /\ \A j \in 1..MaxAnchor :
               from[j] = from[j - 1] \cup ({link[n] : n \in from[j - 1]} \cap Anchors)
         /\ Linked(link) = from[MaxAnchor]
  BY LinkedFrom
<1>. DEFINE H == {T \in SUBSET Nodes : T \subseteq S}
<1>2. MaxAnchor \in Nat /\ MaxAnchor \in 0..MaxAnchor
  BY NodeNumbers
<1>3. from[0] \in H
  BY <1>1, NodeNumbers DEF Closed
<1>4. ASSUME NEW j \in 1..MaxAnchor, from[j - 1] \in H PROVE from[j] \in H
  <2>1. j \in 0..MaxAnchor
    OBVIOUS
  <2>. QED BY <1>1, <1>4, <2>1 DEF Closed
<1>5. \A j \in 0..MaxAnchor : from[j] \in H
  <2>. HIDE DEF H
  <2>. QED BY <1>2, <1>3, <1>4, LoopKeeps
<1>. QED BY <1>1, <1>2, <1>5

\* A level's links lead from its nodes to its nodes.
LEMMA LinkedStays ==
  ASSUME NEW link \in Links
  PROVE  /\ Linked(link) \subseteq Nodes /\ Sentinel \in Linked(link)
         /\ \A n \in Linked(link) : link[n] = Nil \/ link[n] \in Linked(link)
<1>1. \A n \in Linked(link) : link[n] \in Anchors \cup {Nil}
  BY LinkedClosed DEF Links
<1>. QED BY <1>1, LinkedClosed DEF Closed

\* A node is linked after p by two stores: the level has that node, too, and no
\* other is lost.
LEMMA LinkAfter ==
  ASSUME NEW link \in Links, NEW f \in Links, NEW p \in Linked(link),
         NEW a \in Anchors, a \notin Linked(link),
         f = [link EXCEPT ![a] = link[p], ![p] = a]
  PROVE  Linked(f) = Linked(link) \cup {a}
<1>1. a \in Nodes /\ p \in Nodes /\ a # p
  BY LinkedStays, NodeNumbers
<1>2. f[p] = a /\ f[a] = link[p] /\ \A n \in Nodes \ {a, p} : f[n] = link[n]
  BY <1>1 DEF Links
<1>3. Closed(f, Linked(link) \cup {a})
  BY <1>1, <1>2, LinkedClosed DEF Closed
<1>4. Closed(f, Linked(f))
  BY LinkedClosed
<1>5. Closed(link, Linked(f) \cap Linked(link))
  <2>1. ASSUME NEW n \in Linked(f) \cap Linked(link), link[n] \in Anchors
        PROVE  link[n] \in Linked(f) \cap Linked(link)
    <3>1. n # a /\ link[n] \in Linked(link) /\ n \in Nodes
      BY <2>1, LinkedClosed DEF Closed
    <3>2. CASE n = p
      BY <1>2, <1>4, <2>1, <3>1, <3>2 DEF Closed
    <3>3. CASE n # p
      BY <1>2, <1>4, <2>1, <3>1, <3>3 DEF Closed
    <3>. QED BY <3>2, <3>3
  <2>. QED BY <2>1, LinkedStays DEF Closed
<1>6. Linked(link) \subseteq Linked(f)
  BY <1>5, LinkedLeast
<1>7. a \in Linked(f)
  BY <1>2, <1>4, <1>6 DEF Closed
<1>8. Linked(f) \subseteq Linked(link) \cup {a}
  BY <1>3, LinkedLeast
<1>. QED BY <1>6, <1>7, <1>8

\* The pointer of a node that is not on the level does not matter.
LEMMA LinkAside ==
  ASSUME NEW link \in Links, NEW f \in Links, NEW a \in Anchors, a \notin Linked(link),
         \A n \in Nodes : n # a => f[n] = link[n]
  PROVE  Linked(f) = Linked(link)
<1>1. Closed(f, Linked(link))
  BY LinkedClosed DEF Closed
<1>2. Closed(link, Linked(f) \cap Linked(link))
  <2>1. Closed(f, Linked(f)) /\ Closed(link, Linked(link)) /\ Linked(link) \subseteq Nodes
    BY LinkedClosed
  <2>. QED BY <2>1 DEF Closed
<1>. QED BY <1>1, <1>2, LinkedLeast

\* In a sorted level no node lies between a node and its successor.
LEMMA SortedLevel ==
  ASSUME NEW link \in Links, Sorted(link), NEW n \in Linked(link), NEW m \in Linked(link), n < m
  PROVE  link[n] <= m
<1>. DEFINE L == Linked(link)
            C == {x \in L : \E y \in L : x < y /\ ~(link[x] <= y)}
<1>1. \A x \in L : x \in Nodes /\ x \in Nat /\ link[x] \in Nat /\ x < link[x]
  BY LinkedStays, NodeNumbers DEF Links, Sorted
<1>2. SUFFICES ASSUME C # {} PROVE FALSE
  OBVIOUS
<1>3. C \in SUBSET Nat
  BY <1>1
<1>4. PICK x \in C : \A y \in C : x <= y
  <2>. HIDE DEF C
  <2>. QED BY <1>2, <1>3, Minimum
<1>5. PICK y \in L : x < y /\ ~(link[x] <= y)
  BY <1>4
<1>. DEFINE T == {k \in L : k <= x \/ link[x] <= k}
<1>6. Closed(link, T)
  <2>1. Sentinel \in T
    BY <1>1, <1>4, LinkedStays, NodeNumbers
  <2>2. ASSUME NEW k \in T, link[k] \in Anchors PROVE link[k] \in T
    <3>1. k \in L /\ link[k] \in L /\ x \in L
      BY <1>4, <2>2, LinkedClosed DEF Closed
    <3>2. CASE k = x
      BY <1>1, <3>1, <3>2
    <3>3. CASE k < x
      <4>1. k \notin C
        BY <1>1, <1>4, <3>1, <3>3
      <4>2. link[k] <= x
        BY <3>1, <3>3, <4>1
      <4>. QED BY <3>1, <4>2
    <3>4. CASE link[x] <= k
      <4>1. link[x] <= link[k]
        BY <1>1, <3>1, <3>4
      <4>. QED BY <3>1, <4>1
    <3>. QED BY <1>1, <2>2, <3>1, <3>2, <3>3, <3>4
  <2>. QED BY <2>1, <2>2 DEF Closed
<1>7. y \in T
  BY <1>6, LinkedLeast
<1>. QED BY <1>1, <1>4, <1>5, <1>7

-----------------------------------------------------------------------------
(***************************************************************************)
(* Lemmas about the walks.                                                 *)
(***************************************************************************)

\* One turn of the walk along level i to anchor a, from node w.
Turn(i, a, w) == IF forwards[i][w] < a THEN forwards[i][w] ELSE w

\* Walk is the end of a loop of such turns.
LEMMA WalkTurns ==
  ASSUME NEW i \in Levels, forwards[i] \in Links, NEW n \in Nodes, NEW a \in Anchors
  PROVE  \E walk \in [0..MaxAnchor -> Nodes] :
            /\ walk[0] = n
            /\ \A j \in 1..MaxAnchor : walk[j] = Turn(i, a, walk[j - 1])
            /\ Walk(i, n, a) = walk[MaxAnchor]
<1>. DEFINE Body(f) == [j \in 0..MaxAnchor |->
                          IF j = 0 THEN n
                          ELSE LET w == f[j - 1] IN
                               IF forwards[i][w] < a THEN forwards[i][w] ELSE w]
<1>1. MaxAnchor \in Nat
  BY NodeNumbers
<1>2. \A w \in Nodes : Turn(i, a, w) \in Nodes
  BY NodeNumbers DEF Links, Turn
<1>3. PICK F : F = [j \in 1..MaxAnchor |-> [w \in Nodes |-> Turn(i, a, w)]]
  OBVIOUS
<1>4. PICK walk \in [0..MaxAnchor -> Nodes] :
         walk[0] = n /\ \A j \in 1..MaxAnchor : walk[j] = F[j][walk[j - 1]]
  <2>1. F \in [1..MaxAnchor -> [Nodes -> Nodes]]
    BY <1>2, <1>3
  <2>2. Loops(MaxAnchor, Nodes, n, F) # {}
    BY <1>1, <2>1, Loop
  <2>. QED BY <2>2 DEF Loops
<1>5. \A j \in 1..MaxAnchor : j - 1 \in 0..MaxAnchor /\ walk[j - 1] \in Nodes
  BY <1>1
<1>6. \A j \in 1..MaxAnchor : walk[j] = Turn(i, a, walk[j - 1])
  BY <1>3, <1>4, <1>5
<1>7. walk = Body(walk)
  BY <1>1, <1>4, <1>6 DEF Turn
<1>8. ASSUME NEW f, f = Body(f) PROVE f \in [0..MaxAnchor -> Nodes] /\ f[0] = n
                                   /\ \A j \in 1..MaxAnchor : f[j] = Turn(i, a, f[j - 1])
  <2>5. \A j \in 0..MaxAnchor : f[j] = IF j = 0 THEN n ELSE Turn(i, a, f[j - 1])
    BY <1>8 DEF Turn
  <2>1. f[0] = n /\ \A j \in 1..MaxAnchor : f[j] = Turn(i, a, f[j - 1])
    BY <1>1, <2>5
  <2>2. \A j \in 1..MaxAnchor : f[j - 1] \in Nodes => f[j] \in Nodes
    BY <1>1, <1>2, <2>1
  <2>3. \A j \in 0..MaxAnchor : f[j] \in Nodes
    <3>. HIDE DEF Body
    <3>. QED BY <1>1, <2>1, <2>2, LoopKeeps
  <2>4. f = [j \in 0..MaxAnchor |-> f[j]]
    BY <1>8
  <2>. QED BY <2>1, <2>3, <2>4
<1>9. Walk(i, n, a) = (CHOOSE f : f = Body(f))[MaxAnchor]
  BY DEF Walk
<1>10. PICK f : f = Body(f) /\ Walk(i, n, a) = f[MaxAnchor]
  <2>. HIDE DEF Body
  <2>. QED BY <1>7, <1>9
<1>. QED BY <1>8, <1>10

\* In a sorted level the walk ends at a node of the level before the anchor, whose
\* successor is not: every turn that moves gets further, and MaxAnchor are enough.
LEMMA WalkEnds ==
  ASSUME NEW i \in Levels, forwards[i] \in Links, Sorted(forwards[i]),
         NEW n \in OnLevel(i), NEW a \in Anchors, n < a
  PROVE  Walk(i, n, a) \in OnLevel(i) /\ Walk(i, n, a) < a /\ a <= forwards[i][Walk(i, n, a)]
<1>1. n \in Nodes /\ OnLevel(i) \subseteq Nodes
  BY LinkedStays DEF OnLevel
<1>2. PICK walk \in [0..MaxAnchor -> Nodes] :
         /\ walk[0] = n
         /\ \A j \in 1..MaxAnchor : walk[j] = Turn(i, a, walk[j - 1])
         /\ Walk(i, n, a) = walk[MaxAnchor]
  BY <1>1, WalkTurns
<1>. DEFINE S == {w \in OnLevel(i) : w < a}
            G == {j \in 0..MaxAnchor : j <= walk[j] \/ a <= forwards[i][walk[j]]}
<1>3. MaxAnchor \in Nat /\ MaxAnchor \in 0..MaxAnchor
  BY NodeNumbers
<1>4. ASSUME NEW j \in 1..MaxAnchor, walk[j - 1] \in S PROVE walk[j] \in S
  <2>1. walk[j] = Turn(i, a, walk[j - 1])
    BY <1>2
  <2>2. forwards[i][walk[j - 1]] = Nil \/ forwards[i][walk[j - 1]] \in OnLevel(i)
    BY <1>4, LinkedStays DEF OnLevel
  <2>3. CASE forwards[i][walk[j - 1]] < a
    <3>1. walk[j] = forwards[i][walk[j - 1]] /\ walk[j] # Nil
      <4>1. a \in Nat /\ a < Nil /\ Nil \in Nat
        BY NodeNumbers
      <4>2. walk[j] = forwards[i][walk[j - 1]] /\ walk[j] < a
        BY <2>1, <2>3 DEF Turn
      <4>. QED BY <4>1, <4>2
    <3>. QED BY <2>2, <2>3, <3>1
  <2>4. CASE ~(forwards[i][walk[j - 1]] < a)
    BY <1>4, <2>1, <2>4 DEF Turn
  <2>. QED BY <2>3, <2>4
<1>5. \A j \in 0..MaxAnchor : walk[j] \in S
  <2>1. walk[0] \in S
    BY <1>2
  <2>. HIDE DEF S
  <2>. QED BY <1>3, <1>4, <2>1, LoopKeeps
<1>6. 0 \in G
  BY <1>1, <1>2, <1>3, NodeNumbers DEF Sentinel
<1>7. ASSUME NEW j \in 1..MaxAnchor, j - 1 \in G PROVE j \in G
  <2>1. j - 1 \in 0..MaxAnchor /\ j \in 0..MaxAnchor /\ walk[j] = Turn(i, a, walk[j - 1])
    BY <1>2, <1>3
  <2>2. walk[j - 1] \in Nat /\ forwards[i][walk[j - 1]] \in Nat /\ a \in Nat
        /\ walk[j - 1] < forwards[i][walk[j - 1]]
    BY <2>1, NodeNumbers DEF Links, Sorted
  <2>3. CASE forwards[i][walk[j - 1]] < a
    <3>1. walk[j] = forwards[i][walk[j - 1]] /\ ~(a <= forwards[i][walk[j - 1]])
      BY <2>1, <2>2, <2>3 DEF Turn
    <3>2. j - 1 <= walk[j - 1]
      BY <1>7, <3>1
    <3>3. j <= walk[j]
      BY <2>2, <3>1, <3>2
    <3>. QED BY <2>1, <3>3
  <2>4. CASE ~(forwards[i][walk[j - 1]] < a)
    <3>1. walk[j] = walk[j - 1] /\ a <= forwards[i][walk[j - 1]]
      BY <2>1, <2>2, <2>4 DEF Turn
    <3>. QED BY <2>1, <3>1
  <2>. QED BY <2>3, <2>4
<1>8. \A j \in 0..MaxAnchor : j \in G
  <2>. HIDE DEF G
  <2>. QED BY <1>3, <1>6, <1>7, UpTo
<1>9. a <= forwards[i][walk[MaxAnchor]]
  <2>1. CASE MaxAnchor <= walk[MaxAnchor]
    <3>1. walk[MaxAnchor] < a /\ a <= MaxAnchor /\ walk[MaxAnchor] \in Nat /\ a \in Nat
      BY <1>3, <1>5, NodeNumbers DEF Anchors
    <3>. QED BY <1>3, <2>1, <3>1
  <2>. QED BY <1>3, <1>8, <2>1
<1>. QED BY <1>2, <1>3, <1>5, <1>9

\* The levels that a state has.
LEMMA LevelNumbers ==
  /\ MaxLevel \in Nat /\ MaxLevel # 0 /\ 0 \in Levels
  /\ \A i \in Levels : i \in Nat /\ i < MaxLevel /\ (i + 1 \in Levels <=> i + 1 # MaxLevel)
                       /\ (i > 0 => i - 1 \in Levels)
BY BoundsAssumption DEF Levels

\* Level i is sorted but for the strays.
InOrder(i) == \A n \in Nodes : n < forwards[i][n] \/ Excused(i, n, forwards[i][n])

\* The pointers of each level of a state are links; they are sorted on the upper levels, and
\* on the bottom level as long as there is no stray.
LEMMA LevelLinks ==
  ASSUME TypeOK, LevelsSorted, NEW i \in Levels
  PROVE  /\ forwards[i] \in Links /\ InOrder(i) /\ (i # 0 \/ stray = {} => Sorted(forwards[i]))
         /\ (i > 0 => OnLevel(i) \subseteq OnLevel(i - 1))
BY DEF TypeOK, LevelsSorted, Links, Sorted, InOrder, Excused

\* What the walk down to level i begins with: the head, or where it was on the level above.
PredFrom(a, i, n) == IF i >= currentLevel THEN Sentinel ELSE Walk(i, n, a)

\* update[] is the end of a loop from the top level down.
LEMMA PredsLoop ==
  ASSUME TypeOK, NEW a \in Anchors
  PROVE  \E v \in [0..MaxLevel -> Nodes] :
            /\ v[0] = Sentinel
            /\ \A j \in 1..MaxLevel : v[j] = PredFrom(a, MaxLevel - j, v[j - 1])
            /\ \A i \in Levels : Preds(a)[i] = v[MaxLevel - i]
<1>. DEFINE Body(f) == [i \in Levels |->
                          IF i >= currentLevel THEN Sentinel
                          ELSE Walk(i, IF i + 1 \in Levels THEN f[i + 1] ELSE Sentinel, a)]
<1>1. MaxLevel \in Nat /\ Sentinel \in Nodes
  BY LevelNumbers, NodeNumbers
<1>2. \A i \in Levels, n \in Nodes : PredFrom(a, i, n) \in Nodes
  <2>1. ASSUME NEW i \in Levels, NEW n \in Nodes PROVE PredFrom(a, i, n) \in Nodes
    <3>1. MaxAnchor \in 0..MaxAnchor /\ forwards[i] \in Links
      BY NodeNumbers DEF TypeOK, Links
    <3>2. Walk(i, n, a) \in Nodes
      BY <3>1, WalkTurns
    <3>. QED BY <1>1, <3>2 DEF PredFrom
  <2>. QED BY <2>1
<1>3. PICK F : F = [j \in 1..MaxLevel |-> [n \in Nodes |-> PredFrom(a, MaxLevel - j, n)]]
  OBVIOUS
<1>4. \A j \in 1..MaxLevel : /\ MaxLevel - j \in Levels /\ j - 1 \in 0..MaxLevel
                             /\ MaxLevel - (MaxLevel - j) = j
                             /\ (MaxLevel - j + 1 \in Levels <=> j # 1)
                             /\ MaxLevel - (MaxLevel - j + 1) = j - 1
  BY <1>1 DEF Levels
<1>5. PICK v \in [0..MaxLevel -> Nodes] :
         v[0] = Sentinel /\ \A j \in 1..MaxLevel : v[j] = F[j][v[j - 1]]
  <2>1. F \in [1..MaxLevel -> [Nodes -> Nodes]]
    BY <1>2, <1>3, <1>4
  <2>2. Loops(MaxLevel, Nodes, Sentinel, F) # {}
    BY <1>1, <2>1, Loop
  <2>. QED BY <2>2 DEF Loops
<1>6. \A j \in 1..MaxLevel : v[j] = PredFrom(a, MaxLevel - j, v[j - 1])
  BY <1>3, <1>4, <1>5
<1>7. PICK p : p = [i \in Levels |-> v[MaxLevel - i]]
  OBVIOUS
<1>8. \A i \in Levels : /\ MaxLevel - i \in 1..MaxLevel /\ MaxLevel - (MaxLevel - i) = i
                        /\ MaxLevel - i - 1 = MaxLevel - (i + 1)
                        /\ (i + 1 \notin Levels => MaxLevel - i - 1 = 0)
  BY <1>1 DEF Levels
<1>9. p = Body(p)
  <2>1. ASSUME NEW i \in Levels
        PROVE  p[i] = IF i >= currentLevel THEN Sentinel
                      ELSE Walk(i, IF i + 1 \in Levels THEN p[i + 1] ELSE Sentinel, a)
    <3>1. p[i] = PredFrom(a, i, v[MaxLevel - i - 1])
      BY <1>6, <1>7, <1>8
    <3>2. v[MaxLevel - i - 1] = IF i + 1 \in Levels THEN p[i + 1] ELSE Sentinel
      BY <1>5, <1>7, <1>8
    <3>. QED BY <3>1, <3>2 DEF PredFrom
  <2>. QED BY <1>7, <2>1
<1>10. ASSUME NEW q, q = Body(q) PROVE \A i \in Levels : q[i] = v[MaxLevel - i]
  <2>. DEFINE G == {j \in 0..MaxLevel : j # 0 => q[MaxLevel - j] = v[j]}
  <2>5. \A i \in Levels : q[i] = IF i >= currentLevel THEN Sentinel
                      ELSE Walk(i, IF i + 1 \in Levels THEN q[i + 1] ELSE Sentinel, a)
    BY <1>10
  <2>. HIDE DEF Body
  <2>1. 0 \in G
    BY <1>1
  <2>2. ASSUME NEW j \in 1..MaxLevel, j - 1 \in G PROVE j \in G
    <3>1. q[MaxLevel - j] = PredFrom(a, MaxLevel - j,
                               IF MaxLevel - j + 1 \in Levels THEN q[MaxLevel - j + 1] ELSE Sentinel)
      BY <1>4, <2>5 DEF PredFrom
    <3>2. (IF MaxLevel - j + 1 \in Levels THEN q[MaxLevel - j + 1] ELSE Sentinel) = v[j - 1]
      <4>1. CASE j = 1
        BY <1>1, <1>4, <1>5, <4>1
      <4>2. CASE j # 1
        <5>1. j - 1 # 0 /\ MaxLevel - (j - 1) = MaxLevel - j + 1 /\ MaxLevel - j + 1 \in Levels
          BY <1>1, <1>4, <4>2
        <5>2. q[MaxLevel - (j - 1)] = v[j - 1]
          BY <2>2, <5>1
        <5>. QED BY <5>1, <5>2
      <4>. QED BY <4>1, <4>2
    <3>3. q[MaxLevel - j] = v[j]
      BY <1>6, <3>1, <3>2
    <3>4. j \in 0..MaxLevel
      OBVIOUS
    <3>. QED BY <3>3, <3>4
  <2>3. \A j \in 0..MaxLevel : j \in G
    <3>. HIDE DEF G
    <3>. QED BY <1>1, <2>1, <2>2, UpTo
  <2>4. ASSUME NEW i \in Levels PROVE q[i] = v[MaxLevel - i]
    <3>1. MaxLevel - i \in 0..MaxLevel /\ MaxLevel - i # 0
      BY <1>1, <1>8
    <3>2. MaxLevel - i \in G
      BY <2>3, <3>1
    <3>. QED BY <1>8, <3>1, <3>2
  <2>. QED BY <2>4
<1>11. Preds(a) = CHOOSE q : q = Body(q)
  BY DEF Preds
<1>12. PICK q : q = Body(q) /\ Preds(a) = q
  <2>. HIDE DEF Body
  <2>. QED BY <1>9, <1>11
<1>13. \A i \in Levels : Preds(a)[i] = v[MaxLevel - i]
  <2>. HIDE DEF Body
  <2>. QED BY <1>10, <1>12
<1>. QED BY <1>5, <1>6, <1>13

\* On every level that is sorted, update[] is the node of the level after which the anchor
\* comes.
LEMMA PredsFound ==
  ASSUME TypeOK, LevelsSorted, HeightsOK, NEW a \in Anchors, NEW i \in Levels,
         i # 0 \/ stray = {}
  PROVE  Preds(a)[i] \in OnLevel(i) /\ Preds(a)[i] < a /\ a <= forwards[i][Preds(a)[i]]
<1>1. PICK v \in [0..MaxLevel -> Nodes] :
         /\ v[0] = Sentinel
         /\ \A j \in 1..MaxLevel : v[j] = PredFrom(a, MaxLevel - j, v[j - 1])
         /\ \A l \in Levels : Preds(a)[l] = v[MaxLevel - l]
  BY PredsLoop
<1>. DEFINE At(l, n) == n \in OnLevel(l) /\ n < a /\ a <= forwards[l][n]
            G == {j \in 0..MaxLevel : j # 0 /\ (MaxLevel - j # 0 \/ stray = {}) => At(MaxLevel - j, v[j])}
<1>2. MaxLevel \in Nat /\ 0 \in G
  BY LevelNumbers
<1>3. \A l \in Levels : Sentinel \in OnLevel(l) /\ Sentinel < a
  BY LevelLinks, LinkedStays, NodeNumbers DEF OnLevel
<1>4. ASSUME NEW j \in 1..MaxLevel, j - 1 \in G PROVE j \in G
  <2>1. PICK l \in Levels :
           l = MaxLevel - j /\ l + 1 = MaxLevel - (j - 1) /\ (j # 1 => l + 1 \in Levels)
    BY <1>2 DEF Levels
  <2>. SUFFICES ASSUME l # 0 \/ stray = {} PROVE j \in G
    BY <2>1
  <2>2. v[j - 1] \in OnLevel(l) /\ v[j - 1] < a
    <3>1. CASE j = 1
      BY <1>1, <1>3, <3>1
    <3>2. CASE j # 1
      <4>1. l + 1 \in Levels /\ j - 1 # 0 /\ At(l + 1, v[j - 1])
        <5>1. j - 1 # 0 /\ MaxLevel - (j - 1) # 0 /\ l + 1 \in Levels
          BY <1>2, <2>1, <3>2, LevelNumbers
        <5>. QED BY <1>4, <2>1, <5>1
      <4>2. l + 1 > 0 /\ l + 1 - 1 = l
        BY LevelNumbers
      <4>3. OnLevel(l + 1) \subseteq OnLevel(l)
        <5>1. PICK k \in Levels : k = l + 1
          BY <4>1
        <5>3. k > 0 /\ k - 1 = l
          BY <4>2, <5>1
        <5>2. OnLevel(k) \subseteq OnLevel(k - 1)
          BY <5>3, LevelLinks
        <5>. QED BY <5>1, <5>2, <5>3
      <4>. QED BY <4>1, <4>3
    <3>. QED BY <3>1, <3>2
  <2>3. v[j] = PredFrom(a, l, v[j - 1])
    BY <1>1, <2>1
  <2>4. At(l, v[j])
    <3>1. CASE l >= currentLevel
      <4>1. v[j] = Sentinel /\ forwards[l][Sentinel] = Nil
        BY <2>3, <3>1 DEF PredFrom, HeightsOK
      <4>. QED BY <1>3, <4>1, NodeNumbers
    <3>2. CASE ~(l >= currentLevel)
      <4>1. v[j] = Walk(l, v[j - 1], a)
        BY <2>3, <3>2 DEF PredFrom
      <4>. QED BY <2>2, <4>1, LevelLinks, WalkEnds
    <3>. QED BY <3>1, <3>2
  <2>5. j \in 0..MaxLevel
    OBVIOUS
  <2>. HIDE DEF At
  <2>. QED BY <2>1, <2>4, <2>5
<1>5. \A j \in 0..MaxLevel : j \in G
  <2>. HIDE DEF G
  <2>. QED BY <1>2, <1>4, UpTo
<1>6. MaxLevel - i \in 0..MaxLevel /\ MaxLevel - i # 0 /\ MaxLevel - (MaxLevel - i) = i
  BY <1>2 DEF Levels
<1>7. MaxLevel - i \in G
  BY <1>5, <1>6
<1>8. At(i, v[MaxLevel - i])
  <2>. HIDE DEF At
  <2>. QED BY <1>6, <1>7
<1>. QED BY <1>1, <1>8

\* The node that holds a member: the last one of the bottom level not beyond it.
LEMMA HolderFound ==
  ASSUME TypeOK, LevelsSorted, NEW m \in Anchors
  PROVE  Holder(m) \in OnLevel(0) /\ Holder(m) <= m
<1>. DEFINE S == {n \in OnLevel(0) : n <= m}
            D == {m - n : n \in S}
<1>1. OnLevel(0) \subseteq Nodes /\ Sentinel \in S /\ m \in Nat /\ \A n \in S : n \in Nat /\ m - n \in Nat
  BY LevelNumbers, LevelLinks, LinkedStays, NodeNumbers DEF OnLevel
<1>2. D \in SUBSET Nat /\ D # {}
  BY <1>1
<1>3. PICK d \in D : \A e \in D : d <= e
  <2>. HIDE DEF D
  <2>. QED BY <1>2, Minimum
<1>4. PICK n \in S : d = m - n
  BY <1>3
<1>5. \A o \in S : o <= n
  <2>1. ASSUME NEW o \in S PROVE o <= n
    <3>1. m - o \in D
      OBVIOUS
    <3>2. m - n <= m - o
      BY <1>3, <1>4, <3>1
    <3>3. m \in Nat /\ n \in Nat /\ o \in Nat
      BY <1>1
    <3>. QED BY <3>2, <3>3
  <2>. QED BY <2>1
<1>6. n \in OnLevel(0) /\ n <= m /\ \A o \in OnLevel(0) : o <= m => o <= n
  BY <1>4, <1>5
<1>7. PICK x : x = Holder(m) /\ x \in OnLevel(0) /\ x <= m
  BY <1>6 DEF Holder
<1>. QED BY <1>7

-----------------------------------------------------------------------------
(***************************************************************************)
(* What the steps do to the levels.                                        *)
(***************************************************************************)

\* A level gets node a; while there is no stray, successors only come nearer.
Gets(i, a) ==
    /\ forwards'[i] \in Links /\ InOrder(i)'
    /\ OnLevel(i)' = OnLevel(i) \cup {a}
    /\ stray' = {} => \A n \in OnLevel(i) : forwards'[i][n] <= forwards[i][n]

\* A node is linked between the last one before it and that one's successor, or is a stray.
LEMMA LinkLevel ==
  ASSUME TypeOK, LevelsSorted, NEW i \in Levels, NEW p \in OnLevel(i), NEW a \in Anchors,
         a \notin OnLevel(i), (p < a /\ a <= forwards[i][p]) \/ (i = 0 /\ a \in stray),
         forwards'[i] = [forwards[i] EXCEPT ![a] = forwards[i][p], ![p] = a], stray' = stray
  PROVE  Gets(i, a) /\ (a < forwards[i][p] \/ (i = 0 /\ a \in stray))
<1>1. forwards[i] \in Links /\ InOrder(i)
  BY LevelLinks
<1>2. a \in Nodes /\ p \in Nodes /\ a # p /\ a \in Nat /\ p \in Nat /\ forwards[i][p] \in Nat
  BY <1>1, LinkedStays, NodeNumbers DEF OnLevel, Links
<1>3. a # forwards[i][p]
  BY <1>1, LinkedStays, NodeNumbers DEF OnLevel
<1>4. (p < a /\ a < forwards[i][p]) \/ (i = 0 /\ a \in stray)
  BY <1>2, <1>3
<1>5. PICK f : f = forwards'[i]
  OBVIOUS
<1>6. f = [forwards[i] EXCEPT ![a] = forwards[i][p], ![p] = a]
  BY <1>5
<1>7. f \in Links
  BY <1>1, <1>2, <1>6 DEF Links
<1>8. f[p] = a /\ f[a] = forwards[i][p] /\ \A n \in Nodes \ {a, p} : f[n] = forwards[i][n]
  BY <1>1, <1>2, <1>6 DEF Links
<1>9. InOrder(i)'
  <2>1. ASSUME NEW n \in Nodes PROVE n < f[n] \/ (i = 0 /\ (n \in stray \/ f[n] \in stray))
    <3>1. CASE n = a
      BY <1>4, <1>8, <3>1
    <3>2. CASE n = p
      BY <1>4, <1>8, <3>2
    <3>3. CASE n # a /\ n # p
      BY <1>1, <1>8, <3>3 DEF InOrder, Excused
    <3>. QED BY <3>1, <3>2, <3>3
  <2>. QED BY <1>5, <2>1 DEF InOrder, Excused
<1>10. Linked(f) = Linked(forwards[i]) \cup {a}
  BY <1>1, <1>6, <1>7, LinkAfter DEF OnLevel
<1>11. OnLevel(i)' = OnLevel(i) \cup {a}
  BY <1>5, <1>10 DEF OnLevel
<1>12. stray' = {} => \A n \in OnLevel(i) : f[n] <= forwards[i][n]
  <2>1. ASSUME stray' = {}, NEW n \in OnLevel(i) PROVE f[n] <= forwards[i][n]
    <3>1. n \in Nodes /\ n # a /\ forwards[i][n] \in Nat
      BY <1>1, LinkedStays, NodeNumbers DEF OnLevel, Links
    <3>2. CASE n = p
      BY <1>2, <1>4, <1>8, <2>1, <3>2
    <3>3. CASE n # p
      <4>1. f[n] = forwards[i][n]
        BY <1>8, <3>1, <3>3
      <4>. QED BY <3>1, <4>1
    <3>. QED BY <3>2, <3>3
  <2>. QED BY <2>1
<1>. QED BY <1>4, <1>5, <1>7, <1>9, <1>11, <1>12 DEF Gets

\* A level whose links stay, or of which only a node that is not on it has changed.
Keeps(i) ==
    /\ forwards'[i] \in Links /\ InOrder(i)'
    /\ OnLevel(i)' = OnLevel(i)
    /\ \A n \in OnLevel(i) : forwards'[i][n] = forwards[i][n]

\* It has the nodes it had.
LEMMA KeepLevel ==
  ASSUME TypeOK, LevelsSorted, NEW i \in Levels, stray \subseteq stray',
         \/ forwards'[i] = forwards[i]
         \/ \E a \in Anchors, x \in Anchors \cup {Nil} :
               /\ a \notin OnLevel(i) /\ (a < x \/ (i = 0 /\ a \in stray'))
               /\ forwards'[i] = [forwards[i] EXCEPT ![a] = x]
  PROVE  Keeps(i)
<1>1. forwards[i] \in Links /\ InOrder(i)
  BY LevelLinks
<1>2. PICK f : f = forwards'[i]
  OBVIOUS
<1>3. CASE f = forwards[i]
  <2>1. OnLevel(i)' = OnLevel(i)
    BY <1>2, <1>3 DEF OnLevel
  <2>2. \A n \in OnLevel(i) : f[n] = forwards[i][n]
    BY <1>3
  <2>3. InOrder(i)'
    BY <1>1, <1>2, <1>3 DEF InOrder, Excused
  <2>. QED BY <1>1, <1>2, <1>3, <2>1, <2>2, <2>3 DEF Keeps
<1>4. CASE f # forwards[i]
  <2>1. PICK a \in Anchors, x \in Anchors \cup {Nil} :
          /\ a \notin OnLevel(i) /\ (a < x \/ (i = 0 /\ a \in stray'))
          /\ f = [forwards[i] EXCEPT ![a] = x]
    BY <1>2, <1>4
  <2>2. a \in Nodes /\ f \in Links /\ f[a] = x /\ \A n \in Nodes : n # a => f[n] = forwards[i][n]
    BY <1>1, <2>1, NodeNumbers DEF Links
  <2>3. InOrder(i)'
    <3>1. ASSUME NEW n \in Nodes PROVE n < f[n] \/ (i = 0 /\ (n \in stray' \/ f[n] \in stray'))
      <4>1. CASE n = a
        BY <2>1, <2>2, <4>1
      <4>2. CASE n # a
        BY <1>1, <2>2, <4>2 DEF InOrder, Excused
      <4>. QED BY <4>1, <4>2
    <3>. QED BY <1>2, <3>1 DEF InOrder, Excused
  <2>4. Linked(f) = Linked(forwards[i])
    <3>1. a \in Anchors /\ a \notin Linked(forwards[i]) /\ forwards[i] \in Links
      BY <1>1, <2>1 DEF OnLevel
    <3>. QED BY <2>2, <3>1, LinkAside
  <2>5. OnLevel(i)' = OnLevel(i)
    BY <1>2, <2>4 DEF OnLevel
  <2>6. \A n \in OnLevel(i) : f[n] = forwards[i][n]
    BY <1>1, <2>1, <2>2, LinkedStays DEF OnLevel
  <2>. QED BY <1>2, <2>2, <2>3, <2>5, <2>6 DEF Keeps
<1>. QED BY <1>3, <1>4

\* The nodes that are on a level are nodes, and the head is.
LEMMA OnLevelNodes ==
  ASSUME TypeOK, LevelsSorted, NEW i \in Levels
  PROVE  /\ OnLevel(i) \subseteq Nodes /\ Sentinel \in OnLevel(i) /\ OnLevel(i) \subseteq OnLevel(0)
         /\ \A n \in OnLevel(i) : n \in Nat /\ forwards[i][n] \in Nat
                                  /\ (forwards[i][n] = Nil \/ forwards[i][n] \in OnLevel(i))
<1>1. /\ OnLevel(i) \subseteq Nodes /\ Sentinel \in OnLevel(i)
      /\ \A n \in OnLevel(i) : forwards[i][n] = Nil \/ forwards[i][n] \in OnLevel(i)
  BY LevelLinks, LinkedStays DEF OnLevel
<1>2. \A n \in OnLevel(i) : n \in Nat /\ forwards[i][n] \in Nat
  BY <1>1, LevelLinks, NodeNumbers DEF Links
<1>3. OnLevel(i) \subseteq OnLevel(0)
  <2>. DEFINE G == {l \in 0..(MaxLevel - 1) : OnLevel(l) \subseteq OnLevel(0)}
  <2>1. MaxLevel - 1 \in Nat /\ Levels = 0..(MaxLevel - 1)
    BY LevelNumbers DEF Levels
  <2>2. 0 \in G
    BY <2>1
  <2>3. ASSUME NEW l \in 1..(MaxLevel - 1), l - 1 \in G PROVE l \in G
    <3>1. l \in Levels /\ l > 0
      BY <2>1
    <3>2. OnLevel(l) \subseteq OnLevel(l - 1)
      BY <3>1, LevelLinks
    <3>. QED BY <2>1, <2>3, <3>1, <3>2
  <2>4. \A l \in 0..(MaxLevel - 1) : l \in G
    <3>. HIDE DEF G
    <3>. QED BY <2>1, <2>2, <2>3, UpTo
  <2>. QED BY <2>1, <2>4
<1>. QED BY <1>1, <1>2, <1>3

-----------------------------------------------------------------------------
(***************************************************************************)
(* Every step keeps the invariant.                                         *)
(***************************************************************************)

\* Levels only grow; while there is no stray, a node's successor only comes nearer.
Grows ==
    /\ stray \subseteq stray'
    /\ \A i \in Levels :
        /\ forwards'[i] \in Links /\ InOrder(i)'
        /\ OnLevel(i) \subseteq OnLevel(i)'
        /\ stray' = {} => \A n \in OnLevel(i) : forwards'[i][n] <= forwards[i][n]

\* They do, when each of them gets a node or keeps those it has.
LEMMA GrowsWhen ==
  ASSUME TypeOK, LevelsSorted, stray \subseteq stray',
         \A i \in Levels : Keeps(i) \/ \E a \in Anchors : Gets(i, a)
  PROVE  Grows
<1>1. ASSUME NEW i \in Levels, Keeps(i)
      PROVE  \A n \in OnLevel(i) : forwards'[i][n] <= forwards[i][n]
  BY <1>1, OnLevelNodes DEF Keeps
<1>. QED BY <1>1 DEF Keeps, Gets, Grows

\* What a search knows stays true when the levels grow.
LEMMA SearchKeeps ==
  ASSUME TypeOK, LevelsSorted, SearchOK, SearchFindsHolder, Grows, search' = search
  PROVE  SearchOK' /\ SearchFindsHolder'
<1>1. 0 \in Levels
  BY LevelNumbers
<1>2. ASSUME NEW r \in Readers, NEW q, q = search[r], q.pc # "idle"
      PROVE  /\ q.member \in Anchors
             /\ q.pc # "done" => q.walker \in Linked(forwards'[q.level]) /\ q.walker < q.member
             /\ q.pc \in {"equal", "hit", "range"} => q.level = 0
             /\ stray' = {} =>
                   /\ q.floor \in OnLevel(0)' /\ q.floor <= q.member
                   /\ q.pc \in {"equal", "hit", "range"} =>
                         q.floor <= q.walker \/ q.floor = q.member
                   /\ q.pc = "hit" => forwards'[0][q.walker] <= q.member
  <2>1. q.level \in Levels
    BY <1>2 DEF TypeOK
  <2>2. \A i \in Levels : OnLevel(i) \subseteq Linked(forwards'[i])
    BY DEF Grows, OnLevel
  <2>3. Walks(q) /\ (stray' = {} => Arrives(q))
    BY <1>2 DEF SearchOK, Searches, Grows
  <2>4. stray' = {} /\ q.pc = "hit" => forwards'[0][q.walker] <= q.member
    <3>1. SUFFICES ASSUME stray' = {}, q.pc = "hit" PROVE forwards'[0][q.walker] <= q.member
      OBVIOUS
    <3>2. /\ q.walker \in OnLevel(0) /\ forwards[0][q.walker] <= q.member /\ q.member \in Nat
      BY <2>3, <3>1, NodeNumbers DEF Walks, Arrives
    <3>3. /\ forwards'[0][q.walker] <= forwards[0][q.walker]
          /\ forwards'[0][q.walker] \in Nat /\ forwards[0][q.walker] \in Nat
      BY <1>1, <3>1, <3>2, OnLevelNodes, NodeNumbers DEF Grows, Links
    <3>. QED BY <3>2, <3>3
  <2>5. stray' = {} => q.floor \in OnLevel(0)'
    BY <1>1, <2>3 DEF Arrives, Grows
  <2>. QED BY <2>1, <2>2, <2>3, <2>4, <2>5 DEF Walks, Arrives
<1>3. SearchOK'
  BY <1>2 DEF SearchOK, Searches, Walks, Arrives, OnLevel
<1>4. stray' = {} => stray = {}
  BY DEF Grows
<1>. QED BY <1>3, <1>4 DEF SearchFindsHolder

\* The flush inserts its two nodes alone.
LEMMA InsertKeeps ==
  ASSUME IInv, NEW a \in Anchors, NEW h \in 1..MaxLevel, Insert(a, h)
  PROVE  IInv' /\ Grows
<1>. USE DEF IInv
<1>1. /\ updateQueue' = <<>> /\ calibration' = NoCalibration /\ currentLevel' = Higher(h)
      /\ \A s \in Splitters : split'[s] = NoSplit
      /\ \A r \in Readers : search'[r].pc = "idle"
      /\ height' = [height EXCEPT ![a] = h] /\ height[a] = 0 /\ ~remotePut
      /\ stray = {} /\ stray' = stray
  BY DEF Insert, MakeNewNode, LocalOK
<1>2. /\ h \in Nat /\ h <= MaxLevel /\ h > 0 /\ h <= currentLevel' /\ currentLevel <= currentLevel'
      /\ currentLevel \in Nat /\ currentLevel' \in 1..MaxLevel /\ \A i \in Levels : i \in Nat
  BY <1>1, LevelNumbers DEF Higher, TypeOK
<1>3. \A i \in Levels : a \notin OnLevel(i)
  BY <1>1, <1>2 DEF HeightsOK
<1>4. \A i \in Levels : forwards'[i] =
         IF i < h THEN [forwards[i] EXCEPT ![a] = forwards[i][Preds(a)[i]], ![Preds(a)[i]] = a]
         ELSE forwards[i]
  BY DEF Insert
<1>5. \A i \in Levels : IF i < h THEN Gets(i, a) ELSE Keeps(i)
  <2>1. ASSUME NEW i \in Levels, i < h PROVE Gets(i, a)
    BY <1>1, <1>3, <1>4, <2>1, PredsFound, LinkLevel
  <2>2. ASSUME NEW i \in Levels, ~(i < h) PROVE Keeps(i)
    BY <1>1, <1>4, <2>2, KeepLevel
  <2>. QED BY <2>1, <2>2
<1>6. Grows
  BY <1>1, <1>5, GrowsWhen
<1>7. 0 \in Levels /\ 0 < h
  BY <1>2, LevelNumbers
<1>8. PICK p : p = Preds(a)[0]
  OBVIOUS
<1>9. p \in OnLevel(0) /\ p < a /\ a < forwards[0][p] /\ p \in Nodes
      /\ (forwards[0][p] # Nil => forwards[0][p] \in OnLevel(0))
  BY <1>1, <1>3, <1>4, <1>7, <1>8, PredsFound, LinkLevel, OnLevelNodes
<1>10. \A b \in Anchors : backward'[b] = IF b = a THEN p
                                         ELSE IF b = forwards[0][p] THEN a
                                         ELSE backward[b]
  BY <1>8 DEF Insert
<1>11. TypeOK'
  <2>1. forwards' = [i \in Levels |-> forwards'[i]] /\ \A i \in Levels : forwards'[i] \in Links
    BY <1>6 DEF Insert, Grows
  <2>2. forwards' \in [Levels -> [Nodes -> Anchors \cup {Nil}]]
    BY <2>1 DEF Links
  <2>3. backward' = [b \in Anchors |-> backward'[b]]
    BY DEF Insert
  <2>4. backward' \in [Anchors -> Nodes \cup {Nil}]
    BY <1>9, <1>10, <2>3, NodeNumbers DEF TypeOK
  <2>5. height' \in [Anchors -> 0..MaxLevel]
    BY <1>1, <1>2 DEF TypeOK
  <2>6. remotePut' \in BOOLEAN
    BY DEF Insert
  <2>. QED BY <1>2, <2>2, <2>4, <2>5, <2>6 DEF Insert, TypeOK
<1>12. LevelsSorted'
  <2>1. ASSUME NEW i \in Levels, i > 0 PROVE OnLevel(i)' \subseteq OnLevel(i - 1)'
    <3>1. i - 1 \in Levels /\ OnLevel(i) \subseteq OnLevel(i - 1) /\ (i < h => i - 1 < h)
      BY <1>2, <2>1, LevelNumbers, LevelLinks
    <3>2. OnLevel(i)' \subseteq OnLevel(i) \cup (IF i < h THEN {a} ELSE {})
      BY <1>5 DEF Gets, Keeps
    <3>3. OnLevel(i - 1)' = OnLevel(i - 1) \cup (IF i - 1 < h THEN {a} ELSE {})
      BY <1>5, <3>1 DEF Gets, Keeps
    <3>. QED BY <3>1, <3>2, <3>3
  <2>. QED BY <1>6, <2>1 DEF LevelsSorted, Grows, InOrder
<1>13. HeightsOK'
  <2>1. ASSUME NEW i \in Levels, NEW b \in Anchors, b \in OnLevel(i)' PROVE i < height'[b]
    <3>1. CASE b = a
      BY <1>1, <1>3, <1>5, <2>1, <3>1 DEF Keeps, TypeOK
    <3>2. CASE b # a
      BY <1>1, <1>5, <2>1, <3>2 DEF Gets, Keeps, HeightsOK, TypeOK
    <3>. QED BY <3>1, <3>2
  <2>2. ASSUME NEW i \in Levels, i >= currentLevel' PROVE forwards'[i][Sentinel] = Nil
    <3>1. ~(i < h) /\ i >= currentLevel
      BY <1>2, <2>2
    <3>. QED BY <1>4, <3>1 DEF HeightsOK
  <2>3. ASSUME NEW b \in Anchors, height'[b] = 0 PROVE backward'[b] = Nil
    <3>1. b # a /\ height[b] = 0
      BY <1>1, <1>2, <2>3 DEF TypeOK
    <3>2. b # forwards[0][p]
      BY <1>7, <1>9, <3>1, NodeNumbers DEF HeightsOK
    <3>. QED BY <1>10, <3>1, <3>2 DEF HeightsOK
  <2>. QED BY <2>1, <2>2, <2>3 DEF HeightsOK
<1>14. BackwardBehind'
  <2>1. ASSUME NEW b \in Anchors, backward'[b] # Nil
        PROVE  (backward'[b] < b \/ b \in stray') /\ backward'[b] \in OnLevel(0)'
    <3>1. OnLevel(0)' = OnLevel(0) \cup {a}
      BY <1>5, <1>7 DEF Gets
    <3>. QED BY <1>1, <1>9, <1>10, <2>1, <3>1 DEF BackwardBehind
  <2>. QED BY <2>1 DEF BackwardBehind
<1>15. LocalOK' /\ SplitOK' /\ CalibrationOK' /\ SearchOK'
  BY <1>1 DEF LocalOK, SplitOK, CalibrationOK, SearchOK, Searches
<1>16. QueueOK'
  BY <1>1 DEF QueueOK
<1>17. SearchFindsHolder'
  BY <1>1 DEF SearchFindsHolder
<1>. QED BY <1>6, <1>11, <1>12, <1>13, <1>14, <1>15, <1>16, <1>17

\* A splitting thread makes a node that nobody knows.
LEMMA SplitMakeKeeps ==
  ASSUME IInv, NEW s \in Splitters, NEW a \in Anchors, NEW h \in 1..MaxLevel, SplitMake(s, a, h)
  PROVE  IInv' /\ Grows
<1>. USE DEF IInv
<1>1. PICK n \in Anchors :
         /\ n \in OnLevel(0) /\ stray' = Strays(n, a)
         /\ \A o \in Splitters : split[o].node # n
         /\ forwards' = [forwards EXCEPT ![0][a] = forwards[0][n]]
         /\ split' = [split EXCEPT ![s] = [pc |-> "publish", node |-> n, new |-> a]]
  BY LevelNumbers, OnLevelNodes, NodeNumbers DEF SplitMake
<1>2. /\ height' = [height EXCEPT ![a] = h] /\ height[a] = 0 /\ h \in Nat /\ h > 0 /\ remotePut
      /\ UNCHANGED <<backward, currentLevel, remotePut, updateQueue, calibration, search>>
  BY DEF SplitMake, MakeNewNode
<1>3. 0 \in Levels /\ \A i \in Levels : i \in Nat /\ a \notin OnLevel(i)
  BY <1>2, LevelNumbers DEF HeightsOK
<1>4. \A i \in Levels : forwards'[i] =
         IF i = 0 THEN [forwards[0] EXCEPT ![a] = forwards[0][n]] ELSE forwards[i]
  BY <1>1, <1>3 DEF TypeOK
<1>5. /\ forwards[0][n] \in Anchors \cup {Nil} /\ n \in Nodes /\ a \in Nodes /\ a # n /\ a # Sentinel
      /\ stray \subseteq stray' /\ stray' \subseteq Anchors
      /\ (n < a /\ a < forwards[0][n]) \/ a \in stray'
  BY <1>1, <1>3, NodeNumbers DEF TypeOK, Strays
<1>6. \A i \in Levels : Keeps(i)
  <2>1. ASSUME NEW i \in Levels PROVE Keeps(i)
    <3>1. CASE i = 0
      BY <1>1, <1>3, <1>4, <1>5, <3>1, KeepLevel
    <3>2. CASE i # 0
      BY <1>4, <1>5, <3>2, KeepLevel
    <3>. QED BY <3>1, <3>2
  <2>. QED BY <2>1
<1>7. Grows
  BY <1>5, <1>6, GrowsWhen
<1>8. /\ forwards'[0][a] = forwards[0][n] /\ forwards'[0][n] = forwards[0][n]
      /\ \A m \in Nodes : m # a => forwards'[0][m] = forwards[0][m]
  BY <1>3, <1>4, <1>5 DEF TypeOK
<1>9. TypeOK'
  <2>1. forwards' \in [Levels -> [Nodes -> Anchors \cup {Nil}]]
    BY <1>1, <1>3, <1>5 DEF TypeOK
  <2>2. height' \in [Anchors -> 0..MaxLevel]
    BY <1>2 DEF TypeOK
  <2>. QED BY <1>1, <1>2, <1>5, <2>1, <2>2 DEF TypeOK
<1>10. LevelsSorted'
  BY <1>6, LevelNumbers DEF LevelsSorted, Keeps, InOrder
<1>11. HeightsOK'
  <2>1. ASSUME NEW i \in Levels, NEW b \in Anchors, b \in OnLevel(i)' PROVE i < height'[b]
    <3>1. b \in OnLevel(i) /\ b # a
      BY <1>3, <1>6, <2>1 DEF Keeps
    <3>. QED BY <1>2, <3>1 DEF HeightsOK, TypeOK
  <2>2. \A i \in Levels : forwards'[i][Sentinel] = forwards[i][Sentinel]
    BY <1>4, <1>5, <1>8, NodeNumbers
  <2>3. \A b \in Anchors : height'[b] = 0 => height[b] = 0
    BY <1>2 DEF TypeOK
  <2>. QED BY <1>2, <2>1, <2>2, <2>3 DEF HeightsOK
<1>12. BackwardBehind' /\ LocalOK' /\ SearchOK' /\ SearchFindsHolder'
  BY <1>2, <1>3, <1>5, <1>6, <1>7, SearchKeeps DEF BackwardBehind, LocalOK, Keeps
<1>13. \A b \in Anchors : Flat(b) => Flat(b)'
  BY <1>6 DEF Flat, Keeps
<1>14. /\ \A j \in 1..Len(updateQueue) : updateQueue[j] \in Anchors /\ updateQueue[j] # a
       /\ calibration.node # a
  <2>1. \A j \in 1..Len(updateQueue) : updateQueue[j] \in Anchors /\ updateQueue[j] # a
    BY <1>2 DEF QueueOK
  <2>2. calibration.node # a
    <3>1. CASE calibration = NoCalibration
      BY <3>1, NodeNumbers DEF NoCalibration
    <3>2. CASE calibration # NoCalibration
      BY <1>2, <3>2, LevelNumbers DEF CalibrationOK, TypeOK
    <3>. QED BY <3>1, <3>2
  <2>. QED BY <2>1, <2>2
<1>15. QueueOK'
  BY <1>2, <1>3, <1>6, <1>13, <1>14 DEF QueueOK, Keeps, TypeOK
<1>16. CalibrationOK'
  <2>1. calibration # NoCalibration => calibration.level - 1 \in Levels
    BY LevelNumbers DEF CalibrationOK, TypeOK
  <2>2. calibration # NoCalibration => height'[calibration.node] = height[calibration.node]
    BY <1>2, <1>14 DEF CalibrationOK, TypeOK
  <2>. QED BY <1>2, <1>6, <2>1, <2>2 DEF CalibrationOK, Keeps
<1>17. SplitOK'
  <2>1. \A o \in Splitters : split[o].new # a /\ split[o].node # n
    BY <1>1, <1>2, NodeNumbers DEF SplitOK, Splits, NoSplit
  <2>2. /\ split'[s] = [pc |-> "publish", node |-> n, new |-> a]
        /\ \A o \in Splitters : o # s => split'[o] = split[o]
    BY <1>1 DEF TypeOK
  <2>3. ASSUME NEW o \in Splitters, NEW c, c = split'[o], c # NoSplit
        PROVE  Splits(o, c)'
    <3>1. CASE o = s
      <4>1. c.pc = "publish" /\ c.node = n /\ c.new = a
        BY <2>2, <2>3, <3>1
      <4>2. height'[a] > 0 /\ backward'[a] = Nil
        BY <1>2 DEF HeightsOK, TypeOK
      <4>. QED BY <1>1, <1>2, <1>3, <1>5, <1>6, <1>8, <1>14, <2>1, <2>2, <3>1, <4>1, <4>2
         DEF Keeps, Splits, Flat
    <3>2. CASE o # s
      <4>1. c = split[o] /\ c.new # a /\ c.node # n
        BY <2>1, <2>2, <2>3, <3>2
      <4>2. Splits(o, c)
        BY <2>3, <4>1 DEF SplitOK
      <4>3. height'[c.new] = height[c.new] /\ c.node # a
        BY <1>2, <1>3, <4>1, <4>2 DEF Splits, TypeOK
      <4>4. forwards'[0][c.new] = forwards[0][c.new] /\ forwards'[0][c.node] = forwards[0][c.node]
        BY <1>8, <4>1, <4>2, <4>3, NodeNumbers DEF Splits
      <4>5. \A x \in Splitters : split'[x].new = c.new \/ split'[x].node = c.node => x = o
        BY <2>2, <4>1, <4>2 DEF Splits
      <4>. QED BY <1>2, <1>3, <1>5, <1>6, <4>2, <4>3, <4>4, <4>5 DEF Keeps, Splits, Flat
    <3>. QED BY <3>1, <3>2
  <2>4. \A o \in Splitters : \E c : c = split'[o] /\ (c # NoSplit => Splits(o, c)')
    BY <2>3
  <2>. QED BY <2>4 DEF SplitOK, Splits, Flat
<1>. QED BY <1>7, <1>9, <1>10, <1>11, <1>12, <1>15, <1>16, <1>17

\* The new node is published on the bottom level.
LEMMA SplitPublishKeeps ==
  ASSUME IInv, NEW s \in Splitters, SplitPublish(s)
  PROVE  IInv' /\ Grows
<1>. USE DEF IInv
<1>1. PICK p \in Anchors, a \in Anchors :
         /\ split[s] = [pc |-> "publish", node |-> p, new |-> a] /\ Splits(s, split[s])
         /\ forwards' = [forwards EXCEPT ![0][p] = a]
         /\ split' = [split EXCEPT ![s] = [pc |-> "backward", node |-> p, new |-> a]]
         /\ UNCHANGED <<backward, height, currentLevel, remotePut, updateQueue, calibration,
                        search, stray>>
  <2>1. split[s] # NoSplit /\ split[s].pc = "publish"
    BY DEF SplitPublish, NoSplit
  <2>2. Splits(s, split[s]) /\ split[s].node \in Anchors /\ split[s].new \in Anchors
    BY <2>1 DEF SplitOK, Splits
  <2>3. split[s] = [pc |-> "publish", node |-> split[s].node, new |-> split[s].new]
    BY <2>1 DEF TypeOK
  <2>4. split'[s] = [pc |-> "backward", node |-> split[s].node, new |-> split[s].new]
    BY <2>3 DEF SplitPublish, TypeOK
  <2>. QED BY <2>2, <2>3, <2>4 DEF SplitPublish, TypeOK
<1>2. /\ p \in OnLevel(0) /\ height[a] > 0 /\ backward[a] = Nil /\ Flat(a)
      /\ (p < a /\ a < forwards[0][p]) \/ a \in stray
      /\ a \notin OnLevel(0) /\ forwards[0][a] = forwards[0][p]
      /\ a # calibration.node /\ \A j \in 1..Len(updateQueue) : updateQueue[j] # a
      /\ \A o \in Splitters : split[o].new = a \/ split[o].node = p => o = s
  BY <1>1 DEF Splits
<1>3. 0 \in Levels /\ \A i \in Levels : i \in Nat /\ (i > 0 <=> i # 0)
  BY LevelNumbers
<1>4. p \in Nodes /\ a \in Nodes /\ a # p /\ a \in Nat /\ p \in Nat /\ forwards[0][p] \in Nat /\ p # Nil
      /\ stray' = stray
  BY <1>1, <1>2, <1>3, OnLevelNodes, NodeNumbers
<1>5. \A i \in Levels : forwards'[i] = IF i = 0 THEN [forwards[0] EXCEPT ![p] = a] ELSE forwards[i]
  BY <1>1, <1>3 DEF TypeOK
<1>6. forwards'[0] = [forwards[0] EXCEPT ![a] = forwards[0][p], ![p] = a]
  <2>1. forwards[0] \in Links
    BY <1>3, LevelLinks
  <2>2. [forwards[0] EXCEPT ![p] = a] = [forwards[0] EXCEPT ![a] = forwards[0][p], ![p] = a]
    BY <1>2, <1>4, <2>1 DEF Links
  <2>. QED BY <1>3, <1>5, <2>2
<1>7. Gets(0, a)
  BY <1>2, <1>3, <1>4, <1>6, LinkLevel
<1>8. \A i \in Levels : i # 0 => Keeps(i)
  BY <1>4, <1>5, KeepLevel
<1>9. Grows
  BY <1>4, <1>7, <1>8, GrowsWhen
<1>10. TypeOK'
  <2>1. forwards' \in [Levels -> [Nodes -> Anchors \cup {Nil}]]
    BY <1>1, <1>3, <1>4 DEF TypeOK
  <2>. QED BY <1>1, <2>1 DEF TypeOK
<1>11. LevelsSorted'
  <2>1. ASSUME NEW i \in Levels, i > 0 PROVE OnLevel(i)' \subseteq OnLevel(i - 1)'
    <3>1. i - 1 \in Levels /\ OnLevel(i) \subseteq OnLevel(i - 1)
      BY <2>1, LevelNumbers, LevelLinks
    <3>. QED BY <1>3, <1>7, <1>8, <2>1, <3>1 DEF Gets, Keeps
  <2>. QED BY <1>9, <2>1 DEF LevelsSorted, Grows, InOrder
<1>12. HeightsOK'
  <2>1. \A i \in Levels, b \in Anchors : b \in OnLevel(i)' => i < height[b]
    BY <1>2, <1>3, <1>7, <1>8 DEF Gets, Keeps, HeightsOK
  <2>2. ASSUME NEW i \in Levels, i >= currentLevel PROVE forwards'[i][Sentinel] = Nil
    BY <1>3, <1>5, <2>2 DEF HeightsOK, TypeOK
  <2>. QED BY <1>1, <2>1, <2>2 DEF HeightsOK
<1>13. BackwardBehind' /\ LocalOK' /\ SearchOK' /\ SearchFindsHolder'
  <2>1. remotePut
    BY <1>1 DEF LocalOK, NoSplit
  <2>2. BackwardBehind'
    BY <1>1, <1>3, <1>9 DEF BackwardBehind, Grows
  <2>. QED BY <1>1, <1>9, <2>1, <2>2, SearchKeeps DEF LocalOK
<1>14. \A b \in Anchors : Flat(b) => Flat(b)'
  BY <1>3, <1>8 DEF Flat, Keeps
<1>15. QueueOK'
  BY <1>1, <1>7, <1>14 DEF QueueOK, Gets
<1>16. CalibrationOK'
  <2>1. calibration # NoCalibration => calibration.level - 1 \in Levels /\ calibration.level > 0
    BY LevelNumbers DEF CalibrationOK, TypeOK
  <2>2. \A i \in Levels : OnLevel(i) \subseteq OnLevel(i)' /\ (i > 0 => OnLevel(i)' = OnLevel(i))
    BY <1>3, <1>8, <1>9 DEF Grows, Keeps
  <2>3. \A i \in Levels : calibration # NoCalibration /\ i >= calibration.level => i > 0
    BY <1>3, <2>1 DEF TypeOK
  <2>. QED BY <1>1, <2>1, <2>2, <2>3 DEF CalibrationOK
<1>17. SplitOK'
  <2>1. /\ split'[s] = [pc |-> "backward", node |-> p, new |-> a]
        /\ \A o \in Splitters : o # s => split'[o] = split[o]
    BY <1>1 DEF TypeOK
  <2>2. \A x \in Splitters : split'[x].new = split[x].new /\ split'[x].node = split[x].node
    BY <1>1, <2>1
  <2>3. ASSUME NEW o \in Splitters, NEW c, c = split'[o], c # NoSplit
        PROVE  Splits(o, c)'
    <3>1. CASE o = s
      <4>1. c.pc = "backward" /\ c.node = p /\ c.new = a
        BY <2>1, <2>3, <3>1
      <4>2. p \in OnLevel(0)' /\ a \in OnLevel(0)' /\ Flat(a)'
        BY <1>2, <1>7, <1>14 DEF Gets
      <4>. QED BY <1>1, <1>2, <1>4, <2>2, <3>1, <4>1, <4>2 DEF Splits
    <3>2. CASE o # s
      <4>1. c = split[o] /\ c.new # a /\ c.node # p
        BY <1>2, <2>1, <2>3, <3>2
      <4>2. Splits(o, c)
        BY <2>3, <4>1 DEF SplitOK
      <4>3. /\ c.node # a
            /\ forwards'[0][c.node] = forwards[0][c.node]
        BY <1>2, <1>3, <1>5, <4>1, <4>2, OnLevelNodes DEF Splits, TypeOK
      <4>4. c.pc = "publish" => c.new \notin OnLevel(0)' /\ forwards'[0][c.new] = forwards[0][c.new]
        <5>1. SUFFICES ASSUME c.pc = "publish"
                       PROVE  c.new \notin OnLevel(0)' /\ forwards'[0][c.new] = forwards[0][c.new]
          OBVIOUS
        <5>2. c.new \notin OnLevel(0) /\ c.new # a /\ c.new # p /\ c.new \in Nodes
          BY <1>2, <4>1, <4>2, <5>1, NodeNumbers DEF Splits
        <5>3. c.new \notin OnLevel(0)'
          BY <1>7, <5>2 DEF Gets
        <5>4. forwards[0] \in Links /\ forwards'[0] = [forwards[0] EXCEPT ![p] = a]
          BY <1>3, <1>5, LevelLinks
        <5>5. forwards'[0][c.new] = forwards[0][c.new]
          BY <5>2, <5>4 DEF Links
        <5>. QED BY <5>3, <5>5
      <4>5. \A x \in Splitters : split'[x].new = c.new \/ split'[x].node = c.node => x = o
        BY <2>2, <4>2 DEF Splits
      <4>6. c.node \in OnLevel(0)' /\ (c.pc = "backward" => c.new \in OnLevel(0)') /\ Flat(c.new)'
        BY <1>7, <1>14, <4>2 DEF Gets, Splits
      <4>. QED BY <1>1, <4>2, <4>3, <4>4, <4>5, <4>6 DEF Splits
    <3>. QED BY <3>1, <3>2
  <2>4. \A o \in Splitters : \E c : c = split'[o] /\ (c # NoSplit => Splits(o, c)')
    BY <2>3
  <2>. QED BY <2>4 DEF SplitOK, Splits, Flat
<1>. QED BY <1>9, <1>10, <1>11, <1>12, <1>13, <1>15, <1>16, <1>17

\* Steps that leave the links alone leave what is said of them alone.
LEMMA SameLinks ==
  ASSUME TypeOK, LevelsSorted, HeightsOK, UNCHANGED <<forwards, height, stray>>
  PROVE  /\ \A i \in Levels : Keeps(i)
         /\ LevelsSorted' /\ Grows /\ \A b \in Anchors : Flat(b)' <=> Flat(b)
         /\ \A i \in Levels, b \in Anchors : b \in OnLevel(i)' => i < height'[b]
<1>1. \A i \in Levels : Keeps(i)
  BY KeepLevel
<1>2. Grows
  BY <1>1, GrowsWhen
<1>3. \A i \in Levels : OnLevel(i)' = OnLevel(i)
  BY <1>1 DEF Keeps
<1>4. LevelsSorted'
  BY <1>3, LevelNumbers DEF LevelsSorted, Excused
<1>5. \A b \in Anchors : Flat(b)' <=> Flat(b)
  BY <1>3 DEF Flat
<1>6. \A i \in Levels, b \in Anchors : b \in OnLevel(i)' => i < height'[b]
  BY <1>3 DEF HeightsOK
<1>. QED BY <1>1, <1>2, <1>4, <1>5, <1>6

\* The new node gets its neighbour, and is queued if it is tall.
LEMMA SplitBackwardKeeps ==
  ASSUME IInv, NEW s \in Splitters, SplitBackward(s)
  PROVE  IInv' /\ Grows
<1>. USE DEF IInv
<1>1. PICK p \in Anchors, a \in Anchors :
         /\ split[s] = [pc |-> "backward", node |-> p, new |-> a] /\ Splits(s, split[s])
         /\ backward' = [backward EXCEPT ![a] = p]
         /\ split' = [split EXCEPT ![s] = NoSplit]
         /\ updateQueue' = IF height[a] = 1 THEN updateQueue ELSE Append(updateQueue, a)
         /\ UNCHANGED <<forwards, height, currentLevel, remotePut, calibration, search, stray>>
  <2>1. split[s] # NoSplit /\ split[s].pc = "backward"
    BY DEF SplitBackward, NoSplit
  <2>2. Splits(s, split[s]) /\ split[s].node \in Anchors /\ split[s].new \in Anchors
    BY <2>1 DEF SplitOK, Splits
  <2>3. split[s] = [pc |-> "backward", node |-> split[s].node, new |-> split[s].new]
    BY <2>1 DEF TypeOK
  <2>. QED BY <2>2, <2>3 DEF SplitBackward
<1>2. /\ p \in OnLevel(0) /\ height[a] > 0 /\ backward[a] = Nil /\ Flat(a)
      /\ p < a \/ a \in stray
      /\ a \in OnLevel(0) /\ a # calibration.node /\ \A j \in 1..Len(updateQueue) : updateQueue[j] # a
      /\ \A o \in Splitters : split[o].new = a \/ split[o].node = p => o = s
  BY <1>1 DEF Splits
<1>3. 0 \in Levels
  BY LevelNumbers
<1>4. /\ \A i \in Levels : Keeps(i)
      /\ LevelsSorted' /\ Grows /\ \A b \in Anchors : Flat(b)' <=> Flat(b)
      /\ \A i \in Levels, b \in Anchors : b \in OnLevel(i)' => i < height'[b]
  BY <1>1, SameLinks
<1>5. \A i \in Levels : OnLevel(i)' = OnLevel(i)
  BY <1>4 DEF Keeps
<1>6. \A b \in Anchors : backward'[b] = IF b = a THEN p ELSE backward[b]
  BY <1>1 DEF TypeOK
<1>7. TypeOK'
  <2>1. backward' \in [Anchors -> Nodes \cup {Nil}] /\ updateQueue' \in Seq(Anchors)
    BY <1>1, NodeNumbers DEF TypeOK
  <2>2. split' \in [Splitters -> [pc : {"idle", "publish", "backward"},
                                  node : Anchors \cup {Nil}, new : Anchors \cup {Nil}]]
    BY <1>1 DEF TypeOK, NoSplit
  <2>. QED BY <1>1, <2>1, <2>2 DEF TypeOK
<1>8. HeightsOK'
  BY <1>1, <1>2, <1>4, <1>6 DEF HeightsOK
<1>9. BackwardBehind'
  BY <1>1, <1>2, <1>3, <1>5, <1>6 DEF BackwardBehind
<1>10. LocalOK' /\ SearchOK' /\ SearchFindsHolder'
  <2>1. remotePut
    BY <1>1 DEF LocalOK, NoSplit
  <2>. QED BY <1>1, <1>4, <2>1, SearchKeeps DEF LocalOK
<1>11. CalibrationOK'
  <2>1. calibration # NoCalibration => calibration.level - 1 \in Levels
    BY LevelNumbers DEF CalibrationOK, TypeOK
  <2>. QED BY <1>1, <1>5, <2>1 DEF CalibrationOK
<1>12. /\ updateQueue \in Seq(Anchors) /\ Len(updateQueue) \in Nat
       /\ \A j \in 1..Len(updateQueue') :
             \/ j \in 1..Len(updateQueue) /\ updateQueue'[j] = updateQueue[j]
             \/ height[a] > 1 /\ j = Len(updateQueue) + 1 /\ updateQueue'[j] = a
  <2>1. updateQueue \in Seq(Anchors) /\ Len(updateQueue) \in Nat
    BY DEF TypeOK
  <2>2. CASE height[a] = 1
    BY <1>1, <2>1, <2>2
  <2>3. CASE height[a] # 1
    <3>1. updateQueue' = Append(updateQueue, a) /\ height[a] > 1
      BY <1>1, <1>2, <2>3 DEF TypeOK
    <3>2. Len(updateQueue') = Len(updateQueue) + 1
      BY <2>1, <3>1
    <3>3. \A j \in 1..Len(updateQueue) : updateQueue'[j] = updateQueue[j]
      BY <2>1, <3>1
    <3>4. updateQueue'[Len(updateQueue) + 1] = a
      BY <2>1, <3>1
    <3>. QED BY <2>1, <3>1, <3>2, <3>3, <3>4
  <2>. QED BY <2>1, <2>2, <2>3
<1>13. QueueOK'
  <2>1. ASSUME NEW j \in 1..Len(updateQueue'), NEW b, b = updateQueue'[j]
        PROVE  /\ b \in OnLevel(0)' /\ b \in Anchors /\ height'[b] > 1 /\ Flat(b)'
               /\ b # calibration'.node
               /\ \A k \in 1..Len(updateQueue') : updateQueue'[k] = b => k = j
    <3>1. CASE j \in 1..Len(updateQueue) /\ b = updateQueue[j]
      <4>1. /\ b \in OnLevel(0) /\ b \in Anchors /\ height[b] > 1 /\ Flat(b) /\ b # calibration.node
            /\ \A k \in 1..Len(updateQueue) : updateQueue[k] = b => k = j
            /\ b # a
        BY <1>2, <3>1 DEF QueueOK
      <4>. QED BY <1>1, <1>3, <1>4, <1>5, <1>12, <4>1
    <3>2. CASE height[a] > 1 /\ j = Len(updateQueue) + 1 /\ b = a
      BY <1>1, <1>2, <1>3, <1>4, <1>5, <1>12, <3>2
    <3>. QED BY <1>12, <2>1, <3>1, <3>2
  <2>. QED BY <2>1 DEF QueueOK, Flat
<1>14. SplitOK'
  <2>1. /\ split'[s] = NoSplit
        /\ \A o \in Splitters : o # s => split'[o] = split[o]
    BY <1>1 DEF TypeOK
  <2>2. ASSUME NEW o \in Splitters, NEW c, c = split'[o], c # NoSplit
        PROVE  Splits(o, c)'
    <3>1. o # s /\ c = split[o]
      BY <2>1, <2>2
    <3>2. Splits(o, c) /\ c.new # a
      BY <1>2, <2>2, <3>1 DEF SplitOK
    <3>3. \A x \in Splitters : split'[x].new = c.new \/ split'[x].node = c.node => x = o
      BY <2>1, <3>2, NodeNumbers DEF Splits, NoSplit
    <3>4. \A j \in 1..Len(updateQueue') : updateQueue'[j] # c.new
      BY <1>12, <3>2 DEF Splits
    <3>. QED BY <1>1, <1>3, <1>4, <1>5, <1>6, <3>2, <3>3, <3>4 DEF Splits
  <2>3. \A o \in Splitters : \E c : c = split'[o] /\ (c # NoSplit => Splits(o, c)')
    BY <2>2
  <2>. QED BY <2>3 DEF SplitOK, Splits, Flat
<1>. QED BY <1>4, <1>7, <1>8, <1>9, <1>10, <1>11, <1>13, <1>14

\* The background thread takes the first node of its queue.
LEMMA CalibratePopKeeps ==
  ASSUME IInv, CalibratePop
  PROVE  IInv' /\ Grows
<1>. USE DEF IInv
<1>1. PICK a : a = updateQueue[1]
  OBVIOUS
<1>2. /\ updateQueue \in Seq(Anchors) /\ updateQueue # <<>> /\ Len(updateQueue) \in Nat
      /\ 1 \in 1..Len(updateQueue) /\ Head(updateQueue) = a
      /\ updateQueue' = Tail(updateQueue) /\ updateQueue' \in Seq(Anchors)
      /\ Len(updateQueue') = Len(updateQueue) - 1
      /\ \A j \in 1..Len(updateQueue') :
            j + 1 \in 1..Len(updateQueue) /\ j + 1 # 1 /\ updateQueue'[j] = updateQueue[j + 1]
  <2>1. updateQueue \in Seq(Anchors) /\ updateQueue # <<>> /\ updateQueue' = Tail(updateQueue)
    BY DEF CalibratePop, TypeOK
  <2>. QED BY <1>1, <2>1
<1>3. /\ calibration = NoCalibration /\ calibration' = [node |-> a, level |-> 1]
      /\ currentLevel' = Higher(height[a])
      /\ UNCHANGED <<forwards, backward, height, remotePut, split, search, stray>>
  BY <1>2 DEF CalibratePop
<1>4. /\ a \in OnLevel(0) /\ a \in Anchors /\ height[a] > 1 /\ Flat(a)
      /\ \A k \in 1..Len(updateQueue) : updateQueue[k] = a => k = 1
  BY <1>1, <1>2 DEF QueueOK
<1>5. /\ height[a] \in Nat /\ height[a] <= MaxLevel /\ 1 \in Levels /\ 0 \in Levels
      /\ currentLevel \in Nat /\ currentLevel <= currentLevel' /\ height[a] <= currentLevel'
      /\ currentLevel' \in 1..MaxLevel
  BY <1>3, <1>4, LevelNumbers DEF TypeOK, Higher, Levels
<1>6. /\ \A i \in Levels : Keeps(i)
      /\ LevelsSorted' /\ Grows /\ \A b \in Anchors : Flat(b)' <=> Flat(b)
      /\ \A i \in Levels, b \in Anchors : b \in OnLevel(i)' => i < height'[b]
  BY <1>3, SameLinks
<1>7. \A i \in Levels : OnLevel(i)' = OnLevel(i)
  BY <1>6 DEF Keeps
<1>8. \A i \in Levels : i \in Nat
  BY LevelNumbers
<1>9. TypeOK'
  BY <1>2, <1>3, <1>4, <1>5 DEF TypeOK
<1>10. HeightsOK'
  <2>1. ASSUME NEW i \in Levels, i >= currentLevel' PROVE forwards'[i][Sentinel] = Nil
    <3>1. i >= currentLevel
      BY <1>5, <1>8, <2>1
    <3>. QED BY <1>3, <3>1 DEF HeightsOK
  <2>. QED BY <1>3, <1>6, <2>1 DEF HeightsOK
<1>11. BackwardBehind' /\ SearchOK' /\ SearchFindsHolder'
  BY <1>3, <1>5, <1>6, <1>7, SearchKeeps DEF BackwardBehind
<1>12. LocalOK'
  BY <1>2, <1>3 DEF LocalOK
<1>13. CalibrationOK'
  <2>1. calibration'.node = a /\ calibration'.level = 1 /\ 1 - 1 = 0
    BY <1>3
  <2>2. a \in OnLevel(0)' /\ \A i \in Levels : i >= 1 => a \notin OnLevel(i)'
    BY <1>4, <1>5, <1>7, <1>8 DEF Flat
  <2>. QED BY <1>3, <1>4, <1>5, <2>1, <2>2 DEF CalibrationOK
<1>14. QueueOK'
  <2>1. ASSUME NEW j \in 1..Len(updateQueue'), NEW b, b = updateQueue'[j]
        PROVE  /\ b \in OnLevel(0)' /\ b \in Anchors /\ height'[b] > 1 /\ Flat(b)'
               /\ b # calibration'.node
               /\ \A k \in 1..Len(updateQueue') : updateQueue'[k] = b => k = j
    <3>1. j + 1 \in 1..Len(updateQueue) /\ b = updateQueue[j + 1] /\ j \in Nat
      BY <1>2, <2>1
    <3>2. /\ b \in OnLevel(0) /\ b \in Anchors /\ height[b] > 1 /\ Flat(b)
          /\ \A k \in 1..Len(updateQueue) : updateQueue[k] = b => k = j + 1
      BY <3>1 DEF QueueOK
    <3>3. b # a
      BY <1>2, <3>1, <1>4
    <3>4. ASSUME NEW k \in 1..Len(updateQueue'), updateQueue'[k] = b PROVE k = j
      <4>1. k + 1 \in 1..Len(updateQueue) /\ updateQueue[k + 1] = b /\ k \in Nat
        BY <1>2, <3>4
      <4>2. k + 1 = j + 1
        BY <3>2, <4>1
      <4>. QED BY <3>1, <4>1, <4>2
    <3>. QED BY <1>3, <1>5, <1>6, <1>7, <3>2, <3>3, <3>4
  <2>. QED BY <2>1 DEF QueueOK, Flat
<1>15. SplitOK'
  <2>1. ASSUME NEW o \in Splitters, NEW c, c = split'[o], c # NoSplit
        PROVE  Splits(o, c)'
    <3>1. c = split[o] /\ Splits(o, c)
      BY <1>3, <2>1 DEF SplitOK
    <3>2. c.new # calibration'.node /\ \A j \in 1..Len(updateQueue') : updateQueue'[j] # c.new
      BY <1>1, <1>2, <1>3, <3>1 DEF Splits
    <3>3. Flat(c.new)' /\ c.node \in OnLevel(0)'
      BY <1>5, <1>6, <1>7, <3>1 DEF Splits
    <3>. QED BY <1>3, <1>5, <1>7, <3>1, <3>2, <3>3 DEF Splits
  <2>2. \A o \in Splitters : \E c : c = split'[o] /\ (c # NoSplit => Splits(o, c)')
    BY <2>1
  <2>. QED BY <2>2 DEF SplitOK, Splits, Flat
<1>. QED BY <1>6, <1>9, <1>10, <1>11, <1>12, <1>13, <1>14, <1>15

\* The background thread links its node on one more level.
LEMMA CalibrateLinkKeeps ==
  ASSUME IInv, CalibrateLink
  PROVE  IInv' /\ Grows
<1>. USE DEF IInv
<1>1. PICK a, l, p : a = calibration.node /\ l = calibration.level /\ p = Preds(a)[l]
  OBVIOUS
<1>2. /\ forwards' = [forwards EXCEPT ![l][a] = forwards[l][p], ![l][p] = a]
      /\ calibration' = IF l + 1 < height[a] THEN [calibration EXCEPT !.level = l + 1]
                        ELSE NoCalibration
      /\ UNCHANGED <<backward, height, currentLevel, remotePut, updateQueue, split, search, stray>>
  BY <1>1 DEF CalibrateLink
<1>3. /\ a \in Anchors /\ l > 0 /\ l < height[a] /\ height[a] <= currentLevel
      /\ a \in OnLevel(l - 1) /\ \A i \in Levels : i >= l => a \notin OnLevel(i)
  BY <1>1 DEF CalibrateLink, CalibrationOK
<1>4. l \in Levels /\ l - 1 \in Levels /\ 0 \in Levels /\ height[a] \in Nat /\ height[a] <= MaxLevel
      /\ \A i \in Levels : i \in Nat
  BY <1>1, <1>3, LevelNumbers DEF TypeOK
<1>5. p \in OnLevel(l) /\ p < a /\ a <= forwards[l][p] /\ a \notin OnLevel(l) /\ l # 0
  BY <1>1, <1>3, <1>4, PredsFound
<1>6. p \in Nodes /\ a \in Nodes /\ a # p /\ forwards[l] \in Links
  BY <1>3, <1>4, <1>5, OnLevelNodes, LevelLinks, NodeNumbers
<1>7. \A i \in Levels : forwards'[i] =
         IF i = l THEN [forwards[l] EXCEPT ![a] = forwards[l][p], ![p] = a] ELSE forwards[i]
  <2>1. DOMAIN forwards = Levels
    BY DEF TypeOK
  <2>. QED BY <1>2, <1>4, <2>1
<1>8. Gets(l, a)
  BY <1>2, <1>3, <1>4, <1>5, <1>7, LinkLevel
<1>9. \A i \in Levels : i # l => Keeps(i)
  BY <1>2, <1>7, KeepLevel
<1>10. Grows
  BY <1>2, <1>3, <1>8, <1>9, GrowsWhen
<1>11. \A i \in Levels : OnLevel(i)' = IF i = l THEN OnLevel(i) \cup {a} ELSE OnLevel(i)
  BY <1>8, <1>9 DEF Gets, Keeps
<1>12. TypeOK'
  <2>1. forwards' = [i \in Levels |-> forwards'[i]]
    BY <1>2 DEF TypeOK
  <2>2. forwards' \in [Levels -> [Nodes -> Anchors \cup {Nil}]]
    BY <1>10, <2>1 DEF Grows, Links
  <2>3. l + 1 < height[a] => l + 1 \in Levels
    BY <1>4, LevelNumbers DEF Levels
  <2>4. calibration' \in [node : Anchors \cup {Nil}, level : Levels]
    BY <1>2, <1>4, <2>3 DEF TypeOK, NoCalibration
  <2>. QED BY <1>2, <2>2, <2>4 DEF TypeOK
<1>13. LevelsSorted'
  <2>1. ASSUME NEW i \in Levels, i > 0 PROVE OnLevel(i)' \subseteq OnLevel(i - 1)'
    <3>1. i - 1 \in Levels /\ OnLevel(i) \subseteq OnLevel(i - 1)
      BY <2>1, LevelNumbers, LevelLinks
    <3>2. OnLevel(i - 1) \subseteq OnLevel(i - 1)'
      BY <1>10, <3>1 DEF Grows
    <3>3. CASE i = l
      BY <1>3, <1>11, <3>1, <3>2, <3>3
    <3>4. CASE i # l
      BY <1>11, <3>1, <3>2, <3>4
    <3>. QED BY <3>3, <3>4
  <2>. QED BY <1>10, <2>1 DEF LevelsSorted, Grows, InOrder
<1>14. HeightsOK'
  <2>1. \A i \in Levels, b \in Anchors : b \in OnLevel(i)' => i < height[b]
    BY <1>3, <1>11 DEF HeightsOK
  <2>2. ASSUME NEW i \in Levels, i >= currentLevel PROVE forwards'[i][Sentinel] = Nil
    <3>1. i # l
      BY <1>3, <1>4, <2>2 DEF TypeOK
    <3>. QED BY <1>7, <2>2, <3>1 DEF HeightsOK
  <2>. QED BY <1>2, <2>1, <2>2 DEF HeightsOK
<1>15. BackwardBehind' /\ SearchOK' /\ SearchFindsHolder'
  <2>1. BackwardBehind'
    BY <1>2, <1>4, <1>10 DEF BackwardBehind, Grows
  <2>. QED BY <1>2, <1>10, <2>1, SearchKeeps
<1>16. calibration' # NoCalibration =>
          /\ l + 1 < height[a] /\ calibration'.node = a /\ calibration'.level = l + 1
  BY <1>1, <1>2 DEF TypeOK
<1>17. calibration'.node \in {a, Nil}
  BY <1>1, <1>2 DEF TypeOK, NoCalibration
<1>18. LocalOK'
  <2>1. remotePut
    BY DEF LocalOK, CalibrateLink
  <2>. QED BY <1>2, <2>1 DEF LocalOK
<1>19. CalibrationOK'
  <2>1. l + 1 > 0 /\ l + 1 - 1 = l /\ \A i \in Levels : i >= l + 1 => i # l /\ i >= l
    BY <1>4
  <2>2. a \in OnLevel(l)' /\ \A i \in Levels : i >= l + 1 => a \notin OnLevel(i)'
    BY <1>3, <1>4, <1>11, <2>1
  <2>3. ASSUME NEW k, k = calibration'.level, calibration' # NoCalibration
        PROVE  /\ a \in Anchors /\ k > 0 /\ k < height'[a] /\ height'[a] <= currentLevel'
               /\ a \in OnLevel(k - 1)' /\ \A i \in Levels : i >= k => a \notin OnLevel(i)'
    <3>1. k = l + 1 /\ k < height'[a] /\ height'[a] <= currentLevel'
      BY <1>2, <1>3, <1>16, <2>3
    <3>2. k > 0 /\ k - 1 = l
      BY <1>4, <3>1
    <3>3. a \in OnLevel(k - 1)'
      BY <2>2, <3>2
    <3>. QED BY <1>3, <2>2, <3>1, <3>2, <3>3
  <2>. QED BY <1>16, <2>3 DEF CalibrationOK
<1>20. \A b \in Anchors : b # a /\ Flat(b) => Flat(b)'
  BY <1>11 DEF Flat
<1>21. OnLevel(0)' = OnLevel(0) /\ forwards'[0] = forwards[0]
  BY <1>3, <1>4, <1>7, <1>11
<1>22. QueueOK'
  <2>1. ASSUME NEW j \in 1..Len(updateQueue), NEW b, b = updateQueue[j]
        PROVE  /\ b \in OnLevel(0)' /\ b \in Anchors /\ height[b] > 1 /\ Flat(b)'
               /\ b # calibration'.node
               /\ \A k \in 1..Len(updateQueue) : updateQueue[k] = b => k = j
    <3>1. /\ b \in OnLevel(0) /\ b \in Anchors /\ height[b] > 1 /\ Flat(b) /\ b # a
          /\ \A k \in 1..Len(updateQueue) : updateQueue[k] = b => k = j
      BY <1>1, <2>1 DEF QueueOK
    <3>. QED BY <1>17, <1>20, <1>21, <3>1, NodeNumbers
  <2>. QED BY <1>2, <2>1 DEF QueueOK, Flat
<1>23. SplitOK'
  <2>1. ASSUME NEW o \in Splitters, NEW c, c = split'[o], c # NoSplit
        PROVE  Splits(o, c)'
    <3>1. c = split[o] /\ Splits(o, c)
      BY <1>2, <2>1 DEF SplitOK
    <3>2. c.new \in Anchors /\ c.new # a
      BY <1>1, <3>1 DEF Splits
    <3>3. c.new # calibration'.node
      BY <1>17, <3>2, NodeNumbers
    <3>4. Flat(c.new)'
      BY <1>20, <3>1, <3>2 DEF Splits
    <3>. QED BY <1>2, <1>21, <3>1, <3>3, <3>4 DEF Splits
  <2>2. \A o \in Splitters : \E c : c = split'[o] /\ (c # NoSplit => Splits(o, c)')
    BY <2>1
  <2>. QED BY <2>2 DEF SplitOK, Splits, Flat
<1>. QED BY <1>10, <1>12, <1>13, <1>14, <1>15, <1>18, <1>19, <1>22, <1>23

\* A step of a search changes nothing else.
LEMMA SearchStepKeeps ==
  ASSUME IInv, NEW r \in Readers, NEW q, search' = [search EXCEPT ![r] = q], remotePut,
         q \in [pc : {"idle", "walk", "equal", "hit", "range", "done"},
                member : Anchors \cup {Nil}, walker : Nodes, level : Levels,
                floor : Nodes \cup {Nil}, result : Nodes \cup {Nil}],
         Searches(q),
         stray = {} /\ q.pc = "done" /\ q.result # Nil =>
            q.result <= q.member /\ (q.floor <= q.result \/ q.floor = q.member),
         UNCHANGED <<listVars, remotePut, updateQueue, split, calibration, stray>>
  PROVE  IInv' /\ Grows
<1>. USE DEF IInv, listVars
<1>1. /\ \A i \in Levels : Keeps(i)
      /\ LevelsSorted' /\ Grows /\ \A b \in Anchors : Flat(b)' <=> Flat(b)
      /\ \A i \in Levels, b \in Anchors : b \in OnLevel(i)' => i < height'[b]
  BY SameLinks
<1>2. \A i : OnLevel(i)' = OnLevel(i)
  BY DEF OnLevel
<1>3. TypeOK' /\ LocalOK' /\ BackwardBehind'
  BY <1>2 DEF TypeOK, LocalOK, BackwardBehind
<1>4. HeightsOK'
  BY <1>1 DEF HeightsOK
<1>5. SplitOK'
  BY <1>2 DEF SplitOK, Splits, Flat
<1>6. QueueOK'
  BY <1>2 DEF QueueOK, Flat
<1>7. CalibrationOK'
  BY <1>2 DEF CalibrationOK
<1>8. search'[r] = q /\ \A o \in Readers : o # r => search'[o] = search[o]
  BY DEF TypeOK
<1>9. SearchOK' /\ SearchFindsHolder'
  <2>1. ASSUME NEW o \in Readers, NEW x, x = search'[o]
        PROVE  Searches(x) /\ (stray = {} /\ x.pc = "done" /\ x.result # Nil =>
                  x.result <= x.member /\ (x.floor <= x.result \/ x.floor = x.member))
    BY <1>8, <2>1 DEF SearchOK, SearchFindsHolder
  <2>2. \A o \in Readers : \E x : x = search'[o] /\ Searches(x)
    BY <2>1
  <2>. QED BY <1>2, <2>1, <2>2 DEF SearchOK, Searches, Walks, Arrives, SearchFindsHolder
<1>. QED BY <1>1, <1>3, <1>4, <1>5, <1>6, <1>7, <1>9

\* A search steps forward, down, or finds that it has arrived.
LEMMA SearchHopKeeps ==
  ASSUME IInv, NEW r \in Readers, SearchHop(r)
  PROVE  IInv' /\ Grows
<1>. USE DEF IInv
<1>1. PICK q, next : q = search[r] /\ next = forwards[q.level][q.walker]
  OBVIOUS
<1>2. /\ q.pc = "walk"
      /\ search' = [search EXCEPT ![r] =
            IF next < q.member THEN [q EXCEPT !.walker = next]
            ELSE IF q.level > 0 THEN [q EXCEPT !.level = q.level - 1]
            ELSE [q EXCEPT !.pc = "equal"]]
      /\ UNCHANGED <<listVars, remotePut, updateQueue, split, calibration, stray>>
  BY <1>1 DEF SearchHop
<1>3. /\ q \in [pc : {"idle", "walk", "equal", "hit", "range", "done"},
                member : Anchors \cup {Nil}, walker : Nodes, level : Levels,
                floor : Nodes \cup {Nil}, result : Nodes \cup {Nil}]
      /\ q.member \in Anchors
      /\ stray = {} => q.floor \in OnLevel(0) /\ q.floor <= q.member
      /\ q.walker \in OnLevel(q.level) /\ q.walker < q.member /\ remotePut
  BY <1>1, <1>2 DEF TypeOK, SearchOK, Searches, Walks, Arrives, LocalOK
<1>4. /\ next \in Nat /\ (next = Nil \/ next \in OnLevel(q.level)) /\ q.level \in Levels
      /\ q.member \in Nat /\ q.member < Nil /\ q.level \in Nat
      /\ OnLevel(q.level) \subseteq Nodes
  BY <1>1, <1>3, OnLevelNodes, LevelNumbers, NodeNumbers
<1>5. CASE next < q.member
  <2>1. PICK x : x = [q EXCEPT !.walker = next]
    OBVIOUS
  <2>2. next \in OnLevel(q.level) /\ next \in Nodes
    BY <1>4, <1>5, NodeNumbers
  <2>3. /\ x.pc = "walk" /\ x.member = q.member /\ x.floor = q.floor /\ x.level = q.level
        /\ x.walker = next
        /\ x \in [pc : {"idle", "walk", "equal", "hit", "range", "done"},
                  member : Anchors \cup {Nil}, walker : Nodes, level : Levels,
                  floor : Nodes \cup {Nil}, result : Nodes \cup {Nil}]
    BY <1>2, <1>3, <2>1, <2>2
  <2>4. Searches(x)
    BY <1>3, <1>5, <2>2, <2>3 DEF Searches, Walks, Arrives
  <2>. QED BY <1>2, <1>3, <1>5, <2>1, <2>3, <2>4, SearchStepKeeps
<1>6. CASE ~(next < q.member) /\ q.level > 0
  <2>1. PICK x : x = [q EXCEPT !.level = q.level - 1]
    OBVIOUS
  <2>2. q.level - 1 \in Levels /\ q.walker \in OnLevel(q.level - 1)
    BY <1>3, <1>4, <1>6, LevelNumbers, LevelLinks
  <2>3. /\ x.pc = "walk" /\ x.member = q.member /\ x.floor = q.floor /\ x.level = q.level - 1
        /\ x.walker = q.walker
        /\ x \in [pc : {"idle", "walk", "equal", "hit", "range", "done"},
                  member : Anchors \cup {Nil}, walker : Nodes, level : Levels,
                  floor : Nodes \cup {Nil}, result : Nodes \cup {Nil}]
    BY <1>2, <1>3, <2>1, <2>2
  <2>4. Searches(x)
    BY <1>3, <2>2, <2>3 DEF Searches, Walks, Arrives
  <2>. QED BY <1>2, <1>3, <1>6, <2>1, <2>3, <2>4, SearchStepKeeps
<1>7. CASE ~(next < q.member) /\ ~(q.level > 0)
  <2>1. PICK x : x = [q EXCEPT !.pc = "equal"]
    OBVIOUS
  <2>2. q.level = 0 /\ q.walker \in Nat /\ (stray = {} => q.floor \in Nat)
    BY <1>3, <1>4, <1>7, OnLevelNodes
  <2>3. /\ x.pc = "equal" /\ x.member = q.member /\ x.floor = q.floor /\ x.level = 0
        /\ x.walker = q.walker
        /\ x \in [pc : {"idle", "walk", "equal", "hit", "range", "done"},
                  member : Anchors \cup {Nil}, walker : Nodes, level : Levels,
                  floor : Nodes \cup {Nil}, result : Nodes \cup {Nil}]
    BY <1>2, <1>3, <2>1, <2>2
  <2>4. stray = {} => q.floor <= q.walker \/ q.floor = q.member
    <3>1. SUFFICES ASSUME stray = {}, q.walker < q.floor PROVE q.floor = q.member
      BY <2>2
    <3>2. next <= q.floor
      <4>1. forwards[0] \in Links /\ Sorted(forwards[0])
        BY <1>4, <2>2, <3>1, LevelLinks
      <4>. QED BY <1>1, <1>3, <2>2, <3>1, <4>1, SortedLevel DEF OnLevel
    <3>. QED BY <1>3, <1>4, <1>7, <2>2, <3>1, <3>2
  <2>5. Searches(x)
    BY <1>3, <2>2, <2>3, <2>4 DEF Searches, Walks, Arrives
  <2>. QED BY <1>2, <1>3, <1>7, <2>1, <2>3, <2>5, SearchStepKeeps
<1>. QED BY <1>5, <1>6, <1>7

\* The other steps of a search.
LEMMA FuzzySearchKeeps ==
  ASSUME IInv, NEW r \in Readers, FuzzySearch(r)
  PROVE  IInv' /\ Grows
<1>. USE DEF IInv
<1>. DEFINE Types == [pc : {"idle", "walk", "equal", "hit", "range", "done"},
                      member : Anchors \cup {Nil}, walker : Nodes, level : Levels,
                      floor : Nodes \cup {Nil}, result : Nodes \cup {Nil}]
            Right(x) == stray = {} /\ x.pc = "done" /\ x.result # Nil =>
                           x.result <= x.member /\ (x.floor <= x.result \/ x.floor = x.member)
<1>1. ASSUME NEW x, search' = [search EXCEPT ![r] = x], remotePut, x \in Types, Searches(x), Right(x),
             UNCHANGED <<listVars, remotePut, updateQueue, split, calibration, stray>>
      PROVE  IInv' /\ Grows
  BY <1>1, SearchStepKeeps
<1>2. PICK q : q = search[r]
  OBVIOUS
<1>3. q \in Types /\ Searches(q) /\ (q.pc # "idle" => remotePut)
  BY <1>2 DEF TypeOK, SearchOK, LocalOK
<1>4. q.pc \in {"equal", "hit", "range"} =>
         /\ Walks(q) /\ (stray = {} => Arrives(q))
         /\ q.member \in Anchors /\ q.walker \in OnLevel(0) /\ q.walker < q.member
         /\ q.level = 0 /\ q.walker \in Nodes /\ q.walker \in Nat /\ q.member \in Nat
         /\ stray = {} => /\ q.floor \in Nat /\ (q.floor <= q.walker \/ q.floor = q.member)
                           /\ q.walker < forwards[0][q.walker]
         /\ forwards[0][q.walker] \in Nat
         /\ forwards[0][q.walker] \in Nodes \cup {Nil}
  <2>1. 0 \in Levels
    BY LevelNumbers
  <2>2. q.pc \in {"equal", "hit", "range"} =>
         /\ Walks(q) /\ (stray = {} => Arrives(q))
         /\ q.member \in Anchors /\ q.walker \in OnLevel(0) /\ q.walker < q.member
         /\ q.level = 0
    BY <1>3 DEF Searches, Walks
  <2>3. q.pc \in {"equal", "hit", "range"} /\ stray = {} =>
           q.floor \in OnLevel(0) /\ (q.floor <= q.walker \/ q.floor = q.member)
    BY <2>2 DEF Arrives
  <2>4. stray = {} => Sorted(forwards[0])
    BY <2>1, LevelLinks
  <2>. QED BY <2>1, <2>2, <2>3, <2>4, OnLevelNodes, NodeNumbers DEF Sorted
<1>5. ASSUME NEW m \in Members, SearchStart(r, m) PROVE IInv' /\ Grows
  <2>. m \in Anchors
    BY BoundsAssumption
  <2>1. PICK x : x = [pc |-> "walk", member |-> m, walker |-> Sentinel, level |-> currentLevel - 1,
                      floor |-> IF stray = {} THEN Holder(m) ELSE Nil, result |-> Nil]
    OBVIOUS
  <2>2. currentLevel - 1 \in Levels /\ 0 \in Levels
    BY LevelNumbers DEF TypeOK, Levels
  <2>3. Holder(m) \in OnLevel(0) /\ Holder(m) <= m /\ Holder(m) \in Nodes
    BY <2>2, HolderFound, OnLevelNodes
  <2>4. Sentinel \in OnLevel(currentLevel - 1) /\ Sentinel < m /\ Sentinel \in Nodes
    BY <2>2, OnLevelNodes, NodeNumbers
  <2>5. x \in Types /\ Right(x)
    BY <2>1, <2>2, <2>3, <2>4
  <2>6. Searches(x)
    BY <2>1, <2>3, <2>4 DEF Searches, Walks, Arrives
  <2>. HIDE DEF Types, Right
  <2>. QED BY <1>1, <1>5, <2>1, <2>5, <2>6 DEF SearchStart
<1>6. CASE SearchHop(r)
  BY <1>6, SearchHopKeeps
<1>7. CASE SearchEqual(r)
  <2>1. PICK x : x = [q EXCEPT !.pc = IF forwards[0][q.walker] = q.member THEN "hit" ELSE "range"]
    OBVIOUS
  <2>2. q.pc = "equal" /\ search' = [search EXCEPT ![r] = x]
        /\ UNCHANGED <<listVars, remotePut, updateQueue, split, calibration, stray>>
    BY <1>2, <1>7, <2>1 DEF SearchEqual, TypeOK
  <2>3. /\ x \in Types /\ x.pc \in {"hit", "range"} /\ Right(x)
        /\ x.member = q.member /\ x.walker = q.walker /\ x.level = q.level /\ x.floor = q.floor
        /\ (x.pc = "hit" => forwards[0][q.walker] = q.member)
    BY <1>3, <2>1
  <2>4. Searches(x)
    BY <1>4, <2>2, <2>3 DEF Searches, Walks, Arrives
  <2>. HIDE DEF Types, Right
  <2>. QED BY <1>1, <1>3, <2>2, <2>3, <2>4
<1>8. CASE SearchHit(r)
  <2>1. PICK x : x = [q EXCEPT !.pc = "done", !.result = forwards[0][q.walker]]
    OBVIOUS
  <2>2. q.pc = "hit" /\ search' = [search EXCEPT ![r] = x]
        /\ UNCHANGED <<listVars, remotePut, updateQueue, split, calibration, stray>>
    BY <1>2, <1>8, <2>1 DEF SearchHit, TypeOK
  <2>3. /\ x \in Types /\ x.pc = "done" /\ x.result = forwards[0][q.walker]
        /\ x.member = q.member /\ x.floor = q.floor
    BY <1>3, <1>4, <2>1, <2>2
  <2>4. stray = {} => forwards[0][q.walker] <= q.member
    BY <1>4, <2>2 DEF Arrives
  <2>5. Searches(x) /\ Right(x)
    BY <1>4, <2>2, <2>3, <2>4 DEF Searches, Walks, Arrives
  <2>. HIDE DEF Types, Right
  <2>. QED BY <1>1, <1>3, <2>2, <2>3, <2>5
<1>9. CASE SearchRange(r)
  <2>1. PICK x : x = [q EXCEPT !.pc = "done",
                        !.result = IF forwards[0][q.walker] > q.member THEN q.walker ELSE Nil]
    OBVIOUS
  <2>2. q.pc = "range" /\ search' = [search EXCEPT ![r] = x]
        /\ UNCHANGED <<listVars, remotePut, updateQueue, split, calibration, stray>>
    BY <1>2, <1>9, <2>1 DEF SearchRange, TypeOK
  <2>3. /\ x \in Types /\ x.pc = "done" /\ x.result \in {q.walker, Nil}
        /\ x.member = q.member /\ x.floor = q.floor
    BY <1>3, <1>4, <2>1, <2>2
  <2>4. Searches(x) /\ Right(x)
    BY <1>4, <2>2, <2>3 DEF Searches, Walks, Arrives
  <2>. HIDE DEF Types, Right
  <2>. QED BY <1>1, <1>3, <2>2, <2>3, <2>4
<1>10. CASE SearchReturn(r)
  <2>1. NoSearch \in Types /\ NoSearch.pc = "idle"
    BY LevelNumbers, NodeNumbers DEF NoSearch
  <2>2. q.pc = "done" /\ search' = [search EXCEPT ![r] = NoSearch]
        /\ UNCHANGED <<listVars, remotePut, updateQueue, split, calibration, stray>>
    BY <1>2, <1>10 DEF SearchReturn
  <2>3. Searches(NoSearch) /\ Right(NoSearch)
    BY <2>1 DEF Searches
  <2>. HIDE DEF Types, Right
  <2>. QED BY <1>1, <1>3, <2>1, <2>2, <2>3
<1>. QED BY <1>5, <1>6, <1>7, <1>8, <1>9, <1>10 DEF FuzzySearch

-----------------------------------------------------------------------------
(***************************************************************************)
(* The theorems.                                                           *)
(***************************************************************************)

\* At first every level is the head alone.
LEMMA InvInit == Init => IInv
<1>. SUFFICES ASSUME Init PROVE IInv
  OBVIOUS
<1>. USE DEF Init
<1>1. MaxLevel \in Nat /\ 0 \in Levels /\ 1 \in 1..MaxLevel
  BY LevelNumbers
<1>2. \A i \in Levels : forwards[i] = [n \in Nodes |-> Nil]
  OBVIOUS
<1>3. \A i \in Levels : OnLevel(i) = {Sentinel}
  <2>1. [n \in Nodes |-> Nil] \in Links
    BY DEF Links
  <2>2. Closed([n \in Nodes |-> Nil], {Sentinel})
    BY NodeNumbers DEF Closed, Anchors, Nil
  <2>3. Linked([n \in Nodes |-> Nil]) = {Sentinel}
    BY <2>1, <2>2, LinkedLeast, LinkedStays
  <2>. QED BY <1>2, <2>3 DEF OnLevel
<1>4. TypeOK
  <2>1. forwards \in [Levels -> [Nodes -> Anchors \cup {Nil}]]
    OBVIOUS
  <2>2. backward \in [Anchors -> Nodes \cup {Nil}] /\ height \in [Anchors -> 0..MaxLevel]
        /\ currentLevel \in 1..MaxLevel /\ remotePut \in BOOLEAN /\ updateQueue \in Seq(Anchors)
    BY <1>1
  <2>3. split \in [Splitters -> [pc : {"idle", "publish", "backward"},
                                 node : Anchors \cup {Nil}, new : Anchors \cup {Nil}]]
    BY DEF NoSplit
  <2>4. calibration \in [node : Anchors \cup {Nil}, level : Levels]
    BY <1>1 DEF NoCalibration
  <2>5. search \in [Readers -> [pc : {"idle", "walk", "equal", "hit", "range", "done"},
                                member : Anchors \cup {Nil}, walker : Nodes, level : Levels,
                                floor : Nodes \cup {Nil}, result : Nodes \cup {Nil}]]
    BY <1>1, NodeNumbers DEF NoSearch
  <2>. QED BY <2>1, <2>2, <2>3, <2>4, <2>5 DEF TypeOK
<1>5. LevelsSorted
  BY <1>2, <1>3, LevelNumbers, NodeNumbers DEF LevelsSorted
<1>6. HeightsOK
  BY <1>2, <1>3, NodeNumbers DEF HeightsOK
<1>7. BackwardBehind /\ SplitOK /\ LocalOK /\ CalibrationOK
  BY DEF BackwardBehind, SplitOK, LocalOK, CalibrationOK, NoSearch
<1>8. QueueOK
  BY DEF QueueOK
<1>9. SearchOK /\ SearchFindsHolder
  BY DEF SearchOK, Searches, SearchFindsHolder, NoSearch
<1>. QED BY <1>4, <1>5, <1>6, <1>7, <1>8, <1>9 DEF IInv

\* A step that changes nothing.
LEMMA StutterKeeps == IInv /\ UNCHANGED vars => IInv' /\ Grows
<1>. SUFFICES ASSUME IInv, UNCHANGED vars PROVE IInv' /\ Grows
  OBVIOUS
<1>. USE DEF IInv, vars
<1>1. \A i : OnLevel(i)' = OnLevel(i)
  BY DEF OnLevel
<1>2. Grows
  BY SameLinks
<1>3. TypeOK' /\ LevelsSorted' /\ BackwardBehind' /\ SearchFindsHolder' /\ LocalOK' /\ HeightsOK'
  BY <1>1 DEF TypeOK, LevelsSorted, Excused, BackwardBehind, SearchFindsHolder, LocalOK, HeightsOK
<1>4. SplitOK' /\ QueueOK'
  BY <1>1 DEF SplitOK, Splits, QueueOK, Flat
<1>5. CalibrationOK' /\ SearchOK'
  BY <1>1 DEF CalibrationOK, SearchOK, Searches, Walks, Arrives
<1>. QED BY <1>2, <1>3, <1>4, <1>5

\* Every step keeps the invariant, and lets the levels grow.
LEMMA InvStep == IInv /\ [Next]_vars => IInv' /\ Grows
<1>. SUFFICES ASSUME IInv, [Next]_vars PROVE IInv' /\ Grows
  OBVIOUS
<1>1. CASE Load
  BY <1>1, InsertKeeps DEF Load
<1>2. ASSUME NEW s \in Splitters, AsyncUpdate(s) PROVE IInv' /\ Grows
  BY <1>2, SplitMakeKeeps, SplitPublishKeeps, SplitBackwardKeeps DEF AsyncUpdate
<1>3. CASE Calibrate
  BY <1>3, CalibratePopKeeps, CalibrateLinkKeeps DEF Calibrate
<1>4. ASSUME NEW r \in Readers, FuzzySearch(r) PROVE IInv' /\ Grows
  BY <1>4, FuzzySearchKeeps
<1>5. CASE UNCHANGED vars
  BY <1>5, StutterKeeps
<1>. QED BY <1>1, <1>2, <1>3, <1>4, <1>5 DEF Next

\* The invariant holds in every state of every behaviour.
LEMMA Invariant == Spec => []IInv
<1>1. Init => IInv
  BY InvInit
<1>2. IInv /\ [Next]_vars => IInv'
  BY InvStep
<1>. QED BY <1>1, <1>2, PTL DEF Spec

\* Every variable of the search layer keeps its type.
THEOREM TypeCorrect == Spec => []TypeOK
<1>1. IInv => TypeOK
  BY DEF IInv
<1>. QED BY <1>1, Invariant, PTL

\* However splits, the background thread and the flush interleave, every link leads to a
\* greater anchor, and a level is part of the level below it.  async_update does not look where
\* the anchor belongs that it links behind the split node: on the bottom level, links from and
\* to an anchor that it put out of order are excepted, and no others.
THEOREM Ordered == Spec => []LevelsSorted
<1>1. IInv => LevelsSorted
  BY DEF IInv
<1>. QED BY <1>1, Invariant, PTL

\* The neighbour whose lock a writer takes is a node of the list, with a smaller anchor unless
\* the writer's own was linked out of order.
THEOREM Behind == Spec => []BackwardBehind
<1>1. IInv => BackwardBehind
  BY DEF IInv
<1>. QED BY <1>1, Invariant, PTL

\* fuzzy_search takes no lock, and still returns no node beyond the member, nor one before
\* the node that held the member when it began, as long as async_update has linked every
\* anchor between its neighbours.
THEOREM SearchCorrect == Spec => []SearchFindsHolder
<1>1. IInv => SearchFindsHolder
  BY DEF IInv
<1>. QED BY <1>1, Invariant, PTL

\* No store of a splitting thread or of the background thread takes a node off a level.
THEOREM NothingLost == Spec => NothingUnlinked
<1>1. IInv /\ [Next]_vars => [\A i \in Levels : OnLevel(i) \subseteq OnLevel(i)']_forwards
  BY InvStep DEF Grows
<1>. QED BY <1>1, Invariant, PTL DEF Spec, NothingUnlinked

\* The neighbour that try_win_for_insert locked is the one that is unlocked.
THEOREM NeighbourStays == Spec => BackwardStable
<1>1. ASSUME IInv, [Next]_vars, remotePut, NEW a \in Anchors, backward[a] # Nil
      PROVE  backward'[a] = backward[a]
  <2>1. CASE Load
    BY <1>1, <2>1 DEF Load, Insert
  <2>2. ASSUME NEW s \in Splitters, AsyncUpdate(s) PROVE backward'[a] = backward[a]
    <3>1. CASE SplitBackward(s)
      <4>1. Splits(s, split[s])
        BY <1>1, <3>1 DEF IInv, SplitOK, SplitBackward, NoSplit
      <4>2. split[s].new # a
        BY <1>1, <4>1 DEF Splits
      <4>. QED BY <1>1, <3>1, <4>2 DEF SplitBackward, IInv, TypeOK
    <3>. QED BY <2>2, <3>1 DEF AsyncUpdate, SplitMake, SplitPublish
  <2>3. CASE Calibrate
    BY <2>3 DEF Calibrate, CalibratePop, CalibrateLink
  <2>4. ASSUME NEW r \in Readers, FuzzySearch(r) PROVE backward'[a] = backward[a]
    BY <2>4 DEF FuzzySearch, SearchStart, SearchHop, SearchEqual, SearchHit, SearchRange,
                SearchReturn, listVars
  <2>5. CASE UNCHANGED vars
    BY <2>5 DEF vars
  <2>. QED BY <1>1, <2>1, <2>2, <2>3, <2>4, <2>5 DEF Next
<1>2. IInv /\ [Next]_vars =>
        [remotePut => \A a \in Anchors : backward[a] # Nil => backward'[a] = backward[a]]_vars
  BY <1>1
<1>. QED BY <1>2, Invariant, PTL DEF Spec, BackwardStable

-----------------------------------------------------------------------------
(***************************************************************************)
(* No node is forgotten: what `Calibrated' promises under fairness, every  *)
(* node on all of its levels, is in somebody's hands until it is done.     *)
(***************************************************************************)

\* Node a is with a splitting thread, in the queue of the background thread, or with
\* that thread, which has not come to level i.
InHand(a, i) ==
    \/ \E s \in Splitters : split[s].new = a
    \/ \E j \in 1..Len(updateQueue) : updateQueue[j] = a
    \/ calibration.node = a /\ calibration.level <= i

NothingForgotten ==
    \A i \in Levels : \A a \in Anchors :
        i < height[a] /\ a \notin OnLevel(i) => InHand(a, i)

\* What is in hand stays there, unless its holder is done with it; b is the node that is made.
LEMMA NewNotForgotten ==
  ASSUME Grows, NothingForgotten, NEW b \in Anchors,
         \A a \in Anchors : a # b => height'[a] = height[a],
         \A i \in Levels, a \in Anchors :
            i < height'[a] /\ a \notin OnLevel(i)' /\ (a # b => InHand(a, i)) => InHand(a, i)'
  PROVE  NothingForgotten'
<1>1. ASSUME NEW i \in Levels, NEW a \in Anchors, i < height'[a], a \notin OnLevel(i)'
      PROVE  InHand(a, i)'
  <2>1. a \notin OnLevel(i)
    BY <1>1 DEF Grows
  <2>2. a # b => InHand(a, i)
    BY <1>1, <2>1 DEF NothingForgotten
  <2>. QED BY <1>1, <2>2
<1>. QED BY <1>1 DEF NothingForgotten

\* The same for a step that makes none.
LEMMA OldNotForgotten ==
  ASSUME Grows, NothingForgotten, height' = height,
         \A i \in Levels, a \in Anchors :
            i < height[a] /\ a \notin OnLevel(i)' /\ a \notin OnLevel(i) /\ InHand(a, i)
            => InHand(a, i)'
  PROVE  NothingForgotten'
<1>1. ASSUME NEW i \in Levels, NEW a \in Anchors, i < height'[a], a \notin OnLevel(i)'
      PROVE  InHand(a, i)'
  <2>1. a \notin OnLevel(i)
    BY <1>1 DEF Grows
  <2>2. InHand(a, i)
    BY <1>1, <2>1 DEF NothingForgotten
  <2>. QED BY <1>1, <2>1, <2>2
<1>. QED BY <1>1 DEF NothingForgotten

\* insert links its node on all its levels itself.
LEMMA InsertForgets ==
  ASSUME IInv, NothingForgotten, NEW b \in Anchors, NEW h \in 1..MaxLevel, Insert(b, h)
  PROVE  NothingForgotten'
<1>1. /\ height' = [height EXCEPT ![b] = h] /\ height[b] = 0 /\ h \in Nat
      /\ UNCHANGED <<updateQueue, split, calibration, stray>> /\ ~remotePut
  BY DEF Insert, MakeNewNode
<1>2. Grows
  BY InsertKeeps
<1>3. ASSUME NEW i \in Levels, i < h PROVE b \in OnLevel(i)'
  <2>1. b \notin OnLevel(i)
    BY <1>1, LevelNumbers DEF IInv, HeightsOK
  <2>2. forwards'[i] = [forwards[i] EXCEPT ![b] = forwards[i][Preds(b)[i]], ![Preds(b)[i]] = b]
    BY <1>3 DEF Insert
  <2>3. Gets(i, b)
    BY <1>1, <2>1, <2>2, PredsFound, LinkLevel DEF IInv, LocalOK
  <2>. QED BY <2>3 DEF Gets
<1>4. height'[b] = h /\ \A a \in Anchors : a # b => height'[a] = height[a]
  BY <1>1 DEF IInv, TypeOK
<1>5. ASSUME NEW i \in Levels, NEW a \in Anchors, i < height'[a], a \notin OnLevel(i)',
             a # b => InHand(a, i)
      PROVE  InHand(a, i)'
  BY <1>1, <1>3, <1>4, <1>5 DEF InHand
<1>. QED BY <1>2, <1>4, <1>5, NewNotForgotten

\* A thread that makes a node has it in hand.
LEMMA SplitMakeForgets ==
  ASSUME IInv, NothingForgotten, NEW s \in Splitters, NEW b \in Anchors, NEW h \in 1..MaxLevel,
         SplitMake(s, b, h)
  PROVE  NothingForgotten'
<1>1. PICK n : split' = [split EXCEPT ![s] = [pc |-> "publish", node |-> n, new |-> b]]
  BY DEF SplitMake
<1>2. /\ height' = [height EXCEPT ![b] = h] /\ UNCHANGED <<updateQueue, calibration>>
      /\ split[s].pc = "idle"
  BY DEF SplitMake, MakeNewNode
<1>3. split'[s].new = b /\ \A o \in Splitters : o # s => split'[o] = split[o]
  BY <1>1 DEF IInv, TypeOK
<1>4. split[s] = NoSplit
  BY <1>2 DEF IInv, SplitOK, Splits
<1>5. \A a \in Anchors : a # b => height'[a] = height[a]
  BY <1>2 DEF IInv, TypeOK
<1>6. ASSUME NEW i \in Levels, NEW a \in Anchors, a # b => InHand(a, i) PROVE InHand(a, i)'
  <2>1. split[s].new # a
    BY <1>4, NodeNumbers DEF NoSplit
  <2>. QED BY <1>2, <1>3, <1>6, <2>1 DEF InHand
<1>7. Grows
  BY SplitMakeKeeps
<1>. QED BY <1>5, <1>6, <1>7, NewNotForgotten

\* A thread that lets go of the node it has made queues it, unless the bottom level is all
\* the node has.
LEMMA SplitBackwardForgets ==
  ASSUME IInv, NothingForgotten, NEW s \in Splitters, SplitBackward(s)
  PROVE  NothingForgotten'
<1>1. PICK b : b = split[s].new
  OBVIOUS
<1>2. /\ split' = [split EXCEPT ![s] = NoSplit]
      /\ updateQueue' = IF height[b] = 1 THEN updateQueue ELSE Append(updateQueue, b)
      /\ UNCHANGED <<forwards, height, calibration>>
  BY <1>1 DEF SplitBackward
<1>3. b \in OnLevel(0) /\ b \in Anchors
  BY <1>1 DEF IInv, SplitBackward, SplitOK, Splits, NoSplit
<1>4. \A o \in Splitters : o # s => split'[o] = split[o]
  BY <1>2 DEF IInv, TypeOK
<1>5. /\ updateQueue \in Seq(Anchors)
      /\ \A j \in 1..Len(updateQueue) :
            j \in 1..Len(updateQueue') /\ updateQueue'[j] = updateQueue[j]
      /\ height[b] # 1 => \E j \in 1..Len(updateQueue') : updateQueue'[j] = b
  <2>1. updateQueue \in Seq(Anchors) /\ Len(updateQueue) \in Nat
    BY DEF IInv, TypeOK
  <2>2. CASE height[b] = 1
    BY <1>2, <2>1, <2>2
  <2>3. CASE height[b] # 1
    <3>1. updateQueue' = Append(updateQueue, b) /\ Len(updateQueue') = Len(updateQueue) + 1
      BY <1>2, <2>1, <2>3
    <3>2. Len(updateQueue) + 1 \in 1..Len(updateQueue') /\ updateQueue'[Len(updateQueue) + 1] = b
      BY <2>1, <3>1
    <3>3. \A j \in 1..Len(updateQueue) : updateQueue'[j] = updateQueue[j]
      BY <2>1, <3>1
    <3>. QED BY <2>1, <3>1, <3>2, <3>3
  <2>. QED BY <2>2, <2>3
<1>6. ASSUME NEW i \in Levels, NEW a \in Anchors, i < height[a], a \notin OnLevel(i), InHand(a, i)
      PROVE  InHand(a, i)'
  <2>1. CASE a = b
    <3>1. i # 0 /\ i \in Nat
      BY <1>3, <1>6, <2>1, LevelNumbers
    <3>2. height[b] # 1
      BY <1>6, <2>1, <3>1
    <3>. QED BY <1>5, <2>1, <3>2 DEF InHand
  <2>2. CASE a # b
    BY <1>1, <1>2, <1>4, <1>5, <1>6, <2>2 DEF InHand
  <2>. QED BY <2>1, <2>2
<1>7. Grows
  BY SplitBackwardKeeps
<1>. QED BY <1>2, <1>6, <1>7, OldNotForgotten

\* The background thread takes a node of the queue to link it from level 1 on.
LEMMA CalibratePopForgets ==
  ASSUME IInv, NothingForgotten, CalibratePop
  PROVE  NothingForgotten'
<1>1. PICK b : b = updateQueue[1]
  OBVIOUS
<1>2. /\ updateQueue \in Seq(Anchors) /\ updateQueue # <<>> /\ Len(updateQueue) \in Nat
      /\ Head(updateQueue) = b /\ updateQueue' = Tail(updateQueue)
      /\ 1 \in 1..Len(updateQueue)
  BY <1>1 DEF CalibratePop, IInv, TypeOK
<1>3. /\ calibration' = [node |-> b, level |-> 1] /\ calibration = NoCalibration
      /\ UNCHANGED <<forwards, height, split>>
  BY <1>2 DEF CalibratePop
<1>4. b \in OnLevel(0) /\ b \in Anchors
  BY <1>1, <1>2 DEF IInv, QueueOK
<1>5. ASSUME NEW i \in Levels, NEW a \in Anchors, a \notin OnLevel(i), InHand(a, i)
      PROVE  InHand(a, i)'
  <2>1. CASE a = b
    <3>1. i # 0 /\ i \in Nat
      BY <1>4, <1>5, <2>1, LevelNumbers
    <3>. QED BY <1>3, <2>1, <3>1 DEF InHand
  <2>2. CASE \E s \in Splitters : split[s].new = a
    BY <1>3, <2>2 DEF InHand
  <2>3. CASE a # b /\ \E j \in 1..Len(updateQueue) : updateQueue[j] = a
    <3>1. PICK j \in 1..Len(updateQueue) : updateQueue[j] = a
      BY <2>3
    <3>2. j # 1 /\ j - 1 \in 1..Len(updateQueue')
      BY <1>1, <1>2, <2>3, <3>1
    <3>3. updateQueue'[j - 1] = a
      BY <1>2, <3>1, <3>2
    <3>. QED BY <3>2, <3>3 DEF InHand
  <2>4. calibration.node # a
    BY <1>3, NodeNumbers DEF NoCalibration
  <2>. QED BY <1>5, <2>1, <2>2, <2>3, <2>4 DEF InHand
<1>6. Grows
  BY CalibratePopKeeps
<1>. QED BY <1>3, <1>5, <1>6, OldNotForgotten

\* It lets go of the node when it has linked it on the last of its levels.
LEMMA CalibrateLinkForgets ==
  ASSUME IInv, NothingForgotten, CalibrateLink
  PROVE  NothingForgotten'
<1>1. PICK b, l, p : b = calibration.node /\ l = calibration.level /\ p = Preds(b)[l]
  OBVIOUS
<1>2. /\ forwards' = [forwards EXCEPT ![l][b] = forwards[l][p], ![l][p] = b]
      /\ calibration' = IF l + 1 < height[b] THEN [calibration EXCEPT !.level = l + 1]
                        ELSE NoCalibration
      /\ UNCHANGED <<height, updateQueue, split, stray>>
  BY <1>1 DEF CalibrateLink
<1>3. b \in Anchors /\ l > 0 /\ l < height[b] /\ \A i \in Levels : i >= l => b \notin OnLevel(i)
  BY <1>1 DEF CalibrateLink, CalibrationOK, IInv
<1>4. l \in Levels /\ l \in Nat /\ height[b] \in Nat /\ \A i \in Levels : i \in Nat
  BY <1>1, <1>3, LevelNumbers DEF TypeOK, IInv
<1>5. b \in OnLevel(l)'
  <2>1. b \notin OnLevel(l)
    BY <1>3, <1>4
  <2>2. p \in OnLevel(l) /\ p < b /\ b <= forwards[l][p] /\ l # 0
    BY <1>1, <1>3, <1>4, <2>1, PredsFound DEF IInv
  <2>3. forwards'[l] = [forwards[l] EXCEPT ![b] = forwards[l][p], ![p] = b]
    BY <1>2, <1>4 DEF IInv, TypeOK
  <2>4. Gets(l, b)
    BY <1>2, <1>3, <1>4, <2>1, <2>2, <2>3, LinkLevel DEF IInv
  <2>. QED BY <2>4 DEF Gets
<1>6. ASSUME NEW i \in Levels, NEW a \in Anchors, i < height[a], a \notin OnLevel(i)',
             InHand(a, i)
      PROVE  InHand(a, i)'
  <2>1. CASE calibration.node = a /\ calibration.level <= i
    <3>1. a = b /\ i # l /\ l <= i
      BY <1>1, <1>5, <1>6, <2>1
    <3>2. l + 1 <= i /\ l + 1 < height[b]
      BY <1>3, <1>4, <1>6, <3>1
    <3>3. calibration'.node = a /\ calibration'.level = l + 1
      BY <1>2, <2>1, <3>2 DEF IInv, TypeOK
    <3>. QED BY <3>2, <3>3 DEF InHand
  <2>2. CASE ~ (calibration.node = a /\ calibration.level <= i)
    BY <1>2, <1>6, <2>2 DEF InHand
  <2>. QED BY <2>1, <2>2
<1>7. Grows
  BY CalibrateLinkKeeps
<1>. QED BY <1>2, <1>6, <1>7, OldNotForgotten

\* A node that split_node has made is linked on each of its levels, or is in the hands of the
\* thread that made it, of the queue, or of the background thread: calibration cannot miss it.
THEOREM NoneForgotten == Spec => []NothingForgotten
<1>1. Init => NothingForgotten
  <2>1. Init => \A a \in Anchors : height[a] = 0
    BY DEF Init
  <2>2. \A i \in Levels : ~(i < 0)
    BY LevelNumbers
  <2>. QED BY <2>1, <2>2 DEF NothingForgotten
<1>2. ASSUME IInv, NothingForgotten, [Next]_vars PROVE NothingForgotten'
  <2>1. Grows
    BY <1>2, InvStep
  <2>2. ASSUME UNCHANGED <<height, updateQueue, calibration>>,
               \A o \in Splitters : split'[o].new = split[o].new
        PROVE  NothingForgotten'
    <3>1. \A i \in Levels, a \in Anchors : InHand(a, i) => InHand(a, i)'
      BY <2>2 DEF InHand
    <3>. QED BY <1>2, <2>1, <2>2, <3>1, OldNotForgotten
  <2>3. CASE Load
    BY <1>2, <2>3, InsertForgets DEF Load
  <2>4. ASSUME NEW s \in Splitters, AsyncUpdate(s) PROVE NothingForgotten'
    <3>1. CASE SplitPublish(s)
      <4>1. \A o \in Splitters : split'[o].new = split[o].new
        BY <1>2, <3>1 DEF SplitPublish, IInv, TypeOK
      <4>. QED BY <2>2, <3>1, <4>1 DEF SplitPublish
    <3>. QED BY <1>2, <2>4, <3>1, SplitMakeForgets, SplitBackwardForgets DEF AsyncUpdate
  <2>5. CASE Calibrate
    BY <1>2, <2>5, CalibratePopForgets, CalibrateLinkForgets DEF Calibrate
  <2>6. ASSUME NEW r \in Readers, FuzzySearch(r) PROVE NothingForgotten'
    BY <2>2, <2>6 DEF FuzzySearch, SearchStart, SearchHop, SearchEqual, SearchHit, SearchRange,
                      SearchReturn, listVars
  <2>7. CASE UNCHANGED vars
    BY <2>2, <2>7 DEF vars
  <2>. QED BY <1>2, <2>3, <2>4, <2>5, <2>6, <2>7 DEF Next
<1>. QED BY <1>1, <1>2, Invariant, PTL DEF Spec
=============================================================================
