------------------------------ MODULE StoreProofs ------------------------------
(***************************************************************************)
(* Theorems about Store, for every number of threads, keys and nodes, and  *)
(* every size of a node: its variables keep their types; put and get       *)
(* implement KVStore; and as long as no put has stored a record in a node  *)
(* that does not hold its key, a search ends where the record is.          *)
(***************************************************************************)
EXTENDS Store, FiniteSetTheorems, WellFoundedInduction, TLAPS

-----------------------------------------------------------------------------
(***************************************************************************)
(* Loops, as in SearchLayerProofs; and that a loop which climbs among N    *)
(* places is over after N turns.                                           *)
(***************************************************************************)

\* Every set of numbers that has an element has a smallest one: CHOOSE finds it.
LEMMA Minimum ==
  ASSUME NEW S \in SUBSET Nat, S # {}
  PROVE  \E m \in S : \A n \in S : m <= n
<1>. DEFINE R == {x \in Nat \X Nat : x[1] < x[2]}
<1>1. IsWellFoundedOn(R, Nat)
  BY NatLessThanWellFounded DEF OpToRel
<1>2. PICK m \in S : \A n \in S : <<n, m>> \notin R
  BY <1>1, WFMin
<1>3. \A n \in S : ~ (n < m)
  BY <1>2
<1>. QED BY <1>3

\* Induction up to N, over the set of the numbers for which a statement holds.
LEMMA UpTo ==
  ASSUME NEW N \in Nat, NEW G, 0 \in G, \A i \in 1..N : i - 1 \in G => i \in G
  PROVE  \A i \in 0..N : i \in G
<1>. DEFINE C == {i \in 0..N : i \notin G}
<1>1. SUFFICES ASSUME C # {} PROVE FALSE
  OBVIOUS
<1>2. C \in SUBSET Nat
  OBVIOUS
<1>3. PICK m \in C : \A n \in C : m <= n
  BY <1>1, <1>2, Minimum, Zenon
<1>4. m \in 0..N /\ m \notin G
  BY <1>3
<1>5. m \in 1..N /\ m - 1 \in 0..N /\ m - 1 < m
  BY <1>4
<1>6. m - 1 \in G
  <2>1. m - 1 \notin C
    BY <1>3, <1>5
  <2>. QED BY <2>1, <1>5
<1>. QED BY <1>4, <1>5, <1>6

\* The loops that turn N times, from x0 and in turn i by F[i].
Loops(N, S, x0, F) ==
    {w \in [0..N -> S] : w[0] = x0 /\ \A i \in 1..N : w[i] = F[i][w[i - 1]]}

\* There is one: a loop is a function of the turns it has made.
LEMMA Loop ==
  ASSUME NEW S, NEW N \in Nat, NEW x0 \in S, NEW F \in [1..N -> [S -> S]]
  PROVE  Loops(N, S, x0, F) # {}
<1>. DEFINE W(m) == Loops(m, S, x0, F)
            G == {m \in 0..N : W(m) # {}}
<1>1. 0 \in G
  <2>. DEFINE w == [i \in 0..0 |-> x0]
  <2>1. w \in [0..0 -> S] /\ w[0] = x0 /\ 1..0 = {}
    OBVIOUS
  <2>2. w \in W(0)
    BY <2>1 DEF Loops
  <2>. QED BY <2>2
<1>2. ASSUME NEW m \in 1..N, m - 1 \in G PROVE m \in G
  <2>1. PICK v \in [0..(m - 1) -> S] :
           v[0] = x0 /\ \A i \in 1..(m - 1) : v[i] = F[i][v[i - 1]]
    BY <1>2 DEF Loops
  <2>. DEFINE w == [i \in 0..m |-> IF i = m THEN F[m][v[m - 1]] ELSE v[i]]
  <2>2. m \in Nat /\ m # 0 /\ m - 1 \in 0..(m - 1) /\ 0..m = (0..(m - 1)) \cup {m}
    OBVIOUS
  <2>3. F[m][v[m - 1]] \in S
    BY <2>1, <2>2
  <2>4. w \in [0..m -> S] /\ w[0] = x0 /\ w[m] = F[m][v[m - 1]]
    BY <2>1, <2>2, <2>3
  <2>5. \A i \in 0..(m - 1) : w[i] = v[i]
    BY <2>2
  <2>6. ASSUME NEW i \in 1..m PROVE w[i] = F[i][w[i - 1]]
    <3>1. i - 1 \in 0..(m - 1) /\ w[i - 1] = v[i - 1]
      BY <2>5
    <3>2. CASE i = m
      BY <3>1, <3>2, <2>4
    <3>3. CASE i # m
      <4>1. i \in 1..(m - 1) /\ i \in 0..(m - 1)
        BY <3>3
      <4>. QED BY <4>1, <3>1, <2>1, <2>5
    <3>. QED BY <3>2, <3>3
  <2>7. w \in W(m)
    BY <2>4, <2>6 DEF Loops
  <2>8. m \in 0..N
    OBVIOUS
  <2>. HIDE DEF W, w
  <2>. QED BY <2>7, <2>8
<1>3. \A m \in 0..N : m \in G
  <2>. HIDE DEF G
  <2>. QED BY <1>1, <1>2, UpTo
<1>. QED BY <1>3

\* What holds of the first value and is kept by every turn holds of each value.
LEMMA LoopKeeps ==
  ASSUME NEW N \in Nat, NEW w, NEW G, w[0] \in G,
         \A i \in 1..N : w[i - 1] \in G => w[i] \in G
  PROVE  \A i \in 0..N : w[i] \in G
<1>. DEFINE H == {i \in 0..N : w[i] \in G}
<1>1. 0 \in H /\ \A i \in 1..N : i - 1 \in H => i \in H
  OBVIOUS
<1>2. \A i \in 0..N : i \in H
  <2>. HIDE DEF H
  <2>. QED BY <1>1, UpTo
<1>. QED BY <1>2

\* A loop whose every turn climbs, among at most N places, has seen all of them
\* after N turns, and the last one is the highest.
LEMMA LoopClimbs ==
  ASSUME NEW N \in Nat, NEW P, IsFiniteSet(P), Cardinality(P) <= N,
         NEW w, NEW rank, \A i \in 0..N : rank[w[i]] \in Nat,
         \A i \in 1..N : w[i] \in P /\ rank[w[i - 1]] < rank[w[i]]
  PROVE  /\ N # 0 => w[N] \in P
         /\ \A p \in P : rank[p] <= rank[w[N]]
<1>. DEFINE Seen(m) == {w[i] : i \in 1..m}
            G == {m \in 0..N : /\ IsFiniteSet(Seen(m)) /\ Cardinality(Seen(m)) = m
                               /\ \A i \in 1..m : rank[w[i]] <= rank[w[m]]}
<1>1. 0 \in G
  <2>1. Seen(0) = {} /\ 1..0 = {}
    OBVIOUS
  <2>. QED BY <2>1, FS_EmptySet
<1>2. ASSUME NEW m \in 1..N, m - 1 \in G PROVE m \in G
  <2>1. /\ IsFiniteSet(Seen(m - 1)) /\ Cardinality(Seen(m - 1)) = m - 1
        /\ \A i \in 1..(m - 1) : rank[w[i]] <= rank[w[m - 1]]
    BY <1>2
  <2>2. m \in 0..N /\ m - 1 \in 0..N /\ 1..m = (1..(m - 1)) \cup {m} /\ 1..(m - 1) \subseteq 0..N
    OBVIOUS
  <2>3. rank[w[m - 1]] < rank[w[m]] /\ rank[w[m]] \in Nat /\ rank[w[m - 1]] \in Nat
    BY <2>2
  <2>4. \A i \in 1..(m - 1) : rank[w[i]] < rank[w[m]]
    BY <2>1, <2>2, <2>3
  <2>5. w[m] \notin Seen(m - 1) /\ Seen(m) = Seen(m - 1) \cup {w[m]}
    BY <2>2, <2>3, <2>4
  <2>6. IsFiniteSet(Seen(m)) /\ Cardinality(Seen(m)) = m
    <3>1. m - 1 \in Nat /\ m - 1 + 1 = m
      OBVIOUS
    <3>. HIDE DEF Seen
    <3>2. /\ IsFiniteSet(Seen(m - 1) \cup {w[m]})
          /\ Cardinality(Seen(m - 1) \cup {w[m]}) = Cardinality(Seen(m - 1)) + 1
      BY <2>1, <2>5, FS_AddElement, Zenon
    <3>. QED BY <2>1, <2>5, <3>1, <3>2
  <2>7. \A i \in 1..m : rank[w[i]] <= rank[w[m]]
    BY <2>2, <2>3, <2>4
  <2>. QED BY <2>2, <2>6, <2>7
<1>3. N \in G
  <2>. HIDE DEF G
  <2>. QED BY <1>1, <1>2, UpTo
<1>4. Seen(N) \subseteq P
  OBVIOUS
<1>5. Seen(N) = P
  <2>1. Cardinality(Seen(N)) = N /\ IsFiniteSet(Seen(N))
    BY <1>3
  <2>. HIDE DEF Seen
  <2>2. Cardinality(Seen(N)) <= Cardinality(P)
    BY <1>4, FS_Subset
  <2>3. Cardinality(P) \in Nat
    BY FS_CardinalityType
  <2>4. Cardinality(Seen(N)) = Cardinality(P)
    BY <2>1, <2>2, <2>3
  <2>. QED BY <1>4, <2>1, <2>4, FS_Subset
<1>. QED BY <1>3, <1>5

\* Of a finite set of numbers with more than s elements, one has exactly s below it.
LEMMA Nth ==
  ASSUME NEW M \in Nat, NEW S \in SUBSET (1..M), NEW s \in Nat, s < Cardinality(S)
  PROVE  \E a \in S : Cardinality({k \in S : k < a}) = s
<1>. DEFINE Below(n) == {k \in S : k < n}
            C == {n \in 0..(M + 1) : s < Cardinality(Below(n))}
<1>0. \A k \in S : k \in Nat /\ 1 <= k /\ k <= M
  OBVIOUS
<1>1. IsFiniteSet(S) /\ \A n \in Nat : IsFiniteSet(Below(n)) /\ Cardinality(Below(n)) \in Nat
  <2>1. IsFiniteSet(S)
    <3>1. IsFiniteSet(1..M)
      BY FS_Interval
    <3>. QED BY <3>1, FS_Subset
  <2>2. ASSUME NEW n \in Nat PROVE IsFiniteSet(Below(n)) /\ Cardinality(Below(n)) \in Nat
    <3>1. Below(n) \in SUBSET S
      OBVIOUS
    <3>. HIDE DEF Below
    <3>. QED BY <2>1, <3>1, FS_Subset, FS_CardinalityType
  <2>. QED BY <2>1, <2>2
<1>2. Below(M + 1) = S /\ Below(0) = {}
  <2>1. \A k \in S : k < M + 1 /\ ~(k < 0)
    BY <1>0
  <2>. QED BY <2>1
<1>3. C # {} /\ C \in SUBSET Nat
  BY <1>2
<1>4. PICK m \in C : \A n \in C : m <= n
  <2>. HIDE DEF C
  <2>. QED BY <1>3, Minimum
<1>5. m \in 0..(M + 1) /\ s < Cardinality(Below(m))
  BY <1>4
<1>6. m # 0
  BY <1>2, <1>5, FS_EmptySet
<1>7. m - 1 \in 0..(M + 1) /\ m - 1 < m
  BY <1>5, <1>6
<1>8. Cardinality(Below(m - 1)) <= s
  <2>1. m - 1 \notin C
    BY <1>4, <1>7
  <2>2. ~(s < Cardinality(Below(m - 1)))
    BY <2>1, <1>7
  <2>3. Cardinality(Below(m - 1)) \in Nat
    BY <1>1, <1>7
  <2>. HIDE DEF Below
  <2>. QED BY <2>2, <2>3
<1>9. m - 1 \in S /\ Below(m) = Below(m - 1) \cup {m - 1} /\ m - 1 \notin Below(m - 1)
  <2>1. \A k \in S : k < m <=> k < m - 1 \/ k = m - 1
    BY <1>0, <1>5, <1>7
  <2>2. CASE m - 1 \in S
    <3>1. ~(m - 1 < m - 1)
      BY <1>7
    <3>. QED BY <2>1, <2>2, <3>1
  <2>3. CASE m - 1 \notin S
    <3>1. Below(m) = Below(m - 1)
      BY <2>1, <2>3
    <3>2. Cardinality(Below(m - 1)) \in Nat
      BY <1>1, <1>7
    <3>. HIDE DEF Below
    <3>. QED BY <3>1, <3>2, <1>5, <1>8
  <2>. QED BY <2>2, <2>3
<1>10. Cardinality(Below(m)) = Cardinality(Below(m - 1)) + 1 /\ Cardinality(Below(m - 1)) \in Nat
  <2>1. IsFiniteSet(Below(m - 1)) /\ Cardinality(Below(m - 1)) \in Nat
    BY <1>1, <1>7
  <2>. HIDE DEF Below
  <2>. QED BY <2>1, <1>9, FS_AddElement
<1>11. Cardinality(Below(m - 1)) = s
  <2>. HIDE DEF Below
  <2>. QED BY <1>5, <1>8, <1>10
<1>. QED BY <1>9, <1>11

-----------------------------------------------------------------------------
(***************************************************************************)
(* The inductive invariant.                                                *)
(*                                                                         *)
(* A node that a search can end at is linked: it exists, and is not a      *)
(* right half whose winner has yet to link it.  Threads and pointers only  *)
(* know linked nodes, so nobody disturbs what a winner does with its half. *)
(***************************************************************************)
Linked(n) == anchor[n] # 0 /\ \A t \in Threads : right[t] # n

\* Pointers, and the nodes operations work on, are linked nodes.
ListOK ==
    /\ next[Sentinel] = 1 /\ anchor[1] = 1
    /\ \A m \in Lockable : next[m] # Nil => Linked(next[m])
    /\ \A n \in Nodes : backward[n] # Sentinel => Linked(backward[n]) /\ backward[n] # n
    /\ \A t \in Threads : Linked(at[t])
    /\ \A n \in Nodes : anchor[n] = 0 => recs[n] = {}

\* A winner has one right half from its split until it is linked.
HalvesOK ==
    \A t \in Threads :
        /\ pc[t] = "link" <=> right[t] # Nil
        /\ right[t] # Nil => /\ anchor[right[t]] # 0
                             /\ \A u \in Threads : right[u] = right[t] => u = t

\* A winner holds its node and the neighbour, alone: a lock has one holder.
LocksOK == \A t \in Winners : ctx[at[t]] = t /\ ctx[backward[at[t]]] = t

\* What an operation is doing agrees with where it is.
CallsOK ==
    \A t \in Threads :
        /\ own[t] <=> pc[t] \in {"help", "link", "leave"}
        /\ pc[t] \notin {"read", "wait"} => op[t] = "put"
        /\ pc[t] = "read" => op[t] = "get"
        /\ answer[t] # "none" => pc[t] = "wait"
        /\ pc[t] = "wait" /\ op[t] = "get" => answer[t] \in {"ok", "fail"}

\* A request belongs to a put that waits and has not been answered, and is with
\* one winner: nobody is served twice.
RequestsOK ==
    \A t \in Threads : \A u \in requests[t] :
        /\ pc[u] = "wait" /\ op[u] = "put" /\ answer[u] = "none"
        /\ \A v \in Threads : u \in requests[v] => v = t

\* The records that stay whether or not a neighbour is written back.
Firm == (UNION {recs[n] : n \in Nodes}) \cup (UNION {real[t] : t \in Threads})

\* A winner's buffers contain what the remote nodes do, and what is only in the
\* buffer of a neighbour is known to be handed over.
BuffersOK ==
    \A t \in Threads :
        /\ pc[t] # "help" => real[t] = {} /\ pred[t] = {}
        /\ pc[t] = "help" =>
              /\ recs[at[t]] \subseteq real[t]
              /\ recs[backward[at[t]]] \subseteq pred[t]
              /\ backward[at[t]] = Sentinel => pred[t] = {}
              /\ pred[t] \subseteq Firm \cup handed
              /\ real[t] # {}

\* Types, and everything above.
IInv ==
    /\ TypeOK /\ ListOK /\ HalvesOK /\ LocksOK /\ CallsOK /\ RequestsOK /\ BuffersOK

\* The keys between the anchor of a node and that of the next.
Covers(n, k) == anchor[n] <= k /\ (next[n] = Nil \/ k < anchor[next[n]])

\* The list is in the order of the anchors, and leaves no linked node out.
SortedOK ==
    \A n \in Nodes : Linked(n) =>
        /\ next[n] # Nil => anchor[n] < anchor[next[n]]
        /\ \A m \in Nodes : Linked(m) =>
              /\ anchor[m] = anchor[n] => m = n
              /\ anchor[n] < anchor[m] => next[n] # Nil /\ anchor[next[n]] <= anchor[m]

\* Records are in the nodes that cover them, and a right half takes the greater
\* ones of the node it was split from.
CoveredOK ==
    /\ \A n \in Nodes : Linked(n) => \A k \in recs[n] : Covers(n, k)
    /\ \A t \in Threads :
          /\ \A k \in real[t] : Covers(at[t], k)
          /\ \A k \in pred[t] : Covers(backward[at[t]], k)
          /\ right[t] # Nil =>
                /\ anchor[at[t]] < anchor[right[t]] /\ Covers(at[t], anchor[right[t]])
                /\ \A k \in recs[at[t]] : k < anchor[right[t]]
                /\ \A k \in recs[right[t]] : anchor[right[t]] <= k /\ Covers(at[t], k)

\* With the placement of the records, as long as none has gone astray.
PlacedInv == IInv /\ (~astray => SortedOK /\ CoveredOK)

-----------------------------------------------------------------------------
(***************************************************************************)
(* Lemmas about the search.                                                *)
(***************************************************************************)

\* One turn of the walk for key k, from node n; and what is found from where it ends.
Turn(k, n) == IF next[n] # Nil /\ anchor[next[n]] < k THEN next[n] ELSE n
Found(k, n) == IF next[n] # Nil /\ anchor[next[n]] = k THEN next[n] ELSE n

\* Holder is what is found at the end of the walk that begins at the head.
LEMMA HolderWalk ==
  ASSUME TypeOK, NEW k \in Keys
  PROVE  \E w \in [0..MaxNodes -> Lockable] :
            /\ w[0] = Sentinel
            /\ \A i \in 1..MaxNodes : w[i] = Turn(k, w[i - 1])
            /\ Holder(k) = Found(k, w[MaxNodes])
<1>1. MaxNodes \in Nat /\ Sentinel \in Lockable
  BY StoreAssumption DEF Lockable
<1>. DEFINE Body(w) == [i \in 0..MaxNodes |->
                          IF i = 0 THEN Sentinel
                          ELSE LET n == w[i - 1] IN
                               IF next[n] # Nil /\ anchor[next[n]] < k THEN next[n] ELSE n]
<1>2. \A n \in Lockable : Turn(k, n) \in Lockable
  BY DEF TypeOK, Turn, Lockable
<1>3. PICK F : F = [i \in 1..MaxNodes |-> [n \in Lockable |-> Turn(k, n)]]
  OBVIOUS
<1>4. PICK w \in [0..MaxNodes -> Lockable] :
         w[0] = Sentinel /\ \A i \in 1..MaxNodes : w[i] = F[i][w[i - 1]]
  <2>1. F \in [1..MaxNodes -> [Lockable -> Lockable]]
    BY <1>2, <1>3
  <2>2. Loops(MaxNodes, Lockable, Sentinel, F) # {}
    BY <1>1, <2>1, Loop
  <2>. QED BY <2>2 DEF Loops
<1>5. \A i \in 1..MaxNodes : i - 1 \in 0..MaxNodes /\ w[i - 1] \in Lockable
  BY <1>1
<1>6. \A i \in 1..MaxNodes : w[i] = Turn(k, w[i - 1])
  BY <1>3, <1>4, <1>5
<1>7. w = Body(w)
  BY <1>1, <1>4, <1>6 DEF Turn
<1>8. ASSUME NEW v, v = Body(v) PROVE v \in [0..MaxNodes -> Lockable] /\ v[0] = Sentinel
                                   /\ \A i \in 1..MaxNodes : v[i] = Turn(k, v[i - 1])
  <2>1. v[0] = Sentinel /\ \A i \in 1..MaxNodes : v[i] = Turn(k, v[i - 1])
    <3>1. 0 \in 0..MaxNodes /\ \A i \in 1..MaxNodes : i \in 0..MaxNodes /\ i # 0
      BY <1>1
    <3>. QED BY <1>8, <3>1 DEF Turn
  <2>2. v[0] \in Lockable /\ \A i \in 1..MaxNodes : v[i - 1] \in Lockable => v[i] \in Lockable
    BY <1>1, <1>2, <2>1
  <2>3. \A i \in 0..MaxNodes : v[i] \in Lockable
    BY <1>1, <2>2, LoopKeeps
  <2>4. v = [i \in 0..MaxNodes |-> v[i]]
    BY <1>8
  <2>. QED BY <2>1, <2>3, <2>4
<1>9. Holder(k) = Found(k, (CHOOSE v : v = Body(v))[MaxNodes])
  BY DEF Holder, Found
<1>10. PICK v : v = Body(v) /\ Holder(k) = Found(k, v[MaxNodes])
  <2>. HIDE DEF Body
  <2>. QED BY <1>7, <1>9
<1>. QED BY <1>8, <1>10

\* A search ends at a linked node, never at the head.
LEMMA HolderLinked ==
  ASSUME TypeOK, ListOK, NEW k \in Keys
  PROVE  /\ Holder(k) \in Nodes /\ Linked(Holder(k))
         /\ anchor[Holder(k)] <= k
<1>1. PICK w \in [0..MaxNodes -> Lockable] :
         /\ w[0] = Sentinel
         /\ \A i \in 1..MaxNodes : w[i] = Turn(k, w[i - 1])
         /\ Holder(k) = Found(k, w[MaxNodes])
  BY HolderWalk
<1>. DEFINE G == {i \in 0..MaxNodes :
                    \/ w[i] = Sentinel /\ (i = 0 \/ k = 1)
                    \/ w[i] \in Nodes /\ Linked(w[i]) /\ anchor[w[i]] <= k}
<1>2. MaxNodes \in Nat /\ MaxNodes >= 2 /\ 0 \in G
  BY <1>1, StoreAssumption
<1>0. \A n \in Lockable : next[n] # Nil =>
         next[n] \in Nodes /\ Linked(next[n]) /\ anchor[next[n]] \in Nat
  BY StoreAssumption DEF ListOK, TypeOK
<1>3. ASSUME NEW i \in 1..MaxNodes, i - 1 \in G PROVE i \in G
  <2>1. w[i] = Turn(k, w[i - 1]) /\ w[i - 1] \in Lockable
    BY <1>1, <1>2
  <2>2. CASE next[w[i - 1]] # Nil /\ anchor[next[w[i - 1]]] < k
    <3>1. anchor[next[w[i - 1]]] <= k
      BY <1>0, <2>1, <2>2, StoreAssumption DEF Keys
    <3>. QED BY <1>0, <2>1, <2>2, <3>1 DEF Turn
  <2>3. CASE ~(next[w[i - 1]] # Nil /\ anchor[next[w[i - 1]]] < k)
    <3>1. w[i] = w[i - 1]
      BY <2>1, <2>3 DEF Turn
    <3>2. w[i - 1] = Sentinel => k = 1
      <4>1. next[Sentinel] = 1 /\ anchor[1] = 1 /\ 1 # Nil
        BY StoreAssumption DEF ListOK, Nil
      <4>. QED BY <2>3, <4>1, StoreAssumption DEF Keys
    <3>. QED BY <1>3, <3>1, <3>2
  <2>. QED BY <2>2, <2>3
<1>4. \A i \in 0..MaxNodes : i \in G
  <2>. HIDE DEF G
  <2>. QED BY <1>2, <1>3, UpTo
<1>5. MaxNodes \in G /\ w[MaxNodes] \in Lockable
  BY <1>2, <1>4
<1>6. CASE next[w[MaxNodes]] # Nil /\ anchor[next[w[MaxNodes]]] = k
  <2>1. Holder(k) = next[w[MaxNodes]]
    BY <1>1, <1>6 DEF Found
  <2>2. anchor[next[w[MaxNodes]]] <= k
    BY <1>6, StoreAssumption DEF Keys
  <2>. QED BY <1>0, <1>5, <1>6, <2>1, <2>2
<1>7. CASE ~(next[w[MaxNodes]] # Nil /\ anchor[next[w[MaxNodes]]] = k)
  <2>1. Holder(k) = w[MaxNodes]
    BY <1>1, <1>7 DEF Found
  <2>2. w[MaxNodes] # Sentinel
    <3>1. next[Sentinel] = 1 /\ anchor[1] = 1 /\ 1 # Nil
      BY StoreAssumption DEF ListOK, Nil
    <3>2. w[MaxNodes] = Sentinel => k = 1
      BY <1>2, <1>5 DEF Nodes, Sentinel
    <3>. QED BY <1>7, <3>1, <3>2
  <2>. QED BY <1>5, <2>1, <2>2
<1>. QED BY <1>6, <1>7

-----------------------------------------------------------------------------
(***************************************************************************)
(* Types.                                                                  *)
(***************************************************************************)

\* The anchor that splits a buffer is one of its records.
LEMMA RightAnchorType ==
  ASSUME NEW S \in SUBSET Keys, S # {}
  PROVE  RightAnchor(S) \in S
<1>. DEFINE s == LeftSize(S)
<1>1. s \in Nat /\ s < Cardinality(S)
  <2>1. IsFiniteSet(S)
    <3>1. IsFiniteSet(Keys)
      BY StoreAssumption, FS_Interval DEF Keys
    <3>. QED BY <3>1, FS_Subset
  <2>2. Cardinality(S) \in Nat /\ Cardinality(S) # 0
    BY <2>1, FS_CardinalityType, FS_EmptySet
  <2>. QED BY <2>2, StoreAssumption DEF LeftSize
<1>2. \E a \in S : Cardinality({k \in S : k < a}) = s
  <2>1. MaxKey \in Nat /\ S \in SUBSET (1..MaxKey)
    BY StoreAssumption DEF Keys
  <2>. HIDE DEF s
  <2>. QED BY <1>1, <2>1, Nth, Zenon
<1>. QED BY <1>2 DEF RightAnchor

\* Writing the neighbour, too, leaves records in every node and none in the head.
LEMMA PredWrittenType ==
  ASSUME TypeOK, NEW t \in Threads, NEW f \in [Lockable -> SUBSET Keys], f[Sentinel] = {}
  PROVE  /\ PredWritten(t, f) \in [Lockable -> SUBSET Keys] /\ PredWritten(t, f)[Sentinel] = {}
         /\ \A n \in Nodes : PredWritten(t, f)[n] = IF n = backward[at[t]] THEN pred[t] ELSE f[n]
<1>1. backward[at[t]] \in Lockable /\ pred[t] \in SUBSET Keys /\ Sentinel \in Lockable
  BY DEF TypeOK, Lockable
<1>2. Sentinel \notin Nodes /\ \A n \in Nodes : n \in Lockable
  BY DEF Nodes, Sentinel, Lockable
<1>. QED BY <1>1, <1>2 DEF PredWritten

\* Every variable keeps its type.
LEMMA TypeStep ==
  ASSUME IInv, [Next]_vars
  PROVE  TypeOK'
<1>. USE DEF IInv, table, list, remote, local, work, history
<1>1. CASE UNCHANGED vars
  BY <1>1 DEF vars, TypeOK, Winners
<1>2. ASSUME NEW t \in Threads, NEW k \in Keys, CallPut(t, k) PROVE TypeOK'
  BY <1>2, HolderLinked DEF CallPut, Goto, TypeOK, Winners
<1>3. ASSUME NEW t \in Threads, Win(t) PROVE TypeOK'
  BY <1>3 DEF Win, Drain, Goto, TypeOK, Winners
<1>4. ASSUME NEW t \in Threads, PredBusy(t) PROVE TypeOK'
  BY <1>4 DEF PredBusy, Drain, Goto, TypeOK, Winners
<1>5. ASSUME NEW t \in Threads, Lose(t) PROVE TypeOK'
  BY <1>5 DEF Lose, Drain, Goto, TypeOK, Winners, Lockable
<1>6. ASSUME NEW t \in Threads, Ticket(t) PROVE TypeOK'
  <2>1. PICK c \in {"submit", "try"} : pc' = [pc EXCEPT ![t] = c]
    BY <1>6 DEF Ticket, Goto
  <2>. QED BY <1>6, <2>1 DEF Ticket, TypeOK, Winners
<1>7. ASSUME NEW t \in Threads, Submit(t) PROVE TypeOK'
  BY <1>7 DEF Submit, Goto, TypeOK, Winners
<1>8. ASSUME NEW t \in Threads, PutReturns(t) PROVE TypeOK'
  <2>1. CASE answer[t] = "ok" /\ Finish(t)
    <3>1. key' \in [Threads -> Keys] /\ at' \in [Threads -> Nodes]
      BY <2>1, StoreAssumption DEF Finish, TypeOK, Keys, Nodes
    <3>. QED BY <1>8, <2>1, <3>1 DEF PutReturns, Finish, Goto, TypeOK, Winners
  <2>2. CASE answer[t] = "retry" /\ Goto(t, "try") /\ UNCHANGED local
    BY <1>8, <2>2 DEF PutReturns, Goto, TypeOK, Winners
  <2>. QED BY <1>8, <2>1, <2>2 DEF PutReturns
<1>9. ASSUME NEW t \in Threads, Fetch(t) PROVE TypeOK'
  <2>1. real' \in [Threads -> SUBSET Keys] /\ pred' \in [Threads -> SUBSET Keys]
    BY <1>9 DEF Fetch, TypeOK, Lockable
  <2>2. plan' \in [Threads -> {"none", "morph", "split"}]
    BY <1>9 DEF Fetch, Plans, TypeOK
  <2>3. \A u \in Threads : real'[u] # {} => u \in Winners'
    BY <1>9 DEF Fetch, Goto, TypeOK, Winners
  <2>. QED BY <1>9, <2>1, <2>2, <2>3 DEF Fetch, Goto, Placed, TypeOK
<1>10. ASSUME NEW t \in Threads, NEW u \in Threads, ServeOwn(t, u) PROVE TypeOK'
  BY <1>10 DEF ServeOwn, Serve, Placed, TypeOK, Winners
<1>11. ASSUME NEW t \in Threads, NEW u \in Threads, ServePred(t, u) PROVE TypeOK'
  BY <1>11 DEF ServePred, Serve, Placed, TypeOK, Winners
<1>12. ASSUME NEW t \in Threads, NEW u \in Threads, ServeRefused(t, u) PROVE TypeOK'
  BY <1>12 DEF ServeRefused, Serve, TypeOK, Winners
<1>13. ASSUME NEW t \in Threads, Outgrow(t) PROVE TypeOK'
  BY <1>13 DEF Outgrow, Plans, TypeOK, Winners
<1>14. ASSUME NEW t \in Threads, WriteInPlace(t) PROVE TypeOK'
  BY <1>14 DEF WriteInPlace, Goto, TypeOK, Winners, Lockable, Nodes, Sentinel
<1>15. ASSUME NEW t \in Threads, WriteMorphed(t) PROVE TypeOK'
  <2>1. recs' \in [Lockable -> SUBSET Keys] /\ recs'[Sentinel] = {}
    <3>1. /\ [recs EXCEPT ![at[t]] = real[t]] \in [Lockable -> SUBSET Keys]
          /\ [recs EXCEPT ![at[t]] = real[t]][Sentinel] = {}
      BY DEF TypeOK, Lockable, Nodes, Sentinel
    <3>. QED BY <1>15, <3>1, PredWrittenType DEF WriteMorphed
  <2>2. fresh' \in [Nodes -> BOOLEAN]
    BY <1>15 DEF WriteMorphed, PredFresh, TypeOK
  <2>3. size' \in [Nodes -> {Small, Large}]
    <3>1. PICK s \in {SizeFor(real[t]), Large} : size' = [size EXCEPT ![at[t]] = s]
      BY <1>15 DEF WriteMorphed
    <3>. QED BY <3>1 DEF SizeFor, TypeOK
  <2>. QED BY <1>15, <2>1, <2>2, <2>3 DEF WriteMorphed, Goto, TypeOK, Winners
<1>16. ASSUME NEW t \in Threads, WriteSplit(t) PROVE TypeOK'
  <2>. DEFINE new == CHOOSE m \in Nodes : anchor[m] = 0
              a == RightAnchor(real[t])
              r == RightOf(real[t], a)
  <2>1. new \in Nodes /\ a \in Keys /\ r \subseteq real[t] /\ real[t] \subseteq Keys
    BY <1>16, RightAnchorType DEF WriteSplit, BuffersOK, TypeOK, RightOf
  <2>. HIDE DEF new, a, r
  <2>2. recs' = PredWritten(t, [recs EXCEPT ![at[t]] = real[t] \ r, ![new] = r])
    BY <1>16 DEF WriteSplit, new, a, r
  <2>3. recs' \in [Lockable -> SUBSET Keys] /\ recs'[Sentinel] = {}
    <3>1. PICK f : /\ f = [recs EXCEPT ![at[t]] = real[t] \ r, ![new] = r]
                   /\ recs' = PredWritten(t, f)
      BY <2>2
    <3>2. /\ real[t] \ r \in SUBSET Keys /\ r \in SUBSET Keys
          /\ at[t] \in Lockable /\ at[t] # Sentinel /\ new \in Lockable /\ new # Sentinel
      BY <2>1 DEF TypeOK, Lockable, Nodes, Sentinel
    <3>3. /\ recs \in [Lockable -> SUBSET Keys] /\ recs[Sentinel] = {}
          /\ Sentinel \in Lockable
      BY DEF TypeOK, Lockable
    <3>4. f \in [Lockable -> SUBSET Keys] /\ f[Sentinel] = {}
      BY <3>1, <3>2, <3>3
    <3>5. TypeOK
      OBVIOUS
    <3>6. PredWritten(t, f) \in [Lockable -> SUBSET Keys] /\ PredWritten(t, f)[Sentinel] = {}
      BY <3>4, <3>5, PredWrittenType
    <3>. QED BY <3>1, <3>6
  <2>4. fresh' \in [Nodes -> BOOLEAN]
    BY <1>16 DEF WriteSplit, PredFresh, TypeOK
  <2>5. size' \in [Nodes -> {Small, Large}] /\ anchor' \in [Nodes -> 0..MaxKey]
    BY <1>16, <2>1 DEF WriteSplit, SizeFor, TypeOK, Keys, new, a, r
  <2>6. right' \in [Threads -> Nodes \cup {Nil}]
    BY <1>16, <2>1 DEF WriteSplit, TypeOK, new
  <2>10. astray' \in BOOLEAN
    BY <1>16 DEF WriteSplit, TypeOK
  <2>7. /\ pc' = [pc EXCEPT ![t] = "link"] /\ real' = [real EXCEPT ![t] = {}]
        /\ pred' = [pred EXCEPT ![t] = {}] /\ handed' = handed \ pred[t]
        /\ UNCHANGED <<next, backward, table, local, own, plan, answer, due>>
    BY <1>16 DEF WriteSplit, Goto
  <2>8. /\ pc' \in [Threads -> {"idle", "try", "lost", "submit", "wait", "fetch", "help", "link",
                                "leave", "read"}]
        /\ real' \in [Threads -> SUBSET Keys] /\ pred' \in [Threads -> SUBSET Keys]
        /\ handed' \subseteq Keys
    BY <2>7 DEF TypeOK
  <2>9. \A u \in Threads : real'[u] # {} => u \in Winners'
    BY <2>7 DEF TypeOK, Winners
  <2>. QED BY <2>3, <2>4, <2>5, <2>6, <2>7, <2>8, <2>9, <2>10 DEF TypeOK, table, local
<1>17. ASSUME NEW t \in Threads, Link(t) PROVE TypeOK'
  BY <1>17 DEF Link, Goto, TypeOK, Winners, Lockable, HalvesOK
<1>18. ASSUME NEW t \in Threads, Leave(t) PROVE TypeOK'
  BY <1>18, StoreAssumption DEF Leave, Finish, Goto, TypeOK, Winners, BuffersOK, Keys, Nodes
<1>19. ASSUME NEW t \in Threads, NEW k \in Keys, CallGet(t, k) PROVE TypeOK'
  BY <1>19, HolderLinked DEF CallGet, Drain, Goto, TypeOK, Winners, Lockable
<1>20. ASSUME NEW t \in Threads, GetReads(t) PROVE TypeOK'
  BY <1>20 DEF GetReads, Goto, TypeOK, Winners
<1>21. ASSUME NEW t \in Threads, GetRetries(t) PROVE TypeOK'
  BY <1>21, HolderLinked DEF GetRetries, Drain, TypeOK, Winners
<1>22. ASSUME NEW t \in Threads, GetReturns(t) PROVE TypeOK'
  <2>1. key' \in [Threads -> Keys] /\ at' \in [Threads -> Nodes]
    BY <1>22, StoreAssumption DEF GetReturns, Finish, TypeOK, Keys, Nodes
  <2>. QED BY <1>22, <2>1 DEF GetReturns, Finish, Goto, TypeOK, Winners
<1>. QED
  BY <1>1, <1>2, <1>3, <1>4, <1>5, <1>6, <1>7, <1>8, <1>9, <1>10, <1>11, <1>12, <1>13, <1>14,
     <1>15, <1>16, <1>17, <1>18, <1>19, <1>20, <1>21, <1>22, StoreAssumption
  DEF Next, Call, WinnerStep, Keys

-----------------------------------------------------------------------------
(***************************************************************************)
(* What the steps leave alone.                                             *)
(***************************************************************************)

\* Steps that touch neither the list, nor records, nor buffers.
Quiet(t) ==
    \/ \E k \in Keys : CallPut(t, k) \/ CallGet(t, k)
    \/ Win(t) \/ PredBusy(t) \/ Lose(t) \/ Ticket(t) \/ Submit(t) \/ PutReturns(t) \/ Leave(t)
    \/ GetReads(t) \/ GetRetries(t) \/ GetReturns(t)

\* Steps of a winner on its buffers.
Buffered(t) ==
    \/ Fetch(t) \/ Outgrow(t)
    \/ \E u \in Threads : ServeOwn(t, u) \/ ServePred(t, u) \/ ServeRefused(t, u)

\* Every step is quiet, one on the buffers, or one of four.
LEMMA NextSteps ==
  ASSUME [Next]_vars
  PROVE  \/ UNCHANGED vars
         \/ \E t \in Threads :
               Quiet(t) \/ Buffered(t) \/ WriteInPlace(t) \/ WriteMorphed(t) \/ WriteSplit(t) \/ Link(t)
BY StoreAssumption DEF Next, Call, WinnerStep, Quiet, Buffered, Keys

\* What a quiet step leaves alone: and it takes its thread to a node of the list.
Apart(t) ==
    /\ UNCHANGED <<next, backward, anchor, recs, real, pred, right, handed, astray>>
    /\ pc[t] \notin {"help", "link"} /\ pc'[t] \notin {"help", "link"}
    /\ at'[t] \in Nodes /\ Linked(at'[t])
    /\ \A u \in Threads \ {t} :
          /\ pc'[u] = pc[u] /\ at'[u] = at[u] /\ own'[u] = own[u] /\ op'[u] = op[u]
          /\ key'[u] = key[u] /\ plan'[u] = plan[u]

\* Quiet steps are.
LEMMA QuietSteps ==
  ASSUME IInv, NEW t \in Threads, Quiet(t)
  PROVE  Apart(t)
<1>. USE DEF IInv, table, list, remote, local, work, history, Goto
<1>0. 1 \in Nodes /\ Linked(1) /\ \A u \in Threads : at[u] \in Nodes /\ Linked(at[u])
  BY StoreAssumption DEF ListOK, TypeOK, Nodes, Lockable, Nil
<1>1. ASSUME NEW k \in Keys, CallPut(t, k) PROVE Apart(t)
  BY <1>1, HolderLinked DEF CallPut, Apart, TypeOK
<1>2. CASE Win(t)
  BY <1>0, <1>2 DEF Win, Drain, Apart, TypeOK
<1>3. CASE PredBusy(t)
  BY <1>0, <1>3 DEF PredBusy, Drain, Apart, TypeOK
<1>4. CASE Lose(t)
  BY <1>0, <1>4 DEF Lose, Drain, Apart, TypeOK
<1>5. CASE Ticket(t)
  <2>1. PICK c \in {"submit", "try"} : pc' = [pc EXCEPT ![t] = c]
    BY <1>5 DEF Ticket
  <2>. QED BY <1>0, <1>5, <2>1 DEF Ticket, Apart, TypeOK
<1>6. CASE Submit(t)
  BY <1>0, <1>6 DEF Submit, Apart, TypeOK
<1>7. CASE PutReturns(t)
  <2>1. CASE answer[t] = "ok" /\ Finish(t)
    BY <1>0, <1>7, <2>1 DEF PutReturns, Finish, Apart, TypeOK
  <2>2. CASE answer[t] = "retry" /\ Goto(t, "try") /\ UNCHANGED local
    BY <1>0, <1>7, <2>2 DEF PutReturns, Apart, TypeOK
  <2>. QED BY <1>7, <2>1, <2>2 DEF PutReturns
<1>8. CASE Leave(t)
  BY <1>0, <1>8 DEF Leave, Finish, Apart, TypeOK
<1>9. ASSUME NEW k \in Keys, CallGet(t, k) PROVE Apart(t)
  BY <1>9, HolderLinked DEF CallGet, Drain, Apart, TypeOK
<1>10. CASE GetReads(t)
  BY <1>0, <1>10 DEF GetReads, Apart, TypeOK
<1>11. CASE GetRetries(t)
  BY <1>11, HolderLinked DEF GetRetries, Drain, Apart, TypeOK
<1>12. CASE GetReturns(t)
  BY <1>0, <1>12 DEF GetReturns, Finish, Apart, TypeOK
<1>. QED
  BY <1>1, <1>2, <1>3, <1>4, <1>5, <1>6, <1>7, <1>8, <1>9, <1>10, <1>11, <1>12 DEF Quiet

\* Steps on the buffers leave the list, the remote nodes and the locks alone, and
\* what a buffer holds, stays.
LEMMA BufferSteps ==
  ASSUME IInv, NEW t \in Threads, Buffered(t)
  PROVE  /\ UNCHANGED <<next, backward, anchor, recs, ctx, at, right, op, key>>
         /\ pc[t] \in {"fetch", "help"} /\ pc'[t] = "help" /\ own'[t] /\ t \notin requests[t]
         /\ \A u \in Threads : real[u] \subseteq real'[u] /\ pred[u] \subseteq pred'[u]
         /\ \A u \in Threads \ {t} :
               /\ pc'[u] = pc[u] /\ own'[u] = own[u] /\ plan'[u] = plan[u]
               /\ real'[u] = real[u] /\ pred'[u] = pred[u] /\ requests'[u] = requests[u]
<1>. USE DEF IInv, table, list, remote, local, work, history, Goto
<1>1. CASE Fetch(t)
  <2>1. PICK p : plan' = [plan EXCEPT ![t] = p]
    BY <1>1 DEF Fetch
  <2>. QED BY <1>1, <2>1 DEF Fetch, TypeOK, BuffersOK, CallsOK, RequestsOK
<1>2. CASE Outgrow(t)
  <2>1. PICK p : plan' = [plan EXCEPT ![t] = p]
    BY <1>2 DEF Outgrow
  <2>. QED BY <1>2, <2>1 DEF Outgrow, TypeOK, CallsOK, RequestsOK
<1>3. CASE \E u \in Threads : ServeOwn(t, u)
  BY <1>3 DEF ServeOwn, Serve, TypeOK, CallsOK, RequestsOK
<1>4. CASE \E u \in Threads : ServePred(t, u)
  BY <1>4 DEF ServePred, Serve, TypeOK, CallsOK, RequestsOK
<1>5. CASE \E u \in Threads : ServeRefused(t, u)
  BY <1>5 DEF ServeRefused, Serve, TypeOK, CallsOK, RequestsOK
<1>. QED BY <1>1, <1>2, <1>3, <1>4, <1>5 DEF Buffered

\* A winner's node and neighbour are nobody else's.
LEMMA Alone ==
  ASSUME IInv, NEW t \in Winners, NEW u \in Winners, t # u
  PROVE  /\ at[t] # at[u] /\ at[t] # backward[at[u]]
         /\ backward[at[t]] # at[u] /\ backward[at[t]] # backward[at[u]]
BY DEF IInv, LocksOK

\* Nodes, the head and the null pointer are apart; a winner has its node, and the
\* neighbour is another one or the head.
LEMMA NodesApart ==
  ASSUME IInv
  PROVE  /\ Sentinel \notin Nodes /\ Nil \notin Nodes /\ Nil \notin Lockable
         /\ \A n \in Nodes : n \in Lockable
         /\ \A t \in Threads : /\ at[t] \in Nodes /\ Linked(at[t])
                               /\ backward[at[t]] \in Lockable /\ backward[at[t]] # at[t]
         /\ \A n \in Nodes : backward[n] \in Nodes => Linked(backward[n])
BY StoreAssumption DEF IInv, ListOK, TypeOK, Nodes, Lockable, Nil, Sentinel

\* What a split writes: the neighbour, the left half, and in a node that did not
\* exist the right half, which the record a opens.
SplitWrites(t, new, a) ==
    /\ anchor[new] = 0 /\ a \in Keys /\ astray' = (astray \/ a <= anchor[at[t]])
    /\ anchor' = [anchor EXCEPT ![new] = a] /\ right' = [right EXCEPT ![t] = new]
    /\ new # at[t] /\ new # backward[at[t]]
    /\ \A n \in Nodes : recs'[n] =
          IF n = backward[at[t]] THEN pred[t]
          ELSE IF n = new THEN RightOf(real[t], a)
          ELSE IF n = at[t] THEN real[t] \ RightOf(real[t], a)
          ELSE recs[n]

\* There is such a node and such a record.
LEMMA SplitSteps ==
  ASSUME IInv, NEW t \in Threads, WriteSplit(t)
  PROVE  \E new \in Nodes, a \in real[t] : SplitWrites(t, new, a)
<1>. USE DEF IInv
<1>. DEFINE new == CHOOSE m \in Nodes : anchor[m] = 0
            a == RightAnchor(real[t])
            r == RightOf(real[t], a)
<1>1. new \in Nodes /\ anchor[new] = 0
  BY DEF WriteSplit
<1>2. /\ a \in real[t] /\ r \subseteq real[t] /\ real[t] \subseteq Keys
      /\ astray' = (astray \/ a <= anchor[at[t]])
  <2>1. real[t] # {} /\ real[t] \in SUBSET Keys
    BY DEF WriteSplit, BuffersOK, TypeOK
  <2>2. a \in real[t] /\ astray' = (astray \/ a <= anchor[at[t]])
    <3>1. astray' = (astray \/ a <= anchor[at[t]])
      BY DEF WriteSplit
    <3>. HIDE DEF a
    <3>. QED BY <2>1, <3>1, RightAnchorType, Zenon DEF a
  <2>. HIDE DEF a
  <2>. QED BY <2>1, <2>2 DEF RightOf
<1>. HIDE DEF new, a, r
<1>3. PICK f : /\ f = [recs EXCEPT ![at[t]] = real[t] \ r, ![new] = r]
               /\ recs' = PredWritten(t, f)
  BY DEF WriteSplit, new, a, r
<1>4. /\ at[t] \in Lockable /\ at[t] # Sentinel /\ at[t] \in Nodes
      /\ new \in Lockable /\ new # Sentinel /\ new # at[t]
  BY <1>1, NodesApart DEF Linked
<1>5. recs \in [Lockable -> SUBSET Keys] /\ recs[Sentinel] = {} /\ Sentinel \in Lockable
  BY DEF TypeOK, Lockable
<1>6. f \in [Lockable -> SUBSET Keys] /\ f[Sentinel] = {}
  BY <1>2, <1>3, <1>4, <1>5
<1>7. \A n \in Nodes : PredWritten(t, f)[n] = IF n = backward[at[t]] THEN pred[t] ELSE f[n]
  <2>1. TypeOK
    OBVIOUS
  <2>. QED BY <1>6, <2>1, PredWrittenType
<1>8. \A n \in Nodes : f[n] = IF n = new THEN r ELSE IF n = at[t] THEN real[t] \ r ELSE recs[n]
  BY <1>3, <1>4, <1>5 DEF Lockable
<1>9. new # backward[at[t]]
  BY <1>1, NodesApart DEF Linked
<1>10. anchor' = [anchor EXCEPT ![new] = a] /\ right' = [right EXCEPT ![t] = new]
  BY DEF WriteSplit, new, a
<1>11. r = RightOf(real[t], a)
  BY DEF r
<1>12. \A n \in Nodes : recs'[n] =
          IF n = backward[at[t]] THEN pred[t]
          ELSE IF n = new THEN RightOf(real[t], a)
          ELSE IF n = at[t] THEN real[t] \ RightOf(real[t], a)
          ELSE recs[n]
  BY <1>3, <1>7, <1>8, <1>11
<1>. QED BY <1>1, <1>2, <1>4, <1>9, <1>10, <1>12 DEF SplitWrites

\* What a morph writes: the neighbour and the node.
LEMMA MorphSteps ==
  ASSUME IInv, NEW t \in Threads, WriteMorphed(t)
  PROVE  \A n \in Nodes : recs'[n] =
            IF n = backward[at[t]] THEN pred[t] ELSE IF n = at[t] THEN real[t] ELSE recs[n]
<1>. USE DEF IInv
<1>1. PICK f : f = [recs EXCEPT ![at[t]] = real[t]] /\ recs' = PredWritten(t, f)
  BY DEF WriteMorphed
<1>2. f \in [Lockable -> SUBSET Keys] /\ f[Sentinel] = {}
  BY <1>1 DEF TypeOK, Lockable, Nodes, Sentinel
<1>3. \A n \in Nodes : PredWritten(t, f)[n] = IF n = backward[at[t]] THEN pred[t] ELSE f[n]
  <2>1. TypeOK
    OBVIOUS
  <2>. QED BY <1>2, <2>1, PredWrittenType
<1>4. \A n \in Nodes : f[n] = IF n = at[t] THEN real[t] ELSE recs[n]
  BY <1>1 DEF TypeOK, Lockable
<1>. QED BY <1>1, <1>3, <1>4

\* A link puts the right half behind the node it was split from.
LEMMA LinkSteps ==
  ASSUME IInv, NEW t \in Threads, Link(t)
  PROVE  /\ right[t] \in Nodes /\ anchor[right[t]] # 0 /\ right[t] # at[t]
         /\ next' = [next EXCEPT ![right[t]] = next[at[t]], ![at[t]] = right[t]]
         /\ backward' = [backward EXCEPT ![right[t]] = at[t]]
         /\ right' = [right EXCEPT ![t] = Nil]
         /\ pc' = [pc EXCEPT ![t] = "leave"] /\ pc[t] = "link"
         /\ UNCHANGED <<anchor, recs, ctx, requests, op, key, at, own, real, pred, plan,
                        answer, handed, astray>>
         /\ \A u \in Threads : at[u] # right[t] /\ backward[at[u]] # right[t]
BY NodesApart DEF IInv, Link, HalvesOK, ListOK, Linked, TypeOK, Goto, table, local, history

-----------------------------------------------------------------------------
(***************************************************************************)
(* The list, the halves, the locks, the calls and the requests.            *)
(***************************************************************************)

\* Nobody points to a node that is not linked, whatever the step.
LEMMA ListStep ==
  ASSUME IInv, [Next]_vars
  PROVE  ListOK'
<1>. USE DEF IInv
<1>1. CASE UNCHANGED vars
  BY <1>1 DEF vars, list, remote, table, local, work, ListOK, Linked
<1>2. ASSUME NEW t \in Threads, Quiet(t) PROVE ListOK'
  <2>1. Apart(t)
    BY <1>2, QuietSteps
  <2>. QED BY <2>1 DEF Apart, ListOK, Linked
<1>3. ASSUME NEW t \in Threads, Buffered(t) PROVE ListOK'
  BY <1>3, BufferSteps DEF ListOK, Linked
<1>4. ASSUME NEW t \in Threads, WriteInPlace(t) PROVE ListOK'
  BY <1>4, NodesApart DEF WriteInPlace, ListOK, Linked, list, work, local, TypeOK
<1>5. ASSUME NEW t \in Threads, WriteMorphed(t) PROVE ListOK'
  <2>1. UNCHANGED <<next, backward, anchor, at, right>>
    BY <1>5 DEF WriteMorphed, list, local
  <2>2. \A n \in Nodes : anchor[n] = 0 => recs'[n] = recs[n]
    BY <1>5, NodesApart, MorphSteps DEF Linked
  <2>. QED BY <2>1, <2>2 DEF ListOK, Linked
<1>6. ASSUME NEW t \in Threads, WriteSplit(t) PROVE ListOK'
  <2>1. PICK new \in Nodes, a \in real[t] : SplitWrites(t, new, a)
    BY <1>6, SplitSteps
  <2>2. \A n \in Nodes : Linked(n) => Linked(n)'
    BY <2>1 DEF SplitWrites, Linked, TypeOK
  <2>3. UNCHANGED <<next, backward, at>>
    BY <1>6 DEF WriteSplit, local
  <2>4. \A n \in Nodes : anchor'[n] = 0 => anchor[n] = 0 /\ recs'[n] = recs[n]
    <3>1. a # 0
      BY <2>1, StoreAssumption DEF SplitWrites, Keys
    <3>2. \A n \in Nodes : anchor'[n] = IF n = new THEN a ELSE anchor[n]
      BY <2>1 DEF SplitWrites, TypeOK
    <3>3. \A n \in Nodes : anchor[n] = 0 => n # at[t] /\ n # backward[at[t]]
      BY NodesApart DEF Linked
    <3>. QED BY <2>1, <3>1, <3>2, <3>3 DEF SplitWrites
  <2>5. anchor'[1] = 1
    BY <2>1 DEF SplitWrites, ListOK, TypeOK
  <2>6. \A m \in Lockable : next[m] # Nil => next[m] \in Nodes /\ Linked(next[m])
    BY DEF ListOK, TypeOK
  <2>7. \A n \in Nodes : backward[n] # Sentinel =>
           backward[n] \in Nodes /\ Linked(backward[n]) /\ backward[n] # n
    BY DEF ListOK, TypeOK, Lockable
  <2>. QED BY <2>2, <2>3, <2>4, <2>5, <2>6, <2>7, NodesApart DEF ListOK
<1>7. ASSUME NEW t \in Threads, Link(t) PROVE ListOK'
  <2>1. PICK new \in Nodes, n \in Nodes :
           /\ new = right[t] /\ n = at[t] /\ n # new /\ anchor[new] # 0
           /\ next' = [next EXCEPT ![new] = next[n], ![n] = new]
           /\ backward' = [backward EXCEPT ![new] = n]
           /\ right' = [right EXCEPT ![t] = Nil]
           /\ UNCHANGED <<anchor, recs, at>>
    BY <1>7, LinkSteps, NodesApart
  <2>2. \A m \in Nodes : m = new \/ Linked(m) => Linked(m)'
    <3>1. \A u \in Threads : u # t => right[u] # new
      BY <2>1, NodesApart DEF HalvesOK
    <3>2. \A u \in Threads : right'[u] = IF u = t THEN Nil ELSE right[u]
      BY <2>1 DEF TypeOK
    <3>. QED BY <2>1, <3>1, <3>2, NodesApart DEF Linked
  <2>3. \A m \in Lockable : next'[m] # Nil => \E x \in Nodes : x = next'[m] /\ Linked(x)'
    <3>1. \A m \in Lockable : next'[m] = IF m = n THEN new ELSE IF m = new THEN next[n] ELSE next[m]
      BY <2>1, NodesApart DEF TypeOK
    <3>2. \A m \in Lockable : next[m] # Nil => next[m] \in Nodes /\ Linked(next[m])
      BY DEF ListOK, TypeOK
    <3>3. ASSUME NEW m \in Lockable, next'[m] # Nil
          PROVE  \E x \in Nodes : x = next'[m] /\ Linked(x)'
      <4>1. PICK x : x = next'[m]
        OBVIOUS
      <4>2. x \in Nodes /\ (x = new \/ Linked(x))
        BY <2>1, <3>1, <3>2, <3>3, <4>1, NodesApart
      <4>. QED BY <2>2, <4>1, <4>2
    <3>. QED BY <3>3
  <2>4. \A m \in Nodes : backward'[m] # Sentinel =>
           backward'[m] # m /\ \E x \in Nodes : x = backward'[m] /\ Linked(x)'
    <3>1. \A m \in Nodes : backward'[m] = IF m = new THEN n ELSE backward[m]
      BY <2>1 DEF TypeOK
    <3>2. \A m \in Nodes : backward[m] # Sentinel =>
             backward[m] \in Nodes /\ Linked(backward[m]) /\ backward[m] # m
      BY DEF ListOK, TypeOK, Lockable
    <3>3. ASSUME NEW m \in Nodes, backward'[m] # Sentinel
          PROVE  backward'[m] # m /\ \E x \in Nodes : x = backward'[m] /\ Linked(x)'
      <4>1. PICK x : x = backward'[m]
        OBVIOUS
      <4>2. x \in Nodes /\ Linked(x) /\ x # m
        BY <2>1, <3>1, <3>2, <3>3, <4>1, NodesApart
      <4>. QED BY <2>2, <4>1, <4>2
    <3>. QED BY <3>3
  <2>5. next'[Sentinel] = 1 /\ anchor'[1] = 1
    BY <2>1, NodesApart DEF ListOK, TypeOK, Lockable
  <2>6. \A u \in Threads : \E x \in Nodes : x = at'[u] /\ Linked(x)'
    BY <2>1, <2>2, NodesApart
  <2>7. \A m \in Nodes : anchor'[m] = 0 => recs'[m] = {}
    BY <2>1 DEF ListOK
  <2>. QED BY <2>3, <2>4, <2>5, <2>6, <2>7 DEF ListOK, Linked
<1>. QED BY <1>1, <1>2, <1>3, <1>4, <1>5, <1>6, <1>7, NextSteps

\* Each split makes a half of its own, and each link uses it up.
LEMMA HalvesStep ==
  ASSUME IInv, [Next]_vars
  PROVE  HalvesOK'
<1>. USE DEF IInv
<1>1. CASE UNCHANGED vars
  BY <1>1 DEF vars, list, work, HalvesOK
<1>2. ASSUME NEW t \in Threads, Quiet(t) PROVE HalvesOK'
  <2>1. Apart(t)
    BY <1>2, QuietSteps
  <2>. QED BY <2>1 DEF Apart, HalvesOK
<1>3. ASSUME NEW t \in Threads, Buffered(t) PROVE HalvesOK'
  BY <1>3, BufferSteps DEF HalvesOK
<1>4. ASSUME NEW t \in Threads, WriteInPlace(t) PROVE HalvesOK'
  BY <1>4 DEF WriteInPlace, HalvesOK, list, Goto, TypeOK
<1>5. ASSUME NEW t \in Threads, WriteMorphed(t) PROVE HalvesOK'
  BY <1>5 DEF WriteMorphed, HalvesOK, list, Goto, TypeOK
<1>6. ASSUME NEW t \in Threads, WriteSplit(t) PROVE HalvesOK'
  <2>1. PICK new \in Nodes, a \in real[t] :
            /\ anchor[new] = 0 /\ a \in Keys
            /\ anchor' = [anchor EXCEPT ![new] = a] /\ right' = [right EXCEPT ![t] = new]
    BY <1>6, SplitSteps DEF SplitWrites
  <2>2. pc[t] = "help" /\ pc' = [pc EXCEPT ![t] = "link"]
    BY <1>6 DEF WriteSplit, Goto
  <2>3. \A u \in Threads : right[u] # new
    BY <2>1, NodesApart DEF HalvesOK
  <2>4. a # 0
    BY <2>1, StoreAssumption DEF Keys
  <2>. QED BY <2>1, <2>2, <2>3, <2>4, NodesApart DEF HalvesOK, TypeOK
<1>7. ASSUME NEW t \in Threads, Link(t) PROVE HalvesOK'
  <2>1. /\ right' = [right EXCEPT ![t] = Nil] /\ UNCHANGED anchor
        /\ pc' = [pc EXCEPT ![t] = "leave"]
    BY <1>7, LinkSteps
  <2>. QED BY <2>1 DEF HalvesOK, TypeOK
<1>. QED BY <1>1, <1>2, <1>3, <1>4, <1>5, <1>6, <1>7, NextSteps

\* A lock is taken when it is free and given back by its holder; the neighbour of
\* a locked node stays the same.
LEMMA LocksStep ==
  ASSUME IInv, [Next]_vars
  PROVE  LocksOK'
<1>. USE DEF IInv
<1>0. None \notin Threads
  BY StoreAssumption
<1>1. CASE UNCHANGED vars
  BY <1>1 DEF vars, list, table, local, LocksOK, Winners
<1>2. ASSUME NEW t \in Threads, Quiet(t) PROVE LocksOK'
  <2>1. Apart(t)
    BY <1>2, QuietSteps
  <2>2. \A u \in Winners' : u # t => u \in Winners /\ at'[u] = at[u]
    BY <2>1 DEF Apart, Winners
  <2>3. CASE Win(t)
    <3>1. PICK n \in Nodes, p \in Lockable :
             /\ n = at[t] /\ p = backward[n] /\ n \in Lockable
             /\ ctx[n] = None /\ ctx[p] = None /\ ctx' = [ctx EXCEPT ![n] = t, ![p] = t]
             /\ UNCHANGED <<at, backward>>
      BY <2>3, NodesApart DEF Win, local, list
    <3>2. \A u \in Winners' : u # t => u \in Winners /\ ctx[at[u]] = u /\ ctx[backward[at[u]]] = u
      BY <2>2 DEF LocksOK
    <3>3. \A u \in Winners' : u # t => ctx'[at[u]] = u /\ ctx'[backward[at[u]]] = u
      BY <1>0, <3>1, <3>2, NodesApart DEF TypeOK, Winners
    <3>4. ctx'[at[t]] = t /\ ctx'[backward[at[t]]] = t
      BY <3>1 DEF TypeOK
    <3>. QED BY <3>1, <3>3, <3>4 DEF LocksOK
  <2>4. CASE Leave(t)
    <3>1. \A u \in Winners' : u # t /\ ctx'[at[u]] = u /\ ctx'[backward[at[u]]] = u
      <4>1. \A u \in Winners' : u # t
        BY <2>4 DEF Leave, Finish, Goto, TypeOK, Winners
      <4>2. t \in Winners
        BY <2>4 DEF Leave, Winners
      <4>3. ASSUME NEW u \in Winners' PROVE ctx'[at[u]] = u /\ ctx'[backward[at[u]]] = u
        <5>1. u \in Winners /\ u # t /\ u \in Threads
          BY <2>2, <4>1 DEF Winners
        <5>2. at[u] \notin {at[t], backward[at[t]]} /\ backward[at[u]] \notin {at[t], backward[at[t]]}
          BY <4>2, <5>1, Alone
        <5>3. at[u] \in Lockable /\ backward[at[u]] \in Lockable
          BY <5>1, NodesApart
        <5>4. ctx'[at[u]] = ctx[at[u]] /\ ctx'[backward[at[u]]] = ctx[backward[at[u]]]
          BY <2>4, <5>2, <5>3 DEF Leave
        <5>. QED BY <5>1, <5>4 DEF LocksOK
      <4>. QED BY <4>1, <4>3
    <3>. QED BY <2>1, <2>2, <3>1 DEF Apart, LocksOK
  <2>5. CASE ~Win(t) /\ ~Leave(t)
    <3>1. ctx' = ctx /\ t \notin Winners'
      BY <1>2, <2>5 DEF Quiet, CallPut, CallGet, PredBusy, Lose, Ticket, Submit, PutReturns, GetReads,
         GetRetries, GetReturns, Goto, Finish, Drain, table, TypeOK, Winners
    <3>. QED BY <2>1, <2>2, <3>1 DEF Apart, LocksOK
  <2>. QED BY <2>3, <2>4, <2>5
<1>3. ASSUME NEW t \in Threads, Buffered(t) PROVE LocksOK'
  BY <1>3, BufferSteps DEF LocksOK, Winners
<1>4. ASSUME NEW t \in Threads, WriteInPlace(t) PROVE LocksOK'
  BY <1>4 DEF WriteInPlace, LocksOK, list, table, local, Goto, TypeOK, Winners
<1>5. ASSUME NEW t \in Threads, WriteMorphed(t) PROVE LocksOK'
  BY <1>5 DEF WriteMorphed, LocksOK, list, table, local, Goto, TypeOK, Winners
<1>6. ASSUME NEW t \in Threads, WriteSplit(t) PROVE LocksOK'
  BY <1>6 DEF WriteSplit, LocksOK, table, local, Goto, TypeOK, Winners
<1>7. ASSUME NEW t \in Threads, Link(t) PROVE LocksOK'
  <2>1. \A u \in Threads : at'[u] = at[u] /\ backward'[at[u]] = backward[at[u]] /\ ctx' = ctx
    BY <1>7, LinkSteps, NodesApart DEF TypeOK
  <2>2. \A u \in Winners' : u \in Winners
    BY <1>7, LinkSteps DEF Winners, TypeOK
  <2>3. ctx' = ctx /\ Winners \subseteq Threads
    BY <1>7, LinkSteps DEF Winners
  <2>4. \A u \in Winners' : u \in Threads /\ ctx[at[u]] = u /\ ctx[backward[at[u]]] = u
    BY <2>2, <2>3 DEF LocksOK
  <2>. QED BY <2>1, <2>3, <2>4 DEF LocksOK
<1>. QED BY <1>1, <1>2, <1>3, <1>4, <1>5, <1>6, <1>7, NextSteps

\* Where an operation is, what it is and what it was answered stay in agreement.
LEMMA CallsStep ==
  ASSUME IInv, [Next]_vars
  PROVE  CallsOK' /\ RequestsOK'
<1>. USE DEF IInv, table, local, work, Goto
<1>1. CASE UNCHANGED vars
  BY <1>1 DEF vars, CallsOK, RequestsOK
<1>2. ASSUME NEW t \in Threads, NEW k \in Keys, CallPut(t, k) PROVE CallsOK' /\ RequestsOK'
  BY <1>2 DEF CallPut, CallsOK, RequestsOK, TypeOK
<1>3. ASSUME NEW t \in Threads, Win(t) PROVE CallsOK' /\ RequestsOK'
  BY <1>3 DEF Win, Drain, CallsOK, RequestsOK, TypeOK
<1>4. ASSUME NEW t \in Threads, PredBusy(t) PROVE CallsOK' /\ RequestsOK'
  BY <1>4 DEF PredBusy, Drain, CallsOK, RequestsOK, TypeOK
<1>5. ASSUME NEW t \in Threads, Lose(t) PROVE CallsOK' /\ RequestsOK'
  BY <1>5 DEF Lose, Drain, CallsOK, RequestsOK, TypeOK
<1>6. ASSUME NEW t \in Threads, Ticket(t) PROVE CallsOK' /\ RequestsOK'
  <2>1. PICK c \in {"submit", "try"} : pc' = [pc EXCEPT ![t] = c]
    BY <1>6 DEF Ticket
  <2>. QED BY <1>6, <2>1 DEF Ticket, CallsOK, RequestsOK, TypeOK
<1>7. ASSUME NEW t \in Threads, Submit(t) PROVE CallsOK' /\ RequestsOK'
  BY <1>7 DEF Submit, CallsOK, RequestsOK, TypeOK
<1>8. ASSUME NEW t \in Threads, PutReturns(t) PROVE CallsOK' /\ RequestsOK'
  <2>1. CASE answer[t] = "ok" /\ Finish(t)
    BY <1>8, <2>1 DEF PutReturns, Finish, CallsOK, RequestsOK, TypeOK
  <2>2. CASE answer[t] = "retry" /\ Goto(t, "try") /\ UNCHANGED local
    BY <1>8, <2>2 DEF PutReturns, CallsOK, RequestsOK, TypeOK
  <2>. QED BY <1>8, <2>1, <2>2 DEF PutReturns
<1>9. ASSUME NEW t \in Threads, Fetch(t) PROVE CallsOK' /\ RequestsOK'
  BY <1>9 DEF Fetch, CallsOK, RequestsOK, TypeOK
<1>10. ASSUME NEW t \in Threads, Outgrow(t) PROVE CallsOK' /\ RequestsOK'
  BY <1>10 DEF Outgrow, CallsOK, RequestsOK, TypeOK
<1>11. ASSUME NEW t \in Threads, NEW u \in Threads, NEW a \in {"ok", "retry"}, Serve(t, u, a),
              UNCHANGED key
       PROVE  CallsOK' /\ RequestsOK'
  BY <1>11 DEF Serve, CallsOK, RequestsOK, TypeOK
<1>12. ASSUME NEW t \in Threads, WriteInPlace(t) PROVE CallsOK' /\ RequestsOK'
  BY <1>12 DEF WriteInPlace, CallsOK, RequestsOK, TypeOK
<1>13. ASSUME NEW t \in Threads, WriteMorphed(t) PROVE CallsOK' /\ RequestsOK'
  BY <1>13 DEF WriteMorphed, CallsOK, RequestsOK, TypeOK
<1>14. ASSUME NEW t \in Threads, WriteSplit(t) PROVE CallsOK' /\ RequestsOK'
  BY <1>14 DEF WriteSplit, CallsOK, RequestsOK, TypeOK
<1>15. ASSUME NEW t \in Threads, Link(t) PROVE CallsOK' /\ RequestsOK'
  BY <1>15 DEF Link, CallsOK, RequestsOK, TypeOK
<1>16. ASSUME NEW t \in Threads, Leave(t) PROVE CallsOK' /\ RequestsOK'
  BY <1>16 DEF Leave, Finish, CallsOK, RequestsOK, TypeOK
<1>17. ASSUME NEW t \in Threads, NEW k \in Keys, CallGet(t, k) PROVE CallsOK' /\ RequestsOK'
  BY <1>17 DEF CallGet, Drain, CallsOK, RequestsOK, TypeOK
<1>18. ASSUME NEW t \in Threads, GetReads(t) PROVE CallsOK' /\ RequestsOK'
  BY <1>18 DEF GetReads, CallsOK, RequestsOK, TypeOK
<1>19. ASSUME NEW t \in Threads, GetRetries(t) PROVE CallsOK' /\ RequestsOK'
  BY <1>19 DEF GetRetries, Drain, CallsOK, RequestsOK, TypeOK
<1>20. ASSUME NEW t \in Threads, GetReturns(t) PROVE CallsOK' /\ RequestsOK'
  BY <1>20 DEF GetReturns, Finish, CallsOK, RequestsOK, TypeOK
<1>. QED
  BY <1>1, <1>2, <1>3, <1>4, <1>5, <1>6, <1>7, <1>8, <1>9, <1>10, <1>11, <1>12, <1>13, <1>14,
     <1>15, <1>16, <1>17, <1>18, <1>19, <1>20, NextSteps
  DEF Quiet, Buffered, ServeOwn, ServePred, ServeRefused, Serve

-----------------------------------------------------------------------------
(***************************************************************************)
(* The buffers.                                                            *)
(***************************************************************************)

\* A morph or a split moves what is in the winner's buffers to remote nodes, loses
\* nothing, invents nothing, and leaves the nodes of other winners alone.
LEMMA WriteKeeps ==
  ASSUME IInv, NEW t \in Threads, WriteMorphed(t) \/ WriteSplit(t)
  PROVE  /\ pc[t] = "help" /\ pc'[t] # "help" /\ UNCHANGED <<at, backward, own, plan>>
         /\ \A u \in Threads : /\ real'[u] = IF u = t THEN {} ELSE real[u]
                               /\ pred'[u] = IF u = t THEN {} ELSE pred[u]
                               /\ u # t => pc'[u] = pc[u]
         /\ \A u \in Threads \ {t} : pc[u] = "help" =>
               recs'[at[u]] = recs[at[u]] /\ recs'[backward[at[u]]] = recs[backward[at[u]]]
         /\ \A n \in Nodes : \A k \in recs[n] : \E m \in Nodes : k \in recs'[m]
         /\ \A k \in real[t] \cup pred[t] : \E m \in Nodes : k \in recs'[m]
         /\ \A n \in Nodes : recs'[n] \subseteq recs[n] \cup real[t] \cup pred[t]
         /\ handed' = handed \ pred[t]
<1>. USE DEF IInv
<1>. DEFINE n0 == at[t]
            p0 == backward[at[t]]
<1>1. /\ pc[t] = "help" /\ pc'[t] # "help" /\ UNCHANGED <<at, backward, own, plan>>
      /\ \A u \in Threads : /\ real'[u] = IF u = t THEN {} ELSE real[u]
                            /\ pred'[u] = IF u = t THEN {} ELSE pred[u]
                            /\ u # t => pc'[u] = pc[u]
      /\ handed' = handed \ pred[t]
  <2>1. CASE WriteMorphed(t)
    BY <2>1 DEF WriteMorphed, list, local, Goto, TypeOK
  <2>2. CASE WriteSplit(t)
    <3>1. /\ pc[t] = "help" /\ pc' = [pc EXCEPT ![t] = "link"]
          /\ real' = [real EXCEPT ![t] = {}] /\ pred' = [pred EXCEPT ![t] = {}]
          /\ handed' = handed \ pred[t] /\ UNCHANGED <<at, backward, own, plan>>
      BY <2>2 DEF WriteSplit, local, Goto
    <3>. QED BY <3>1 DEF TypeOK
  <2>. QED BY <2>1, <2>2
<1>2. PICK new, r :
         /\ r \subseteq real[t]
         /\ new \in Nodes => anchor[new] = 0 /\ new # n0 /\ new # p0
         /\ r # {} => new \in Nodes
         /\ \A n \in Nodes : recs'[n] =
               IF n = p0 THEN pred[t] ELSE IF n = new THEN r
               ELSE IF n = n0 THEN real[t] \ r ELSE recs[n]
  <2>1. CASE WriteMorphed(t)
    <3>. WITNESS Nil, {}
    <3>. QED BY <2>1, MorphSteps, NodesApart
  <2>2. CASE WriteSplit(t)
    <3>1. PICK new \in Nodes, a \in real[t] : SplitWrites(t, new, a)
      BY <2>2, SplitSteps
    <3>. WITNESS new, RightOf(real[t], a)
    <3>. QED BY <3>1 DEF SplitWrites, RightOf
  <2>. QED BY <2>1, <2>2
<1>3. /\ n0 \in Nodes /\ p0 \in Lockable /\ n0 # p0 /\ recs[n0] \subseteq real[t]
      /\ recs[p0] \subseteq pred[t] /\ (p0 \notin Nodes => pred[t] = {})
      /\ Sentinel \notin Nodes /\ \A n \in Nodes : n \in Lockable
      /\ new \in Nodes => recs[new] = {}
  BY <1>1, <1>2, NodesApart DEF BuffersOK, ListOK, Lockable
<1>4. ASSUME NEW u \in Threads \ {t}, pc[u] = "help"
      PROVE  recs'[at[u]] = recs[at[u]] /\ recs'[backward[at[u]]] = recs[backward[at[u]]]
  <2>1. at[u] \notin {n0, p0} /\ backward[at[u]] \notin {n0, p0}
    BY <1>1, <1>4, Alone DEF Winners
  <2>2. /\ at[u] \in Nodes /\ at[u] # new
        /\ backward[at[u]] \in Lockable /\ (backward[at[u]] \in Nodes => backward[at[u]] # new)
    BY <1>2, NodesApart DEF Linked
  <2>3. recs'[Sentinel] = recs[Sentinel]
    <3>1. [Next]_vars
      BY DEF Next, WinnerStep
    <3>2. TypeOK'
      BY <3>1, TypeStep
    <3>. QED BY <3>2 DEF TypeOK
  <2>. QED BY <1>2, <2>1, <2>2, <2>3 DEF Lockable
<1>5. \A k \in real[t] : \E m \in Nodes : k \in recs'[m]
  <2>1. ASSUME NEW k \in real[t] PROVE \E m \in Nodes : k \in recs'[m]
    <3>1. CASE k \in r
      BY <1>2, <3>1
    <3>2. CASE k \notin r
      <4>1. recs'[n0] = real[t] \ r
        BY <1>2, <1>3
      <4>. QED BY <1>3, <3>2, <4>1
    <3>. QED BY <3>1, <3>2
  <2>. QED BY <2>1
<1>6. \A k \in pred[t] : \E m \in Nodes : k \in recs'[m]
  BY <1>2, <1>3
<1>7. \A n \in Nodes : \A k \in recs[n] : \E m \in Nodes : k \in recs'[m]
  BY <1>2, <1>3, <1>5, <1>6
<1>8. \A n \in Nodes : recs'[n] \subseteq recs[n] \cup real[t] \cup pred[t]
  BY <1>2
<1>. QED BY <1>1, <1>4, <1>5, <1>6, <1>7, <1>8

\* A node that is written in place gets what is in the winner's buffer for it; what
\* is in the other buffer is gone.
LEMMA InPlaceKeeps ==
  ASSUME IInv, NEW t \in Threads, WriteInPlace(t)
  PROVE  /\ pc[t] = "help" /\ pc'[t] # "help" /\ UNCHANGED <<at, backward, own, plan, handed>>
         /\ \A u \in Threads : /\ real'[u] = IF u = t THEN {} ELSE real[u]
                               /\ pred'[u] = IF u = t THEN {} ELSE pred[u]
                               /\ u # t => pc'[u] = pc[u]
         /\ \A u \in Threads \ {t} : pc[u] = "help" =>
               recs'[at[u]] = recs[at[u]] /\ recs'[backward[at[u]]] = recs[backward[at[u]]]
         /\ at[t] \in Nodes /\ recs[at[t]] \subseteq real[t]
         /\ \A n \in Nodes : recs'[n] = IF n = at[t] THEN real[t] ELSE recs[n]
<1>. USE DEF IInv
<1>1. /\ pc[t] = "help" /\ pc'[t] # "help" /\ UNCHANGED <<at, backward, own, plan, handed>>
      /\ \A u \in Threads : /\ real'[u] = IF u = t THEN {} ELSE real[u]
                            /\ pred'[u] = IF u = t THEN {} ELSE pred[u]
                            /\ u # t => pc'[u] = pc[u]
  BY DEF WriteInPlace, list, local, history, Goto, TypeOK
<1>2. recs' = [recs EXCEPT ![at[t]] = real[t]]
  BY DEF WriteInPlace
<1>3. ASSUME NEW u \in Threads \ {t}, pc[u] = "help"
      PROVE  recs'[at[u]] = recs[at[u]] /\ recs'[backward[at[u]]] = recs[backward[at[u]]]
  <2>1. at[u] # at[t] /\ backward[at[u]] # at[t]
    BY <1>1, <1>3, Alone DEF Winners
  <2>. QED BY <1>2, <2>1, NodesApart DEF TypeOK
<1>4. \A n \in Nodes : recs'[n] = IF n = at[t] THEN real[t] ELSE recs[n]
  BY <1>2, NodesApart DEF TypeOK
<1>. QED BY <1>1, <1>3, <1>4, NodesApart DEF BuffersOK

\* A record is firm when a remote node or a winner's buffer of its node has it.
LEMMA InFirm ==
  ASSUME NEW k
  PROVE  /\ k \in Firm <=> (\E n \in Nodes : k \in recs[n]) \/ (\E t \in Threads : k \in real[t])
         /\ k \in Firm' <=> (\E n \in Nodes : k \in recs'[n]) \/ (\E t \in Threads : k \in real'[t])
BY DEF Firm

\* Firm records stay firm.
LEMMA FirmKept ==
  ASSUME IInv, [Next]_vars
  PROVE  Firm \subseteq Firm'
<1>. USE DEF IInv
<1>1. CASE UNCHANGED vars
  BY <1>1 DEF vars, remote, work, Firm
<1>2. ASSUME NEW t \in Threads, Quiet(t) PROVE Firm \subseteq Firm'
  <2>1. UNCHANGED <<recs, real>>
    BY <1>2, QuietSteps DEF Apart
  <2>. QED BY <2>1 DEF Firm
<1>3. ASSUME NEW t \in Threads, Buffered(t) PROVE Firm \subseteq Firm'
  BY <1>3, BufferSteps DEF Firm
<1>4. ASSUME NEW t \in Threads, WriteInPlace(t) PROVE Firm \subseteq Firm'
  <2>1. /\ at[t] \in Nodes /\ recs[at[t]] \subseteq real[t]
        /\ \A n \in Nodes : recs'[n] = IF n = at[t] THEN real[t] ELSE recs[n]
        /\ \A u \in Threads : real'[u] = IF u = t THEN {} ELSE real[u]
    BY <1>4, InPlaceKeeps
  <2>2. \A n \in Nodes : recs[n] \subseteq recs'[n]
    BY <2>1
  <2>3. \A u \in Threads : real[u] \subseteq recs'[at[t]] \cup real'[u]
    BY <2>1
  <2>. QED BY <2>1, <2>2, <2>3, InFirm
<1>5. ASSUME NEW t \in Threads, WriteMorphed(t) \/ WriteSplit(t) PROVE Firm \subseteq Firm'
  <2>1. /\ \A n \in Nodes : \A k \in recs[n] : \E m \in Nodes : k \in recs'[m]
        /\ \A k \in real[t] : \E m \in Nodes : k \in recs'[m]
        /\ \A u \in Threads : real'[u] = IF u = t THEN {} ELSE real[u]
    BY <1>5, WriteKeeps
  <2>. QED BY <2>1, InFirm
<1>6. ASSUME NEW t \in Threads, Link(t) PROVE Firm \subseteq Firm'
  <2>1. UNCHANGED <<recs, real>>
    BY <1>6, LinkSteps
  <2>. QED BY <2>1 DEF Firm
<1>. QED BY <1>1, <1>2, <1>3, <1>4, <1>5, <1>6, NextSteps

\* What a step does with the buffers of a winner that goes on helping.
LEMMA BuffersStep ==
  ASSUME IInv, [Next]_vars
  PROVE  BuffersOK'
<1>. USE DEF IInv
<1>0. Firm \subseteq Firm'
  BY FirmKept
<1>1. CASE UNCHANGED vars
  BY <1>0, <1>1 DEF vars, list, remote, local, work, history, BuffersOK
<1>2. ASSUME NEW t \in Threads, Quiet(t) PROVE BuffersOK'
  <2>1. Apart(t)
    BY <1>2, QuietSteps
  <2>2. Firm' = Firm
    BY <2>1 DEF Apart, Firm
  <2>. QED BY <2>1, <2>2 DEF Apart, BuffersOK
<1>3. ASSUME NEW t \in Threads, Buffered(t) PROVE BuffersOK'
  <2>1. /\ UNCHANGED <<backward, recs, at>>
        /\ pc[t] \in {"fetch", "help"} /\ pc'[t] = "help"
        /\ \A u \in Threads \ {t} :
              /\ pc'[u] = pc[u] /\ plan'[u] = plan[u]
              /\ real'[u] = real[u] /\ pred'[u] = pred[u]
    BY <1>3, BufferSteps
  <2>2. handed \subseteq Firm' \cup handed'
    <3>1. CASE Fetch(t)
      <4>1. handed' = handed \ {key[t]} /\ key[t] \in real'[t]
        BY <3>1 DEF Fetch, TypeOK
      <4>. QED BY <4>1, InFirm
    <3>2. CASE Outgrow(t)
      BY <3>2 DEF Outgrow, history
    <3>3. ASSUME NEW u \in Threads, ServeOwn(t, u) PROVE handed \subseteq Firm' \cup handed'
      <4>1. handed' = handed \ {key[u]} /\ key[u] \in real'[t]
        BY <3>3 DEF ServeOwn, TypeOK
      <4>. QED BY <4>1, InFirm
    <3>4. ASSUME NEW u \in Threads, ServePred(t, u) PROVE handed \subseteq Firm' \cup handed'
      BY <3>4 DEF ServePred
    <3>5. ASSUME NEW u \in Threads, ServeRefused(t, u) PROVE handed \subseteq Firm' \cup handed'
      BY <3>5 DEF ServeRefused
    <3>. QED BY <1>3, <3>1, <3>2, <3>3, <3>4, <3>5 DEF Buffered
  <2>3. /\ recs[at[t]] \subseteq real'[t]
        /\ recs[backward[at[t]]] \subseteq pred'[t]
        /\ backward[at[t]] = Sentinel => pred'[t] = {}
        /\ pred'[t] \subseteq Firm' \cup handed'
        /\ real'[t] # {}
    <3>0. pc[t] = "help" =>
              /\ recs[at[t]] \subseteq real[t] /\ recs[backward[at[t]]] \subseteq pred[t]
              /\ backward[at[t]] = Sentinel => pred[t] = {}
              /\ pred[t] \subseteq Firm' \cup handed'
              /\ real[t] # {}
      BY <1>0, <2>2 DEF BuffersOK
    <3>1. CASE Fetch(t)
      <4>1. real'[t] = recs[at[t]] \cup {key[t]} /\ pred'[t] = recs[backward[at[t]]]
        BY <3>1 DEF Fetch, TypeOK
      <4>2. pred'[t] \subseteq Firm'
        BY <2>1, <4>1, NodesApart DEF Firm, TypeOK, Lockable
      <4>. QED BY <4>1, <4>2 DEF TypeOK
    <3>2. CASE Outgrow(t)
      <4>1. pc[t] = "help" /\ UNCHANGED <<real, pred>>
        BY <3>2 DEF Outgrow
      <4>. QED BY <3>0, <4>1
    <3>3. CASE \E u \in Threads : ServeOwn(t, u)
      <4>1. PICK k \in Keys : /\ pc[t] = "help" /\ real' = [real EXCEPT ![t] = @ \cup {k}]
                              /\ UNCHANGED <<pred, plan>>
        BY <3>3 DEF ServeOwn, Serve, TypeOK
      <4>2. real'[t] = real[t] \cup {k}
        BY <4>1 DEF TypeOK
      <4>. QED BY <3>0, <4>1, <4>2
    <3>4. CASE \E u \in Threads : ServePred(t, u)
      <4>1. PICK k : /\ pc[t] = "help" /\ pred' = [pred EXCEPT ![t] = @ \cup {k}]
                     /\ backward[at[t]] # Sentinel
                     /\ UNCHANGED <<real, plan>> /\ (k \in pred[t] \/ k \in handed')
        BY <3>4 DEF ServePred, Serve, TypeOK
      <4>2. pred'[t] = pred[t] \cup {k}
        BY <4>1 DEF TypeOK
      <4>. QED BY <3>0, <4>1, <4>2
    <3>5. CASE \E u \in Threads : ServeRefused(t, u)
      <4>1. pc[t] = "help" /\ UNCHANGED <<real, pred, plan>>
        BY <3>5 DEF ServeRefused, Serve
      <4>. QED BY <3>0, <4>1
    <3>. QED BY <1>3, <3>1, <3>2, <3>3, <3>4, <3>5 DEF Buffered
  <2>. QED BY <1>0, <2>1, <2>2, <2>3 DEF BuffersOK
<1>4. ASSUME NEW t \in Threads, WriteInPlace(t) PROVE BuffersOK'
  BY <1>0, <1>4, InPlaceKeeps DEF BuffersOK
<1>5. ASSUME NEW t \in Threads, WriteMorphed(t) \/ WriteSplit(t) PROVE BuffersOK'
  <2>1. pred[t] \subseteq Firm'
    BY <1>5, WriteKeeps DEF Firm
  <2>. QED BY <1>0, <2>1, <1>5, WriteKeeps DEF BuffersOK
<1>6. ASSUME NEW t \in Threads, Link(t) PROVE BuffersOK'
  <2>1. \A u \in Threads : backward'[at[u]] = backward[at[u]] /\ (pc'[u] = "help" <=> pc[u] = "help")
    BY <1>6, LinkSteps, NodesApart DEF TypeOK
  <2>2. UNCHANGED <<recs, at, real, pred, plan, handed>>
    BY <1>6, LinkSteps
  <2>. QED BY <1>0, <2>1, <2>2 DEF BuffersOK
<1>. QED BY <1>1, <1>2, <1>3, <1>4, <1>5, <1>6, NextSteps

\* The invariant holds of the store the flush leaves.
LEMMA InitInv == Init => IInv
<1>. SUFFICES ASSUME Init PROVE IInv
  OBVIOUS
<1>. USE StoreAssumption DEF Init
<1>1. /\ 1 \in Nodes /\ 2 \in Nodes /\ Sentinel \notin Nodes /\ Nil \notin Nodes /\ Nil # Sentinel
      /\ Second \in Keys /\ 1 \in Keys /\ \A n \in Nodes : n \in Lockable /\ n # Sentinel
      /\ \A n \in Lockable : n = Sentinel \/ n \in Nodes
  BY DEF Nodes, Lockable, Nil, Sentinel, Keys
<1>2. TypeOK
  <2>1. next \in [Lockable -> Nodes \cup {Nil}] /\ backward \in [Nodes -> Lockable]
    BY <1>1 DEF Lockable
  <2>2. anchor \in [Nodes -> 0..MaxKey] /\ size \in [Nodes -> {Small, Large}]
    BY <1>1 DEF Keys
  <2>3. recs \in [Lockable -> SUBSET Keys] /\ recs[Sentinel] = {}
    BY <1>1 DEF Keys, Lockable
  <2>4. key \in [Threads -> Keys] /\ at \in [Threads -> Nodes]
    BY <1>1
  <2>. QED BY <2>1, <2>2, <2>3, <2>4 DEF TypeOK
<1>3. ListOK
  BY <1>1 DEF ListOK, Linked, Lockable, Keys
<1>4. HalvesOK /\ LocksOK /\ CallsOK /\ RequestsOK /\ BuffersOK
  BY <1>1 DEF HalvesOK, LocksOK, CallsOK, RequestsOK, BuffersOK, Winners
<1>. QED BY <1>2, <1>3, <1>4 DEF IInv

\* Every step keeps the invariant.
LEMMA InvStep ==
  ASSUME IInv, [Next]_vars
  PROVE  IInv'
BY TypeStep, ListStep, HalvesStep, LocksStep, CallsStep, BuffersStep DEF IInv

\* Every variable of the store keeps its type, and only a winner has buffers.
THEOREM TypeCorrect == Spec => []TypeOK
<1>1. IInv /\ [Next]_vars => IInv'
  BY InvStep
<1>2. IInv => TypeOK
  BY DEF IInv
<1>. QED BY InitInv, <1>1, <1>2, PTL DEF Spec

-----------------------------------------------------------------------------
(***************************************************************************)
(* Store implements KVStore.  A step on the list, the locks or the queues  *)
(* stutters; a record is put when a winner's buffer takes it, whichever    *)
(* thread's it is; what a write drops was handed over.                     *)
(***************************************************************************)

\* A record is stored when it is firm or in the buffer of a neighbour.
LEMMA InStored ==
  ASSUME NEW k
  PROVE  /\ k \in Stored <=> k \in Firm \/ \E t \in Threads : k \in pred[t]
         /\ k \in Stored' <=> k \in Firm' \/ \E t \in Threads : k \in pred'[t]
BY DEF Stored, Firm

\* The calls of KVStore.
CallBar == [t \in Threads |-> CallOf(t)]

\* Only the call of one thread changes, or that of none.
LEMMA OneCall ==
  ASSUME NEW t \in Threads, \A u \in Threads \ {t} : CallOf(u)' = CallOf(u)
  PROVE  CallBar' = [CallBar EXCEPT ![t] = CallOf(t)']
<1>1. CallBar' = [u \in Threads |-> CallOf(u)']
  BY DEF CallBar
<1>. QED BY <1>1 DEF CallBar

\* When no call changes, the calls stay the same.
LEMMA NoCall ==
  ASSUME \A u \in Threads : CallOf(u)' = CallOf(u)
  PROVE  CallBar' = CallBar
<1>1. CallBar' = [u \in Threads |-> CallOf(u)']
  BY DEF CallBar
<1>. QED BY <1>1 DEF CallBar

\* A quiet step changes no call of another thread: a request that is told to retry
\* is still pending.
LEMMA QuietCalls ==
  ASSUME IInv, NEW t \in Threads, Quiet(t)
  PROVE  /\ Stored' = Stored /\ handed' = handed
         /\ \A u \in Threads \ {t} : CallOf(u)' = CallOf(u)
<1>. USE DEF IInv
<1>1. Apart(t)
  BY QuietSteps
<1>2. Stored' = Stored /\ handed' = handed
  BY <1>1 DEF Apart, Stored
<1>3. \A u \in Threads \ {t} : answer'[u] = answer[u] \/ (answer[u] = "none" /\ answer'[u] = "retry")
  <2>1. CASE answer' = answer
    BY <2>1
  <2>2. CASE Drain(t) \/ (Drain(t) /\ answer' = answer)
    BY <2>2 DEF Drain, RequestsOK, TypeOK
  <2>3. CASE \E a : answer' = [answer EXCEPT ![t] = a]
    BY <2>3 DEF TypeOK
  <2>. QED BY <2>1, <2>2, <2>3 DEF Quiet, CallPut, CallGet, Win, PredBusy, Lose, Ticket, Submit,
              PutReturns, Leave, GetReads, GetRetries, GetReturns
<1>4. ASSUME NEW u \in Threads \ {t} PROVE CallOf(u)' = CallOf(u)
  <2>1. /\ pc'[u] = pc[u] /\ op'[u] = op[u] /\ key'[u] = key[u] /\ own'[u] = own[u]
        /\ answer'[u] = answer[u] \/ (answer[u] = "none" /\ answer'[u] = "retry")
    BY <1>1, <1>3 DEF Apart
  <2>. QED BY <2>1 DEF CallOf
<1>. QED BY <1>2, <1>4

\* A quiet step invokes, answers a get, returns or stutters.
LEMMA QuietRefines ==
  ASSUME IInv, NEW t \in Threads, Quiet(t)
  PROVE  [KV!Next]_(KV!vars)
<1>. USE DEF IInv, table, local, work, Goto
<1>1. Stored' = Stored /\ handed' = handed
  BY QuietCalls
<1>2. CallBar' = [CallBar EXCEPT ![t] = CallOf(t)']
  BY QuietCalls, OneCall
<1>3. CallBar[t] = CallOf(t) /\ CallBar = [u \in Threads |-> CallOf(u)]
  BY DEF CallBar
<1>4. CallOf(t)' = CallOf(t) => [KV!Next]_(KV!vars)
  <2>1. CallOf(t)' = CallOf(t) => CallBar' = CallBar
    BY <1>2, <1>3
  <2>. QED BY <1>1, <2>1 DEF KV!vars, CallBar
<1>5. ASSUME NEW o \in {"put", "get"}, NEW k \in Keys, CallOf(t) = KV!Idle,
             CallOf(t)' = [op |-> o, key |-> {k}, state |-> "pending"]
      PROVE  [KV!Next]_(KV!vars)
  <2>1. KV!Invoke(t, o, k)
    BY <1>1, <1>2, <1>3, <1>5 DEF KV!Invoke, CallBar
  <2>. QED BY <2>1 DEF KV!Next
<1>6. ASSUME CallOf(t).state \in {"ok", "fail"}, CallOf(t)' = KV!Idle
      PROVE  [KV!Next]_(KV!vars)
  <2>1. KV!Return(t)
    BY <1>1, <1>2, <1>3, <1>6 DEF KV!Return, CallBar
  <2>. QED BY <2>1 DEF KV!Next
<1>7. ASSUME NEW k \in Keys, CallPut(t, k) PROVE [KV!Next]_(KV!vars)
  <2>1. CallOf(t) = KV!Idle
    BY <1>7 DEF CallPut, CallOf, KV!Idle
  <2>2. CallOf(t)' = [op |-> "put", key |-> {k}, state |-> "pending"]
    BY <1>7 DEF CallPut, CallOf, CallsOK, TypeOK
  <2>. QED BY <1>5, <2>1, <2>2
<1>8. ASSUME NEW k \in Keys, CallGet(t, k) PROVE [KV!Next]_(KV!vars)
  <2>1. CallOf(t) = KV!Idle
    BY <1>8 DEF CallGet, CallOf, KV!Idle
  <2>2. CallOf(t)' = [op |-> "get", key |-> {k}, state |-> "pending"]
    <3>1. /\ pc'[t] = "read" /\ op'[t] = "get" /\ key'[t] = k /\ own'[t] = own[t] /\ ~own[t]
          /\ answer'[t] \in {answer[t], "retry"} /\ answer[t] = "none"
      BY <1>8 DEF CallGet, Drain, CallsOK, TypeOK
    <3>. QED BY <3>1 DEF CallOf
  <2>. QED BY <1>5, <2>1, <2>2
<1>9. CASE Win(t) \/ PredBusy(t) \/ Lose(t)
  <2>1. pc[t] = "try" /\ pc'[t] \in {"try", "fetch", "lost"}
    BY <1>9 DEF Win, PredBusy, Lose, TypeOK
  <2>2. answer'[t] = answer[t] /\ op'[t] = op[t] /\ key'[t] = key[t] /\ own'[t] = own[t]
    BY <1>9, <2>1 DEF Win, PredBusy, Lose, Drain, RequestsOK, TypeOK
  <2>. QED BY <1>4, <2>1, <2>2 DEF CallOf
<1>10. CASE Ticket(t) \/ Submit(t)
  <2>1. pc[t] \in {"lost", "submit"} /\ pc'[t] \in {"try", "submit", "wait"}
    BY <1>10 DEF Ticket, Submit, TypeOK
  <2>2. answer'[t] = answer[t] /\ op'[t] = op[t] /\ key'[t] = key[t] /\ own'[t] = own[t]
    BY <1>10 DEF Ticket, Submit
  <2>. QED BY <1>4, <2>1, <2>2 DEF CallOf
<1>11. CASE PutReturns(t)
  <2>1. pc[t] = "wait" /\ ~own[t]
    BY <1>11 DEF PutReturns, CallsOK
  <2>2. CASE answer[t] = "ok" /\ Finish(t)
    <3>1. CallOf(t).state = "ok"
      BY <2>1, <2>2 DEF CallOf
    <3>2. CallOf(t)' = KV!Idle
      BY <2>2 DEF Finish, CallOf, KV!Idle, TypeOK
    <3>. QED BY <1>6, <3>1, <3>2
  <2>3. CASE answer[t] = "retry" /\ Goto(t, "try") /\ UNCHANGED local
    <3>1. /\ pc'[t] = "try" /\ answer'[t] = "none"
          /\ op'[t] = op[t] /\ key'[t] = key[t] /\ own'[t] = own[t]
      BY <1>11, <2>3 DEF PutReturns, TypeOK
    <3>. QED BY <1>4, <2>1, <2>3, <3>1 DEF CallOf
  <2>. QED BY <1>11, <2>2, <2>3 DEF PutReturns
<1>12. CASE Leave(t)
  <2>1. CallOf(t).state = "ok"
    BY <1>12 DEF Leave, CallOf, CallsOK
  <2>2. CallOf(t)' = KV!Idle
    BY <1>12 DEF Leave, Finish, CallOf, KV!Idle, TypeOK
  <2>. QED BY <1>6, <2>1, <2>2
<1>13. CASE GetReads(t)
  <2>1. CallOf(t) = [op |-> "get", key |-> {key[t]}, state |-> "pending"]
    BY <1>13 DEF GetReads, CallOf, CallsOK
  <2>2. PICK a \in {"ok", "fail"} :
           /\ a = (IF key[t] \in recs[at[t]] THEN "ok" ELSE "fail")
           /\ CallOf(t)' = [op |-> "get", key |-> {key[t]}, state |-> a]
    <3>1. /\ pc'[t] = "wait" /\ op'[t] = "get" /\ key'[t] = key[t] /\ own'[t] = own[t] /\ ~own[t]
          /\ answer'[t] = IF key[t] \in recs[at[t]] THEN "ok" ELSE "fail"
      BY <1>13 DEF GetReads, CallsOK, TypeOK
    <3>. QED BY <3>1 DEF CallOf
  <2>3. key[t] \in recs[at[t]] => key[t] \in Stored
    BY InStored, InFirm, NodesApart
  <2>4. CallBar' = [CallBar EXCEPT ![t].state = a]
    <3>1. CallOf(t)' = [CallOf(t) EXCEPT !.state = a]
      BY <2>1, <2>2
    <3>. QED BY <1>2, <1>3, <3>1
  <2>5. KV!Get(t)
    <3>1. /\ CallBar[t].op = "get" /\ CallBar[t].state = "pending" /\ CallBar[t].key = {key[t]}
          /\ Stored' = Stored /\ handed' = handed
      BY <1>1, <1>3, <2>1
    <3>2. CASE a = "ok"
      <4>1. CallBar[t].key \subseteq Stored /\ CallBar' = [CallBar EXCEPT ![t].state = "ok"]
        BY <2>2, <2>3, <2>4, <3>1, <3>2
      <4>. QED BY <3>1, <4>1 DEF KV!Get, CallBar
    <3>3. CASE a = "fail"
      <4>1. CallBar' = [CallBar EXCEPT ![t].state = "fail"]
        BY <2>4, <3>3
      <4>. QED BY <3>1, <4>1 DEF KV!Get, CallBar
    <3>. QED BY <3>2, <3>3
  <2>. QED BY <2>5 DEF KV!Next
<1>14. CASE GetRetries(t)
  <2>1. /\ pc[t] = "read" /\ pc'[t] = pc[t] /\ answer'[t] = answer[t]
        /\ op'[t] = op[t] /\ key'[t] = key[t] /\ own'[t] = own[t]
    BY <1>14 DEF GetRetries, Drain, RequestsOK, TypeOK
  <2>. QED BY <1>4, <2>1 DEF CallOf
<1>15. CASE GetReturns(t)
  <2>1. CallOf(t).state \in {"ok", "fail"}
    BY <1>15 DEF GetReturns, CallOf, CallsOK
  <2>2. CallOf(t)' = KV!Idle
    BY <1>15 DEF GetReturns, Finish, CallOf, KV!Idle, TypeOK
  <2>. QED BY <1>6, <2>1, <2>2
<1>. QED
  BY <1>7, <1>8, <1>9, <1>10, <1>11, <1>12, <1>13, <1>14, <1>15 DEF Quiet

\* A record that a winner takes is put, and the put may return true.
LEMMA PutRefines ==
  ASSUME NEW u \in Threads, CallOf(u) = [op |-> "put", key |-> {key[u]}, state |-> "pending"],
         CallOf(u)' = [op |-> "put", key |-> {key[u]}, state |-> "ok"],
         \A v \in Threads \ {u} : CallOf(v)' = CallOf(v),
         Stored' = Stored \cup {key[u]},
         handed' \in {handed \cup {key[u]}, handed \ {key[u]}}
  PROVE  KV!Put(u)
<1>1. CallBar' = [CallBar EXCEPT ![u] = CallOf(u)'] /\ CallBar[u] = CallOf(u)
  BY OneCall DEF CallBar
<1>2. CallBar' = [CallBar EXCEPT ![u].state = "ok"]
  <2>1. CallOf(u)' = [CallOf(u) EXCEPT !.state = "ok"]
    OBVIOUS
  <2>. QED BY <1>1, <2>1
<1>3. CallBar[u].op = "put" /\ CallBar[u].state = "pending" /\ CallBar[u].key = {key[u]}
  BY <1>1
<1>. QED BY <1>2, <1>3 DEF KV!Put, CallBar

\* A step on the buffers puts a record or stutters.
LEMMA BufferRefines ==
  ASSUME IInv, NEW t \in Threads, Buffered(t)
  PROVE  [KV!Next]_(KV!vars)
<1>. USE DEF IInv, table, local, work, history, Goto
<1>0. /\ UNCHANGED <<recs, op, key>>
      /\ \A u \in Threads \ {t} : pc'[u] = pc[u] /\ own'[u] = own[u]
      /\ pc[t] \in {"fetch", "help"} /\ pc'[t] = "help"
  BY BufferSteps
<1>1. CASE Fetch(t)
  <2>1. /\ own'[t] /\ ~own[t] /\ answer' = answer /\ answer[t] = "none" /\ op[t] = "put"
        /\ handed' = handed \ {key[t]}
        /\ real'[t] = recs[at[t]] \cup {key[t]} /\ pred'[t] = recs[backward[at[t]]]
        /\ real[t] = {} /\ pred[t] = {}
        /\ \A u \in Threads \ {t} : real'[u] = real[u] /\ pred'[u] = pred[u]
    <3>1. /\ real' = [real EXCEPT ![t] = recs[at[t]] \cup {key[t]}]
          /\ pred' = [pred EXCEPT ![t] = recs[backward[at[t]]]]
          /\ own' = [own EXCEPT ![t] = TRUE] /\ answer' = answer
          /\ handed' = handed \ {key[t]} /\ pc[t] = "fetch"
      BY <1>1 DEF Fetch
    <3>2. ~own[t] /\ answer[t] = "none" /\ op[t] = "put" /\ real[t] = {} /\ pred[t] = {}
      BY <3>1 DEF CallsOK, BuffersOK
    <3>. QED BY <3>1, <3>2 DEF TypeOK
  <2>2. \A k : k \in Firm' <=> k \in Firm \/ k = key[t]
    BY <1>0, <2>1, InFirm, NodesApart
  <2>3. \A k : k \in Stored' <=> k \in Stored \/ k = key[t]
    <3>1. \A k \in pred'[t] : k \in Firm
      BY <2>1, InFirm, NodesApart DEF TypeOK, Lockable
    <3>. QED BY <2>1, <2>2, <3>1, InStored
  <2>4. Stored' = Stored \cup {key[t]}
    BY <2>3
  <2>5. /\ CallOf(t) = [op |-> "put", key |-> {key[t]}, state |-> "pending"]
        /\ CallOf(t)' = [op |-> "put", key |-> {key[t]}, state |-> "ok"]
    BY <1>0, <2>1 DEF CallOf
  <2>6. \A u \in Threads \ {t} : CallOf(u)' = CallOf(u)
    BY <1>0, <2>1 DEF CallOf
  <2>7. KV!Put(t)
    BY <2>1, <2>4, <2>5, <2>6, PutRefines
  <2>. QED BY <2>7 DEF KV!Next
<1>2. CASE Outgrow(t)
  <2>1. UNCHANGED <<real, pred, handed, answer, own, pc>>
    BY <1>2 DEF Outgrow
  <2>2. \A u \in Threads : CallOf(u)' = CallOf(u)
    BY <1>0, <2>1 DEF CallOf
  <2>3. CallBar' = CallBar /\ Stored' = Stored
    BY <1>0, <2>1, <2>2, NoCall DEF Stored
  <2>. QED BY <2>1, <2>3 DEF KV!vars, CallBar
<1>3. ASSUME NEW u \in Threads, NEW a \in {"ok", "retry"}, Serve(t, u, a)
      PROVE  /\ op[u] = "put" /\ u # t
             /\ CallOf(u) = [op |-> "put", key |-> {key[u]}, state |-> "pending"]
             /\ CallOf(u)' = [op |-> "put", key |-> {key[u]},
                              state |-> IF a = "ok" THEN "ok" ELSE "pending"]
             /\ \A v \in Threads \ {u} : CallOf(v)' = CallOf(v)
  <2>1. /\ u # t /\ pc[u] = "wait" /\ op[u] = "put" /\ answer[u] = "none" /\ ~own[u] /\ u \in Threads
        /\ pc' = pc /\ own' = own /\ answer' = [answer EXCEPT ![u] = a]
    BY <1>3 DEF Serve, RequestsOK, CallsOK
  <2>2. answer'[u] = a /\ \A v \in Threads \ {u} : answer'[v] = answer[v]
    BY <2>1 DEF TypeOK
  <2>3. /\ CallOf(u) = [op |-> "put", key |-> {key[u]}, state |-> "pending"]
        /\ CallOf(u)' = [op |-> "put", key |-> {key[u]},
                         state |-> IF a = "ok" THEN "ok" ELSE "pending"]
    BY <1>0, <2>1, <2>2 DEF CallOf
  <2>4. \A v \in Threads \ {u} : CallOf(v)' = CallOf(v)
    BY <1>0, <2>1, <2>2 DEF CallOf
  <2>. QED BY <2>1, <2>3, <2>4
<1>4. ASSUME NEW u \in Threads, ServeOwn(t, u) PROVE [KV!Next]_(KV!vars)
  <2>1. /\ Serve(t, u, "ok") /\ handed' = handed \ {key[u]} /\ pred' = pred
        /\ real'[t] = real[t] \cup {key[u]} /\ \A v \in Threads \ {t} : real'[v] = real[v]
    BY <1>4 DEF ServeOwn, TypeOK
  <2>2. \A k : k \in Firm' <=> k \in Firm \/ k = key[u]
    BY <1>0, <2>1, InFirm
  <2>3. \A k : k \in Stored' <=> k \in Stored \/ k = key[u]
    BY <2>1, <2>2, InStored
  <2>4. Stored' = Stored \cup {key[u]}
    BY <2>3
  <2>5. KV!Put(u)
    BY <1>3, <2>1, <2>4, PutRefines
  <2>. QED BY <2>5 DEF KV!Next
<1>5. ASSUME NEW u \in Threads, ServePred(t, u) PROVE [KV!Next]_(KV!vars)
  <2>1. /\ Serve(t, u, "ok") /\ real' = real
        /\ handed' = IF key[u] \in pred[t] THEN handed ELSE handed \cup {key[u]}
        /\ pred'[t] = pred[t] \cup {key[u]} /\ \A v \in Threads \ {t} : pred'[v] = pred[v]
    BY <1>5 DEF ServePred, TypeOK
  <2>2. \A k : k \in Firm' <=> k \in Firm
    BY <1>0, <2>1, InFirm
  <2>3. \A k : k \in Stored' <=> k \in Stored \/ k = key[u]
    BY <2>1, <2>2, InStored
  <2>4. Stored' = Stored \cup {key[u]}
    BY <2>3
  <2>5. handed' \in {handed \cup {key[u]}, handed \ {key[u]}}
    BY <2>1
  <2>6. KV!Put(u)
    BY <1>3, <2>1, <2>4, <2>5, PutRefines
  <2>. QED BY <2>6 DEF KV!Next
<1>6. ASSUME NEW u \in Threads, ServeRefused(t, u) PROVE [KV!Next]_(KV!vars)
  <2>1. Serve(t, u, "retry") /\ UNCHANGED <<real, pred, handed>>
    BY <1>6 DEF ServeRefused
  <2>2. \A v \in Threads : CallOf(v)' = CallOf(v)
    BY <1>3, <2>1
  <2>3. CallBar' = CallBar /\ Stored' = Stored
    BY <1>0, <2>1, <2>2, NoCall DEF Stored
  <2>. QED BY <2>1, <2>3 DEF KV!vars, CallBar
<1>. QED BY <1>1, <1>2, <1>4, <1>5, <1>6 DEF Buffered

\* Writing back leaves the calls alone.
LEMMA WriteCalls ==
  ASSUME IInv, NEW t \in Threads, WriteInPlace(t) \/ WriteMorphed(t) \/ WriteSplit(t) \/ Link(t)
  PROVE  CallBar' = CallBar
<1>1. /\ UNCHANGED <<op, key, own, answer>> /\ pc[t] # "idle" /\ pc'[t] # "idle"
      /\ \A u \in Threads \ {t} : pc'[u] = pc[u]
  <2>1. CASE WriteInPlace(t) \/ WriteMorphed(t)
    BY <2>1 DEF IInv, WriteInPlace, WriteMorphed, local, Goto, TypeOK
  <2>2. CASE WriteSplit(t)
    BY <2>2 DEF IInv, WriteSplit, local, Goto, TypeOK
  <2>3. CASE Link(t)
    BY <2>3 DEF IInv, Link, local, Goto, TypeOK
  <2>. QED BY <2>1, <2>2, <2>3
<1>2. \A u \in Threads : CallOf(u)' = CallOf(u)
  BY <1>1 DEF CallOf
<1>. QED BY <1>2, NoCall

\* A morph or a split loses nothing; an update in place only what was handed over.
LEMMA WriteRefines ==
  ASSUME IInv, NEW t \in Threads, WriteInPlace(t) \/ WriteMorphed(t) \/ WriteSplit(t) \/ Link(t)
  PROVE  [KV!Next]_(KV!vars)
<1>. USE DEF IInv
<1>1. CallBar' = CallBar
  BY WriteCalls
<1>2. CASE WriteMorphed(t) \/ WriteSplit(t)
  <2>1. /\ \A u \in Threads : /\ real'[u] = IF u = t THEN {} ELSE real[u]
                              /\ pred'[u] = IF u = t THEN {} ELSE pred[u]
        /\ \A n \in Nodes : \A k \in recs[n] : \E m \in Nodes : k \in recs'[m]
        /\ \A k \in real[t] \cup pred[t] : \E m \in Nodes : k \in recs'[m]
        /\ \A n \in Nodes : recs'[n] \subseteq recs[n] \cup real[t] \cup pred[t]
        /\ handed' = handed \ pred[t]
    BY <1>2, WriteKeeps
  <2>2. \A k : k \in Stored' <=> k \in Stored
    BY <2>1, InStored, InFirm
  <2>3. Stored' = Stored
    BY <2>2
  <2>4. handed' = handed \ (pred[t] \cap handed) /\ pred[t] \cap handed \in SUBSET handed
    BY <2>1
  <2>5. KV!Harden
    BY <1>1, <2>3, <2>4 DEF KV!Harden, CallBar
  <2>. QED BY <2>5 DEF KV!Next
<1>3. CASE WriteInPlace(t)
  <2>1. /\ at[t] \in Nodes /\ recs[at[t]] \subseteq real[t] /\ pc[t] = "help" /\ handed' = handed
        /\ \A n \in Nodes : recs'[n] = IF n = at[t] THEN real[t] ELSE recs[n]
        /\ \A u \in Threads : /\ real'[u] = IF u = t THEN {} ELSE real[u]
                              /\ pred'[u] = IF u = t THEN {} ELSE pred[u]
    BY <1>3, InPlaceKeeps
  <2>2. \A k : k \in Firm' <=> k \in Firm
    <3>1. ASSUME NEW k, k \in Firm PROVE k \in Firm'
      <4>1. CASE \E n \in Nodes : k \in recs[n]
        BY <2>1, <4>1, InFirm
      <4>2. CASE \E u \in Threads : k \in real[u]
        BY <2>1, <4>2, InFirm
      <4>. QED BY <3>1, <4>1, <4>2, InFirm
    <3>2. ASSUME NEW k, k \in Firm' PROVE k \in Firm
      BY <2>1, <3>2, InFirm
    <3>. QED BY <3>1, <3>2
  <2>3. \A k : k \in Stored' => k \in Stored
    BY <2>1, <2>2, InStored
  <2>4. \A k : k \in Stored /\ k \notin Stored' => k \in handed
    BY <2>1, <2>2, InStored DEF BuffersOK
  <2>5. Stored' = Stored \ (Stored \ Stored') /\ Stored \ Stored' \in SUBSET handed
    BY <2>3, <2>4
  <2>6. KV!Forget
    BY <1>1, <2>1, <2>5 DEF KV!Forget, CallBar
  <2>. QED BY <2>6 DEF KV!Next
<1>4. CASE Link(t)
  <2>1. UNCHANGED <<recs, real, pred, handed>>
    BY <1>4, LinkSteps
  <2>. QED BY <1>1, <2>1 DEF KV!vars, CallBar, Stored
<1>. QED BY <1>2, <1>3, <1>4

\* A put returns true only after its record has reached a winner's buffer, whoever
\* the winner is; a get finds only what is there; and the only records that a morph,
\* a split, a write back or a retry loses are those a winner stored for its neighbour
\* and then did not write.
THEOREM Implementation == Spec => Implements
<1>1. Init => KV!Init
  <2>. SUFFICES ASSUME Init PROVE KV!Init
    OBVIOUS
  <2>1. IInv
    BY InitInv
  <2>2. Stored \subseteq Keys
    <3>1. ASSUME NEW k \in Stored PROVE k \in Keys
      BY <2>1, <3>1, InStored, InFirm DEF IInv, TypeOK, Lockable
    <3>. QED BY <3>1
  <2>3. \A t \in Threads : CallOf(t) = KV!Idle
    BY DEF Init, CallOf, KV!Idle
  <2>. QED BY <2>2, <2>3 DEF Init, KV!Init
<1>2. IInv /\ [Next]_vars => [KV!Next]_(KV!vars)
  <2>. SUFFICES ASSUME IInv, [Next]_vars PROVE [KV!Next]_(KV!vars)
    OBVIOUS
  <2>1. CASE UNCHANGED vars
    BY <2>1 DEF vars, list, remote, table, local, work, history, KV!vars, Stored, CallOf
  <2>. QED BY <2>1, NextSteps, QuietRefines, BufferRefines, WriteRefines
<1>3. IInv /\ [Next]_vars => IInv'
  BY InvStep
<1>. QED BY InitInv, <1>1, <1>2, <1>3, PTL DEF Spec, Implements, KV!Spec

-----------------------------------------------------------------------------
(***************************************************************************)
(* Where the records are.                                                  *)
(***************************************************************************)

\* A turn that does not move is followed by none that does.
LEMMA StuckStays ==
  ASSUME NEW k \in Keys, NEW w \in [0..MaxNodes -> Lockable],
         \A i \in 1..MaxNodes : w[i] = Turn(k, w[i - 1]),
         NEW j \in 0..MaxNodes, Turn(k, w[j]) = w[j]
  PROVE  Turn(k, w[MaxNodes]) = w[MaxNodes]
<1>. DEFINE G == {i \in 0..MaxNodes : j <= i => Turn(k, w[i]) = w[i]}
<1>1. MaxNodes \in Nat
  BY StoreAssumption
<1>2. 0 \in G
  BY <1>1
<1>3. ASSUME NEW i \in 1..MaxNodes, i - 1 \in G PROVE i \in G
  <2>1. w[i] = Turn(k, w[i - 1]) /\ i - 1 \in 0..MaxNodes /\ (j <= i => j = i \/ j <= i - 1)
    BY <1>1
  <2>. QED BY <1>3, <2>1
<1>4. \A i \in 0..MaxNodes : i \in G
  <2>. HIDE DEF G
  <2>. QED BY <1>1, <1>2, <1>3, UpTo
<1>. QED BY <1>1, <1>4

\* In a sorted list the search ends at the node that covers the key: a turn that
\* moves climbs, and there are no more than MaxNodes nodes to climb.
LEMMA HolderCovers ==
  ASSUME TypeOK, ListOK, SortedOK, NEW k \in Keys
  PROVE  Holder(k) \in Nodes /\ Linked(Holder(k)) /\ Covers(Holder(k), k)
<1>1. PICK w \in [0..MaxNodes -> Lockable] :
         /\ w[0] = Sentinel
         /\ \A i \in 1..MaxNodes : w[i] = Turn(k, w[i - 1])
         /\ Holder(k) = Found(k, w[MaxNodes])
  BY HolderWalk
<1>2. MaxNodes \in Nat /\ MaxNodes # 0 /\ Nodes = 1..MaxNodes /\ Sentinel \notin Nodes /\ Nil \notin Nodes
  BY StoreAssumption DEF Nodes, Sentinel, Nil
<1>3. Turn(k, w[MaxNodes]) = w[MaxNodes]
  <2>1. CASE \E j \in 0..MaxNodes : Turn(k, w[j]) = w[j]
    BY <1>1, <2>1, StuckStays
  <2>2. CASE \A j \in 0..MaxNodes : Turn(k, w[j]) # w[j]
    <3>. DEFINE rank == [n \in Lockable |-> IF n = Sentinel THEN 0 ELSE anchor[n]]
    <3>1. \A n \in Lockable : rank[n] \in Nat
      BY StoreAssumption DEF TypeOK, Lockable
    <3>2. ASSUME NEW n \in Lockable, n = Sentinel \/ Linked(n), Turn(k, n) # n
          PROVE  Turn(k, n) \in Nodes /\ Linked(Turn(k, n)) /\ rank[n] < rank[Turn(k, n)]
      <4>1. Turn(k, n) = next[n] /\ next[n] \in Nodes /\ Linked(next[n]) /\ next[n] \in Lockable
        BY <3>2 DEF Turn, ListOK, TypeOK, Lockable
      <4>2. rank[next[n]] = anchor[next[n]] /\ anchor[next[n]] \in Nat \ {0}
        BY <1>2, <4>1, StoreAssumption DEF Linked, TypeOK
      <4>3. CASE n = Sentinel
        BY <4>1, <4>2, <4>3
      <4>4. CASE n # Sentinel /\ Linked(n)
        BY <1>2, <4>1, <4>2, <4>4 DEF SortedOK, Lockable
      <4>. QED BY <3>2, <4>1, <4>3, <4>4
    <3>3. \A i \in 0..MaxNodes : w[i] \in {n \in Lockable : n = Sentinel \/ Linked(n)}
      <4>. DEFINE S == {n \in Lockable : n = Sentinel \/ Linked(n)}
      <4>1. w[0] \in S
        BY <1>1 DEF Lockable
      <4>2. ASSUME NEW i \in 1..MaxNodes, w[i - 1] \in S PROVE w[i] \in S
        <5>1. i - 1 \in 0..MaxNodes /\ w[i] = Turn(k, w[i - 1]) /\ w[i] \in Lockable
          BY <1>1, <1>2
        <5>2. Linked(Turn(k, w[i - 1]))
          BY <2>2, <3>2, <4>2, <5>1
        <5>. QED BY <5>1, <5>2
      <4>. HIDE DEF S
      <4>3. \A i \in 0..MaxNodes : w[i] \in S
        BY <1>2, <4>1, <4>2, LoopKeeps
      <4>. QED BY <4>3 DEF S
    <3>4. \A i \in 1..MaxNodes : w[i] \in Nodes /\ Linked(w[i]) /\ rank[w[i - 1]] < rank[w[i]]
      <4>1. \A i \in 1..MaxNodes : i - 1 \in 0..MaxNodes
        BY <1>2
      <4>. HIDE DEF rank
      <4>. QED BY <1>1, <2>2, <3>2, <3>3, <4>1
    <3>5. IsFiniteSet(Nodes) /\ Cardinality(Nodes) <= MaxNodes
      <4>1. Cardinality(1..MaxNodes) = MaxNodes /\ IsFiniteSet(1..MaxNodes)
        BY <1>2, FS_Interval
      <4>. QED BY <1>2, <4>1
    <3>6. \A i \in 0..MaxNodes : rank[w[i]] \in Nat
      BY <3>1, <3>3
    <3>7. \A p \in Nodes : rank[p] <= rank[w[MaxNodes]]
      <4>. HIDE DEF rank
      <4>. QED BY <1>2, <3>4, <3>5, <3>6, LoopClimbs
    <3>8. w[MaxNodes] \in Lockable /\ Linked(w[MaxNodes]) /\ Turn(k, w[MaxNodes]) # w[MaxNodes]
      <4>1. MaxNodes \in 1..MaxNodes /\ MaxNodes \in 0..MaxNodes
        BY <1>2
      <4>. HIDE DEF rank
      <4>. QED BY <2>2, <3>4, <4>1
    <3>9. Turn(k, w[MaxNodes]) \in Nodes /\ rank[w[MaxNodes]] < rank[Turn(k, w[MaxNodes])]
      <4>. HIDE DEF rank
      <4>. QED BY <3>2, <3>8
    <3>10. /\ rank[w[MaxNodes]] \in Nat /\ rank[Turn(k, w[MaxNodes])] \in Nat
           /\ rank[Turn(k, w[MaxNodes])] <= rank[w[MaxNodes]]
      <4>1. Turn(k, w[MaxNodes]) \in Lockable
        BY <3>9 DEF Lockable
      <4>. HIDE DEF rank
      <4>. QED BY <3>1, <3>7, <3>8, <3>9, <4>1
    <3>. HIDE DEF rank
    <3>. QED BY <3>9, <3>10
  <2>. QED BY <2>1, <2>2
<1>4. Holder(k) \in Nodes /\ Linked(Holder(k)) /\ anchor[Holder(k)] <= k
  BY HolderLinked
<1>5. ASSUME next[Holder(k)] # Nil PROVE k < anchor[next[Holder(k)]]
  <2>1. PICK n \in Nodes, last \in Lockable :
           n = Holder(k) /\ last = w[MaxNodes] /\ n = Found(k, last) /\ Turn(k, last) = last
    BY <1>1, <1>2, <1>3, <1>4
  <2>2. next[n] \in Nodes /\ anchor[n] < anchor[next[n]] /\ anchor[next[n]] \in Nat
    BY <1>4, <1>5, <2>1, StoreAssumption DEF SortedOK, TypeOK, Lockable
  <2>3. k \in Nat
    BY StoreAssumption DEF Keys
  <2>4. CASE next[last] # Nil /\ anchor[next[last]] = k
    <3>1. anchor[n] = k
      BY <2>1, <2>4 DEF Found
    <3>. QED BY <2>1, <2>2, <3>1
  <2>5. CASE ~(next[last] # Nil /\ anchor[next[last]] = k)
    <3>1. n = last
      BY <2>1, <2>5 DEF Found
    <3>2. ~(anchor[next[n]] < k)
      <4>1. anchor[next[n]] < k => next[n] = n
        BY <1>5, <2>1, <3>1 DEF Turn
      <4>. QED BY <2>2, <4>1
    <3>3. anchor[next[n]] # k
      BY <1>5, <2>1, <2>5, <3>1
    <3>. QED BY <2>1, <2>2, <2>3, <3>2, <3>3
  <2>. QED BY <2>4, <2>5
<1>. QED BY <1>4, <1>5 DEF Covers

\* No other node covers it.
LEMMA CoversOnce ==
  ASSUME TypeOK, SortedOK, NEW k \in Nat, NEW m \in Nodes, NEW n \in Nodes,
         Linked(m), Linked(n), Covers(m, k), Covers(n, k)
  PROVE  m = n
<1>1. /\ anchor[m] \in Nat /\ anchor[n] \in Nat /\ m \in Lockable /\ n \in Lockable
      /\ next[m] # Nil => anchor[next[m]] \in Nat
      /\ next[n] # Nil => anchor[next[n]] \in Nat
  BY StoreAssumption DEF TypeOK, Lockable
<1>2. ~(anchor[m] < anchor[n])
  BY <1>1 DEF SortedOK, Covers
<1>3. ~(anchor[n] < anchor[m])
  BY <1>1 DEF SortedOK, Covers
<1>. QED BY <1>1, <1>2, <1>3 DEF SortedOK

\* So the search for a key ends at the node that covers it.
LEMMA HolderOf ==
  ASSUME TypeOK, ListOK, SortedOK, NEW k \in Keys, NEW n \in Nodes, Linked(n), Covers(n, k)
  PROVE  Holder(k) = n
<1>1. k \in Nat
  BY StoreAssumption DEF Keys
<1>. QED BY <1>1, HolderCovers, CoversOnce

\* What has gone astray stays in the history.
LEMMA StaysAstray ==
  ASSUME IInv, [Next]_vars, astray
  PROVE  astray'
<1>1. CASE UNCHANGED vars
  BY <1>1 DEF vars, history
<1>2. ASSUME NEW t \in Threads, Quiet(t) PROVE astray'
  BY <1>2, QuietSteps DEF Apart
<1>3. ASSUME NEW t \in Threads, Buffered(t) PROVE astray'
  BY <1>3 DEF Buffered, Fetch, Outgrow, ServeOwn, ServePred, ServeRefused, Placed, history
<1>4. ASSUME NEW t \in Threads, WriteInPlace(t) \/ WriteMorphed(t) \/ WriteSplit(t) \/ Link(t)
      PROVE  astray'
  BY <1>4 DEF WriteInPlace, WriteMorphed, WriteSplit, Link, history
<1>. QED BY <1>1, <1>2, <1>3, <1>4, NextSteps

\* A key that is put in a node and does not go astray is one that node covers.
LEMMA PlacedCovers ==
  ASSUME TypeOK, ListOK, SortedOK, NEW n, NEW k \in Keys, Placed(n, k), ~astray'
  PROVE  Covers(n, k)
BY HolderCovers DEF Placed, TypeOK

\* Steps on the buffers add keys that the node, or the neighbour, covers.
LEMMA BufferPlaces ==
  ASSUME IInv, SortedOK, CoveredOK, ~astray', NEW t \in Threads, Buffered(t)
  PROVE  SortedOK' /\ CoveredOK'
<1>. USE DEF IInv
<1>1. /\ UNCHANGED <<next, backward, anchor, recs, at, right>>
      /\ \A u \in Threads \ {t} : real'[u] = real[u] /\ pred'[u] = pred[u]
  BY BufferSteps
<1>2. /\ \A k \in real'[t] : Covers(at[t], k)
      /\ \A k \in pred'[t] : Covers(backward[at[t]], k)
  <2>1. CASE Fetch(t)
    <3>1. /\ real'[t] = recs[at[t]] \cup {key[t]} /\ pred'[t] = recs[backward[at[t]]]
          /\ Placed(at[t], key[t]) /\ key[t] \in Keys
      BY <2>1 DEF Fetch, TypeOK
    <3>2. Covers(at[t], key[t])
      BY <3>1, PlacedCovers
    <3>3. \A k \in recs[at[t]] : Covers(at[t], k)
      BY NodesApart DEF CoveredOK
    <3>4. \A k \in recs[backward[at[t]]] : Covers(backward[at[t]], k)
      <4>1. CASE backward[at[t]] \in Nodes
        BY <4>1, NodesApart DEF CoveredOK
      <4>2. CASE backward[at[t]] = Sentinel
        BY <4>2 DEF TypeOK
      <4>. QED BY <4>1, <4>2, NodesApart DEF Lockable
    <3>. QED BY <3>1, <3>2, <3>3, <3>4
  <2>2. CASE Outgrow(t)
    BY <2>2 DEF Outgrow, CoveredOK
  <2>3. ASSUME NEW u \in Threads, ServeOwn(t, u)
        PROVE  /\ \A k \in real'[t] : Covers(at[t], k)
               /\ \A k \in pred'[t] : Covers(backward[at[t]], k)
    <3>1. /\ real'[t] = real[t] \cup {key[u]} /\ pred' = pred
          /\ Placed(at[t], key[u]) /\ key[u] \in Keys
      BY <2>3 DEF ServeOwn, TypeOK
    <3>2. Covers(at[t], key[u])
      BY <3>1, PlacedCovers
    <3>. QED BY <3>1, <3>2 DEF CoveredOK
  <2>4. ASSUME NEW u \in Threads, ServePred(t, u)
        PROVE  /\ \A k \in real'[t] : Covers(at[t], k)
               /\ \A k \in pred'[t] : Covers(backward[at[t]], k)
    <3>1. /\ pred'[t] = pred[t] \cup {key[u]} /\ real' = real
          /\ Placed(backward[at[t]], key[u]) /\ key[u] \in Keys
      BY <2>4 DEF ServePred, TypeOK
    <3>2. Covers(backward[at[t]], key[u])
      BY <3>1, PlacedCovers
    <3>. QED BY <3>1, <3>2 DEF CoveredOK
  <2>5. ASSUME NEW u \in Threads, ServeRefused(t, u)
        PROVE  /\ \A k \in real'[t] : Covers(at[t], k)
               /\ \A k \in pred'[t] : Covers(backward[at[t]], k)
    BY <2>5 DEF ServeRefused, CoveredOK
  <2>. QED BY <2>1, <2>2, <2>3, <2>4, <2>5 DEF Buffered
<1>3. SortedOK'
  BY <1>1 DEF SortedOK, Linked
<1>4. CoveredOK'
  BY <1>1, <1>2 DEF CoveredOK, Covers, Linked
<1>. QED BY <1>3, <1>4

\* A thread with a right half, or with records in its buffers, is a winner.
LEMMA BusyWins ==
  ASSUME IInv, NEW t \in Threads, right[t] # Nil \/ real[t] # {} \/ pred[t] # {}
  PROVE  t \in Winners
BY DEF IInv, HalvesOK, BuffersOK, Winners

\* Writing back in place or morphed moves records from the buffers to their nodes.
LEMMA WritePlaces ==
  ASSUME IInv, SortedOK, CoveredOK, NEW t \in Threads, WriteInPlace(t) \/ WriteMorphed(t)
  PROVE  SortedOK' /\ CoveredOK'
<1>. USE DEF IInv
<1>1. /\ UNCHANGED <<next, backward, anchor, at, right>>
      /\ \A u \in Threads : /\ real'[u] = IF u = t THEN {} ELSE real[u]
                            /\ pred'[u] = IF u = t THEN {} ELSE pred[u]
      /\ pc[t] = "help" /\ t \in Winners
  <2>1. CASE WriteInPlace(t)
    <3>1. UNCHANGED <<next, backward, anchor, at, right>>
      BY <2>1 DEF WriteInPlace, list, local
    <3>. QED BY <2>1, <3>1, InPlaceKeeps DEF Winners
  <2>2. CASE WriteMorphed(t)
    <3>1. UNCHANGED <<next, backward, anchor, at, right>>
      BY <2>2 DEF WriteMorphed, list, local
    <3>. QED BY <2>2, <3>1, WriteKeeps DEF Winners
  <2>. QED BY <2>1, <2>2
<1>2. \A n \in Nodes : \/ recs'[n] = recs[n]
                       \/ n = at[t] /\ recs'[n] = real[t]
                       \/ n = backward[at[t]] /\ recs'[n] = pred[t]
  <2>1. CASE WriteInPlace(t)
    BY <2>1, InPlaceKeeps
  <2>2. CASE WriteMorphed(t)
    BY <2>2, MorphSteps
  <2>. QED BY <2>1, <2>2
<1>3. \A n \in Nodes : Linked(n) => \A k \in recs'[n] : Covers(n, k)
  BY <1>2 DEF CoveredOK
<1>4. ASSUME NEW u \in Threads, right[u] # Nil
      PROVE  recs'[at[u]] = recs[at[u]] /\ recs'[right[u]] = recs[right[u]]
  <2>1. u # t /\ u \in Winners
    BY <1>1, <1>4, BusyWins DEF HalvesOK
  <2>2. at[u] \in Nodes /\ at[u] # at[t] /\ at[u] # backward[at[t]]
    BY <1>1, <2>1, Alone, NodesApart
  <2>3. right[u] \in Nodes /\ right[u] # at[t] /\ right[u] # backward[at[t]]
    BY <1>4, NodesApart DEF Linked, TypeOK
  <2>. QED BY <1>2, <2>2, <2>3
<1>5. SortedOK'
  BY <1>1 DEF SortedOK, Linked
<1>6. CoveredOK'
  BY <1>1, <1>3, <1>4 DEF CoveredOK, Covers, Linked
<1>. QED BY <1>5, <1>6

\* A split takes the greater records to the right half, which no pointer reaches.
LEMMA SplitPlaces ==
  ASSUME IInv, SortedOK, CoveredOK, ~astray', NEW t \in Threads, WriteSplit(t)
  PROVE  SortedOK' /\ CoveredOK'
<1>. USE DEF IInv
<1>1. PICK new \in Nodes, a \in real[t] : SplitWrites(t, new, a)
  BY SplitSteps
<1>2. /\ UNCHANGED <<next, backward, at>> /\ pc[t] = "help" /\ t \in Winners
      /\ \A u \in Threads : /\ real'[u] = IF u = t THEN {} ELSE real[u]
                            /\ pred'[u] = IF u = t THEN {} ELSE pred[u]
  <2>1. UNCHANGED next
    BY DEF WriteSplit
  <2>. QED BY <2>1, WriteKeeps DEF Winners
<1>3. /\ anchor[new] = 0 /\ a \in Keys /\ a # 0
      /\ \A m \in Nodes : anchor'[m] = IF m = new THEN a ELSE anchor[m]
      /\ \A u \in Threads : right'[u] = IF u = t THEN new ELSE right[u]
      /\ right[t] = Nil
  BY <1>1, <1>2, StoreAssumption DEF SplitWrites, TypeOK, HalvesOK, Keys
<1>4. \A n \in Nodes : recs'[n] =
          IF n = backward[at[t]] THEN pred[t]
          ELSE IF n = new THEN RightOf(real[t], a)
          ELSE IF n = at[t] THEN real[t] \ RightOf(real[t], a)
          ELSE recs[n]
  BY <1>1 DEF SplitWrites
<1>5. new # at[t] /\ new # backward[at[t]] /\ at[t] \in Nodes /\ at[t] # backward[at[t]]
  BY <1>1, NodesApart DEF SplitWrites
<1>6. \A m \in Nodes : Linked(m)' <=> Linked(m)
  BY <1>3, NodesApart DEF Linked
<1>7. \A m \in Nodes : Linked(m) => m # new /\ anchor'[m] = anchor[m]
  BY <1>3 DEF Linked
<1>8. \A m \in Nodes : Linked(m) /\ next[m] # Nil =>
         next[m] \in Nodes /\ Linked(next[m]) /\ anchor'[next[m]] = anchor[next[m]]
  BY <1>7 DEF ListOK, TypeOK, Lockable
<1>9. \A m \in Nodes : Linked(m) => \A k \in Keys : Covers(m, k)' <=> Covers(m, k)
  BY <1>2, <1>7, <1>8 DEF Covers
<1>10. SortedOK'
  BY <1>2, <1>6, <1>7, <1>8 DEF SortedOK
<1>11. \A n \in Nodes : Linked(n) => \A k \in recs'[n] : k \in Keys /\ Covers(n, k)
  <2>1. \A n \in Nodes : Linked(n) =>
           \/ recs'[n] = recs[n]
           \/ n = at[t] /\ recs'[n] \subseteq real[t]
           \/ n = backward[at[t]] /\ recs'[n] = pred[t]
    BY <1>4, <1>7
  <2>. QED BY <2>1 DEF CoveredOK, TypeOK, Lockable
<1>12. \A u \in Threads : /\ \A k \in real'[u] : k \in Keys /\ Covers(at[u], k)
                          /\ \A k \in pred'[u] : k \in Keys /\ Covers(backward[at[u]], k)
  BY <1>2 DEF CoveredOK, TypeOK
<1>13. ASSUME NEW u \in Threads
       PROVE  /\ \A k \in real'[u] : Covers(at[u], k)'
              /\ \A k \in pred'[u] : Covers(backward[at[u]], k)'
  <2>1. \A k \in real'[u] : Covers(at[u], k)'
    BY <1>2, <1>9, <1>12, NodesApart DEF Covers
  <2>2. \A k \in pred'[u] : Covers(backward[at[u]], k)'
    <3>1. backward[at[u]] = Sentinel => pred'[u] = {}
      BY <1>2 DEF BuffersOK
    <3>. QED BY <1>2, <1>9, <1>12, <3>1, NodesApart DEF Covers, Lockable
  <2>. QED BY <2>1, <2>2
<1>14. /\ anchor[at[t]] < a /\ Covers(at[t], a)
       /\ \A k \in recs'[at[t]] : k < a
       /\ \A k \in recs'[new] : a <= k /\ k \in Keys /\ Covers(at[t], k)
  <2>1. real[t] \subseteq Keys /\ Keys \subseteq Nat /\ anchor[at[t]] \in Nat
    BY <1>5, StoreAssumption DEF TypeOK, Keys
  <2>7. /\ \A x \in real[t] : Covers(at[t], x) /\ anchor[at[t]] <= x
        /\ a \in real[t] /\ a \in Nat
    BY <2>1 DEF CoveredOK, Covers
  <2>3. anchor[at[t]] < a
    <3>1. ~(a <= anchor[at[t]])
      BY <1>1 DEF SplitWrites
    <3>. QED BY <2>1, <2>7, <3>1
  <2>4. recs'[at[t]] = real[t] \ RightOf(real[t], a) /\ recs'[new] = RightOf(real[t], a)
    BY <1>4, <1>5
  <2>5. \A x \in recs'[at[t]] : x < a
    <3>1. ASSUME NEW x \in real[t] \ RightOf(real[t], a) PROVE x < a
      <4>1. x \in Nat /\ a \in Nat /\ ~(x >= a)
        BY <2>7, <2>1, <3>1 DEF RightOf
      <4>. QED BY <4>1
    <3>. QED BY <2>4, <3>1
  <2>6. \A x \in recs'[new] : a <= x /\ x \in real[t]
    BY <2>4 DEF RightOf
  <2>. QED BY <2>7, <2>1, <2>3, <2>5, <2>6
<1>15. ASSUME NEW u \in Threads, u # t, right[u] # Nil
       PROVE  /\ recs'[at[u]] = recs[at[u]] /\ recs'[right[u]] = recs[right[u]]
              /\ right[u] \in Nodes /\ anchor'[right[u]] = anchor[right[u]]
              /\ anchor[right[u]] \in Keys
  <2>1. u \in Winners
    BY <1>15, BusyWins
  <2>2. at[u] \in Nodes /\ at[u] # at[t] /\ at[u] # backward[at[t]] /\ at[u] # new
    BY <1>2, <1>7, <1>15, <2>1, Alone, NodesApart
  <2>3. right[u] \in Nodes /\ right[u] # at[t] /\ right[u] # backward[at[t]] /\ right[u] # new
    BY <1>3, <1>15, NodesApart DEF Linked, TypeOK, HalvesOK
  <2>4. anchor[right[u]] \in Keys
    BY <1>15, <2>3, StoreAssumption DEF TypeOK, HalvesOK, Keys
  <2>. QED BY <1>3, <1>4, <2>2, <2>3, <2>4
<1>16. ASSUME NEW u \in Threads, right'[u] # Nil
       PROVE  \E h \in Nodes :
                /\ h = right'[u]
                /\ anchor'[at[u]] < anchor'[h] /\ Covers(at[u], anchor[h])'
                /\ \A k \in recs'[at[u]] : k < anchor'[h]
                /\ \A k \in recs'[h] : anchor'[h] <= k /\ Covers(at[u], k)'
  <2>1. at[u] \in Nodes /\ Linked(at[u]) /\ anchor'[at[u]] = anchor[at[u]]
    BY <1>7, NodesApart
  <2>2. ASSUME NEW k \in Keys, Covers(at[u], k) PROVE Covers(at[u], k)'
    BY <1>2, <1>9, <2>1, <2>2 DEF Covers
  <2>3. CASE u = t
    <3>1. anchor'[new] = a /\ right'[u] = new
      BY <1>3, <2>3
    <3>2. Covers(at[u], anchor[new])'
      BY <1>3, <1>14, <2>2, <2>3, <3>1 DEF Covers
    <3>. QED BY <1>14, <2>1, <2>2, <2>3, <3>1, <3>2
  <2>4. CASE u # t
    <3>1. PICK h \in Nodes :
            /\ h = right[u] /\ h = right'[u] /\ h # Nil /\ anchor'[h] = anchor[h]
            /\ anchor[h] \in Keys /\ recs'[at[u]] = recs[at[u]] /\ recs'[h] = recs[h]
      BY <1>3, <1>15, <1>16, <2>4
    <3>2. /\ anchor[at[u]] < anchor[h] /\ Covers(at[u], anchor[h])
          /\ \A k \in recs[at[u]] : k < anchor[h]
          /\ \A k \in recs[h] : anchor[h] <= k /\ k \in Keys /\ Covers(at[u], k)
      BY <3>1 DEF CoveredOK, TypeOK, Lockable
    <3>3. Covers(at[u], anchor[h])'
      BY <2>2, <3>1, <3>2 DEF Covers
    <3>. QED BY <2>1, <2>2, <3>1, <3>2, <3>3
  <2>. QED BY <2>3, <2>4
<1>17. CoveredOK'
  <2>1. \A n \in Nodes : Linked(n)' => \A k \in recs'[n] : Covers(n, k)'
    BY <1>6, <1>9, <1>11
  <2>2. at' = at /\ backward' = backward
    BY <1>2
  <2>. QED BY <1>13, <1>16, <2>1, <2>2 DEF CoveredOK, Covers
<1>. QED BY <1>10, <1>17

\* A link inserts the right half behind the node it was split from: the two share
\* the keys that node covered.
LEMMA LinkPlaces ==
  ASSUME IInv, SortedOK, CoveredOK, NEW t \in Threads, Link(t)
  PROVE  SortedOK' /\ CoveredOK'
<1>. USE DEF IInv
<1>1. PICK new \in Nodes, n \in Nodes :
         /\ new = right[t] /\ n = at[t] /\ n # new /\ anchor[new] # 0 /\ Linked(n) /\ ~Linked(new)
         /\ t \in Winners /\ new # Nil
         /\ next' = [next EXCEPT ![new] = next[n], ![n] = new]
         /\ backward' = [backward EXCEPT ![new] = n]
         /\ right' = [right EXCEPT ![t] = Nil]
         /\ UNCHANGED <<anchor, recs, at, real, pred>>
         /\ \A u \in Threads : at[u] # new /\ backward[at[u]] # new
  BY LinkSteps, NodesApart DEF Linked, Winners
<1>2. \A m \in Nodes : next'[m] = IF m = n THEN new ELSE IF m = new THEN next[n] ELSE next[m]
  BY <1>1, NodesApart DEF TypeOK
<1>3. \A m \in Nodes : Linked(m)' <=> Linked(m) \/ m = new
  <2>1. \A u \in Threads : right'[u] = IF u = t THEN Nil ELSE right[u]
    BY <1>1 DEF TypeOK
  <2>2. \A u \in Threads : u # t => right[u] # new
    BY <1>1 DEF HalvesOK
  <2>. QED BY <1>1, <2>1, <2>2, NodesApart DEF Linked
<1>4. \A m \in Nodes : /\ anchor[m] \in Nat /\ anchor[m] <= MaxKey /\ anchor'[m] = anchor[m]
                       /\ Linked(m) => anchor[m] \in Keys
                       /\ Linked(m) /\ next[m] # Nil => next[m] \in Nodes /\ Linked(next[m])
  BY <1>1, NodesApart, StoreAssumption DEF TypeOK, ListOK, Linked, Keys
<1>5. /\ anchor[n] < anchor[new]
      /\ next[n] # Nil => anchor[new] < anchor[next[n]]
      /\ \A k \in recs[n] : k < anchor[new]
      /\ \A k \in recs[new] : anchor[new] <= k /\ Covers(n, k)
  BY <1>1 DEF CoveredOK, Covers
<1>6. ASSUME NEW m \in Nodes, Linked(m), m # n
      PROVE  /\ anchor[m] # anchor[new]
             /\ anchor[m] < anchor[new] => next[m] # Nil /\ anchor[next[m]] <= anchor[new]
             /\ anchor[new] < anchor[m] => next[n] # Nil /\ anchor[next[n]] <= anchor[m]
  <2>1. CASE anchor[m] < anchor[n]
    <3>1. next[m] # Nil /\ anchor[next[m]] <= anchor[n]
      BY <1>1, <1>6, <2>1 DEF SortedOK
    <3>2. anchor[next[m]] \in Nat
      BY <1>4, <1>6, <3>1
    <3>. QED BY <1>4, <1>5, <2>1, <3>1, <3>2
  <2>2. CASE anchor[n] < anchor[m]
    <3>1. next[n] # Nil /\ anchor[next[n]] <= anchor[m]
      BY <1>1, <1>6, <2>2 DEF SortedOK
    <3>2. anchor[next[n]] \in Nat
      BY <1>1, <1>4, <3>1
    <3>. QED BY <1>4, <1>5, <2>2, <3>1, <3>2
  <2>3. anchor[m] # anchor[n]
    BY <1>1, <1>6 DEF SortedOK
  <2>. QED BY <1>4, <2>1, <2>2, <2>3
<1>7. ASSUME NEW m \in Nodes, Linked(m)'
      PROVE  /\ next'[m] # Nil => anchor[m] < anchor[next'[m]]
             /\ \A p \in Nodes : Linked(p)' =>
                   /\ anchor[p] = anchor[m] => p = m
                   /\ anchor[m] < anchor[p] => next'[m] # Nil /\ anchor[next'[m]] <= anchor[p]
  <2>1. CASE m = n
    <3>1. next'[m] = new /\ anchor[m] < anchor[new]
      BY <1>2, <1>5, <2>1
    <3>2. ASSUME NEW p \in Nodes, Linked(p)', anchor[m] < anchor[p]
          PROVE  anchor[new] <= anchor[p]
      <4>1. CASE p = new
        BY <1>4, <4>1
      <4>2. CASE p # new /\ Linked(p)
        <5>1. next[n] # Nil /\ anchor[next[n]] <= anchor[p]
          BY <1>1, <2>1, <3>2, <4>2 DEF SortedOK
        <5>2. anchor[next[n]] \in Nat
          BY <1>1, <1>4, <5>1
        <5>. QED BY <1>4, <1>5, <5>1, <5>2
      <4>. QED BY <1>3, <3>2, <4>1, <4>2
    <3>3. ASSUME NEW p \in Nodes, Linked(p)', anchor[p] = anchor[m]
          PROVE  p = m
      <4>1. p # new
        BY <1>4, <1>5, <2>1, <3>3
      <4>. QED BY <1>1, <1>3, <2>1, <3>3, <4>1 DEF SortedOK
    <3>. QED BY <1>1, <3>1, <3>2, <3>3
  <2>2. CASE m = new
    <3>1. next'[m] = next[n]
      BY <1>1, <1>2, <2>2
    <3>2. ASSUME NEW p \in Nodes, Linked(p)', anchor[p] = anchor[m]
          PROVE  p = m
      <4>1. p # n
        BY <1>4, <1>5, <2>2, <3>2
      <4>. QED BY <1>3, <1>6, <2>2, <3>2, <4>1
    <3>3. ASSUME NEW p \in Nodes, Linked(p)', anchor[m] < anchor[p]
          PROVE  next[n] # Nil /\ anchor[next[n]] <= anchor[p]
      <4>1. p # n /\ p # new
        BY <1>4, <1>5, <2>2, <3>3
      <4>. QED BY <1>3, <1>6, <2>2, <3>3, <4>1
    <3>. QED BY <1>5, <2>2, <3>1, <3>2, <3>3
  <2>3. CASE m # n /\ m # new
    <3>1. next'[m] = next[m] /\ Linked(m)
      BY <1>2, <1>3, <1>7, <2>3
    <3>2. ASSUME NEW p \in Nodes, Linked(p)'
          PROVE  /\ anchor[p] = anchor[m] => p = m
                 /\ anchor[m] < anchor[p] => next[m] # Nil /\ anchor[next[m]] <= anchor[p]
      <4>1. CASE p = new
        BY <1>6, <2>3, <3>1, <4>1
      <4>2. CASE p # new
        BY <1>3, <3>1, <3>2, <4>2 DEF SortedOK
      <4>. QED BY <4>1, <4>2
    <3>3. next[m] # Nil => anchor[m] < anchor[next[m]]
      BY <3>1 DEF SortedOK
    <3>. QED BY <3>1, <3>2, <3>3
  <2>. QED BY <2>1, <2>2, <2>3
<1>8. SortedOK'
  BY <1>1, <1>7 DEF SortedOK
<1>9. \A m \in Nodes : m # n /\ m # new => \A k : Covers(m, k)' <=> Covers(m, k)
  BY <1>1, <1>2 DEF Covers
<1>10. /\ \A k : Covers(n, k)' <=> anchor[n] <= k /\ k < anchor[new]
       /\ \A k : Covers(new, k)' <=> anchor[new] <= k /\ (next[n] = Nil \/ k < anchor[next[n]])
  BY <1>1, <1>2 DEF Covers
<1>11. ASSUME NEW m \in Nodes, Linked(m)', NEW k \in recs[m] PROVE Covers(m, k)'
  <2>1. CASE m = n
    BY <1>1, <1>5, <1>10, <1>11, <2>1 DEF CoveredOK, Covers
  <2>2. CASE m = new
    BY <1>5, <1>10, <1>11, <2>2 DEF Covers
  <2>3. CASE m # n /\ m # new
    BY <1>3, <1>9, <1>11, <2>3 DEF CoveredOK
  <2>. QED BY <2>1, <2>2, <2>3
<1>12. ASSUME NEW u \in Threads, u # t, u \in Winners
       PROVE  /\ at[u] \in Nodes /\ \A k : Covers(at[u], k)' <=> Covers(at[u], k)
              /\ backward'[at[u]] = backward[at[u]]
              /\ backward[at[u]] \in Nodes =>
                    \A k : Covers(backward[at[u]], k)' <=> Covers(backward[at[u]], k)
  <2>1. at[u] # n /\ backward[at[u]] # n
    BY <1>1, <1>12, Alone
  <2>2. backward'[at[u]] = backward[at[u]]
    BY <1>1, NodesApart DEF TypeOK
  <2>3. at[u] \in Nodes /\ next'[at[u]] = next[at[u]]
    BY <1>1, <1>2, <2>1, NodesApart
  <2>4. backward[at[u]] \in Nodes => next'[backward[at[u]]] = next[backward[at[u]]]
    BY <1>1, <1>2, <2>1
  <2>5. at' = at /\ anchor' = anchor
    BY <1>1
  <2>. QED BY <2>2, <2>3, <2>4, <2>5 DEF Covers
<1>13. ASSUME NEW u \in Threads
       PROVE  /\ \A k \in real'[u] : Covers(at[u], k)'
              /\ \A k \in pred'[u] : Covers(backward[at[u]], k)'
  <2>1. CASE u = t
    <3>1. real[t] = {} /\ pred[t] = {}
      BY LinkSteps DEF BuffersOK
    <3>. QED BY <1>1, <2>1, <3>1
  <2>2. CASE u # t /\ u \in Winners
    <3>1. pred[u] # {} => backward[at[u]] \in Nodes
      BY NodesApart DEF BuffersOK, Lockable
    <3>2. \A k \in real[u] : Covers(at[u], k)'
      BY <1>12, <2>2 DEF CoveredOK
    <3>3. \A k \in pred[u] : Covers(backward[at[u]], k)'
      BY <1>12, <2>2, <3>1 DEF CoveredOK
    <3>4. real' = real /\ pred' = pred
      BY <1>1
    <3>. QED BY <3>2, <3>3, <3>4
  <2>3. CASE u \notin Winners
    BY <1>1, <2>3, BusyWins
  <2>. QED BY <2>1, <2>2, <2>3
<1>14. ASSUME NEW u \in Threads, right'[u] # Nil
       PROVE  /\ right'[u] = right[u]
              /\ anchor[at[u]] < anchor[right[u]] /\ Covers(at[u], anchor[right[u]])'
              /\ \A k \in recs[at[u]] : k < anchor[right[u]]
              /\ \A k \in recs[right[u]] : anchor[right[u]] <= k /\ Covers(at[u], k)'
  <2>1. u # t /\ right'[u] = right[u]
    BY <1>1, <1>14 DEF TypeOK
  <2>2. u \in Winners
    BY <1>14, <2>1, BusyWins
  <2>3. PICK h : h = anchor[right[u]]
    OBVIOUS
  <2>4. anchor'[right[u]] = h /\ at' = at
    BY <1>1, <2>3
  <2>5. /\ anchor[at[u]] < h /\ Covers(at[u], h)
        /\ \A k \in recs[at[u]] : k < h
        /\ \A k \in recs[right[u]] : h <= k /\ Covers(at[u], k)
    BY <1>14, <2>1, <2>3 DEF CoveredOK
  <2>6. \A k : Covers(at[u], k)' <=> Covers(at[u], k)
    BY <1>12, <2>1, <2>2
  <2>7. Covers(at[u], anchor[right[u]])'
    <3>1. Covers(at[u], h)' /\ h = anchor'[right'[u]]
      BY <2>1, <2>4, <2>5, <2>6
    <3>. QED BY <3>1 DEF Covers
  <2>. QED BY <2>1, <2>3, <2>5, <2>6, <2>7
<1>15. CoveredOK'
  BY <1>1, <1>11, <1>13, <1>14 DEF CoveredOK, Covers
<1>. QED BY <1>8, <1>15

\* No step misplaces a record, unless it overtakes a put.
LEMMA PlacedStep ==
  ASSUME PlacedInv, [Next]_vars
  PROVE  PlacedInv'
<1>1. IInv /\ IInv'
  BY InvStep DEF PlacedInv
<1>2. ASSUME ~astray' PROVE SortedOK' /\ CoveredOK'
  <2>1. SortedOK /\ CoveredOK
    BY <1>1, <1>2, StaysAstray DEF PlacedInv
  <2>2. CASE UNCHANGED vars
    BY <2>1, <2>2 DEF vars, list, remote, work, local, SortedOK, CoveredOK, Covers, Linked
  <2>3. ASSUME NEW t \in Threads, Quiet(t) PROVE SortedOK' /\ CoveredOK'
    <3>1. Apart(t)
      BY <1>1, <2>3, QuietSteps
    <3>2. /\ UNCHANGED <<next, backward, anchor, recs, real, pred, right>>
          /\ \A u \in Threads \ {t} : at'[u] = at[u]
      BY <3>1 DEF Apart
    <3>3. real[t] = {} /\ pred[t] = {} /\ right[t] = Nil
      BY <1>1, <3>1 DEF Apart, IInv, BuffersOK, HalvesOK
    <3>4. SortedOK'
      BY <2>1, <3>2 DEF SortedOK, Linked
    <3>5. \A n \in Nodes : Linked(n)' => \A k \in recs'[n] : Covers(n, k)'
      BY <2>1, <3>2 DEF CoveredOK, Covers, Linked
    <3>6. ASSUME NEW u \in Threads \ {t}
          PROVE  /\ \A k \in real'[u] : Covers(at[u], k)'
                 /\ \A k \in pred'[u] : Covers(backward[at[u]], k)'
                 /\ right'[u] # Nil =>
                       /\ anchor'[at'[u]] < anchor'[right'[u]] /\ Covers(at[u], anchor[right[u]])'
                       /\ \A k \in recs'[at'[u]] : k < anchor'[right'[u]]
                       /\ \A k \in recs'[right'[u]] : anchor'[right'[u]] <= k /\ Covers(at[u], k)'
      BY <2>1, <3>2 DEF CoveredOK, Covers
    <3>7. real'[t] = {} /\ pred'[t] = {} /\ right'[t] = Nil
      BY <3>2, <3>3
    <3>. QED BY <3>4, <3>5, <3>6, <3>7 DEF CoveredOK
  <2>4. ASSUME NEW t \in Threads, Buffered(t) PROVE SortedOK' /\ CoveredOK'
    BY <1>1, <1>2, <2>1, <2>4, BufferPlaces
  <2>5. ASSUME NEW t \in Threads, WriteInPlace(t) \/ WriteMorphed(t) PROVE SortedOK' /\ CoveredOK'
    BY <1>1, <2>1, <2>5, WritePlaces
  <2>6. ASSUME NEW t \in Threads, WriteSplit(t) PROVE SortedOK' /\ CoveredOK'
    BY <1>1, <1>2, <2>1, <2>6, SplitPlaces
  <2>7. ASSUME NEW t \in Threads, Link(t) PROVE SortedOK' /\ CoveredOK'
    BY <1>1, <2>1, <2>7, LinkPlaces
  <2>. QED BY <2>2, <2>3, <2>4, <2>5, <2>6, <2>7, NextSteps
<1>. QED BY <1>1, <1>2 DEF PlacedInv

\* The two nodes the flush leaves are in order, and hold what they should.
LEMMA PlacedInit ==
  ASSUME Init
  PROVE  PlacedInv
<1>1. IInv
  BY InitInv
<1>2. /\ \A n \in Nodes : Linked(n) => n = 1 \/ n = 2
      /\ 1 \in Nodes /\ 2 \in Nodes /\ 1 \in Lockable /\ 2 \in Lockable /\ 2 # Nil
      /\ next[1] = 2 /\ next[2] = Nil /\ anchor[1] = 1 /\ anchor[2] = Second /\ 1 < Second
      /\ recs[1] = {k \in Flushed : k < Second} /\ recs[2] = {k \in Flushed : k >= Second}
      /\ \A t \in Threads : real[t] = {} /\ pred[t] = {} /\ right[t] = Nil
      /\ Flushed \subseteq 1..MaxKey
  BY StoreAssumption DEF Init, Linked, Lockable, Nodes, Sentinel, Nil
<1>3. SortedOK
  BY <1>2, StoreAssumption DEF SortedOK
<1>4. CoveredOK
  <2>1. ASSUME NEW k \in recs[1] PROVE Covers(1, k)
    <3>1. k < Second /\ k \in 1..MaxKey /\ anchor[next[1]] = Second /\ anchor[1] = 1
      BY <1>2
    <3>2. anchor[1] <= k
      BY <3>1
    <3>. QED BY <3>1, <3>2 DEF Covers
  <2>2. \A k \in recs[2] : Covers(2, k)
    BY <1>2, StoreAssumption DEF Covers
  <2>. QED BY <1>2, <2>1, <2>2 DEF CoveredOK
<1>. QED BY <1>1, <1>3, <1>4 DEF PlacedInv

\* A record is in what a node has, or will have, when it is in one of three places.
LEMMA InRecordsOf ==
  ASSUME NEW n, NEW k \in RecordsOf(n)
  PROVE  \/ k \in recs[n]
         \/ \E t \in Winners : at[t] = n /\ k \in real[t]
         \/ \E t \in Threads : at[t] = n /\ right[t] # Nil /\ k \in recs[right[t]]
BY DEF RecordsOf

\* Morphs, splits and links leave no record where a search for its key does not end,
\* as long as no put was overtaken by a split of the node it retries on and no split
\* has given both halves one anchor.
THEOREM Placement == Spec => []RecordsPlaced
<1>1. PlacedInv => RecordsPlaced
  <2>. SUFFICES ASSUME PlacedInv, ~astray, NEW n \in Nodes,
                       n \notin {right[t] : t \in Threads}, NEW k \in RecordsOf(n)
                PROVE  Holder(k) = n
    BY DEF RecordsPlaced
  <2>1. IInv /\ TypeOK /\ ListOK /\ SortedOK /\ CoveredOK /\ n \in Lockable
    BY DEF PlacedInv, IInv, Lockable
  <2>2. CASE k \in recs[n]
    <3>1. Linked(n)
      BY <2>1, <2>2 DEF ListOK, Linked
    <3>2. k \in Keys /\ Covers(n, k)
      BY <2>1, <2>2, <3>1 DEF TypeOK, CoveredOK
    <3>. QED BY <2>1, <3>1, <3>2, HolderOf
  <2>3. ASSUME NEW t \in Winners, at[t] = n, k \in real[t] PROVE Holder(k) = n
    <3>1. t \in Threads
      BY DEF Winners
    <3>2. k \in Keys /\ Covers(n, k) /\ Linked(n)
      BY <2>1, <2>3, <3>1 DEF TypeOK, CoveredOK, ListOK
    <3>. QED BY <2>1, <3>2, HolderOf
  <2>4. ASSUME NEW t \in Threads, at[t] = n, right[t] # Nil, k \in recs[right[t]]
        PROVE  Holder(k) = n
    <3>1. right[t] \in Nodes /\ right[t] \in Lockable
      BY <2>1, <2>4 DEF TypeOK, Lockable
    <3>2. k \in Keys /\ Covers(n, k) /\ Linked(n)
      BY <2>1, <2>4, <3>1 DEF TypeOK, CoveredOK, ListOK
    <3>. QED BY <2>1, <3>2, HolderOf
  <2>. QED BY <2>2, <2>3, <2>4, InRecordsOf
<1>. QED BY PlacedInit, PlacedStep, <1>1, PTL DEF Spec
=============================================================================
