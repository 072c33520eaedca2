--------------------------- MODULE PageAllocatorProofs ---------------------------
(***************************************************************************)
(* Theorems about PageAllocator, for every number of threads, memory nodes,*)
(* pages and classes: its variables keep their types; no page of a segment *)
(* that was assigned once is handed out twice, although segments become    *)
(* the current one while another thread cuts pages; and the pointers that  *)
(* allocate returns into such a segment share no byte with any other.      *)
(* Threads may take one segment out of the response buffer they share; of  *)
(* a segment assigned twice nothing is claimed.  First what RemotePointer  *)
(* promises of every address, node id and offset, for words of every width,*)
(* on which the last of these rests.                                       *)
(***************************************************************************)
EXTENDS PageAllocator, FiniteSetTheorems, WellFoundedInduction, TLAPS

-----------------------------------------------------------------------------
(***************************************************************************)
(* Numbers.                                                                *)
(***************************************************************************)

\* Every set of numbers that has an element has a smallest one: CHOOSE finds it.
LEMMA Minimum ==
  ASSUME NEW S \in SUBSET Nat, S # {}
  PROVE  \E m \in S : \A n \in S : m <= n
<1>. DEFINE R == {x \in Nat \X Nat : x[1] < x[2]}
<1>1. IsWellFoundedOn(R, Nat)
  BY NatLessThanWellFounded DEF OpToRel
<1>2. PICK m \in S : \A n \in S : <<n, m>> \notin R
  BY <1>1, WFMin
<1>3. \A n \in S : ~ (n < m)
  BY <1>2
<1>. QED BY <1>3

-----------------------------------------------------------------------------
(***************************************************************************)
(* RemotePointer: the node and the address come out of a word as they went *)
(* in, and arithmetic on the word is arithmetic on the address.            *)
(***************************************************************************)

\* A quotient and a remainder can be read off the number they make up.
LEMMA DivMod ==
  ASSUME NEW q \in Nat, NEW d \in Nat \ {0}, NEW r \in 0..(d - 1)
  PROVE  /\ q * d + r \in Nat
         /\ (q * d + r) \div d = q
         /\ (q * d + r) % d = r
  OBVIOUS

\* The two weights are positive, and the address is the smaller part.
LEMMA Weights ==
  /\ NodeSpan \in Nat \ {0} /\ FillSpan \in Nat \ {0} /\ AddressSpan \in Nat \ {0}
  /\ PageSize \in Nat \ {0}
  /\ TopByte \in Nat \ {0} /\ AddressSpan <= TopByte
<1>1. NodeSpan \in Nat \ {0} /\ FillSpan \in Nat \ {0} /\ AddressSpan \in Nat \ {0}
      /\ PageSize \in Nat \ {0}
  BY PointerAssumption
<1>2. FillSpan >= 1 /\ AddressSpan >= 1
  BY <1>1
<1>3. FillSpan * AddressSpan \in Nat /\ FillSpan * AddressSpan >= AddressSpan
  BY <1>1, <1>2
<1>. QED BY <1>1, <1>2, <1>3 DEF TopByte

\* The word of a node and an address that fit their fields.
LEMMA Made ==
  ASSUME NEW n \in 0..(NodeSpan - 1), NEW a \in 0..(AddressSpan - 1)
  PROVE  /\ MakeRemotePointer(n, a) = (2 * NodeSpan + n) * TopByte + a
         /\ 2 * NodeSpan + n \in Nat /\ a \in 0..(TopByte - 1)
         /\ MakeRemotePointer(n, a) \in Words
<1>. USE Weights
<1>1. n % NodeSpan = n /\ a % AddressSpan = a
  OBVIOUS
<1>2. 2 * NodeSpan + n \in Nat /\ a \in 0..(TopByte - 1)
  OBVIOUS
<1>3. MakeRemotePointer(n, a) = (2 * NodeSpan + n) * TopByte + a
  BY <1>1 DEF MakeRemotePointer, Remote
<1>4. 2 * NodeSpan + n <= FillSpan - 1
  BY PointerAssumption
<1>5. (2 * NodeSpan + n) * TopByte <= (FillSpan - 1) * TopByte
  BY <1>2, <1>4
<1>6. (FillSpan - 1) * TopByte = FillSpan * TopByte - TopByte
  OBVIOUS
<1>7. (2 * NodeSpan + n) * TopByte \in Nat
  BY <1>2
<1>8. (2 * NodeSpan + n) * TopByte + a \in 0..(FillSpan * TopByte - 1)
  BY <1>2, <1>5, <1>6, <1>7
<1>. QED BY <1>2, <1>3, <1>8 DEF Words

\* make_remote_pointer, get_node, get_as, is_nullptr: whatever address of whichever
\* node is put into a remote pointer comes out of it, and null stays null.
THEOREM PointerRoundTrip ==
  ASSUME NEW n \in 0..(NodeSpan - 1), NEW a \in 0..(AddressSpan - 1)
  PROVE  /\ GetNode(MakeRemotePointer(n, a)) = n
         /\ GetAs(MakeRemotePointer(n, a)) = a
         /\ IsNullptr(MakeRemotePointer(n, a)) <=> a = 0
<1>. USE Weights
<1>. DEFINE q == 2 * NodeSpan + n
            p == MakeRemotePointer(n, a)
<1>1. p = q * TopByte + a /\ q \in Nat /\ a \in 0..(TopByte - 1)
  BY Made
<1>2. p \div TopByte = q /\ p % TopByte = a
  <2>1. (q * TopByte + a) \div TopByte = q /\ (q * TopByte + a) % TopByte = a
    BY <1>1, DivMod, Zenon
  <2>. QED BY <1>1, <2>1
<1>3. q % NodeSpan = n
  BY DivMod
<1>4. GetNode(p) = n
  BY <1>2, <1>3 DEF GetNode
<1>5. p = (q * FillSpan) * AddressSpan + a /\ q * FillSpan \in Nat
  BY <1>1 DEF TopByte
<1>6. p \div AddressSpan = q * FillSpan /\ p % AddressSpan = a
  <2>1. ((q * FillSpan) * AddressSpan + a) \div AddressSpan = q * FillSpan
        /\ ((q * FillSpan) * AddressSpan + a) % AddressSpan = a
    BY <1>5, DivMod, Zenon
  <2>. QED BY <1>5, <2>1
<1>7. (q * FillSpan + 0) % FillSpan = 0
  BY <1>1, DivMod
<1>8. (p \div AddressSpan) % FillSpan = 0
  BY <1>1, <1>5, <1>6, <1>7
<1>9. GetAs(p) = a
  BY <1>2, <1>8 DEF GetAs
<1>10. IsNullptr(p) <=> a = 0
  BY <1>6 DEF IsNullptr
<1>. QED BY <1>4, <1>9, <1>10

\* offset and offset_by: as long as the address does not leave its field, adding to
\* the word adds to the address, and the node stays the same.
THEOREM OffsetMovesAddress ==
  ASSUME NEW n \in 0..(NodeSpan - 1), NEW a \in 0..(AddressSpan - 1), NEW off \in Nat,
         a + off < AddressSpan
  PROVE  OffsetBy(MakeRemotePointer(n, a), off) = MakeRemotePointer(n, a + off)
<1>. USE Weights
<1>. DEFINE q == 2 * NodeSpan + n
<1>1. a + off \in 0..(AddressSpan - 1)
  OBVIOUS
<1>2. MakeRemotePointer(n, a) = q * TopByte + a /\ q \in Nat
  BY Made
<1>3. MakeRemotePointer(n, a + off) = q * TopByte + (a + off)
      /\ MakeRemotePointer(n, a + off) \in Words
  BY <1>1, Made
<1>4. q * TopByte \in Nat
  BY <1>2
<1>5. MakeRemotePointer(n, a) + off = MakeRemotePointer(n, a + off)
  BY <1>2, <1>3, <1>4
<1>6. FillSpan * TopByte \in Nat \ {0}
  OBVIOUS
<1>7. MakeRemotePointer(n, a + off) % (FillSpan * TopByte) = MakeRemotePointer(n, a + off)
  BY <1>3, <1>6 DEF Words
<1>. QED BY <1>5, <1>7 DEF OffsetBy

\* page: clearing the low bits of the word leads to the page that the address is in,
\* which is how free finds the page of a chunk.
THEOREM PageOfAddress ==
  ASSUME NEW n \in 0..(NodeSpan - 1), NEW a \in 0..(AddressSpan - 1)
  PROVE  PageOf(MakeRemotePointer(n, a)) = MakeRemotePointer(n, a - (a % PageSize))
<1>. USE Weights
<1>. DEFINE q == 2 * NodeSpan + n
            m == AddressSpan \div PageSize
            r == a % PageSize
            p == MakeRemotePointer(n, a)
<1>1. AddressSpan = m * PageSize /\ m \in Nat
  BY PointerAssumption
<1>2. r \in 0..(PageSize - 1) /\ a = (a \div PageSize) * PageSize + r
      /\ a \div PageSize \in Nat /\ a - r \in 0..(AddressSpan - 1)
  OBVIOUS
<1>3. p = q * TopByte + a /\ q \in Nat
  BY Made
<1>4. q * TopByte = (q * FillSpan * m) * PageSize
  BY <1>1, <1>3 DEF TopByte
<1>5. p = (q * FillSpan * m + (a \div PageSize)) * PageSize + r
  BY <1>1, <1>2, <1>3, <1>4
<1>6. q * FillSpan * m + (a \div PageSize) \in Nat
  BY <1>1, <1>2, <1>3
<1>7. p % PageSize = r
  <2>1. ((q * FillSpan * m + (a \div PageSize)) * PageSize + r) % PageSize = r
    BY <1>2, <1>6, DivMod, Zenon
  <2>. QED BY <1>5, <2>1
<1>8. PageOf(p) = q * TopByte + (a - r)
  BY <1>2, <1>3, <1>7 DEF PageOf
<1>9. MakeRemotePointer(n, a - r) = q * TopByte + (a - r)
  BY <1>2, Made
<1>. QED BY <1>8, <1>9

-----------------------------------------------------------------------------
(***************************************************************************)
(* Lemmas about the operators.                                             *)
(***************************************************************************)

\* A chunk of every class fits a page, and a page has no more of them than bytes.
LEMMA SlotsType ==
  ASSUME NEW c \in Classes
  PROVE  Slots(c) \in 1..PageSize
<1>1. PageSize \in Nat \ {0} /\ Size[c] \in 1..PageSize
  BY PointerAssumption, AllocatorAssumption
<1>2. \A d \in 1..PageSize : PageSize \div d \in 1..PageSize
  <2>1. SUFFICES ASSUME NEW d \in 1..PageSize PROVE PageSize \div d \in 1..PageSize
    OBVIOUS
  <2>. DEFINE q == PageSize \div d
  <2>2. q \in Nat /\ q * d <= PageSize /\ PageSize < q * d + d
    BY <1>1
  <2>3. q # 0
    BY <1>1, <2>2
  <2>4. q <= q * d
    BY <2>2
  <2>. QED BY <1>1, <2>2, <2>3, <2>4
<1>. QED BY <1>1, <1>2 DEF Slots

\* A bitmap has a bit; the null pointer is not a segment.
LEMMA SegmentsType ==
  /\ \A n \in 0..(MemoryNodes - 1) : Bits(n) \in Nat \ {0}
  /\ Null \notin Segments
<1>1. MemoryNodes \in Nat \ {0} /\ PagesOf \in Nat \ {0} /\ PageSize \in Nat \ {0}
      /\ ByteBits \in Nat \ {0} /\ Capacity \in [0..(MemoryNodes - 1) -> Nat]
  BY PointerAssumption, AllocatorAssumption
<1>2. SegmentSize \in Nat \ {0}
  BY <1>1 DEF SegmentSize
<1>3. ASSUME NEW n \in 0..(MemoryNodes - 1) PROVE Bits(n) \in Nat \ {0}
  <2>1. \A a \in Nat, d \in Nat \ {0} : a \div d \in Nat
    OBVIOUS
  <2>2. (Capacity[n] \div SegmentSize) \div ByteBits \in Nat
    BY <1>1, <1>2, <2>1
  <2>. DEFINE bytes == ((Capacity[n] \div SegmentSize) \div ByteBits) + 1
  <2>3. bytes \in Nat \ {0}
    BY <2>2
  <2>. HIDE DEF bytes
  <2>4. ByteBits * bytes \in Nat \ {0}
    BY <1>1, <2>3
  <2>. QED BY <2>4 DEF Bits, bytes
<1>4. Null \notin Segments
  BY <1>1 DEF Null, Segments
<1>. QED BY <1>3, <1>4

\* A memory node whose bitmap is not full grants a segment it has not granted.
LEMMA LowestIsFree ==
  ASSUME NEW n \in 0..(MemoryNodes - 1), Free(n) # {}
  PROVE  Lowest(n) \in Segments \ granted
<1>1. Bits(n) \in Nat \ {0}
  BY SegmentsType
<1>2. Free(n) \in SUBSET Nat
  BY <1>1 DEF Free
<1>3. \E b \in Free(n) : \A o \in Free(n) : b <= o
  BY <1>2, Minimum
<1>4. PICK b \in Free(n) : Lowest(n) = <<n, b>>
  BY <1>3 DEF Lowest
<1>5. b \in 0..(Bits(n) - 1) /\ <<n, b>> \notin granted
  BY DEF Free
<1>6. <<n, b>> \in {n} \X (0..(Bits(n) - 1))
  BY <1>5
<1>7. <<n, b>> \in Segments
  BY <1>6, Zenon DEF Segments
<1>. QED BY <1>4, <1>5, <1>7

\* The positions of a group are finitely many.
LEMMA TodoType ==
  ASSUME NEW S \in SUBSET Positions
  PROVE  /\ IsFiniteSet(S) /\ Cardinality(S) \in Nat /\ Cardinality(S) <= GroupSize
         /\ S # {} => /\ Cardinality(S) >= 1
                      /\ \E m \in S : \A n \in S : m <= n
         /\ \A i \in S : Cardinality(S \ {i}) = Cardinality(S) - 1
<1>1. GroupSize \in Nat \ {0}
  BY AllocatorAssumption
<1>2. IsFiniteSet(Positions) /\ Cardinality(Positions) = GroupSize
  BY <1>1, FS_Interval DEF Positions
<1>3. IsFiniteSet(S) /\ Cardinality(S) <= GroupSize
  BY <1>2, FS_Subset
<1>4. Cardinality(S) \in Nat
  BY <1>3, FS_CardinalityType
<1>5. S # {} => Cardinality(S) >= 1
  BY <1>3, <1>4, FS_EmptySet
<1>6. S # {} => \E m \in S : \A n \in S : m <= n
  BY <1>1, Minimum DEF Positions
<1>7. \A i \in S : Cardinality(S \ {i}) = Cardinality(S) - 1
  BY <1>3, FS_RemoveElement
<1>. QED BY <1>3, <1>4, <1>5, <1>6, <1>7

-----------------------------------------------------------------------------
(***************************************************************************)
(* The type invariant.  That a cut stays within its segment depends on how *)
(* many pages the thread that holds the mutex still has to cut: it has     *)
(* looked once whether a whole group is left, and a segment that has       *)
(* replaced the one it looked at is unused.                                *)
(***************************************************************************)
Cutting == {"read", "advance"}
\* The steps that also preallocate takes, for no class.
Unlocked == {"idle", "offer", "ask", "wait", "assign"}

\* The thread at "read" or "advance" has the mutex, and what is left to cut fits.
CutOK(t) ==
    LET q == call[t] IN
    /\ q.pc \in Cutting =>
          /\ GroupSize < PagesOf
          /\ q.init \in {Nobody, q.class}
          /\ current # Nobody
          /\ \A i \in Positions \ q.todo : group[t][i] # NoMirror
    /\ q.pc = "read" =>
          q.todo # {} /\ Cardinality(q.todo) + offset[current] <= PagesOf
    /\ q.pc = "advance" =>
          /\ Cardinality(q.todo) < GroupSize
          /\ Cardinality(q.todo) + 1 + offset[current] <= PagesOf
          /\ Cardinality(q.todo) + 1 + offset[q.loaded] <= PagesOf

\* What each step of allocate may rely on.
CallOK(t) ==
    LET q == call[t] IN
    /\ q.pc \in Cutting <=> mutex = t
    /\ q.pc \notin Unlocked => q.class \in Classes
    /\ q.pc \in {"advance", "carve"} => \E i \in Positions : Usable(group[t][i], q.class)
    /\ q.pc \in {"refillPage", "carve"} => Has(t)
    /\ q.pc = "refillPage" => Exhausted(t, q.class) # {}

\* A mirror is a page's, or still none; one without a class is unused.
MirrorOK(m) ==
    /\ m # NoMirror => m.page \in Pages
    /\ m.class = Nobody => m.next = 0

TypeInv ==
    /\ TypeOK
    /\ \A t \in Threads : CutOK(t) /\ CallOK(t)
    /\ \A t \in Threads, i \in Positions : MirrorOK(group[t][i])

\* A thread that calls nothing.
LEMMA NoCallType == NoCall \in Calls
<1>1. 0 \in NodeIds
  BY PointerAssumption, AllocatorAssumption DEF NodeIds
<1>. QED BY <1>1 DEF NoCall, Calls

\* Nothing has been granted, cut or carved.
LEMMA TypeInit == Init => TypeInv
<1>. SUFFICES ASSUME Init PROVE TypeInv
  OBVIOUS
<1>1. PagesOf \in Nat \ {0} /\ OffsetLimit \in Nat \ {0} /\ MaxRequests \in Nat
      /\ MemoryNodes \in Nat \ {0} /\ Nobody \notin Threads
  BY PointerAssumption, AllocatorAssumption
<1>2. TypeOK
  BY <1>1 DEF Init, TypeOK, NoCall, NoMirror, Mirror, Mirrors, Calls, NodeIds
<1>3. \A t \in Threads : CutOK(t) /\ CallOK(t)
  BY <1>1 DEF Init, CutOK, CallOK, Unlocked, Cutting, NoCall
<1>4. \A t \in Threads, i \in Positions : MirrorOK(group[t][i])
  BY DEF Init, MirrorOK, NoMirror, Mirror
<1>. QED BY <1>2, <1>3, <1>4 DEF TypeInv

\* A thread is not disturbed by a step of another that leaves the segments alone.
LEMMA OthersKeep ==
  ASSUME TypeInv, NEW t \in Threads, NEW u \in Threads \ {t},
         call'[u] = call[u], group'[u] = group[u], mutex' = u <=> mutex = u
  PROVE  /\ CallOK(u)'
         /\ UNCHANGED <<current, offset>> => CutOK(u)'
         /\ \A i \in Positions : MirrorOK(group[u][i])'
<1>1. CallOK(u) /\ CutOK(u) /\ \A i \in Positions : MirrorOK(group[u][i])
  BY DEF TypeInv
<1>2. CallOK(u)'
  BY <1>1 DEF CallOK, Has, Exhausted
<1>3. UNCHANGED <<current, offset>> => CutOK(u)'
  BY <1>1 DEF CutOK
<1>4. \A i \in Positions : MirrorOK(group[u][i])'
  BY <1>1 DEF MirrorOK
<1>. QED BY <1>2, <1>3, <1>4

\* A step that changes nothing but the caller's record, and the mutex.
LEMMA CallerSteps ==
  ASSUME TypeInv, NEW t \in Threads, NEW q \in Calls,
         call' = [call EXCEPT ![t] = q], UNCHANGED <<current, offset, group, given, again>>,
         \A u \in Threads \ {t} : mutex' = u <=> mutex = u,
         mutex' \in Threads \cup {Nobody},
         granted' \subseteq Segments, turn' \in NodeIds, UNCHANGED <<tracked, twice>>,
         wanted' \in [NodeIds -> Nat], done' \in [NodeIds -> BOOLEAN],
         answer' \in [NodeIds -> Segments \cup {Null}],
         requests' \in 0..MaxRequests,
         CutOK(t)', CallOK(t)'
  PROVE  TypeInv'
<1>1. TypeOK'
  BY DEF TypeInv, TypeOK
<1>2. \A u \in Threads \ {t} : call'[u] = call[u] /\ group'[u] = group[u]
  BY DEF TypeInv, TypeOK
<1>3. \A u \in Threads : CutOK(u)' /\ CallOK(u)'
  BY <1>2, OthersKeep
<1>4. \A u \in Threads, i \in Positions : MirrorOK(group[u][i])'
  BY DEF TypeInv, MirrorOK
<1>. QED BY <1>1, <1>3, <1>4 DEF TypeInv

\* What allocate has found out when it goes on.
LEMMA StatusOK ==
  ASSUME NEW t, NEW c
  PROVE  /\ Status(t, c) \in {"refill", "carve", "refillPage"}
         /\ Status(t, c) = "carve" => Has(t) /\ \E i \in Positions : Usable(group[t][i], c)
         /\ Status(t, c) = "refillPage" => Has(t) /\ Exhausted(t, c) # {}
  BY DEF Status

\* allocate looks at the thread's group and goes on by what it finds.
LEMMA AllocateKeeps == ASSUME TypeInv, NEW t \in Threads, Allocate(t) PROVE TypeInv'
<1>1. PICK c \in Classes : call' = [call EXCEPT ![t].class = c, ![t].pc = Status(t, c)]
  BY DEF Allocate
<1>. DEFINE q == [call[t] EXCEPT !.class = c, !.pc = Status(t, c)]
<1>2. call[t] \in Calls /\ call \in [Threads -> Calls]
  BY DEF TypeInv, TypeOK
<1>3. q \in Calls /\ q.pc = Status(t, c) /\ q.class = c
  BY <1>2, StatusOK DEF Calls
<1>4. call' = [call EXCEPT ![t] = q] /\ call'[t] = q
  BY <1>1, <1>2
<1>5. mutex # t
  BY DEF Allocate, TypeInv, CallOK, Unlocked, Cutting
<1>6. CutOK(t)'
  BY <1>3, <1>4, StatusOK DEF CutOK, Cutting
<1>7. CallOK(t)'
  <2>1. UNCHANGED <<group, mutex>>
    BY DEF Allocate
  <2>2. Has(t)' = Has(t) /\ Exhausted(t, c)' = Exhausted(t, c)
    BY <2>1 DEF Has, Exhausted
  <2>. QED BY <1>3, <1>4, <1>5, <2>1, <2>2, StatusOK DEF CallOK, Unlocked, Cutting
<1>8. requests' \in 0..MaxRequests
  BY AllocatorAssumption DEF Allocate, TypeInv, TypeOK
<1>. HIDE DEF q
<1>. QED BY <1>3, <1>4, <1>6, <1>7, <1>8, CallerSteps DEF Allocate, TypeInv, TypeOK, rpcVars, segmentVars, chunkVars

\* preallocate asks for a segment at once.
LEMMA PreallocateKeeps == ASSUME TypeInv, NEW t \in Threads, Preallocate(t) PROVE TypeInv'
<1>. DEFINE q == [call[t] EXCEPT !.pc = "offer"]
<1>1. call[t] \in Calls /\ call \in [Threads -> Calls]
  BY DEF TypeInv, TypeOK
<1>2. q \in Calls /\ q.pc = "offer"
  BY <1>1 DEF Calls
<1>3. call' = [call EXCEPT ![t] = q] /\ call'[t] = q
  BY <1>1 DEF Preallocate
<1>4. mutex # t
  BY DEF Preallocate, TypeInv, CallOK, Unlocked, Cutting
<1>5. CutOK(t)'
  BY <1>2, <1>3 DEF CutOK, Cutting
<1>6. CallOK(t)'
  BY <1>2, <1>3, <1>4 DEF CallOK, Unlocked, Cutting, Preallocate
<1>7. requests' \in 0..MaxRequests
  BY AllocatorAssumption DEF Preallocate, TypeInv, TypeOK
<1>. HIDE DEF q
<1>. QED BY <1>2, <1>3, <1>5, <1>6, <1>7, CallerSteps DEF Preallocate, TypeInv, TypeOK, rpcVars, segmentVars, chunkVars

\* A refill starts only when a whole group is left.
LEMMA RefillKeeps == ASSUME TypeInv, NEW t \in Threads, Refill(t) PROVE TypeInv'
<1>. DEFINE q == Refilling(t)
<1>1. call[t] \in Calls /\ call \in [Threads -> Calls] /\ CallOK(t)
  BY DEF TypeInv, TypeOK
<1>2. /\ q \in Calls /\ q.pc = "read" /\ q.class = call[t].class
      /\ q.init \in {Nobody, q.class}
  BY <1>1 DEF Refilling, Calls, Exhausted
<1>3. call' = [call EXCEPT ![t] = q] /\ call'[t] = q
  BY <1>1 DEF Refill
<1>4. /\ q.todo \in SUBSET Positions /\ q.todo # {}
      /\ \A i \in Positions \ q.todo : group[t][i] # NoMirror
  <2>1. 1 \in Positions
    BY AllocatorAssumption DEF Positions
  <2>. QED BY <1>1, <2>1 DEF Refill, Refilling, CallOK, Has, Exhausted, Calls
<1>5. /\ current # Nobody /\ offset[current] \in 1..PagesOf
      /\ offset[current] + GroupSize <= PagesOf
  BY AllocatorAssumption DEF Refill, TrackerAvailable, TypeInv, TypeOK
<1>6. CutOK(t)'
  <2>1. Cardinality(q.todo) \in Nat /\ Cardinality(q.todo) <= GroupSize
    BY <1>4, TodoType
  <2>2. Cardinality(q.todo) + offset[current] <= PagesOf /\ GroupSize < PagesOf
    BY <1>5, <2>1, AllocatorAssumption
  <2>3. UNCHANGED <<current, offset, group>>
    BY DEF Refill, segmentVars
  <2>. QED BY <1>2, <1>3, <1>4, <1>5, <2>2, <2>3 DEF CutOK, Cutting
<1>7. CallOK(t)'
  BY <1>1, <1>2, <1>3 DEF Refill, CallOK, Unlocked, Cutting
<1>8. mutex' = t /\ \A u \in Threads : mutex # u
  BY AllocatorAssumption DEF Refill
<1>. HIDE DEF q
<1>. QED BY <1>2, <1>3, <1>6, <1>7, <1>8, CallerSteps DEF Refill, TypeInv, TypeOK, rpcVars, segmentVars, chunkVars

\* A refill that finds too little left gives the mutex back.
LEMMA RefillFailsKeeps == ASSUME TypeInv, NEW t \in Threads, RefillFails(t) PROVE TypeInv'
<1>. DEFINE q == IF call[t].retried THEN NoCall ELSE [call[t] EXCEPT !.pc = "offer"]
<1>1. call[t] \in Calls /\ call \in [Threads -> Calls]
  BY DEF TypeInv, TypeOK
<1>2. q \in Calls /\ q.pc \in {"idle", "offer"}
  <2>1. CASE call[t].retried
    BY <2>1, NoCallType DEF NoCall
  <2>2. CASE ~ call[t].retried
    BY <1>1, <2>2 DEF Calls
  <2>. QED BY <2>1, <2>2
<1>3. call' = [call EXCEPT ![t] = q] /\ call'[t] = q
  BY <1>1 DEF RefillFails
<1>4. mutex # t
  BY DEF RefillFails, TypeInv, CallOK, Unlocked, Cutting
<1>5. CutOK(t)'
  BY <1>2, <1>3 DEF CutOK, Cutting
<1>6. CallOK(t)'
  BY <1>2, <1>3, <1>4 DEF CallOK, Unlocked, Cutting, RefillFails
<1>. HIDE DEF q
<1>. QED BY <1>2, <1>3, <1>5, <1>6, CallerSteps DEF RefillFails, TypeInv, TypeOK, rpcVars, segmentVars, chunkVars

\* A thread that fetches a segment asks the memory node whose turn it read ...
LEMMA OfferKeeps == ASSUME TypeInv, NEW t \in Threads, Offer(t) PROVE TypeInv'
<1>. DEFINE q == [call[t] EXCEPT !.pc = "ask", !.node = turn]
<1>1. call[t] \in Calls /\ call \in [Threads -> Calls] /\ turn \in NodeIds
  BY DEF TypeInv, TypeOK
<1>2. q \in Calls /\ q.pc = "ask"
  BY <1>1 DEF Calls
<1>3. call' = [call EXCEPT ![t] = q] /\ call'[t] = q
  BY <1>1 DEF Offer
<1>4. mutex # t
  BY DEF Offer, TypeInv, CallOK, Unlocked, Cutting
<1>5. CutOK(t)' /\ CallOK(t)'
  BY <1>2, <1>3, <1>4 DEF CutOK, CallOK, Unlocked, Cutting, Offer
<1>. HIDE DEF q
<1>. QED
  BY <1>2, <1>3, <1>5, CallerSteps DEF Offer, TypeInv, TypeOK, rpcVars, segmentVars, chunkVars

\* ... and leaves the turn to the next one.
LEMMA AskKeeps == ASSUME TypeInv, NEW t \in Threads, Ask(t) PROVE TypeInv'
<1>. DEFINE q == [call[t] EXCEPT !.pc = "wait"]
            n == call[t].node
<1>1. call[t] \in Calls /\ call \in [Threads -> Calls] /\ n \in NodeIds
  BY DEF TypeInv, TypeOK, Calls
<1>2. q \in Calls /\ q.pc = "wait"
  BY <1>1 DEF Calls
<1>3. call' = [call EXCEPT ![t] = q] /\ call'[t] = q
  BY <1>1 DEF Ask
<1>4. mutex # t
  BY DEF Ask, TypeInv, CallOK, Unlocked, Cutting
<1>5. CutOK(t)' /\ CallOK(t)'
  BY <1>2, <1>3, <1>4 DEF CutOK, CallOK, Unlocked, Cutting, Ask
<1>6. turn' \in NodeIds
  <2>1. MemoryNodes \in Nat \ {0}
    BY PointerAssumption, AllocatorAssumption
  <2>2. \A m \in NodeIds : NextTurn(m) \in NodeIds
    BY <2>1 DEF NextTurn, NodeIds
  <2>. QED BY <1>1, <2>2 DEF Ask
<1>7. wanted' \in [NodeIds -> Nat] /\ done' \in [NodeIds -> BOOLEAN]
  <2>. HIDE DEF n
  <2>1. wanted \in [NodeIds -> Nat] /\ done \in [NodeIds -> BOOLEAN]
    BY DEF TypeInv, TypeOK
  <2>2. wanted' = [wanted EXCEPT ![n] = @ + 1] /\ done' = [done EXCEPT ![n] = FALSE]
    BY DEF Ask, n
  <2>. QED BY <1>1, <2>1, <2>2
<1>. HIDE DEF q, n
<1>. QED
  BY <1>2, <1>3, <1>5, <1>6, <1>7, CallerSteps
  DEF Ask, TypeInv, TypeOK, segmentVars, chunkVars

\* A segment that is granted is one of a memory node.
LEMMA AnswerSteps ==
  ASSUME TypeInv, NEW n \in NodeIds, Answer(n)
  PROVE  /\ UNCHANGED <<turn, tracked, current, offset, twice, mutex, group, call, given, again,
                        requests>>
         /\ \E s \in Segments \cup {Null} :
               /\ granted' = granted \cup ({s} \ {Null})
               /\ answer' = [answer EXCEPT ![n] = s]
         /\ wanted' \in [NodeIds -> Nat] /\ done' \in [NodeIds -> BOOLEAN]
<1>. DEFINE s == IF Free(n) = {} THEN Null ELSE Lowest(n)
<1>1. s \in Segments \cup {Null}
  BY LowestIsFree DEF NodeIds
<1>2. wanted \in [NodeIds -> Nat] /\ done \in [NodeIds -> BOOLEAN]
  BY DEF TypeInv, TypeOK
<1>3. wanted' = [wanted EXCEPT ![n] = @ - 1] /\ wanted[n] > 0
      /\ done' = [done EXCEPT ![n] = TRUE]
  BY DEF Answer
<1>4. wanted' \in [NodeIds -> Nat] /\ done' \in [NodeIds -> BOOLEAN]
  BY <1>2, <1>3
<1>5. granted' = granted \cup ({s} \ {Null}) /\ answer' = [answer EXCEPT ![n] = s]
  BY DEF Answer
<1>. HIDE DEF s
<1>. QED BY <1>1, <1>4, <1>5 DEF Answer, segmentVars, chunkVars

LEMMA AnswerKeeps == ASSUME TypeInv, NEW n \in NodeIds, Answer(n) PROVE TypeInv'
<1>1. PICK s \in Segments \cup {Null} :
         granted' = granted \cup ({s} \ {Null}) /\ answer' = [answer EXCEPT ![n] = s]
  BY AnswerSteps
<1>2. granted' \subseteq Segments /\ answer' \in [NodeIds -> Segments \cup {Null}]
  BY <1>1 DEF TypeInv, TypeOK
<1>3. TypeOK'
  BY <1>2, AnswerSteps DEF TypeInv, TypeOK
<1>4. \A u \in Threads : CutOK(u)' /\ CallOK(u)'
  BY AnswerSteps DEF TypeInv, CutOK, CallOK, Has, Exhausted
<1>5. \A u \in Threads, i \in Positions : MirrorOK(group[u][i])'
  BY AnswerSteps DEF TypeInv, MirrorOK
<1>. QED BY <1>3, <1>4, <1>5 DEF TypeInv

\* What a thread takes out of the response buffer is a segment, or null.
LEMMA TakeKeeps == ASSUME TypeInv, NEW t \in Threads, Take(t) PROVE TypeInv'
<1>. DEFINE s == answer[call[t].node]
            q == IF s = Null THEN [call[t] EXCEPT !.pc = "offer", !.dropped = TRUE]
                 ELSE [call[t] EXCEPT !.pc = "assign",
                                      !.loaded = IF call[t].dropped THEN Null ELSE s]
<1>1. call[t] \in Calls /\ call \in [Threads -> Calls] /\ s \in Segments \cup {Null}
  BY DEF TypeInv, TypeOK, Calls
<1>2. q \in Calls /\ q.pc \in {"offer", "assign"}
  <2>. HIDE DEF s
  <2>. QED BY <1>1 DEF Calls
<1>3. call' = [call EXCEPT ![t] = q] /\ call'[t] = q
  <2>1. call' = [call EXCEPT ![t] = q]
    BY DEF Take
  <2>. HIDE DEF q
  <2>. QED BY <1>1, <2>1
<1>4. mutex # t
  BY DEF Take, TypeInv, CallOK, Unlocked, Cutting
<1>. HIDE DEF q
<1>5. CutOK(t)' /\ CallOK(t)'
  BY <1>2, <1>3, <1>4 DEF CutOK, CallOK, Unlocked, Cutting, Take
<1>. QED
  BY <1>2, <1>3, <1>5, CallerSteps DEF Take, TypeInv, TypeOK, rpcVars, segmentVars, chunkVars

\* The page that is cut lies in its segment, and one less is left to cut.
LEMMA PageReadKeeps == ASSUME TypeInv, NEW t \in Threads, PageRead(t) PROVE TypeInv'
<1>. DEFINE todo == call[t].todo
            first == CHOOSE i \in todo : \A j \in todo : i <= j
            q == [call[t] EXCEPT !.pc = "advance", !.todo = todo \ {first}, !.loaded = current]
            m == Mirror(<<current, offset[current]>>, call[t].init)
<1>1. /\ call \in [Threads -> Calls] /\ call[t] \in Calls /\ call[t].pc = "read"
      /\ CallOK(t) /\ CutOK(t) /\ todo \in SUBSET Positions /\ todo # {}
      /\ group \in [Threads -> [Positions -> Mirrors]]
  BY DEF PageRead, TypeInv, TypeOK, CutOK, Calls
<1>2. first \in todo /\ first \in Positions
  BY <1>1, TodoType
<1>3. /\ Cardinality(todo) \in Nat /\ Cardinality(todo) >= 1 /\ Cardinality(todo) <= GroupSize
      /\ Cardinality(todo \ {first}) = Cardinality(todo) - 1
  BY <1>1, <1>2, TodoType
<1>4. /\ current \in Segments \cup {Null} /\ offset[current] \in 1..PagesOf
      /\ Cardinality(todo) + offset[current] <= PagesOf
  BY <1>1 DEF TypeInv, TypeOK, CutOK, Cutting
<1>5. PagesOf \in Nat \ {0} /\ GroupSize \in Nat \ {0} /\ OffsetLimit \in Nat \ {0}
  BY AllocatorAssumption
<1>6. m.page \in Pages /\ m \in Mirrors /\ m # NoMirror /\ m.next = 0 /\ m.class = call[t].init
  <2>1. offset[current] \in 1..(PagesOf - 1)
    BY <1>3, <1>4, <1>5
  <2>2. m.page = <<current, offset[current]>> /\ m.next = 0 /\ m.class = call[t].init
    BY DEF Mirror
  <2>3. m.page \in Pages
    BY <1>4, <2>1, <2>2 DEF Pages
  <2>4. NoMirror.page = <<Null, 0>> /\ offset[current] # 0
    BY <2>1 DEF NoMirror, Mirror
  <2>5. m \in Mirrors
    BY <1>1, <1>5, <2>3 DEF Mirrors, Mirror, Calls
  <2>. QED BY <2>2, <2>3, <2>4, <2>5
<1>7. q \in Calls /\ q.pc = "advance" /\ q.todo = todo \ {first} /\ q.loaded = current
      /\ q.class = call[t].class /\ q.init = call[t].init
  BY <1>1, <1>4 DEF Calls
<1>8. call' = [call EXCEPT ![t] = q] /\ group' = [group EXCEPT ![t][first] = m]
      /\ UNCHANGED <<rpcVars, segmentVars, mutex, chunkVars, requests>>
      /\ UNCHANGED <<current, offset>>
  BY <1>1 DEF PageRead, segmentVars
<1>. HIDE DEF first, q, m
<1>9. /\ call'[t] = q /\ group'[t] = [group[t] EXCEPT ![first] = m] /\ group'[t][first] = m
      /\ \A u \in Threads \ {t} : call'[u] = call[u] /\ group'[u] = group[u]
  BY <1>1, <1>2, <1>8
<1>10. TypeOK'
  BY <1>1, <1>2, <1>6, <1>7, <1>8 DEF TypeInv, TypeOK, rpcVars, segmentVars, chunkVars
<1>11. CutOK(t)'
  <2>1. \A i \in Positions \ q.todo : group'[t][i] # NoMirror
    BY <1>1, <1>2, <1>6, <1>7, <1>9 DEF CutOK, Cutting
  <2>2. GroupSize < PagesOf /\ call[t].init \in {Nobody, call[t].class} /\ current # Nobody
    BY <1>1 DEF CutOK, Cutting
  <2>3. Cardinality(q.todo) = Cardinality(todo) - 1
    BY <1>3, <1>7
  <2>4. /\ Cardinality(q.todo) < GroupSize
        /\ Cardinality(q.todo) + 1 + offset[current] <= PagesOf
    BY <1>3, <1>4, <1>5, <2>3
  <2>. QED BY <1>7, <1>8, <1>9, <2>1, <2>2, <2>4 DEF CutOK, Cutting
<1>12. CallOK(t)'
  <2>1. call[t].class \in Classes /\ mutex = t /\ call[t].init \in {Nobody, call[t].class}
    BY <1>1 DEF CallOK, CutOK, Unlocked, Cutting
  <2>2. Slots(call[t].class) \in 1..PageSize /\ PageSize \in Nat
    BY <2>1, SlotsType, PointerAssumption
  <2>3. Usable(m, call[t].class)
    BY <1>6, <2>1, <2>2 DEF Usable, Available
  <2>. QED BY <1>2, <1>7, <1>8, <1>9, <2>1, <2>3 DEF CallOK, Unlocked, Cutting
<1>13. \A i \in Positions : MirrorOK(group[t][i])'
  BY <1>1, <1>2, <1>6, <1>9 DEF MirrorOK, TypeInv
<1>. QED BY <1>8, <1>9, <1>10, <1>11, <1>12, <1>13, OthersKeep DEF TypeInv

\* Either segment that the second half of offer_page may move has a page left.
LEMMA PageAdvanceKeeps == ASSUME TypeInv, NEW t \in Threads, PageAdvance(t) PROVE TypeInv'
<1>1. /\ call \in [Threads -> Calls] /\ call[t] \in Calls /\ call[t].pc = "advance"
      /\ CallOK(t) /\ CutOK(t) /\ mutex = t
      /\ Cardinality(call[t].todo) \in Nat
      /\ Cardinality(call[t].todo) + 1 + offset[current] <= PagesOf
      /\ Cardinality(call[t].todo) + 1 + offset[call[t].loaded] <= PagesOf
  BY TodoType DEF PageAdvance, TypeInv, TypeOK, CutOK, CallOK, Unlocked, Cutting, Calls
<1>2. /\ offset \in [Segments \cup {Null} -> 1..PagesOf] /\ PagesOf \in Nat \ {0}
      /\ current \in Segments \cup {Null} /\ call[t].loaded \in Segments \cup {Null}
  BY <1>1, AllocatorAssumption DEF TypeInv, TypeOK, CutOK, Cutting, Calls
<1>3. PICK s \in {current, call[t].loaded} : offset' = [offset EXCEPT ![s] = @ + 1]
  BY DEF PageAdvance
<1>4. /\ offset' \in [Segments \cup {Null} -> 1..PagesOf]
      /\ Cardinality(call[t].todo) + offset'[current] <= PagesOf
  BY <1>1, <1>2, <1>3
<1>5. PICK q \in Calls :
         /\ call' = [call EXCEPT ![t] = q] /\ q.todo = call[t].todo /\ q.class = call[t].class
         /\ q.init = call[t].init /\ q.loaded = Null
         /\ \/ q.pc = "carve" /\ mutex' = Nobody /\ q.todo = {}
            \/ q.pc = "read" /\ mutex' = t /\ q.todo # {}
  <2>1. CASE call[t].todo = {}
    <3>. DEFINE q == [call[t] EXCEPT !.pc = "carve", !.loaded = Null]
    <3>1. q \in Calls /\ q.todo = {} /\ q.class = call[t].class /\ q.init = call[t].init
          /\ q.loaded = Null /\ q.pc = "carve"
      BY <1>1, <2>1 DEF Calls
    <3>2. call' = [call EXCEPT ![t] = q] /\ mutex' = Nobody
      BY <1>1, <2>1 DEF PageAdvance
    <3>. QED BY <2>1, <3>1, <3>2
  <2>2. CASE call[t].todo # {}
    <3>. DEFINE q == [call[t] EXCEPT !.pc = "read", !.loaded = Null]
    <3>1. q \in Calls /\ q.todo = call[t].todo /\ q.class = call[t].class /\ q.init = call[t].init
          /\ q.loaded = Null /\ q.pc = "read"
      BY <1>1 DEF Calls
    <3>2. call' = [call EXCEPT ![t] = q] /\ mutex' = t
      BY <1>1, <2>2 DEF PageAdvance
    <3>. QED BY <2>2, <3>1, <3>2
  <2>. QED BY <2>1, <2>2
<1>6. /\ call'[t] = q /\ \A u \in Threads \ {t} : call'[u] = call[u]
      /\ UNCHANGED <<rpcVars, tracked, current, twice, group, chunkVars, requests>>
  BY <1>1, <1>5 DEF PageAdvance
<1>7. TypeOK'
  BY <1>4, <1>5, <1>6 DEF TypeInv, TypeOK, rpcVars, chunkVars
<1>8. \A u \in Threads \ {t} : CutOK(u)' /\ CallOK(u)'
  <2>1. SUFFICES ASSUME NEW u \in Threads \ {t} PROVE CutOK(u)' /\ CallOK(u)'
    OBVIOUS
  <2>2. mutex # u /\ mutex' # u
    BY <1>1, <1>5, AllocatorAssumption
  <2>3. CallOK(u)'
    BY <1>6, <2>2, OthersKeep
  <2>4. call[u].pc \notin Cutting
    BY <2>2 DEF TypeInv, CallOK
  <2>. QED BY <1>6, <2>3, <2>4 DEF CutOK, Cutting
<1>9. CutOK(t)'
  BY <1>1, <1>4, <1>5, <1>6 DEF CutOK, Cutting
<1>10. CallOK(t)'
  <2>1. q.todo = {} => Has(t)'
    BY <1>1, <1>5, <1>6 DEF CutOK, Cutting, Has
  <2>2. Nobody # t
    BY AllocatorAssumption
  <2>. QED BY <1>1, <1>5, <1>6, <2>1, <2>2 DEF CallOK, Unlocked, Cutting
<1>11. \A u \in Threads, i \in Positions : MirrorOK(group[u][i])'
  BY <1>6 DEF TypeInv, MirrorOK
<1>. QED BY <1>7, <1>8, <1>9, <1>10, <1>11 DEF TypeInv

\* The chunk lies in its page, and the mirror has the class it was carved for.
LEMMA CarveKeeps == ASSUME TypeInv, NEW t \in Threads, Carve(t) PROVE TypeInv'
<1>. DEFINE c == call[t].class
            first == FirstUsable(t)
            m == group[t][first]
            n == [m EXCEPT !.class = c, !.next = (@ + 1) % OffsetLimit]
            x == [page |-> m.page, class |-> c, slot |-> m.next]
<1>1. /\ call \in [Threads -> Calls] /\ call[t].pc = "carve" /\ CallOK(t) /\ c \in Classes
      /\ Has(t) /\ group \in [Threads -> [Positions -> Mirrors]] /\ mutex # t
  BY DEF Carve, TypeInv, TypeOK, CallOK, Unlocked, Cutting
<1>2. first \in Positions /\ Usable(group[t][first], c)
  <2>. DEFINE S == {i \in Positions : Usable(group[t][i], c)}
  <2>1. S \in SUBSET Positions /\ S # {}
    BY <1>1 DEF CallOK
  <2>2. \E i \in S : \A j \in S : i <= j
    BY <2>1, TodoType
  <2>. QED BY <2>2 DEF FirstUsable
<1>3. OffsetLimit \in Nat \ {0} /\ Nobody \notin Classes /\ PageSize \in Nat \ {0}
  BY PointerAssumption, AllocatorAssumption
<1>. HIDE DEF first
<1>4. m \in Mirrors /\ m # NoMirror /\ m.page \in Pages /\ m.next \in Nat
  BY <1>1, <1>2, <1>3 DEF Has, TypeInv, MirrorOK, Mirrors
<1>5. m.next \in 0..PageSize
  <2>1. Slots(c) \in 1..PageSize
    BY <1>1, SlotsType
  <2>2. m.class = Nobody => m.next = 0
    BY <1>1, <1>2 DEF TypeInv, MirrorOK
  <2>3. m.class # Nobody => m.next < Slots(c)
    BY <1>2 DEF Usable, Available
  <2>. QED BY <1>3, <1>4, <2>1, <2>2, <2>3
<1>6. x \in Chunks
  BY <1>1, <1>4, <1>5 DEF Chunks
<1>7. n \in Mirrors /\ n.page = m.page /\ n.class = c
  <2>1. (m.next + 1) % OffsetLimit \in 0..(OffsetLimit - 1)
    BY <1>3, <1>4
  <2>2. m \in [page : Pages \cup {<<Null, 0>>}, class : Classes \cup {Nobody},
                next : 0..(OffsetLimit - 1)]
    BY <1>4 DEF Mirrors
  <2>. QED BY <1>1, <2>1, <2>2 DEF Mirrors
<1>8. /\ call' = [call EXCEPT ![t] = NoCall] /\ group' = [group EXCEPT ![t][first] = n]
      /\ given' = given \cup {x} /\ again' = again \cup ({x} \cap given)
      /\ UNCHANGED <<rpcVars, segmentVars, mutex, requests>> /\ UNCHANGED <<current, offset>>
  BY DEF Carve, Return, first, segmentVars
<1>9. NoCall \in Calls
  BY NoCallType
<1>. HIDE DEF m, n, x
<1>10. /\ call'[t] = NoCall /\ group'[t] = [group[t] EXCEPT ![first] = n]
       /\ \A u \in Threads \ {t} : call'[u] = call[u] /\ group'[u] = group[u]
  BY <1>1, <1>8
<1>11. TypeOK'
  BY <1>1, <1>2, <1>6, <1>7, <1>8, <1>9 DEF TypeInv, TypeOK, rpcVars, segmentVars
<1>12. CutOK(t)' /\ CallOK(t)'
  BY <1>1, <1>8, <1>10 DEF CutOK, CallOK, Unlocked, Cutting, NoCall
<1>13. \A i \in Positions : MirrorOK(group[t][i])'
  <2>1. MirrorOK(n)
    BY <1>1, <1>3, <1>4, <1>7 DEF MirrorOK
  <2>2. \A i \in Positions : MirrorOK(group[t][i])
    BY DEF TypeInv
  <2>3. \A i \in Positions : group'[t][i] = n \/ group'[t][i] = group[t][i]
    BY <1>1, <1>2, <1>10
  <2>. QED BY <2>1, <2>2, <2>3 DEF MirrorOK
<1>. QED BY <1>8, <1>10, <1>11, <1>12, <1>13, OthersKeep DEF TypeInv

\* A new current segment has a whole group for the thread that is cutting.
LEMMA AssignKeeps == ASSUME TypeInv, NEW t \in Threads, Assign(t) PROVE TypeInv'
<1>. DEFINE new == call[t].loaded
            c == call[t].class
            q == IF c = Nobody THEN NoCall
                 ELSE [call[t] EXCEPT !.pc = Status(t, c), !.loaded = Null, !.node = 0,
                                      !.dropped = FALSE, !.retried = TRUE]
<1>1. /\ call \in [Threads -> Calls] /\ call[t] \in Calls /\ call[t].pc = "assign"
      /\ new \in Segments \cup {Null} /\ mutex # t
      /\ offset \in [Segments \cup {Null} -> 1..PagesOf]
  BY DEF Assign, TypeInv, TypeOK, CallOK, Unlocked, Cutting, Calls
<1>2. /\ PagesOf \in Nat \ {0} /\ GroupSize \in Nat \ {0} /\ Nobody \notin Segments \cup {Null}
      /\ MemoryNodes \in Nat
  BY PointerAssumption, AllocatorAssumption, NobodyAssumption
<1>3. /\ q \in Calls /\ q.pc \in {"idle", "refill", "carve", "refillPage"}
      /\ q.pc # "idle" => c \in Classes /\ q.class = c /\ q.pc = Status(t, c)
  <2>1. CASE c = Nobody
    BY <2>1, NoCallType DEF NoCall
  <2>2. CASE c # Nobody
    <3>1. 0 \in NodeIds
      BY NoCallType DEF NoCall, Calls
    <3>. QED BY <1>1, <2>2, <3>1, StatusOK DEF Calls
  <2>. QED BY <2>1, <2>2
<1>4. PICK s \in Segments \cup {Null} :
      /\ call' = [call EXCEPT ![t] = q] /\ current' = s /\ offset' = [offset EXCEPT ![s] = 1]
      /\ tracked' = tracked \cup {new} /\ twice' = twice \cup ({new} \cap tracked)
      /\ UNCHANGED <<rpcVars, mutex, group, chunkVars, requests>>
  BY <1>1 DEF Assign
<1>. HIDE DEF q
<1>5. call'[t] = q /\ \A u \in Threads \ {t} : call'[u] = call[u]
  BY <1>1, <1>4
<1>6. offset' \in [Segments \cup {Null} -> 1..PagesOf] /\ offset'[current'] = 1
      /\ \A r \in Segments \cup {Null} : offset'[r] \in {1, offset[r]}
  BY <1>1, <1>2, <1>4
<1>7. TypeOK'
  BY <1>1, <1>3, <1>4, <1>6 DEF TypeInv, TypeOK, rpcVars, chunkVars
<1>8. CutOK(t)'
  BY <1>3, <1>5, StatusOK DEF CutOK, Cutting
<1>9. CallOK(t)'
  <2>1. PICK d : d = c
    OBVIOUS
  <2>2. q.pc # "idle" => d \in Classes /\ q.class = d /\ q.pc = Status(t, d)
    BY <1>3, <2>1
  <2>3. Has(t)' = Has(t) /\ Exhausted(t, d)' = Exhausted(t, d)
    BY <1>4 DEF Has, Exhausted
  <2>. QED BY <1>1, <1>3, <1>4, <1>5, <2>2, <2>3, StatusOK DEF CallOK, Unlocked, Cutting
<1>10. \A u \in Threads \ {t} : CutOK(u)' /\ CallOK(u)'
  <2>1. SUFFICES ASSUME NEW u \in Threads \ {t} PROVE CutOK(u)' /\ CallOK(u)'
    OBVIOUS
  <2>2. CallOK(u)'
    BY <1>4, <1>5, OthersKeep
  <2>3. CutOK(u) /\ call[u] \in Calls
    BY <1>1 DEF TypeInv
  <2>4. Cardinality(call[u].todo) \in Nat /\ Cardinality(call[u].todo) <= GroupSize
        /\ call[u].loaded \in Segments \cup {Null}
    BY <2>3, TodoType DEF Calls
  <2>5. current' # Nobody
    BY <1>1, <1>2, <1>4
  <2>6. call[u].pc = "read" => Cardinality(call[u].todo) + offset'[current'] <= PagesOf
    BY <1>2, <1>6, <2>3, <2>4 DEF CutOK, Cutting
  <2>7. call[u].pc = "advance" =>
           /\ Cardinality(call[u].todo) + 1 + offset'[current'] <= PagesOf
           /\ Cardinality(call[u].todo) + 1 + offset'[call[u].loaded] <= PagesOf
    BY <1>2, <1>6, <2>3, <2>4 DEF CutOK, Cutting
  <2>. QED BY <1>4, <1>5, <2>2, <2>3, <2>5, <2>6, <2>7 DEF CutOK, Cutting
<1>11. \A u \in Threads, i \in Positions : MirrorOK(group[u][i])'
  BY <1>4 DEF TypeInv, MirrorOK
<1>. QED BY <1>7, <1>8, <1>9, <1>10, <1>11 DEF TypeInv

\* No action takes a variable out of its type.
LEMMA TypeStep == TypeInv /\ [Next]_vars => TypeInv'
<1>. SUFFICES ASSUME TypeInv, [Next]_vars PROVE TypeInv'
  OBVIOUS
<1>1. CASE Next
  BY <1>1, AllocateKeeps, PreallocateKeeps, RefillKeeps, RefillFailsKeeps, PageReadKeeps,
     PageAdvanceKeeps, CarveKeeps, OfferKeeps, AskKeeps, AnswerKeeps, TakeKeeps, AssignKeeps
  DEF Next
<1>2. CASE UNCHANGED vars
  BY <1>2 DEF vars, rpcVars, segmentVars, chunkVars, TypeInv, TypeOK, CutOK, CallOK, MirrorOK, Has, Exhausted
<1>. QED BY <1>1, <1>2

\* Every variable keeps its type: no page is cut off behind the end of a segment,
\* whatever segment becomes current while a thread cuts its group.
THEOREM TypeCorrect == Spec => []TypeOK
<1>1. Spec => []TypeInv
  BY TypeInit, TypeStep, PTL DEF Spec
<1>2. TypeInv => TypeOK
  BY DEF TypeInv
<1>. QED BY <1>1, <1>2, PTL

-----------------------------------------------------------------------------
(***************************************************************************)
(* Segments.  What a thread takes for a segment, a memory node has granted;*)
(* what is current, a thread has assigned.  Several threads may have taken *)
(* the same segment: the second one to assign it finds it tracked.         *)
(***************************************************************************)
SegmentsInv ==
    /\ current \in tracked \cup {Null, Nobody}
    /\ tracked \subseteq granted \cup {Null}
    /\ \A n \in NodeIds : answer[n] \in granted \cup {Null}
    /\ \A t \in Threads : call[t].loaded \in granted \cup {Null}

\* Pages are cut one at a time: under the mutex.
LEMMA OneCuts ==
  ASSUME TypeInv, NEW t \in Threads, call[t].pc \in Cutting,
         NEW u \in Threads, call[u].pc \in Cutting
  PROVE  u = t
BY DEF TypeInv, CallOK

\* A step that neither grants a segment, makes one current, nor cuts a page.
Quiet(t) ==
    \/ Allocate(t) \/ Preallocate(t) \/ Refill(t) \/ RefillFails(t) \/ Carve(t)
    \/ Offer(t) \/ Ask(t) \/ Take(t)

\* They leave the segments and everybody's pages alone.
LEMMA QuietSteps ==
  ASSUME TypeInv, NEW t \in Threads, Quiet(t)
  PROVE  /\ UNCHANGED <<granted, answer, segmentVars>>
         /\ UNCHANGED <<tracked, current, offset, twice>>
         /\ \A u \in Threads, i \in Positions : group'[u][i].page = group[u][i].page
         /\ \A u \in Threads \ {t} : call'[u] = call[u]
         /\ call[t].pc # "advance"
         /\ \E n \in NodeIds : call'[t].loaded \in {call[t].loaded, answer[n], Null}
<1>0. UNCHANGED <<granted, answer, segmentVars>> => UNCHANGED <<tracked, current, offset, twice>>
  BY DEF segmentVars
<1>n. call[t].node \in NodeIds
  BY DEF TypeInv, TypeOK, Calls
<1>1. call \in [Threads -> Calls] /\ call[t] \in Calls
      /\ group \in [Threads -> [Positions -> Mirrors]]
  BY DEF TypeInv, TypeOK
<1>2. CASE Allocate(t)
  BY <1>0, <1>n, <1>1, <1>2 DEF Allocate, Calls, rpcVars
<1>3. CASE Preallocate(t)
  BY <1>0, <1>n, <1>1, <1>3 DEF Preallocate, Calls, rpcVars
<1>4. CASE Refill(t)
  BY <1>0, <1>n, <1>1, <1>4 DEF Refill, Refilling, Calls, rpcVars
<1>5. CASE RefillFails(t)
  BY <1>0, <1>n, <1>1, <1>5 DEF RefillFails, Calls, NoCall, rpcVars
<1>6. CASE Carve(t)
  <2>. DEFINE i == FirstUsable(t)
              m == [group[t][i] EXCEPT !.class = call[t].class, !.next = (@ + 1) % OffsetLimit]
  <2>1. /\ UNCHANGED <<granted, answer, segmentVars>> /\ call' = [call EXCEPT ![t] = NoCall]
        /\ call[t].pc = "carve" /\ group' = [group EXCEPT ![t][i] = m]
    BY <1>6 DEF Carve, rpcVars
  <2>2. i \in Positions => m.page = group[t][i].page
    BY <1>1 DEF Mirrors
  <2>. HIDE DEF i, m
  <2>3. ASSUME NEW u \in Threads, NEW j \in Positions
        PROVE  group'[u][j].page = group[u][j].page
    BY <1>1, <2>1, <2>2
  <2>. QED BY <1>0, <1>n, <1>1, <2>1, <2>3 DEF NoCall
<1>7. CASE Offer(t)
  BY <1>0, <1>n, <1>1, <1>7 DEF Offer, Calls, rpcVars
<1>8. CASE Ask(t)
  BY <1>0, <1>n, <1>1, <1>8 DEF Ask, Calls
<1>9. CASE Take(t)
  BY <1>0, <1>n, <1>1, <1>9 DEF Take, Calls, rpcVars
<1>. QED BY <1>2, <1>3, <1>4, <1>5, <1>6, <1>7, <1>8, <1>9 DEF Quiet

\* A segment becomes the current one; if it was tracked before, it joins those that
\* were assigned twice.
LEMMA AssignSteps ==
  ASSUME TypeInv, NEW t \in Threads, Assign(t)
  PROVE  /\ UNCHANGED <<granted, answer, group>>
         /\ call[t].pc = "assign" /\ call'[t].loaded = Null
         /\ \A u \in Threads \ {t} : call'[u] = call[u]
         /\ tracked' = tracked \cup {call[t].loaded} /\ twice \subseteq twice'
         /\ call[t].loaded \in tracked => call[t].loaded \in twice'
         /\ current' \in {call[t].loaded, Null}
<1>1. call \in [Threads -> Calls] /\ call[t] \in Calls
  BY DEF TypeInv, TypeOK
<1>2. call'[t].loaded = Null
  BY <1>1 DEF Assign, Calls, NoCall
<1>3. \A u \in Threads \ {t} : call'[u] = call[u]
  BY <1>1 DEF Assign
<1>4. /\ tracked' = tracked \cup {call[t].loaded} /\ twice \subseteq twice'
      /\ call[t].loaded \in tracked => call[t].loaded \in twice'
      /\ current' \in {call[t].loaded, Null}
  BY DEF Assign
<1>. QED BY <1>2, <1>3, <1>4 DEF Assign, rpcVars

\* The first half of offer_page: thread t gets the page at the offset.
LEMMA PageReadSteps ==
  ASSUME TypeInv, NEW t \in Threads, PageRead(t)
  PROVE  /\ UNCHANGED <<granted, answer, tracked, current, offset, twice>>
         /\ current \in Segments \cup {Null} /\ offset[current] \in Nat
         /\ \A u \in Threads : call[u].pc # "advance"
         /\ call'[t].pc = "advance" /\ call'[t].loaded = current
         /\ \A u \in Threads \ {t} : call'[u] = call[u]
         /\ \E i \in Positions :
               /\ group'[t][i].page = <<current, offset[current]>>
               /\ \A u \in Threads, j \in Positions : u # t \/ j # i => group'[u][j] = group[u][j]
<1>. DEFINE i == CHOOSE i \in call[t].todo : \A j \in call[t].todo : i <= j
            m == Mirror(<<current, offset[current]>>, call[t].init)
<1>1. /\ call \in [Threads -> Calls] /\ call[t] \in Calls /\ call[t].pc = "read"
      /\ group \in [Threads -> [Positions -> Mirrors]] /\ CutOK(t)
      /\ UNCHANGED <<granted, answer, tracked, current, offset, twice>>
  BY DEF PageRead, TypeInv, TypeOK, rpcVars, segmentVars
<1>2. i \in Positions
  <2>1. call[t].todo \in SUBSET Positions /\ call[t].todo # {}
    BY <1>1 DEF CutOK, Calls
  <2>. QED BY <2>1, TodoType
<1>3. current \in Segments \cup {Null}
  BY <1>1 DEF TypeInv, TypeOK, CutOK, Cutting
<1>4. offset[current] \in Nat
  BY <1>3, AllocatorAssumption DEF TypeInv, TypeOK
<1>5. \A u \in Threads : call[u].pc # "advance"
  BY <1>1, OneCuts DEF Cutting
<1>6. call'[t].pc = "advance" /\ call'[t].loaded = current
      /\ \A u \in Threads \ {t} : call'[u] = call[u]
  BY <1>1 DEF PageRead, Calls
<1>7. m.page = <<current, offset[current]>> /\ group' = [group EXCEPT ![t][i] = m]
  BY DEF PageRead, Mirror
<1>. HIDE DEF i, m
<1>8. group'[t][i] = m
      /\ \A u \in Threads, j \in Positions : u # t \/ j # i => group'[u][j] = group[u][j]
  BY <1>1, <1>2, <1>7
<1>. QED BY <1>1, <1>2, <1>3, <1>4, <1>5, <1>6, <1>7, <1>8

\* The second half: the offset of the current segment or of the one read moves on.
LEMMA PageAdvanceSteps ==
  ASSUME TypeInv, NEW t \in Threads, PageAdvance(t)
  PROVE  /\ UNCHANGED <<granted, answer, tracked, current, twice, group>>
         /\ current \in Segments \cup {Null} /\ offset[current] \in Nat
         /\ offset'[current] \in {offset[current], offset[current] + 1}
         /\ call[t].loaded = current => offset'[current] = offset[current] + 1
         /\ \A u \in Threads \ {t} : call'[u] = call[u] /\ call[u].pc # "advance"
         /\ call'[t].pc \in {"carve", "read"} /\ call'[t].loaded = Null
<1>1. /\ call \in [Threads -> Calls] /\ call[t] \in Calls /\ call[t].pc = "advance"
      /\ offset \in [Segments \cup {Null} -> 1..PagesOf] /\ PagesOf \in Nat
      /\ current \in Segments \cup {Null}
      /\ UNCHANGED <<granted, answer, tracked, current, twice, group>>
  BY AllocatorAssumption DEF PageAdvance, TypeInv, TypeOK, CutOK, Cutting, rpcVars
<1>2. PICK s \in {current, call[t].loaded} : offset' = [offset EXCEPT ![s] = @ + 1]
  BY DEF PageAdvance
<1>3. /\ offset[current] \in Nat /\ offset'[current] \in {offset[current], offset[current] + 1}
      /\ call[t].loaded = current => offset'[current] = offset[current] + 1
  BY <1>1, <1>2
<1>4. \A u \in Threads \ {t} : call[u].pc # "advance"
  BY <1>1, OneCuts DEF Cutting
<1>5. call'[t].pc \in {"carve", "read"} /\ call'[t].loaded = Null
      /\ \A u \in Threads \ {t} : call'[u] = call[u]
  BY <1>1 DEF PageAdvance, Calls
<1>. QED BY <1>1, <1>3, <1>4, <1>5

\* Every step is one of these.
LEMMA NextSteps ==
  ASSUME [Next]_vars
  PROVE  \/ \E t \in Threads : Quiet(t) \/ PageRead(t) \/ PageAdvance(t) \/ Assign(t)
         \/ \E n \in NodeIds : Answer(n)
         \/ UNCHANGED vars
BY Zenon DEF Next, Quiet

\* No thread takes for a segment what has not been granted.
LEMMA SegmentsStep == TypeInv /\ SegmentsInv /\ [Next]_vars => SegmentsInv'
<1>. SUFFICES ASSUME TypeInv, SegmentsInv, [Next]_vars PROVE SegmentsInv'
  OBVIOUS
<1>1. ASSUME NEW t \in Threads, Quiet(t) PROVE SegmentsInv'
  BY <1>1, QuietSteps DEF SegmentsInv
<1>2. ASSUME NEW t \in Threads, PageRead(t) PROVE SegmentsInv'
  BY <1>2, PageReadSteps, NobodyAssumption DEF SegmentsInv
<1>3. ASSUME NEW t \in Threads, PageAdvance(t) PROVE SegmentsInv'
  BY <1>3, PageAdvanceSteps DEF SegmentsInv
<1>4. ASSUME NEW t \in Threads, Assign(t) PROVE SegmentsInv'
  BY <1>4, AssignSteps DEF SegmentsInv
<1>5. ASSUME NEW n \in NodeIds, Answer(n) PROVE SegmentsInv'
  <2>1. PICK s \in Segments \cup {Null} :
           granted' = granted \cup ({s} \ {Null}) /\ answer' = [answer EXCEPT ![n] = s]
    BY <1>5, AnswerSteps
  <2>2. UNCHANGED <<tracked, current, call>> /\ answer \in [NodeIds -> Segments \cup {Null}]
    BY <1>5, AnswerSteps DEF TypeInv, TypeOK
  <2>3. \A m \in NodeIds : answer'[m] \in {s, answer[m]}
    BY <2>1, <2>2
  <2>. QED BY <2>1, <2>2, <2>3 DEF SegmentsInv
<1>6. CASE UNCHANGED vars
  BY <1>6 DEF vars, rpcVars, segmentVars, SegmentsInv
<1>. QED BY <1>1, <1>2, <1>3, <1>4, <1>5, <1>6, NextSteps

-----------------------------------------------------------------------------
(***************************************************************************)
(* Pages.  A page that has been cut lies before the offset of its segment, *)
(* or is the one being cut.  What keeps this true when a segment becomes   *)
(* current, its offset set back to the first page, is that the segment is  *)
(* then tracked for the first time, so no page has been cut from it.       *)
(***************************************************************************)
Cut(p) ==
    /\ p[1] \in tracked \cup {Null}
    /\ p[1] \notin Unsafe /\ p[1] = current =>
          \/ p[2] < offset[current]
          \/ /\ p[2] = offset[current]
             /\ \E t \in Threads : call[t].pc = "advance" /\ call[t].loaded = current

\* A page that has been cut stays cut.
LEMMA CutStays ==
  ASSUME TypeInv, [Next]_vars, NEW p, p[2] \in Nat, Cut(p)
  PROVE  Cut(p)'
<1>1. ASSUME NEW t \in Threads, Quiet(t) PROVE Cut(p)'
  BY <1>1, QuietSteps DEF Cut, Unsafe
<1>2. ASSUME NEW t \in Threads, PageRead(t) PROVE Cut(p)'
  BY <1>2, PageReadSteps DEF Cut, Unsafe
<1>3. ASSUME NEW t \in Threads, PageAdvance(t) PROVE Cut(p)'
  <2>1. p[1] \notin Unsafe /\ p[1] = current => p[2] < offset'[current]
    <3>1. SUFFICES ASSUME p[1] = current, p[1] \notin Unsafe PROVE p[2] < offset'[current]
      OBVIOUS
    <3>2. CASE p[2] < offset[current]
      BY <1>3, <3>2, PageAdvanceSteps
    <3>3. CASE ~ (p[2] < offset[current])
      BY <1>3, <3>1, <3>3, PageAdvanceSteps DEF Cut
    <3>. QED BY <3>2, <3>3
  <2>. QED BY <1>3, <2>1, PageAdvanceSteps DEF Cut, Unsafe
<1>4. ASSUME NEW t \in Threads, Assign(t) PROVE Cut(p)'
  BY <1>4, AssignSteps DEF Cut, Unsafe
<1>5. ASSUME NEW n \in NodeIds, Answer(n) PROVE Cut(p)'
  BY <1>5, AnswerSteps DEF Cut, Unsafe
<1>6. CASE UNCHANGED vars
  BY <1>6 DEF vars, segmentVars, Cut, Unsafe
<1>. QED BY <1>1, <1>2, <1>3, <1>4, <1>5, <1>6, NextSteps

\* The page that a thread gets is one that has not been cut.
LEMMA CutIsNew ==
  ASSUME TypeInv, NEW t \in Threads, PageRead(t), current \notin Unsafe, NEW p, Cut(p)
  PROVE  p # <<current, offset[current]>>
BY PageReadSteps DEF Cut

PrivateInv ==
    /\ SegmentsInv
    /\ \A t \in Threads, i \in Positions : Cut(group[t][i].page)
    /\ PagesPrivate

\* At first no thread has a page.
LEMMA PrivateInit == Init => PrivateInv
<1>. SUFFICES ASSUME Init PROVE PrivateInv
  OBVIOUS
<1>1. \A t \in Threads, i \in Positions : group[t][i].page[1] = Null
  BY DEF Init, NoMirror, Mirror
<1>2. \A t \in Threads : call[t].pc = "idle" /\ call[t].loaded = Null
  BY DEF Init, NoCall
<1>3. current = Nobody /\ tracked = {} /\ \A n \in NodeIds : answer[n] = Null
  BY DEF Init
<1>. QED BY <1>1, <1>2, <1>3 DEF PrivateInv, SegmentsInv, Cut, PagesPrivate, Unsafe

\* The pages of a group are the ones it had, or in PageRead a new one.
LEMMA GroupPages ==
  ASSUME TypeInv, NEW t \in Threads,
         Quiet(t) \/ PageAdvance(t) \/ Assign(t)
  PROVE  \A u \in Threads, i \in Positions : group'[u][i].page = group[u][i].page
BY QuietSteps, PageAdvanceSteps, AssignSteps

\* What was assigned twice stays unsafe.
LEMMA TwiceStays == ASSUME TypeInv, [Next]_vars PROVE Unsafe \subseteq Unsafe'
<1>1. ASSUME NEW t \in Threads, Quiet(t) \/ PageRead(t) \/ PageAdvance(t) \/ Assign(t)
      PROVE  Unsafe \subseteq Unsafe'
  BY <1>1, QuietSteps, PageReadSteps, PageAdvanceSteps, AssignSteps DEF Unsafe
<1>2. ASSUME NEW n \in NodeIds, Answer(n) PROVE Unsafe \subseteq Unsafe'
  BY <1>2, AnswerSteps DEF Unsafe
<1>3. CASE UNCHANGED vars
  BY <1>3 DEF vars, segmentVars, Unsafe
<1>. QED BY <1>1, <1>2, <1>3, NextSteps

\* No action gives a page that has been cut to a second place.
LEMMA PrivateStep == TypeInv /\ PrivateInv /\ [Next]_vars => PrivateInv'
<1>. SUFFICES ASSUME TypeInv, PrivateInv, [Next]_vars PROVE PrivateInv'
  OBVIOUS
<1>1. SegmentsInv'
  BY SegmentsStep DEF PrivateInv
<1>2. ASSUME NEW u \in Threads, NEW i \in Positions
      PROVE  /\ Cut(group[u][i].page)
             /\ \A p : p = group[u][i].page => Cut(p)'
  <2>1. group[u][i].page[2] \in Nat
    <3>1. group[u][i] \in Mirrors
      BY DEF TypeInv, TypeOK
    <3>. QED BY <3>1, AllocatorAssumption DEF Mirrors, Pages
  <2>2. Cut(group[u][i].page)
    BY DEF PrivateInv
  <2>. QED BY <2>1, <2>2, CutStays
<1>3. CASE \A u \in Threads, i \in Positions : group'[u][i].page = group[u][i].page
  <2>1. ASSUME NEW u \in Threads, NEW i \in Positions PROVE Cut(group[u][i].page)'
    <3>1. PICK p : p = group[u][i].page
      OBVIOUS
    <3>2. Cut(p)' /\ group'[u][i].page = p
      BY <1>2, <1>3, <3>1
    <3>. QED BY <3>2 DEF Cut
  <2>2. PagesPrivate'
    BY <1>3, TwiceStays DEF PrivateInv, PagesPrivate
  <2>. QED BY <1>1, <2>1, <2>2 DEF PrivateInv
<1>4. ASSUME NEW t \in Threads, PageRead(t) PROVE PrivateInv'
  <2>. DEFINE new == <<current, offset[current]>>
  <2>1. PICK i \in Positions :
           /\ group'[t][i].page = new
           /\ \A u \in Threads, j \in Positions : u # t \/ j # i => group'[u][j] = group[u][j]
    BY <1>4, PageReadSteps
  <2>2. ASSUME NEW u \in Threads, NEW j \in Positions PROVE Cut(group[u][j].page)'
    <3>1. CASE u = t /\ j = i
      <4>1. /\ current' = current /\ tracked' = tracked /\ offset' = offset
            /\ current \in tracked \cup {Null}
            /\ call'[t].pc = "advance" /\ call'[t].loaded = current
        BY <1>4, PageReadSteps, NobodyAssumption DEF PrivateInv, SegmentsInv
      <4>. QED BY <2>1, <3>1, <4>1 DEF Cut
    <3>2. CASE u # t \/ j # i
      <4>1. PICK p : p = group[u][j].page
        OBVIOUS
      <4>2. Cut(p)' /\ group'[u][j].page = p
        BY <1>2, <2>1, <3>2, <4>1
      <4>. QED BY <4>2 DEF Cut
    <3>. QED BY <3>1, <3>2
  <2>3. ASSUME current \notin Unsafe, NEW u \in Threads, NEW j \in Positions
        PROVE  group[u][j].page # new
    BY <1>2, <1>4, <2>3, CutIsNew
  <2>4. PagesPrivate'
    BY <2>1, <2>3, TwiceStays DEF PagesPrivate, PrivateInv
  <2>. QED BY <1>1, <2>2, <2>4 DEF PrivateInv
<1>5. CASE UNCHANGED vars
  BY <1>3, <1>5 DEF vars
<1>6. ASSUME NEW n \in NodeIds, Answer(n) PROVE PrivateInv'
  BY <1>3, <1>6, AnswerSteps
<1>. QED BY <1>3, <1>4, <1>5, <1>6, NextSteps, GroupPages

\* No page of a segment is handed out twice, although segments may become the current
\* one between the two halves of offer_page of another thread; except of a segment
\* that threads have assigned twice, having both found it in the response buffer.
THEOREM PagesStayPrivate == Spec => []PagesPrivate
<1>1. Init => TypeInv /\ PrivateInv
  BY TypeInit, PrivateInit
<1>2. TypeInv /\ PrivateInv /\ [Next]_vars => (TypeInv /\ PrivateInv)'
  BY TypeStep, PrivateStep
<1>3. TypeInv /\ PrivateInv => PagesPrivate
  BY DEF PrivateInv
<1>. QED BY <1>1, <1>2, <1>3, PTL DEF Spec

-----------------------------------------------------------------------------
(***************************************************************************)
(* Chunks.  A page that threads have carved chunks from has been cut, and  *)
(* while it is in a group its offset is behind them: the next chunk is new.*)
(* This needs an offset that does not wrap before the page is full.        *)
(***************************************************************************)
ChunkOK(x) ==
    /\ x.class \in Classes /\ x.slot < Slots(x.class)
    /\ Cut(x.page)
    /\ x.page[1] \notin Unsafe =>
        /\ \A t \in Threads, i \in Positions :
              group[t][i].page = x.page =>
                 group[t][i].class = x.class /\ x.slot < group[t][i].next
        /\ \A y \in given : y.page = x.page => y.class = x.class

ChunkInv ==
    /\ \A x \in given : ChunkOK(x)
    /\ \A x \in given : x.page[1] \notin Unsafe => x \notin again

\* At first no chunk has been returned.
LEMMA ChunkInit == Init => ChunkInv
BY DEF Init, ChunkInv

\* The chunk that allocate carves, and the page it is carved from.
LEMMA CarveSteps ==
  ASSUME TypeInv, NEW t \in Threads, Carve(t), OffsetCounts
  PROVE  \E i \in Positions :
            LET m == group[t][i]
                x == [page |-> m.page, class |-> call[t].class, slot |-> m.next]
            IN  /\ call[t].class \in Classes /\ m.next < Slots(call[t].class)
                /\ m.class \in {call[t].class, Nobody} /\ m.next \in Nat
                /\ given' = given \cup {x} /\ again' = again \cup ({x} \cap given)
                /\ group'[t][i].page = m.page /\ group'[t][i].class = call[t].class
                /\ group'[t][i].next = m.next + 1
                /\ \A u \in Threads, j \in Positions : u # t \/ j # i => group'[u][j] = group[u][j]
<1>. DEFINE c == call[t].class
            i == FirstUsable(t)
            m == group[t][i]
            n == [m EXCEPT !.class = c, !.next = (@ + 1) % OffsetLimit]
<1>1. /\ c \in Classes /\ group \in [Threads -> [Positions -> Mirrors]]
  BY DEF Carve, TypeInv, TypeOK, CallOK, Unlocked, Cutting
<1>2. i \in Positions /\ Usable(group[t][i], c)
  <2>. DEFINE S == {j \in Positions : Usable(group[t][j], c)}
  <2>1. S \in SUBSET Positions /\ S # {}
    BY DEF Carve, TypeInv, CallOK
  <2>2. \E j \in S : \A k \in S : j <= k
    BY <2>1, TodoType
  <2>. QED BY <2>2 DEF FirstUsable
<1>3. /\ Slots(c) \in Nat \ {0} /\ Slots(c) < OffsetLimit /\ OffsetLimit \in Nat
      /\ m.next \in Nat
  <2>1. Slots(c) \in 1..PageSize /\ Slots(c) < OffsetLimit
    BY <1>1, SlotsType DEF OffsetCounts
  <2>2. PageSize \in Nat /\ OffsetLimit \in Nat
    BY PointerAssumption, AllocatorAssumption
  <2>3. m \in Mirrors
    BY <1>1, <1>2
  <2>. QED BY <2>1, <2>2, <2>3 DEF Mirrors
<1>4. m.class \in {c, Nobody} /\ m.next < Slots(c)
  <2>1. m.class = Nobody => m.next = 0
    BY <1>2 DEF TypeInv, MirrorOK
  <2>. QED BY <1>2, <1>3, <2>1 DEF Usable, Available
<1>5. n.page = m.page /\ n.class = c /\ n.next = m.next + 1
  <2>1. (m.next + 1) % OffsetLimit = m.next + 1
    BY <1>3, <1>4
  <2>2. m \in Mirrors
    BY <1>1, <1>2
  <2>. QED BY <2>1, <2>2 DEF Mirrors
<1>6. /\ group' = [group EXCEPT ![t][i] = n]
      /\ given' = given \cup {[page |-> m.page, class |-> c, slot |-> m.next]}
      /\ again' = again \cup ({[page |-> m.page, class |-> c, slot |-> m.next]} \cap given)
  BY DEF Carve, Return
<1>. HIDE DEF i, n
<1>7. group'[t][i] = n
      /\ \A u \in Threads, j \in Positions : u # t \/ j # i => group'[u][j] = group[u][j]
  BY <1>1, <1>2, <1>6
<1>. QED BY <1>1, <1>2, <1>3, <1>4, <1>5, <1>6, <1>7

\* No action returns a chunk twice, or leaves one ahead of its page's offset.
LEMMA ChunkStep ==
  OffsetCounts /\ TypeInv /\ PrivateInv /\ ChunkInv /\ [Next]_vars => ChunkInv'
<1>. SUFFICES ASSUME OffsetCounts, TypeInv, PrivateInv, ChunkInv, [Next]_vars PROVE ChunkInv'
  OBVIOUS
<1>1. ASSUME NEW x \in given PROVE Cut(x.page)'
  <2>1. PICK p : p = x.page
    OBVIOUS
  <2>2. p[2] \in Nat
    BY <2>1, AllocatorAssumption DEF TypeInv, TypeOK, Chunks, Pages
  <2>3. Cut(p)'
    BY <2>1, <2>2, CutStays DEF ChunkInv, ChunkOK
  <2>. QED BY <2>1, <2>3 DEF Cut
\* The chunks and the groups stay.
<1>2. CASE UNCHANGED <<given, again, group>>
  BY <1>1, <1>2, TwiceStays DEF ChunkInv, ChunkOK
\* A page joins a group: no chunk has been carved from it.
<1>3. ASSUME NEW t \in Threads, PageRead(t) PROVE ChunkInv'
  <2>. DEFINE new == <<current, offset[current]>>
  <2>1. PICK i \in Positions :
           /\ group'[t][i].page = new
           /\ \A u \in Threads, j \in Positions : u # t \/ j # i => group'[u][j] = group[u][j]
    BY <1>3, PageReadSteps
  <2>2. ASSUME current \notin Unsafe, NEW x \in given PROVE x.page # new
    BY <1>3, <2>2, CutIsNew DEF ChunkInv, ChunkOK
  <2>3. UNCHANGED <<given, again>>
    BY <1>3 DEF PageRead, chunkVars
  <2>4. ASSUME NEW x \in given PROVE ChunkOK(x)'
    BY <1>1, <2>1, <2>2, <2>3, TwiceStays DEF ChunkInv, ChunkOK
  <2>. QED BY <2>3, <2>4, TwiceStays DEF ChunkInv
<1>4. ASSUME NEW t \in Threads, Carve(t) PROVE ChunkInv'
  <2>. DEFINE c == call[t].class
  <2>1. PICK i \in Positions :
            LET m == group[t][i]
                x == [page |-> m.page, class |-> c, slot |-> m.next]
            IN  /\ c \in Classes /\ m.next < Slots(c)
                /\ m.class \in {c, Nobody} /\ m.next \in Nat
                /\ given' = given \cup {x} /\ again' = again \cup ({x} \cap given)
                /\ group'[t][i].page = m.page /\ group'[t][i].class = c
                /\ group'[t][i].next = m.next + 1
                /\ \A u \in Threads, j \in Positions : u # t \/ j # i => group'[u][j] = group[u][j]
    BY <1>4, CarveSteps
  <2>. DEFINE m == group[t][i]
              x == [page |-> m.page, class |-> c, slot |-> m.next]
  <2>2. x.page = m.page /\ x.class = c /\ x.slot = m.next
    OBVIOUS
  <2>3. Nobody \notin Classes
    BY AllocatorAssumption
\* What has been carved from the page before is of the class, and behind its offset.
  <2>4. ASSUME NEW y \in given, y.page = m.page, m.page[1] \notin Unsafe
        PROVE  y.class = c /\ y.slot < m.next
    BY <2>1, <2>3, <2>4 DEF ChunkInv, ChunkOK
  <2>5. m.page[1] \notin Unsafe => x \notin given
    BY <2>1, <2>2, <2>4
  <2>u. Unsafe' = Unsafe
    BY <1>4 DEF Carve, segmentVars, Unsafe
  <2>. HIDE DEF x
  <2>6. ASSUME NEW y \in given' PROVE ChunkOK(y)'
    <3>1. y = x \/ y \in given
      BY <2>1 DEF x
    <3>2. Cut(y.page)'
      <4>1. CASE y \in given
        BY <1>1, <4>1
      <4>2. CASE y = x
        <5>1. PICK p : p = m.page
          OBVIOUS
        <5>2. Cut(p) /\ p[2] \in Nat
          <6>1. m \in Mirrors
            BY DEF TypeInv, TypeOK
          <6>. QED BY <5>1, <6>1, AllocatorAssumption DEF PrivateInv, Mirrors, Pages
        <5>3. Cut(p)'
          BY <5>2, CutStays
        <5>. QED BY <2>2, <4>2, <5>1, <5>3 DEF Cut
      <4>. QED BY <3>1, <4>1, <4>2
    <3>3. y.class \in Classes /\ y.slot < Slots(y.class)
      BY <2>1, <2>2, <3>1 DEF ChunkInv, ChunkOK
    <3>4. ASSUME y.page[1] \notin Unsafe, NEW z \in given', z.page = y.page PROVE z.class = y.class
      <4>1. z = x \/ z \in given
        BY <2>1 DEF x
      <4>. QED BY <2>2, <2>4, <3>1, <3>4, <4>1 DEF ChunkInv, ChunkOK
    <3>5. ASSUME y.page[1] \notin Unsafe, NEW u \in Threads, NEW j \in Positions,
                 group'[u][j].page = y.page
          PROVE  group'[u][j].class = y.class /\ y.slot < group'[u][j].next
      <4>1. CASE u = t /\ j = i
        <5>1. y.class = c /\ y.slot \in Nat /\ y.slot <= m.next
          <6>1. CASE y = x
            BY <2>1, <2>2, <6>1
          <6>2. CASE y \in given
            <7>1. y.class = c /\ y.slot < m.next
              BY <2>1, <2>4, <3>5, <4>1, <6>2
            <7>2. y.slot \in Nat
              BY <6>2, PointerAssumption DEF TypeInv, TypeOK, Chunks
            <7>. QED BY <2>1, <7>1, <7>2
          <6>. QED BY <3>1, <6>1, <6>2
        <5>. QED BY <2>1, <4>1, <5>1
      <4>2. CASE u # t \/ j # i
        <5>1. group'[u][j] = group[u][j]
          BY <2>1, <4>2
        <5>2. y # x
          BY <2>2, <3>5, <4>2, <5>1 DEF PrivateInv, PagesPrivate
        <5>. QED BY <3>1, <3>5, <5>1, <5>2 DEF ChunkInv, ChunkOK
      <4>. QED BY <4>1, <4>2
    <3>. QED BY <2>u, <3>2, <3>3, <3>4, <3>5 DEF ChunkOK
  <2>7. ASSUME NEW y \in given', y.page[1] \notin Unsafe PROVE y \notin again'
    <3>1. y = x \/ y \in given
      BY <2>1 DEF x
    <3>2. CASE y = x
      BY <2>1, <2>2, <2>5, <2>7, <3>2 DEF x, TypeInv, TypeOK
    <3>3. CASE y \in given /\ y # x
      BY <2>1, <2>7, <3>3 DEF x, ChunkInv
    <3>. QED BY <3>1, <3>2, <3>3
  <2>. QED BY <2>u, <2>6, <2>7 DEF ChunkInv
<1>5. CASE UNCHANGED vars
  BY <1>2, <1>5 DEF vars, chunkVars
<1>6. ASSUME NEW t \in Threads,
             \/ Allocate(t) \/ Preallocate(t) \/ Refill(t) \/ RefillFails(t)
             \/ PageAdvance(t) \/ Offer(t) \/ Ask(t) \/ Take(t) \/ Assign(t)
      PROVE  UNCHANGED <<given, again, group>>
  BY <1>6 DEF Allocate, Preallocate, Refill, RefillFails, PageAdvance, Offer, Ask, Take, Assign,
              chunkVars
<1>7. ASSUME NEW n \in NodeIds, Answer(n) PROVE UNCHANGED <<given, again, group>>
  BY <1>7, AnswerSteps
<1>. QED BY <1>2, <1>3, <1>4, <1>5, <1>6, <1>7 DEF Next

-----------------------------------------------------------------------------
(***************************************************************************)
(* Addresses.  The chunks of granted memory lie in their pages, the pages  *)
(* in their segments and the segments behind the page of the bitmap: what  *)
(* differs in name lies apart.                                             *)
(***************************************************************************)

\* One multiple of a length is at least the length behind the smaller one.
LEMMA Apart ==
  ASSUME NEW a \in Nat, NEW b \in Nat, a < b, NEW k \in Nat
  PROVE  a * k \in Nat /\ b * k \in Nat /\ a * k + k <= b * k
<1>1. a * k \in Nat /\ b * k \in Nat /\ (b - a - 1) * k \in Nat
  OBVIOUS
<1>2. b * k = a * k + k + (b - a - 1) * k
  OBVIOUS
<1>. QED BY <1>1, <1>2

Bit(x) == SegmentOf(x)[2]
SegmentBase(x) == Memory[NodeOf(x)] + PageSize + Bit(x) * SegmentSize
PageBase(x) == SegmentBase(x) + x.page[2] * PageSize
Base(x) == PageBase(x) + x.slot * Size[x.class]

\* Where a chunk lies, without the pointer.
LEMMA Bases ==
  ASSUME SegmentsAddressed, NEW x \in Chunks, SegmentOf(x) \in Segments,
         x.class \in Classes, x.slot < Slots(x.class)
  PROVE  /\ NodeOf(x) \in 0..(MemoryNodes - 1) /\ NodeOf(x) \in 0..(NodeSpan - 1)
         /\ Memory[NodeOf(x)] \in Nat /\ Memory[NodeOf(x)] % PageSize = 0
         /\ Memory[NodeOf(x)] >= 1
         /\ SegmentSize \in Nat \ {0} /\ SegmentSize = PagesOf * PageSize
         /\ Bit(x) \in Nat /\ x.page[2] \in 1..(PagesOf - 1) /\ x.slot \in Nat
         /\ SegmentBase(x) \in Nat /\ SegmentBase(x) >= Memory[NodeOf(x)] + PageSize
         /\ PageBase(x) \in Nat /\ PageBase(x) >= SegmentBase(x)
         /\ PageBase(x) + PageSize <= SegmentBase(x) + SegmentSize
         /\ SegmentBase(x) + SegmentSize <= AddressSpan
         /\ Size[x.class] \in Nat \ {0} /\ x.slot * Size[x.class] \in Nat
         /\ Base(x) \in Nat /\ Base(x) >= PageBase(x)
         /\ Base(x) + Size[x.class] <= PageBase(x) + PageSize
<1>. DEFINE n == NodeOf(x)
            z == Size[x.class]
<1>1. /\ MemoryNodes \in Nat \ {0} /\ MemoryNodes <= NodeSpan /\ NodeSpan \in Nat \ {0}
      /\ PagesOf \in Nat \ {0} /\ PageSize \in Nat \ {0} /\ AddressSpan \in Nat \ {0}
  BY PointerAssumption, AllocatorAssumption
<1>2. SegmentSize \in Nat \ {0} /\ SegmentSize = PagesOf * PageSize
  BY <1>1 DEF SegmentSize
<1>3. n \in 0..(MemoryNodes - 1) /\ Bit(x) \in 0..(Bits(n) - 1)
  BY DEF Segments, NodeOf, Bit
<1>4. /\ Memory[n] \in 1..(AddressSpan - 1) /\ Memory[n] % PageSize = 0
      /\ Memory[n] + PageSize + Bits(n) * SegmentSize <= AddressSpan
      /\ Bits(n) \in Nat \ {0}
  BY <1>3, AllocatorAssumption, SegmentsType DEF SegmentsAddressed
<1>5. x.page[2] \in 1..(PagesOf - 1) /\ x.slot \in Nat
  BY <1>1 DEF Chunks, Pages
<1>6. z \in 1..PageSize
  BY AllocatorAssumption
<1>. HIDE DEF n
<1>7. /\ Bit(x) * SegmentSize \in Nat
      /\ Bit(x) * SegmentSize + SegmentSize <= Bits(n) * SegmentSize
      /\ Bits(n) * SegmentSize \in Nat
  <2>1. Bit(x) \in Nat /\ Bits(n) \in Nat /\ Bit(x) < Bits(n) /\ SegmentSize \in Nat
    BY <1>2, <1>3, <1>4
  <2>. QED BY <2>1, Apart
<1>8. x.page[2] * PageSize \in Nat /\ x.page[2] * PageSize + PageSize <= SegmentSize
  <2>1. x.page[2] \in Nat /\ PagesOf \in Nat /\ x.page[2] < PagesOf /\ PageSize \in Nat
    BY <1>1, <1>5
  <2>2. /\ x.page[2] * PageSize \in Nat
        /\ x.page[2] * PageSize + PageSize <= PagesOf * PageSize
    BY <2>1, Apart
  <2>. QED BY <1>2, <2>2
<1>9. x.slot * z \in Nat /\ x.slot * z + z <= PageSize
  <2>1. Slots(x.class) \in Nat /\ Slots(x.class) * z <= PageSize
    <3>1. \A d \in 1..PageSize : PageSize \div d \in Nat /\ (PageSize \div d) * d <= PageSize
      BY <1>1
    <3>. QED BY <1>6, <3>1 DEF Slots
  <2>2. x.slot * z \in Nat /\ x.slot * z + z <= Slots(x.class) * z
    BY <1>1, <1>5, <1>6, <2>1, Apart
  <2>3. Slots(x.class) * z \in Nat
    BY <1>6, <2>1
  <2>. QED BY <1>1, <1>6, <2>1, <2>2, <2>3
<1>. HIDE DEF z
<1>10. /\ SegmentBase(x) \in Nat /\ SegmentBase(x) >= Memory[n] + PageSize
       /\ SegmentBase(x) + SegmentSize <= AddressSpan
  BY <1>1, <1>2, <1>4, <1>7 DEF SegmentBase, n
<1>11. /\ PageBase(x) \in Nat /\ PageBase(x) >= SegmentBase(x)
       /\ PageBase(x) + PageSize <= SegmentBase(x) + SegmentSize
  BY <1>1, <1>2, <1>8, <1>10 DEF PageBase
<1>12. /\ Base(x) \in Nat /\ Base(x) >= PageBase(x)
       /\ Base(x) + z <= PageBase(x) + PageSize
  BY <1>1, <1>6, <1>9, <1>11 DEF Base, z
<1>13. n \in 0..(NodeSpan - 1) /\ Bit(x) \in Nat /\ Memory[n] \in Nat /\ Memory[n] >= 1
       /\ z \in Nat \ {0}
  BY <1>1, <1>3, <1>4, <1>6
<1>. QED BY <1>2, <1>3, <1>4, <1>5, <1>9, <1>10, <1>11, <1>12, <1>13 DEF n, z

\* The remote pointers lead there.
LEMMA Addresses ==
  ASSUME SegmentsAddressed, NEW x \in Chunks, SegmentOf(x) \in Segments,
         x.class \in Classes, x.slot < Slots(x.class)
  PROVE  /\ PageAt(x.page) = MakeRemotePointer(NodeOf(x), PageBase(x))
         /\ ChunkAt(x) = MakeRemotePointer(NodeOf(x), Base(x))
         /\ GetNode(ChunkAt(x)) = NodeOf(x) /\ ~ IsNullptr(ChunkAt(x))
         /\ GetAs(ChunkAt(x)) = Base(x)
         /\ PageOf(ChunkAt(x)) = PageAt(x.page)
<1>. USE Weights
<1>. DEFINE n == NodeOf(x)
<1>1. /\ n \in 0..(NodeSpan - 1) /\ AddressSpan \in Nat
      /\ SegmentBase(x) \in 0..(AddressSpan - 1) /\ PageBase(x) \in 0..(AddressSpan - 1)
      /\ Base(x) \in 1..(AddressSpan - 1)
  BY Bases
<1>2. SegmentAt(SegmentOf(x)) = MakeRemotePointer(n, SegmentBase(x))
  BY DEF SegmentAt, SegmentBase, Bit, NodeOf
<1>3. PageAt(x.page) = MakeRemotePointer(n, PageBase(x))
  <2>1. x.page[2] * PageSize \in Nat
    <3>1. x.page[2] \in Nat
      BY Bases
    <3>. QED BY <3>1
  <2>2. SegmentBase(x) + x.page[2] * PageSize = PageBase(x)
    BY DEF PageBase
  <2>3. SegmentBase(x) + x.page[2] * PageSize < AddressSpan
    BY <1>1, <2>2
  <2>4. OffsetBy(MakeRemotePointer(n, SegmentBase(x)), x.page[2] * PageSize)
          = MakeRemotePointer(n, SegmentBase(x) + x.page[2] * PageSize)
    BY <1>1, <2>1, <2>3, OffsetMovesAddress
  <2>. QED BY <1>2, <2>2, <2>4 DEF PageAt, SegmentOf
<1>4. ChunkAt(x) = MakeRemotePointer(n, Base(x))
  <2>1. x.slot * Size[x.class] \in Nat
    BY Bases
  <2>2. PageBase(x) + x.slot * Size[x.class] = Base(x)
    BY DEF Base
  <2>3. PageBase(x) + x.slot * Size[x.class] < AddressSpan
    BY <1>1, <2>2
  <2>4. OffsetBy(MakeRemotePointer(n, PageBase(x)), x.slot * Size[x.class])
          = MakeRemotePointer(n, PageBase(x) + x.slot * Size[x.class])
    BY <1>1, <2>1, <2>3, OffsetMovesAddress
  <2>. QED BY <1>3, <2>2, <2>4 DEF ChunkAt
<1>5. /\ GetNode(ChunkAt(x)) = n /\ ~ IsNullptr(ChunkAt(x))
      /\ GetAs(ChunkAt(x)) = Base(x)
  BY <1>1, <1>4, PointerRoundTrip
\* Clearing the low bits takes the chunk's offset in its page away.
<1>6. Base(x) % PageSize = Base(x) - PageBase(x)
  <2>. DEFINE q == (Memory[n] \div PageSize) + 1 + Bit(x) * PagesOf + x.page[2]
              r == x.slot * Size[x.class]
  <2>1. /\ Memory[n] \in Nat /\ Memory[n] % PageSize = 0 /\ Bit(x) \in Nat
        /\ x.page[2] \in Nat /\ r \in Nat /\ SegmentSize = PagesOf * PageSize
        /\ PageBase(x) \in Nat /\ Base(x) + Size[x.class] <= PageBase(x) + PageSize
        /\ Size[x.class] \in Nat \ {0}
    BY Bases
  <2>2. PagesOf \in Nat /\ Bit(x) * PagesOf \in Nat
    <3>1. PagesOf \in Nat
      BY AllocatorAssumption
    <3>. QED BY <2>1, <3>1
  <2>3. Memory[n] = (Memory[n] \div PageSize) * PageSize /\ Memory[n] \div PageSize \in Nat
    <3>1. \A a \in Nat : a % PageSize = 0 =>
             a = (a \div PageSize) * PageSize /\ a \div PageSize \in Nat
      OBVIOUS
    <3>. QED BY <2>1, <3>1
  <2>4. q \in Nat
    BY <2>1, <2>2, <2>3
  <2>5. Base(x) = PageBase(x) + r
    BY DEF Base
  <2>6. PageBase(x) = q * PageSize
    <3>1. Bit(x) * SegmentSize = (Bit(x) * PagesOf) * PageSize
      BY <2>1, <2>2
    <3>2. PageBase(x) = (Memory[n] \div PageSize) * PageSize + PageSize
                          + (Bit(x) * PagesOf) * PageSize + x.page[2] * PageSize
      BY <2>3, <3>1 DEF PageBase, SegmentBase
    <3>3. \A a, b, c, k \in Nat :
             a * k + k + b * k + c * k = (a + 1 + b + c) * k
      OBVIOUS
    <3>. QED BY <2>1, <2>2, <2>3, <3>2, <3>3
  <2>7. r \in 0..(PageSize - 1)
    BY <2>1, <2>5
  <2>8. (q * PageSize + r) % PageSize = r
    BY <2>4, <2>7, DivMod, Zenon
  <2>. QED BY <2>1, <2>5, <2>6, <2>8
<1>7. PageOf(ChunkAt(x)) = PageAt(x.page)
  <2>1. Base(x) - (Base(x) % PageSize) = PageBase(x)
    BY <1>1, <1>6
  <2>2. PageOf(MakeRemotePointer(n, Base(x))) = MakeRemotePointer(n, Base(x) - (Base(x) % PageSize))
    BY <1>1, PageOfAddress
  <2>. QED BY <1>3, <1>4, <2>1, <2>2
<1>. QED BY <1>3, <1>4, <1>5, <1>7

\* Of two chunks of one memory node, the one whose segment, page or slot comes first
\* ends before the other starts.
LEMMA EndsBefore ==
  ASSUME SegmentsAddressed, NEW x \in Chunks, NEW y \in Chunks,
         SegmentOf(x) \in Segments, x.class \in Classes, x.slot < Slots(x.class),
         SegmentOf(y) \in Segments, y.class \in Classes, y.slot < Slots(y.class),
         NodeOf(x) = NodeOf(y),
         \/ Bit(x) < Bit(y)
         \/ Bit(x) = Bit(y) /\ x.page[2] < y.page[2]
         \/ x.page = y.page /\ x.class = y.class /\ x.slot < y.slot
  PROVE  Base(x) + Size[x.class] <= Base(y)
<1>. DEFINE z == Size[x.class]
<1>1. /\ Base(x) \in Nat /\ z \in Nat \ {0} /\ PageBase(x) \in Nat /\ SegmentBase(x) \in Nat
      /\ Base(x) + z <= PageBase(x) + PageSize
      /\ PageBase(x) + PageSize <= SegmentBase(x) + SegmentSize
      /\ Bit(x) \in Nat /\ x.page[2] \in Nat /\ x.slot \in Nat
      /\ Memory[NodeOf(x)] \in Nat /\ SegmentSize \in Nat /\ PageSize \in Nat
  BY Bases, Weights
<1>2. /\ Base(y) \in Nat /\ PageBase(y) \in Nat /\ SegmentBase(y) \in Nat
      /\ Base(y) >= PageBase(y) /\ PageBase(y) >= SegmentBase(y)
      /\ Bit(y) \in Nat /\ y.page[2] \in Nat /\ y.slot \in Nat
  BY Bases
<1>3. CASE Bit(x) < Bit(y)
  <2>1. Bit(x) * SegmentSize \in Nat /\ Bit(y) * SegmentSize \in Nat
        /\ Bit(x) * SegmentSize + SegmentSize <= Bit(y) * SegmentSize
    BY <1>1, <1>2, <1>3, Apart
  <2>2. SegmentBase(x) + SegmentSize <= SegmentBase(y)
    BY <1>1, <2>1 DEF SegmentBase
  <2>. QED BY <1>1, <1>2, <2>2
<1>4. CASE Bit(x) = Bit(y) /\ x.page[2] < y.page[2]
  <2>1. x.page[2] * PageSize \in Nat /\ y.page[2] * PageSize \in Nat
        /\ x.page[2] * PageSize + PageSize <= y.page[2] * PageSize
    BY <1>1, <1>2, <1>4, Apart
  <2>2. SegmentBase(x) = SegmentBase(y)
    BY <1>4 DEF SegmentBase
  <2>3. PageBase(x) + PageSize <= PageBase(y)
    BY <1>1, <2>1, <2>2 DEF PageBase
  <2>. QED BY <1>1, <1>2, <2>3
<1>5. CASE x.page = y.page /\ x.class = y.class /\ x.slot < y.slot
  <2>1. x.slot * z \in Nat /\ y.slot * z \in Nat /\ x.slot * z + z <= y.slot * z
    BY <1>1, <1>2, <1>5, Apart
  <2>2. PageBase(x) = PageBase(y)
    BY <1>5 DEF PageBase, SegmentBase, Bit, NodeOf, SegmentOf
  <2>. QED BY <1>1, <1>5, <2>1, <2>2 DEF Base
<1>. QED BY <1>3, <1>4, <1>5

\* Chunks with names of their own have bytes of their own.
LEMMA ChunksResolve ==
  ASSUME OffsetCounts, SegmentsAddressed, TypeInv, SegmentsInv, ChunkInv
  PROVE  PointersResolve
<1>1. ASSUME NEW x \in Granted
      PROVE  /\ x \in Chunks /\ SegmentOf(x) \in Segments /\ x.class \in Classes
             /\ x.slot < Slots(x.class) /\ x.page \in Pages /\ x.slot \in Nat
  <2>1. x \in given /\ x \in Chunks /\ SegmentOf(x) # Null /\ ChunkOK(x)
    BY DEF Granted, TypeInv, TypeOK, ChunkInv
  <2>2. x.page \in Pages /\ x.slot \in Nat
    BY <2>1, PointerAssumption DEF Chunks
  <2>3. SegmentOf(x) \in Segments
    BY <2>1, <2>2 DEF Pages, SegmentOf
  <2>. QED BY <2>1, <2>2, <2>3 DEF ChunkOK
<1>2. ASSUME NEW x \in Granted, NEW y \in Granted, x # y, NodeOf(y) = NodeOf(x),
             SegmentOf(x) \notin twice
      PROVE  \/ Bit(x) < Bit(y) \/ Bit(y) < Bit(x)
             \/ Bit(x) = Bit(y) /\ x.page[2] < y.page[2]
             \/ Bit(x) = Bit(y) /\ y.page[2] < x.page[2]
             \/ x.page = y.page /\ x.class = y.class /\ x.slot < y.slot
             \/ x.page = y.page /\ x.class = y.class /\ y.slot < x.slot
  <2>1. Bit(x) \in Nat /\ Bit(y) \in Nat /\ x.page[2] \in Nat /\ y.page[2] \in Nat
    BY <1>1, Bases
  <2>2. SUFFICES ASSUME Bit(x) = Bit(y), x.page[2] = y.page[2]
        PROVE  x.page = y.page /\ x.class = y.class /\ (x.slot < y.slot \/ y.slot < x.slot)
    BY <2>1
  <2>3. SegmentOf(x) = SegmentOf(y)
    <3>1. \A s \in Segments : s = <<s[1], s[2]>>
      BY DEF Segments
    <3>. QED BY <1>1, <1>2, <2>2, <3>1 DEF Bit, NodeOf
  <2>4. x.page = y.page
    <3>1. x.page = <<x.page[1], x.page[2]>> /\ y.page = <<y.page[1], y.page[2]>>
      BY <1>1 DEF Pages
    <3>. QED BY <2>2, <2>3, <3>1 DEF SegmentOf
  <2>5. x.class = y.class
    <3>1. ChunkOK(x) /\ y \in given /\ x.page[1] \notin Unsafe
      BY <1>2 DEF ChunkInv, Granted, SegmentOf, Unsafe
    <3>. QED BY <2>4, <3>1 DEF ChunkOK
  <2>6. x.slot # y.slot
    BY <1>1, <1>2, <2>4, <2>5 DEF Chunks
  <2>. QED BY <1>1, <2>4, <2>5, <2>6
<1>3. ASSUME NEW x \in Granted, NEW y \in Granted, x # y, NodeOf(y) = NodeOf(x),
             SegmentOf(x) \notin twice
      PROVE  End(x) <= GetAs(ChunkAt(y)) \/ End(y) <= GetAs(ChunkAt(x))
  <2>1. Base(x) + Size[x.class] <= Base(y) \/ Base(y) + Size[y.class] <= Base(x)
    BY <1>1, <1>2, <1>3, EndsBefore
  <2>2. GetAs(ChunkAt(x)) = Base(x) /\ GetAs(ChunkAt(y)) = Base(y)
    BY <1>1, Addresses
  <2>. QED BY <2>1, <2>2 DEF End
<1>4. ASSUME NEW x \in Granted, SegmentOf(x) \notin twice
      PROVE  /\ x \notin again /\ SegmentOf(x) \in granted
             /\ GetNode(ChunkAt(x)) = NodeOf(x) /\ ~ IsNullptr(ChunkAt(x))
             /\ GetAs(ChunkAt(x)) >= Memory[NodeOf(x)] + PageSize
             /\ PageOf(ChunkAt(x)) = PageAt(x.page)
  <2>1. Base(x) >= Memory[NodeOf(x)] + PageSize
    <3>1. /\ Base(x) \in Nat /\ PageBase(x) \in Nat /\ SegmentBase(x) \in Nat
          /\ Memory[NodeOf(x)] \in Nat /\ PageSize \in Nat
          /\ Base(x) >= PageBase(x) /\ PageBase(x) >= SegmentBase(x)
          /\ SegmentBase(x) >= Memory[NodeOf(x)] + PageSize
      BY <1>1, Bases, Weights
    <3>. QED BY <3>1
  <2>2. x \in given /\ SegmentOf(x) \notin Unsafe /\ ChunkOK(x)
    BY <1>4 DEF Granted, Unsafe, ChunkInv
  <2>3. x \notin again /\ SegmentOf(x) \in granted
    BY <2>2 DEF ChunkInv, ChunkOK, Cut, SegmentsInv, Unsafe, SegmentOf
  <2>. QED BY <1>1, <2>1, <2>3, Addresses
<1>. QED BY <1>3, <1>4 DEF PointersResolve

\* Data nodes never share a byte of a segment assigned once: whatever threads allocate,
\* and whenever segments change, every chunk of it is returned once, its pointer leads
\* into the memory node that granted it, and it has no byte in common with another.
\* The premises leave out the class whose chunks are too many for the offset's 8 bits,
\* and memory behind the addresses that a remote pointer holds.
THEOREM PointersAlwaysResolve ==
  ASSUME OffsetCounts, SegmentsAddressed
  PROVE  Spec => []PointersResolve
<1>. DEFINE Inv == TypeInv /\ PrivateInv /\ ChunkInv
<1>1. Init => Inv
  BY TypeInit, PrivateInit, ChunkInit
<1>2. Inv /\ [Next]_vars => Inv'
  BY TypeStep, PrivateStep, ChunkStep
<1>3. Inv => PointersResolve
  BY ChunksResolve DEF PrivateInv
<1>. HIDE DEF Inv
<1>. QED BY <1>1, <1>2, <1>3, PTL DEF Spec
=============================================================================
