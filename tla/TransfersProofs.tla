----------------------------- MODULE TransfersProofs -----------------------------
(***************************************************************************)
(* Theorems about Transfers, for every length of the list and every depth  *)
(* of the send queues that has room for a batch: every completion is       *)
(* polled by the operation that asked for it, no data node is overwritten  *)
(* with what was not read from it unless by an update, and a scan returns  *)
(* no records of a node before its first.                                  *)
(***************************************************************************)
EXTENDS Transfers, SequenceTheorems, WellFoundedInduction, TLAPS

-----------------------------------------------------------------------------
(***************************************************************************)
(* Numbers.                                                                *)
(***************************************************************************)

\* Every set of numbers that has an element has a smallest one: CHOOSE finds it.
LEMMA Minimum ==
  ASSUME NEW S \in SUBSET Nat, S # {}
  PROVE  \E m \in S : \A n \in S : m <= n
<1>. DEFINE R == {x \in Nat \X Nat : x[1] < x[2]}
<1>1. IsWellFoundedOn(R, Nat)
  BY NatLessThanWellFounded DEF OpToRel
<1>2. PICK m \in S : \A n \in S : <<n, m>> \notin R
  BY <1>1, WFMin
<1>3. \A n \in S : ~ (n < m)
  BY <1>2
<1>. QED BY <1>3

-----------------------------------------------------------------------------
(***************************************************************************)
(* The inductive invariant.                                                *)
(***************************************************************************)

\* The requests that the adapter has yet to execute.
Awaited ==
    {r \in WorkRequests : \E c \in Contexts : \E i \in executed[c] + 1..Len(sq[c]) : sq[c][i] = r}

\* Slot s holds the records of node n, or nobody knows what node n holds.
Filled(s, n) == buf[s] = n \/ n \in ruined

\* The queues are functions of the contexts, which TypeOK leaves open.
QueuesOK ==
    /\ sq \in [Contexts -> Seq(WorkRequests)]
    /\ executed \in [Contexts -> Nat]

\* One completion retires a whole queue: that of its last request.
Single(q) == \A i \in 1..Len(q) : q[i].signaled <=> i = Len(q)

\* A thread that does not poll has no request left.  One that does polls each
\* context once, or has put two requests with a completion each into one of them.
\* Only a scan polls a queue in which there is nothing.
PolledOK ==
    \/ pc # "poll" /\ polls = <<>> /\ sq["rdma"] = <<>> /\ sq["prdma"] = <<>>
    \/ /\ pc = "poll" /\ polls = <<"rdma">>
       /\ Single(sq["rdma"]) /\ sq["prdma"] = <<>>
       /\ op = "scan" \/ sq["rdma"] # <<>>
    \/ /\ pc = "poll" /\ polls = <<"prdma">>
       /\ sq["rdma"] = <<>> /\ Single(sq["prdma"]) /\ sq["prdma"] # <<>>
    \/ /\ pc = "poll" /\ polls = <<"rdma", "prdma">>
       /\ Single(sq["rdma"]) /\ Single(sq["prdma"])
       /\ sq["rdma"] # <<>> /\ sq["prdma"] # <<>>
    \/ /\ pc = "poll" /\ polls = <<"rdma", "rdma">>
       /\ Len(sq["rdma"]) = 2 /\ sq["rdma"][1].signaled /\ sq["rdma"][2].signaled
       /\ sq["prdma"] = <<>>

\* An operation reads first and writes then, and writes what it has read.
StagesOK ==
    /\ op \in {"none", "get"} => stage = "fetch"
    /\ op = "scan" <=> stage \in {"pair", "one"}
    /\ \A r \in Awaited :
          IF stage = "write" THEN r.kind = "write" /\ Filled(r.slot, r.node)
                             ELSE r.kind = "read"

\* Slot s holds records of a node of S when the awaited requests are executed.
Fetching(s, S) ==
    /\ \A r \in Awaited : r.slot = s => r.node \in S
    /\ buf[s] \in S \/ S \cap ruined # {} \/ \E r \in Awaited : r.slot = s

\* What put and scan have fetched, or are fetching, when they come to use it.
FetchedOK ==
    /\ op = "put" /\ stage = "fetch" => Fetching(0, {at - 1}) /\ Fetching(1, {at})
    /\ op = "scan" => start <= at /\ Fetching(0, start..Last)
    /\ op = "scan" /\ stage = "pair" => Fetching(1, start..Last)

IInv ==
    TypeOK /\ QueuesOK /\ PolledOK /\ StagesOK /\ FetchedOK /\ RemoteIntact /\ ScanForward

-----------------------------------------------------------------------------
(***************************************************************************)
(* What is posted when the queues are empty.                               *)
(***************************************************************************)

\* The requests that the operations post.
LEMMA Requests ==
  ASSUME NEW n \in Address, NEW s \in Slots
  PROVE  /\ Read(n, s) \in WorkRequests /\ Quietly(Read(n, s)) \in WorkRequests
         /\ Write(n, s) \in WorkRequests /\ Quietly(Write(n, s)) \in WorkRequests
         /\ Read(n, s).kind = "read" /\ Quietly(Read(n, s)).kind = "read"
         /\ Write(n, s).kind = "write" /\ Quietly(Write(n, s)).kind = "write"
         /\ Read(n, s).node = n /\ Quietly(Read(n, s)).node = n
         /\ Write(n, s).node = n /\ Quietly(Write(n, s)).node = n
         /\ Read(n, s).slot = s /\ Quietly(Read(n, s)).slot = s
         /\ Write(n, s).slot = s /\ Quietly(Write(n, s)).slot = s
         /\ Read(n, s).signaled /\ ~Quietly(Read(n, s)).signaled
         /\ Write(n, s).signaled /\ ~Quietly(Write(n, s)).signaled
  BY DEF Read, Write, Quietly, Request, WorkRequests

\* Between two batches no request is awaited.
LEMMA Quiet ==
  ASSUME IInv, pc # "poll"
  PROVE  /\ \A c \in Contexts : sq[c] = <<>> /\ executed[c] = 0
         /\ Awaited = {} /\ polls = <<>>
<1>1. sq["rdma"] = <<>> /\ sq["prdma"] = <<>> /\ polls = <<>>
  BY DEF IInv, PolledOK
<1>2. \A c \in Contexts : sq[c] = <<>> /\ Len(sq[c]) = 0
  BY <1>1 DEF Contexts
<1>3. \A c \in Contexts : executed[c] = 0
  BY <1>2 DEF IInv, TypeOK
<1>4. \A c \in Contexts : executed[c] + 1..Len(sq[c]) = {}
  BY <1>2, <1>3
<1>. QED BY <1>1, <1>2, <1>3, <1>4 DEF Awaited

\* What a post to an idle thread's queues leaves: the queues have the requests R,
\* none of them executed.
Asks(R) ==
    /\ QueuesOK' /\ PolledOK' /\ Awaited' = R
    /\ \A c \in Contexts : sq'[c] \in Seq(WorkRequests) /\ Len(sq'[c]) <= Depth
                           /\ executed'[c] \in 0..Len(sq'[c])
    /\ polls' \in Seq(Contexts) /\ polls' # <<>> /\ pc' = "poll"

LEMMA Posted ==
  ASSUME IInv, pc # "poll", UNCHANGED executed, pc' = "poll",
         NEW q \in Seq(WorkRequests), Len(q) # 0, Len(q) <= 3, Post("rdma", q),
         \/ polls' = <<"rdma">> /\ Single(q)
         \/ polls' = <<"rdma", "rdma">> /\ Len(q) = 2 /\ q[1].signaled /\ q[2].signaled
  PROVE  Asks({q[i] : i \in 1..Len(q)})
<1>1. \A c \in Contexts : sq[c] = <<>> /\ executed[c] = 0
  BY Quiet
<1>2. "rdma" \in Contexts /\ "prdma" \in Contexts /\ Contexts = {"rdma", "prdma"}
  BY DEF Contexts
<1>3. sq["rdma"] \o q = q
  BY <1>1, <1>2, ConcatEmptySeq
<1>4. SubSeq(q, 1, IF Len(q) < Depth THEN Len(q) ELSE Depth) = q
  <2>1. Len(q) \in Nat
    BY LenProperties
  <2>2. (IF Len(q) < Depth THEN Len(q) ELSE Depth) = Len(q)
    BY <2>1, TransfersAssumption
  <2>. QED BY <2>2, SubSeqFull
<1>5. sq' = [sq EXCEPT !["rdma"] = q]
  BY <1>3, <1>4 DEF Post
<1>6. sq \in [Contexts -> Seq(WorkRequests)] /\ executed \in [Contexts -> Nat]
  BY DEF IInv, QueuesOK
<1>7. sq'["rdma"] = q /\ sq'["prdma"] = <<>> /\ sq' \in [Contexts -> Seq(WorkRequests)]
  BY <1>1, <1>2, <1>5, <1>6
<1>8. QueuesOK'
  BY <1>6, <1>7 DEF QueuesOK
<1>9. PolledOK'
  <2>1. q # <<>>
    BY EmptySeq, Zenon
  <2>. QED BY <1>7, <2>1 DEF PolledOK
<1>10. \A c \in Contexts : executed'[c] = 0
  BY <1>1
<1>11. \A c \in Contexts : sq'[c] \in Seq(WorkRequests) /\ Len(sq'[c]) <= Depth
                           /\ executed'[c] \in 0..Len(sq'[c])
  <2>1. Len(q) \in Nat /\ Len(q) <= Depth
    BY LenProperties, TransfersAssumption
  <2>2. Len(sq'["prdma"]) = 0
    BY <1>7
  <2>. QED BY <1>2, <1>7, <1>10, <2>1, <2>2, TransfersAssumption
<1>12. Awaited' = {q[i] : i \in 1..Len(q)}
  <2>1. \A i \in 1..Len(q) : q[i] \in WorkRequests
    BY ElementOfSeq
  <2>2. \A i \in executed'["rdma"] + 1..Len(sq'["rdma"]) : i \in 1..Len(q)
    BY <1>2, <1>7, <1>10
  <2>3. \A i \in 1..Len(q) : i \in executed'["rdma"] + 1..Len(sq'["rdma"])
    BY <1>2, <1>7, <1>10
  <2>4. executed'["prdma"] + 1..Len(sq'["prdma"]) = {}
    BY <1>2, <1>7, <1>10
  <2>5. Awaited' = {r \in WorkRequests :
                        \E c \in Contexts : \E i \in executed'[c] + 1..Len(sq'[c]) : sq'[c][i] = r}
    BY DEF Awaited
  <2>6. ASSUME NEW r \in Awaited' PROVE r \in {q[i] : i \in 1..Len(q)}
    <3>1. PICK c \in Contexts : \E i \in executed'[c] + 1..Len(sq'[c]) : sq'[c][i] = r
      BY <2>5, <2>6
    <3>2. c = "rdma"
      BY <1>2, <2>4, <3>1
    <3>. QED BY <1>7, <2>2, <3>1, <3>2
  <2>7. ASSUME NEW i \in 1..Len(q) PROVE q[i] \in Awaited'
    BY <1>2, <1>7, <2>1, <2>3, <2>5, <2>7
  <2>. QED BY <2>6, <2>7
<1>13. polls' \in Seq(Contexts) /\ polls' # <<>>
  <2>1. <<"rdma">> \in Seq(Contexts) /\ <<"rdma", "rdma">> \in Seq(Contexts)
    BY <1>2
  <2>2. <<"rdma">> # <<>> /\ <<"rdma", "rdma">> # <<>>
    OBVIOUS
  <2>. QED BY <2>1, <2>2
<1>. QED BY <1>8, <1>9, <1>11, <1>12, <1>13 DEF Asks

\* fetch_as and write_back_current.
LEMMA OneAsked ==
  ASSUME IInv, pc # "poll", UNCHANGED executed, pc' = "poll", NEW n \in Address
  PROVE  /\ FetchAs(n) => Asks({Read(n, 0)})
         /\ WriteBackCurrent(n) => Asks({Write(n, 1)})
<1>1. ASSUME NEW r \in WorkRequests, r.signaled, Post("rdma", <<r>>), polls' = <<"rdma">>
      PROVE  Asks({r})
  <2>. DEFINE q == <<r>>
  <2>1. q \in Seq(WorkRequests) /\ Len(q) = 1 /\ q[1] = r
    OBVIOUS
  <2>2. Single(q)
    BY <1>1, <2>1 DEF Single
  <2>3. {q[i] : i \in 1..Len(q)} = {r}
    BY <2>1
  <2>4. Len(q) # 0 /\ Len(q) <= 3
    BY <2>1
  <2>5. Post("rdma", q)
    BY <1>1
  <2>. HIDE DEF q
  <2>6. Asks({q[i] : i \in 1..Len(q)})
    BY <1>1, <2>1, <2>2, <2>4, <2>5, Posted
  <2>. QED BY <2>3, <2>6
<1>2. 0 \in Slots /\ 1 \in Slots
  BY DEF Slots
<1>. QED BY <1>1, <1>2, Requests DEF FetchAs, WriteBackCurrent

\* fetch_two, and its variant on two contexts.
LEMMA TwoAsked ==
  ASSUME IInv, pc # "poll", UNCHANGED executed, pc' = "poll", NEW l \in Address, NEW r \in Address,
         FetchTwo(l, r) \/ FetchParallel(l, r)
  PROVE  Asks({Read(l, 0), Read(r, 1)})
<1>. DEFINE a == Read(r, 1)
            b == Read(l, 0)
<1>1. a \in WorkRequests /\ b \in WorkRequests /\ a.signaled /\ b.signaled
  <2>1. 0 \in Slots /\ 1 \in Slots
    BY DEF Slots
  <2>. QED BY <2>1, Requests
<1>. HIDE DEF a, b
<1>2. ASSUME Post("rdma", <<a, b>>), polls' = <<"rdma", "rdma">> PROVE Asks({b, a})
  <2>. DEFINE q == <<a, b>>
  <2>1. q \in Seq(WorkRequests) /\ Len(q) = 2 /\ q[1] = a /\ q[2] = b
    BY <1>1
  <2>2. {q[i] : i \in 1..Len(q)} = {b, a}
    BY <2>1
  <2>3. Len(q) # 0 /\ Len(q) <= 3 /\ q[1].signaled /\ q[2].signaled
    BY <1>1, <2>1
  <2>4. Post("rdma", q)
    BY <1>2
  <2>. HIDE DEF q
  <2>5. Asks({q[i] : i \in 1..Len(q)})
    BY <1>2, <2>1, <2>3, <2>4, Posted
  <2>. QED BY <2>2, <2>5
<1>3. ASSUME sq' = [c \in Contexts |-> sq[c] \o IF c = "rdma" THEN <<a>> ELSE <<b>>],
             polls' = <<"rdma", "prdma">>
      PROVE  Asks({b, a})
  <2>1. \A c \in Contexts : sq[c] = <<>> /\ executed[c] = 0
    BY Quiet
  <2>2. "rdma" \in Contexts /\ "prdma" \in Contexts /\ Contexts = {"rdma", "prdma"}
    BY DEF Contexts
  <2>3. <<a>> \in Seq(WorkRequests) /\ <<b>> \in Seq(WorkRequests)
    BY <1>1
  <2>4. <<>> \o <<a>> = <<a>> /\ <<>> \o <<b>> = <<b>>
    BY <2>3, ConcatEmptySeq
  <2>5. sq'["rdma"] = <<a>> /\ sq'["prdma"] = <<b>>
    BY <1>3, <2>1, <2>2, <2>4
  <2>6. sq' \in [Contexts -> Seq(WorkRequests)]
    <3>1. \A c \in Contexts : sq'[c] \in Seq(WorkRequests)
      BY <2>2, <2>3, <2>5
    <3>. QED BY <1>3, <3>1
  <2>7. Len(sq'["rdma"]) = 1 /\ Len(sq'["prdma"]) = 1 /\ sq'["rdma"][1] = a /\ sq'["prdma"][1] = b
    BY <2>5
  <2>8. Single(sq'["rdma"]) /\ Single(sq'["prdma"])
    BY <1>1, <2>7 DEF Single
  <2>9. PolledOK'
    <3>1. sq'["rdma"] # <<>> /\ sq'["prdma"] # <<>>
      BY <2>5
    <3>. QED BY <1>3, <2>8, <3>1 DEF PolledOK
  <2>10. QueuesOK'
    BY <2>6 DEF QueuesOK, IInv
  <2>11. \A c \in Contexts : executed'[c] = 0 /\ Len(sq'[c]) = 1
    BY <2>1, <2>2, <2>7
  <2>12. Awaited' = {b, a}
    <3>1. Awaited' = {x \in WorkRequests :
                        \E c \in Contexts : \E i \in executed'[c] + 1..Len(sq'[c]) : sq'[c][i] = x}
      BY DEF Awaited
    <3>2. \A c \in Contexts : executed'[c] + 1..Len(sq'[c]) = {1}
      <4>1. 0 + 1..1 = {1}
        OBVIOUS
      <4>. QED BY <2>11, <4>1
    <3>3. Awaited' = {x \in WorkRequests : \E c \in Contexts : sq'[c][1] = x}
      BY <3>1, <3>2
    <3>. QED BY <1>1, <2>2, <2>7, <3>3
  <2>13. polls' \in Seq(Contexts) /\ polls' # <<>>
    BY <1>3, <2>2
  <2>. QED BY <2>6, <2>9, <2>10, <2>11, <2>12, <2>13, TransfersAssumption DEF Asks
<1>4. CASE FetchTwo(l, r)
  BY <1>2, <1>4 DEF FetchTwo, a, b
<1>5. CASE FetchParallel(l, r)
  BY <1>3, <1>5 DEF FetchParallel, a, b
<1>. QED BY <1>4, <1>5

\* The batches: of two requests, and of three.
LEMMA BatchAsked ==
  ASSUME IInv, pc # "poll", UNCHANGED executed, pc' = "poll", polls' = <<"rdma">>,
         NEW a \in WorkRequests, NEW b \in WorkRequests, NEW c \in WorkRequests,
         Quietly(a) \in WorkRequests, Quietly(b) \in WorkRequests,
         ~Quietly(a).signaled, ~Quietly(b).signaled, b.signaled, c.signaled
  PROVE  /\ BatchRead(<<a, b>>) => Asks({Quietly(a), b})
         /\ BatchWrite(<<a, b>>) => Asks({Quietly(a), b})
         /\ BatchWrite(<<a, b, c>>) => Asks({Quietly(a), Quietly(b), c})
<1>1. ASSUME Post("rdma", [i \in DOMAIN <<a, b>> |->
                     IF i = Len(<<a, b>>) THEN <<a, b>>[i] ELSE Quietly(<<a, b>>[i])])
      PROVE  Asks({Quietly(a), b})
  <2>. DEFINE q == [i \in DOMAIN <<a, b>> |->
                     IF i = Len(<<a, b>>) THEN <<a, b>>[i] ELSE Quietly(<<a, b>>[i])]
  <2>1. q = [i \in 1..2 |-> IF i = 2 THEN b ELSE Quietly(a)]
    OBVIOUS
  <2>2. q \in [1..2 -> WorkRequests] /\ q[1] = Quietly(a) /\ q[2] = b
    BY <2>1
  <2>3. q \in Seq(WorkRequests) /\ Len(q) = 2
    <3>1. q \in UNION {[1..n -> WorkRequests] : n \in Nat}
      BY <2>2
    <3>2. q \in Seq(WorkRequests)
      BY <3>1, SeqDef
    <3>3. DOMAIN q = 1..2 /\ DOMAIN q = 1..Len(q) /\ Len(q) \in Nat
      BY <2>2, <3>2, LenProperties
    <3>. QED BY <3>2, <3>3
  <2>4. {q[i] : i \in 1..Len(q)} = {Quietly(a), b}
    BY <2>2, <2>3
  <2>5. Single(q) /\ Len(q) # 0 /\ Len(q) <= 3
    BY <2>2, <2>3 DEF Single
  <2>6. Post("rdma", q)
    BY <1>1
  <2>. HIDE DEF q
  <2>7. Asks({q[i] : i \in 1..Len(q)})
    BY <2>3, <2>5, <2>6, Posted
  <2>. QED BY <2>4, <2>7
<1>2. ASSUME Post("rdma", [i \in DOMAIN <<a, b, c>> |->
                     IF i = Len(<<a, b, c>>) THEN <<a, b, c>>[i] ELSE Quietly(<<a, b, c>>[i])])
      PROVE  Asks({Quietly(a), Quietly(b), c})
  <2>. DEFINE q == [i \in DOMAIN <<a, b, c>> |->
                     IF i = Len(<<a, b, c>>) THEN <<a, b, c>>[i] ELSE Quietly(<<a, b, c>>[i])]
  <2>1. q = [i \in 1..3 |-> IF i = 3 THEN c ELSE IF i = 2 THEN Quietly(b) ELSE Quietly(a)]
    OBVIOUS
  <2>2. q \in [1..3 -> WorkRequests] /\ q[1] = Quietly(a) /\ q[2] = Quietly(b) /\ q[3] = c
    BY <2>1
  <2>3. q \in Seq(WorkRequests) /\ Len(q) = 3
    <3>1. q \in UNION {[1..n -> WorkRequests] : n \in Nat}
      BY <2>2
    <3>2. q \in Seq(WorkRequests)
      BY <3>1, SeqDef
    <3>3. DOMAIN q = 1..3 /\ DOMAIN q = 1..Len(q) /\ Len(q) \in Nat
      BY <2>2, <3>2, LenProperties
    <3>. QED BY <3>2, <3>3
  <2>4. {q[i] : i \in 1..Len(q)} = {Quietly(a), Quietly(b), c}
    BY <2>2, <2>3
  <2>5. Single(q) /\ Len(q) # 0 /\ Len(q) <= 3
    BY <2>2, <2>3 DEF Single
  <2>6. Post("rdma", q)
    BY <1>2
  <2>. HIDE DEF q
  <2>7. Asks({q[i] : i \in 1..Len(q)})
    BY <2>3, <2>5, <2>6, Posted
  <2>. QED BY <2>4, <2>7
<1>. QED BY <1>1, <1>2 DEF BatchRead, BatchWrite

-----------------------------------------------------------------------------
(***************************************************************************)
(* The initial state, the adapter and the poll.                            *)
(***************************************************************************)
LEMMA InitOK == Init => IInv
<1>. SUFFICES ASSUME Init PROVE IInv
  OBVIOUS
<1>1. <<>> \in Seq(WorkRequests) /\ <<>> \in Seq(Contexts) /\ Len(<<>>) = 0
  OBVIOUS
<1>2. 1 \in Nodes /\ Last \in Nat
  BY TransfersAssumption DEF Nodes
<1>3. QueuesOK /\ \A c \in Contexts : sq[c] = <<>> /\ executed[c] = 0
  BY <1>1 DEF Init, QueuesOK
<1>4. TypeOK
  <2>1. \A c \in Contexts : /\ sq[c] \in Seq(WorkRequests) /\ Len(sq[c]) <= Depth
                            /\ executed[c] \in 0..Len(sq[c])
    <3>1. \A c \in Contexts : Len(sq[c]) = 0
      BY <1>1, <1>3
    <3>2. 0 <= Depth /\ 0 \in 0..0
      BY TransfersAssumption
    <3>. QED BY <1>1, <1>3, <3>1, <3>2
  <2>2. remote \in [Address -> Content] /\ buf \in [Slots -> Content]
    BY DEF Init, Content
  <2>. QED BY <1>1, <1>2, <2>1, <2>2 DEF Init, TypeOK
<1>5. PolledOK
  BY <1>3 DEF Init, PolledOK, Contexts
<1>6. Awaited = {}
  BY <1>1, <1>3 DEF Awaited
<1>7. StagesOK /\ FetchedOK /\ RemoteIntact /\ ScanForward
  BY <1>6 DEF Init, StagesOK, FetchedOK, RemoteIntact, ScanForward
<1>. QED BY <1>3, <1>4, <1>5, <1>7 DEF IInv

\* The adapter takes the next request of a queue from the awaited ones.
LEMMA Taken ==
  ASSUME IInv, NEW c \in Contexts, executed[c] < Len(sq[c]),
         executed' = [executed EXCEPT ![c] = @ + 1], UNCHANGED sq
  PROVE  LET r == sq[c][executed[c] + 1] IN
         /\ r \in Awaited /\ Awaited' \subseteq Awaited /\ Awaited \subseteq Awaited' \cup {r}
<1>. DEFINE e == executed[c]
            r == sq[c][e + 1]
<1>1. executed \in [Contexts -> Nat] /\ sq[c] \in Seq(WorkRequests) /\ Len(sq[c]) \in Nat
  BY LenProperties DEF IInv, QueuesOK
<1>2. e \in Nat /\ e + 1 \in 1..Len(sq[c]) /\ e + 1 \in e + 1..Len(sq[c])
  BY <1>1
<1>3. r \in WorkRequests
  BY <1>1, <1>2, ElementOfSeq
<1>4. r \in Awaited
  BY <1>2, <1>3 DEF Awaited
<1>5. executed'[c] = e + 1 /\ \A d \in Contexts : d # c => executed'[d] = executed[d]
  BY <1>1
<1>6. \A i \in e + 1..Len(sq[c]) : i = e + 1 \/ i \in executed'[c] + 1..Len(sq[c])
  BY <1>1, <1>2, <1>5
<1>7. \A i \in executed'[c] + 1..Len(sq[c]) : i \in e + 1..Len(sq[c])
  BY <1>1, <1>2, <1>5
<1>8. Awaited' = {x \in WorkRequests :
                     \E d \in Contexts : \E i \in executed'[d] + 1..Len(sq[d]) : sq[d][i] = x}
  BY DEF Awaited
<1>9. ASSUME NEW x \in Awaited' PROVE x \in Awaited
  <2>1. PICK d \in Contexts : \E i \in executed'[d] + 1..Len(sq[d]) : sq[d][i] = x
    BY <1>8, <1>9
  <2>2. PICK i \in executed'[d] + 1..Len(sq[d]) : sq[d][i] = x
    BY <2>1
  <2>3. i \in executed[d] + 1..Len(sq[d])
    BY <1>5, <1>7, <2>2
  <2>. QED BY <1>8, <1>9, <2>2, <2>3 DEF Awaited
<1>10. ASSUME NEW x \in Awaited PROVE x = r \/ x \in Awaited'
  <2>1. PICK d \in Contexts : \E i \in executed[d] + 1..Len(sq[d]) : sq[d][i] = x
    BY <1>10 DEF Awaited
  <2>2. PICK i \in executed[d] + 1..Len(sq[d]) : sq[d][i] = x
    BY <2>1
  <2>3. x = r \/ i \in executed'[d] + 1..Len(sq[d])
    BY <1>5, <1>6, <2>2
  <2>4. x \in WorkRequests
    BY <1>10 DEF Awaited
  <2>. QED BY <1>8, <2>2, <2>3, <2>4
<1>. QED BY <1>4, <1>9, <1>10

\* A read that is executed fills its slot with records it was meant to have.
LEMMA ReadFills ==
  ASSUME IInv, NEW r \in Awaited, Awaited' \subseteq Awaited, Awaited \subseteq Awaited' \cup {r},
         buf' = [buf EXCEPT ![r.slot] = remote[r.node]], UNCHANGED ruined,
         NEW s \in Slots, NEW S \in SUBSET Address, Fetching(s, S)
  PROVE  Fetching(s, S)'
<1>1. r \in WorkRequests /\ r.node \in Address
  BY DEF Awaited, WorkRequests
<1>2. buf \in [Slots -> Content] /\ \A n \in Address \ ruined : remote[n] = n
  BY DEF IInv, TypeOK, RemoteIntact
<1>3. \A x \in Awaited' : x.slot = s => x.node \in S
  BY DEF Fetching
<1>4. CASE r.slot = s
  <2>1. r.node \in S /\ buf'[s] = remote[r.node]
    BY <1>2, <1>4 DEF Fetching
  <2>2. buf'[s] \in S \/ S \cap ruined # {}
    BY <1>1, <1>2, <2>1
  <2>. QED BY <1>3, <2>2 DEF Fetching
<1>5. CASE r.slot # s
  <2>1. buf'[s] = buf[s]
    BY <1>2, <1>5
  <2>2. \A x \in Awaited : x.slot = s => x \in Awaited'
    BY <1>5
  <2>. QED BY <1>3, <2>1, <2>2 DEF Fetching
<1>. QED BY <1>4, <1>5

\* An adapter that executes a request keeps the invariant.
LEMMA ExecuteKeeps == ASSUME IInv, NEW c \in Contexts, Execute(c) PROVE IInv'
<1>. DEFINE r == sq[c][executed[c] + 1]
<1>1. /\ r \in Awaited /\ Awaited' \subseteq Awaited /\ Awaited \subseteq Awaited' \cup {r}
  BY Taken DEF Execute
<1>2. r.kind \in {"read", "write"} /\ r.node \in Address /\ r.slot \in Slots
  BY <1>1 DEF Awaited, WorkRequests
<1>3. /\ r.kind = "read" => buf' = [buf EXCEPT ![r.slot] = remote[r.node]] /\ UNCHANGED remote
      /\ r.kind # "read" => remote' = [remote EXCEPT ![r.node] = buf[r.slot]] /\ UNCHANGED buf
      /\ executed' = [executed EXCEPT ![c] = @ + 1] /\ executed[c] < Len(sq[c])
      /\ UNCHANGED <<sq, op, at, pc, stage, polls, start, scanned, ruined>>
  BY DEF Execute, thread, history
<1>. HIDE DEF r
<1>4. remote \in [Address -> Content] /\ buf \in [Slots -> Content]
  BY DEF IInv, TypeOK
<1>5. TypeOK' /\ QueuesOK'
  <2>1. remote' \in [Address -> Content] /\ buf' \in [Slots -> Content]
    BY <1>2, <1>3, <1>4
  <2>2. executed' \in [Contexts -> Nat]
    BY <1>3 DEF IInv, QueuesOK
  <2>3. \A d \in Contexts : executed'[d] \in 0..Len(sq'[d])
    <3>1. \A d \in Contexts : sq'[d] = sq[d] /\ executed[d] \in 0..Len(sq[d]) /\ Len(sq[d]) \in Nat
      BY <1>3, LenProperties DEF IInv, TypeOK
    <3>2. executed \in [Contexts -> Nat]
      BY DEF IInv, QueuesOK
    <3>3. executed'[c] = executed[c] + 1 /\ \A d \in Contexts : d # c => executed'[d] = executed[d]
      BY <1>3, <3>2
    <3>4. ASSUME NEW d \in Contexts PROVE executed'[d] \in 0..Len(sq'[d])
      <4>1. CASE d = c
        BY <1>3, <3>1, <3>2, <3>3, <4>1
      <4>2. CASE d # c
        BY <3>1, <3>3, <4>2
      <4>. QED BY <4>1, <4>2
    <3>. QED BY <3>4
  <2>. QED BY <1>3, <2>1, <2>2, <2>3 DEF IInv, TypeOK, QueuesOK
<1>6. PolledOK'
  BY <1>3 DEF IInv, PolledOK
<1>7. IF stage = "write" THEN r.kind = "write" /\ Filled(r.slot, r.node) ELSE r.kind = "read"
  BY <1>1 DEF IInv, StagesOK
<1>8. StagesOK'
  <2>1. ASSUME NEW x \in Awaited'
        PROVE  IF stage = "write" THEN x.kind = "write" /\ Filled(x.slot, x.node)'
                                  ELSE x.kind = "read"
    BY <1>1, <1>3, <1>7 DEF IInv, StagesOK, Filled
  <2>. QED BY <1>3, <2>1 DEF IInv, StagesOK
<1>9. RemoteIntact'
  <2>1. CASE stage = "write"
    <3>1. \A n \in Address \ ruined : remote[n] = n
      BY DEF IInv, RemoteIntact
    <3>. QED BY <1>2, <1>3, <1>4, <1>7, <2>1, <3>1 DEF RemoteIntact, Filled
  <2>2. CASE stage # "write"
    BY <1>3, <1>7, <2>2 DEF IInv, RemoteIntact
  <2>. QED BY <2>1, <2>2
<1>10. FetchedOK'
  <2>1. CASE stage = "write"
    BY <1>3, <2>1 DEF IInv, StagesOK, FetchedOK
  <2>2. CASE stage # "write"
    <3>1. buf' = [buf EXCEPT ![r.slot] = remote[r.node]] /\ UNCHANGED ruined
      BY <1>3, <1>7, <2>2
    <3>2. \A s \in Slots, S \in SUBSET Address : Fetching(s, S) => Fetching(s, S)'
      BY <1>1, <3>1, ReadFills
    <3>3. /\ 0 \in Slots /\ 1 \in Slots /\ {at - 1} \in SUBSET Address /\ {at} \in SUBSET Address
          /\ start..Last \in SUBSET Address
      <4>1. at \in 1..Last /\ start \in 1..Last /\ Last \in Nat
        BY TransfersAssumption DEF IInv, TypeOK, Nodes
      <4>. QED BY <4>1 DEF Address, Slots, New
    <3>4. UNCHANGED <<at, start, op, stage>>
      BY <1>3
    <3>5. ASSUME op = "put", stage = "fetch" PROVE Fetching(0, {at - 1})' /\ Fetching(1, {at})'
      <4>1. PICK p : p = at - 1
        OBVIOUS
      <4>2. PICK n : n = at
        OBVIOUS
      <4>3. Fetching(0, {p}) /\ Fetching(1, {n})
        BY <3>5, <4>1, <4>2 DEF IInv, FetchedOK
      <4>4. Fetching(0, {p})' /\ Fetching(1, {n})'
        BY <3>2, <3>3, <4>1, <4>2, <4>3
      <4>. QED BY <3>4, <4>1, <4>2, <4>4 DEF Fetching
    <3>6. ASSUME NEW s \in Slots, Fetching(s, start..Last) PROVE Fetching(s, start..Last)'
      <4>1. PICK S : S = start..Last
        OBVIOUS
      <4>2. Fetching(s, S)'
        BY <3>2, <3>3, <3>6, <4>1
      <4>. QED BY <3>4, <4>1, <4>2 DEF Fetching
    <3>. QED BY <3>3, <3>4, <3>5, <3>6 DEF IInv, FetchedOK
  <2>. QED BY <2>1, <2>2
<1>11. ScanForward'
  BY <1>3 DEF IInv, ScanForward
<1>. QED BY <1>5, <1>6, <1>8, <1>9, <1>10, <1>11 DEF IInv

\* What a poll leaves of a queue: the requests behind the first completion.
LEMMA Retired ==
  ASSUME IInv, NEW c \in Contexts, Completions(c) # {}
  PROVE  LET i == CHOOSE i \in Completions(c) : \A j \in Completions(c) : i <= j IN
         /\ i \in 1..Len(sq[c]) /\ i <= executed[c] /\ sq[c][i].signaled
         /\ \A j \in 1..i - 1 : ~sq[c][j].signaled
         /\ SubSeq(sq[c], i + 1, Len(sq[c])) \in Seq(WorkRequests)
         /\ Len(SubSeq(sq[c], i + 1, Len(sq[c]))) = Len(sq[c]) - i
         /\ \A j \in 1..Len(sq[c]) - i : SubSeq(sq[c], i + 1, Len(sq[c]))[j] = sq[c][i + j]
<1>. DEFINE i == CHOOSE k \in Completions(c) : \A j \in Completions(c) : k <= j
            q == sq[c]
<1>1. q \in Seq(WorkRequests) /\ Len(q) \in Nat /\ executed[c] \in 0..Len(q)
  BY LenProperties DEF IInv, TypeOK
<1>2. Completions(c) \in SUBSET Nat
  BY <1>1 DEF Completions
<1>3. \E k \in Completions(c) : \A j \in Completions(c) : k <= j
  BY <1>2, Minimum
<1>4. i \in Completions(c) /\ \A j \in Completions(c) : i <= j
  BY <1>3
<1>5. i \in 1..executed[c] /\ q[i].signaled
  BY <1>4 DEF Completions
<1>6. i \in 1..Len(q) /\ i <= executed[c] /\ i \in Nat
  BY <1>1, <1>5
<1>7. \A j \in 1..i - 1 : ~q[j].signaled
  <2>1. ASSUME NEW j \in 1..i - 1, q[j].signaled PROVE FALSE
    <3>1. j \in 1..executed[c] /\ j < i
      BY <1>1, <1>6
    <3>2. j \in Completions(c)
      BY <2>1, <3>1 DEF Completions
    <3>. QED BY <1>4, <1>6, <3>1, <3>2
  <2>. QED BY <2>1
<1>. HIDE DEF i
<1>8. \A j \in i + 1..Len(q) : q[j] \in WorkRequests
  <2>1. \A j \in i + 1..Len(q) : j \in 1..Len(q)
    BY <1>1, <1>6
  <2>. QED BY <1>1, <2>1, ElementOfSeq
<1>9. i + 1 \in Int /\ Len(q) \in Int
  BY <1>1, <1>6
<1>10. /\ SubSeq(q, i + 1, Len(q)) \in Seq(WorkRequests)
       /\ Len(SubSeq(q, i + 1, Len(q))) = IF i + 1 <= Len(q) THEN Len(q) - (i + 1) + 1 ELSE 0
       /\ \A j \in 1..Len(q) - (i + 1) + 1 : SubSeq(q, i + 1, Len(q))[j] = q[(i + 1) + j - 1]
  BY <1>8, <1>9, SubSeqProperties
<1>11. Len(SubSeq(q, i + 1, Len(q))) = Len(q) - i
  BY <1>1, <1>6, <1>10
<1>12. \A j \in 1..Len(q) - i : SubSeq(q, i + 1, Len(q))[j] = q[i + j]
  <2>1. \A j \in 1..Len(q) - i : j \in 1..Len(q) - (i + 1) + 1 /\ (i + 1) + j - 1 = i + j
    BY <1>1, <1>6
  <2>. QED BY <1>10, <2>1
<1>. QED BY <1>5, <1>6, <1>7, <1>10, <1>11, <1>12 DEF i

\* A thread that polls keeps the invariant.
LEMMA PollKeeps == ASSUME IInv, Poll PROVE IInv'
<1>. DEFINE c == Head(polls)
<1>1. polls \in Seq(Contexts) /\ polls # <<>> /\ pc = "poll"
  BY DEF IInv, TypeOK, Poll
<1>2. c \in Contexts
  BY <1>1, HeadTailProperties
<1>3. Completions(c) # {}
  BY DEF Poll
<1>4. PICK i : i = CHOOSE k \in Completions(c) : \A j \in Completions(c) : k <= j
  OBVIOUS
<1>5. PICK q : q = SubSeq(sq[c], i + 1, Len(sq[c]))
  OBVIOUS
<1>6. /\ sq' = [sq EXCEPT ![c] = q] /\ executed' = [executed EXCEPT ![c] = @ - i]
      /\ polls' = Tail(polls) /\ pc' = (IF Len(polls) = 1 THEN "use" ELSE "poll")
      /\ UNCHANGED <<remote, buf, op, at, stage, start, scanned, ruined>>
  BY <1>4, <1>5 DEF Poll, history
<1>7. /\ i \in 1..Len(sq[c]) /\ i <= executed[c] /\ sq[c][i].signaled
      /\ \A j \in 1..i - 1 : ~sq[c][j].signaled
      /\ q \in Seq(WorkRequests) /\ Len(q) = Len(sq[c]) - i
      /\ \A j \in 1..Len(sq[c]) - i : q[j] = sq[c][i + j]
  <2>1. LET k == CHOOSE k \in Completions(c) : \A j \in Completions(c) : k <= j IN
         /\ k \in 1..Len(sq[c]) /\ k <= executed[c] /\ sq[c][k].signaled
         /\ \A j \in 1..k - 1 : ~sq[c][j].signaled
         /\ SubSeq(sq[c], k + 1, Len(sq[c])) \in Seq(WorkRequests)
         /\ Len(SubSeq(sq[c], k + 1, Len(sq[c]))) = Len(sq[c]) - k
         /\ \A j \in 1..Len(sq[c]) - k : SubSeq(sq[c], k + 1, Len(sq[c]))[j] = sq[c][k + j]
    BY <1>2, <1>3, Retired
  <2>. QED BY <1>4, <1>5, <2>1
<1>. HIDE DEF c
<1>8. /\ sq \in [Contexts -> Seq(WorkRequests)] /\ executed \in [Contexts -> Nat]
      /\ \A d \in Contexts : Len(sq[d]) \in Nat /\ Len(sq[d]) <= Depth
                             /\ executed[d] \in 0..Len(sq[d])
  BY LenProperties DEF IInv, QueuesOK, TypeOK
<1>9. /\ sq'[c] = q /\ executed'[c] = executed[c] - i
      /\ \A d \in Contexts : d # c => sq'[d] = sq[d] /\ executed'[d] = executed[d]
  BY <1>2, <1>6, <1>8
<1>10. executed[c] - i \in 0..Len(q) /\ Len(q) \in Nat /\ Len(q) <= Depth
  BY <1>2, <1>7, <1>8, TransfersAssumption
<1>11. QueuesOK'
  <2>1. executed[c] - i \in Nat
    BY <1>10
  <2>. QED BY <1>2, <1>6, <1>7, <1>8, <2>1 DEF QueuesOK
<1>12. Tail(polls) \in Seq(Contexts) /\ (Tail(polls) = <<>> <=> Len(polls) = 1)
  <2>1. Tail(polls) \in Seq(Contexts) /\ Len(Tail(polls)) = Len(polls) - 1 /\ Len(polls) \in Nat
    BY <1>1, HeadTailProperties, LenProperties
  <2>2. Tail(polls) = <<>> <=> Len(Tail(polls)) = 0
    BY <2>1, EmptySeq
  <2>. QED BY <2>1, <2>2
<1>13. TypeOK'
  <2>1. \A d \in Contexts : /\ sq'[d] \in Seq(WorkRequests) /\ Len(sq'[d]) <= Depth
                            /\ executed'[d] \in 0..Len(sq'[d])
    BY <1>7, <1>8, <1>9, <1>10
  <2>2. pc' \in {"idle", "poll", "use"} /\ polls' \in Seq(Contexts) /\ (pc' = "poll" <=> polls' # <<>>)
    BY <1>6, <1>12
  <2>. QED BY <1>6, <2>1, <2>2 DEF IInv, TypeOK
<1>14. Awaited' = Awaited
  <2>1. Awaited' = {x \in WorkRequests :
                      \E d \in Contexts : \E j \in executed'[d] + 1..Len(sq'[d]) : sq'[d][j] = x}
    BY DEF Awaited
  <2>2. ASSUME NEW x \in Awaited' PROVE x \in Awaited
    <3>1. PICK d \in Contexts : \E j \in executed'[d] + 1..Len(sq'[d]) : sq'[d][j] = x
      BY <2>1, <2>2
    <3>2. PICK j \in executed'[d] + 1..Len(sq'[d]) : sq'[d][j] = x
      BY <3>1
    <3>3. x \in WorkRequests
      BY <2>1, <2>2
    <3>4. CASE d = c
      <4>1. i + j \in executed[c] + 1..Len(sq[c]) /\ j \in 1..Len(sq[c]) - i
        BY <1>2, <1>7, <1>8, <1>9, <1>10, <3>2, <3>4
      <4>2. sq[c][i + j] = x
        BY <1>7, <1>9, <3>2, <3>4, <4>1
      <4>. QED BY <1>2, <3>3, <4>1, <4>2 DEF Awaited
    <3>5. CASE d # c
      BY <1>9, <3>2, <3>3, <3>5 DEF Awaited
    <3>. QED BY <3>4, <3>5
  <2>3. ASSUME NEW x \in Awaited PROVE x \in Awaited'
    <3>1. PICK d \in Contexts : \E j \in executed[d] + 1..Len(sq[d]) : sq[d][j] = x
      BY <2>3 DEF Awaited
    <3>2. PICK j \in executed[d] + 1..Len(sq[d]) : sq[d][j] = x
      BY <3>1
    <3>3. x \in WorkRequests
      BY <2>3 DEF Awaited
    <3>4. CASE d = c
      <4>1. j - i \in executed'[c] + 1..Len(sq'[c]) /\ j - i \in 1..Len(sq[c]) - i /\ i + (j - i) = j
        <5>1. j \in executed[c] + 1..Len(sq[c]) /\ executed[c] \in Nat /\ Len(sq[c]) \in Nat
          BY <1>2, <1>8, <3>2, <3>4
        <5>2. i \in Nat /\ i <= executed[c] /\ Len(sq'[c]) = Len(sq[c]) - i
          BY <1>7, <1>9, <5>1
        <5>. QED BY <1>9, <5>1, <5>2
      <4>2. sq'[c][j - i] = x
        BY <1>7, <1>9, <3>2, <3>4, <4>1
      <4>. QED BY <1>2, <2>1, <3>3, <4>1, <4>2
    <3>5. CASE d # c
      BY <1>9, <2>1, <3>2, <3>3, <3>5
    <3>. QED BY <3>4, <3>5
  <2>. QED BY <2>2, <2>3
<1>15. PolledOK'
  <2>1. ASSUME Single(sq[c]) PROVE sq'[c] = <<>>
    <3>1. i = Len(sq[c])
      BY <1>7, <2>1 DEF Single
    <3>2. Len(q) = 0
      BY <1>7, <1>8, <1>2, <3>1
    <3>. QED BY <1>7, <1>9, <3>2, EmptySeq
  <2>2. CASE polls = <<"rdma">> /\ Single(sq["rdma"]) /\ sq["prdma"] = <<>>
    <3>1. c = "rdma" /\ Len(polls) = 1 /\ Tail(polls) = <<>>
      BY <2>2 DEF c
    <3>2. "prdma" \in Contexts /\ "prdma" # c
      BY <3>1 DEF Contexts
    <3>. QED BY <1>6, <1>9, <2>1, <2>2, <3>1, <3>2 DEF PolledOK
  <2>3. CASE polls = <<"prdma">> /\ sq["rdma"] = <<>> /\ Single(sq["prdma"])
    <3>1. c = "prdma" /\ Len(polls) = 1 /\ Tail(polls) = <<>>
      BY <2>3 DEF c
    <3>2. "rdma" \in Contexts /\ "rdma" # c
      BY <3>1 DEF Contexts
    <3>. QED BY <1>6, <1>9, <2>1, <2>3, <3>1, <3>2 DEF PolledOK
  <2>4. CASE /\ polls = <<"rdma", "prdma">> /\ Single(sq["rdma"]) /\ Single(sq["prdma"])
             /\ sq["prdma"] # <<>>
    <3>1. c = "rdma" /\ Len(polls) = 2 /\ Tail(polls) = <<"prdma">>
      BY <2>4 DEF c
    <3>2. "prdma" \in Contexts /\ "prdma" # c
      BY <3>1 DEF Contexts
    <3>. QED BY <1>6, <1>9, <2>1, <2>4, <3>1, <3>2 DEF PolledOK
  <2>5. CASE /\ polls = <<"rdma", "rdma">>
             /\ Len(sq["rdma"]) = 2 /\ sq["rdma"][1].signaled /\ sq["rdma"][2].signaled
             /\ sq["prdma"] = <<>>
    <3>1. c = "rdma" /\ Len(polls) = 2 /\ Tail(polls) = <<"rdma">>
      BY <2>5 DEF c
    <3>2. "prdma" \in Contexts /\ "prdma" # c
      BY <3>1 DEF Contexts
    <3>3. i = 1
      <4>1. i \in 1..2 /\ (i = 2 => 1 \in 1..i - 1)
        BY <1>7, <2>5, <3>1
      <4>. QED BY <1>7, <2>5, <3>1, <4>1
    <3>4. Len(q) = 1 /\ q[1] = sq["rdma"][2]
      BY <1>7, <2>5, <3>1, <3>3
    <3>5. Single(q)
      BY <2>5, <3>4 DEF Single
    <3>6. q # <<>>
      <4>1. Len(q) # 0
        BY <3>4
      <4>. QED BY <1>7, <4>1, EmptySeq, Zenon
    <3>. QED BY <1>6, <1>9, <2>5, <3>1, <3>2, <3>5, <3>6 DEF PolledOK
  <2>. QED BY <1>1, <2>2, <2>3, <2>4, <2>5 DEF IInv, PolledOK
<1>16. StagesOK' /\ FetchedOK' /\ RemoteIntact' /\ ScanForward'
  <2>1. StagesOK'
    BY <1>6, <1>14 DEF IInv, StagesOK, Filled
  <2>2. FetchedOK'
    BY <1>6, <1>14 DEF IInv, FetchedOK, Fetching
  <2>. QED BY <1>6, <2>1, <2>2 DEF IInv, RemoteIntact, ScanForward
<1>. QED BY <1>11, <1>13, <1>15, <1>16 DEF IInv

-----------------------------------------------------------------------------
(***************************************************************************)
(* The operations.                                                         *)
(***************************************************************************)

\* A step that posts R and leaves remote memory and the buffer alone has its types
\* again; the other parts are those of what it asks for.
LEMMA AskedType ==
  ASSUME IInv, NEW R, Asks(R), UNCHANGED <<remote, executed>>, buf' \in [Slots -> Content],
         op' \in {"none", "get", "put", "update", "scan"}, at' \in Nodes,
         stage' \in {"fetch", "pair", "one", "write"},
         start' \in Nodes, scanned' \subseteq Content, ruined' \subseteq Nodes
  PROVE  TypeOK' /\ QueuesOK' /\ PolledOK' /\ Awaited' = R
<1>1. \A c \in Contexts : /\ sq'[c] \in Seq(WorkRequests) /\ Len(sq'[c]) <= Depth
                          /\ executed'[c] \in 0..Len(sq'[c])
  BY DEF Asks
<1>2. polls' \in Seq(Contexts) /\ polls' # <<>> /\ pc' = "poll"
  BY DEF Asks
<1>3. TypeOK'
  BY <1>1, <1>2 DEF IInv, TypeOK
<1>. QED BY <1>3 DEF Asks

\* Nodes and the numbers before them have addresses.
LEMMA Addresses ==
  /\ Last \in Nat /\ Nodes \subseteq Address /\ New \in Address /\ New \notin Nodes
  /\ \A n \in Nodes : n - 1 \in Address /\ n \in Nat /\ n <= Last /\ 1 <= n
  /\ 0 \in Slots /\ 1 \in Slots /\ 2 \in Slots
<1>1. Last \in Nat /\ Last >= 1
  BY TransfersAssumption
<1>. QED BY <1>1 DEF Nodes, Address, New, Slots

\* get: a read of the node, as often as its checksum does not match.
LEMMA GetKeeps ==
  ASSUME IInv, (\E n \in Nodes : CallGet(n)) \/ GetAgain
  PROVE  IInv'
<1>. HIDE DEF IInv
<1>1. PICK n \in Nodes : n = at' /\ FetchAs(n)
  <2>1. CASE GetAgain
    <3>1. at \in Nodes
      BY DEF IInv, TypeOK
    <3>. QED BY <2>1, <3>1 DEF GetAgain
  <2>. QED BY <2>1 DEF CallGet, Call
<1>2. /\ op' = "get" /\ at' = n /\ pc' = "poll" /\ stage' = "fetch" /\ pc # "poll"
      /\ UNCHANGED <<remote, buf, executed, ruined>>
  BY <1>1 DEF CallGet, GetAgain, Call, IInv, StagesOK
<1>3. Asks({Read(n, 0)})
  BY <1>1, <1>2, OneAsked, Addresses
<1>4. \/ start' = start /\ scanned' = scanned
      \/ start' = n /\ scanned' = {}
  <2>1. CASE GetAgain
    BY <2>1 DEF GetAgain
  <2>2. CASE \E m \in Nodes : CallGet(m)
    <3>1. PICK m \in Nodes : CallGet(m)
      BY <2>2
    <3>. QED BY <1>1, <3>1 DEF CallGet, Call
  <2>. QED BY <2>1, <2>2
<1>5. buf \in [Slots -> Content] /\ start \in Nodes /\ scanned \subseteq Content /\ ruined \subseteq Nodes
  BY DEF IInv, TypeOK
<1>6. TypeOK' /\ QueuesOK' /\ PolledOK' /\ Awaited' = {Read(n, 0)}
  BY <1>2, <1>3, <1>4, <1>5, AskedType
<1>7. StagesOK'
  BY <1>2, <1>6, Requests, Addresses DEF StagesOK
<1>8. FetchedOK' /\ RemoteIntact' /\ ScanForward'
  BY <1>2, <1>4 DEF IInv, FetchedOK, RemoteIntact, ScanForward
<1>. QED BY <1>6, <1>7, <1>8 DEF IInv

\* update: a read of the node, and a write to it, which from now on counts as ruined.
LEMMA UpdateKeeps ==
  ASSUME IInv, (\E n \in Updated : CallUpdate(n)) \/ UpdateWrites
  PROVE  IInv'
<1>1. buf \in [Slots -> Content] /\ start \in Nodes /\ scanned \subseteq Content
      /\ ruined \subseteq Nodes /\ at \in Nodes /\ Updated \subseteq Nodes
  BY TransfersAssumption DEF IInv, TypeOK, Nodes
<1>2. CASE \E n \in Updated : CallUpdate(n)
  <2>1. PICK n \in Updated : CallUpdate(n)
    BY <1>2
  <2>2. /\ op' = "update" /\ at' = n /\ pc' = "poll" /\ stage' = "fetch" /\ pc # "poll"
        /\ start' = n /\ scanned' = {} /\ UNCHANGED <<remote, buf, executed, ruined>>
    BY <2>1 DEF CallUpdate, Call
  <2>3. Asks({Read(n, 0)})
    BY <1>1, <2>1, <2>2, OneAsked, Addresses DEF CallUpdate
  <2>4. TypeOK' /\ QueuesOK' /\ PolledOK' /\ Awaited' = {Read(n, 0)}
    BY <1>1, <2>2, <2>3, AskedType
  <2>5. StagesOK'
    BY <1>1, <2>2, <2>4, Requests, Addresses DEF StagesOK
  <2>6. FetchedOK' /\ RemoteIntact' /\ ScanForward'
    BY <2>2 DEF IInv, FetchedOK, RemoteIntact, ScanForward
  <2>. QED BY <2>4, <2>5, <2>6 DEF IInv
<1>3. CASE UpdateWrites
  <2>2. /\ op' = "update" /\ at' = at /\ pc' = "poll" /\ stage' = "write" /\ pc # "poll"
        /\ ruined' = ruined \cup {at}
        /\ UNCHANGED <<remote, buf, executed, start, scanned>>
    BY <1>3 DEF UpdateWrites
  <2>3. Asks({Write(at, 1)})
    <3>1. PICK n \in Nodes : n = at
      BY <1>1
    <3>. QED BY <1>3, <2>2, <3>1, OneAsked, Addresses DEF UpdateWrites
  <2>4. TypeOK' /\ QueuesOK' /\ PolledOK' /\ Awaited' = {Write(at, 1)}
    BY <1>1, <2>2, <2>3, AskedType
  <2>5. StagesOK'
    <3>1. PICK n \in Nodes : n = at
      BY <1>1
    <3>2. n \in Address /\ 1 \in Slots
      BY Addresses
    <3>3. Write(n, 1).kind = "write" /\ Write(n, 1).node = n
      BY <3>2, Requests
    <3>4. \A r \in Awaited' : r.kind = "write" /\ r.node \in ruined'
      BY <2>2, <2>4, <3>1, <3>3
    <3>. QED BY <2>2, <3>4 DEF StagesOK, Filled
  <2>6. FetchedOK' /\ RemoteIntact' /\ ScanForward'
    BY <2>2 DEF IInv, FetchedOK, RemoteIntact, ScanForward
  <2>. QED BY <2>4, <2>5, <2>6 DEF IInv
<1>. QED BY <1>2, <1>3

\* put: a read of the node and of its neighbour ...
LEMMA PutFetches == ASSUME IInv, NEW n \in Nodes, CallPut(n) PROVE IInv'
<1>1. buf \in [Slots -> Content] /\ ruined \subseteq Nodes
  BY DEF IInv, TypeOK
<1>2. /\ op' = "put" /\ at' = n /\ pc' = "poll" /\ stage' = "fetch" /\ pc # "poll"
      /\ start' = n /\ scanned' = {} /\ UNCHANGED <<remote, buf, executed, ruined>>
  BY DEF CallPut, Call
<1>3. n \in Address /\ n - 1 \in Address /\ 0 \in Slots /\ 1 \in Slots
  BY Addresses
<1>4. Asks({Read(n - 1, 0), Read(n, 1)})
  <2>1. FetchTwo(n - 1, n) \/ FetchParallel(n - 1, n)
    BY DEF CallPut
  <2>. QED BY <1>2, <1>3, <2>1, TwoAsked
<1>5. TypeOK' /\ QueuesOK' /\ PolledOK' /\ Awaited' = {Read(n - 1, 0), Read(n, 1)}
  BY <1>1, <1>2, <1>4, AskedType
<1>6. /\ Read(n - 1, 0).kind = "read" /\ Read(n - 1, 0).node = n - 1 /\ Read(n - 1, 0).slot = 0
      /\ Read(n, 1).kind = "read" /\ Read(n, 1).node = n /\ Read(n, 1).slot = 1
  BY <1>3, Requests
<1>7. StagesOK'
  BY <1>2, <1>5, <1>6 DEF StagesOK
<1>8. Fetching(0, {n - 1})' /\ Fetching(1, {n})'
  BY <1>5, <1>6 DEF Fetching
<1>9. FetchedOK'
  <2>1. Fetching(0, {at - 1})' /\ Fetching(1, {at})'
    BY <1>2, <1>8 DEF Fetching
  <2>. QED BY <1>2, <2>1 DEF FetchedOK
<1>10. RemoteIntact' /\ ScanForward'
  BY <1>2 DEF IInv, RemoteIntact, ScanForward
<1>. QED BY <1>5, <1>7, <1>9, <1>10 DEF IInv

\* ... and a write of one, two or three nodes, each from a slot that has been filled
\* from it.
LEMMA PutWrites == ASSUME IInv, PutInPlace \/ PutMorphed \/ PutSplit PROVE IInv'
<1>1. buf \in [Slots -> Content] /\ start \in Nodes /\ scanned \subseteq Content
      /\ ruined \subseteq Nodes /\ at \in Nodes
  BY DEF IInv, TypeOK
<1>2. /\ op = "put" /\ stage = "fetch" /\ pc = "use"
      /\ op' = "put" /\ at' = at /\ pc' = "poll" /\ stage' = "write"
      /\ UNCHANGED <<remote, executed, start, scanned, ruined>>
      /\ buf' = buf \/ buf' = [buf EXCEPT ![2] = New]
  BY DEF PutInPlace, PutMorphed, PutSplit, history
<1>3. PICK n \in Nodes : n = at
  BY <1>1
<1>4. /\ n \in Address /\ n - 1 \in Address /\ New \in Address
      /\ 0 \in Slots /\ 1 \in Slots /\ 2 \in Slots
  BY Addresses
<1>5. Filled(0, n - 1) /\ Filled(1, n)
  <2>1. Fetching(0, {at - 1}) /\ Fetching(1, {at}) /\ Awaited = {}
    BY <1>2, Quiet DEF IInv, FetchedOK
  <2>. QED BY <1>3, <2>1 DEF Fetching, Filled
<1>6. Filled(0, n - 1)' /\ Filled(1, n)'
  BY <1>1, <1>2, <1>4, <1>5 DEF Filled
<1>. DEFINE x == Write(n - 1, 0)
            y == Write(n, 1)
            z == Write(New, 2)
            R1 == {y}
            R2 == {Quietly(x), y}
            R3 == {Quietly(x), Quietly(y), z}
<1>7. /\ x \in WorkRequests /\ y \in WorkRequests /\ z \in WorkRequests
      /\ Quietly(x) \in WorkRequests /\ Quietly(y) \in WorkRequests
      /\ ~Quietly(x).signaled /\ ~Quietly(y).signaled /\ y.signaled /\ z.signaled
      /\ \A r \in {x, Quietly(x), y, Quietly(y), z} : r.kind = "write"
      /\ \A r \in {x, Quietly(x)} : r.slot = 0 /\ r.node = n - 1
      /\ \A r \in {y, Quietly(y)} : r.slot = 1 /\ r.node = n
      /\ z.slot = 2 /\ z.node = New
  BY <1>4, Requests
<1>8. /\ PutInPlace => Asks(R1)
      /\ PutMorphed => Asks(R2)
      /\ PutSplit => Asks(R3) /\ buf'[2] = New
  <2>1. pc # "poll" /\ pc' = "poll" /\ UNCHANGED executed
    BY <1>2
  <2>2. PutInPlace => Asks(R1)
    BY <1>3, <1>4, <2>1, OneAsked DEF PutInPlace
  <2>3. PutMorphed => BatchWrite(<<x, y>>) /\ polls' = <<"rdma">>
    BY <1>3 DEF PutMorphed
  <2>4. PutSplit => BatchWrite(<<x, y, z>>) /\ polls' = <<"rdma">> /\ buf'[2] = New
    BY <1>1, <1>3, <1>4 DEF PutSplit
  <2>. HIDE DEF x, y, z
  <2>5. PutMorphed => Asks(R2)
    BY <1>7, <2>1, <2>3, BatchAsked
  <2>6. PutSplit => Asks(R3)
    BY <1>7, <2>1, <2>4, BatchAsked
  <2>. QED BY <2>2, <2>4, <2>5, <2>6
<1>. HIDE DEF x, y, z
<1>9. PICK R : Asks(R) /\ \/ R = R1
                          \/ R = R2
                          \/ R = R3 /\ buf'[2] = New
  BY <1>8
<1>10. buf' \in [Slots -> Content]
  <2>1. New \in Content
    BY <1>4 DEF Content
  <2>. QED BY <1>1, <1>2, <2>1
<1>11. TypeOK' /\ QueuesOK' /\ PolledOK' /\ Awaited' = R
  BY <1>1, <1>2, <1>9, <1>10, AskedType
<1>12. StagesOK'
  <2>1. ASSUME NEW r \in R PROVE r.kind = "write" /\ Filled(r.slot, r.node)'
    <3>1. \/ r \in {x, Quietly(x)}
          \/ r \in {y, Quietly(y)}
          \/ r = z /\ buf'[2] = New
      BY <1>9, <2>1
    <3>2. CASE r \in {x, Quietly(x)}
      BY <1>6, <1>7, <3>2 DEF Filled
    <3>3. CASE r \in {y, Quietly(y)}
      BY <1>6, <1>7, <3>3 DEF Filled
    <3>4. CASE r = z /\ buf'[2] = New
      BY <1>7, <3>4 DEF Filled
    <3>. QED BY <3>1, <3>2, <3>3, <3>4
  <2>. QED BY <1>2, <1>11, <2>1 DEF StagesOK
<1>13. FetchedOK' /\ RemoteIntact' /\ ScanForward'
  BY <1>2 DEF IInv, FetchedOK, RemoteIntact, ScanForward
<1>. QED BY <1>11, <1>12, <1>13 DEF IInv

\* An operation that returns leaves the queues empty, as it has found them.
LEMMA ReturnKeeps ==
  ASSUME IInv, pc = "use", Return, UNCHANGED <<remote, buf, sq, executed, ruined>>,
         start' \in Nodes, scanned' \subseteq Content, ScanForward'
  PROVE  IInv'
<1>1. pc # "poll" /\ Awaited = {} /\ polls = <<>>
  BY Quiet
<1>2. 1 \in Nodes /\ <<>> \in Seq(Contexts)
  BY TransfersAssumption DEF Nodes
<1>3. Awaited' = {}
  BY <1>1 DEF Awaited
<1>4. TypeOK'
  BY <1>1, <1>2 DEF IInv, TypeOK, Return
<1>5. PolledOK'
  BY <1>1 DEF IInv, PolledOK, Return
<1>6. StagesOK'
  BY <1>3 DEF StagesOK, Return
<1>7. QueuesOK' /\ FetchedOK' /\ RemoteIntact'
  BY DEF IInv, QueuesOK, FetchedOK, RemoteIntact, Return
<1>. QED BY <1>4, <1>5, <1>6, <1>7 DEF IInv

LEMMA ReturnsKeep == ASSUME IInv, GetReturns \/ WriteReturns PROVE IInv'
<1>1. /\ pc = "use" /\ Return /\ start' = 1 /\ scanned' = scanned
      /\ UNCHANGED <<remote, buf, sq, executed, ruined>>
  BY DEF GetReturns, WriteReturns, adapter
<1>2. start \in Nodes /\ scanned \subseteq Content /\ 1 \in Nodes
  BY TransfersAssumption DEF IInv, TypeOK, Nodes
<1>3. ScanForward'
  <2>1. \A n \in start..Last : n \in 1..Last
    BY <1>2, Addresses DEF Nodes
  <2>. QED BY <1>1, <2>1 DEF IInv, ScanForward
<1>. QED BY <1>1, <1>2, <1>3, ReturnKeeps

-----------------------------------------------------------------------------
(***************************************************************************)
(* scan.                                                                   *)
(***************************************************************************)

\* The records of a scan, when it comes to use its buffer: those of nodes from its
\* first on, unless an update has ruined a node.
LEMMA Scanned ==
  ASSUME IInv, pc = "use", op = "scan"
  PROVE  /\ start <= at /\ at \in Nodes /\ start \in Nodes
         /\ ruined = {} => buf[0] \in start..Last
         /\ ruined = {} /\ stage = "pair" => buf[1] \in start..Last
         /\ buf[0] \in Content /\ buf[1] \in Content
<1>1. Awaited = {}
  BY Quiet
<1>2. start <= at /\ Fetching(0, start..Last) /\ (stage = "pair" => Fetching(1, start..Last))
  BY DEF IInv, FetchedOK
<1>. QED BY <1>1, <1>2, Addresses DEF Fetching, IInv, TypeOK

\* What is scanned of a pair.
LEMMA PairScanned ==
  ASSUME IInv, Pair, ScanPair, UNCHANGED <<start, ruined>>
  PROVE  scanned' \subseteq Content /\ ScanForward'
<1>1. scanned' = scanned \cup {buf[0], buf[1]} /\ scanned \subseteq Content
  BY DEF ScanPair, IInv, TypeOK
<1>2. /\ buf[0] \in Content /\ buf[1] \in Content
      /\ ruined = {} => buf[0] \in start..Last /\ buf[1] \in start..Last
  BY Scanned DEF Pair
<1>. QED BY <1>1, <1>2 DEF IInv, ScanForward

\* Reads of nodes from the first one on, into slot 0 at least.  Slot 1 is filled, too,
\* or keeps what it has.
LEMMA ScanAsks ==
  ASSUME IInv, NEW R, Asks(R), UNCHANGED <<remote, buf, executed, ruined>>,
         op' = "scan", stage' \in {"pair", "one"}, at' \in Nodes, start' \in Nodes, start' <= at',
         scanned' \subseteq Content, ScanForward',
         \A r \in R : r.kind = "read" /\ r.node \in start'..Last,
         \E r \in R : r.slot = 0,
         stage' = "pair" => \/ \E r \in R : r.slot = 1
                            \/ buf[1] \in start'..Last
                            \/ (start'..Last) \cap ruined # {}
  PROVE  IInv'
<1>1. buf \in [Slots -> Content] /\ ruined \subseteq Nodes
  BY DEF IInv, TypeOK
<1>2. TypeOK' /\ QueuesOK' /\ PolledOK' /\ Awaited' = R
  BY <1>1, AskedType
<1>3. StagesOK'
  BY <1>2 DEF StagesOK
<1>4. RemoteIntact'
  BY DEF IInv, RemoteIntact
<1>5. Fetching(0, start..Last)' /\ (stage' = "pair" => Fetching(1, start..Last)')
  BY <1>2 DEF Fetching
<1>6. FetchedOK'
  BY <1>5 DEF FetchedOK
<1>. QED BY <1>2, <1>3, <1>4, <1>6 DEF IInv

\* A scan begins with the node and its successor.
LEMMA ScanBegins == ASSUME IInv, NEW n \in Nodes, CallScan(n) PROVE IInv'
<1>1. /\ op' = "scan" /\ at' = n /\ pc' = "poll" /\ pc # "poll"
      /\ start' = n /\ scanned' = {} /\ UNCHANGED <<remote, buf, executed, ruined>>
  BY DEF CallScan, Call
<1>2. /\ n \in Address /\ n \in Nat /\ n <= Last /\ Last \in Nat /\ 1 <= n
      /\ 0 \in Slots /\ 1 \in Slots
  BY Addresses
<1>3. ScanForward'
  BY <1>1 DEF ScanForward
<1>4. CASE n < Last
  <2>1. n + 1 \in Nodes
    BY <1>2, <1>4 DEF Nodes
  <2>2. n + 1 \in Address
    BY <2>1, Addresses
  <2>3. FetchTwo(n, n + 1) /\ stage' = "pair"
    BY <1>4 DEF CallScan
  <2>4. Asks({Read(n, 0), Read(n + 1, 1)})
    BY <1>1, <1>2, <2>2, <2>3, TwoAsked
  <2>5. /\ Read(n, 0).kind = "read" /\ Read(n, 0).node = n /\ Read(n, 0).slot = 0
        /\ Read(n + 1, 1).kind = "read" /\ Read(n + 1, 1).node = n + 1 /\ Read(n + 1, 1).slot = 1
    BY <1>2, <2>2, Requests
  <2>6. n \in n..Last /\ n + 1 \in n..Last
    BY <1>2, <1>4
  <2>7. PICK R : R = {Read(n, 0), Read(n + 1, 1)}
    OBVIOUS
  <2>8. /\ \A r \in R : r.kind = "read" /\ r.node \in n..Last
        /\ \E r \in R : r.slot = 0
        /\ \E r \in R : r.slot = 1
    BY <2>5, <2>6, <2>7
  <2>. QED BY <1>1, <1>2, <1>3, <2>3, <2>4, <2>7, <2>8, ScanAsks
<1>5. CASE ~(n < Last)
  <2>1. FetchAs(n) /\ stage' = "one"
    BY <1>5 DEF CallScan
  <2>2. Asks({Read(n, 0)})
    BY <1>1, <1>2, <2>1, OneAsked
  <2>3. Read(n, 0).kind = "read" /\ Read(n, 0).node = n /\ Read(n, 0).slot = 0
    BY <1>2, Requests
  <2>4. n \in n..Last
    BY <1>2
  <2>5. PICK R : R = {Read(n, 0)}
    OBVIOUS
  <2>6. /\ \A r \in R : r.kind = "read" /\ r.node \in n..Last
        /\ \E r \in R : r.slot = 0
    BY <2>3, <2>4, <2>5
  <2>. QED BY <1>1, <1>2, <1>3, <2>1, <2>2, <2>5, <2>6, ScanAsks
<1>. QED BY <1>4, <1>5

\* It goes on with the next two nodes, both of which are read into slot 0, or with
\* the last one.
LEMMA ScanGoesOn == ASSUME IInv, ScanTwo \/ ScanLast PROVE IInv'
<1>1. /\ Pair /\ ScanPair /\ pc = "use" /\ op = "scan" /\ stage = "pair" /\ pc' = "poll" /\ op' = "scan"
      /\ UNCHANGED <<remote, buf, executed, start, ruined>>
  BY DEF ScanTwo, ScanLast, Pair
<1>2. scanned' \subseteq Content /\ ScanForward'
  BY <1>1, PairScanned
<1>3. /\ start <= at /\ at \in Nodes /\ start \in Nodes /\ start \in Nat /\ at \in Nat
      /\ Last \in Nat /\ 1 <= start
  BY <1>1, Scanned, Addresses
<1>4. buf[1] \in start..Last \/ (start..Last) \cap ruined # {}
  <2>1. Awaited = {} /\ Fetching(1, start..Last)
    BY <1>1, Quiet DEF IInv, FetchedOK
  <2>. QED BY <2>1 DEF Fetching
<1>5. 0 \in Slots
  BY Addresses
<1>6. CASE ScanTwo
  <2>1. /\ at + 3 <= Last /\ at' = at + 2 /\ stage' = "pair"
        /\ FetchTwoAsync(at + 2, at + 3)
    BY <1>1, <1>6 DEF ScanTwo
  <2>2. PICK m : m = at + 2
    OBVIOUS
  <2>3. m \in Nodes /\ m + 1 \in Nodes /\ start <= m /\ m \in start..Last /\ m + 1 \in start..Last
    BY <1>3, <2>1, <2>2 DEF Nodes
  <2>4. FetchTwoAsync(m, m + 1)
    <3>1. m + 1 = at + 3
      BY <1>3, <2>2
    <3>. QED BY <2>1, <2>2, <3>1
  <2>. DEFINE a == Read(m, 0)
              b == Read(m + 1, 0)
  <2>5. m \in Address /\ m + 1 \in Address
    BY <2>3, Addresses
  <2>6. /\ a \in WorkRequests /\ b \in WorkRequests /\ Quietly(a) \in WorkRequests
        /\ Quietly(b) \in WorkRequests /\ ~Quietly(a).signaled /\ ~Quietly(b).signaled
        /\ a.signaled /\ b.signaled /\ b.kind = "read" /\ b.node = m + 1 /\ b.slot = 0
        /\ Quietly(a).kind = "read" /\ Quietly(a).node = m /\ Quietly(a).slot = 0
    BY <1>5, <2>5, Requests
  <2>7. BatchRead(<<a, b>>) /\ polls' = <<"rdma">>
    BY <2>4 DEF FetchTwoAsync
  <2>. HIDE DEF a, b
  <2>8. Asks({Quietly(a), b})
    BY <1>1, <2>6, <2>7, BatchAsked
  <2>9. PICK R : R = {Quietly(a), b}
    OBVIOUS
  <2>10. /\ \A r \in R : r.kind = "read" /\ r.node \in start..Last
         /\ \E r \in R : r.slot = 0
    BY <2>3, <2>6, <2>9
  <2>11. at' \in Nodes /\ start' <= at' /\ start' = start
    BY <1>1, <2>1, <2>2, <2>3
  <2>. QED BY <1>1, <1>2, <1>3, <1>4, <2>1, <2>8, <2>9, <2>10, <2>11, ScanAsks
<1>7. CASE ScanLast
  <2>1. at + 2 = Last /\ at' = Last /\ stage' = "one" /\ FetchAs(Last)
    BY <1>7 DEF ScanLast
  <2>2. Last \in Nodes /\ start <= Last /\ Last \in start..Last
    BY <1>3, <2>1 DEF Nodes
  <2>3. Last \in Address
    BY <2>2, Addresses
  <2>4. Asks({Read(Last, 0)})
    BY <1>1, <2>1, <2>3, OneAsked
  <2>5. Read(Last, 0).kind = "read" /\ Read(Last, 0).node = Last /\ Read(Last, 0).slot = 0
    BY <1>5, <2>3, Requests
  <2>6. PICK R : R = {Read(Last, 0)}
    OBVIOUS
  <2>7. /\ \A r \in R : r.kind = "read" /\ r.node \in start..Last
        /\ \E r \in R : r.slot = 0
    BY <2>2, <2>5, <2>6
  <2>. QED BY <1>1, <1>2, <1>3, <2>1, <2>2, <2>4, <2>6, <2>7, ScanAsks
<1>. QED BY <1>6, <1>7

\* At the end of the list it polls for what it has not asked for ...
LEMMA StrandsKeeps == ASSUME IInv, ScanStrands PROVE IInv'
<1>1. /\ pc = "use" /\ op = "scan" /\ stage = "pair" /\ polls' = <<"rdma">> /\ pc' = "poll"
      /\ UNCHANGED <<remote, buf, sq, executed, op, at, stage, start, scanned, ruined>>
  BY DEF ScanStrands, Pair, adapter, history
<1>2. \A c \in Contexts : sq[c] = <<>>
  BY <1>1, Quiet
<1>3. Awaited' = Awaited
  BY <1>1 DEF Awaited
<1>4. TypeOK'
  <2>1. <<"rdma">> \in Seq(Contexts) /\ <<"rdma">> # <<>>
    BY DEF Contexts
  <2>. QED BY <1>1, <2>1 DEF IInv, TypeOK
<1>5. PolledOK'
  <2>1. sq["rdma"] = <<>> /\ sq["prdma"] = <<>>
    BY <1>2 DEF Contexts
  <2>2. Single(<<>>)
    BY DEF Single
  <2>. QED BY <1>1, <2>1, <2>2 DEF PolledOK
<1>6. StagesOK' /\ QueuesOK' /\ RemoteIntact' /\ ScanForward'
  BY <1>1, <1>3 DEF IInv, StagesOK, QueuesOK, RemoteIntact, ScanForward, Filled
<1>7. FetchedOK'
  BY <1>1, <1>3 DEF IInv, FetchedOK, Fetching
<1>. QED BY <1>4, <1>5, <1>6, <1>7 DEF IInv

\* ... and before that it returns, when it has enough or has come to a last single
\* node.
LEMMA ScanEnds == ASSUME IInv, ScanFull \/ ScanReturns PROVE IInv'
<1>1. /\ pc = "use" /\ op = "scan" /\ Return /\ start' = start
      /\ UNCHANGED <<remote, buf, sq, executed, ruined>>
      /\ scanned' = scanned \/ scanned' = scanned \cup {buf[0]}
  BY DEF ScanFull, ScanReturns, Pair, adapter
<1>2. /\ start \in Nodes /\ buf[0] \in Content
      /\ ruined = {} => buf[0] \in start..Last
  BY <1>1, Scanned
<1>3. scanned' \subseteq Content /\ ScanForward'
  BY <1>1, <1>2 DEF IInv, TypeOK, ScanForward
<1>. QED BY <1>1, <1>2, <1>3, ReturnKeeps

-----------------------------------------------------------------------------
(***************************************************************************)
(* The theorems.                                                           *)
(***************************************************************************)
LEMMA StepOK == IInv /\ [Next]_vars => IInv'
<1>. SUFFICES ASSUME IInv, [Next]_vars PROVE IInv'
  OBVIOUS
<1>1. ASSUME NEW c \in Contexts, Execute(c) PROVE IInv'
  BY <1>1, ExecuteKeeps
<1>2. CASE Poll
  BY <1>2, PollKeeps
<1>3. CASE (\E n \in Nodes : CallGet(n)) \/ GetAgain
  BY <1>3, GetKeeps
<1>4. CASE (\E n \in Updated : CallUpdate(n)) \/ UpdateWrites
  BY <1>4, UpdateKeeps
<1>5. ASSUME NEW n \in Nodes, CallPut(n) PROVE IInv'
  BY <1>5, PutFetches
<1>6. CASE PutInPlace \/ PutMorphed \/ PutSplit
  BY <1>6, PutWrites
<1>7. CASE GetReturns \/ WriteReturns
  BY <1>7, ReturnsKeep
<1>8. ASSUME NEW n \in Nodes, CallScan(n) PROVE IInv'
  BY <1>8, ScanBegins
<1>9. CASE ScanTwo \/ ScanLast
  BY <1>9, ScanGoesOn
<1>10. CASE ScanStrands
  BY <1>10, StrandsKeeps
<1>11. CASE ScanFull \/ ScanReturns
  BY <1>11, ScanEnds
<1>12. CASE UNCHANGED vars
  <2>1. UNCHANGED <<remote, buf, sq, executed, op, at, pc, stage, polls, start, scanned, ruined>>
    BY <1>12 DEF vars, adapter, thread, history
  <2>2. Awaited' = Awaited
    BY <2>1 DEF Awaited
  <2>3. TypeOK' /\ QueuesOK' /\ PolledOK'
    BY <2>1 DEF IInv, TypeOK, QueuesOK, PolledOK
  <2>4. StagesOK' /\ FetchedOK' /\ RemoteIntact' /\ ScanForward'
    BY <2>1, <2>2 DEF IInv, StagesOK, FetchedOK, Fetching, Filled, RemoteIntact, ScanForward
  <2>. QED BY <2>3, <2>4 DEF IInv
<1>. QED BY <1>1, <1>2, <1>3, <1>4, <1>5, <1>6, <1>7, <1>8, <1>9, <1>10, <1>11, <1>12
         DEF Next, Adapter

LEMMA Invariant == Spec => []IInv
<1>. QED BY InitOK, StepOK, PTL DEF Spec

\* Every variable of Transfers keeps its type: the adapter executes no request that a
\* poll has retired, and a thread in poll_one_completion has a context to poll.
THEOREM TypeCorrect == Spec => []TypeOK
<1>1. IInv => TypeOK
  BY DEF IInv
<1>. QED BY <1>1, Invariant, PTL

\* fetch_as, fetch_two, poll_one_completion: whichever of the contexts answers first,
\* no operation leaves a request or a completion behind for the next one.
THEOREM Drained == Spec => []QueuesDrained
<1>1. IInv => QueuesDrained
  BY Quiet DEF QueuesDrained
<1>. QED BY <1>1, Invariant, PTL

\* write_back_morphed and the writes of a split: the slots have been filled from the
\* nodes they are written to, however the adapter interleaves the two contexts.
THEOREM OthersIntact == Spec => []RemoteIntact
<1>1. IInv => RemoteIntact
  BY DEF IInv
<1>. QED BY <1>1, Invariant, PTL

\* scan: although both nodes of fetch_two_async go to one slot, the other slot holds
\* a node from the scan's first on, not what an earlier operation has left.
THEOREM ScanGoesForward == Spec => []ScanForward
<1>1. IInv => ScanForward
  BY DEF IInv
<1>. QED BY <1>1, Invariant, PTL

\* A thread that polls has its completion, or the adapter has a request to execute
\* that gives it one.
PollsAnswered ==
    pc = "poll" => LET c == Head(polls) IN
        \/ Stranded
        \/ Completions(c) # {}
        \/ \E i \in executed[c] + 1..Len(sq[c]) : sq[c][i].signaled

\* What PollsEnd rests on: poll_one_completion never spins for a completion that no
\* request asks for, but when a scan has come to the end of the list.
THEOREM NoIdlePoll == Spec => []PollsAnswered
<1>1. IInv => PollsAnswered
  <2>. SUFFICES ASSUME IInv, pc = "poll", ~Stranded
                PROVE  LET c == Head(polls) IN
                       \/ Completions(c) # {}
                       \/ \E i \in executed[c] + 1..Len(sq[c]) : sq[c][i].signaled
    BY DEF PollsAnswered
  <2>. DEFINE c == Head(polls)
  <2>1. c \in Contexts /\ polls # <<>>
    BY HeadTailProperties DEF IInv, TypeOK
  <2>2. sq[c] \in Seq(WorkRequests) /\ Len(sq[c]) \in Nat /\ executed[c] \in 0..Len(sq[c])
    BY <2>1, LenProperties DEF IInv, QueuesOK, TypeOK
  <2>3. op = "scan" => sq["rdma"] # <<>>
    BY DEF Stranded
  <2>4. \/ sq[c] # <<>> /\ Single(sq[c])
        \/ Len(sq[c]) = 2 /\ sq[c][2].signaled
    BY <2>3 DEF IInv, PolledOK
  <2>. HIDE DEF c
  <2>5. Len(sq[c]) \in 1..Len(sq[c]) /\ sq[c][Len(sq[c])].signaled
    <3>1. sq[c] # <<>> => Len(sq[c]) # 0
      BY <2>2, EmptySeq
    <3>. QED BY <2>2, <2>4, <3>1 DEF Single
  <2>6. CASE Len(sq[c]) \in 1..executed[c]
    BY <2>5, <2>6 DEF Completions, c
  <2>7. CASE Len(sq[c]) \notin 1..executed[c]
    <3>1. Len(sq[c]) \in executed[c] + 1..Len(sq[c])
      BY <2>2, <2>5, <2>7
    <3>. QED BY <2>5, <3>1 DEF c
  <2>. QED BY <2>6, <2>7 DEF c
<1>. QED BY <1>1, Invariant, PTL
=============================================================================
