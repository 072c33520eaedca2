------------------------------- MODULE SetUpProofs -------------------------------
(***************************************************************************)
(* Theorems about SetUp, for every number of memory nodes, set of threads  *)
(* and backlog: a memory node has an RPC id to deliver when its TCP thread *)
(* runs, a registered thread has all its contexts, and what the liveness   *)
(* properties rest on: a certificate that a thread waits for is on its way *)
(* as long as the RDMA thread of the memory node runs.                     *)
(***************************************************************************)
EXTENDS SetUp, SequenceTheorems, TLAPS

-----------------------------------------------------------------------------
(***************************************************************************)
(* The inductive invariant.                                                *)
(***************************************************************************)

\* The port of the memory node that a connection leads to.
PortOf(c) == MemoryOf(c[2])

\* The RPC is there once the loop has been launched, and the TCP thread knows it.
BootOK ==
    \A m \in Memories :
        /\ boot[m] \in {"erpc", "tcp", "up"} => rpc[m]
        /\ boot[m] \in {"tcp", "up"} => told[m]

\* The compute node has met every memory node before the one it is at.
DialledOK ==
    /\ \A m \in Memories : m < dialled => rpc[m] /\ told[m]
    /\ compute \in {"greet", "session"} => boot[dialled] \in {"tcp", "up"}
    /\ compute = "session" => told[dialled]
    /\ compute = "up" => \A m \in Memories : rpc[m] /\ told[m]

\* A thread has made the connections before its turn and none after it.
Pending == {"idle", "connect", "open", "write", "read"}
TurnOK(t) ==
    /\ reg[t] # "idle" => compute = "up"
    /\ reg[t] \in Pending => \A i \in Turns :
          /\ i < turn[t] => clientQP[<<t, i>>] = "rts"
          /\ i > turn[t] => sock[<<t, i>>] = "none"
    /\ reg[t] \in {"idle", "connect"} => sock[At(t)] = "none"
    /\ reg[t] \in {"open", "write"} => sock[At(t)] # "none"
    /\ reg[t] = "read" => sock[At(t)] = "open"
    /\ reg[t] \in {"insert", "registered"} => \A i \in Turns : clientQP[<<t, i>>] = "rts"
    /\ reg[t] = "failed" => \A i \in Turns : clientQP[<<t, i>>] = "none"

TurnsOK == \A t \in Threads : TurnOK(t)

\* A connection waits at its own port, at one place, and has heard of nobody.
BacklogOK ==
    \A m \in Memories : \A k \in 1..Len(backlog[m]) :
        LET c == backlog[m][k] IN
        /\ PortOf(c) = m /\ sock[c] = "open" /\ "server" \notin written[c]
        /\ serving[m] # c
        /\ \A l \in 1..Len(backlog[m]) : l # k => backlog[m][l] # c

\* So does the one that is served, until the certificate is written.
ServingOK ==
    \A m \in Memories :
        /\ serving[m] # NoConnection => PortOf(serving[m]) = m /\ sock[serving[m]] = "open"
        /\ acceptor[m] = "write" => "server" \notin written[serving[m]]
        /\ acceptor[m] = "read" => "server" \in written[serving[m]]

\* An open connection is at its port, is served, or has the server's certificate;
\* unless the RDMA thread has ended.
PlacedOK ==
    \A c \in Connections : sock[c] = "open" =>
        /\ boot[PortOf(c)] = "up"
        /\ \/ \E k \in 1..Len(backlog[PortOf(c)]) : backlog[PortOf(c)][k] = c
           \/ serving[PortOf(c)] = c
           \/ "server" \in written[c]
           \/ acceptor[PortOf(c)] = "ended"

\* The server that has written has read what was there, or is about to.
Answered(c) ==
    \/ serverQP[c] = "rts"
    \/ c \in early
    \/ serving[PortOf(c)] = c /\ acceptor[PortOf(c)] = "read"

AnsweredOK ==
    \A c \in Connections : "server" \in written[c] => sock[c] = "open" /\ Answered(c)

\* Both ends of a connection that are ready have the certificate of the other one.
CertificatesExchanged ==
    \A c \in Connections :
        /\ clientQP[c] = "rts" => "server" \in written[c]
        /\ serverQP[c] = "rts" => "client" \in written[c]

IInv ==
    /\ TypeOK /\ BootOK /\ DialledOK /\ TurnsOK
    /\ BacklogOK /\ ServingOK /\ PlacedOK /\ AnsweredOK /\ CertificatesExchanged

-----------------------------------------------------------------------------
(***************************************************************************)
(* What follows from it.                                                   *)
(***************************************************************************)

\* A registered thread has all its contexts ready, and the other end of each is
\* ready, is being made ready, or has missed the certificate.
ContextsReady ==
    \A t \in Threads : reg[t] = "registered" =>
        \A i \in Turns : clientQP[<<t, i>>] = "rts" /\ Answered(<<t, i>>)

\* A thread that registers has a step to take.
CanGoOn(t) ==
    LET m == MemoryOf(turn[t]) IN
    \/ reg[t] \in {"open", "insert"}
    \/ reg[t] = "connect" /\ (boot[m] # "up" \/ Len(backlog[m]) < Backlog)
    \/ reg[t] = "write" /\ sock[At(t)] \in {"open", "refused"}
    \/ reg[t] = "read" /\ "server" \in written[At(t)]

\* The RDMA thread of a memory node has a step to take.
CanServe(m) ==
    /\ boot[m] = "up"
    /\ \/ acceptor[m] \in {"write", "read"}
       \/ acceptor[m] = "accept" /\ backlog[m] # <<>>

\* Whoever registers goes on, or waits for an RDMA thread that does, or that has ended.
NobodyStuck ==
    \A t \in Threads : ~Returned(t) =>
        \/ CanGoOn(t)
        \/ CanServe(MemoryOf(turn[t]))
        \/ acceptor[MemoryOf(turn[t])] = "ended"

-----------------------------------------------------------------------------
(***************************************************************************)
(* Connections and ports.                                                  *)
(***************************************************************************)

\* A connection is a thread and a turn, and leads to one of the memory nodes.
LEMMA ConnectionFacts ==
  /\ MaxMemory \in Nat \ {0} /\ Backlog \in Nat \ {0} /\ NoConnection \notin Connections
  /\ \A t \in Threads, i \in Turns : <<t, i>> \in Connections /\ PortOf(<<t, i>>) = MemoryOf(i)
  /\ \A c \in Connections : c[1] \in Threads /\ c[2] \in Turns /\ c = <<c[1], c[2]>>
  /\ \A i \in Turns : MemoryOf(i) \in Memories /\ i \in Nat /\ TurnAfter(i) \in Turns
  /\ \A c \in Connections : PortOf(c) \in Memories
<1>1. \A i \in Turns : MemoryOf(i) \in Memories /\ i \in Nat /\ TurnAfter(i) \in Turns
  BY SetUpAssumption DEF Turns, MemoryOf, Memories, TurnAfter
<1>. QED BY <1>1, SetUpAssumption DEF Connections, PortOf

\* The thread is at a connection of its own.
LEMMA AtFacts ==
  ASSUME TypeOK, NEW t \in Threads
  PROVE  /\ turn[t] \in Turns /\ At(t) \in Connections /\ At(t) = <<t, turn[t]>>
         /\ PortOf(At(t)) = MemoryOf(turn[t]) /\ MemoryOf(turn[t]) \in Memories
BY ConnectionFacts DEF TypeOK, At

\* Two connections of which one is a thread's are different if it is another thread's,
\* or has another turn.
LEMMA OtherConnections ==
  ASSUME NEW t \in Threads, NEW u \in Threads, NEW i \in Turns, NEW j \in Turns,
         t # u \/ i # j
  PROVE  <<t, i>> # <<u, j>>
OBVIOUS

-----------------------------------------------------------------------------
(***************************************************************************)
(* What a step that leaves their variables alone keeps.                    *)
(***************************************************************************)

LEMMA BootKept == BootOK /\ UNCHANGED memory => BootOK'
BY DEF BootOK, memory

LEMMA DialledKept == DialledOK /\ UNCHANGED <<memory, node>> => DialledOK'
BY DEF DialledOK, memory, node

LEMMA TurnsKept == TurnsOK /\ UNCHANGED <<compute, client>> => TurnsOK'
BY DEF TurnsOK, TurnOK, client, At

LEMMA BacklogKept == BacklogOK /\ UNCHANGED <<backlog, serving, sock, written>> => BacklogOK'
BY DEF BacklogOK

LEMMA ServingKept == ServingOK /\ UNCHANGED <<acceptor, serving, sock, written>> => ServingOK'
BY DEF ServingOK

LEMMA PlacedKept == PlacedOK /\ UNCHANGED <<boot, server, sock, written>> => PlacedOK'
BY DEF PlacedOK, server

LEMMA AnsweredKept == AnsweredOK /\ UNCHANGED <<server, sock, written, early>> => AnsweredOK'
BY DEF AnsweredOK, Answered, server

LEMMA ExchangedKept ==
  CertificatesExchanged /\ UNCHANGED <<clientQP, serverQP, written>> => CertificatesExchanged'
BY DEF CertificatesExchanged

-----------------------------------------------------------------------------
(***************************************************************************)
(* Types.                                                                  *)
(***************************************************************************)

LEMMA TypeInit == Init => TypeOK
<1>. SUFFICES ASSUME Init PROVE TypeOK
  OBVIOUS
<1>1. dialled \in Memories
  BY ConnectionFacts DEF Init, Memories
<1>2. \A m \in Memories : backlog[m] = <<>> /\ acceptor[m] = "accept" /\ serving[m] = NoConnection
  BY DEF Init
<1>3. turn \in [Threads -> Turns]
  BY ConnectionFacts DEF Init, Turns
<1>4. backlog \in [Memories -> Seq(Connections)]
  <2>1. <<>> \in Seq(Connections)
    OBVIOUS
  <2>. QED BY <2>1 DEF Init
<1>5. \A m \in Memories : Len(backlog[m]) <= Backlog
  <2>1. Len(<<>>) = 0
    OBVIOUS
  <2>. QED BY <1>2, <2>1, ConnectionFacts
<1>. QED BY <1>1, <1>2, <1>3, <1>4, <1>5 DEF Init, TypeOK

\* What a memory node does when it boots, and what the compute node does.
LEMMA TypeBoot ==
  ASSUME TypeOK, NEW m \in Memories,
         StartLoop(m) \/ CreateRpc(m) \/ LoopLaunched(m) \/ LaunchTcp(m) \/ LaunchRdma(m)
  PROVE  TypeOK'
<1>. USE DEF StartLoop, CreateRpc, LoopLaunched, LaunchTcp, LaunchRdma, Boot
<1>. DEFINE Stages == {"down", "starting", "erpc", "tcp", "up"}
<1>1. boot' \in [Memories -> Stages]
  <2>1. boot' = boot \/ \E x \in Stages : boot' = [boot EXCEPT ![m] = x]
    OBVIOUS
  <2>2. boot \in [Memories -> Stages]
    BY DEF TypeOK
  <2>. QED BY <2>1, <2>2
<1>2. rpc' \in [Memories -> BOOLEAN] /\ told' \in [Memories -> BOOLEAN]
  <2>1. rpc \in [Memories -> BOOLEAN] /\ told \in [Memories -> BOOLEAN]
    BY DEF TypeOK
  <2>2. rpc' = rpc \/ rpc' = [rpc EXCEPT ![m] = TRUE]
    OBVIOUS
  <2>3. told' = told \/ told' = [told EXCEPT ![m] = rpc[m]]
    OBVIOUS
  <2>. QED BY <2>1, <2>2, <2>3
<1>3. UNCHANGED <<server, node, client, written, early>>
  OBVIOUS
<1>. HIDE DEF StartLoop, CreateRpc, LoopLaunched, LaunchTcp, LaunchRdma, Boot
<1>. QED BY <1>1, <1>2, <1>3 DEF TypeOK, server, node, client

LEMMA TypeCompute ==
  ASSUME TypeOK, ComputeStep
  PROVE  TypeOK'
<1>1. compute' \in {"dial", "greet", "session", "up", "failed"} /\ dialled' \in Memories
  BY ConnectionFacts DEF TypeOK, ComputeStep, Dial, DialFails, Greet, Session, SessionFails, Compute, Memories
<1>2. UNCHANGED <<memory, server, client, written, early>>
  BY DEF ComputeStep, Dial, DialFails, Greet, Session, SessionFails, Compute
<1>. QED BY <1>1, <1>2 DEF TypeOK, memory, server, client

\* What a thread does.
LEMMA TypeThread ==
  ASSUME TypeOK, NEW t \in Threads, ThreadStep(t)
  PROVE  TypeOK'
<1>. USE DEF Register, Connect, Open, OpenFails, WriteCertificate, WriteFails, ReadCertificate,
            ReadyFails, Insert, Fail
<1>. DEFINE Places == {"idle", "connect", "open", "write", "read", "insert", "registered", "failed"}
<1>1. reg' \in [Threads -> Places]
  <2>1. \E x \in Places : reg' = [reg EXCEPT ![t] = x]
    BY DEF ThreadStep
  <2>2. reg \in [Threads -> Places]
    BY DEF TypeOK
  <2>. QED BY <2>1, <2>2
<1>2. turn' \in [Threads -> Turns]
  <2>1. turn \in [Threads -> Turns] /\ TurnAfter(turn[t]) \in Turns
    BY ConnectionFacts DEF TypeOK
  <2>2. turn' = turn \/ turn' = [turn EXCEPT ![t] = TurnAfter(turn[t])]
    BY DEF ThreadStep, client
  <2>. QED BY <2>1, <2>2
<1>3. sock' \in [Connections -> {"none", "refused", "open"}]
  BY DEF TypeOK, ThreadStep
<1>4. written' \in [Connections -> SUBSET {"client", "server"}]
  <2>1. written' = written \/ written' = [written EXCEPT ![At(t)] = @ \cup {"client"}]
    BY DEF ThreadStep
  <2>2. written \in [Connections -> SUBSET {"client", "server"}] /\ At(t) \in Connections
    BY AtFacts DEF TypeOK
  <2>3. written[At(t)] \cup {"client"} \in SUBSET {"client", "server"}
    BY <2>2
  <2>. QED BY <2>1, <2>2, <2>3
<1>5. clientQP' \in [Connections -> {"none", "reset", "rts"}]
  BY DEF TypeOK, ThreadStep
<1>6. UNCHANGED <<memory, node, acceptor, serving, serverQP, early>>
  BY DEF ThreadStep, server
<1>7. backlog' \in [Memories -> Seq(Connections)] /\ \A m \in Memories : Len(backlog'[m]) <= Backlog
  <2>. DEFINE k == MemoryOf(turn[t])
  <2>1. CASE backlog' = backlog
    BY <2>1 DEF TypeOK
  <2>2. CASE Len(backlog[k]) < Backlog /\ backlog' = [backlog EXCEPT ![k] = Append(@, At(t))]
    <3>1. k \in Memories /\ At(t) \in Connections
      BY AtFacts
    <3>. HIDE DEF k
    <3>2. backlog \in [Memories -> Seq(Connections)] /\ \A m \in Memories : Len(backlog[m]) <= Backlog
      BY DEF TypeOK
    <3>3. /\ Append(backlog[k], At(t)) \in Seq(Connections)
          /\ Len(Append(backlog[k], At(t))) = Len(backlog[k]) + 1 /\ Len(backlog[k]) \in Nat
      BY <3>1, <3>2
    <3>4. backlog' \in [Memories -> Seq(Connections)]
      BY <2>2, <3>2, <3>3
    <3>5. ASSUME NEW m \in Memories PROVE Len(backlog'[m]) <= Backlog
      <4>1. CASE m = k
        BY <2>2, <3>1, <3>2, <3>3, <4>1, ConnectionFacts
      <4>2. CASE m # k
        BY <2>2, <3>2, <4>2
      <4>. QED BY <4>1, <4>2
    <3>. QED BY <3>4, <3>5
  <2>. QED BY <2>1, <2>2 DEF ThreadStep, server
<1>. HIDE DEF Register, Connect, Open, OpenFails, WriteCertificate, WriteFails, ReadCertificate,
              ReadyFails, Insert, Fail
<1>. QED BY <1>1, <1>2, <1>3, <1>4, <1>5, <1>6, <1>7 DEF TypeOK, memory, node

\* What the RDMA thread does.
ServerStep(m) ==
    Accept(m) \/ AcceptEnds(m) \/ ServerWrites(m) \/ ServerReads(m) \/ ServerReadsEarly(m)

LEMMA TypeServer ==
  ASSUME TypeOK, NEW m \in Memories, ServerStep(m)
  PROVE  TypeOK'
<1>. USE DEF ServerStep, Accept, AcceptEnds, ServerWrites, ServerReads, ServerReadsEarly, Serving
<1>. DEFINE Stages == {"accept", "write", "read", "ended"}
<1>1. acceptor \in [Memories -> Stages] /\ serving \in [Memories -> Connections \cup {NoConnection}]
      /\ backlog \in [Memories -> Seq(Connections)]
      /\ \A n \in Memories : serving[n] # NoConnection <=> acceptor[n] \in {"write", "read"}
  BY DEF TypeOK
<1>2. backlog[m] # <<>> => /\ Head(backlog[m]) \in Connections /\ Head(backlog[m]) # NoConnection
                           /\ Tail(backlog[m]) \in Seq(Connections)
                           /\ Len(Tail(backlog[m])) = Len(backlog[m]) - 1
                           /\ Len(backlog[m]) \in Nat
  BY <1>1, ConnectionFacts
<1>3. acceptor' \in [Memories -> Stages]
  <2>1. \/ acceptor' = [acceptor EXCEPT ![m] = "write"] \/ acceptor' = [acceptor EXCEPT ![m] = "read"]
        \/ acceptor' = [acceptor EXCEPT ![m] = "accept"] \/ acceptor' = [acceptor EXCEPT ![m] = "ended"]
    BY Zenon
  <2>. QED BY <1>1, <2>1
<1>4. serving' \in [Memories -> Connections \cup {NoConnection}]
  <2>1. serving' = serving \/ \E x \in Connections \cup {NoConnection} : serving' = [serving EXCEPT ![m] = x]
    BY <1>2
  <2>. QED BY <1>1, <2>1
<1>5. \A n \in Memories : serving'[n] # NoConnection <=> acceptor'[n] \in {"write", "read"}
  <2>1. \A n \in Memories : n # m => serving'[n] = serving[n] /\ acceptor'[n] = acceptor[n]
    BY <1>1
  <2>2. serving'[m] # NoConnection <=> acceptor'[m] \in {"write", "read"}
    BY <1>1, <1>2
  <2>. QED BY <1>1, <2>1, <2>2
<1>6. backlog' \in [Memories -> Seq(Connections)] /\ \A n \in Memories : Len(backlog'[n]) <= Backlog
  <2>0. \A n \in Memories : Len(backlog[n]) <= Backlog
    BY DEF TypeOK
  <2>1. \/ backlog' = backlog
        \/ backlog[m] # <<>> /\ backlog' = [backlog EXCEPT ![m] = Tail(@)]
    OBVIOUS
  <2>2. CASE backlog' = backlog
    BY <1>1, <2>0, <2>2
  <2>3. CASE backlog[m] # <<>> /\ backlog' = [backlog EXCEPT ![m] = Tail(@)]
    <3>1. backlog' \in [Memories -> Seq(Connections)]
      BY <1>1, <1>2, <2>3
    <3>2. \A n \in Memories : n # m => backlog'[n] = backlog[n]
      BY <1>1, <2>3
    <3>3. backlog'[m] = Tail(backlog[m])
      BY <1>1, <2>3
    <3>4. Len(backlog'[m]) <= Backlog
      BY <1>2, <2>0, <2>3, <3>3, ConnectionFacts
    <3>. QED BY <2>0, <3>1, <3>2, <3>4
  <2>. QED BY <2>1, <2>2, <2>3
<1>7. serverQP' \in [Connections -> {"none", "reset", "rts"}]
  <2>1. serverQP' = serverQP \/ \E c \in Connections, x \in {"reset", "rts"} :
                                   serverQP' = [serverQP EXCEPT ![c] = x]
    BY <1>1, <1>2
  <2>2. serverQP \in [Connections -> {"none", "reset", "rts"}]
    BY DEF TypeOK
  <2>. QED BY <2>1, <2>2
<1>8. written' \in [Connections -> SUBSET {"client", "server"}] /\ early' \subseteq Connections
  <2>1. serving[m] \in Connections \/ acceptor[m] = "accept"
    BY <1>1
  <2>2. written \in [Connections -> SUBSET {"client", "server"}] /\ early \subseteq Connections
    BY DEF TypeOK
  <2>3. written' = written \/ written' = [written EXCEPT ![serving[m]] = @ \cup {"server"}]
    OBVIOUS
  <2>4. \/ early' = early
        \/ acceptor[m] = "read" /\ early' = early \cup {serving[m]}
    OBVIOUS
  <2>. QED BY <2>1, <2>2, <2>3, <2>4
<1>9. UNCHANGED <<memory, node, client>>
  OBVIOUS
<1>. HIDE DEF ServerStep, Accept, AcceptEnds, ServerWrites, ServerReads, ServerReadsEarly, Serving
<1>. QED BY <1>3, <1>4, <1>5, <1>6, <1>7, <1>8, <1>9 DEF TypeOK, memory, node, client

LEMMA TypeStutter == TypeOK /\ UNCHANGED vars => TypeOK'
BY DEF TypeOK, vars, memory, server, node, client

-----------------------------------------------------------------------------
(***************************************************************************)
(* The memory nodes boot, and the compute node connects to them.           *)
(***************************************************************************)

LEMMA BootStep ==
  ASSUME IInv, NEW m \in Memories,
         StartLoop(m) \/ CreateRpc(m) \/ LoopLaunched(m) \/ LaunchTcp(m) \/ LaunchRdma(m)
  PROVE  IInv'
<1>1. TypeOK'
  BY TypeBoot DEF IInv
<1>2. UNCHANGED <<server, node, client, written, early>>
  BY DEF StartLoop, CreateRpc, LoopLaunched, LaunchTcp, LaunchRdma, Boot
<1>3. TypeOK /\ BootOK
  BY DEF IInv
<1>. USE DEF StartLoop, CreateRpc, LoopLaunched, LaunchTcp, LaunchRdma, Boot
<1>4. \A n \in Memories : n # m => boot'[n] = boot[n] /\ rpc'[n] = rpc[n] /\ told'[n] = told[n]
  BY <1>3 DEF TypeOK
<1>5. /\ boot'[m] \in {"erpc", "tcp", "up"} => rpc'[m]
      /\ boot'[m] \in {"tcp", "up"} => told'[m]
  BY <1>3 DEF TypeOK, BootOK
<1>6. /\ rpc[m] => rpc'[m]
      /\ told[m] => told'[m]
      /\ boot[m] \in {"tcp", "up"} => boot'[m] \in {"tcp", "up"}
      /\ boot[m] = "up" => boot'[m] = "up"
  BY <1>3 DEF TypeOK, BootOK
<1>. HIDE DEF StartLoop, CreateRpc, LoopLaunched, LaunchTcp, LaunchRdma, Boot
<1>7. BootOK'
  BY <1>3, <1>4, <1>5 DEF BootOK
<1>8. \A n \in Memories :
         /\ rpc[n] => rpc'[n]
         /\ told[n] => told'[n]
         /\ boot[n] \in {"tcp", "up"} => boot'[n] \in {"tcp", "up"}
         /\ boot[n] = "up" => boot'[n] = "up"
  BY <1>4, <1>6
<1>9. DialledOK'
  <2>1. DialledOK /\ dialled \in Memories /\ UNCHANGED <<compute, dialled>>
    BY <1>2 DEF IInv, TypeOK, node
  <2>. QED BY <1>8, <2>1 DEF DialledOK
<1>10. PlacedOK'
  <2>1. PlacedOK /\ UNCHANGED <<server, sock, written>>
    BY <1>2 DEF IInv, client
  <2>. QED BY <1>8, <2>1, ConnectionFacts DEF PlacedOK, server
<1>11. TurnsOK' /\ BacklogOK' /\ ServingOK' /\ AnsweredOK' /\ CertificatesExchanged'
  BY <1>2, TurnsKept, BacklogKept, ServingKept, AnsweredKept, ExchangedKept
     DEF IInv, server, client, node
<1>. QED BY <1>1, <1>7, <1>9, <1>10, <1>11 DEF IInv

LEMMA ComputeKeeps ==
  ASSUME IInv, ComputeStep
  PROVE  IInv'
<1>1. TypeOK'
  BY TypeCompute DEF IInv
<1>2. UNCHANGED <<memory, server, client, written, early>>
  BY DEF ComputeStep, Dial, DialFails, Greet, Session, SessionFails, Compute
<1>3. TypeOK /\ BootOK /\ DialledOK /\ dialled \in Memories
  BY DEF IInv, TypeOK
<1>4. DialledOK'
  <2>1. \A m \in Memories : m \in Nat /\ m <= MaxMemory
    BY ConnectionFacts DEF Memories
  <2>2. UNCHANGED <<boot, rpc, told>>
    BY <1>2 DEF memory
  <2>3. CASE Dial
    BY <1>3, <2>2, <2>3 DEF DialledOK, Dial, Compute
  <2>4. CASE DialFails
    BY <1>3, <2>2, <2>4 DEF DialledOK, DialFails, Compute
  <2>5. CASE Greet
    BY <1>3, <2>2, <2>5 DEF DialledOK, Greet, Compute
  <2>6. CASE Session
    <3>1. rpc[dialled] /\ told[dialled] /\ \A m \in Memories : m < dialled => rpc[m] /\ told[m]
      BY <1>3, <2>6 DEF DialledOK, Session, Compute
    <3>2. CASE dialled = MaxMemory /\ Compute("session", "up") /\ UNCHANGED dialled
      <4>1. \A m \in Memories : m < dialled \/ m = dialled
        BY <2>1, <3>2, ConnectionFacts
      <4>. QED BY <2>2, <3>1, <3>2, <4>1 DEF DialledOK, Compute
    <3>3. CASE Compute("session", "dial") /\ dialled' = dialled + 1
      <4>1. \A m \in Memories : m < dialled' => m < dialled \/ m = dialled
        BY <1>3, <2>1, <3>3
      <4>. QED BY <2>2, <3>1, <3>3, <4>1 DEF DialledOK, Compute
    <3>. QED BY <2>6, <3>2, <3>3 DEF Session
  <2>7. CASE SessionFails
    BY <1>3, <2>2, <2>7 DEF DialledOK, SessionFails, Compute
  <2>. QED BY <2>3, <2>4, <2>5, <2>6, <2>7 DEF ComputeStep
<1>5. TurnsOK'
  <2>1. TurnsOK /\ compute # "up" /\ UNCHANGED client
    BY <1>2 DEF IInv, ComputeStep, Dial, DialFails, Greet, Session, SessionFails, Compute
  <2>. QED BY <2>1 DEF TurnsOK, TurnOK, client, At
<1>6. BootOK' /\ BacklogOK' /\ ServingOK' /\ PlacedOK' /\ AnsweredOK' /\ CertificatesExchanged'
  BY <1>2, BootKept, BacklogKept, ServingKept, PlacedKept, AnsweredKept, ExchangedKept
     DEF IInv, memory, server, client
<1>. QED BY <1>1, <1>4, <1>5, <1>6 DEF IInv

-----------------------------------------------------------------------------
(***************************************************************************)
(* The threads register.                                                   *)
(***************************************************************************)

\* A step of another thread leaves a thread's turn alone.
LEMMA TurnLeftAlone ==
  ASSUME TurnsOK, NEW t \in Threads, NEW u \in Threads, u # t, UNCHANGED compute,
         reg'[u] = reg[u], turn'[u] = turn[u],
         \A i \in Turns : sock'[<<u, i>>] = sock[<<u, i>>] /\ clientQP'[<<u, i>>] = clientQP[<<u, i>>],
         turn[u] \in Turns
  PROVE  TurnOK(u)'
<1>1. At(u)' = At(u) /\ sock'[At(u)] = sock[At(u)]
  BY DEF At
<1>. QED BY <1>1 DEF TurnsOK, TurnOK

LEMMA RegisterKeeps ==
  ASSUME IInv, NEW t \in Threads, Register(t)
  PROVE  IInv'
<1>1. TypeOK'
  BY TypeThread DEF IInv, ThreadStep
<1>2. UNCHANGED <<memory, server, node, turn, sock, clientQP, written, early>> /\ compute = "up"
  BY DEF Register
<1>3. TypeOK /\ TurnsOK
  BY DEF IInv
<1>4. ASSUME NEW u \in Threads PROVE TurnOK(u)'
  <2>1. CASE u = t
    <3>1. reg[t] = "idle" /\ reg'[t] = "connect" /\ At(t)' = At(t)
      BY <1>2, <1>3 DEF Register, TypeOK, At
    <3>. QED BY <1>2, <1>3, <2>1, <3>1 DEF TurnsOK, TurnOK, node, Pending
  <2>2. CASE u # t
    <3>1. reg'[u] = reg[u] /\ turn[u] \in Turns
      BY <1>3, <2>2 DEF Register, TypeOK
    <3>. QED BY <1>2, <1>3, <2>2, <3>1, TurnLeftAlone DEF node
  <2>. QED BY <2>1, <2>2
<1>5. BootOK' /\ DialledOK' /\ BacklogOK' /\ ServingOK' /\ PlacedOK' /\ AnsweredOK'
      /\ CertificatesExchanged'
  BY <1>2, BootKept, DialledKept, BacklogKept, ServingKept, PlacedKept, AnsweredKept, ExchangedKept
     DEF IInv, memory, server, node
<1>. QED BY <1>1, <1>4, <1>5 DEF IInv, TurnsOK

\* The socket is refused, or the connection is the last of the backlog.
LEMMA ConnectKeeps ==
  ASSUME IInv, NEW t \in Threads, Connect(t)
  PROVE  IInv'
<1>. DEFINE n == MemoryOf(turn[t])
            c == At(t)
<1>1. TypeOK'
  BY TypeThread DEF IInv, ThreadStep
<1>2. UNCHANGED <<memory, acceptor, serving, serverQP, node, turn, clientQP, written, early>>
  BY DEF Connect
<1>3. TypeOK /\ TurnsOK
  BY DEF IInv
<1>4. c \in Connections /\ n \in Memories /\ PortOf(c) = n /\ turn[t] \in Turns /\ c = <<t, turn[t]>>
  BY <1>3, AtFacts
<1>5. reg[t] = "connect" /\ sock[c] = "none" /\ reg'[t] = "open" /\ sock'[c] \in {"open", "refused"}
      /\ \A d \in Connections : d # c => sock'[d] = sock[d]
  <2>1. reg[t] = "connect" /\ sock[c] = "none"
    BY <1>3 DEF Connect, TurnsOK, TurnOK
  <2>2. reg'[t] = "open"
    BY <1>3 DEF Connect, TypeOK
  <2>3. sock \in [Connections -> {"none", "refused", "open"}]
    BY <1>3 DEF TypeOK
  <2>4. sock' = [sock EXCEPT ![c] = "open"] \/ sock' = [sock EXCEPT ![c] = "refused"]
    BY DEF Connect
  <2>. HIDE DEF c
  <2>. QED BY <1>4, <2>1, <2>2, <2>3, <2>4
<1>6. \/ /\ sock'[c] = "open" /\ boot[n] = "up"
         /\ backlog' = [backlog EXCEPT ![n] = Append(@, c)]
      \/ sock'[c] = "refused" /\ UNCHANGED backlog
  BY <1>3, <1>4 DEF Connect, TypeOK
<1>7. ASSUME NEW u \in Threads PROVE TurnOK(u)'
  <2>1. \A i \in Turns : <<u, i>> \in Connections /\ (u # t \/ i # turn[t] => <<u, i>> # c)
    BY <1>4, ConnectionFacts
  <2>2. CASE u = t
    <3>1. At(t)' = c
      BY <1>2 DEF At
    <3>2. \A i \in Turns : i > turn[t] => sock'[<<t, i>>] = sock[<<t, i>>]
      BY <1>4, <1>5, <2>1, <2>2, ConnectionFacts
    <3>. QED BY <1>2, <1>3, <1>5, <2>2, <3>1, <3>2 DEF TurnsOK, TurnOK, node, Pending
  <2>3. CASE u # t
    <3>1. reg'[u] = reg[u] /\ turn[u] \in Turns
      BY <1>3, <2>3 DEF Connect, TypeOK
    <3>. QED BY <1>2, <1>3, <1>5, <2>1, <2>3, <3>1, TurnLeftAlone DEF node
  <2>. QED BY <2>2, <2>3
<1>8. "server" \notin written[c]
  BY <1>4, <1>5 DEF IInv, AnsweredOK
<1>9. \A m \in Memories : serving[m] # c
  BY <1>4, <1>5, ConnectionFacts DEF IInv, ServingOK
<1>10. \A m \in Memories : backlog[m] \in Seq(Connections)
  BY <1>3 DEF TypeOK
<1>11. \A m \in Memories : \A k \in 1..Len(backlog[m]) : backlog[m][k] # c
  BY <1>5 DEF IInv, BacklogOK
<1>12. ASSUME NEW m \in Memories
       PROVE  \/ backlog'[m] = backlog[m]
              \/ m = n /\ sock'[c] = "open" /\ backlog'[m] = Append(backlog[m], c)
  BY <1>3, <1>4, <1>6 DEF TypeOK
<1>. HIDE DEF n, c
<1>13. BacklogOK'
  <2>1. SUFFICES ASSUME NEW m \in Memories, NEW k \in 1..Len(backlog'[m])
                 PROVE  /\ PortOf(backlog'[m][k]) = m /\ sock'[backlog'[m][k]] = "open"
                        /\ "server" \notin written[backlog'[m][k]]
                        /\ serving[m] # backlog'[m][k]
                        /\ \A l \in 1..Len(backlog'[m]) : l # k => backlog'[m][l] # backlog'[m][k]
    BY <1>2 DEF BacklogOK, PortOf
  <2>2. \A j \in 1..Len(backlog[m]) :
           /\ backlog[m][j] \in Connections /\ backlog[m][j] # c
           /\ PortOf(backlog[m][j]) = m /\ sock'[backlog[m][j]] = "open"
           /\ "server" \notin written[backlog[m][j]]
           /\ serving[m] # backlog[m][j]
           /\ \A l \in 1..Len(backlog[m]) : l # j => backlog[m][l] # backlog[m][j]
    BY <1>5, <1>10, <1>11 DEF IInv, BacklogOK
  <2>3. CASE backlog'[m] = backlog[m]
    BY <2>2, <2>3
  <2>4. CASE m = n /\ sock'[c] = "open" /\ backlog'[m] = Append(backlog[m], c)
    <3>1. /\ Len(backlog'[m]) = Len(backlog[m]) + 1 /\ Len(backlog[m]) \in Nat
          /\ \A j \in 1..Len(backlog[m]) : backlog'[m][j] = backlog[m][j]
          /\ backlog'[m][Len(backlog[m]) + 1] = c
      BY <1>4, <1>10, <2>4
    <3>2. \A j \in 1..Len(backlog'[m]) : j \in 1..Len(backlog[m]) \/ j = Len(backlog[m]) + 1
      BY <3>1
    <3>3. CASE k \in 1..Len(backlog[m])
      <4>1. backlog'[m][k] = backlog[m][k]
        BY <3>1, <3>3
      <4>2. \A l \in 1..Len(backlog'[m]) : l # k => backlog'[m][l] # backlog[m][k]
        BY <2>2, <3>1, <3>2, <3>3
      <4>. QED BY <2>2, <3>3, <4>1, <4>2
    <3>4. CASE k = Len(backlog[m]) + 1
      <4>1. backlog'[m][k] = c
        BY <3>1, <3>4
      <4>2. \A l \in 1..Len(backlog'[m]) : l # k => backlog'[m][l] # c
        BY <2>2, <3>1, <3>2, <3>4
      <4>. QED BY <1>4, <1>8, <1>9, <2>4, <4>1, <4>2
    <3>. QED BY <3>2, <3>3, <3>4
  <2>. QED BY <1>12, <2>3, <2>4
<1>14. ServingOK'
  BY <1>2, <1>5, <1>9, <1>3 DEF IInv, ServingOK, TypeOK, PortOf
<1>15. PlacedOK'
  <2>1. SUFFICES ASSUME NEW d \in Connections, sock'[d] = "open"
                 PROVE  /\ boot[PortOf(d)] = "up"
                        /\ \/ \E k \in 1..Len(backlog'[PortOf(d)]) : backlog'[PortOf(d)][k] = d
                           \/ serving[PortOf(d)] = d
                           \/ "server" \in written[d]
                           \/ acceptor[PortOf(d)] = "ended"
    BY <1>2 DEF PlacedOK, PortOf, memory
  <2>2. CASE d = c
    <3>1. boot[n] = "up" /\ backlog'[n] = Append(backlog[n], c)
      BY <1>3, <1>4, <1>6, <2>1, <2>2 DEF TypeOK
    <3>2. Len(backlog'[n]) \in 1..Len(backlog'[n]) /\ backlog'[n][Len(backlog'[n])] = c
      BY <1>4, <1>10, <3>1
    <3>. QED BY <1>4, <2>2, <3>1, <3>2
  <2>3. CASE d # c
    <3>1. sock[d] = "open" /\ PortOf(d) \in Memories
      BY <1>5, <2>1, <2>3, ConnectionFacts
    <3>2. \A k \in 1..Len(backlog[PortOf(d)]) :
             k \in 1..Len(backlog'[PortOf(d)]) /\ backlog'[PortOf(d)][k] = backlog[PortOf(d)][k]
      BY <1>4, <1>10, <1>12, <3>1
    <3>. QED BY <3>1, <3>2 DEF IInv, PlacedOK
  <2>. QED BY <2>2, <2>3
<1>16. AnsweredOK'
  BY <1>2, <1>5, <1>8 DEF IInv, AnsweredOK, Answered, PortOf
<1>17. BootOK' /\ DialledOK' /\ CertificatesExchanged'
  BY <1>2, BootKept, DialledKept, ExchangedKept DEF IInv, node
<1>. QED BY <1>1, <1>7, <1>13, <1>14, <1>15, <1>16, <1>17 DEF IInv, TurnsOK

\* The result of Connect has been seen: the queue pair is made.
LEMMA OpenKeeps ==
  ASSUME IInv, NEW t \in Threads, Open(t)
  PROVE  IInv'
<1>. DEFINE c == At(t)
<1>1. TypeOK'
  BY TypeThread DEF IInv, ThreadStep
<1>2. UNCHANGED <<memory, server, node, turn, sock, written, early>>
  BY DEF Open
<1>3. TypeOK /\ TurnsOK
  BY DEF IInv
<1>4. c \in Connections /\ turn[t] \in Turns /\ c = <<t, turn[t]>>
  BY <1>3, AtFacts
<1>5. /\ reg[t] = "open" /\ reg'[t] = "write" /\ clientQP'[c] = "reset"
      /\ \A d \in Connections : d # c => clientQP'[d] = clientQP[d]
  BY <1>3, <1>4 DEF Open, TypeOK
<1>. HIDE DEF c
<1>6. ASSUME NEW u \in Threads PROVE TurnOK(u)'
  <2>1. \A i \in Turns : <<u, i>> \in Connections /\ (u # t \/ i # turn[t] => <<u, i>> # c)
    BY <1>4, ConnectionFacts
  <2>2. CASE u = t
    <3>1. At(t)' = At(t)
      BY <1>2 DEF At
    <3>2. \A i \in Turns : i < turn[t] => clientQP'[<<t, i>>] = clientQP[<<t, i>>]
      BY <1>4, <1>5, <2>1, <2>2, ConnectionFacts
    <3>. QED BY <1>2, <1>3, <1>5, <2>2, <3>1, <3>2 DEF TurnsOK, TurnOK, node, Pending
  <2>3. CASE u # t
    <3>1. reg'[u] = reg[u] /\ turn[u] \in Turns
      BY <1>3, <2>3 DEF Open, TypeOK
    <3>. QED BY <1>2, <1>3, <1>5, <2>1, <2>3, <3>1, TurnLeftAlone DEF node
  <2>. QED BY <2>2, <2>3
<1>7. CertificatesExchanged'
  BY <1>2, <1>5 DEF IInv, CertificatesExchanged, server
<1>8. BootOK' /\ DialledOK' /\ BacklogOK' /\ ServingOK' /\ PlacedOK' /\ AnsweredOK'
  BY <1>2, BootKept, DialledKept, BacklogKept, ServingKept, PlacedKept, AnsweredKept
     DEF IInv, memory, server
<1>. QED BY <1>1, <1>6, <1>7, <1>8 DEF IInv, TurnsOK

\* The contexts of a call that fails are destroyed.
LEMMA FailKeeps ==
  ASSUME IInv, NEW t \in Threads, OpenFails(t) \/ WriteFails(t) \/ ReadyFails(t)
  PROVE  IInv'
<1>1. TypeOK'
  BY TypeThread DEF IInv, ThreadStep
<1>2. UNCHANGED <<memory, server, node, turn, sock, written, early>> /\ reg[t] # "idle"
  BY DEF OpenFails, WriteFails, ReadyFails, Fail
<1>3. TypeOK /\ TurnsOK
  BY DEF IInv
<1>4. clientQP' = [c \in Connections |-> IF c[1] = t THEN "none" ELSE clientQP[c]]
  BY DEF OpenFails, WriteFails, ReadyFails, Fail
<1>5. ASSUME NEW u \in Threads PROVE TurnOK(u)'
  <2>1. \A i \in Turns : <<u, i>> \in Connections /\ <<u, i>>[1] = u
    BY ConnectionFacts
  <2>2. CASE u = t
    <3>1. reg'[t] = "failed"
      BY <1>3 DEF TypeOK, OpenFails, WriteFails, ReadyFails, Fail
    <3>2. \A i \in Turns : clientQP'[<<t, i>>] = "none"
      BY <1>4, <2>1, <2>2
    <3>. QED BY <1>2, <1>3, <2>2, <3>1, <3>2 DEF TurnsOK, TurnOK, node, Pending
  <2>3. CASE u # t
    <3>1. reg'[u] = reg[u] /\ turn[u] \in Turns
      BY <1>3, <2>3 DEF TypeOK, OpenFails, WriteFails, ReadyFails, Fail
    <3>2. \A i \in Turns : clientQP'[<<u, i>>] = clientQP[<<u, i>>]
      BY <1>4, <2>1, <2>3
    <3>. QED BY <1>2, <1>3, <2>3, <3>1, <3>2, TurnLeftAlone DEF node
  <2>. QED BY <2>2, <2>3
<1>6. CertificatesExchanged'
  BY <1>2, <1>4 DEF IInv, CertificatesExchanged, server
<1>7. BootOK' /\ DialledOK' /\ BacklogOK' /\ ServingOK' /\ PlacedOK' /\ AnsweredOK'
  BY <1>2, BootKept, DialledKept, BacklogKept, ServingKept, PlacedKept, AnsweredKept
     DEF IInv, memory, server
<1>. QED BY <1>1, <1>5, <1>6, <1>7 DEF IInv, TurnsOK

LEMMA WriteKeeps ==
  ASSUME IInv, NEW t \in Threads, WriteCertificate(t)
  PROVE  IInv'
<1>. DEFINE c == At(t)
<1>1. TypeOK'
  BY TypeThread DEF IInv, ThreadStep
<1>2. UNCHANGED <<memory, server, node, turn, sock, clientQP, early>>
  BY DEF WriteCertificate
<1>3. TypeOK /\ TurnsOK
  BY DEF IInv
<1>4. c \in Connections
  BY <1>3, AtFacts
<1>5. reg[t] = "write" /\ sock[c] = "open" /\ reg'[t] = "read"
  BY <1>3 DEF WriteCertificate, TypeOK
<1>6. \A d \in Connections : /\ "server" \in written'[d] <=> "server" \in written[d]
                             /\ "client" \in written[d] => "client" \in written'[d]
  BY <1>3, <1>4 DEF WriteCertificate, TypeOK
<1>7. ASSUME NEW u \in Threads PROVE TurnOK(u)'
  <2>1. CASE u = t
    <3>1. At(t)' = c
      BY <1>2 DEF At
    <3>. QED BY <1>2, <1>3, <1>5, <2>1, <3>1 DEF TurnsOK, TurnOK, node, Pending
  <2>2. CASE u # t
    <3>1. reg'[u] = reg[u] /\ turn[u] \in Turns
      BY <1>3, <2>2 DEF WriteCertificate, TypeOK
    <3>. QED BY <1>2, <1>3, <2>2, <3>1, TurnLeftAlone DEF node
  <2>. QED BY <2>1, <2>2
<1>8. BacklogOK'
  <2>0. \A m \in Memories : backlog[m] \in Seq(Connections)
    BY <1>3 DEF TypeOK
  <2>1. \A m \in Memories : \A k \in 1..Len(backlog[m]) : backlog[m][k] \in Connections
    BY <2>0
  <2>. QED BY <1>2, <1>6, <2>1 DEF IInv, BacklogOK, PortOf, server
<1>9. ServingOK'
  BY <1>2, <1>3, <1>6 DEF IInv, ServingOK, PortOf, server, TypeOK
<1>10. PlacedOK'
  BY <1>2, <1>6 DEF IInv, PlacedOK, PortOf, server, memory
<1>11. AnsweredOK' /\ CertificatesExchanged'
  BY <1>2, <1>6 DEF IInv, AnsweredOK, Answered, CertificatesExchanged, PortOf, server
<1>12. BootOK' /\ DialledOK'
  BY <1>2, BootKept, DialledKept DEF IInv
<1>. QED BY <1>1, <1>7, <1>8, <1>9, <1>10, <1>11, <1>12 DEF IInv, TurnsOK

LEMMA ReadKeeps ==
  ASSUME IInv, NEW t \in Threads, ReadCertificate(t)
  PROVE  IInv'
<1>. DEFINE c == At(t)
<1>1. TypeOK'
  BY TypeThread DEF IInv, ThreadStep
<1>2. UNCHANGED <<memory, server, node, sock, written, early>>
  BY DEF ReadCertificate
<1>3. TypeOK /\ TurnsOK
  BY DEF IInv
<1>4. c \in Connections /\ turn[t] \in Turns /\ c = <<t, turn[t]>>
  BY <1>3, AtFacts
<1>5. /\ reg[t] = "read" /\ "server" \in written[c] /\ clientQP'[c] = "rts"
      /\ \A d \in Connections : d # c => clientQP'[d] = clientQP[d]
  BY <1>3, <1>4 DEF ReadCertificate, TypeOK
<1>6. /\ reg'[t] = IF turn[t] = 2 * MaxMemory THEN "insert" ELSE "connect"
      /\ turn'[t] = TurnAfter(turn[t])
  BY <1>3 DEF ReadCertificate, TypeOK
<1>. HIDE DEF c
<1>7. ASSUME NEW u \in Threads PROVE TurnOK(u)'
  <2>1. \A i \in Turns : <<u, i>> \in Connections /\ (u # t \/ i # turn[t] => <<u, i>> # c)
    BY <1>4, ConnectionFacts
  <2>2. CASE u = t
    <3>1. TurnOK(t) /\ compute = "up"
      BY <1>3, <1>5 DEF TurnsOK, TurnOK
    <3>2. \A i \in Turns : i <= turn[t] => clientQP'[<<t, i>>] = "rts"
      <4>1. ASSUME NEW i \in Turns, i <= turn[t], i # turn[t] PROVE clientQP'[<<t, i>>] = "rts"
        <5>1. i < turn[t]
          BY <1>4, <4>1, ConnectionFacts
        <5>. QED BY <1>5, <2>1, <2>2, <3>1, <4>1, <5>1 DEF TurnOK, Pending
      <4>. QED BY <1>4, <1>5, <4>1
    <3>3. CASE turn[t] = 2 * MaxMemory
      <4>1. reg'[t] = "insert" /\ \A i \in Turns : i <= turn[t]
        BY <1>6, <3>3, ConnectionFacts DEF Turns
      <4>. QED BY <1>2, <2>2, <3>1, <3>2, <4>1 DEF TurnOK, Pending, node
    <3>4. CASE turn[t] # 2 * MaxMemory
      <4>1. reg'[t] = "connect" /\ turn'[t] = turn[t] + 1 /\ turn'[t] \in Turns
        BY <1>4, <1>6, <3>4, ConnectionFacts DEF Turns, TurnAfter
      <4>2. \A i \in Turns : /\ i < turn'[t] => i <= turn[t]
                             /\ i > turn'[t] => i > turn[t]
        BY <1>4, <4>1, ConnectionFacts
      <4>3. \A i \in Turns : i > turn'[t] => sock'[<<t, i>>] = "none"
        BY <1>2, <1>5, <3>1, <4>2 DEF TurnOK, Pending
      <4>4. sock'[At(t)'] = "none"
        <5>1. turn'[t] > turn[t]
          BY <1>4, <4>1, ConnectionFacts
        <5>. QED BY <1>2, <1>5, <3>1, <4>1, <5>1 DEF At, TurnOK, Pending
      <4>. QED BY <1>2, <2>2, <3>1, <3>2, <4>1, <4>2, <4>3, <4>4 DEF TurnOK, Pending, node
    <3>. QED BY <3>3, <3>4
  <2>3. CASE u # t
    <3>1. reg'[u] = reg[u] /\ turn'[u] = turn[u] /\ turn[u] \in Turns
      BY <1>3, <2>3 DEF ReadCertificate, TypeOK
    <3>. QED BY <1>2, <1>3, <1>5, <2>1, <2>3, <3>1, TurnLeftAlone DEF node
  <2>. QED BY <2>2, <2>3
<1>8. CertificatesExchanged'
  BY <1>2, <1>5 DEF IInv, CertificatesExchanged, server
<1>9. BootOK' /\ DialledOK' /\ BacklogOK' /\ ServingOK' /\ PlacedOK' /\ AnsweredOK'
  BY <1>2, BootKept, DialledKept, BacklogKept, ServingKept, PlacedKept, AnsweredKept
     DEF IInv, memory, server
<1>. QED BY <1>1, <1>7, <1>8, <1>9 DEF IInv, TurnsOK

LEMMA InsertKeeps ==
  ASSUME IInv, NEW t \in Threads, Insert(t)
  PROVE  IInv'
<1>1. TypeOK'
  BY TypeThread DEF IInv, ThreadStep
<1>2. UNCHANGED <<memory, server, node, turn, sock, clientQP, written, early>>
  BY DEF Insert
<1>3. TypeOK /\ TurnsOK
  BY DEF IInv
<1>4. ASSUME NEW u \in Threads PROVE TurnOK(u)'
  <2>1. CASE u = t
    <3>1. reg[t] = "insert" /\ reg'[t] = "registered"
      BY <1>3 DEF Insert, TypeOK
    <3>. QED BY <1>2, <1>3, <2>1, <3>1 DEF TurnsOK, TurnOK, node, Pending
  <2>2. CASE u # t
    <3>1. reg'[u] = reg[u] /\ turn[u] \in Turns
      BY <1>3, <2>2 DEF Insert, TypeOK
    <3>. QED BY <1>2, <1>3, <2>2, <3>1, TurnLeftAlone DEF node
  <2>. QED BY <2>1, <2>2
<1>5. BootOK' /\ DialledOK' /\ BacklogOK' /\ ServingOK' /\ PlacedOK' /\ AnsweredOK'
      /\ CertificatesExchanged'
  BY <1>2, BootKept, DialledKept, BacklogKept, ServingKept, PlacedKept, AnsweredKept, ExchangedKept
     DEF IInv, memory, server, node
<1>. QED BY <1>1, <1>4, <1>5 DEF IInv, TurnsOK

-----------------------------------------------------------------------------
(***************************************************************************)
(* The RDMA threads serve.                                                 *)
(***************************************************************************)

\* The connection at the head of a backlog is nowhere else, and the others move up.
LEMMA BacklogMoves ==
  ASSUME TypeOK, BacklogOK, NEW m \in Memories, backlog[m] # <<>>
  PROVE  /\ Head(backlog[m]) \in Connections /\ PortOf(Head(backlog[m])) = m
         /\ sock[Head(backlog[m])] = "open" /\ "server" \notin written[Head(backlog[m])]
         /\ \A k \in 1..Len(Tail(backlog[m])) :
               /\ k + 1 \in 1..Len(backlog[m]) /\ Tail(backlog[m])[k] = backlog[m][k + 1]
               /\ Tail(backlog[m])[k] # Head(backlog[m])
         /\ \A k \in 1..Len(backlog[m]) :
               \/ backlog[m][k] = Head(backlog[m])
               \/ \E l \in 1..Len(Tail(backlog[m])) : Tail(backlog[m])[l] = backlog[m][k]
<1>1. backlog[m] \in Seq(Connections)
  BY DEF TypeOK
<1>2. Len(backlog[m]) \in Nat /\ Len(backlog[m]) # 0 /\ 1 \in 1..Len(backlog[m])
  BY <1>1
<1>3. Head(backlog[m]) = backlog[m][1] /\ Head(backlog[m]) \in Connections
  BY <1>1
<1>4. Len(Tail(backlog[m])) = Len(backlog[m]) - 1
  BY <1>1
<1>5. ASSUME NEW k \in 1..Len(Tail(backlog[m]))
      PROVE  k + 1 \in 1..Len(backlog[m]) /\ Tail(backlog[m])[k] = backlog[m][k + 1] /\ k + 1 # 1
  BY <1>1, <1>2, <1>4
<1>6. ASSUME NEW k \in 1..Len(backlog[m]), k # 1
      PROVE  k - 1 \in 1..Len(Tail(backlog[m])) /\ Tail(backlog[m])[k - 1] = backlog[m][k]
  <2>1. k - 1 \in 1..Len(Tail(backlog[m])) /\ k - 1 + 1 = k
    BY <1>2, <1>4, <1>6
  <2>. QED BY <1>5, <2>1
<1>7. \A k \in 1..Len(Tail(backlog[m])) : Tail(backlog[m])[k] # Head(backlog[m])
  BY <1>2, <1>3, <1>5 DEF BacklogOK
<1>8. PortOf(Head(backlog[m])) = m /\ sock[Head(backlog[m])] = "open"
      /\ "server" \notin written[Head(backlog[m])]
  BY <1>2, <1>3 DEF BacklogOK
<1>9. \A k \in 1..Len(backlog[m]) :
               \/ backlog[m][k] = Head(backlog[m])
               \/ \E l \in 1..Len(Tail(backlog[m])) : Tail(backlog[m])[l] = backlog[m][k]
  BY <1>3, <1>6
<1>. QED BY <1>3, <1>5, <1>7, <1>8, <1>9

\* Whether it gets a context or not, the connection is no longer in the backlog.
LEMMA AcceptKeeps ==
  ASSUME IInv, NEW m \in Memories, Accept(m) \/ AcceptEnds(m)
  PROVE  IInv'
<1>. DEFINE c == Head(backlog[m])
            q == Tail(backlog[m])
<1>1. TypeOK'
  BY TypeServer DEF IInv, ServerStep
<1>2. UNCHANGED <<memory, node, client, written, early>>
  BY DEF Accept, AcceptEnds, Serving
<1>3. TypeOK /\ BacklogOK /\ ServingOK
  BY DEF IInv
<1>4. backlog[m] # <<>> /\ boot[m] = "up" /\ acceptor[m] = "accept" /\ serving[m] = NoConnection
  BY <1>3 DEF Accept, AcceptEnds, Serving, TypeOK
<1>5. /\ c \in Connections /\ PortOf(c) = m /\ sock[c] = "open" /\ "server" \notin written[c]
      /\ \A k \in 1..Len(q) : k + 1 \in 1..Len(backlog[m]) /\ q[k] = backlog[m][k + 1] /\ q[k] # c
      /\ \A k \in 1..Len(backlog[m]) : backlog[m][k] = c \/ \E l \in 1..Len(q) : q[l] = backlog[m][k]
  BY <1>3, <1>4, BacklogMoves
<1>6. backlog'[m] = q
  BY <1>3 DEF Accept, AcceptEnds, TypeOK
<1>7. \/ acceptor'[m] = "write" /\ serving'[m] = c /\ serverQP' = [serverQP EXCEPT ![c] = "reset"]
      \/ acceptor'[m] = "ended" /\ serving'[m] = NoConnection /\ serverQP' = serverQP
  BY <1>3, <1>4 DEF Accept, AcceptEnds, Serving, TypeOK
<1>8. \A n \in Memories : n # m => /\ backlog'[n] = backlog[n] /\ acceptor'[n] = acceptor[n]
                                   /\ serving'[n] = serving[n]
  BY <1>3 DEF Accept, AcceptEnds, Serving, TypeOK
<1>9. Len(q) \in Nat /\ \A k \in 1..Len(q) : k \in Nat
  BY <1>3, <1>4 DEF TypeOK
<1>10. \A k \in 1..Len(q) : q[k] # NoConnection
  <2>1. q \in Seq(Connections)
    BY <1>3, <1>4 DEF TypeOK
  <2>. HIDE DEF q
  <2>. QED BY <2>1, ConnectionFacts
<1>. HIDE DEF c, q
<1>11. BacklogOK'
  <2>1. SUFFICES ASSUME NEW n \in Memories, NEW k \in 1..Len(backlog'[n])
                 PROVE  /\ PortOf(backlog'[n][k]) = n /\ sock[backlog'[n][k]] = "open"
                        /\ "server" \notin written[backlog'[n][k]]
                        /\ serving'[n] # backlog'[n][k]
                        /\ \A l \in 1..Len(backlog'[n]) : l # k => backlog'[n][l] # backlog'[n][k]
    BY <1>2 DEF BacklogOK, PortOf, client
  <2>2. CASE n # m
    BY <1>3, <1>8, <2>2 DEF BacklogOK
  <2>3. CASE n = m
    <3>1. \A l \in 1..Len(q) : l # k => q[l] # q[k]
      <4>1. ASSUME NEW l \in 1..Len(q), l # k PROVE q[l] # q[k]
        <5>1. l + 1 # k + 1 /\ k \in 1..Len(q)
          BY <1>6, <1>9, <2>3, <4>1
        <5>. QED BY <1>3, <1>5, <5>1 DEF BacklogOK
      <4>. QED BY <4>1
    <3>2. PortOf(q[k]) = m /\ sock[q[k]] = "open" /\ "server" \notin written[q[k]]
      BY <1>3, <1>5, <1>6, <2>3 DEF BacklogOK
    <3>3. serving'[m] # q[k]
      BY <1>5, <1>6, <1>7, <1>10, <2>3
    <3>. QED BY <1>6, <2>3, <3>1, <3>2, <3>3
  <2>. QED BY <2>2, <2>3
<1>12. ServingOK'
  BY <1>2, <1>3, <1>5, <1>7, <1>8 DEF ServingOK, PortOf, client
<1>13. PlacedOK'
  <2>1. SUFFICES ASSUME NEW d \in Connections, sock[d] = "open"
                 PROVE  /\ boot[PortOf(d)] = "up"
                        /\ \/ \E k \in 1..Len(backlog'[PortOf(d)]) : backlog'[PortOf(d)][k] = d
                           \/ serving'[PortOf(d)] = d
                           \/ "server" \in written[d]
                           \/ acceptor'[PortOf(d)] = "ended"
    BY <1>2 DEF PlacedOK, PortOf, memory, client
  <2>2. /\ boot[PortOf(d)] = "up" /\ PortOf(d) \in Memories
        /\ \/ \E k \in 1..Len(backlog[PortOf(d)]) : backlog[PortOf(d)][k] = d
           \/ serving[PortOf(d)] = d
           \/ "server" \in written[d]
           \/ acceptor[PortOf(d)] = "ended"
    BY <2>1, ConnectionFacts DEF IInv, PlacedOK
  <2>3. CASE PortOf(d) # m
    BY <1>8, <2>2, <2>3
  <2>4. CASE PortOf(d) = m
    <3>1. d # NoConnection
      BY ConnectionFacts
    <3>2. (\E k \in 1..Len(backlog[m]) : backlog[m][k] = d) \/ "server" \in written[d]
      BY <1>4, <2>2, <2>4, <3>1
    <3>3. CASE d = c
      BY <1>7, <2>2, <2>4, <3>3
    <3>4. CASE d # c
      BY <1>5, <1>6, <2>2, <2>4, <3>2, <3>4
    <3>. QED BY <3>3, <3>4
  <2>. QED BY <2>3, <2>4
<1>14. \A d \in Connections : d # c => serverQP'[d] = serverQP[d]
  <2>1. serverQP \in [Connections -> {"none", "reset", "rts"}]
    BY <1>3 DEF TypeOK
  <2>. QED BY <1>7, <2>1
<1>15. AnsweredOK'
  <2>1. SUFFICES ASSUME NEW d \in Connections, "server" \in written[d]
                 PROVE  /\ sock[d] = "open"
                        /\ \/ serverQP'[d] = "rts"
                           \/ d \in early
                           \/ serving'[PortOf(d)] = d /\ acceptor'[PortOf(d)] = "read"
    BY <1>2 DEF AnsweredOK, Answered, PortOf, client
  <2>2. d # c /\ sock[d] = "open" /\ Answered(d) /\ PortOf(d) \in Memories
    BY <1>5, <2>1, ConnectionFacts DEF IInv, AnsweredOK
  <2>. QED BY <1>4, <1>8, <1>14, <2>2 DEF Answered
<1>16. CertificatesExchanged'
  <2>1. serverQP'[c] = "rts" => serverQP[c] = "rts"
    BY <1>3, <1>5, <1>7 DEF TypeOK
  <2>. QED BY <1>2, <1>14, <2>1 DEF IInv, CertificatesExchanged, client
<1>17. BootOK' /\ DialledOK' /\ TurnsOK'
  BY <1>2, BootKept, DialledKept, TurnsKept DEF IInv, node
<1>. QED BY <1>1, <1>11, <1>12, <1>13, <1>15, <1>16, <1>17 DEF IInv

\* The connection that is served, and what a step of its server leaves alone.
LEMMA Served ==
  ASSUME IInv, NEW m \in Memories, acceptor[m] \in {"write", "read"}
  PROVE  /\ serving[m] \in Connections /\ PortOf(serving[m]) = m /\ sock[serving[m]] = "open"
         /\ \A n \in Memories : n # m => serving[n] # serving[m]
         /\ \A n \in Memories : \A k \in 1..Len(backlog[n]) :
               backlog[n][k] # serving[m] /\ backlog[n][k] \in Connections
<1>1. \A n \in Memories : /\ serving[n] \in Connections \cup {NoConnection}
                          /\ serving[n] # NoConnection <=> acceptor[n] \in {"write", "read"}
                          /\ backlog[n] \in Seq(Connections)
  BY DEF IInv, TypeOK
<1>2. serving[m] \in Connections /\ PortOf(serving[m]) = m /\ sock[serving[m]] = "open"
  BY <1>1 DEF IInv, ServingOK
<1>3. \A n \in Memories : n # m => serving[n] # serving[m]
  BY <1>1, <1>2 DEF IInv, ServingOK
<1>4. ASSUME NEW n \in Memories, NEW k \in 1..Len(backlog[n])
      PROVE  backlog[n][k] # serving[m] /\ backlog[n][k] \in Connections
  <2>1. backlog[n][k] \in Connections
    BY <1>1
  <2>. QED BY <1>2, <2>1 DEF IInv, BacklogOK
<1>. QED BY <1>2, <1>3, <1>4

LEMMA ServerWritesKeeps ==
  ASSUME IInv, NEW m \in Memories, ServerWrites(m)
  PROVE  IInv'
<1>. DEFINE c == serving[m]
<1>1. TypeOK'
  BY TypeServer DEF IInv, ServerStep
<1>2. UNCHANGED <<memory, node, client, serving, backlog, serverQP, early>>
  BY DEF ServerWrites, Serving
<1>3. TypeOK
  BY DEF IInv
<1>4. acceptor[m] = "write" /\ acceptor'[m] = "read"
      /\ \A n \in Memories : n # m => acceptor'[n] = acceptor[n]
  BY <1>3 DEF ServerWrites, Serving, TypeOK
<1>5. /\ c \in Connections /\ PortOf(c) = m /\ sock[c] = "open"
      /\ \A n \in Memories : n # m => serving[n] # c
      /\ \A n \in Memories : \A k \in 1..Len(backlog[n]) :
            backlog[n][k] # c /\ backlog[n][k] \in Connections
  BY <1>4, Served
<1>6. /\ "server" \in written'[c] /\ ("client" \in written[c] => "client" \in written'[c])
      /\ \A d \in Connections : d # c => written'[d] = written[d]
  BY <1>3, <1>5 DEF ServerWrites, TypeOK
<1>. HIDE DEF c
<1>7. BacklogOK'
  BY <1>2, <1>5, <1>6 DEF IInv, BacklogOK, PortOf, client
<1>8. ServingOK'
  <2>1. \A n \in Memories : serving[n] \in Connections \/ acceptor[n] \notin {"write", "read"}
    BY <1>3 DEF TypeOK
  <2>2. serving[m] = c
    BY DEF c
  <2>. QED BY <1>2, <1>4, <1>5, <1>6, <2>1, <2>2 DEF IInv, ServingOK, PortOf, client
<1>9. PlacedOK'
  <2>1. \A d \in Connections : "server" \in written[d] => "server" \in written'[d]
    BY <1>6
  <2>2. \A d \in Connections : acceptor[PortOf(d)] = "ended" => acceptor'[PortOf(d)] = "ended"
    BY <1>4, ConnectionFacts
  <2>. QED BY <1>2, <2>1, <2>2 DEF IInv, PlacedOK, PortOf, memory, client
<1>10. AnsweredOK'
  <2>1. SUFFICES ASSUME NEW d \in Connections, "server" \in written'[d]
                 PROVE  /\ sock[d] = "open"
                        /\ \/ serverQP[d] = "rts"
                           \/ d \in early
                           \/ serving[PortOf(d)] = d /\ acceptor'[PortOf(d)] = "read"
    BY <1>2 DEF AnsweredOK, Answered, PortOf, client
  <2>2. CASE d = c
    BY <1>4, <1>5, <2>2 DEF c
  <2>3. CASE d # c
    <3>1. sock[d] = "open" /\ Answered(d) /\ PortOf(d) \in Memories
      BY <1>6, <2>1, <2>3, ConnectionFacts DEF IInv, AnsweredOK
    <3>. QED BY <1>4, <3>1 DEF Answered
  <2>. QED BY <2>2, <2>3
<1>11. CertificatesExchanged'
  BY <1>2, <1>6 DEF IInv, CertificatesExchanged, client
<1>12. BootOK' /\ DialledOK' /\ TurnsOK'
  BY <1>2, BootKept, DialledKept, TurnsKept DEF IInv, node
<1>. QED BY <1>1, <1>7, <1>8, <1>9, <1>10, <1>11, <1>12 DEF IInv

\* In time or not, the server has read, and goes back to accept.
LEMMA ServerReadsKeeps ==
  ASSUME IInv, NEW m \in Memories, ServerReads(m) \/ ServerReadsEarly(m)
  PROVE  IInv'
<1>. DEFINE c == serving[m]
<1>1. TypeOK'
  BY TypeServer DEF IInv, ServerStep
<1>2. UNCHANGED <<memory, node, client, backlog, written>>
  BY DEF ServerReads, ServerReadsEarly, Serving
<1>3. TypeOK
  BY DEF IInv
<1>4. /\ acceptor[m] = "read" /\ acceptor'[m] = "accept" /\ serving'[m] = NoConnection
      /\ \A n \in Memories : n # m => acceptor'[n] = acceptor[n] /\ serving'[n] = serving[n]
  BY <1>3 DEF ServerReads, ServerReadsEarly, Serving, TypeOK
<1>5. /\ c \in Connections /\ PortOf(c) = m /\ sock[c] = "open"
      /\ \A n \in Memories : \A k \in 1..Len(backlog[n]) :
            backlog[n][k] # c /\ backlog[n][k] \in Connections
  BY <1>4, Served
<1>6. "server" \in written[c]
  BY <1>4 DEF IInv, ServingOK
<1>7. \/ serverQP' = [serverQP EXCEPT ![c] = "rts"] /\ "client" \in written[c] /\ early' = early
      \/ serverQP' = serverQP /\ early' = early \cup {c}
  BY DEF ServerReads, ServerReadsEarly
<1>8. /\ \A d \in Connections : /\ d # c => serverQP'[d] = serverQP[d]
                                /\ d \in early => d \in early'
      /\ serverQP'[c] = "rts" \/ c \in early'
      /\ serverQP'[c] = "rts" => serverQP[c] = "rts" \/ "client" \in written[c]
  <2>1. serverQP \in [Connections -> {"none", "reset", "rts"}]
    BY <1>3 DEF TypeOK
  <2>. HIDE DEF c
  <2>. QED BY <1>5, <1>7, <2>1
<1>9. serving[m] = c
  OBVIOUS
<1>. HIDE DEF c
<1>10. BacklogOK'
  BY <1>2, <1>4, <1>5, ConnectionFacts DEF IInv, BacklogOK, PortOf, client
<1>11. ServingOK'
  BY <1>2, <1>4 DEF IInv, ServingOK, PortOf, client
<1>12. PlacedOK'
  <2>1. SUFFICES ASSUME NEW d \in Connections, sock[d] = "open"
                 PROVE  /\ boot[PortOf(d)] = "up"
                        /\ \/ \E k \in 1..Len(backlog[PortOf(d)]) : backlog[PortOf(d)][k] = d
                           \/ serving'[PortOf(d)] = d
                           \/ "server" \in written[d]
                           \/ acceptor'[PortOf(d)] = "ended"
    BY <1>2 DEF PlacedOK, PortOf, memory, client
  <2>2. /\ boot[PortOf(d)] = "up" /\ PortOf(d) \in Memories
        /\ \/ \E k \in 1..Len(backlog[PortOf(d)]) : backlog[PortOf(d)][k] = d
           \/ serving[PortOf(d)] = d
           \/ "server" \in written[d]
           \/ acceptor[PortOf(d)] = "ended"
    BY <2>1, ConnectionFacts DEF IInv, PlacedOK
  <2>. QED BY <1>4, <1>6, <1>9, <2>2
<1>13. AnsweredOK'
  <2>1. SUFFICES ASSUME NEW d \in Connections, "server" \in written[d]
                 PROVE  /\ sock[d] = "open"
                        /\ \/ serverQP'[d] = "rts"
                           \/ d \in early'
                           \/ serving'[PortOf(d)] = d /\ acceptor'[PortOf(d)] = "read"
    BY <1>2 DEF AnsweredOK, Answered, PortOf, client
  <2>2. sock[d] = "open" /\ Answered(d) /\ PortOf(d) \in Memories
    BY <2>1, ConnectionFacts DEF IInv, AnsweredOK
  <2>3. CASE d = c
    BY <1>8, <2>2, <2>3
  <2>4. CASE d # c
    BY <1>4, <1>8, <1>9, <2>2, <2>4 DEF Answered
  <2>. QED BY <2>3, <2>4
<1>14. CertificatesExchanged'
  BY <1>2, <1>8 DEF IInv, CertificatesExchanged, client
<1>15. BootOK' /\ DialledOK' /\ TurnsOK'
  BY <1>2, BootKept, DialledKept, TurnsKept DEF IInv, node
<1>. QED BY <1>1, <1>10, <1>11, <1>12, <1>13, <1>14, <1>15 DEF IInv

-----------------------------------------------------------------------------
(***************************************************************************)
(* The theorems.                                                           *)
(***************************************************************************)

LEMMA InitInv == Init => IInv
<1>. SUFFICES ASSUME Init PROVE IInv
  OBVIOUS
<1>1. TypeOK
  BY TypeInit
<1>2. BootOK
  BY DEF Init, BootOK
<1>3. DialledOK
  <2>1. \A m \in Memories : ~(m < dialled)
    BY ConnectionFacts DEF Init, Memories
  <2>. QED BY <2>1 DEF Init, DialledOK
<1>4. TurnsOK
  <2>1. SUFFICES ASSUME NEW t \in Threads PROVE TurnOK(t)
    BY DEF TurnsOK
  <2>2. reg[t] = "idle" /\ turn[t] = 1 /\ sock[At(t)] = "none"
    BY <1>1, AtFacts DEF Init
  <2>3. \A i \in Turns : ~(i < 1) /\ sock[<<t, i>>] = "none"
    BY ConnectionFacts DEF Init, Turns
  <2>. QED BY <2>2, <2>3 DEF TurnOK
<1>5. BacklogOK
  <2>1. \A m \in Memories : Len(backlog[m]) = 0
    BY DEF Init
  <2>. QED BY <2>1 DEF BacklogOK
<1>6. ServingOK /\ PlacedOK /\ AnsweredOK /\ CertificatesExchanged
  BY DEF Init, ServingOK, PlacedOK, AnsweredOK, CertificatesExchanged
<1>. QED BY <1>1, <1>2, <1>3, <1>4, <1>5, <1>6 DEF IInv

LEMMA NextInv == IInv /\ [Next]_vars => IInv'
<1>. SUFFICES ASSUME IInv, [Next]_vars PROVE IInv'
  OBVIOUS
<1>1. ASSUME NEW m \in Memories, MemoryStep(m) PROVE IInv'
  BY <1>1, BootStep, AcceptKeeps, ServerWritesKeeps, ServerReadsKeeps DEF MemoryStep
<1>2. CASE ComputeStep
  BY <1>2, ComputeKeeps
<1>3. ASSUME NEW t \in Threads, ThreadStep(t) PROVE IInv'
  BY <1>3, RegisterKeeps, ConnectKeeps, OpenKeeps, FailKeeps, WriteKeeps, ReadKeeps, InsertKeeps
     DEF ThreadStep
<1>4. CASE UNCHANGED vars
  <2>1. UNCHANGED <<memory, server, node, client, written, early>>
    BY <1>4 DEF vars
  <2>2. UNCHANGED <<boot, acceptor, serving, backlog, compute, sock, clientQP, serverQP>>
    BY <2>1 DEF memory, server, node, client
  <2>. QED BY <1>4, <2>1, <2>2, TypeStutter, BootKept, DialledKept, TurnsKept, BacklogKept,
              ServingKept, PlacedKept, AnsweredKept, ExchangedKept DEF IInv
<1>. QED BY <1>1, <1>2, <1>3, <1>4 DEF Next

\* The inductive invariant holds in every state.
THEOREM SetUpInvariant == Spec => []IInv
<1>1. Init => IInv
  BY InitInv
<1>2. IInv /\ [Next]_vars => IInv'
  BY NextInv
<1>. QED BY <1>1, <1>2, PTL DEF Spec

\* Every variable has its type, and a port never holds more than its backlog.
THEOREM SetUpTypes == Spec => []TypeOK
<1>1. IInv => TypeOK
  BY DEF IInv
<1>. QED BY <1>1, SetUpInvariant, PTL

\* node/memory_node/memory_node.hpp:61: the TCP thread has an RPC id to deliver
\* whenever it runs, because loop_thread waits for the RPC before it returns.
THEOREM InfoIsDelivered == Spec => []InfoDelivered
<1>1. IInv => InfoDelivered
  BY DEF IInv, BootOK, InfoDelivered
<1>. QED BY <1>1, SetUpInvariant, PTL

\* What BothEndsReady rests on: register_thread returns true only with every context
\* ready, and default_connect on the other side has answered, or is about to.
THEOREM RegisteredIsReady == Spec => []ContextsReady
<1>1. IInv => ContextsReady
  <2>1. SUFFICES ASSUME IInv, NEW t \in Threads, reg[t] = "registered", NEW i \in Turns
                 PROVE  clientQP[<<t, i>>] = "rts" /\ Answered(<<t, i>>)
    BY DEF ContextsReady
  <2>2. <<t, i>> \in Connections
    BY ConnectionFacts
  <2>3. clientQP[<<t, i>>] = "rts"
    BY <2>1 DEF IInv, TurnsOK, TurnOK
  <2>4. "server" \in written[<<t, i>>]
    BY <2>1, <2>2, <2>3 DEF IInv, CertificatesExchanged
  <2>. QED BY <2>1, <2>2, <2>3, <2>4 DEF IInv, AnsweredOK
<1>. QED BY <1>1, SetUpInvariant, PTL

\* exchange_certificate: no queue pair is taken to ready without the certificate of
\* the other end, whatever the ends do with the results of their reads.
THEOREM ReadyWithCertificate == Spec => []CertificatesExchanged
<1>1. IInv => CertificatesExchanged
  BY DEF IInv
<1>. QED BY <1>1, SetUpInvariant, PTL

\* What RegistrationEnds rests on: register_thread never waits for somebody who waits,
\* however many threads share the backlog of a port.
THEOREM RegistrationNotStuck == Spec => []NobodyStuck
<1>1. IInv => NobodyStuck
  <2>1. SUFFICES ASSUME IInv, NEW t \in Threads, ~Returned(t)
                 PROVE  \/ CanGoOn(t)
                        \/ CanServe(MemoryOf(turn[t]))
                        \/ acceptor[MemoryOf(turn[t])] = "ended"
    BY DEF NobodyStuck
  <2>. DEFINE m == MemoryOf(turn[t])
              c == At(t)
  <2>2. TypeOK /\ TurnOK(t)
    BY <2>1 DEF IInv, TurnsOK
  <2>3. m \in Memories /\ c \in Connections /\ PortOf(c) = m
    BY <2>2, AtFacts
  <2>4. reg[t] \in {"connect", "open", "write", "read", "insert"}
    BY <2>1, <2>2 DEF TypeOK, Returned
  <2>5. backlog[m] \in Seq(Connections) /\ Len(backlog[m]) <= Backlog
        /\ acceptor[m] \in {"accept", "write", "read", "ended"}
        /\ (serving[m] # NoConnection <=> acceptor[m] \in {"write", "read"})
    BY <2>2, <2>3 DEF TypeOK
  <2>6. CASE reg[t] = "connect"
    <3>1. CASE boot[m] # "up" \/ Len(backlog[m]) < Backlog
      BY <2>6, <3>1 DEF CanGoOn
    <3>2. CASE boot[m] = "up" /\ ~(Len(backlog[m]) < Backlog)
      <4>1. backlog[m] # <<>>
        BY <2>5, <3>2, ConnectionFacts
      <4>. QED BY <2>5, <3>2, <4>1 DEF CanServe
    <3>. QED BY <3>1, <3>2
  <2>7. CASE reg[t] \in {"open", "insert"}
    BY <2>7 DEF CanGoOn
  <2>8. CASE reg[t] = "write"
    <3>1. sock[c] \in {"open", "refused"}
      BY <2>2, <2>3, <2>8 DEF TypeOK, TurnOK
    <3>. QED BY <2>8, <3>1 DEF CanGoOn
  <2>9. CASE reg[t] = "read"
    <3>1. sock[c] = "open"
      BY <2>2, <2>9 DEF TurnOK
    <3>2. /\ boot[m] = "up"
          /\ \/ \E k \in 1..Len(backlog[m]) : backlog[m][k] = c
             \/ serving[m] = c
             \/ "server" \in written[c]
             \/ acceptor[m] = "ended"
      BY <2>1, <2>3, <3>1 DEF IInv, PlacedOK
    <3>3. CASE \E k \in 1..Len(backlog[m]) : backlog[m][k] = c
      <4>1. backlog[m] # <<>>
        BY <3>3
      <4>. QED BY <2>5, <3>2, <4>1 DEF CanServe
    <3>4. CASE serving[m] = c
      <4>1. acceptor[m] \in {"write", "read"}
        BY <2>3, <2>5, <3>4, ConnectionFacts
      <4>. QED BY <3>2, <4>1 DEF CanServe
    <3>5. CASE "server" \in written[c]
      BY <2>9, <3>5 DEF CanGoOn
    <3>6. CASE acceptor[m] = "ended"
      BY <3>6
    <3>. QED BY <3>2, <3>3, <3>4, <3>5, <3>6
  <2>. QED BY <2>4, <2>6, <2>7, <2>8, <2>9
<1>. QED BY <1>1, SetUpInvariant, PTL

=============================================================================
