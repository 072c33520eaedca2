--------------------------------- MODULE SetUp ---------------------------------
(***************************************************************************)
(* How a compute node and its threads get their connections: the memory    *)
(* nodes launch their three threads (node/memory_node), the compute node   *)
(* learns from each its base address and RPC id and opens an eRPC session  *)
(* (RemoteMemoryManager::connect_memory_nodes), and each application       *)
(* thread connects two RDMA contexts to every memory node                  *)
(* (setup_rdma_per_thread, exchange_certificate).                          *)
(*                                                                         *)
(* The memory nodes of the configuration file are numbered in its order,   *)
(* which every vector indexed by node_id relies on.  Connection <<t, i>>   *)
(* is the i-th a thread opens: the odd ones are for rdma_ctxs, the even    *)
(* ones for parallel_rdma_ctxs.  A certificate is abstracted to its        *)
(* arrival: sockets are between two parties, so it is the peer's.          *)
(***************************************************************************)
EXTENDS Naturals, Sequences

CONSTANTS
    MaxMemory,      \* memory nodes of the configuration file are 1..MaxMemory
    Threads,        \* application threads that register
    Backlog,        \* connections a port holds until they are accepted (listen)
    NoConnection

Memories == 1..MaxMemory
Turns == 1..(2 * MaxMemory)
Connections == Threads \X Turns
MemoryOf(i) == (i + 1) \div 2

ASSUME SetUpAssumption ==
    MaxMemory \in Nat \ {0} /\ Backlog \in Nat \ {0} /\ NoConnection \notin Connections

VARIABLES
    boot,       \* memory node: what main has launched
    rpc,        \* ... memory_ctx.info is there, with the id of the RPC
    told,       \* ... the id the TCP thread was launched with is that of the RPC
    acceptor,   \* ... the RDMA thread: accept, write, read or ended
    serving,    \* ... the connection it is at
    backlog,    \* ... connections it has not accepted
    compute,    \* the compute node: dial, greet, session, up or failed
    dialled,    \* ... the memory node it is at
    reg,        \* thread: where in register_thread it is
    turn,       \* ... the connection it is at
    sock,       \* connection: none, refused or open
    written,    \* ... the ends that have written their certificate
    clientQP, serverQP,     \* ... state of the two queue pairs
    early       \* for the properties: the server has read before the client wrote

memory == <<boot, rpc, told>>
server == <<acceptor, serving, backlog, serverQP>>
node == <<compute, dialled>>
client == <<reg, turn, sock, clientQP>>
vars == <<memory, server, node, client, written, early>>

Init ==
    /\ boot = [m \in Memories |-> "down"]
    /\ rpc = [m \in Memories |-> FALSE]
    /\ told = [m \in Memories |-> FALSE]
    /\ acceptor = [m \in Memories |-> "accept"]
    /\ serving = [m \in Memories |-> NoConnection]
    /\ backlog = [m \in Memories |-> <<>>]
    /\ compute = "dial" /\ dialled = 1
    /\ reg = [t \in Threads |-> "idle"]
    /\ turn = [t \in Threads |-> 1]
    /\ sock = [c \in Connections |-> "none"]
    /\ written = [c \in Connections |-> {}]
    /\ clientQP = [c \in Connections |-> "none"]
    /\ serverQP = [c \in Connections |-> "none"]
    /\ early = {}

-----------------------------------------------------------------------------
(***************************************************************************)
(* A memory node boots: MemoryNode::initialize has set up the memory and   *)
(* the device, and main launches the eRPC, TCP and RDMA threads.           *)
(***************************************************************************)
Boot(m, from, to) ==
    /\ boot[m] = from /\ boot' = [boot EXCEPT ![m] = to]
    /\ UNCHANGED <<server, node, client, written, early>>

\* loop_thread starts a thread ...
StartLoop(m) == Boot(m, "down", "starting") /\ UNCHANGED <<rpc, told>>

\* ... that creates the RPC and says so ...
CreateRpc(m) ==
    /\ boot[m] # "down" /\ ~rpc[m]
    /\ rpc' = [rpc EXCEPT ![m] = TRUE]
    /\ UNCHANGED <<boot, told, server, node, client, written, early>>

\* Mutant: ... and does not wait for it.
LoopLaunchedAtOnce(m) == Boot(m, "starting", "erpc") /\ UNCHANGED <<rpc, told>>

\* ... which loop_thread waits for.
LoopLaunched(m) == rpc[m] /\ Boot(m, "starting", "erpc") /\ UNCHANGED <<rpc, told>>

\* The TCP thread takes base_addr and the id of the RPC by value.
LaunchTcp(m) ==
    /\ Boot(m, "erpc", "tcp")
    /\ told' = [told EXCEPT ![m] = rpc[m]]
    /\ UNCHANGED rpc

LaunchRdma(m) == Boot(m, "tcp", "up") /\ UNCHANGED <<rpc, told>>

-----------------------------------------------------------------------------
(***************************************************************************)
(* The compute node connects to the memory nodes one after another.        *)
(***************************************************************************)
Compute(from, to) ==
    /\ compute = from /\ compute' = to
    /\ UNCHANGED <<memory, server, client, written, early>>

Dial ==
    /\ boot[dialled] \in {"tcp", "up"}
    /\ Compute("dial", "greet") /\ UNCHANGED dialled

\* Nothing listens at the TCP port.
DialFails ==
    /\ boot[dialled] \notin {"tcp", "up"}
    /\ Compute("dial", "failed") /\ UNCHANGED dialled

\* The TCP thread sends the base address and the id; recv_all waits for both.
Greet ==
    /\ told[dialled]
    /\ Compute("greet", "session") /\ UNCHANGED dialled

\* connect_remote runs the event loop until the session is there; the loop of the
\* memory node answers.  After the last session the fake head is allocated.
Session ==
    /\ rpc[dialled]
    /\ IF dialled = MaxMemory
       THEN Compute("session", "up") /\ UNCHANGED dialled
       ELSE Compute("session", "dial") /\ dialled' = dialled + 1

\* create_session returns no session.
SessionFails == Compute("session", "failed") /\ UNCHANGED dialled

-----------------------------------------------------------------------------
(***************************************************************************)
(* register_thread.                                                        *)
(***************************************************************************)
At(t) == <<t, turn[t]>>

Register(t) ==
    /\ compute = "up" /\ reg[t] = "idle"
    /\ reg' = [reg EXCEPT ![t] = "connect"]
    /\ UNCHANGED <<memory, server, node, turn, sock, clientQP, written, early>>

\* socket_connect: a port that has been bound takes the connection once there is
\* room; the result is not looked at.
Connect(t) ==
    LET m == MemoryOf(turn[t]) IN
    /\ reg[t] = "connect"
    /\ \/ /\ boot[m] = "up" /\ Len(backlog[m]) < Backlog
          /\ sock' = [sock EXCEPT ![At(t)] = "open"]
          /\ backlog' = [backlog EXCEPT ![m] = Append(@, At(t))]
       \/ /\ boot[m] # "up"
          /\ sock' = [sock EXCEPT ![At(t)] = "refused"]
          /\ UNCHANGED backlog
    /\ reg' = [reg EXCEPT ![t] = "open"]
    /\ UNCHANGED <<memory, acceptor, serving, serverQP, node, turn, clientQP, written, early>>

\* Registration returns false: the contexts of this call are destroyed, and the
\* socket is left open.
Fail(t) ==
    /\ reg' = [reg EXCEPT ![t] = "failed"]
    /\ clientQP' = [c \in Connections |-> IF c[1] = t THEN "none" ELSE clientQP[c]]
    /\ UNCHANGED <<memory, server, node, turn, sock, written, early>>

\* RDMADevice::open on the thread's buffer.
Open(t) ==
    /\ reg[t] = "open"
    /\ clientQP' = [clientQP EXCEPT ![At(t)] = "reset"]
    /\ reg' = [reg EXCEPT ![t] = "write"]
    /\ UNCHANGED <<memory, server, node, turn, sock, written, early>>

OpenFails(t) == reg[t] = "open" /\ Fail(t)

\* exchange_certificate, the client's end: write ...
WriteCertificate(t) ==
    /\ reg[t] = "write" /\ sock[At(t)] = "open"
    /\ written' = [written EXCEPT ![At(t)] = @ \cup {"client"}]
    /\ reg' = [reg EXCEPT ![t] = "read"]
    /\ UNCHANGED <<memory, server, node, turn, sock, clientQP, early>>

WriteFails(t) == reg[t] = "write" /\ sock[At(t)] = "refused" /\ Fail(t)

\* Mutant: the turn goes on past the last context.
TurnPast(i) == i + 1
TurnAfter(i) == IF i < 2 * MaxMemory THEN i + 1 ELSE i

\* ... and wait for the server's.  default_get_qp_ready takes the queue pair from
\* reset to ready to send; the thread goes on with its next context.
ReadCertificate(t) ==
    /\ reg[t] = "read" /\ "server" \in written[At(t)]
    /\ clientQP' = [clientQP EXCEPT ![At(t)] = "rts"]
    /\ reg' = [reg EXCEPT ![t] = IF turn[t] = 2 * MaxMemory THEN "insert" ELSE "connect"]
    /\ turn' = [turn EXCEPT ![t] = TurnAfter(@)]
    /\ UNCHANGED <<memory, server, node, sock, written, early>>

\* The queue pair does not become ready.
ReadyFails(t) == reg[t] = "read" /\ "server" \in written[At(t)] /\ Fail(t)

\* Under init_mutex, and then under local_mutex: the contexts and the
\* ConcurrencyContext of the thread.
Insert(t) ==
    /\ reg[t] = "insert"
    /\ reg' = [reg EXCEPT ![t] = "registered"]
    /\ UNCHANGED <<memory, server, node, turn, sock, clientQP, written, early>>

-----------------------------------------------------------------------------
(***************************************************************************)
(* The RDMA thread of a memory node serves one connection after another.   *)
(***************************************************************************)
Serving(m, from, to) ==
    /\ boot[m] = "up" /\ acceptor[m] = from
    /\ acceptor' = [acceptor EXCEPT ![m] = to]
    /\ UNCHANGED <<memory, node, client>>

Accept(m) ==
    /\ backlog[m] # <<>>
    /\ Serving(m, "accept", "write")
    /\ serving' = [serving EXCEPT ![m] = Head(backlog[m])]
    /\ backlog' = [backlog EXCEPT ![m] = Tail(@)]
    /\ serverQP' = [serverQP EXCEPT ![Head(backlog[m])] = "reset"]
    /\ UNCHANGED <<written, early>>

\* RDMADevice::open fails: the thread returns, and nobody accepts any more.
AcceptEnds(m) ==
    /\ backlog[m] # <<>>
    /\ Serving(m, "accept", "ended")
    /\ backlog' = [backlog EXCEPT ![m] = Tail(@)]
    /\ UNCHANGED <<serving, serverQP, written, early>>

\* Mutant: the server reads first, and writes only to a client it has heard of.
ServerWritesLate(m) ==
    LET c == serving[m] IN
    /\ acceptor[m] = "write"
    /\ IF "client" \in written[c]
       THEN Serving(m, "write", "read") /\ written' = [written EXCEPT ![c] = @ \cup {"server"}]
       ELSE Serving(m, "write", "accept") /\ UNCHANGED written
    /\ UNCHANGED <<serving, backlog, serverQP, early>>

\* exchange_certificate, the server's end: write ...
ServerWrites(m) ==
    /\ Serving(m, "write", "read")
    /\ written' = [written EXCEPT ![serving[m]] = @ \cup {"server"}]
    /\ UNCHANGED <<serving, backlog, serverQP, early>>

\* Mutant: the queue pair of the server is not made ready.
ServerReadsOnly(m) ==
    /\ Serving(m, "read", "accept")
    /\ "client" \in written[serving[m]]
    /\ serving' = [serving EXCEPT ![m] = NoConnection]
    /\ UNCHANGED <<backlog, serverQP, written, early>>

\* ... and read what is there: the accepted socket does not block.
ServerReads(m) ==
    /\ Serving(m, "read", "accept")
    /\ "client" \in written[serving[m]]
    /\ serverQP' = [serverQP EXCEPT ![serving[m]] = "rts"]
    /\ serving' = [serving EXCEPT ![m] = NoConnection]
    /\ UNCHANGED <<backlog, written, early>>

\* Nothing is there yet: EAGAIN is a ReadError, the queue pair stays in reset, and
\* since nobody looks at the result of default_connect the context is kept.
ServerReadsEarly(m) ==
    /\ Serving(m, "read", "accept")
    /\ "client" \notin written[serving[m]]
    /\ early' = early \cup {serving[m]}
    /\ serving' = [serving EXCEPT ![m] = NoConnection]
    /\ UNCHANGED <<backlog, serverQP, written>>

-----------------------------------------------------------------------------
MemoryStep(m) ==
    \/ StartLoop(m) \/ CreateRpc(m) \/ LoopLaunched(m) \/ LaunchTcp(m) \/ LaunchRdma(m)
    \/ Accept(m) \/ AcceptEnds(m) \/ ServerWrites(m) \/ ServerReads(m) \/ ServerReadsEarly(m)
ComputeStep == Dial \/ DialFails \/ Greet \/ Session \/ SessionFails
ThreadStep(t) ==
    \/ Register(t) \/ Connect(t) \/ Open(t) \/ OpenFails(t)
    \/ WriteCertificate(t) \/ WriteFails(t) \/ ReadCertificate(t) \/ ReadyFails(t) \/ Insert(t)

Next ==
    \/ \E m \in Memories : MemoryStep(m)
    \/ ComputeStep
    \/ \E t \in Threads : ThreadStep(t)

\* Every loop goes on, and a thread that has called register_thread is scheduled.
Spec ==
    /\ Init /\ [][Next]_vars
    /\ \A m \in Memories : WF_vars(MemoryStep(m))
    /\ WF_vars(ComputeStep)
    /\ \A t \in Threads : WF_vars(ThreadStep(t))

-----------------------------------------------------------------------------
(***************************************************************************)
(* Properties.                                                             *)
(***************************************************************************)

\* Every variable has its type; the server is at a connection only while it serves.
TypeOK ==
    /\ boot \in [Memories -> {"down", "starting", "erpc", "tcp", "up"}]
    /\ rpc \in [Memories -> BOOLEAN] /\ told \in [Memories -> BOOLEAN]
    /\ acceptor \in [Memories -> {"accept", "write", "read", "ended"}]
    /\ serving \in [Memories -> Connections \cup {NoConnection}]
    /\ backlog \in [Memories -> Seq(Connections)]
    /\ \A m \in Memories : /\ serving[m] # NoConnection <=> acceptor[m] \in {"write", "read"}
                           /\ Len(backlog[m]) <= Backlog
    /\ compute \in {"dial", "greet", "session", "up", "failed"} /\ dialled \in Memories
    /\ reg \in [Threads -> {"idle", "connect", "open", "write", "read", "insert",
                            "registered", "failed"}]
    /\ turn \in [Threads -> Turns]
    /\ sock \in [Connections -> {"none", "refused", "open"}]
    /\ written \in [Connections -> SUBSET {"client", "server"}]
    /\ clientQP \in [Connections -> {"none", "reset", "rts"}]
    /\ serverQP \in [Connections -> {"none", "reset", "rts"}]
    /\ early \subseteq Connections

\* node/memory_node/memory_node.hpp:61: the TCP thread has an RPC id to deliver
\* whenever it runs, whatever the eRPC thread is doing.
InfoDelivered == \A m \in Memories : boot[m] \in {"tcp", "up"} => told[m]

\* A thread that registers comes back, with true or false, however many of them
\* register at once; unless an RDMA thread has ended because its device did not
\* open, after which a client waits for a certificate nobody sends.
Returned(t) == reg[t] \in {"idle", "registered", "failed"}
RegistrationEnds ==
    \A t \in Threads :
        ~Returned(t) ~> Returned(t) \/ \E m \in Memories : acceptor[m] = "ended"

\* Once a thread is registered, both ends of its contexts become ready, unless the
\* server read a certificate that had not been written yet.
BothEndsReady ==
    \A t \in Threads :
        reg[t] = "registered" ~>
            \A i \in Turns : /\ clientQP[<<t, i>>] = "rts"
                             /\ serverQP[<<t, i>>] = "rts" \/ <<t, i>> \in early
=============================================================================
