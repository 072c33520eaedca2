--------------------------- MODULE HandoverProofs ---------------------------
(***************************************************************************)
(* Safety of the handover lock table for every set of threads, every shape *)
(* of the list of nodes and every depth.                                   *)
(***************************************************************************)
EXTENDS Handover, TLAPS

\* What the program counter says of a thread's local variables.
ControlOK ==
    \A t \in Threads :
        /\ pc[t] \notin {"idle", "drain"} => kind[t] \in Writers
        /\ pc[t] \in {"casPred", "shut", "giveUp", "count", "morph", "leavePred"}
               => kind[t] = "insert"
        /\ pc[t] \in {"checkType", "spin", "ticket", "enqueue", "wait"}
               => owner[t] \in Threads

TypeInv == TypeOK /\ ControlOK

\* Taking the oldest request from a queue leaves a queue (try_pop, push).
LEMMA QueueOps ==
    ASSUME NEW q \in Seq(Threads), q # <<>>
    PROVE  /\ Head(q) \in Threads
           /\ Tail(q) \in Seq(Threads)
           /\ Append(Tail(q), Head(q)) \in Seq(Threads)
  OBVIOUS

\* The types of a thread's local variables, which Finish and Retry assign.
LocalOK ==
    /\ pc \in [Threads -> PCs]
    /\ kind \in [Threads -> Kinds]
    /\ node \in [Threads -> Lockable]
    /\ \A t \in Threads : kind[t] \in Writers => node[t] \in Nodes
    /\ owner \in [Threads -> Threads \cup {None}]

\* The return of an operation clears its local variables.
LEMMA FinishKeeps ==
    ASSUME TypeInv, NEW t \in Threads, Finish(t)
    PROVE  LocalOK' /\ ControlOK'
  <1> USE DEF TypeInv, TypeOK, PCs, Kinds, Writers, Lockable, Goto, Finish
  <1>1. LocalOK'
    BY DEF LocalOK
  <1>2. ControlOK'
    BY DEF ControlOK
  <1> QED
    BY <1>1, <1>2

\* A retry goes back to the drain with a node of the search layer.
LEMMA RetryKeeps ==
    ASSUME TypeInv, NEW t \in Threads, kind[t] \in Writers, Retry(t)
    PROVE  LocalOK' /\ ControlOK'
  <1> USE DEF TypeInv, TypeOK, PCs, Kinds, Writers, Lockable, Goto, Retry
  <1>1. LocalOK'
    <2>1. PICK n \in Nodes : node' = [node EXCEPT ![t] = IF kind[t] = "update" THEN n ELSE @]
      OBVIOUS
    <2> QED
      BY <2>1 DEF LocalOK
  <1>2. ControlOK'
    BY DEF ControlOK
  <1> QED
    BY <1>1, <1>2

\* The initial values have their types.
LEMMA TypeInit == Init => TypeInv
  BY DepthAssumption DEF Init, TypeInv, TypeOK, ControlOK, PCs, Kinds, Writers, Lockable, Floor

\* No action of any thread takes a variable out of its type.
LEMMA TypeStep == TypeInv /\ [Next]_vars => TypeOK'
  <1> SUFFICES ASSUME TypeInv, [Next]_vars PROVE TypeOK'
    OBVIOUS
  <1> USE DEF TypeInv, TypeOK, ControlOK, PCs, Kinds, Writers, Lockable, Goto
  <1>1. ASSUME NEW t \in Threads, Start(t) PROVE TypeOK'
    BY <1>1, OfferedAssumption DEF Start
  <1>2. ASSUME NEW t \in Threads, DrainOne(t) PROVE TypeOK'
    BY <1>2, QueueOps DEF DrainOne, Answer
  <1>3. ASSUME NEW t \in Threads, DrainDone(t) PROVE TypeOK'
    <2>1. CASE Finish(t)
      BY <1>3, <2>1, FinishKeeps DEF DrainDone, LocalOK
    <2>2. CASE pc' = [pc EXCEPT ![t] = "mark"] /\ kind[t] \in Writers /\ UNCHANGED <<kind, node, owner>>
      BY <1>3, <2>2, FinishKeeps DEF DrainDone, LocalOK
    <2> QED
      BY <1>3, <2>1, <2>2 DEF DrainDone
  <1>4. ASSUME NEW t \in Threads, Mark(t) PROVE TypeOK'
    <2>1. maxDepth' \in [Threads -> Floor..MaxDepth]
      BY <1>4, DepthAssumption DEF Mark, Closed, Floor
    <2>2. type' \in [Threads -> Writers]
      BY <1>4 DEF Mark
    <2> QED
      BY <1>4, <2>1, <2>2 DEF Mark
  <1>5. ASSUME NEW t \in Threads, CasNodeWin(t) PROVE TypeOK'
    BY <1>5 DEF CasNodeWin
  <1>6. ASSUME NEW t \in Threads, CasNodeLose(t) PROVE TypeOK'
    BY <1>6 DEF CasNodeLose
  <1>7. ASSUME NEW t \in Threads, CasPredWin(t) PROVE TypeOK'
    BY <1>7 DEF CasPredWin
  <1>8. ASSUME NEW t \in Threads, CasPredLose(t) PROVE TypeOK'
    BY <1>8 DEF CasPredLose
  <1>9. ASSUME NEW t \in Threads, Shut(t) PROVE TypeOK'
    BY <1>9, DepthAssumption DEF Shut, Floor
  <1>10. ASSUME NEW t \in Threads, GiveUp(t) PROVE TypeOK'
    BY <1>10 DEF GiveUp
  <1>11. ASSUME NEW t \in Threads, Open(t) PROVE TypeOK'
    BY <1>11, DepthAssumption DEF Open, Floor
  <1>12. ASSUME NEW t \in Threads, Fetch(t) PROVE TypeOK'
    <2>1. maxDepth' \in [Threads -> Floor..MaxDepth]
      BY <1>12, DepthAssumption DEF Fetch, Closed, Floor
    <2> QED
      BY <1>12, <2>1 DEF Fetch
  <1>13. ASSUME NEW t \in Threads, HelpOne(t) PROVE TypeOK'
    BY <1>13, QueueOps DEF HelpOne, Answer, Verdicts
  <1>14. ASSUME NEW t \in Threads, HelpFull(t) PROVE TypeOK'
    BY <1>14, QueueOps DEF HelpFull
  <1>15. ASSUME NEW t \in Threads, HelpDone(t) PROVE TypeOK'
    BY <1>15 DEF HelpDone
  <1>16. ASSUME NEW t \in Threads, Count(t) PROVE TypeOK'
    BY <1>16 DEF Count
  <1>17. ASSUME NEW t \in Threads, LeaveNode(t) PROVE TypeOK'
    BY <1>17 DEF LeaveNode
  <1>18. ASSUME NEW t \in Threads, LeavePred(t) PROVE TypeOK'
    BY <1>18 DEF LeavePred
  <1>19. ASSUME NEW t \in Threads, LeaveDepth(t) PROVE TypeOK'
    <2>1. maxDepth' \in [Threads -> Floor..MaxDepth]
      BY <1>19, DepthAssumption DEF LeaveDepth, Floor
    <2> QED
      BY <1>19, <2>1, FinishKeeps DEF LeaveDepth, LocalOK
  <1>20. ASSUME NEW t \in Threads, CheckType(t) PROVE TypeOK'
    <2>1. CASE Finish(t)
      BY <1>20, <2>1, FinishKeeps, RetryKeeps DEF CheckType, LocalOK
    <2>2. CASE kind[t] \in Writers /\ Retry(t)
      BY <1>20, <2>2, FinishKeeps, RetryKeeps DEF CheckType, LocalOK
    <2>3. CASE pc' = [pc EXCEPT ![t] = "spin"] /\ UNCHANGED <<kind, node, owner>>
      BY <1>20, <2>3, FinishKeeps, RetryKeeps DEF CheckType, LocalOK
    <2> QED
      BY <1>20, <2>1, <2>2, <2>3 DEF CheckType
  <1>21. ASSUME NEW t \in Threads, SpinEnds(t) PROVE TypeOK'
    BY <1>21 DEF SpinEnds
  <1>22. ASSUME NEW t \in Threads, Ticket(t) PROVE TypeOK'
    <2>1. maxDepth' \in [Threads -> Floor..MaxDepth]
      BY <1>22, DepthAssumption DEF Ticket, Floor
    <2> QED
      BY <1>22, <2>1, RetryKeeps DEF Ticket, LocalOK
  <1>23. ASSUME NEW t \in Threads, Enqueue(t) PROVE TypeOK'
    BY <1>23 DEF Enqueue
  <1>24. ASSUME NEW t \in Threads, Return(t) PROVE TypeOK'
    BY <1>24, RetryKeeps, FinishKeeps DEF Return, LocalOK
  <1>25. CASE UNCHANGED vars
    BY <1>25 DEF vars
  <1> QED
    BY <1>1, <1>2, <1>3, <1>4, <1>5, <1>6, <1>7, <1>8, <1>9, <1>10, <1>11, <1>12, <1>13,
       <1>14, <1>15, <1>16, <1>17, <1>18, <1>19, <1>20, <1>21, <1>22, <1>23, <1>24, <1>25
       DEF Next, Step, TryWin, Win, FailedWrite

\* The program counter stays in step with the local variables.
LEMMA ControlStep == TypeInv /\ [Next]_vars => ControlOK'
  <1> SUFFICES ASSUME TypeInv, [Next]_vars PROVE ControlOK'
    OBVIOUS
  <1> USE DEF TypeInv, TypeOK, ControlOK, PCs, Kinds, Writers, Lockable, Goto
  <1>1. ASSUME NEW t \in Threads, Start(t) PROVE ControlOK'
    BY <1>1, OfferedAssumption DEF Start
  <1>2. ASSUME NEW t \in Threads, DrainOne(t) PROVE ControlOK'
    BY <1>2 DEF DrainOne
  <1>3. ASSUME NEW t \in Threads, DrainDone(t) PROVE ControlOK'
    <2>1. CASE Finish(t)
      BY <1>3, <2>1, FinishKeeps DEF DrainDone
    <2>2. CASE pc' = [pc EXCEPT ![t] = "mark"] /\ kind[t] \in Writers /\ UNCHANGED <<kind, node, owner>>
      BY <1>3, <2>2, FinishKeeps DEF DrainDone
    <2> QED
      BY <1>3, <2>1, <2>2 DEF DrainDone
  <1>4. ASSUME NEW t \in Threads, Mark(t) PROVE ControlOK'
    BY <1>4 DEF Mark
  <1>5. ASSUME NEW t \in Threads, CasNodeWin(t) PROVE ControlOK'
    BY <1>5 DEF CasNodeWin
  <1>6. ASSUME NEW t \in Threads, CasNodeLose(t) PROVE ControlOK'
    <2>1. ctx[node[t]] \in Threads
      BY <1>6 DEF CasNodeLose
    <2> QED
      BY <1>6, <2>1 DEF CasNodeLose
  <1>7. ASSUME NEW t \in Threads, CasPredWin(t) PROVE ControlOK'
    BY <1>7 DEF CasPredWin
  <1>8. ASSUME NEW t \in Threads, CasPredLose(t) PROVE ControlOK'
    BY <1>8 DEF CasPredLose
  <1>9. ASSUME NEW t \in Threads, Shut(t) PROVE ControlOK'
    BY <1>9 DEF Shut
  <1>10. ASSUME NEW t \in Threads, GiveUp(t) PROVE ControlOK'
    BY <1>10 DEF GiveUp
  <1>11. ASSUME NEW t \in Threads, Open(t) PROVE ControlOK'
    BY <1>11 DEF Open
  <1>12. ASSUME NEW t \in Threads, Fetch(t) PROVE ControlOK'
    <2>1. CASE pc'[t] = "help"
      BY <1>12, <2>1 DEF Fetch
    <2>2. CASE pc'[t] = "morph"
      BY <1>12, <2>2 DEF Fetch
    <2> QED
      BY <1>12, <2>1, <2>2 DEF Fetch
  <1>13. ASSUME NEW t \in Threads, HelpOne(t) PROVE ControlOK'
    BY <1>13 DEF HelpOne
  <1>14. ASSUME NEW t \in Threads, HelpFull(t) PROVE ControlOK'
    BY <1>14 DEF HelpFull
  <1>15. ASSUME NEW t \in Threads, HelpDone(t) PROVE ControlOK'
    BY <1>15 DEF HelpDone
  <1>16. ASSUME NEW t \in Threads, Count(t) PROVE ControlOK'
    BY <1>16 DEF Count
  <1>17. ASSUME NEW t \in Threads, LeaveNode(t) PROVE ControlOK'
    BY <1>17 DEF LeaveNode
  <1>18. ASSUME NEW t \in Threads, LeavePred(t) PROVE ControlOK'
    BY <1>18 DEF LeavePred
  <1>19. ASSUME NEW t \in Threads, LeaveDepth(t) PROVE ControlOK'
    BY <1>19, FinishKeeps DEF LeaveDepth
  <1>20. ASSUME NEW t \in Threads, CheckType(t) PROVE ControlOK'
    <2>1. CASE Finish(t)
      BY <1>20, <2>1, FinishKeeps, RetryKeeps DEF CheckType
    <2>2. CASE kind[t] \in Writers /\ Retry(t)
      BY <1>20, <2>2, FinishKeeps, RetryKeeps DEF CheckType
    <2>3. CASE pc' = [pc EXCEPT ![t] = "spin"] /\ UNCHANGED <<kind, node, owner>>
      BY <1>20, <2>3, FinishKeeps, RetryKeeps DEF CheckType
    <2> QED
      BY <1>20, <2>1, <2>2, <2>3 DEF CheckType
  <1>21. ASSUME NEW t \in Threads, SpinEnds(t) PROVE ControlOK'
    BY <1>21 DEF SpinEnds
  <1>22. ASSUME NEW t \in Threads, Ticket(t) PROVE ControlOK'
    <2>1. CASE kind[t] \in Writers /\ Retry(t)
      BY <1>22, <2>1, RetryKeeps DEF Ticket
    <2>2. CASE pc' = [pc EXCEPT ![t] = "enqueue"] /\ UNCHANGED <<kind, node, owner>>
      BY <1>22, <2>2, RetryKeeps DEF Ticket
    <2> QED
      BY <1>22, <2>1, <2>2 DEF Ticket
  <1>23. ASSUME NEW t \in Threads, Enqueue(t) PROVE ControlOK'
    BY <1>23 DEF Enqueue
  <1>24. ASSUME NEW t \in Threads, Return(t) PROVE ControlOK'
    BY <1>24, RetryKeeps, FinishKeeps DEF Return
  <1>25. CASE UNCHANGED vars
    BY <1>25 DEF vars
  <1> QED
    BY <1>1, <1>2, <1>3, <1>4, <1>5, <1>6, <1>7, <1>8, <1>9, <1>10, <1>11, <1>12, <1>13,
       <1>14, <1>15, <1>16, <1>17, <1>18, <1>19, <1>20, <1>21, <1>22, <1>23, <1>24, <1>25
       DEF Next, Step, TryWin, Win, FailedWrite

\* Every variable keeps its type: no operation of any number of threads leaves
\* the states the code describes.
THEOREM TypeCorrect == Spec => []TypeOK
  <1>1. Init => TypeInv
    BY TypeInit
  <1>2. TypeInv /\ [Next]_vars => TypeInv'
    BY TypeStep, ControlStep DEF TypeInv
  <1> QED
    BY <1>1, <1>2, PTL DEF Spec, TypeInv

-----------------------------------------------------------------------------
\* A thread that holds nothing finishes or retries: all locks stay as they are.
LEMMA LeavesHeld ==
    ASSUME TypeInv, LockOwner, NEW t \in Threads, ~HoldsNode(t), ~HoldsPred(t),
           Finish(t) \/ Retry(t), UNCHANGED ctx
    PROVE  LockOwner'
  <1> USE DEF TypeInv, TypeOK, Lockable, Goto, LockOwner, Held, HoldsNode, HoldsPred, Critical
  <1>1. CASE Finish(t)
    BY <1>1 DEF Finish
  <1>2. CASE Retry(t)
    <2>1. PICK m \in Lockable : node' = [node EXCEPT ![t] = m]
      BY <1>2 DEF Retry
    <2> QED
      BY <1>2, <2>1 DEF Retry
  <1> QED
    BY <1>1, <1>2

\* The lock words agree with the threads' program counters after every step.
LEMMA LockStep == TypeInv /\ LockOwner /\ [Next]_vars => LockOwner'
  <1> SUFFICES ASSUME TypeInv, LockOwner, [Next]_vars PROVE LockOwner'
    OBVIOUS
  <1> USE ThreadsAssumption, NodesAssumption
          DEF TypeInv, TypeOK, ControlOK, Lockable, Goto,
              LockOwner, Held, HoldsNode, HoldsPred, Critical, Writers
  <1>1. ASSUME NEW t \in Threads, Start(t) PROVE LockOwner'
    BY <1>1 DEF Start
  <1>2. ASSUME NEW t \in Threads, DrainOne(t) PROVE LockOwner'
    BY <1>2 DEF DrainOne
  <1>3. ASSUME NEW t \in Threads, DrainDone(t) PROVE LockOwner'
    BY <1>3 DEF DrainDone, Finish
  <1>4. ASSUME NEW t \in Threads, Mark(t) PROVE LockOwner'
    BY <1>4 DEF Mark
  <1>5. ASSUME NEW t \in Threads, CasNodeWin(t) PROVE LockOwner'
    BY <1>5 DEF CasNodeWin
  <1>6. ASSUME NEW t \in Threads, CasNodeLose(t) PROVE LockOwner'
    BY <1>6 DEF CasNodeLose
  <1>7. ASSUME NEW t \in Threads, CasPredWin(t) PROVE LockOwner'
    BY <1>7 DEF CasPredWin
  <1>8. ASSUME NEW t \in Threads, CasPredLose(t) PROVE LockOwner'
    BY <1>8 DEF CasPredLose
  <1>9. ASSUME NEW t \in Threads, Shut(t) PROVE LockOwner'
    BY <1>9 DEF Shut
  <1>10. ASSUME NEW t \in Threads, GiveUp(t) PROVE LockOwner'
    BY <1>10 DEF GiveUp
  <1>11. ASSUME NEW t \in Threads, Open(t) PROVE LockOwner'
    BY <1>11 DEF Open
  <1>12. ASSUME NEW t \in Threads, Fetch(t) PROVE LockOwner'
    <2>1. CASE pc' = [pc EXCEPT ![t] = "help"]
      BY <1>12, <2>1 DEF Fetch
    <2>2. CASE kind[t] = "insert" /\ pc' = [pc EXCEPT ![t] = "morph"]
      BY <1>12, <2>2 DEF Fetch
    <2> QED
      BY <1>12, <2>1, <2>2 DEF Fetch
  <1>13. ASSUME NEW t \in Threads, HelpOne(t) PROVE LockOwner'
    BY <1>13 DEF HelpOne
  <1>14. ASSUME NEW t \in Threads, HelpFull(t) PROVE LockOwner'
    BY <1>14 DEF HelpFull
  <1>15. ASSUME NEW t \in Threads, HelpDone(t) PROVE LockOwner'
    BY <1>15 DEF HelpDone
  <1>16. ASSUME NEW t \in Threads, Count(t) PROVE LockOwner'
    BY <1>16 DEF Count
  <1>17. ASSUME NEW t \in Threads, LeaveNode(t) PROVE LockOwner'
    BY <1>17 DEF LeaveNode
  <1>18. ASSUME NEW t \in Threads, LeavePred(t) PROVE LockOwner'
    BY <1>18 DEF LeavePred
  <1>19. ASSUME NEW t \in Threads, LeaveDepth(t) PROVE LockOwner'
    BY <1>19 DEF LeaveDepth, Finish
  <1>20. ASSUME NEW t \in Threads, CheckType(t) PROVE LockOwner'
    <2>1. CASE Finish(t)
      BY <1>20, <2>1, LeavesHeld DEF CheckType
    <2>2. CASE Retry(t)
      BY <1>20, <2>2, LeavesHeld DEF CheckType
    <2>3. CASE pc' = [pc EXCEPT ![t] = "spin"] /\ UNCHANGED <<kind, node, owner>>
      BY <1>20, <2>3, LeavesHeld DEF CheckType
    <2> QED
      BY <1>20, <2>1, <2>2, <2>3 DEF CheckType
  <1>21. ASSUME NEW t \in Threads, SpinEnds(t) PROVE LockOwner'
    BY <1>21 DEF SpinEnds
  <1>22. ASSUME NEW t \in Threads, Ticket(t) PROVE LockOwner'
    <2>1. CASE Retry(t)
      BY <1>22, <2>1, LeavesHeld DEF Ticket
    <2>2. CASE pc' = [pc EXCEPT ![t] = "enqueue"] /\ UNCHANGED <<kind, node, owner>>
      BY <1>22, <2>2, LeavesHeld DEF Ticket
    <2> QED
      BY <1>22, <2>1, <2>2 DEF Ticket
  <1>23. ASSUME NEW t \in Threads, Enqueue(t) PROVE LockOwner'
    BY <1>23 DEF Enqueue
  <1>24. ASSUME NEW t \in Threads, Return(t) PROVE LockOwner'
    BY <1>24, LeavesHeld DEF Return
  <1>25. CASE UNCHANGED vars
    BY <1>25 DEF vars
  <1> QED
    BY <1>1, <1>2, <1>3, <1>4, <1>5, <1>6, <1>7, <1>8, <1>9, <1>10, <1>11, <1>12, <1>13,
       <1>14, <1>15, <1>16, <1>17, <1>18, <1>19, <1>20, <1>21, <1>22, <1>23, <1>24, <1>25
       DEF Next, Step, TryWin, Win, FailedWrite

\* A lock names its holder in every reachable state, and with it two winners
\* never work on a common node.
THEOREM LockCorrect == Spec => [](LockOwner /\ MutualExclusion)
  <1> DEFINE I == TypeInv /\ LockOwner
  <1>1. Init => I
    BY TypeInit, ThreadsAssumption
       DEF Init, LockOwner, Held, HoldsNode, HoldsPred, Critical
  <1>2. I /\ [Next]_vars => I'
    BY TypeStep, ControlStep, LockStep DEF TypeInv
  <1>3. I => LockOwner /\ MutualExclusion
    BY NodesAssumption DEF TypeInv, TypeOK, ControlOK, LockOwner, MutualExclusion, Touched, Held, HoldsNode, HoldsPred,
          Critical, Lockable, Writers
  <1> QED
    BY <1>1, <1>2, <1>3, PTL DEF Spec

\* ctx[n] names a thread exactly while that thread is between the CAS that won n
\* and the store that releases it.
THEOREM OwnerKnown == Spec => []LockOwner
  BY LockCorrect, PTL

-----------------------------------------------------------------------------
(***************************************************************************)
(* The requests.  A thread waits, unanswered, on an owner exactly when its *)
(* request is in that owner's queue.                                       *)
(***************************************************************************)
IsQueued(q, u) == \E i \in DOMAIN q : q[i] = u
Distinct(q) == \A i, j \in DOMAIN q : q[i] = q[j] => i = j
AnswerOK == \A t \in Threads : pc[t] # "wait" => answer[t] = "none"

QueueInv ==
    /\ AnswerOK
    /\ \A o \in Threads : Distinct(requests[o])
    /\ \A o, u \in Threads : IsQueued(requests[o], u) <=> Waiting(u) /\ owner[u] = o

\* The request that try_pop returns was queued.
LEMMA HeadQueued ==
    ASSUME NEW q \in Seq(Threads), q # <<>>
    PROVE  IsQueued(q, Head(q))
  <1>1. 1 \in DOMAIN q /\ q[1] = Head(q)
    OBVIOUS
  <1> QED
    BY <1>1 DEF IsQueued

\* try_pop takes the request at the head out of the queue, and no other.
LEMMA TailQueued ==
    ASSUME NEW q \in Seq(Threads), q # <<>>, Distinct(q)
    PROVE  /\ Distinct(Tail(q))
           /\ \A u \in Threads : IsQueued(Tail(q), u) <=> IsQueued(q, u) /\ u # Head(q)
  <1>1. /\ DOMAIN q = 1..Len(q) /\ Len(q) \in Nat \ {0}
        /\ DOMAIN Tail(q) = 1..(Len(q) - 1)
        /\ \A i \in 1..(Len(q) - 1) : Tail(q)[i] = q[i + 1]
        /\ Head(q) = q[1]
    OBVIOUS
  <1>2. Distinct(Tail(q))
    BY <1>1 DEF Distinct
  <1>3. ASSUME NEW u \in Threads, IsQueued(Tail(q), u) PROVE IsQueued(q, u) /\ u # Head(q)
    BY <1>1, <1>3 DEF Distinct, IsQueued
  <1>4. ASSUME NEW u \in Threads, IsQueued(q, u), u # Head(q) PROVE IsQueued(Tail(q), u)
    <2>1. PICK i \in 1..Len(q) : q[i] = u
      BY <1>1, <1>4 DEF IsQueued
    <2>2. i - 1 \in 1..(Len(q) - 1) /\ Tail(q)[i - 1] = u
      BY <1>1, <1>4, <2>1
    <2> QED
      BY <1>1, <2>2 DEF IsQueued
  <1> QED
    BY <1>2, <1>3, <1>4

\* A request that is popped and pushed back stays queued, once.
LEMMA RotatedQueued ==
    ASSUME NEW q \in Seq(Threads), q # <<>>, Distinct(q)
    PROVE  LET r == Append(Tail(q), Head(q))
           IN  /\ Distinct(r)
               /\ \A u \in Threads : IsQueued(r, u) <=> IsQueued(q, u)
  <1> DEFINE r == Append(Tail(q), Head(q))
  <1>1. /\ DOMAIN q = 1..Len(q) /\ Len(q) \in Nat \ {0}
        /\ DOMAIN r = 1..Len(q)
        /\ \A i \in 1..(Len(q) - 1) : r[i] = q[i + 1]
        /\ r[Len(q)] = q[1]
    OBVIOUS
  <1> HIDE DEF r
  <1>2. Distinct(r)
    BY <1>1, SMTT(30) DEF Distinct
  <1>3. ASSUME NEW u \in Threads, IsQueued(r, u) PROVE IsQueued(q, u)
    <2>1. PICK i \in 1..Len(q) : r[i] = u
      BY <1>1, <1>3 DEF IsQueued
    <2>2. CASE i = Len(q)
      BY <1>1, <2>1, <2>2 DEF IsQueued
    <2>3. CASE i # Len(q)
      <3>1. i \in 1..(Len(q) - 1)
        <4>1. Len(q) \in Nat
          OBVIOUS
        <4> QED
          BY <2>3, <4>1
      <3>2. i + 1 \in 1..Len(q)
        BY <1>1, <3>1
      <3>3. q[i + 1] = u
        BY <1>1, <2>1, <3>1
      <3> QED
        BY <1>1, <3>1, <3>2, <3>3 DEF IsQueued
    <2> QED
      BY <2>2, <2>3
  <1>4. ASSUME NEW u \in Threads, IsQueued(q, u) PROVE IsQueued(r, u)
    <2>1. PICK i \in 1..Len(q) : q[i] = u
      BY <1>1, <1>4 DEF IsQueued
    <2>2. CASE i = 1
      BY <1>1, <2>1, <2>2 DEF IsQueued
    <2>3. CASE i # 1
      <3>1. i - 1 \in 1..(Len(q) - 1) /\ r[i - 1] = u
        BY <1>1, <2>1, <2>3
      <3> QED
        BY <1>1, <3>1 DEF IsQueued
    <2> QED
      BY <2>2, <2>3
  <1> QED
    BY <1>2, <1>3, <1>4 DEF r

\* A request that is pushed joins a queue in which its thread had none.
LEMMA AppendQueued ==
    ASSUME NEW q \in Seq(Threads), Distinct(q), NEW t \in Threads, ~IsQueued(q, t)
    PROVE  LET r == Append(q, t)
           IN  /\ Distinct(r)
               /\ \A u \in Threads : IsQueued(r, u) <=> IsQueued(q, u) \/ u = t
  <1> DEFINE r == Append(q, t)
  <1>1. /\ DOMAIN q = 1..Len(q) /\ Len(q) \in Nat
        /\ DOMAIN r = 1..(Len(q) + 1)
        /\ \A i \in 1..Len(q) : r[i] = q[i]
        /\ r[Len(q) + 1] = t
    OBVIOUS
  <1> HIDE DEF r
  <1>2. Distinct(r)
    BY <1>1 DEF Distinct, IsQueued
  <1>3. \A u \in Threads : IsQueued(r, u) <=> IsQueued(q, u) \/ u = t
    BY <1>1 DEF IsQueued
  <1> QED
    BY <1>2, <1>3 DEF r

\* No step loses, duplicates or leaves behind a request of a thread that waits.
LEMMA QueueStep == TypeInv /\ QueueInv /\ [Next]_vars => QueueInv'
  <1> SUFFICES ASSUME TypeInv, QueueInv, [Next]_vars PROVE QueueInv'
    OBVIOUS
  <1> USE DEF TypeInv, TypeOK, ControlOK, Goto, QueueInv, AnswerOK, Waiting
  <1>1. ASSUME NEW t \in Threads, Start(t) PROVE QueueInv'
    BY <1>1 DEF Start
  <1>2. ASSUME NEW t \in Threads, DrainOne(t) PROVE QueueInv'
    <2> DEFINE w == Head(requests[t])
    <2>1. w \in Threads /\ IsQueued(requests[t], w)
      BY <1>2, QueueOps, HeadQueued DEF DrainOne, Answer
    <2>2. /\ Distinct(Tail(requests[t]))
         /\ \A u \in Threads : IsQueued(Tail(requests[t]), u) <=> IsQueued(requests[t], u) /\ u # w
      BY <1>2, TailQueued DEF DrainOne, Answer
    <2>3. PICK a \in {"ok", "fail", "retry"} : answer' = [answer EXCEPT ![w] = a]
      BY <1>2 DEF DrainOne, Answer, Verdicts
    <2>4. \A u \in Threads : Waiting(u)' <=> Waiting(u) /\ u # w
      BY <1>2, <2>1, <2>3 DEF DrainOne
    <2>5. requests' = [requests EXCEPT ![t] = Tail(requests[t])] /\ UNCHANGED <<pc, owner>>
      BY <1>2 DEF DrainOne, Answer
    <2>6. AnswerOK'
      BY <2>1, <2>3, <2>5
    <2> QED
      BY <2>1, <2>2, <2>4, <2>5, <2>6
  <1>3. ASSUME NEW t \in Threads, DrainDone(t) PROVE QueueInv'
    BY <1>3 DEF DrainDone, Finish
  <1>4. ASSUME NEW t \in Threads, Mark(t) PROVE QueueInv'
    BY <1>4 DEF Mark
  <1>5. ASSUME NEW t \in Threads, CasNodeWin(t) PROVE QueueInv'
    BY <1>5 DEF CasNodeWin
  <1>6. ASSUME NEW t \in Threads, CasNodeLose(t) PROVE QueueInv'
    BY <1>6 DEF CasNodeLose
  <1>7. ASSUME NEW t \in Threads, CasPredWin(t) PROVE QueueInv'
    BY <1>7 DEF CasPredWin
  <1>8. ASSUME NEW t \in Threads, CasPredLose(t) PROVE QueueInv'
    BY <1>8 DEF CasPredLose
  <1>9. ASSUME NEW t \in Threads, Shut(t) PROVE QueueInv'
    BY <1>9 DEF Shut
  <1>10. ASSUME NEW t \in Threads, GiveUp(t) PROVE QueueInv'
    BY <1>10 DEF GiveUp
  <1>11. ASSUME NEW t \in Threads, Open(t) PROVE QueueInv'
    BY <1>11 DEF Open
  <1>12. ASSUME NEW t \in Threads, Fetch(t) PROVE QueueInv'
    BY <1>12 DEF Fetch
  <1>13. ASSUME NEW t \in Threads, HelpOne(t) PROVE QueueInv'
    <2> DEFINE w == Head(requests[t])
    <2>1. w \in Threads /\ IsQueued(requests[t], w)
      BY <1>13, QueueOps, HeadQueued DEF HelpOne, Answer
    <2>2. /\ Distinct(Tail(requests[t]))
         /\ \A u \in Threads : IsQueued(Tail(requests[t]), u) <=> IsQueued(requests[t], u) /\ u # w
      BY <1>13, TailQueued DEF HelpOne, Answer
    <2>3. PICK a \in {"ok", "fail", "retry"} : answer' = [answer EXCEPT ![w] = a]
      BY <1>13 DEF HelpOne, Answer, Verdicts
    <2>4. \A u \in Threads : Waiting(u)' <=> Waiting(u) /\ u # w
      BY <1>13, <2>1, <2>3 DEF HelpOne
    <2>5. requests' = [requests EXCEPT ![t] = Tail(requests[t])] /\ UNCHANGED <<pc, owner>>
      BY <1>13 DEF HelpOne, Answer
    <2>6. AnswerOK'
      BY <2>1, <2>3, <2>5
    <2> QED
      BY <2>1, <2>2, <2>4, <2>5, <2>6
  <1>14. ASSUME NEW t \in Threads, HelpFull(t) PROVE QueueInv'
    <2>1. LET r == Append(Tail(requests[t]), Head(requests[t]))
          IN  /\ Distinct(r)
              /\ \A u \in Threads : IsQueued(r, u) <=> IsQueued(requests[t], u)
      BY <1>14, RotatedQueued DEF HelpFull
    <2> QED
      BY <1>14, <2>1 DEF HelpFull
  <1>15. ASSUME NEW t \in Threads, HelpDone(t) PROVE QueueInv'
    BY <1>15 DEF HelpDone
  <1>16. ASSUME NEW t \in Threads, Count(t) PROVE QueueInv'
    BY <1>16 DEF Count
  <1>17. ASSUME NEW t \in Threads, LeaveNode(t) PROVE QueueInv'
    BY <1>17 DEF LeaveNode
  <1>18. ASSUME NEW t \in Threads, LeavePred(t) PROVE QueueInv'
    BY <1>18 DEF LeavePred
  <1>19. ASSUME NEW t \in Threads, LeaveDepth(t) PROVE QueueInv'
    BY <1>19 DEF LeaveDepth, Finish
  <1>20. ASSUME NEW t \in Threads, CheckType(t) PROVE QueueInv'
    <2>1. CASE Finish(t)
      BY <1>20, <2>1 DEF CheckType, Finish, Retry
    <2>2. CASE Retry(t)
      BY <1>20, <2>2 DEF CheckType, Finish, Retry
    <2>3. CASE pc' = [pc EXCEPT ![t] = "spin"] /\ UNCHANGED <<kind, node, owner>>
      BY <1>20, <2>3 DEF CheckType, Finish, Retry
    <2> QED
      BY <1>20, <2>1, <2>2, <2>3 DEF CheckType
  <1>21. ASSUME NEW t \in Threads, SpinEnds(t) PROVE QueueInv'
    BY <1>21 DEF SpinEnds
  <1>22. ASSUME NEW t \in Threads, Ticket(t) PROVE QueueInv'
    BY <1>22 DEF Ticket, Retry
  <1>23. ASSUME NEW t \in Threads, Enqueue(t) PROVE QueueInv'
    <2>1. owner[t] \in Threads /\ ~IsQueued(requests[owner[t]], t)
      BY <1>23 DEF Enqueue
    <2>2. LET r == Append(requests[owner[t]], t)
          IN  /\ Distinct(r)
              /\ \A u \in Threads : IsQueued(r, u) <=> IsQueued(requests[owner[t]], u) \/ u = t
      BY <2>1, AppendQueued
    <2>3. AnswerOK' /\ \A u \in Threads : Waiting(u)' <=> Waiting(u) \/ u = t
      BY <1>23 DEF Enqueue
    <2> QED
      BY <1>23, <2>1, <2>2, <2>3 DEF Enqueue
  <1>24. ASSUME NEW t \in Threads, Return(t) PROVE QueueInv'
    BY <1>24 DEF Return, Retry, Finish
  <1>25. CASE UNCHANGED vars
    BY <1>25 DEF vars
  <1> QED
    BY <1>1, <1>2, <1>3, <1>4, <1>5, <1>6, <1>7, <1>8, <1>9, <1>10, <1>11, <1>12, <1>13,
       <1>14, <1>15, <1>16, <1>17, <1>18, <1>19, <1>20, <1>21, <1>22, <1>23, <1>24, <1>25
       DEF Next, Step, TryWin, Win, FailedWrite

\* A queued request belongs to a thread that still waits for that queue's owner,
\* and a waiting thread's request is in its owner's queue: the pointers a winner
\* follows are alive, and no request is lost between losing, handing over,
\* pushing back and draining.
THEOREM RequestsCorrect == Spec => [](RequestsAlive /\ NoRequestLost)
  <1> DEFINE I == TypeInv /\ QueueInv
  <1>1. Init => I
    BY TypeInit DEF Init, QueueInv, AnswerOK, Waiting, Distinct, IsQueued
  <1>2. I /\ [Next]_vars => I'
    BY TypeStep, ControlStep, QueueStep DEF TypeInv
  <1>3. I => RequestsAlive /\ NoRequestLost
    <2> SUFFICES ASSUME I PROVE RequestsAlive /\ NoRequestLost
      OBVIOUS
    <2>1. \A o \in Threads : \A i \in DOMAIN requests[o] : requests[o][i] \in Threads
      BY DEF TypeInv, TypeOK
    <2>2. RequestsAlive
      BY <2>1 DEF QueueInv, RequestsAlive, IsQueued, Distinct
    <2>3. NoRequestLost
      <3> SUFFICES ASSUME NEW t \in Threads, Waiting(t)
                   PROVE  IsQueued(requests[owner[t]], t)
        BY DEF NoRequestLost, IsQueued
      <3>1. owner[t] \in Threads
        BY DEF Waiting, TypeInv, ControlOK
      <3> QED
        BY <3>1 DEF QueueInv
    <2> QED
      BY <2>2, <2>3
  <1> QED
    BY <1>1, <1>2, <1>3, PTL DEF Spec

\* A loser that spins on is_done finds its request served or given back some day:
\* it never leaves the queues unanswered.
THEOREM RequestsKept == Spec => []NoRequestLost
  BY RequestsCorrect, PTL

-----------------------------------------------------------------------------
(***************************************************************************)
(* The waits-for relation.  Only a failed CAS adds an edge, and it leads   *)
(* to a thread that holds a node and therefore does not spin.              *)
(***************************************************************************)
EdgesKept ==
    \A t \in Threads : SpinsOn(t)' => SpinsOn(t) /\ owner'[t] = owner[t]
NewEdge == \E t \in Threads : CasNodeLose(t)

\* A step adds no edge unless a thread loses the CAS of its node.
LEMMA EdgeStep == TypeInv /\ [Next]_vars => EdgesKept \/ NewEdge
  <1> SUFFICES ASSUME TypeInv, [Next]_vars PROVE EdgesKept \/ NewEdge
    OBVIOUS
  <1> USE DEF TypeInv, TypeOK, ControlOK, Goto, EdgesKept, SpinsOn, Waiting
  <1>1. ASSUME NEW t \in Threads, Start(t) PROVE EdgesKept \/ NewEdge
    BY <1>1 DEF Start
  <1>2. ASSUME NEW t \in Threads, DrainOne(t) PROVE EdgesKept \/ NewEdge
    BY <1>2, QueueOps DEF DrainOne, Answer
  <1>3. ASSUME NEW t \in Threads, DrainDone(t) PROVE EdgesKept \/ NewEdge
    BY <1>3 DEF DrainDone, Finish
  <1>4. ASSUME NEW t \in Threads, Mark(t) PROVE EdgesKept \/ NewEdge
    BY <1>4 DEF Mark
  <1>5. ASSUME NEW t \in Threads, CasNodeWin(t) PROVE EdgesKept \/ NewEdge
    BY <1>5 DEF CasNodeWin
  <1>6. ASSUME NEW t \in Threads, CasNodeLose(t) PROVE EdgesKept \/ NewEdge
    BY <1>6 DEF NewEdge
  <1>7. ASSUME NEW t \in Threads, CasPredWin(t) PROVE EdgesKept \/ NewEdge
    BY <1>7 DEF CasPredWin
  <1>8. ASSUME NEW t \in Threads, CasPredLose(t) PROVE EdgesKept \/ NewEdge
    BY <1>8 DEF CasPredLose
  <1>9. ASSUME NEW t \in Threads, Shut(t) PROVE EdgesKept \/ NewEdge
    BY <1>9 DEF Shut
  <1>10. ASSUME NEW t \in Threads, GiveUp(t) PROVE EdgesKept \/ NewEdge
    BY <1>10 DEF GiveUp
  <1>11. ASSUME NEW t \in Threads, Open(t) PROVE EdgesKept \/ NewEdge
    BY <1>11 DEF Open
  <1>12. ASSUME NEW t \in Threads, Fetch(t) PROVE EdgesKept \/ NewEdge
    <2>1. CASE pc' = [pc EXCEPT ![t] = "help"]
      BY <1>12, <2>1 DEF Fetch
    <2>2. CASE kind[t] = "insert" /\ pc' = [pc EXCEPT ![t] = "morph"]
      BY <1>12, <2>2 DEF Fetch
    <2> QED
      BY <1>12, <2>1, <2>2 DEF Fetch
  <1>13. ASSUME NEW t \in Threads, HelpOne(t) PROVE EdgesKept \/ NewEdge
    BY <1>13, QueueOps DEF HelpOne, Answer, Verdicts
  <1>14. ASSUME NEW t \in Threads, HelpFull(t) PROVE EdgesKept \/ NewEdge
    BY <1>14 DEF HelpFull
  <1>15. ASSUME NEW t \in Threads, HelpDone(t) PROVE EdgesKept \/ NewEdge
    BY <1>15 DEF HelpDone
  <1>16. ASSUME NEW t \in Threads, Count(t) PROVE EdgesKept \/ NewEdge
    BY <1>16 DEF Count
  <1>17. ASSUME NEW t \in Threads, LeaveNode(t) PROVE EdgesKept \/ NewEdge
    BY <1>17 DEF LeaveNode
  <1>18. ASSUME NEW t \in Threads, LeavePred(t) PROVE EdgesKept \/ NewEdge
    BY <1>18 DEF LeavePred
  <1>19. ASSUME NEW t \in Threads, LeaveDepth(t) PROVE EdgesKept \/ NewEdge
    BY <1>19 DEF LeaveDepth, Finish
  <1>20. ASSUME NEW t \in Threads, CheckType(t) PROVE EdgesKept \/ NewEdge
    <2>1. CASE Finish(t)
      BY <1>20, <2>1 DEF CheckType, Finish, Retry
    <2>2. CASE Retry(t)
      BY <1>20, <2>2 DEF CheckType, Finish, Retry
    <2>3. CASE pc' = [pc EXCEPT ![t] = "spin"] /\ UNCHANGED <<kind, node, owner>>
      BY <1>20, <2>3 DEF CheckType, Finish, Retry
    <2> QED
      BY <1>20, <2>1, <2>2, <2>3 DEF CheckType
  <1>21. ASSUME NEW t \in Threads, SpinEnds(t) PROVE EdgesKept \/ NewEdge
    BY <1>21 DEF SpinEnds
  <1>22. ASSUME NEW t \in Threads, Ticket(t) PROVE EdgesKept \/ NewEdge
    BY <1>22 DEF Ticket, Retry
  <1>23. ASSUME NEW t \in Threads, Enqueue(t) PROVE EdgesKept \/ NewEdge
    BY <1>23 DEF Enqueue
  <1>24. ASSUME NEW t \in Threads, Return(t) PROVE EdgesKept \/ NewEdge
    BY <1>24 DEF Return, Retry, Finish
  <1>25. CASE UNCHANGED vars
    BY <1>25 DEF vars
  <1> QED
    BY <1>1, <1>2, <1>3, <1>4, <1>5, <1>6, <1>7, <1>8, <1>9, <1>10, <1>11, <1>12, <1>13,
       <1>14, <1>15, <1>16, <1>17, <1>18, <1>19, <1>20, <1>21, <1>22, <1>23, <1>24, <1>25
       DEF Next, Step, TryWin, Win, FailedWrite

\* The loser's edge leads to a thread without an edge of its own.
LEMMA EdgeAdded ==
    ASSUME TypeInv, LockOwner, NoCircularWait, NEW t \in Threads, CasNodeLose(t)
    PROVE  NoCircularWait'
  <1>1. owner'[t] \in Threads /\ ctx[node[t]] = owner'[t] /\ node[t] \in Lockable
    BY DEF TypeInv, TypeOK, CasNodeLose
  <1>2. node[t] \in Held(owner'[t])
    BY <1>1 DEF LockOwner
  <1>3. ~SpinsOn(owner'[t]) /\ owner'[t] # t
    BY <1>2 DEF Held, HoldsNode, HoldsPred, Critical, SpinsOn, Waiting, CasNodeLose
  <1>4. \A u \in Threads \ {t} : SpinsOn(u)' <=> SpinsOn(u)
    BY DEF CasNodeLose, Goto, SpinsOn, Waiting, TypeInv, TypeOK
  <1>5. \A u \in Threads \ {t} : owner'[u] = owner[u]
    BY DEF CasNodeLose, TypeInv, TypeOK
  <1> SUFFICES ASSUME NEW S \in SUBSET Threads,
                      \A u \in S : SpinsOn(u)' /\ owner'[u] \in S
               PROVE  S = {}
    BY DEF NoCircularWait
  <1>6. t \notin S
    BY <1>1, <1>3, <1>4
  <1> QED
    BY <1>4, <1>5, <1>6 DEF NoCircularWait

\* No step closes a circle of spinning threads.
LEMMA WaitStep == TypeInv /\ LockOwner /\ NoCircularWait /\ [Next]_vars => NoCircularWait'
  <1>1. ASSUME NoCircularWait, EdgesKept PROVE NoCircularWait'
    BY <1>1 DEF NoCircularWait, EdgesKept
  <1> QED
    BY <1>1, EdgeStep, EdgeAdded DEF NewEdge

\* Threads never wait for one another in a circle, however stale the owner each
\* of them spins on: handing over cannot deadlock by itself.
THEOREM NoDeadlock == Spec => []NoCircularWait
  <1> DEFINE I == TypeInv /\ LockOwner /\ NoCircularWait
  <1>1. Init => I
    BY TypeInit, ThreadsAssumption
       DEF Init, LockOwner, Held, HoldsNode, HoldsPred, Critical, NoCircularWait, SpinsOn, Waiting
  <1>2. I /\ [Next]_vars => I'
    BY TypeStep, ControlStep, LockStep, WaitStep DEF TypeInv
  <1> QED
    BY <1>1, <1>2, PTL DEF Spec

-----------------------------------------------------------------------------
\* The winner's context stays closed while peers go on subtracting from it.
LEMMA ClosedStep == TypeInv /\ ClosedWhileServing /\ [Next]_vars => ClosedWhileServing'
  <1> SUFFICES ASSUME TypeInv, ClosedWhileServing, [Next]_vars PROVE ClosedWhileServing'
    OBVIOUS
  <1> USE DEF TypeInv, TypeOK, ControlOK, Goto, ClosedWhileServing, Critical
  <1>1. ASSUME NEW t \in Threads, Start(t) PROVE ClosedWhileServing'
    BY <1>1 DEF Start
  <1>2. ASSUME NEW t \in Threads, DrainOne(t) PROVE ClosedWhileServing'
    BY <1>2 DEF DrainOne
  <1>3. ASSUME NEW t \in Threads, DrainDone(t) PROVE ClosedWhileServing'
    BY <1>3 DEF DrainDone, Finish
  <1>4. ASSUME NEW t \in Threads, Mark(t) PROVE ClosedWhileServing'
    BY <1>4 DEF Mark, Closed
  <1>5. ASSUME NEW t \in Threads, CasNodeWin(t) PROVE ClosedWhileServing'
    BY <1>5 DEF CasNodeWin
  <1>6. ASSUME NEW t \in Threads, CasNodeLose(t) PROVE ClosedWhileServing'
    BY <1>6 DEF CasNodeLose
  <1>7. ASSUME NEW t \in Threads, CasPredWin(t) PROVE ClosedWhileServing'
    BY <1>7 DEF CasPredWin
  <1>8. ASSUME NEW t \in Threads, CasPredLose(t) PROVE ClosedWhileServing'
    BY <1>8 DEF CasPredLose
  <1>9. ASSUME NEW t \in Threads, Shut(t) PROVE ClosedWhileServing'
    BY <1>9 DEF Shut
  <1>10. ASSUME NEW t \in Threads, GiveUp(t) PROVE ClosedWhileServing'
    BY <1>10 DEF GiveUp
  <1>11. ASSUME NEW t \in Threads, Open(t) PROVE ClosedWhileServing'
    BY <1>11 DEF Open
  <1>12. ASSUME NEW t \in Threads, Fetch(t) PROVE ClosedWhileServing'
    BY <1>12 DEF Fetch, Closed
  <1>13. ASSUME NEW t \in Threads, HelpOne(t) PROVE ClosedWhileServing'
    BY <1>13 DEF HelpOne
  <1>14. ASSUME NEW t \in Threads, HelpFull(t) PROVE ClosedWhileServing'
    BY <1>14 DEF HelpFull
  <1>15. ASSUME NEW t \in Threads, HelpDone(t) PROVE ClosedWhileServing'
    BY <1>15 DEF HelpDone
  <1>16. ASSUME NEW t \in Threads, Count(t) PROVE ClosedWhileServing'
    BY <1>16 DEF Count
  <1>17. ASSUME NEW t \in Threads, LeaveNode(t) PROVE ClosedWhileServing'
    BY <1>17 DEF LeaveNode
  <1>18. ASSUME NEW t \in Threads, LeavePred(t) PROVE ClosedWhileServing'
    BY <1>18 DEF LeavePred
  <1>19. ASSUME NEW t \in Threads, LeaveDepth(t) PROVE ClosedWhileServing'
    BY <1>19 DEF LeaveDepth, Finish
  <1>20. ASSUME NEW t \in Threads, CheckType(t) PROVE ClosedWhileServing'
    <2>1. CASE Finish(t)
      BY <1>20, <2>1 DEF CheckType, Finish, Retry
    <2>2. CASE Retry(t)
      BY <1>20, <2>2 DEF CheckType, Finish, Retry
    <2>3. CASE pc' = [pc EXCEPT ![t] = "spin"] /\ UNCHANGED <<kind, node, owner>>
      BY <1>20, <2>3 DEF CheckType, Finish, Retry
    <2> QED
      BY <1>20, <2>1, <2>2, <2>3 DEF CheckType
  <1>21. ASSUME NEW t \in Threads, SpinEnds(t) PROVE ClosedWhileServing'
    BY <1>21 DEF SpinEnds
  <1>22. ASSUME NEW t \in Threads, Ticket(t) PROVE ClosedWhileServing'
    <2>1. \A u \in Threads : maxDepth[u] < 0 => maxDepth'[u] < 0
      BY <1>22 DEF Ticket, Floor
    <2>2. \A u \in Threads : u # t => pc'[u] = pc[u]
      BY <1>22 DEF Ticket, Retry
    <2>3. pc'[t] \in {"enqueue", "drain"}
      BY <1>22 DEF Ticket, Retry
    <2> QED
      BY <2>1, <2>2, <2>3
  <1>23. ASSUME NEW t \in Threads, Enqueue(t) PROVE ClosedWhileServing'
    BY <1>23 DEF Enqueue
  <1>24. ASSUME NEW t \in Threads, Return(t) PROVE ClosedWhileServing'
    BY <1>24 DEF Return, Retry, Finish
  <1>25. CASE UNCHANGED vars
    BY <1>25 DEF vars
  <1> QED
    BY <1>1, <1>2, <1>3, <1>4, <1>5, <1>6, <1>7, <1>8, <1>9, <1>10, <1>11, <1>12, <1>13,
       <1>14, <1>15, <1>16, <1>17, <1>18, <1>19, <1>20, <1>21, <1>22, <1>23, <1>24, <1>25
       DEF Next, Step, TryWin, Win, FailedWrite

\* A winner that has fetched admits no further request until its locks are free.
THEOREM ClosedCorrect == Spec => []ClosedWhileServing
  <1> DEFINE I == TypeInv /\ ClosedWhileServing
  <1>1. Init => I
    BY TypeInit DEF Init, ClosedWhileServing, Critical
  <1>2. I /\ [Next]_vars => I'
    BY TypeStep, ControlStep, ClosedStep DEF TypeInv
  <1> QED
    BY <1>1, <1>2, PTL DEF Spec
=============================================================================
