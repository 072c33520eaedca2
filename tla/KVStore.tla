-------------------------------- MODULE KVStore --------------------------------
(***************************************************************************)
(* What the store promises its callers (ComputeNode::put and get, as       *)
(* tests/test_store.cpp uses them): a put returns true only after its      *)
(* record has been stored, nothing is found that was never put, and a      *)
(* record that was stored stays.                                           *)
(*                                                                         *)
(* The code keeps less than the obvious map would, and the specification   *)
(* says how much less: a record may be soft, and only soft records are     *)
(* ever forgotten; a get may miss.  Module Store shows when that happens.  *)
(***************************************************************************)
EXTENDS Naturals, FiniteSets

CONSTANTS
    Threads,
    Keys

VARIABLES
    stored,     \* the keys that have a record
    soft,       \* keys whose record may still be forgotten
    call        \* what each thread is doing

vars == <<stored, soft, call>>

Idle == [op |-> "none", key |-> {}, state |-> "idle"]

\* The key of a call is a set, empty when there is no call.
Calls == [op : {"none", "put", "get"}, key : {K \in SUBSET Keys : Cardinality(K) <= 1},
          state : {"idle", "pending", "ok", "fail"}]

Init ==
    /\ stored \subseteq Keys
    /\ soft = {}
    /\ call = [t \in Threads |-> Idle]

Invoke(t, op, k) ==
    /\ call[t] = Idle
    /\ call' = [call EXCEPT ![t] = [op |-> op, key |-> {k}, state |-> "pending"]]
    /\ UNCHANGED <<stored, soft>>

\* The put takes effect, once, between its invocation and its return.
Put(t) ==
    /\ call[t].op = "put" /\ call[t].state = "pending"
    /\ call' = [call EXCEPT ![t].state = "ok"]
    /\ stored' = stored \cup call[t].key
    /\ soft' \in {soft \cup call[t].key, soft \ call[t].key}

\* What is found is there; what is missed may be there all the same.
Get(t) ==
    /\ call[t].op = "get" /\ call[t].state = "pending"
    /\ \/ call[t].key \subseteq stored /\ call' = [call EXCEPT ![t].state = "ok"]
       \/ call' = [call EXCEPT ![t].state = "fail"]
    /\ UNCHANGED <<stored, soft>>

Return(t) ==
    /\ call[t].state \in {"ok", "fail"}
    /\ call' = [call EXCEPT ![t] = Idle]
    /\ UNCHANGED <<stored, soft>>

Harden == \E S \in SUBSET soft : soft' = soft \ S /\ UNCHANGED <<stored, call>>

Forget == \E S \in SUBSET soft : stored' = stored \ S /\ UNCHANGED <<soft, call>>

Next ==
    \/ \E t \in Threads :
          \/ \E op \in {"put", "get"}, k \in Keys : Invoke(t, op, k)
          \/ Put(t) \/ Get(t) \/ Return(t)
    \/ Harden
    \/ Forget

Spec == Init /\ [][Next]_vars
=============================================================================
