------------------------------ MODULE NodePool ------------------------------
(***************************************************************************)
(* What the orchestrator's node pool promises to operators and callers,    *)
(* with none of its mechanism: no roster and index, no failure counters    *)
(* and timers, no health-check rounds with snapshots that grow old.        *)
(* Every step is taken on the pool as it is at that moment.                *)
(*                                                                         *)
(* Orchestrator implements this module (PoolImplemented there).            *)
(***************************************************************************)
CONSTANT Addr

VARIABLES
    standing,   \* of each address: what the pool has decided about it
    circuit,    \* of each address: what its circuit breaker lets through
    offered     \* the addresses a request may be sent to

poolVars == <<standing, circuit, offered>>

\* Outside the pool; taking requests; held back by an operator; held back by
\* the health checker.
Standing == {"absent", "serving", "held", "isolated"}

Circuit == {"Closed", "Open", "HalfOpen"}

\* Requests go to the serving nodes whose circuit is not open, to all of them
\* and to no others.
Offer(s, c) == {a \in Addr : s[a] = "serving" /\ c[a] # "Open"}

PoolInit ==
    /\ standing \in [Addr -> {"absent", "serving"}]
    /\ circuit = [a \in Addr |-> "Closed"]
    /\ offered = Offer(standing, circuit)

-----------------------------------------------------------------------------
\* An operator or the node itself brings a node in, from whatever standing;
\* its circuit is not touched.
Admit(a) ==
    /\ standing' = [standing EXCEPT ![a] = "serving"]
    /\ UNCHANGED circuit

\* An operator takes a member out of service.
Hold(a) ==
    /\ standing[a] # "absent"
    /\ standing' = [standing EXCEPT ![a] = "held"]
    /\ UNCHANGED circuit

\* An operator takes a node out of the pool, and its record with it.
Expel(a) ==
    /\ standing' = [standing EXCEPT ![a] = "absent"]
    /\ circuit' = [circuit EXCEPT ![a] = "Closed"]

\* The circuits whose timeout is over go on probation together.
Probation ==
    \E due \in SUBSET {a \in Addr : circuit[a] = "Open"} :
        /\ circuit' = [a \in Addr |-> IF a \in due THEN "HalfOpen" ELSE circuit[a]]
        /\ UNCHANGED standing

(***************************************************************************)
(* The health checker's verdict on a member, good or bad.  A good one may  *)
(* bring back what the checker had isolated and ends a probation; a bad    *)
(* one may isolate a serving node and trips a circuit.  A node that an     *)
(* operator holds stays held.                                              *)
(***************************************************************************)
GoodVerdict(a) ==
    /\ standing[a] # "absent"
    /\ \/ UNCHANGED standing
       \/ standing[a] = "isolated" /\ standing' = [standing EXCEPT ![a] = "serving"]
    /\ circuit' = [circuit EXCEPT ![a] = IF @ = "HalfOpen" THEN "Closed" ELSE @]

BadVerdict(a) ==
    /\ standing[a] # "absent"
    /\ \/ UNCHANGED standing
       \/ standing[a] = "serving" /\ standing' = [standing EXCEPT ![a] = "isolated"]
    /\ \/ circuit[a] # "HalfOpen" /\ UNCHANGED circuit
       \/ circuit' = [circuit EXCEPT ![a] = "Open"]

PoolNext ==
    /\ \/ Probation
       \/ \E a \in Addr :
             \/ Admit(a) \/ Hold(a) \/ Expel(a)
             \/ GoodVerdict(a) \/ BadVerdict(a)
    /\ offered' = Offer(standing', circuit')

PoolSpec == PoolInit /\ [][PoolNext]_poolVars

=============================================================================
