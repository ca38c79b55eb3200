----------------------------- MODULE RoundRobin -----------------------------
(***************************************************************************)
(* How evenly next_node (load_balancer.rs) serves the nodes while circuits *)
(* trip and recover and operators change the roster.  The specification is *)
(* the load balancer alone, each of its methods called at any time, with a *)
(* history variable that counts how often a node was passed over.          *)
(***************************************************************************)
EXTENDS LoadBalancer

VARIABLE waited   \* picks of other nodes since a could first have been picked

rrVars == <<nodes, enabled_nodes, round_robin_index, waited>>

RRInit ==
    /\ LBInit
    /\ waited = [a \in Addr |-> 0]

\* A pick: whoever is routable and not chosen has waited once more.
Pick ==
    \E r \in Addr \cup {NoNode} :
        /\ next_node(r)
        /\ waited' = [a \in Addr |->
                         IF Routable(a) /\ a # r THEN waited[a] + 1 ELSE 0]

\* Any other method, called by an operator or by the health checker.
OtherMethod ==
    \/ check_circuit_timeouts
    \/ Tick
    \/ \E a \in Addr :
          \/ add_node(a)
          \/ remove_node(a)
          \/ disable_node(a)
          \/ enable_node(a)
          \/ \E flag \in BOOLEAN : HealthUpdate(a, TRUE, flag, FALSE)
          \/ \E flag \in BOOLEAN : HealthUpdate(a, FALSE, FALSE, flag)

\* Counting goes on while the roster stays as it is.
Churn ==
    /\ OtherMethod
    /\ waited' = [a \in Addr |->
                     IF enabled_nodes' = enabled_nodes /\ Routable(a)'
                     THEN waited[a]
                     ELSE 0]

RRNext == Pick \/ Churn

RRSpec == RRInit /\ [][RRNext]_rrVars

-----------------------------------------------------------------------------
RRTypeOK ==
    /\ LBTypeOK
    /\ waited \in [Addr -> Nat]

(***************************************************************************)
(* Between two changes of the roster, a node that stays routable is passed *)
(* over fewer times than the roster has entries before next_node returns   *)
(* it, however the circuits of the other nodes flap meanwhile and wherever *)
(* a shrinking roster left round_robin_index.                              *)
(***************************************************************************)
BoundedBypass ==
    \A a \in Addr : Routable(a) => waited[a] < Len(enabled_nodes)

=============================================================================
