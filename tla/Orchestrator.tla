---------------------------- MODULE Orchestrator ----------------------------
(***************************************************************************)
(* The orchestrator's shared node pool under everything that reaches it:   *)
(* the health checker's task, the management calls and the `_register`     *)
(* endpoint (orchestrator.rs, http_router.rs), the forwarding of requests, *)
(* nodes that come and go, and time.                                       *)
(***************************************************************************)
EXTENDS HealthChecker

vars == <<nodes, enabled_nodes, round_robin_index, phase, checks, update, up>>

Init ==
    /\ LBInit
    /\ HcInit
    /\ up \in SUBSET Addr

-----------------------------------------------------------------------------
(* orchestrator.rs: each call is one write-lock section *)

\* Calls that turn a node on.
Admit(a) ==
    /\ \/ add_node(a)
       \/ enable_node(a)
       \/ register_node(a)
    /\ UNCHANGED <<hcVars, up>>

\* Calls that turn a node off.
Withdraw(a) ==
    /\ \/ disable_node(a)
       \/ remove_node(a)
    /\ UNCHANGED <<hcVars, up>>

\* forward_request_jsonrpc picks a node for a request.
PickNode ==
    /\ \E r \in Addr \cup {NoNode} : next_node(r)
    /\ UNCHANGED <<hcVars, up>>

-----------------------------------------------------------------------------
(* The environment *)

NodeUp(a) ==
    /\ a \notin up
    /\ up' = up \cup {a}
    /\ UNCHANGED <<lbVars, hcVars>>

NodeDown(a) ==
    /\ a \in up
    /\ up' = up \ {a}
    /\ UNCHANGED <<lbVars, hcVars>>

TimePasses == Tick /\ UNCHANGED <<hcVars, up>>

-----------------------------------------------------------------------------
Next ==
    \/ HcNext
    \/ \E a \in Addr : Admit(a) \/ Withdraw(a) \/ NodeUp(a) \/ NodeDown(a)
    \/ PickNode
    \/ TimePasses

Spec == Init /\ [][Next]_vars

(***************************************************************************)
(* tokio keeps polling the health checker's task (its loop has no other    *)
(* exit, every probe is under a timeout) and the wall clock moves on.      *)
(* Nothing is assumed of operators, clients or nodes.                      *)
(***************************************************************************)
FairSpec == Spec /\ WF_vars(HcNext) /\ WF_vars(TimePasses)

-----------------------------------------------------------------------------
(* Safety *)

TypeOK == LBTypeOK /\ HcTypeOK

(***************************************************************************)
(* The health checker acts on a snapshot operators may have overtaken,     *)
(* yet no step of it re-enables a manually disabled node or replaces the   *)
(* Manual reason (DisableReason::Manual, node.rs).                         *)
(***************************************************************************)
ManualDisableSticks ==
    [][hcVars' # hcVars =>
          \A a \in DOMAIN nodes :
              nodes[a].disable_reason = "Manual" =>
                  /\ a \in DOMAIN nodes'
                  /\ nodes'[a].disable_reason = "Manual"
                  /\ a \notin Entries(enabled_nodes')]_vars

(***************************************************************************)
(* A circuit never skips its probation: as long as the node stays in the   *)
(* pool, Open is left only for HalfOpen, and HalfOpen is entered only from *)
(* Open, whatever operators do in between.                                 *)
(***************************************************************************)
CircuitMoves ==
    {<<"Closed", "Open">>, <<"Open", "HalfOpen">>,
     <<"HalfOpen", "Closed">>, <<"HalfOpen", "Open">>}

NoSkippedProbation ==
    [][\A a \in DOMAIN nodes \cap DOMAIN nodes' :
          LET from == nodes[a].circuit_state
              to   == nodes'[a].circuit_state
          IN  from # to => <<from, to>> \in CircuitMoves]_vars

-----------------------------------------------------------------------------
(* What the pool promises *)

\* The standing of an address, as the flags of its node spell it.
StandingFor(reason) ==
    IF reason = "None" THEN "serving"
    ELSE IF reason = "Manual" THEN "held" ELSE "isolated"

StandingOf(a) ==
    IF a \in DOMAIN nodes THEN StandingFor(nodes[a].disable_reason) ELSE "absent"

CircuitOf(a) == IF a \in DOMAIN nodes THEN nodes[a].circuit_state ELSE "Closed"

Pool == INSTANCE NodePool WITH
            standing <- [a \in Addr |-> StandingOf(a)],
            circuit  <- [a \in Addr |-> CircuitOf(a)],
            offered  <- {Visit(k) : k \in Selectable}

(***************************************************************************)
(* The whole machinery behaves like the pool of NodePool: a health-check   *)
(* round that reads a snapshot, awaits its probes without a lock and       *)
(* writes its verdicts later has only effects that a verdict on the pool   *)
(* as it then is could have, registrations and operators included, and     *)
(* next_node's walk over roster and map offers exactly the nodes that      *)
(* standing and circuit allow.                                             *)
(***************************************************************************)
PoolImplemented == Pool!PoolSpec

-----------------------------------------------------------------------------
(* Liveness *)

(***************************************************************************)
(* A node that answers its probes from some time on, and is neither        *)
(* removed nor manually disabled, ends up routable for good: auto-disable  *)
(* is undone and an Open circuit times out, is probed and closes.          *)
(***************************************************************************)
RecoveredNodeReturns ==
    \A a \in Addr :
        <>[](/\ a \in up
             /\ a \in DOMAIN nodes
             /\ nodes[a].disable_reason # "Manual")
        => <>[]Routable(a)

(***************************************************************************)
(* A node that stops answering for good is eventually never routed to,     *)
(* provided operators eventually leave it alone.                           *)
(***************************************************************************)
DeadNodeIsolated ==
    \A a \in Addr :
        (<>[](a \notin up) /\ <>[][~Admit(a)]_vars) => <>[]~Routable(a)

=============================================================================
