---------------------------- MODULE LoadBalancer ----------------------------
(***************************************************************************)
(* The node pool of the orchestrator: madrpc-orchestrator/src/node.rs (a   *)
(* node and its circuit breaker) and load_balancer.rs (the pool, the       *)
(* round-robin roster and every method that changes them).                 *)
(*                                                                         *)
(* The LoadBalancer struct lives behind one tokio RwLock and each method   *)
(* runs under the write guard, so a method is one atomic step here.  The   *)
(* modules that compose it (HealthChecker, Orchestrator, Forwarding) decide *)
(* which methods share a guard and which interleave.                       *)
(*                                                                         *)
(* Left out of a node: request_count, last_request_time,                   *)
(* last_health_check and last_health_check_status, which are written and   *)
(* displayed but never read by any decision.                               *)
(***************************************************************************)
EXTENDS Integers, Sequences, FiniteSets

CONSTANTS
    Addr,               \* node addresses the pool may ever hold
    NoNode,             \* the None that next_node returns
    InitialLists,       \* the node lists the process may be started with
    failure_threshold,  \* CircuitBreakerConfig, in units of model time
    base_timeout,
    max_timeout,
    backoff_multiplier,
    MaxFailures         \* consecutive_failures saturates here (see below)

ASSUME NodeAssumption == NoNode \notin Addr

ASSUME ListAssumption == InitialLists \subseteq Seq(Addr)

ASSUME ConfigAssumption ==
    /\ failure_threshold \in Nat \ {0}
    /\ base_timeout \in Nat
    /\ max_timeout \in Nat
    /\ backoff_multiplier \in Nat \ {0}

VARIABLES
    nodes,              \* HashMap addr -> Node
    enabled_nodes,      \* Vec<String>: the roster next_node walks
    round_robin_index

lbVars == <<nodes, enabled_nodes, round_robin_index>>

-----------------------------------------------------------------------------
(* node.rs *)

DisableReason == {"None", "Manual", "HealthCheck"}

CircuitBreakerState == {"Closed", "Open", "HalfOpen"}

(***************************************************************************)
(* circuit_opened_at is kept as the time elapsed since it was set, capped  *)
(* at max_timeout: it is only ever compared with a timeout, and no timeout *)
(* exceeds that cap.  Unset is the code's None.                            *)
(***************************************************************************)
Unset == -1

Node == [enabled              : BOOLEAN,
         disable_reason       : DisableReason,
         consecutive_failures : 0..MaxFailures,
         circuit_state        : CircuitBreakerState,
         circuit_opened_at    : {Unset} \cup 0..max_timeout,
         half_open_attempted  : BOOLEAN]

NewNode == [enabled              |-> TRUE,
            disable_reason       |-> "None",
            consecutive_failures |-> 0,
            circuit_state        |-> "Closed",
            circuit_opened_at    |-> Unset,
            half_open_attempted  |-> FALSE]

\* base * multiplier^(failures - 1), capped; failures = 0 divides once.
calculate_timeout(failures) ==
    LET backoff == IF failures = 0
                   THEN base_timeout \div backoff_multiplier
                   ELSE base_timeout * backoff_multiplier ^ (failures - 1)
    IN  IF backoff <= max_timeout THEN backoff ELSE max_timeout

should_attempt_half_open(n) ==
    /\ n.circuit_state = "Open"
    /\ n.circuit_opened_at # Unset
    /\ n.circuit_opened_at >= calculate_timeout(n.consecutive_failures)

\* Mutant: the half-open claim survives the next trip.
TripOpenKeepsClaim(n) == [n EXCEPT !.circuit_state     = "Open",
                                   !.circuit_opened_at = 0]

TripOpen(n) == [n EXCEPT !.circuit_state       = "Open",
                         !.circuit_opened_at   = 0,
                         !.half_open_attempted = FALSE]

Close(n) == [n EXCEPT !.circuit_state       = "Closed",
                      !.circuit_opened_at   = Unset,
                      !.half_open_attempted = FALSE]

try_transition_to_half_open(n) ==
    IF n.circuit_state = "Open" /\ ~n.half_open_attempted
    THEN [n EXCEPT !.circuit_state       = "HalfOpen",
                   !.circuit_opened_at   = Unset,
                   !.half_open_attempted = TRUE]
    ELSE n

(***************************************************************************)
(* consecutive_failures is a u32 that saturates in the model at            *)
(* MaxFailures.  Nothing tells larger counts apart as long as every        *)
(* threshold is at or below MaxFailures and the backoff has reached        *)
(* max_timeout there.                                                      *)
(***************************************************************************)
ASSUME SaturationAssumption ==
    /\ MaxFailures \in Nat \ {0}
    /\ failure_threshold <= MaxFailures
    /\ calculate_timeout(MaxFailures) = max_timeout

\* Mutant: the counter runs past its range.
CountPastRange(n) == n.consecutive_failures + 1

OneMoreFailure(n) ==
    IF n.consecutive_failures < MaxFailures
    THEN n.consecutive_failures + 1
    ELSE MaxFailures

-----------------------------------------------------------------------------
(* load_balancer.rs: the pieces its methods are made of *)

Entries(s) == {s[i] : i \in DOMAIN s}

\* Vec::retain(|x| x != a): the entries other than a, in their order.
Retain(s, a) ==
    LET kept    == {i \in DOMAIN s : s[i] # a}
        rank(i) == Cardinality({j \in kept : j <= i})
    IN  [k \in 1..Cardinality(kept) |-> s[CHOOSE i \in kept : rank(i) = k]]

PushIfAbsent(s, a) == IF a \in Entries(s) THEN s ELSE Append(s, a)

SetNode(a, n) == nodes' = [nodes EXCEPT ![a] = n]

Disabled(n, reason) == [n EXCEPT !.enabled = FALSE, !.disable_reason = reason]

Enabled(n) == [n EXCEPT !.enabled              = TRUE,
                        !.disable_reason       = "None",
                        !.consecutive_failures = 0]

\* Mutant: a healthy probe closes an Open circuit too.
HealthyAlwaysCloses(n) == Close([n EXCEPT !.consecutive_failures = 0])

AfterHealthy(n) ==
    LET reset == [n EXCEPT !.consecutive_failures = 0]
    IN  IF n.circuit_state = "HalfOpen" THEN Close(reset) ELSE reset

AfterUnhealthy(n) ==
    LET counted == [n EXCEPT !.consecutive_failures = OneMoreFailure(n)]
        trips   == \/ n.circuit_state = "HalfOpen"
                   \/ /\ n.circuit_state = "Closed"
                      /\ counted.consecutive_failures >= failure_threshold
    IN  IF trips THEN TripOpen(counted) ELSE counted

\* What update_health_status makes of a node.
AfterStatus(n, healthy) == IF healthy THEN AfterHealthy(n) ELSE AfterUnhealthy(n)

-----------------------------------------------------------------------------
(* load_balancer.rs: the methods *)

\* LoadBalancer::with_config: a list with a repeated address keeps the repeat
\* in the roster.
LBInit ==
    \E list \in InitialLists :
        /\ nodes = [a \in Entries(list) |-> NewNode]
        /\ enabled_nodes = list
        /\ round_robin_index = 0

\* The roster entry that the k-th round of next_node's loop looks at.
Visit(k) == enabled_nodes[((round_robin_index + k) % Len(enabled_nodes)) + 1]

\* Mutant: the loop stops one entry early.
SelectableShort ==
    {k \in 0..(Len(enabled_nodes) - 2) :
        /\ Visit(k) \in DOMAIN nodes
        /\ nodes[Visit(k)].circuit_state # "Open"}

Selectable ==
    {k \in 0..(Len(enabled_nodes) - 1) :
        /\ Visit(k) \in DOMAIN nodes
        /\ nodes[Visit(k)].circuit_state # "Open"}

\* Mutant: the index stays on the node that was picked.
NextNodeNoAdvance(r) ==
    /\ \/ Selectable = {} /\ r = NoNode /\ UNCHANGED round_robin_index
       \/ \E k \in Selectable :
            /\ \A j \in Selectable : k <= j
            /\ r = Visit(k)
            /\ round_robin_index' = (round_robin_index + k) % Len(enabled_nodes)
    /\ UNCHANGED <<nodes, enabled_nodes>>

\* next_node() returned r.
next_node(r) ==
    /\ \/ /\ Selectable = {}
          /\ r = NoNode
          /\ round_robin_index' = IF enabled_nodes = << >>
                                  THEN round_robin_index
                                  ELSE round_robin_index % Len(enabled_nodes)
       \/ \E k \in Selectable :
            /\ \A j \in Selectable : k <= j
            /\ r = Visit(k)
            /\ round_robin_index' =
                   (round_robin_index + k + 1) % Len(enabled_nodes)
    /\ UNCHANGED <<nodes, enabled_nodes>>

disable_node(a) ==
    /\ a \in DOMAIN nodes
    /\ SetNode(a, Disabled(nodes[a], "Manual"))
    /\ enabled_nodes' = Retain(enabled_nodes, a)
    /\ UNCHANGED round_robin_index

enable_node(a) ==
    /\ a \in DOMAIN nodes
    /\ SetNode(a, Enabled(nodes[a]))
    /\ enabled_nodes' = PushIfAbsent(enabled_nodes, a)
    /\ UNCHANGED round_robin_index

add_node(a) ==
    /\ a \notin DOMAIN nodes
    /\ nodes' = [x \in DOMAIN nodes \cup {a} |->
                    IF x = a THEN NewNode ELSE nodes[x]]
    /\ enabled_nodes' = Append(enabled_nodes, a)
    /\ UNCHANGED round_robin_index

\* Mutant: the address stays in the roster.
RemoveFromMapOnly(a) ==
    /\ nodes' = [x \in DOMAIN nodes \ {a} |-> nodes[x]]
    /\ UNCHANGED <<enabled_nodes, round_robin_index>>

remove_node(a) ==
    /\ nodes' = [x \in DOMAIN nodes \ {a} |-> nodes[x]]
    /\ enabled_nodes' = Retain(enabled_nodes, a)
    /\ UNCHANGED round_robin_index

\* Mutant: the node is enabled in the map, and the roster is forgotten.
RegisterInMapOnly(a) ==
    LET n == IF a \in DOMAIN nodes THEN nodes[a] ELSE NewNode
    IN  /\ nodes' = [x \in DOMAIN nodes \cup {a} |->
                        IF x = a THEN Enabled(n) ELSE nodes[x]]
        /\ UNCHANGED <<enabled_nodes, round_robin_index>>

\* Orchestrator::register_node (orchestrator.rs): add_node, then enable_node,
\* under one write guard.
register_node(a) ==
    LET n == IF a \in DOMAIN nodes THEN nodes[a] ELSE NewNode
    IN  /\ nodes' = [x \in DOMAIN nodes \cup {a} |->
                        IF x = a THEN Enabled(n) ELSE nodes[x]]
        /\ enabled_nodes' = PushIfAbsent(enabled_nodes, a)
        /\ UNCHANGED round_robin_index

check_circuit_timeouts ==
    /\ nodes' = [a \in DOMAIN nodes |->
                    IF should_attempt_half_open(nodes[a])
                    THEN try_transition_to_half_open(nodes[a])
                    ELSE nodes[a]]
    /\ UNCHANGED <<enabled_nodes, round_robin_index>>

\* The conditions under which the health checker may switch a node.
auto_enable_node(n) == n.disable_reason = "HealthCheck"

\* Mutant: the Manual reason is not respected.
AutoDisableAnything(n) == TRUE

auto_disable_node(n) == n.disable_reason # "Manual"

(***************************************************************************)
(* update_health_status, then auto_enable_node, then auto_disable_node, as *)
(* the two flags of a HealthCheckUpdate ask: the calls apply_health_update *)
(* makes under one write guard.  Each is a no-op on an address that is no  *)
(* longer in the pool.                                                     *)
(***************************************************************************)
HealthUpdate(a, healthy, should_enable, should_disable) ==
    LET told     == AfterStatus(nodes[a], healthy)
        enables  == should_enable /\ auto_enable_node(told)
        on       == IF enables THEN Enabled(told) ELSE told
        disables == should_disable /\ auto_disable_node(on)
    IN  \/ /\ a \in DOMAIN nodes
           /\ SetNode(a, IF disables THEN Disabled(on, "HealthCheck") ELSE on)
           /\ enabled_nodes' = IF disables THEN Retain(enabled_nodes, a)
                               ELSE IF enables THEN PushIfAbsent(enabled_nodes, a)
                               ELSE enabled_nodes
           /\ UNCHANGED round_robin_index
        \/ a \notin DOMAIN nodes /\ UNCHANGED lbVars

\* The clock that circuit_opened_at.elapsed() reads moves on.  It is the system's
\* (SystemTime); here nobody sets it back, which would make the time elapsed 0
\* until the clock is past circuit_opened_at again.
Aged(n) ==
    [n EXCEPT !.circuit_opened_at = IF @ \in 0..(max_timeout - 1) THEN @ + 1 ELSE @]

Tick ==
    /\ nodes' = [a \in DOMAIN nodes |-> Aged(nodes[a])]
    /\ UNCHANGED <<enabled_nodes, round_robin_index>>

-----------------------------------------------------------------------------
LBTypeOK ==
    /\ DOMAIN nodes \subseteq Addr
    /\ nodes \in [DOMAIN nodes -> Node]
    /\ enabled_nodes \in Seq(Addr)
    /\ round_robin_index \in Nat

\* What next_node may return: enabled, and its circuit lets requests through.
Routable(a) ==
    /\ a \in DOMAIN nodes
    /\ nodes[a].enabled
    /\ nodes[a].circuit_state # "Open"

(***************************************************************************)
(* next_node trusts the roster and never looks at the enabled flag, so     *)
(* routing respects the flags only while the Vec and the HashMap agree:    *)
(* the roster lists exactly the enabled nodes of the pool, and a node is   *)
(* disabled exactly when it has a reason.  Seven methods, the health       *)
(* checker's late updates and re-registrations all have to keep this.      *)
(***************************************************************************)
RosterCoherent ==
    /\ Entries(enabled_nodes) = {a \in DOMAIN nodes : nodes[a].enabled}
    /\ \A a \in DOMAIN nodes :
          nodes[a].enabled <=> nodes[a].disable_reason = "None"

(***************************************************************************)
(* The circuit breaker's two side fields follow its state: the opening     *)
(* time is known exactly while the circuit is Open (otherwise              *)
(* should_attempt_half_open never fires) and the half_open_attempted claim *)
(* is held exactly while it is HalfOpen (a claim left set on an Open       *)
(* circuit would lock the node out for good).                              *)
(***************************************************************************)
CircuitCoherent ==
    \A a \in DOMAIN nodes :
        LET n == nodes[a]
        IN  /\ n.circuit_state = "Open" <=> n.circuit_opened_at # Unset
            /\ n.circuit_state = "HalfOpen" <=> n.half_open_attempted

(***************************************************************************)
(* The walk of next_node reaches every routable node and no other: it      *)
(* gives up (None) exactly when no node can take the request, also when    *)
(* round_robin_index points past the end of a roster that has shrunk.      *)
(***************************************************************************)
WalkFindsRoutable ==
    {Visit(k) : k \in Selectable} = {a \in Addr : Routable(a)}

=============================================================================
