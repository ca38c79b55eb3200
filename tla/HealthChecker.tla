---------------------------- MODULE HealthChecker ----------------------------
(***************************************************************************)
(* The background health checker: madrpc-orchestrator/src/health_checker.rs *)
(*                                                                         *)
(* One task loops over check_all_nodes.  It takes the load balancer's lock *)
(* four times in a round (timeouts, snapshot, and then per node a read and *)
(* a write), and awaits the probes in between with no lock held, so every  *)
(* lock acquisition and every probe answer is a step of its own.           *)
(***************************************************************************)
EXTENDS LoadBalancer

CONSTANT hc_failure_threshold   \* HealthCheckConfig::failure_threshold

ASSUME HcAssumption == hc_failure_threshold \in 1..MaxFailures

VARIABLES
    phase,     \* where check_all_nodes is
    checks,    \* the round's snapshot of the pool, with the probes' answers
    update,    \* the HealthCheckUpdate between process and apply
    up         \* environment: nodes that answer _health in time

hcVars == <<phase, checks, update>>

Phases == {"sleeping", "snapshot", "probing", "processing", "applying"}

Check == [enabled        : BOOLEAN,
          disable_reason : DisableReason,
          result         : {"pending", "Ok", "Err"}]

HealthCheckUpdate == [node_addr      : Addr,
                      healthy        : BOOLEAN,
                      should_enable  : BOOLEAN,
                      should_disable : BOOLEAN]

NoUpdate == [node_addr      |-> NoNode,
             healthy        |-> TRUE,
             should_enable  |-> FALSE,
             should_disable |-> FALSE]

HcInit ==
    /\ phase = "sleeping"
    /\ checks = << >>
    /\ update = NoUpdate

Without(f, a) == [x \in DOMAIN f \ {a} |-> f[x]]

-----------------------------------------------------------------------------
\* interval.tick() fired: lb.check_circuit_timeouts() under the write lock.
StartRound ==
    /\ phase = "sleeping"
    /\ check_circuit_timeouts
    /\ phase' = "snapshot"
    /\ UNCHANGED <<checks, update>>

\* lb.all_nodes() under the read lock: a copy of every node.
Snapshot ==
    /\ phase = "snapshot"
    /\ checks' = [a \in DOMAIN nodes |->
                     [enabled        |-> nodes[a].enabled,
                      disable_reason |-> nodes[a].disable_reason,
                      result         |-> "pending"]]
    /\ phase' = "probing"
    /\ UNCHANGED <<update, lbVars>>

\* Mutant: an expired timeout is taken for an answer.
ProbeTimeoutIsOk(a) ==
    /\ phase = "probing"
    /\ a \in DOMAIN checks
    /\ checks[a].result = "pending"
    /\ checks' = [checks EXCEPT ![a].result = "Ok"]
    /\ UNCHANGED <<phase, update, lbVars>>

\* check_node_health(a) finished: the node answered, or its timeout expired.
check_node_health(a) ==
    /\ phase = "probing"
    /\ a \in DOMAIN checks
    /\ checks[a].result = "pending"
    /\ checks' = [checks EXCEPT ![a].result = IF a \in up THEN "Ok" ELSE "Err"]
    /\ UNCHANGED <<phase, update, lbVars>>

\* join_all resolved: every probe has an answer.
JoinAll ==
    /\ phase = "probing"
    /\ \A a \in DOMAIN checks : checks[a].result # "pending"
    /\ phase' = "processing"
    /\ UNCHANGED <<checks, update, lbVars>>

consecutive_failures(a) ==
    IF a \in DOMAIN nodes THEN nodes[a].consecutive_failures ELSE 0

(***************************************************************************)
(* Turns one answer into an update.  The enabled flag and the reason come  *)
(* from the round's snapshot, the failure count from the pool as it is     *)
(* now, read under a lock that is released before the update is applied.   *)
(***************************************************************************)
process_health_result(a) ==
    /\ phase = "processing"
    /\ a \in DOMAIN checks
    /\ LET node == checks[a]
           ok   == node.result = "Ok"
       IN  update' = [node_addr      |-> a,
                      healthy        |-> ok,
                      should_enable  |-> /\ ok
                                         /\ ~node.enabled
                                         /\ node.disable_reason = "HealthCheck",
                      should_disable |-> /\ ~ok
                                         /\ consecutive_failures(a) + 1
                                                >= hc_failure_threshold
                                         /\ node.enabled
                                         /\ node.disable_reason # "Manual"]
    /\ checks' = Without(checks, a)
    /\ phase' = "applying"
    /\ UNCHANGED lbVars

apply_health_update ==
    /\ phase = "applying"
    /\ HealthUpdate(update.node_addr, update.healthy,
                    update.should_enable, update.should_disable)
    /\ update' = NoUpdate
    /\ phase' = "processing"
    /\ UNCHANGED checks

\* Every result is processed; run() goes back to interval.tick().
EndRound ==
    /\ phase = "processing"
    /\ checks = << >>
    /\ phase' = "sleeping"
    /\ UNCHANGED <<checks, update, lbVars>>

HcNext ==
    /\ \/ StartRound
       \/ Snapshot
       \/ \E a \in Addr : check_node_health(a) \/ process_health_result(a)
       \/ JoinAll
       \/ apply_health_update
       \/ EndRound
    /\ UNCHANGED up

-----------------------------------------------------------------------------
HcTypeOK ==
    /\ phase \in Phases
    /\ DOMAIN checks \subseteq Addr
    /\ checks \in [DOMAIN checks -> Check]
    /\ update \in HealthCheckUpdate \cup {NoUpdate}
    /\ up \subseteq Addr

=============================================================================
