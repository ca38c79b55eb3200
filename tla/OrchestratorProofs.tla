------------------------- MODULE OrchestratorProofs -------------------------
(***************************************************************************)
(* The orchestrator's pool stays coherent under every interleaving of the  *)
(* health checker, the management calls, the registrations and the         *)
(* forwarding of requests, and amounts to the pool of NodePool, for any    *)
(* set of nodes and any configuration.  Around it, processes die and       *)
(* restart and nodes register: who has passed its registration is in it.   *)
(***************************************************************************)
EXTENDS Registration, LoadBalancerProofs

Inv == LBInv /\ HcTypeOK

-----------------------------------------------------------------------------
LEMMA InitInv == Init => Inv
<1> SUFFICES ASSUME Init PROVE Inv
  OBVIOUS
<1>1. LBInv
  BY LBInitGood DEF Init
<1>2. HcTypeOK
  BY DEF Init, HcInit, HcTypeOK, Phases
<1> QED
  BY <1>1, <1>2 DEF Inv

\* A method that leaves the pool alone leaves its invariant alone.
LEMMA LBUnchanged ==
    ASSUME LBInv, UNCHANGED lbVars
    PROVE  LBInv'
BY DEF LBInv, LBTypeOK, RosterCoherent, CircuitCoherent, lbVars

\* The flags of the update between process and apply.
LEMMA UpdateFlags ==
    ASSUME HcTypeOK
    PROVE  /\ update.healthy \in BOOLEAN
           /\ update.should_enable \in BOOLEAN
           /\ update.should_disable \in BOOLEAN
<1>1. CASE update \in HealthCheckUpdate
  BY <1>1 DEF HealthCheckUpdate
<1>2. CASE update = NoUpdate
  BY <1>2 DEF NoUpdate
<1> QED
  BY <1>1, <1>2 DEF HcTypeOK

\* Every lock section of the health checker.
LEMMA HcNextKeeps ==
    ASSUME Inv, HcNext
    PROVE  Inv'
<1> USE DEF Inv
<1>1. CASE StartRound
  <2>1. LBInv'
    BY <1>1, TimeoutsKeep DEF StartRound
  <2>2. HcTypeOK'
    BY <1>1 DEF StartRound, HcNext, HcTypeOK, Phases
  <2> QED
    BY <2>1, <2>2
<1>2. CASE Snapshot
  <2>1. LBInv'
    BY <1>2, LBUnchanged DEF Snapshot
  <2>2. \A a \in DOMAIN nodes : nodes[a] \in Node
    BY DEF LBInv, LBTypeOK
  <2>3. /\ DOMAIN checks' = DOMAIN nodes
        /\ checks' \in [DOMAIN nodes -> Check]
        /\ DOMAIN nodes \subseteq Addr
    BY <1>2, <2>2 DEF Snapshot, Check, Node, LBInv, LBTypeOK
  <2>4. HcTypeOK'
    BY <1>2, <2>3 DEF Snapshot, HcNext, HcTypeOK, Phases
  <2> QED
    BY <2>1, <2>4
<1>3. ASSUME NEW a \in Addr, check_node_health(a)
      PROVE  Inv'
  <2>1. LBInv'
    BY <1>3, LBUnchanged DEF check_node_health
  <2>2. /\ DOMAIN checks' = DOMAIN checks
        /\ checks' \in [DOMAIN checks -> Check]
    BY <1>3 DEF check_node_health, HcTypeOK, Check
  <2>3. HcTypeOK'
    BY <1>3, <2>2 DEF check_node_health, HcNext, HcTypeOK
  <2> QED
    BY <2>1, <2>3
<1>4. CASE JoinAll
  BY <1>4, LBUnchanged DEF JoinAll, HcNext, HcTypeOK, Phases
<1>5. ASSUME NEW a \in Addr, process_health_result(a)
      PROVE  Inv'
  <2>1. LBInv'
    BY <1>5, LBUnchanged DEF process_health_result
  <2>2. update' \in HealthCheckUpdate
    <3> DEFINE ok == checks[a].result = "Ok"
               on == ok /\ ~checks[a].enabled /\ checks[a].disable_reason = "HealthCheck"
               off == /\ ~ok
                      /\ consecutive_failures(a) + 1 >= hc_failure_threshold
                      /\ checks[a].enabled
                      /\ checks[a].disable_reason # "Manual"
    <3>1. update' = [node_addr |-> a, healthy |-> ok,
                     should_enable |-> on, should_disable |-> off]
      BY <1>5 DEF process_health_result
    <3>2. ok \in BOOLEAN /\ on \in BOOLEAN /\ off \in BOOLEAN
      OBVIOUS
    <3> HIDE DEF ok, on, off
    <3> QED
      BY <3>1, <3>2 DEF HealthCheckUpdate
  <2>3. DOMAIN checks' \subseteq Addr /\ checks' \in [DOMAIN checks' -> Check]
    BY <1>5 DEF process_health_result, Without, HcTypeOK
  <2>4. HcTypeOK'
    BY <1>5, <2>2, <2>3 DEF process_health_result, HcNext, HcTypeOK, Phases
  <2> QED
    BY <2>1, <2>4
<1>6. CASE apply_health_update
  <2>1. /\ update.healthy \in BOOLEAN
        /\ update.should_enable \in BOOLEAN
        /\ update.should_disable \in BOOLEAN
    BY UpdateFlags
  <2>2. LBInv'
    BY <1>6, <2>1, HealthUpdateKeeps DEF apply_health_update
  <2>3. HcTypeOK'
    BY <1>6 DEF apply_health_update, HcNext, HcTypeOK, Phases
  <2> QED
    BY <2>2, <2>3
<1>7. CASE EndRound
  BY <1>7, LBUnchanged DEF EndRound, HcNext, HcTypeOK, Phases
<1> QED
  BY <1>1, <1>2, <1>3, <1>4, <1>5, <1>6, <1>7 DEF HcNext

LEMMA NextInv == Inv /\ [Next]_vars => Inv'
<1> SUFFICES ASSUME Inv, [Next]_vars PROVE Inv'
  OBVIOUS
<1>1. LBInv /\ HcTypeOK
  BY DEF Inv
<1>2. CASE HcNext
  BY <1>2, HcNextKeeps
<1>3. ASSUME LBInv', UNCHANGED <<hcVars, up>>
      PROVE  Inv'
  BY <1>1, <1>3 DEF Inv, HcTypeOK, hcVars
<1>4. ASSUME NEW a \in Addr, Admit(a)
      PROVE  Inv'
  BY <1>1, <1>3, <1>4, AddKeeps, EnableKeeps, RegisterKeeps DEF Admit
<1>5. ASSUME NEW a \in Addr, Withdraw(a)
      PROVE  Inv'
  BY <1>1, <1>3, <1>5, DisableKeeps, RemoveKeeps DEF Withdraw
<1>6. ASSUME NEW a \in Addr, NodeUp(a) \/ NodeDown(a)
      PROVE  Inv'
  <2>1. LBInv'
    BY <1>1, <1>6, LBUnchanged DEF NodeUp, NodeDown
  <2>2. HcTypeOK'
    BY <1>1, <1>6 DEF NodeUp, NodeDown, HcTypeOK, hcVars
  <2> QED
    BY <2>1, <2>2 DEF Inv
<1>7. CASE PickNode
  BY <1>1, <1>3, <1>7, NextNodeKeeps DEF PickNode
<1>8. CASE TimePasses
  BY <1>1, <1>3, <1>8, TickKeeps DEF TimePasses
<1>9. CASE UNCHANGED vars
  BY <1>1, <1>3, <1>9, LBUnchanged DEF vars, lbVars, hcVars
<1> QED
  BY <1>2, <1>4, <1>5, <1>6, <1>7, <1>8, <1>9 DEF Next

\* The inductive invariant holds throughout.
THEOREM SpecInv == Spec => []Inv
<1>1. Init => Inv
  BY InitInv
<1>2. Inv /\ [Next]_vars => Inv'
  BY NextInv
<1> QED
  BY <1>1, <1>2, PTL DEF Spec

(***************************************************************************)
(* Type correctness of the composed orchestrator: LoadBalancer and         *)
(* HealthChecker.                                                          *)
(***************************************************************************)
THEOREM TypeCorrect == Spec => []TypeOK
<1>1. Inv => TypeOK
  BY DEF Inv, LBInv, TypeOK
<1> QED
  BY <1>1, SpecInv, PTL

(***************************************************************************)
(* The roster next_node walks always lists exactly the enabled nodes.      *)
(***************************************************************************)
THEOREM RosterAlwaysCoherent == Spec => []RosterCoherent
<1>1. Inv => RosterCoherent
  BY DEF Inv, LBInv
<1> QED
  BY <1>1, SpecInv, PTL

(***************************************************************************)
(* No circuit is ever left Open without an opening time, or Open with the  *)
(* half-open claim still taken.                                            *)
(***************************************************************************)
THEOREM CircuitAlwaysCoherent == Spec => []CircuitCoherent
<1>1. Inv => CircuitCoherent
  BY DEF Inv, LBInv
<1> QED
  BY <1>1, SpecInv, PTL

(***************************************************************************)
(* next_node gives up only when no node is routable, in every reachable    *)
(* state of the orchestrator.                                              *)
(***************************************************************************)
THEOREM WalkAlwaysFinds == Spec => []WalkFindsRoutable
<1>1. Inv => WalkFindsRoutable
  BY WalkLemma DEF Inv
<1> QED
  BY <1>1, SpecInv, PTL

-----------------------------------------------------------------------------
(* What a step may never do. *)

\* One HealthUpdate leaves a Manual reason alone, on its own node and on others.
LEMMA HealthUpdateSparesManual ==
    ASSUME LBInv, NEW a, NEW healthy \in BOOLEAN,
           NEW should_enable \in BOOLEAN, NEW should_disable \in BOOLEAN,
           HealthUpdate(a, healthy, should_enable, should_disable),
           NEW m \in DOMAIN nodes, nodes[m].disable_reason = "Manual"
    PROVE  m \in DOMAIN nodes' /\ nodes'[m].disable_reason = "Manual"
<1>1. CASE a \notin DOMAIN nodes
  BY <1>1 DEF HealthUpdate, lbVars
<1>2. CASE a \in DOMAIN nodes /\ m # a
  BY <1>2 DEF HealthUpdate, SetNode
<1>3. CASE a \in DOMAIN nodes /\ m = a
  <2>1. GoodNode(nodes[a])
    BY <1>3, LBInvIsPoolGood DEF PoolGood
  <2>2. AfterStatus(nodes[a], healthy).disable_reason = "Manual"
    BY <1>3, <2>1, AfterStatusGood
  <2>3. nodes' = [nodes EXCEPT ![a] = AfterStatus(nodes[a], healthy)]
    BY <1>3, <2>2 DEF HealthUpdate, SetNode, auto_enable_node, auto_disable_node
  <2> QED
    BY <1>3, <2>2, <2>3
<1> QED
  BY <1>1, <1>2, <1>3

LEMMA HcSparesManual ==
    ASSUME Inv, HcNext, NEW m \in DOMAIN nodes, nodes[m].disable_reason = "Manual"
    PROVE  m \in DOMAIN nodes' /\ nodes'[m].disable_reason = "Manual"
<1>1. CASE StartRound
  <2>1. GoodNode(nodes[m])
    BY LBInvIsPoolGood DEF Inv, PoolGood
  <2> QED
    BY <1>1, <2>1, HalfOpenGood DEF StartRound, check_circuit_timeouts
<1>2. CASE apply_health_update
  <2>1. /\ update.healthy \in BOOLEAN
        /\ update.should_enable \in BOOLEAN
        /\ update.should_disable \in BOOLEAN
    BY UpdateFlags DEF Inv
  <2> QED
    BY <1>2, <2>1, HealthUpdateSparesManual DEF apply_health_update, Inv
<1>3. CASE UNCHANGED lbVars
  BY <1>3 DEF lbVars
<1> QED
  BY <1>1, <1>2, <1>3
  DEF HcNext, Snapshot, check_node_health, process_health_result, JoinAll, EndRound

(***************************************************************************)
(* The health checker never undoes a manual disable, however stale the     *)
(* snapshot it works from.                                                 *)
(***************************************************************************)
THEOREM ManualDisableAlwaysSticks == Spec => ManualDisableSticks
<1> DEFINE Spares == hcVars' # hcVars =>
              \A a \in DOMAIN nodes :
                  nodes[a].disable_reason = "Manual" =>
                      /\ a \in DOMAIN nodes'
                      /\ nodes'[a].disable_reason = "Manual"
                      /\ a \notin Entries(enabled_nodes')
<1>1. Inv /\ Inv' /\ [Next]_vars => [Spares]_vars
  <2> SUFFICES ASSUME Inv, Inv', Next, hcVars' # hcVars,
                      NEW a \in DOMAIN nodes, nodes[a].disable_reason = "Manual"
               PROVE  /\ a \in DOMAIN nodes'
                      /\ nodes'[a].disable_reason = "Manual"
                      /\ a \notin Entries(enabled_nodes')
    BY DEF vars
  <2>1. HcNext
    BY DEF Next, Admit, Withdraw, NodeUp, NodeDown, PickNode, TimePasses, hcVars
  <2>2. a \in DOMAIN nodes' /\ nodes'[a].disable_reason = "Manual"
    BY <2>1, HcSparesManual
  <2>3. a \notin Entries(enabled_nodes')
    BY <2>2 DEF Inv, LBInv, RosterCoherent
  <2> QED
    BY <2>2, <2>3
<1> QED
  BY <1>1, SpecInv, PTL DEF Spec, ManualDisableSticks

\* One update moves a circuit only along CircuitMoves.
LEMMA AfterStatusMoves ==
    ASSUME NEW n, GoodNode(n), NEW healthy \in BOOLEAN,
           AfterStatus(n, healthy).circuit_state # n.circuit_state
    PROVE  <<n.circuit_state, AfterStatus(n, healthy).circuit_state>> \in CircuitMoves
<1>1. CASE healthy
  BY <1>1 DEF AfterStatus, AfterHealthy, Close, GoodNode, Node, CircuitBreakerState, CircuitMoves
<1>2. CASE ~healthy
  BY <1>2 DEF AfterStatus, AfterUnhealthy, TripOpen, GoodNode, Node, CircuitBreakerState,
              CircuitMoves
<1> QED
  BY <1>1, <1>2

LEMMA HealthUpdateMoves ==
    ASSUME LBInv, NEW a, NEW healthy \in BOOLEAN,
           NEW should_enable \in BOOLEAN, NEW should_disable \in BOOLEAN,
           HealthUpdate(a, healthy, should_enable, should_disable),
           NEW m \in DOMAIN nodes, nodes'[m].circuit_state # nodes[m].circuit_state
    PROVE  <<nodes[m].circuit_state, nodes'[m].circuit_state>> \in CircuitMoves
<1>1. m = a
  BY DEF HealthUpdate, SetNode, lbVars
<1>2. GoodNode(nodes[a])
  BY <1>1, LBInvIsPoolGood DEF PoolGood
<1> DEFINE told == AfterStatus(nodes[a], healthy)
<1>3. GoodNode(told)
  BY <1>2, AfterStatusGood
<1>4. nodes'[a].circuit_state = told.circuit_state
  <2> HIDE DEF told
  <2>1. /\ Enabled(told).circuit_state = told.circuit_state
        /\ Disabled(told, "HealthCheck").circuit_state = told.circuit_state
        /\ Disabled(Enabled(told), "HealthCheck").circuit_state = told.circuit_state
    BY <1>3 DEF Enabled, Disabled, GoodNode, Node
  <2>2. nodes'[a] \in {told, Enabled(told), Disabled(told, "HealthCheck"),
                       Disabled(Enabled(told), "HealthCheck")}
    BY <1>1 DEF told, HealthUpdate, SetNode
  <2> QED
    BY <2>1, <2>2
<1> QED
  BY <1>1, <1>2, <1>4, AfterStatusMoves

(***************************************************************************)
(* No circuit goes from Open to Closed, or from Closed to HalfOpen, in one *)
(* step of anyone.                                                         *)
(***************************************************************************)
THEOREM ProbationNeverSkipped == Spec => NoSkippedProbation
<1> DEFINE Moves == \A a \in DOMAIN nodes \cap DOMAIN nodes' :
                        LET from == nodes[a].circuit_state
                            to   == nodes'[a].circuit_state
                        IN  from # to => <<from, to>> \in CircuitMoves
<1>1. Inv /\ [Next]_vars => [Moves]_vars
  <2> SUFFICES ASSUME Inv, Next,
                      NEW a \in DOMAIN nodes, a \in DOMAIN nodes',
                      nodes[a].circuit_state # nodes'[a].circuit_state
               PROVE  <<nodes[a].circuit_state, nodes'[a].circuit_state>> \in CircuitMoves
    BY DEF vars
  <2>1. LBInv /\ HcTypeOK /\ GoodNode(nodes[a])
    BY LBInvIsPoolGood DEF Inv, PoolGood
  <2>2. CASE HcNext
    <3>1. CASE StartRound
      BY <2>1, <3>1 DEF StartRound, check_circuit_timeouts, try_transition_to_half_open,
                        GoodNode, Node, CircuitMoves
    <3>2. CASE apply_health_update
      BY <2>1, <3>2, UpdateFlags, HealthUpdateMoves DEF apply_health_update
    <3>3. CASE UNCHANGED lbVars
      BY <3>3 DEF lbVars
    <3> QED
      BY <2>2, <3>1, <3>2, <3>3
      DEF HcNext, Snapshot, check_node_health, process_health_result, JoinAll, EndRound
  <2>3. ASSUME NEW x \in Addr, Admit(x)
        PROVE  FALSE
    <3>1. Enabled(nodes[a]).circuit_state = nodes[a].circuit_state
      BY <2>1 DEF Enabled, GoodNode, Node
    <3>2. nodes'[a] \in {nodes[a], Enabled(nodes[a])}
      BY <2>3 DEF Admit, add_node, enable_node, register_node, SetNode
    <3> QED
      BY <3>1, <3>2
  <2>4. ASSUME NEW x \in Addr, Withdraw(x)
        PROVE  FALSE
    <3>1. Disabled(nodes[a], "Manual").circuit_state = nodes[a].circuit_state
      BY <2>1 DEF Disabled, GoodNode, Node
    <3>2. nodes'[a] \in {nodes[a], Disabled(nodes[a], "Manual")}
      BY <2>4 DEF Withdraw, disable_node, remove_node, SetNode
    <3> QED
      BY <3>1, <3>2
  <2>5. ASSUME NEW x \in Addr, NodeUp(x) \/ NodeDown(x)
        PROVE  FALSE
    BY <2>5 DEF NodeUp, NodeDown, lbVars
  <2>6. CASE PickNode
    BY <2>6 DEF PickNode, next_node
  <2>7. CASE TimePasses
    BY <2>1, <2>7 DEF TimePasses, Tick, Aged, GoodNode, Node
  <2> QED
    BY <2>2, <2>3, <2>4, <2>5, <2>6, <2>7 DEF Next
<1> QED
  BY <1>1, SpecInv, PTL DEF Spec, NoSkippedProbation

-----------------------------------------------------------------------------
(***************************************************************************)
(* The orchestrator implements NodePool: the initial states map to initial *)
(* states of the pool, and every step of the health checker, of an         *)
(* operator, of a node that registers, of a request or of the clock maps   *)
(* to a move of the pool or to a stutter.                                  *)
(***************************************************************************)

\* The images of the pool's variables.
standings == [a \in Addr |-> StandingOf(a)]
circuits  == [a \in Addr |-> CircuitOf(a)]
offers    == {Visit(k) : k \in Selectable}

\* The two flags of an update follow the answer it is about.
FlagsFollowAnswer ==
    /\ update.should_enable => update.healthy
    /\ update.should_disable => ~update.healthy

OfferFollows == offers = Pool!Offer(standings, circuits)

-----------------------------------------------------------------------------
LEMMA FlagsNext ==
    ASSUME FlagsFollowAnswer, [Next]_vars
    PROVE  FlagsFollowAnswer'
<1>1. CASE UNCHANGED update
  BY <1>1 DEF FlagsFollowAnswer
<1>2. ASSUME NEW a \in Addr, process_health_result(a)
      PROVE  FlagsFollowAnswer'
  BY <1>2 DEF process_health_result, FlagsFollowAnswer
<1>3. CASE apply_health_update
  BY <1>3 DEF apply_health_update, NoUpdate, FlagsFollowAnswer
<1> QED
  BY <1>1, <1>2, <1>3
  DEF Next, HcNext, StartRound, Snapshot, check_node_health, JoinAll, EndRound,
      Admit, Withdraw, PickNode, NodeUp, NodeDown, TimePasses, vars, hcVars

LEMMA FlagsInv == Spec => []FlagsFollowAnswer
<1>1. Init => FlagsFollowAnswer
  BY DEF Init, HcInit, NoUpdate, FlagsFollowAnswer
<1>2. FlagsFollowAnswer /\ [Next]_vars => FlagsFollowAnswer'
  BY FlagsNext
<1> QED
  BY <1>1, <1>2, PTL DEF Spec

\* What next_node may return, in the words of the pool.
LEMMA OfferLemma == LBInv => OfferFollows
<1> SUFFICES ASSUME LBInv PROVE OfferFollows
  OBVIOUS
<1>1. /\ offers = {a \in Addr : Routable(a)}
      /\ DOMAIN nodes \subseteq Addr
      /\ \A a \in DOMAIN nodes : GoodNode(nodes[a])
  BY WalkLemma, LBInvIsPoolGood DEF WalkFindsRoutable, offers, PoolGood
<1>2. \A a \in Addr : Routable(a) <=> standings[a] = "serving" /\ circuits[a] # "Open"
  BY <1>1 DEF Routable, standings, circuits, StandingOf, StandingFor, CircuitOf, GoodNode, Node, DisableReason
<1> QED
  BY <1>1, <1>2 DEF OfferFollows, Pool!Offer

\* A step that changes no standing and no circuit changes no offer.
LEMMA Stutters ==
    ASSUME OfferFollows, OfferFollows', standings' = standings, circuits' = circuits
    PROVE  UNCHANGED <<standings, circuits, offers>>
BY DEF OfferFollows, Pool!Offer

-----------------------------------------------------------------------------
(* The moves.  Each lemma is about the node a; Others says that no other   *)
(* node is concerned.                                                      *)

Others(a) ==
    \A x \in Addr \ {a} : /\ x \in DOMAIN nodes' <=> x \in DOMAIN nodes
                          /\ x \in DOMAIN nodes => nodes'[x] = nodes[x]

\* What the pool sees of a step that concerns a alone.
LEMMA OneMoved ==
    ASSUME NEW a \in Addr, Others(a)
    PROVE  /\ standings' = [standings EXCEPT ![a] = StandingOf(a)']
           /\ circuits' = [circuits EXCEPT ![a] = CircuitOf(a)']
<1>1. \A x \in Addr \ {a} : StandingOf(x)' = StandingOf(x) /\ CircuitOf(x)' = CircuitOf(x)
  BY DEF Others, StandingOf, StandingFor, CircuitOf
<1> QED
  BY <1>1 DEF standings, circuits

\* add_node, enable_node, register_node.
LEMMA AdmitMaps ==
    ASSUME LBInv, NEW a \in Addr, add_node(a) \/ enable_node(a) \/ register_node(a)
    PROVE  Pool!Admit(a)
<1>1. a \in DOMAIN nodes => GoodNode(nodes[a])
  BY LBInvIsPoolGood DEF PoolGood
<1>2. /\ NewNode.disable_reason = "None" /\ NewNode.circuit_state = "Closed"
      /\ \A n : GoodNode(n) => /\ Enabled(n).disable_reason = "None"
                               /\ Enabled(n).circuit_state = n.circuit_state
  BY DEF NewNode, Enabled, GoodNode, Node
<1>3. /\ Others(a)
      /\ a \in DOMAIN nodes'
      /\ nodes'[a].disable_reason = "None"
      /\ a \in DOMAIN nodes => nodes'[a].circuit_state = nodes[a].circuit_state
      /\ a \notin DOMAIN nodes => nodes'[a].circuit_state = "Closed"
  <2>1. CASE add_node(a)
    BY <1>2, <2>1 DEF add_node, Others
  <2>2. CASE enable_node(a)
    BY <1>1, <1>2, <2>2 DEF enable_node, SetNode, Others
  <2>3. CASE register_node(a)
    BY <1>1, <1>2, <2>3, NewNodeGood DEF register_node, Others
  <2> QED
    BY <2>1, <2>2, <2>3
<1>4. StandingOf(a)' = "serving" /\ CircuitOf(a)' = CircuitOf(a)
  BY <1>3 DEF StandingOf, StandingFor, CircuitOf
<1>5. standings' = [standings EXCEPT ![a] = "serving"] /\ circuits' = circuits
  BY <1>3, <1>4, OneMoved DEF circuits
<1> QED
  BY <1>5 DEF Pool!Admit, standings, circuits

LEMMA HoldMaps ==
    ASSUME LBInv, NEW a \in Addr, disable_node(a)
    PROVE  Pool!Hold(a)
<1>1. a \in DOMAIN nodes /\ GoodNode(nodes[a])
  BY LBInvIsPoolGood DEF PoolGood, disable_node
<1>2. /\ Others(a)
      /\ a \in DOMAIN nodes'
      /\ nodes'[a].disable_reason = "Manual"
      /\ nodes'[a].circuit_state = nodes[a].circuit_state
  BY <1>1 DEF disable_node, SetNode, Disabled, Others, GoodNode, Node
<1>3. /\ StandingOf(a)' = "held"
      /\ CircuitOf(a)' = CircuitOf(a)
      /\ StandingOf(a) # "absent"
  BY <1>1, <1>2 DEF StandingOf, StandingFor, CircuitOf, GoodNode, Node, DisableReason
<1>4. standings' = [standings EXCEPT ![a] = "held"] /\ circuits' = circuits
  BY <1>2, <1>3, OneMoved DEF circuits
<1> QED
  BY <1>3, <1>4 DEF Pool!Hold, standings, circuits

LEMMA ExpelMaps ==
    ASSUME NEW a \in Addr, remove_node(a)
    PROVE  Pool!Expel(a)
<1>1. Others(a) /\ a \notin DOMAIN nodes'
  BY DEF remove_node, Others
<1>2. StandingOf(a)' = "absent" /\ CircuitOf(a)' = "Closed"
  BY <1>1 DEF StandingOf, StandingFor, CircuitOf
<1>3. /\ standings' = [standings EXCEPT ![a] = "absent"]
      /\ circuits' = [circuits EXCEPT ![a] = "Closed"]
  BY <1>1, <1>2, OneMoved
<1> QED
  BY <1>3 DEF Pool!Expel, standings, circuits

\* The circuits that are due go on probation together.
LEMMA ProbationMaps ==
    ASSUME LBInv, check_circuit_timeouts
    PROVE  Pool!Probation
<1> DEFINE due == {a \in Addr : circuits[a] = "Open" /\ CircuitOf(a)' = "HalfOpen"}
<1>1. ASSUME NEW a \in Addr
      PROVE  /\ StandingOf(a)' = StandingOf(a)
             /\ CircuitOf(a)' = IF a \in due THEN "HalfOpen" ELSE CircuitOf(a)
  <2>1. CASE a \notin DOMAIN nodes
    BY <2>1 DEF check_circuit_timeouts, StandingOf, StandingFor, CircuitOf, circuits
  <2>2. CASE a \in DOMAIN nodes
    <3>1. GoodNode(nodes[a])
      BY <2>2, LBInvIsPoolGood DEF PoolGood
    <3>2. /\ a \in DOMAIN nodes'
          /\ nodes'[a].disable_reason = nodes[a].disable_reason
          /\ \/ nodes'[a].circuit_state = nodes[a].circuit_state
             \/ nodes[a].circuit_state = "Open" /\ nodes'[a].circuit_state = "HalfOpen"
      BY <2>2, <3>1 DEF check_circuit_timeouts, try_transition_to_half_open, GoodNode, Node
    <3> QED
      BY <2>2, <3>2 DEF StandingOf, StandingFor, CircuitOf, circuits
  <2> QED
    BY <2>1, <2>2
<1>2. /\ standings' = standings
      /\ circuits' = [a \in Addr |-> IF a \in due THEN "HalfOpen" ELSE circuits[a]]
  BY <1>1 DEF standings, circuits
<1>3. due \in SUBSET {a \in Addr : circuits[a] = "Open"}
  OBVIOUS
<1> HIDE DEF due
<1> QED
  BY <1>2, <1>3 DEF Pool!Probation, standings, circuits

-----------------------------------------------------------------------------
(* The verdicts of the health checker. *)

\* What one probe's answer does to a circuit.
LEMMA CircuitAfterStatus ==
    ASSUME NEW n, GoodNode(n)
    PROVE  /\ AfterStatus(n, TRUE).circuit_state =
                  IF n.circuit_state = "HalfOpen" THEN "Closed" ELSE n.circuit_state
           /\ \/ AfterStatus(n, FALSE).circuit_state = "Open"
              \/ /\ n.circuit_state # "HalfOpen"
                 /\ AfterStatus(n, FALSE).circuit_state = n.circuit_state
<1>1. AfterStatus(n, TRUE).circuit_state =
          IF n.circuit_state = "HalfOpen" THEN "Closed" ELSE n.circuit_state
  BY DEF AfterStatus, AfterHealthy, Close, GoodNode, Node
<1>2. \/ AfterStatus(n, FALSE).circuit_state = "Open"
      \/ /\ n.circuit_state # "HalfOpen"
         /\ AfterStatus(n, FALSE).circuit_state = n.circuit_state
  BY DEF AfterStatus, AfterUnhealthy, TripOpen, GoodNode, Node
<1> QED
  BY <1>1, <1>2

LEMMA GoodVerdictMaps ==
    ASSUME LBInv, NEW a \in Addr, a \in DOMAIN nodes, NEW should_enable \in BOOLEAN,
           HealthUpdate(a, TRUE, should_enable, FALSE)
    PROVE  Pool!GoodVerdict(a)
<1> DEFINE told == AfterStatus(nodes[a], TRUE)
<1>1. GoodNode(nodes[a]) /\ GoodNode(told)
  BY LBInvIsPoolGood, AfterStatusGood DEF PoolGood
<1>2. /\ told.disable_reason = nodes[a].disable_reason
      /\ told.circuit_state = IF nodes[a].circuit_state = "HalfOpen" THEN "Closed"
                              ELSE nodes[a].circuit_state
  BY <1>1, AfterStatusGood, CircuitAfterStatus
<1>3. \/ nodes' = [nodes EXCEPT ![a] = told]
      \/ told.disable_reason = "HealthCheck" /\ nodes' = [nodes EXCEPT ![a] = Enabled(told)]
  BY DEF HealthUpdate, SetNode, auto_enable_node
<1> HIDE DEF told
<1>4. /\ Enabled(told).disable_reason = "None"
      /\ Enabled(told).circuit_state = told.circuit_state
  BY <1>1 DEF Enabled, GoodNode, Node
<1>5. /\ Others(a)
      /\ a \in DOMAIN nodes'
      /\ nodes'[a].circuit_state = told.circuit_state
      /\ \/ nodes'[a].disable_reason = nodes[a].disable_reason
         \/ nodes[a].disable_reason = "HealthCheck" /\ nodes'[a].disable_reason = "None"
  BY <1>2, <1>3, <1>4 DEF Others
<1>6. /\ \/ StandingOf(a)' = StandingOf(a)
         \/ StandingOf(a) = "isolated" /\ StandingOf(a)' = "serving"
      /\ CircuitOf(a)' = IF CircuitOf(a) = "HalfOpen" THEN "Closed" ELSE CircuitOf(a)
      /\ StandingOf(a) # "absent"
  BY <1>2, <1>5 DEF StandingOf, StandingFor, CircuitOf
<1>7. /\ standings' = [standings EXCEPT ![a] = StandingOf(a)']
      /\ circuits' = [circuits EXCEPT ![a] = CircuitOf(a)']
  BY <1>5, OneMoved
<1>8. /\ standings[a] # "absent"
      /\ \/ standings' = standings
         \/ standings[a] = "isolated" /\ standings' = [standings EXCEPT ![a] = "serving"]
      /\ circuits' = [circuits EXCEPT ![a] = IF @ = "HalfOpen" THEN "Closed" ELSE @]
  BY <1>6, <1>7 DEF standings, circuits
<1> QED
  BY <1>8 DEF Pool!GoodVerdict, standings, circuits

LEMMA BadVerdictMaps ==
    ASSUME LBInv, NEW a \in Addr, a \in DOMAIN nodes, NEW should_disable \in BOOLEAN,
           HealthUpdate(a, FALSE, FALSE, should_disable)
    PROVE  Pool!BadVerdict(a)
<1> DEFINE told == AfterStatus(nodes[a], FALSE)
<1>1. GoodNode(nodes[a]) /\ GoodNode(told)
  BY LBInvIsPoolGood, AfterStatusGood DEF PoolGood
<1>2. /\ told.disable_reason = nodes[a].disable_reason
      /\ \/ told.circuit_state = "Open"
         \/ /\ nodes[a].circuit_state # "HalfOpen"
            /\ told.circuit_state = nodes[a].circuit_state
  BY <1>1, AfterStatusGood, CircuitAfterStatus
<1>3. \/ nodes' = [nodes EXCEPT ![a] = told]
      \/ /\ told.disable_reason # "Manual"
         /\ nodes' = [nodes EXCEPT ![a] = Disabled(told, "HealthCheck")]
  BY DEF HealthUpdate, SetNode, auto_disable_node
<1> HIDE DEF told
<1>4. /\ Disabled(told, "HealthCheck").disable_reason = "HealthCheck"
      /\ Disabled(told, "HealthCheck").circuit_state = told.circuit_state
  BY <1>1 DEF Disabled, GoodNode, Node
<1>5. /\ Others(a)
      /\ a \in DOMAIN nodes'
      /\ nodes'[a].circuit_state = told.circuit_state
      /\ \/ nodes'[a].disable_reason = nodes[a].disable_reason
         \/ nodes[a].disable_reason # "Manual" /\ nodes'[a].disable_reason = "HealthCheck"
  BY <1>2, <1>3, <1>4 DEF Others
<1>6. /\ \/ StandingOf(a)' = StandingOf(a)
         \/ StandingOf(a) = "serving" /\ StandingOf(a)' = "isolated"
      /\ \/ CircuitOf(a)' = "Open"
         \/ CircuitOf(a) # "HalfOpen" /\ CircuitOf(a)' = CircuitOf(a)
      /\ StandingOf(a) # "absent"
  BY <1>1, <1>2, <1>5 DEF StandingOf, StandingFor, CircuitOf, GoodNode, Node, DisableReason
<1>7. /\ standings' = [standings EXCEPT ![a] = StandingOf(a)']
      /\ circuits' = [circuits EXCEPT ![a] = CircuitOf(a)']
  BY <1>5, OneMoved
<1>8. /\ standings[a] # "absent"
      /\ \/ standings' = standings
         \/ standings[a] = "serving" /\ standings' = [standings EXCEPT ![a] = "isolated"]
      /\ \/ circuits[a] # "HalfOpen" /\ circuits' = circuits
         \/ circuits' = [circuits EXCEPT ![a] = "Open"]
  BY <1>6, <1>7 DEF standings, circuits
<1> QED
  BY <1>8 DEF Pool!BadVerdict, standings, circuits

-----------------------------------------------------------------------------
(* Every step *)

Moves ==
    \/ Pool!Probation
    \/ \E a \in Addr : \/ Pool!Admit(a) \/ Pool!Hold(a) \/ Pool!Expel(a)
                       \/ Pool!GoodVerdict(a) \/ Pool!BadVerdict(a)

Stays == standings' = standings /\ circuits' = circuits

\* A step that leaves the map of nodes alone is not seen.
LEMMA SameNodes ==
    ASSUME nodes' = nodes
    PROVE  Stays
BY DEF Stays, standings, circuits, StandingOf, CircuitOf

\* One lock section of the health checker.
LEMMA HcNextMaps ==
    ASSUME Inv, FlagsFollowAnswer, HcNext
    PROVE  Moves \/ Stays
<1>1. CASE StartRound
  BY <1>1, ProbationMaps DEF StartRound, Inv, Moves
<1>2. CASE apply_health_update
  <2> DEFINE a == update.node_addr
  <2>1. /\ update.healthy \in BOOLEAN
        /\ update.should_enable \in BOOLEAN
        /\ update.should_disable \in BOOLEAN
    BY UpdateFlags DEF Inv
  <2>2. HealthUpdate(a, update.healthy, update.should_enable, update.should_disable)
    BY <1>2 DEF apply_health_update
  <2>3. LBInv /\ DOMAIN nodes \subseteq Addr
    BY DEF Inv, LBInv, LBTypeOK
  <2> HIDE DEF a
  <2>4. CASE a \notin DOMAIN nodes
    BY <2>2, <2>4, SameNodes DEF HealthUpdate, lbVars
  <2>5. CASE a \in DOMAIN nodes /\ update.healthy
    <3>1. HealthUpdate(a, TRUE, update.should_enable, FALSE)
      BY <2>1, <2>2, <2>5, Zenon DEF FlagsFollowAnswer
    <3> QED
      BY <2>1, <2>3, <2>5, <3>1, GoodVerdictMaps DEF Moves
  <2>6. CASE a \in DOMAIN nodes /\ ~update.healthy
    <3>1. HealthUpdate(a, FALSE, FALSE, update.should_disable)
      BY <2>1, <2>2, <2>6, Zenon DEF FlagsFollowAnswer
    <3> QED
      BY <2>1, <2>3, <2>6, <3>1, BadVerdictMaps DEF Moves
  <2> QED
    BY <2>1, <2>4, <2>5, <2>6
<1>3. CASE UNCHANGED lbVars
  BY <1>3, SameNodes DEF lbVars
<1> QED
  BY <1>1, <1>2, <1>3
  DEF HcNext, Snapshot, check_node_health, process_health_result, JoinAll, EndRound

LEMMA StepMaps ==
    ASSUME Inv, FlagsFollowAnswer, [Next]_vars
    PROVE  Moves \/ Stays
<1>1. CASE HcNext
  BY <1>1, HcNextMaps
<1>2. ASSUME NEW a \in Addr, Admit(a)
      PROVE  Moves
  BY <1>2, AdmitMaps DEF Admit, Inv, Moves
<1>3. ASSUME NEW a \in Addr, Withdraw(a)
      PROVE  Moves
  BY <1>3, HoldMaps, ExpelMaps DEF Withdraw, Inv, Moves
<1>4. CASE nodes' = nodes
  BY <1>4, SameNodes
<1>5. CASE TimePasses
  <2>1. ASSUME NEW a \in DOMAIN nodes
        PROVE  /\ nodes'[a].disable_reason = nodes[a].disable_reason
               /\ nodes'[a].circuit_state = nodes[a].circuit_state
    <3>1. GoodNode(nodes[a])
      BY LBInvIsPoolGood DEF Inv, PoolGood
    <3> QED
      BY <1>5, <3>1 DEF TimePasses, Tick, Aged, GoodNode, Node
  <2>2. DOMAIN nodes' = DOMAIN nodes
    BY <1>5 DEF TimePasses, Tick
  <2> QED
    BY <2>1, <2>2 DEF Stays, standings, circuits, StandingOf, CircuitOf
<1> QED
  BY <1>1, <1>2, <1>3, <1>4, <1>5
  DEF Next, NodeUp, NodeDown, PickNode, next_node, vars, lbVars

\* A step of the orchestrator is one of the pool, or none.
LEMMA StepRefines ==
    ASSUME Inv, FlagsFollowAnswer, [Next]_vars, OfferFollows, OfferFollows'
    PROVE  [Pool!PoolNext]_(Pool!poolVars)
<1>1. CASE Moves
  BY <1>1 DEF Moves, OfferFollows, Pool!PoolNext, standings, circuits, offers
<1>2. CASE Stays
  BY <1>2, Stutters DEF Stays, Pool!poolVars, standings, circuits, offers
<1> QED
  BY <1>1, <1>2, StepMaps

LEMMA InitMaps == Init => Pool!PoolInit
<1> SUFFICES ASSUME Init PROVE Pool!PoolInit
  OBVIOUS
<1>1. OfferFollows
  BY InitInv, OfferLemma DEF Inv
<1>2. \A a \in DOMAIN nodes : nodes[a] = NewNode
  BY DEF Init, LBInit
<1>3. \A a \in Addr : StandingOf(a) \in {"absent", "serving"} /\ CircuitOf(a) = "Closed"
  BY <1>2 DEF StandingOf, StandingFor, CircuitOf, NewNode
<1> QED
  BY <1>1, <1>3 DEF Pool!PoolInit, OfferFollows, standings, circuits, offers

(***************************************************************************)
(* The machinery of the orchestrator, with its rounds, stale snapshots and *)
(* late updates, implements the abstract pool.                             *)
(***************************************************************************)
THEOREM OrchestratorImplementsPool == Spec => PoolImplemented
<1>1. Inv => OfferFollows
  BY OfferLemma DEF Inv
<1>2. /\ Inv /\ FlagsFollowAnswer /\ [Next]_vars
      /\ OfferFollows /\ OfferFollows'
      => [Pool!PoolNext]_(Pool!poolVars)
  BY StepRefines
<1> QED
  BY <1>1, <1>2, InitMaps, SpecInv, FlagsInv, PTL DEF Spec, PoolImplemented, Pool!PoolSpec

-----------------------------------------------------------------------------
(***************************************************************************)
(* Registration: the processes around the pool.                            *)
(***************************************************************************)

ClientState == [pc      : {"idle", "trying", "waiting", "returned"},
                attempt : 0..max_attempts,
                result  : {"Ok"} \cup Http!MadrpcError]

\* The rest of RegTypeOK.
ProcessesTyped ==
    /\ orch \in {"up", "down"}
    /\ keyed \in BOOLEAN
    /\ proc \in [Addr -> Proc]
    /\ attempt \in [Addr -> 0..register_attempts]
    /\ calls \in [Addr -> ClientState]
    /\ post \in [Addr -> {"none", "sent", "granted", "unauthorized", "broken"}]
    /\ late \subseteq Addr
    /\ undone \subseteq Addr
    /\ up = {a \in Addr : proc[a] = "serving"}

\* The two nested loops of a node: a request only while the client tries, a
\* client only while main calls it, and a further turn only if there is one.
InStep(a) ==
    /\ post[a] # "none" => calls[a].pc = "trying"
    /\ calls[a].pc \in {"trying", "waiting"} => proc[a] = "calling"
    /\ calls[a].pc = "waiting" => calls[a].attempt < max_attempts
    /\ proc[a] = "delaying" => attempt[a] < register_attempts

Member(a) == a \in DOMAIN nodes /\ nodes[a].disable_reason # "Manual"

\* The orchestrator has admitted a, whether or not a has heard of it yet.
Admitted(a) ==
    \/ post[a] = "granted"
    \/ /\ proc[a] = "calling"
       /\ calls[a].pc = "returned"
       /\ calls[a].result = "Ok"
    \/ proc[a] \in {"starting", "serving"}

AdmittedIsMember ==
    \A a \in Addr : Admitted(a) /\ a \notin undone => Member(a)

PoolInv == Inv /\ FlagsFollowAnswer

RegInv ==
    /\ PoolInv
    /\ ProcessesTyped
    /\ \A a \in Addr : InStep(a)
    /\ AdmittedIsMember
    /\ orch = "down" => undone = Addr

-----------------------------------------------------------------------------
LEMMA RegInitHolds == RegInit => RegInv
<1> SUFFICES ASSUME RegInit PROVE RegInv
  OBVIOUS
<1>1. PoolInv
  BY InitInv DEF RegInit, PoolInv, FlagsFollowAnswer, Init, HcInit, NoUpdate
<1>2. ProcessesTyped
  BY RegistrationAssumption DEF RegInit, ProcessesTyped, Proc, ClientState, NoCall
<1>3. \A a \in Addr : InStep(a) /\ ~Admitted(a)
  BY DEF RegInit, InStep, Admitted, NoCall
<1> QED
  BY <1>1, <1>2, <1>3 DEF RegInv, AdmittedIsMember, RegInit

\* Any step of the pool's own specification.
LEMMA PoolStepKeeps ==
    ASSUME PoolInv, [Next]_vars
    PROVE  PoolInv'
BY NextInv, FlagsNext DEF PoolInv

\* The health checker and the clock take no member out.
LEMMA CheckerKeepsMembers ==
    ASSUME Inv, HcNext \/ TimePasses, NEW m \in Addr, Member(m)
    PROVE  Member(m)'
<1>1. m \in DOMAIN nodes /\ nodes[m].disable_reason # "Manual" /\ GoodNode(nodes[m])
  BY LBInvIsPoolGood DEF Member, Inv, PoolGood
<1>2. CASE StartRound
  BY <1>1, <1>2, HalfOpenGood DEF StartRound, check_circuit_timeouts, Member
<1>3. CASE apply_health_update
  <2> DEFINE a == update.node_addr
  <2>1. /\ update.healthy \in BOOLEAN
        /\ update.should_enable \in BOOLEAN
        /\ update.should_disable \in BOOLEAN
    BY UpdateFlags DEF Inv
  <2>2. HealthUpdate(a, update.healthy, update.should_enable, update.should_disable)
    BY <1>3 DEF apply_health_update
  <2> HIDE DEF a
  <2>3. CASE a \notin DOMAIN nodes
    BY <1>1, <2>2, <2>3 DEF HealthUpdate, lbVars, Member
  <2>4. CASE a \in DOMAIN nodes /\ m # a
    BY <1>1, <2>2, <2>4 DEF HealthUpdate, SetNode, Member
  <2>5. CASE a \in DOMAIN nodes /\ m = a
    <3> DEFINE told == AfterStatus(nodes[a], update.healthy)
    <3>1. GoodNode(told) /\ told.disable_reason # "Manual"
      BY <1>1, <2>1, <2>5, AfterStatusGood
    <3>2. nodes'[a] \in {told, Enabled(told), Disabled(told, "HealthCheck"),
                         Disabled(Enabled(told), "HealthCheck")}
          /\ a \in DOMAIN nodes'
      BY <2>2, <2>5 DEF HealthUpdate, SetNode
    <3> HIDE DEF told
    <3>3. \A n \in {told, Enabled(told), Disabled(told, "HealthCheck"),
                    Disabled(Enabled(told), "HealthCheck")} : n.disable_reason # "Manual"
      BY <3>1 DEF Enabled, Disabled, GoodNode, Node
    <3> QED
      BY <2>5, <3>2, <3>3 DEF Member
  <2> QED
    BY <2>3, <2>4, <2>5
<1>4. CASE UNCHANGED lbVars
  BY <1>1, <1>4 DEF lbVars, Member
<1>5. CASE TimePasses
  BY <1>1, <1>5 DEF TimePasses, Tick, Aged, GoodNode, Node, Member
<1> QED
  BY <1>2, <1>3, <1>4, <1>5
  DEF HcNext, Snapshot, check_node_health, process_health_result, JoinAll, EndRound

\* Turning a node on makes it a member and leaves the others alone.
LEMMA AdmitMakesMember ==
    ASSUME LBInv, NEW a \in Addr, add_node(a) \/ enable_node(a) \/ register_node(a)
    PROVE  /\ Member(a)'
           /\ \A b \in Addr : Member(b) => Member(b)'
<1>1. a \in DOMAIN nodes => GoodNode(nodes[a])
  BY LBInvIsPoolGood DEF PoolGood
<1>2. /\ NewNode.disable_reason = "None"
      /\ \A n : GoodNode(n) => Enabled(n).disable_reason = "None"
  BY DEF NewNode, Enabled, GoodNode, Node
<1>3. CASE add_node(a)
  BY <1>2, <1>3 DEF add_node, Member
<1>4. CASE enable_node(a)
  BY <1>1, <1>2, <1>4 DEF enable_node, SetNode, Member
<1>5. CASE register_node(a)
  BY <1>1, <1>2, <1>5, NewNodeGood DEF register_node, Member
<1> QED
  BY <1>3, <1>4, <1>5

\* Turning a node off leaves the others alone.
LEMMA WithdrawSparesOthers ==
    ASSUME NEW a \in Addr, disable_node(a) \/ remove_node(a),
           NEW b \in Addr, b # a, Member(b)
    PROVE  Member(b)'
BY DEF disable_node, remove_node, SetNode, Member

-----------------------------------------------------------------------------
(* The steps of a node's process. *)

\* No other node's process is concerned.
Alone(a) ==
    \A b \in Addr \ {a} :
        /\ proc'[b] = proc[b] /\ attempt'[b] = attempt[b]
        /\ calls'[b] = calls[b] /\ post'[b] = post[b]

\* What has to be shown of a step of one node that leaves the pool alone.
LEMMA OneNode ==
    ASSUME RegInv, NEW a \in Addr, Alone(a),
           UNCHANGED <<nodes, enabled_nodes, round_robin_index, hcVars, orch, undone>>,
           ProcessesTyped', InStep(a)',
           Admitted(a)' => Admitted(a)
    PROVE  RegInv'
<1>1. PoolInv'
  <2>1. LBInv'
    BY LBUnchanged DEF RegInv, PoolInv, Inv, lbVars
  <2>2. HcTypeOK'
    BY DEF RegInv, PoolInv, Inv, HcTypeOK, hcVars, ProcessesTyped
  <2> QED
    BY <2>1, <2>2 DEF RegInv, PoolInv, Inv, FlagsFollowAnswer, hcVars
<1>2. \A b \in Addr : InStep(b)'
  BY DEF RegInv, InStep, Alone
<1>3. \A b \in Addr : Admitted(b)' => Admitted(b)
  BY DEF Alone, Admitted
<1>4. AdmittedIsMember'
  BY <1>3 DEF RegInv, AdmittedIsMember, Member
<1> QED
  BY <1>1, <1>2, <1>4 DEF RegInv

\* The client enters call.
LEMMA StartCallLemma ==
    ASSUME NEW a \in Addr, calls \in [Addr -> ClientState], Http!StartCall(a)
    PROVE  /\ calls' \in [Addr -> ClientState]
           /\ calls'[a].pc = "trying"
           /\ \A b \in Addr \ {a} : calls'[b] = calls[b]
<1>1. [pc |-> "trying", attempt |-> 1, result |-> "Ok"] \in ClientState
  BY RegistrationAssumption DEF ClientState
<1> QED
  BY <1>1 DEF Http!StartCall

\* A node is up exactly while it serves.
LEMMA SameUp ==
    ASSUME ProcessesTyped, NEW a \in Addr, NEW q \in Proc \ {"serving"},
           proc[a] # "serving", proc' = [proc EXCEPT ![a] = q], up' = up
    PROVE  /\ proc' \in [Addr -> Proc]
           /\ up' = {x \in Addr : proc'[x] = "serving"}
BY DEF ProcessesTyped

LEMMA StartNodeKeeps ==
    ASSUME RegInv, NEW a \in Addr, StartNode(a)
    PROVE  RegInv'
<1>1. ProcessesTyped /\ InStep(a)
  BY DEF RegInv
<1>2. /\ calls' \in [Addr -> ClientState]
      /\ calls'[a].pc = "trying"
      /\ \A b \in Addr \ {a} : calls'[b] = calls[b]
  BY <1>1, StartCallLemma DEF StartNode, ProcessesTyped
<1>3. /\ proc' \in [Addr -> Proc]
      /\ up' = {x \in Addr : proc'[x] = "serving"}
  BY <1>1, SameUp DEF StartNode, vars, Proc
<1>4. ProcessesTyped'
  BY <1>1, <1>2, <1>3, RegistrationAssumption DEF StartNode, ProcessesTyped
<1>5. proc'[a] = "calling" /\ post[a] = "none" /\ Alone(a)
  BY <1>1, <1>2 DEF StartNode, ProcessesTyped, InStep, Alone
<1>6. InStep(a)' /\ ~Admitted(a)'
  BY <1>2, <1>5 DEF StartNode, InStep, Admitted
<1> QED
  BY <1>4, <1>5, <1>6, OneNode DEF StartNode, vars, hcVars

\* What an answer makes of a client: only a result is a success, and a client
\* waits only if it may try again.
LEMMA TriedLemma ==
    ASSUME NEW c \in ClientState, NEW kind \in {"network", "result", "status_4xx"},
           NEW ran \in BOOLEAN
    PROVE  LET after == Http!AfterTry(c, Http!try_call(Http!Answer(kind, 0, ran)))
           IN  /\ after \in ClientState
               /\ after.pc \in {"waiting", "returned"}
               /\ after.pc = "waiting" => after.attempt < max_attempts
               /\ after.result = "Ok" => kind = "result"
<1> DEFINE answer  == Http!Answer(kind, 0, ran)
           outcome == Http!try_call(answer)
           after   == Http!AfterTry(c, outcome)
<1>1. answer.kind = kind
  BY DEF Http!Answer
<1>2. /\ outcome \in {"Ok", "Transport", "InvalidResponse"}
      /\ outcome = "Ok" => kind = "result"
  BY <1>1 DEF Http!try_call
<1>3. outcome \in {"Ok"} \cup Http!MadrpcError
  BY <1>2 DEF Http!MadrpcError
<1> HIDE DEF outcome, answer
<1>4. /\ after = [c EXCEPT !.result = outcome, !.pc = after.pc]
      /\ after.pc \in {"waiting", "returned"}
      /\ after.pc = "waiting" => c.attempt < max_attempts
  BY DEF Http!AfterTry, ClientState
<1> HIDE DEF after
<1>5. /\ after \in ClientState
      /\ after.attempt = c.attempt
      /\ after.result = outcome
  BY <1>3, <1>4 DEF ClientState
<1> QED
  BY <1>2, <1>4, <1>5 DEF after, outcome, answer

LEMMA TriedKeeps ==
    ASSUME RegInv, NEW a \in Addr,
           NEW kind \in {"network", "result", "status_4xx"}, NEW ran \in BOOLEAN,
           calls[a].pc = "trying",
           Tried(a, Http!Answer(kind, 0, ran)), late' \in {late, late \cup {a}},
           kind = "result" => post[a] = "granted"
    PROVE  RegInv'
<1> DEFINE after == Http!AfterTry(calls[a], Http!try_call(Http!Answer(kind, 0, ran)))
<1>1. ProcessesTyped /\ InStep(a) /\ calls[a] \in ClientState
  BY DEF RegInv, ProcessesTyped
<1>2. /\ after \in ClientState
      /\ after.pc \in {"waiting", "returned"}
      /\ after.pc = "waiting" => after.attempt < max_attempts
      /\ after.result = "Ok" => kind = "result"
  BY <1>1, TriedLemma
<1>3. calls' = [calls EXCEPT ![a] = after] /\ post' = [post EXCEPT ![a] = "none"]
  BY DEF Tried
<1> HIDE DEF after
<1>4. ProcessesTyped'
  BY <1>1, <1>2, <1>3 DEF Tried, ProcessesTyped, vars
<1>5. Alone(a) /\ calls'[a] = after /\ post'[a] = "none"
  BY <1>1, <1>3 DEF Tried, Alone, ProcessesTyped
<1>6. InStep(a)'
  BY <1>1, <1>2, <1>5 DEF Tried, InStep
<1>7. Admitted(a)' => Admitted(a)
  BY <1>1, <1>2, <1>5 DEF Tried, InStep, Admitted
<1> QED
  BY <1>4, <1>5, <1>6, <1>7, OneNode DEF Tried, vars, hcVars

LEMMA PostKeeps ==
    ASSUME RegInv, NEW a \in Addr, Post(a)
    PROVE  RegInv'
<1>1. ProcessesTyped /\ InStep(a)
  BY DEF RegInv
<1>2. ProcessesTyped' /\ Alone(a) /\ post'[a] = "sent"
  BY <1>1 DEF Post, ProcessesTyped, Alone, vars
<1>3. InStep(a)' /\ (Admitted(a)' => Admitted(a))
  BY <1>1, <1>2 DEF Post, InStep, Admitted
<1> QED
  BY <1>2, <1>3, OneNode DEF Post, vars, hcVars

LEMMA ClientWaitsKeeps ==
    ASSUME RegInv, NEW a \in Addr, ClientWaits(a)
    PROVE  RegInv'
<1>1. ProcessesTyped /\ InStep(a) /\ calls[a] \in ClientState
  BY DEF RegInv, ProcessesTyped
<1>2. /\ calls[a].attempt + 1 \in 0..max_attempts
      /\ calls' = [calls EXCEPT ![a] = [calls[a] EXCEPT !.pc = "trying",
                                                        !.attempt = calls[a].attempt + 1]]
  BY <1>1, RegistrationAssumption DEF ClientWaits, Http!RetryCall, InStep, ClientState, ProcessesTyped
<1>3. [calls[a] EXCEPT !.pc = "trying", !.attempt = calls[a].attempt + 1] \in ClientState
  BY <1>1, <1>2 DEF ClientState
<1>4. /\ ProcessesTyped'
      /\ Alone(a)
      /\ calls'[a].pc = "trying"
  BY <1>1, <1>2, <1>3 DEF ClientWaits, ProcessesTyped, Alone, vars, ClientState
<1>5. InStep(a)' /\ (Admitted(a)' => Admitted(a))
  BY <1>1, <1>4 DEF ClientWaits, Http!RetryCall, InStep, Admitted
<1> QED
  BY <1>4, <1>5, OneNode DEF ClientWaits, vars, hcVars

LEMMA CallReturnedKeeps ==
    ASSUME RegInv, NEW a \in Addr, CallReturned(a)
    PROVE  RegInv'
<1>1. ProcessesTyped /\ InStep(a) /\ attempt[a] \in Nat
  BY DEF RegInv, ProcessesTyped
<1>2. PICK q : q = IF calls[a].result = "Ok" THEN "starting"
                  ELSE IF attempt[a] >= register_attempts THEN "down"
                  ELSE "delaying"
  OBVIOUS
<1>3. /\ proc' = [proc EXCEPT ![a] = q]
      /\ q \in {"starting", "down", "delaying"}
      /\ q = "starting" => calls[a].result = "Ok"
      /\ q = "delaying" => attempt[a] < register_attempts
  BY <1>1, <1>2, RegistrationAssumption DEF CallReturned
<1>4. /\ proc' \in [Addr -> Proc]
      /\ up' = {x \in Addr : proc'[x] = "serving"}
  BY <1>1, <1>3, SameUp DEF CallReturned, vars, Proc
<1>5. ProcessesTyped' /\ Alone(a) /\ proc'[a] = q
  BY <1>1, <1>3, <1>4 DEF CallReturned, ProcessesTyped, Alone
<1>6. InStep(a)' /\ (Admitted(a)' => Admitted(a))
  BY <1>1, <1>3, <1>5 DEF CallReturned, InStep, Admitted
<1> QED
  BY <1>5, <1>6, OneNode DEF CallReturned, vars, hcVars

LEMMA DelayOverKeeps ==
    ASSUME RegInv, NEW a \in Addr, DelayOver(a)
    PROVE  RegInv'
<1>1. ProcessesTyped /\ InStep(a)
  BY DEF RegInv
<1>2. /\ calls' \in [Addr -> ClientState]
      /\ calls'[a].pc = "trying"
      /\ \A b \in Addr \ {a} : calls'[b] = calls[b]
  BY <1>1, StartCallLemma DEF DelayOver, ProcessesTyped
<1>3. /\ proc' \in [Addr -> Proc]
      /\ up' = {x \in Addr : proc'[x] = "serving"}
  BY <1>1, SameUp DEF DelayOver, vars, Proc
<1>4. attempt' \in [Addr -> 0..register_attempts]
  BY <1>1, RegistrationAssumption DEF DelayOver, ProcessesTyped, InStep
<1>5. ProcessesTyped' /\ Alone(a) /\ proc'[a] = "calling"
  BY <1>1, <1>2, <1>3, <1>4 DEF DelayOver, ProcessesTyped, Alone
<1>6. InStep(a)' /\ (Admitted(a)' => Admitted(a))
  BY <1>1, <1>2, <1>5 DEF DelayOver, InStep, Admitted
<1> QED
  BY <1>5, <1>6, OneNode DEF DelayOver, vars, hcVars

LEMMA BindKeeps ==
    ASSUME RegInv, NEW a \in Addr, Bind(a)
    PROVE  RegInv'
<1>1. ProcessesTyped /\ InStep(a)
  BY DEF RegInv
<1>2. PICK q \in {"serving", "down"} :
          /\ proc' = [proc EXCEPT ![a] = q]
          /\ up' = IF q = "serving" THEN up \cup {a} ELSE up
  BY DEF Bind
<1>3. /\ proc' \in [Addr -> Proc]
      /\ up' = {x \in Addr : proc'[x] = "serving"}
  BY <1>1, <1>2 DEF Bind, ProcessesTyped, Proc
<1>4. ProcessesTyped' /\ Alone(a) /\ proc'[a] = q
  BY <1>1, <1>2, <1>3 DEF Bind, ProcessesTyped, Alone
<1>5. InStep(a)' /\ (Admitted(a)' => Admitted(a))
  BY <1>1, <1>2, <1>4 DEF Bind, InStep, Admitted
<1> QED
  BY <1>4, <1>5, OneNode DEF Bind, lbVars, hcVars

LEMMA NodeDiesKeeps ==
    ASSUME RegInv, NEW a \in Addr, NodeDies(a)
    PROVE  RegInv'
<1>1. ProcessesTyped
  BY DEF RegInv
<1>2. /\ proc' \in [Addr -> Proc]
      /\ up' = {x \in Addr : proc'[x] = "serving"}
  BY <1>1 DEF NodeDies, ProcessesTyped, Proc
<1>3. NoCall \in ClientState
  BY RegistrationAssumption DEF NoCall, ClientState
<1>4. ProcessesTyped' /\ Alone(a)
  BY <1>1, <1>2, <1>3 DEF NodeDies, ProcessesTyped, Alone
<1>5. proc'[a] = "down" /\ calls'[a].pc = "idle" /\ post'[a] = "none"
  BY <1>1 DEF NodeDies, ProcessesTyped, NoCall
<1>6. InStep(a)' /\ ~Admitted(a)'
  BY <1>5 DEF InStep, Admitted
<1> QED
  BY <1>4, <1>6, OneNode DEF NodeDies, lbVars, hcVars

-----------------------------------------------------------------------------
(* The steps of the orchestrator's process. *)

\* A step that changes the pool, and of the processes only what is said.
LEMMA ServeKeeps ==
    ASSUME RegInv, NEW a \in Addr, Serve(a)
    PROVE  RegInv'
<1>1. /\ ProcessesTyped /\ PoolInv /\ LBInv /\ AdmittedIsMember
      /\ \A b \in Addr : InStep(b)
      /\ orch = "down" => undone = Addr
  BY DEF RegInv, PoolInv, Inv
<1>2. PoolInv'
  <2>1. [Next]_vars
    BY DEF Serve, handle_register, Next, Admit
  <2> QED
    BY <1>1, <2>1, PoolStepKeeps
<1>3. up' = up
  BY DEF Serve, handle_register, vars
<1>4. PICK p \in {post[a], "unauthorized", "granted"} :
          /\ post' = [post EXCEPT ![a] = p]
          /\ p # post[a] => post[a] = "sent"
          /\ keyed /\ p = "granted" => post[a] = "granted"
  BY DEF Serve
<1>5. /\ ProcessesTyped'
      /\ \A b \in Addr : InStep(b)'
  <2>1. ProcessesTyped'
    BY <1>1, <1>3, <1>4 DEF Serve, ProcessesTyped
  <2>2. \A b \in Addr : post'[b] # "none" => post[b] # "none"
    BY <1>1, <1>4 DEF ProcessesTyped
  <2> QED
    BY <1>1, <2>1, <2>2 DEF Serve, InStep
<1>6. AdmittedIsMember'
  <2>1. CASE keyed
    <3>1. UNCHANGED <<nodes, undone>>
      BY <2>1 DEF Serve, vars
    <3>2. \A b \in Addr : Admitted(b)' => Admitted(b)
      BY <1>1, <1>4, <2>1 DEF Serve, Admitted, ProcessesTyped
    <3> QED
      BY <1>1, <3>1, <3>2 DEF AdmittedIsMember, Member
  <2>2. CASE ~keyed
    <3>1. register_node(a) /\ undone' = undone \ {a}
      BY <2>2 DEF Serve, handle_register
    <3>2. Member(a)' /\ \A b \in Addr : Member(b) => Member(b)'
      BY <1>1, <3>1, AdmitMakesMember
    <3>3. \A b \in Addr \ {a} : Admitted(b)' => Admitted(b)
      BY <1>1, <1>4 DEF Serve, Admitted, ProcessesTyped
    <3> QED
      BY <1>1, <3>1, <3>2, <3>3 DEF AdmittedIsMember
  <2> QED
    BY <2>1, <2>2
<1>7. orch' = "up"
  BY DEF Serve
<1> QED
  BY <1>2, <1>5, <1>6, <1>7 DEF RegInv

\* Nothing of the processes changes: what is left to show is about members.
LEMMA PoolOnly ==
    ASSUME RegInv, [Next]_vars, UNCHANGED <<up, orch, keyed, late, nodeVars>>,
           undone' \subseteq Addr, orch = "up",
           \A b \in Addr \ undone' : b \notin undone,
           \A b \in Addr \ undone' : Member(b) => Member(b)'
    PROVE  RegInv'
<1>1. PoolInv'
  BY PoolStepKeeps DEF RegInv
<1>2. ProcessesTyped' /\ \A b \in Addr : InStep(b)' /\ (Admitted(b)' => Admitted(b))
  BY DEF RegInv, ProcessesTyped, InStep, Admitted, nodeVars
<1>3. AdmittedIsMember'
  BY <1>2 DEF RegInv, AdmittedIsMember
<1> QED
  BY <1>1, <1>2, <1>3 DEF RegInv

LEMMA ManageKeeps ==
    ASSUME RegInv, NEW a \in Addr, Manage(a)
    PROVE  RegInv'
<1>1. LBInv /\ undone \subseteq Addr
  BY DEF RegInv, PoolInv, Inv, ProcessesTyped
<1>2. [Next]_vars /\ up' = up
  BY DEF Manage, Next, Admit, Withdraw
<1>3. CASE Withdraw(a) /\ undone' = undone \cup {a}
  BY <1>1, <1>2, <1>3, WithdrawSparesOthers, PoolOnly DEF Withdraw, Manage
<1>4. CASE (add_node(a) \/ enable_node(a)) /\ undone' = undone
  BY <1>1, <1>2, <1>4, AdmitMakesMember, PoolOnly DEF Manage
<1> QED
  BY <1>3, <1>4 DEF Manage

LEMMA CheckerKeeps ==
    ASSUME RegInv, CheckerSteps
    PROVE  RegInv'
<1>1. HcNext \/ TimePasses
  BY DEF CheckerSteps
<1>2. [Next]_vars /\ up' = up
  BY <1>1 DEF Next, HcNext, TimePasses
<1>3. Inv /\ undone \subseteq Addr
  BY DEF RegInv, PoolInv, ProcessesTyped
<1>4. \A b \in Addr : Member(b) => Member(b)'
  BY <1>1, <1>3, CheckerKeepsMembers
<1> QED
  BY <1>2, <1>3, <1>4, PoolOnly DEF CheckerSteps, regVars

LEMMA OrchDiesKeeps ==
    ASSUME RegInv, OrchDies
    PROVE  RegInv'
<1>1. PoolGood(nodes', enabled_nodes') /\ round_robin_index' \in Nat
  <2>1. << >> \in Seq(Addr) /\ Entries(<< >>) = {}
    BY EmptySeq DEF Entries
  <2> QED
    BY <2>1 DEF OrchDies, PoolGood
<1>2. PoolInv'
  BY <1>1, LBInvIsPoolGoodPrimed
  DEF OrchDies, RegInv, PoolInv, Inv, HcTypeOK, Phases, NoUpdate, FlagsFollowAnswer
<1>3. ProcessesTyped'
  BY DEF OrchDies, RegInv, ProcessesTyped
<1>4. \A b \in Addr : InStep(b)'
  BY DEF OrchDies, RegInv, ProcessesTyped, InStep
<1> QED
  BY <1>2, <1>3, <1>4 DEF OrchDies, RegInv, AdmittedIsMember

LEMMA OrchStartsKeeps ==
    ASSUME RegInv, OrchStarts
    PROVE  RegInv'
<1>1. PICK list \in InitialLists : nodes' = [a \in Entries(list) |-> NewNode]
                                   /\ enabled_nodes' = list
  BY DEF OrchStarts
<1>2. list \in Seq(Addr) /\ Entries(list) \subseteq Addr
  BY ListAssumption, ElementOfSeq DEF Entries
<1>3. PoolGood(nodes', enabled_nodes') /\ round_robin_index' \in Nat
  BY <1>1, <1>2, NewNodeGood DEF OrchStarts, PoolGood, RegInv, PoolInv, Inv, LBInv, LBTypeOK
<1>4. PoolInv'
  BY <1>3, LBInvIsPoolGoodPrimed
  DEF OrchStarts, RegInv, PoolInv, Inv, HcTypeOK, FlagsFollowAnswer, hcVars
<1>5. ProcessesTyped' /\ \A b \in Addr : InStep(b)'
  BY DEF OrchStarts, RegInv, ProcessesTyped, InStep, nodeVars
<1> QED
  BY <1>4, <1>5 DEF OrchStarts, RegInv, AdmittedIsMember

-----------------------------------------------------------------------------
LEMMA RegNextKeeps == RegInv /\ [RegNext]_allVars => RegInv'
<1> SUFFICES ASSUME RegInv, [RegNext]_allVars PROVE RegInv'
  OBVIOUS
<1>1. ASSUME NEW a \in Addr, StartNode(a) \/ Bind(a) \/ NodeDies(a) \/ Serve(a) \/ Manage(a)
      PROVE  RegInv'
  BY <1>1, StartNodeKeeps, BindKeeps, NodeDiesKeeps, ServeKeeps, ManageKeeps
<1>2. ASSUME NEW a \in Addr, Registering(a)
      PROVE  RegInv'
  <2>1. InStep(a) /\ post[a] \in {"none", "sent", "granted", "unauthorized", "broken"}
    BY DEF RegInv, ProcessesTyped
  <2>2. CASE Refused(a)
    BY <2>2, TriedKeeps DEF Refused
  <2>3. CASE Broken(a)
    BY <2>1, <2>3, TriedKeeps DEF Broken, InStep
  <2>4. CASE Reply(a)
    BY <2>1, <2>4, TriedKeeps DEF Reply, InStep
  <2> QED
    BY <1>2, <2>2, <2>3, <2>4, PostKeeps, ClientWaitsKeeps, CallReturnedKeeps, DelayOverKeeps
    DEF Registering, OwnSteps
<1>3. CASE UNCHANGED allVars
  <2>1. UNCHANGED <<vars, regVars>>
    BY <1>3 DEF allVars
  <2>2. PoolInv'
    BY <2>1, PoolStepKeeps DEF RegInv
  <2> QED
    BY <2>1, <2>2 DEF vars, regVars, nodeVars, RegInv, ProcessesTyped, InStep,
                      AdmittedIsMember, Admitted, Member
<1> QED
  BY <1>1, <1>2, <1>3, CheckerKeeps, OrchDiesKeeps, OrchStartsKeeps DEF RegNext

LEMMA RegAlways == RegSpec => []RegInv
  BY RegInitHolds, RegNextKeeps, PTL DEF RegSpec

(***************************************************************************)
(* Types of the processes, the pool and the messages between them, and: a  *)
(* node answers probes exactly while it serves.  For any number of nodes   *)
(* and attempts.                                                           *)
(***************************************************************************)
THEOREM RegistrationTyped == RegSpec => []RegTypeOK
<1>1. RegInv => RegTypeOK
  BY DEF RegInv, PoolInv, Inv, LBInv, TypeOK, ProcessesTyped, ClientState, RegTypeOK
<1> QED
  BY <1>1, RegAlways, PTL

(***************************************************************************)
(* Who passed its registration is in the pool, through lost replies,       *)
(* repeated and late requests, deaths of either process and everything the *)
(* health checker does.                                                    *)
(***************************************************************************)
THEOREM RegisteredAlwaysMember == RegSpec => []RegisteredIsMember
<1>1. RegInv => RegisteredIsMember
  BY DEF RegInv, AdmittedIsMember, Admitted, Member, RegisteredIsMember
<1> QED
  BY <1>1, RegAlways, PTL

-----------------------------------------------------------------------------
(* Each life of the orchestrator is a pool. *)

\* Between its start and its death, a step is one of Orchestrator.
LEMMA LifeSteps ==
    ASSUME RegInv, [RegNext]_allVars, orch' = orch
    PROVE  [Next]_vars
<1>1. ASSUME NEW a \in Addr, StartNode(a) \/ Registering(a)
      PROVE  UNCHANGED vars
  BY <1>1 DEF StartNode, Registering, OwnSteps, Post, Refused, Broken, Reply, Tried,
              ClientWaits, CallReturned, DelayOver
<1>2. ASSUME NEW a \in Addr, Bind(a)
      PROVE  [Next]_vars
  <2>1. CASE up' = up \cup {a}
    BY <1>2, <2>1 DEF Bind, RegInv, ProcessesTyped, Next, NodeUp, vars, lbVars, hcVars
  <2>2. CASE up' = up
    BY <1>2, <2>2 DEF Bind, vars, lbVars, hcVars
  <2> QED
    BY <1>2, <2>1, <2>2 DEF Bind
<1>3. ASSUME NEW a \in Addr, NodeDies(a)
      PROVE  [Next]_vars
  <2>1. CASE a \in up
    BY <1>3, <2>1 DEF NodeDies, Next, NodeDown
  <2>2. CASE a \notin up
    BY <1>3, <2>2 DEF NodeDies, vars, lbVars, hcVars
  <2> QED
    BY <2>1, <2>2
<1>4. ASSUME NEW a \in Addr, Serve(a) \/ Manage(a)
      PROVE  [Next]_vars
  BY <1>4 DEF Serve, handle_register, Manage, Next, Admit, Withdraw
<1>5. CASE CheckerSteps
  BY <1>5 DEF CheckerSteps, Next
<1>6. CASE UNCHANGED allVars
  BY <1>6 DEF allVars
<1>7. ~OrchDies /\ ~OrchStarts
  BY DEF OrchDies, OrchStarts
<1> QED
  BY <1>1, <1>2, <1>3, <1>4, <1>5, <1>6, <1>7 DEF RegNext

(***************************************************************************)
(* The pool implements NodePool from each start of the orchestrator to its *)
(* death, whatever the processes around it do.                             *)
(***************************************************************************)
THEOREM EachLifeImplementsPool == RegSpec => PoolInEachLife
<1>1. RegInv => OfferFollows
  BY OfferLemma DEF RegInv, PoolInv, Inv
<1>2. RegInit => Pool!PoolInit
  BY InitMaps DEF RegInit
<1>3. /\ RegInv /\ [RegNext]_allVars
      /\ OfferFollows /\ OfferFollows'
      /\ orch' = orch
      => [Pool!PoolNext]_(Pool!poolVars)
  BY LifeSteps, StepRefines DEF RegInv, PoolInv
<1>4. /\ RegInv /\ [RegNext]_allVars
      /\ OfferFollows'
      /\ orch' # orch /\ orch' = "up"
      => Pool!PoolInit'
  <2> SUFFICES ASSUME RegInv, [RegNext]_allVars, OfferFollows', orch' # orch, orch' = "up"
               PROVE  Pool!PoolInit'
    OBVIOUS
  <2>1. orch = "down"
    BY DEF RegInv, ProcessesTyped
  <2>2. OrchStarts
    BY <2>1 DEF RegNext, StartNode, Registering, OwnSteps, Post, Refused, Broken, Reply, Tried,
                ClientWaits, CallReturned, DelayOver, Bind, NodeDies, Serve, Manage,
                CheckerSteps, OrchDies, allVars, regVars
  <2>3. PICK list : nodes' = [a \in Entries(list) |-> NewNode]
    BY <2>2 DEF OrchStarts
  <2>4. \A a \in Addr : StandingOf(a)' \in {"absent", "serving"} /\ CircuitOf(a)' = "Closed"
    BY <2>3 DEF StandingOf, StandingFor, CircuitOf, NewNode
  <2> QED
    BY <2>4 DEF Pool!PoolInit, OfferFollows, standings, circuits, offers
<1>5. /\ RegInv /\ OfferFollows /\ OfferFollows' /\ [RegNext]_allVars
      => [IF orch' = orch
          THEN [Pool!PoolNext]_(Pool!poolVars)
          ELSE orch' = "up" => Pool!PoolInit']_allVars
  BY <1>3, <1>4
<1> QED
  BY <1>1, <1>2, <1>5, RegAlways, PTL DEF RegSpec, PoolInEachLife

-----------------------------------------------------------------------------
(* The registration of a node ends. *)

\* The steps left, as they stand: natural numbers, and in a call as many as
\* there are tries.
StepsBounded ==
    \A a \in Addr : /\ StepsOfCall(a) \in 1..(3 * max_attempts + 3)
                   /\ StepsLeft(a) \in Nat

LEMMA StepsTyped == RegInv => StepsBounded
<1> SUFFICES ASSUME RegInv, NEW a \in Addr
             PROVE  /\ StepsOfCall(a) \in 1..(3 * max_attempts + 3)
                    /\ StepsLeft(a) \in Nat
  BY DEF StepsBounded
<1>1. /\ calls[a] \in ClientState
      /\ attempt[a] \in 0..register_attempts
      /\ max_attempts \in Nat
      /\ register_attempts \in Nat
  BY RegistrationAssumption DEF RegInv, ProcessesTyped
<1>2. max_attempts - calls[a].attempt \in 0..max_attempts
  BY <1>1 DEF ClientState
<1>3. StepsOfCall(a) \in 1..(3 * max_attempts + 3)
  BY <1>1, <1>2 DEF StepsOfCall
<1>4. (3 * max_attempts + 5) * (register_attempts - attempt[a]) \in Nat
  BY <1>1
<1> QED
  BY <1>1, <1>3, <1>4 DEF StepsLeft

LEMMA StepsTypedPrimed == (RegInv => StepsBounded)'
BY StepsTyped, PTL

\* A step that leaves the node, its loop and its client alone, and changes at
\* most what its message has come to.
LEMMA SameStepsLeft ==
    ASSUME NEW a \in Addr, proc'[a] = proc[a], attempt'[a] = attempt[a], calls'[a] = calls[a],
           post'[a] = "none" <=> post[a] = "none"
    PROVE  StepsLeft(a)' = StepsLeft(a)
BY DEF StepsLeft, StepsOfCall

\* A step within a call.
LEMMA CallStep ==
    ASSUME RegInv, RegInv', NEW a \in Addr, proc[a] = "calling",
           proc' = proc, attempt' = attempt, StepsOfCall(a)' < StepsOfCall(a)
    PROVE  StepsLeft(a)' < StepsLeft(a)
<1> DEFINE before == (3 * max_attempts + 5) * (register_attempts - attempt[a])
<1>1. before \in Nat
  BY RegistrationAssumption DEF RegInv, ProcessesTyped
<1>2. StepsOfCall(a) \in Nat /\ StepsOfCall(a)' \in Nat
  BY StepsTyped, StepsTypedPrimed, RegistrationAssumption DEF StepsBounded
<1>3. StepsLeft(a) = before + 1 + StepsOfCall(a) /\ StepsLeft(a)' = before + 1 + StepsOfCall(a)'
  BY DEF StepsLeft
<1> HIDE DEF before
<1> QED
  BY <1>1, <1>2, <1>3

\* The try in flight comes to something.
LEMMA TriedStep ==
    ASSUME RegInv, NEW a \in Addr,
           NEW kind \in {"network", "result", "status_4xx"}, NEW ran \in BOOLEAN,
           calls[a].pc = "trying", Tried(a, Http!Answer(kind, 0, ran))
    PROVE  /\ proc[a] = "calling" /\ proc' = proc /\ attempt' = attempt
           /\ StepsOfCall(a)' < StepsOfCall(a)
<1> DEFINE after == Http!AfterTry(calls[a], Http!try_call(Http!Answer(kind, 0, ran)))
<1>1. /\ calls[a] \in ClientState
      /\ calls \in [Addr -> ClientState]
      /\ proc[a] = "calling"
      /\ max_attempts \in Nat
  BY RegistrationAssumption DEF RegInv, ProcessesTyped, InStep
<1>2. after.pc \in {"waiting", "returned"} /\ after \in ClientState
  BY <1>1, TriedLemma
<1>3. after.attempt = calls[a].attempt
  BY <1>1 DEF Http!AfterTry, ClientState
<1>4. calls'[a] = after
  BY <1>1 DEF Tried
<1> HIDE DEF after
<1>5. max_attempts - calls[a].attempt \in Nat
  BY <1>1 DEF ClientState
<1> QED
  BY <1>1, <1>2, <1>3, <1>4, <1>5 DEF StepsOfCall, Tried

\* The turn of the loop is over: what the next one costs at most is paid for.
LEMMA TurnStep ==
    ASSUME RegInv, RegInv', NEW a \in Addr, CallReturned(a) \/ DelayOver(a)
    PROVE  StepsLeft(a)' < StepsLeft(a)
<1> DEFINE turn == 3 * max_attempts + 5
           turns == register_attempts - attempt[a]
<1>1. /\ max_attempts \in Nat
      /\ turns \in Nat
      /\ proc \in [Addr -> Proc]
      /\ attempt \in [Addr -> 0..register_attempts]
      /\ register_attempts \in Nat
  BY RegistrationAssumption DEF RegInv, ProcessesTyped
<1>2. turn \in Nat /\ turn * turns \in Nat
  BY <1>1
<1>3. CASE CallReturned(a)
  <2>1. StepsLeft(a) = turn * turns + 2
    BY <1>1, <1>2, <1>3 DEF CallReturned, StepsLeft, StepsOfCall
  <2>2. /\ proc'[a] \in {"starting", "down", "delaying"}
        /\ attempt' = attempt
    BY <1>1, <1>3 DEF CallReturned
  <2>3. StepsLeft(a)' \in {1, 0, turn * turns + 1}
    BY <2>2 DEF StepsLeft
  <2> HIDE DEF turn, turns
  <2> QED
    BY <1>2, <2>1, <2>3
<1>4. CASE DelayOver(a)
  <2>1. StepsLeft(a) = turn * turns + 1
    BY <1>4 DEF DelayOver, StepsLeft
  <2>2. /\ proc'[a] = "calling"
        /\ attempt'[a] = attempt[a] + 1
    BY <1>1, <1>4 DEF DelayOver
  <2>3. register_attempts - attempt'[a] = turns - 1
    BY <1>1, <2>2
  <2>4. StepsLeft(a)' = turn * (turns - 1) + 1 + StepsOfCall(a)'
    BY <2>2, <2>3 DEF StepsLeft
  <2>5. StepsOfCall(a)' \in Nat /\ StepsOfCall(a)' < turn
    BY <1>1, StepsTypedPrimed DEF StepsBounded
  <2>6. turn * (turns - 1) = turn * turns - turn
    BY <1>1
  <2> HIDE DEF turn, turns
  <2> QED
    BY <1>2, <2>1, <2>4, <2>5, <2>6
<1> QED
  BY <1>3, <1>4

LEMMA OwnStep ==
    ASSUME RegInv, RegInv', NEW a \in Addr, Registering(a) \/ Bind(a)
    PROVE  StepsLeft(a)' < StepsLeft(a)
<1>1. /\ ProcessesTyped /\ InStep(a)
      /\ calls[a] \in ClientState
      /\ max_attempts \in Nat
  BY RegistrationAssumption DEF RegInv, ProcessesTyped
<1>2. max_attempts - calls[a].attempt \in Nat
  BY <1>1 DEF ClientState
<1>3. CASE Post(a)
  <2>1. proc[a] = "calling" /\ proc' = proc /\ attempt' = attempt
    BY <1>1, <1>3 DEF Post, InStep
  <2>2. StepsOfCall(a)' < StepsOfCall(a)
    BY <1>1, <1>2, <1>3 DEF Post, StepsOfCall, ProcessesTyped
  <2> QED
    BY <2>1, <2>2, CallStep
<1>4. CASE Refused(a) \/ Broken(a) \/ Reply(a)
  <2>1. calls[a].pc = "trying"
    BY <1>1, <1>4 DEF Refused, Broken, Reply, InStep
  <2>2. PICK kind \in {"network", "result", "status_4xx"}, ran \in BOOLEAN :
            Tried(a, Http!Answer(kind, 0, ran))
    BY <1>4 DEF Refused, Broken, Reply
  <2> QED
    BY <2>1, <2>2, TriedStep, CallStep
<1>5. CASE ClientWaits(a)
  <2>1. /\ proc[a] = "calling" /\ proc' = proc /\ attempt' = attempt /\ post' = post
        /\ calls[a].pc = "waiting"
    BY <1>1, <1>5 DEF ClientWaits, Http!RetryCall, InStep
  <2>2. calls'[a].pc = "trying" /\ calls'[a].attempt = calls[a].attempt + 1
    BY <1>1, <1>5 DEF ClientWaits, Http!RetryCall, ProcessesTyped, ClientState
  <2>3. StepsOfCall(a)' < StepsOfCall(a)
    BY <1>1, <1>2, <2>1, <2>2 DEF StepsOfCall, ClientState
  <2> QED
    BY <2>1, <2>3, CallStep
<1>6. CASE CallReturned(a) \/ DelayOver(a)
  BY <1>6, TurnStep
<1>7. CASE Bind(a)
  BY <1>1, <1>7 DEF Bind, StepsLeft, ProcessesTyped
<1> QED
  BY <1>3, <1>4, <1>5, <1>6, <1>7 DEF Registering, OwnSteps

\* A step of somebody else.
LEMMA OthersStep ==
    ASSUME RegInv, RegInv', [RegNext]_allVars, NEW a \in Addr,
           ~Registering(a), ~Bind(a), ~StartNode(a)
    PROVE  ~(StepsLeft(a)' > StepsLeft(a))
<1>1. ProcessesTyped /\ StepsLeft(a) \in Nat /\ StepsLeft(a)' \in Nat
  BY StepsTyped, StepsTypedPrimed DEF RegInv, StepsBounded
<1>2. SUFFICES ASSUME ~NodeDies(a)
               PROVE  StepsLeft(a)' = StepsLeft(a)
  <2>1. NodeDies(a) => StepsLeft(a)' = 0
    BY <1>1 DEF NodeDies, StepsLeft, ProcessesTyped
  <2> QED
    BY <1>1, <1>2, <2>1
<1>3. SUFFICES /\ proc'[a] = proc[a]
               /\ attempt'[a] = attempt[a]
               /\ calls'[a] = calls[a]
               /\ post'[a] = "none" <=> post[a] = "none"
  BY SameStepsLeft
<1>4. ASSUME NEW b \in Addr \ {a},
             StartNode(b) \/ Registering(b) \/ Bind(b) \/ NodeDies(b)
      PROVE  /\ proc'[a] = proc[a]
             /\ attempt'[a] = attempt[a]
             /\ calls'[a] = calls[a]
             /\ post'[a] = post[a]
  BY <1>1, <1>4 DEF ProcessesTyped, StartNode, Registering, OwnSteps, Post, Refused, Broken, Reply, Tried,
                    ClientWaits, CallReturned, DelayOver, Bind, NodeDies,
                    Http!StartCall, Http!RetryCall
<1>5. ASSUME NEW b \in Addr, Serve(b)
      PROVE  /\ UNCHANGED <<proc, attempt, calls>>
             /\ post'[a] = "none" <=> post[a] = "none"
  BY <1>1, <1>5 DEF ProcessesTyped, Serve
<1>6. ASSUME OrchDies
      PROVE  /\ UNCHANGED <<proc, attempt, calls>>
             /\ post'[a] = "none" <=> post[a] = "none"
  BY <1>1, <1>6 DEF ProcessesTyped, OrchDies
<1>7. ASSUME \/ \E b \in Addr : Manage(b)
             \/ CheckerSteps \/ OrchStarts \/ UNCHANGED allVars
      PROVE  UNCHANGED nodeVars
  BY <1>7 DEF Manage, CheckerSteps, OrchStarts, allVars, regVars
<1> QED
  BY <1>2, <1>4, <1>5, <1>6, <1>7 DEF RegNext, nodeVars

(***************************************************************************)
(* register_with_orchestrator around the client's own retries ends after a *)
(* number of steps that is known when the node starts, whatever happens to *)
(* the orchestrator, the messages and the other nodes meanwhile.           *)
(***************************************************************************)
THEOREM RegistrationEnds == RegSpec => RetriesRunOut
<1>1. /\ RegInv /\ RegInv' /\ [RegNext]_allVars
      => \A a \in Addr :
            /\ Registering(a) \/ Bind(a) => StepsLeft(a)' < StepsLeft(a)
            /\ StepsLeft(a)' > StepsLeft(a) => StartNode(a)
  <2> SUFFICES ASSUME RegInv, RegInv', [RegNext]_allVars, NEW a \in Addr
               PROVE  /\ Registering(a) \/ Bind(a) => StepsLeft(a)' < StepsLeft(a)
                      /\ StepsLeft(a)' > StepsLeft(a) => StartNode(a)
    OBVIOUS
  <2>1. StepsLeft(a) \in Nat /\ StepsLeft(a)' \in Nat
    BY StepsTyped, StepsTypedPrimed DEF StepsBounded
  <2>2. Registering(a) \/ Bind(a) => StepsLeft(a)' < StepsLeft(a)
    BY OwnStep
  <2>3. ~Registering(a) /\ ~Bind(a) /\ ~StartNode(a) => ~(StepsLeft(a)' > StepsLeft(a))
    BY OthersStep
  <2> QED
    BY <2>1, <2>2, <2>3
<1> QED
  BY <1>1, RegAlways, PTL DEF RegSpec, RetriesRunOut

=============================================================================
