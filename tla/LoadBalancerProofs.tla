------------------------- MODULE LoadBalancerProofs -------------------------
(***************************************************************************)
(* What every method of the load balancer preserves, for any addresses,    *)
(* any initial list and any circuit breaker configuration; and that        *)
(* next_node is fair.                                                      *)
(***************************************************************************)
EXTENDS RoundRobin, FiniteSetTheorems, SequenceTheorems, TLAPS

-----------------------------------------------------------------------------
(* The roster: what Vec::retain and Vec::push leave in it. *)

\* retain(|x| x != a) keeps exactly the other entries.
LEMMA RetainLemma ==
    ASSUME NEW S, NEW s \in Seq(S), NEW a
    PROVE  /\ Retain(s, a) \in Seq(S)
           /\ Entries(Retain(s, a)) = Entries(s) \ {a}
<1> DEFINE kept    == {i \in DOMAIN s : s[i] # a}
           rank(i) == Cardinality({j \in kept : j <= i})
           n       == Cardinality(kept)
           pick(k) == CHOOSE i \in kept : rank(i) = k
<1>1. DOMAIN s = 1..Len(s) /\ Len(s) \in Nat /\ \A i \in 1..Len(s) : s[i] \in S
  BY LenProperties
<1>2. kept \in SUBSET (1..Len(s)) /\ IsFiniteSet(kept) /\ n \in Nat
  <2>1. kept \in SUBSET (1..Len(s))
    BY <1>1
  <2>2. IsFiniteSet(1..Len(s))
    BY <1>1, FS_Interval
  <2>3. IsFiniteSet(kept)
    BY <2>1, <2>2, FS_Subset
  <2>4. QED
    BY <2>1, <2>3, FS_CardinalityType
<1>3. \A i \in kept : rank(i) \in 1..n
  <2> TAKE i \in kept
  <2> DEFINE below == {j \in kept : j <= i}
  <2>1. below \in SUBSET kept /\ i \in below
    BY <1>1, <1>2
  <2>2. IsFiniteSet(below) /\ Cardinality(below) <= n /\ Cardinality(below) \in Nat
    BY <1>2, <2>1, FS_Subset, FS_CardinalityType
  <2>3. Cardinality(below) # 0
    BY <2>1, <2>2, FS_EmptySet
  <2> HIDE DEF below, n
  <2>4. Cardinality(below) \in 1..n
    BY <1>2, <2>2, <2>3
  <2> QED
    BY <2>4 DEF below
<1>4. \A i, j \in kept : i < j => rank(i) # rank(j)
  <2> SUFFICES ASSUME NEW i \in kept, NEW j \in kept, i < j
               PROVE  rank(i) # rank(j)
    OBVIOUS
  <2> DEFINE low == {k \in kept : k <= i}  high == {k \in kept : k <= j}
  <2>1. low \in SUBSET high /\ j \in high /\ j \notin low
    BY <1>1, <1>2
  <2>2. IsFiniteSet(high)
    BY <1>2, FS_Subset
  <2>3. Cardinality(high) = Cardinality(low) => high = low
    BY <2>1, <2>2, FS_Subset
  <2> QED
    BY <2>1, <2>3
<1>5. \A k \in 1..n : \E i \in kept : rank(i) = k
  <2> DEFINE f == [i \in kept |-> rank(i)]
  <2>1. f \in Injection(kept, 1..n)
    <3>1. f \in [kept -> 1..n]
      BY <1>3
    <3>2. \A i, j \in kept : f[i] = f[j] => i = j
      BY <1>2, <1>4
    <3> QED
      BY <3>1, <3>2 DEF Injection, IsInjective
  <2>2. IsFiniteSet(1..n) /\ Cardinality(1..n) = n
    BY <1>2, FS_Interval
  <2>3. f \in Surjection(kept, 1..n)
    BY <2>1, <2>2, FS_Injection
  <2> QED
    BY <2>3 DEF Surjection
<1>6. \A k \in 1..n : pick(k) \in kept /\ rank(pick(k)) = k
  BY <1>5
<1>7. \A i \in kept : pick(rank(i)) = i
  BY <1>2, <1>3, <1>4, <1>6
<1> HIDE DEF pick, rank
<1>8. Retain(s, a) = [k \in 1..n |-> s[pick(k)]]
  BY DEF Retain, pick, rank
<1>9. \A k \in 1..n : s[pick(k)] \in S /\ s[pick(k)] # a /\ s[pick(k)] \in Entries(s)
  BY <1>1, <1>6 DEF Entries
<1>10. Retain(s, a) \in Seq(S)
  BY <1>2, <1>8, <1>9
<1>11. DOMAIN Retain(s, a) = 1..n
  BY <1>8
<1>12. Entries(Retain(s, a)) \subseteq Entries(s) \ {a}
  BY <1>8, <1>9, <1>11 DEF Entries
<1>13. Entries(s) \ {a} \subseteq Entries(Retain(s, a))
  <2> SUFFICES ASSUME NEW i \in DOMAIN s, s[i] # a
               PROVE  s[i] \in Entries(Retain(s, a))
    BY DEF Entries
  <2>1. i \in kept
    OBVIOUS
  <2>2. rank(i) \in 1..n /\ pick(rank(i)) = i
    BY <2>1, <1>3, <1>7
  <2>3. Retain(s, a)[rank(i)] = s[i]
    BY <2>2, <1>8
  <2> QED
    BY <2>2, <2>3, <1>11 DEF Entries
<1> QED
  BY <1>10, <1>12, <1>13

\* push adds exactly the new entry.
LEMMA AppendLemma ==
    ASSUME NEW S, NEW s \in Seq(S), NEW a \in S
    PROVE  /\ Append(s, a) \in Seq(S)
           /\ Entries(Append(s, a)) = Entries(s) \cup {a}
<1>1. /\ Append(s, a) \in Seq(S)
      /\ Len(s) \in Nat
      /\ DOMAIN s = 1..Len(s)
      /\ DOMAIN Append(s, a) = 1..(Len(s) + 1)
      /\ \A i \in 1..Len(s) : Append(s, a)[i] = s[i]
      /\ Append(s, a)[Len(s) + 1] = a
  BY AppendProperties, LenProperties
<1> QED
  BY <1>1 DEF Entries

\* enable_node and register_node push an address only if it is missing.
LEMMA PushLemma ==
    ASSUME NEW S, NEW s \in Seq(S), NEW a \in S
    PROVE  /\ PushIfAbsent(s, a) \in Seq(S)
           /\ Entries(PushIfAbsent(s, a)) = Entries(s) \cup {a}
BY AppendLemma DEF PushIfAbsent

-----------------------------------------------------------------------------
(* One node: the fields that have to agree. *)

GoodNode(n) ==
    /\ n \in Node
    /\ n.enabled <=> n.disable_reason = "None"
    /\ n.circuit_state = "Open" <=> n.circuit_opened_at # Unset
    /\ n.circuit_state = "HalfOpen" <=> n.half_open_attempted

LBInv == LBTypeOK /\ RosterCoherent /\ CircuitCoherent

\* A node as LoadBalancer::add_node creates it.
LEMMA NewNodeGood == GoodNode(NewNode) /\ NewNode.enabled
BY SaturationAssumption DEF GoodNode, NewNode, Node, DisableReason, CircuitBreakerState, Unset

\* disable_node and auto_disable_node.
LEMMA DisabledGood ==
    ASSUME NEW n, GoodNode(n), NEW reason \in {"Manual", "HealthCheck"}
    PROVE  GoodNode(Disabled(n, reason)) /\ ~Disabled(n, reason).enabled
BY DEF GoodNode, Disabled, Node, DisableReason

\* enable_node, auto_enable_node and register_node.
LEMMA EnabledGood ==
    ASSUME NEW n, GoodNode(n)
    PROVE  GoodNode(Enabled(n)) /\ Enabled(n).enabled
<1>1. 0 \in 0..MaxFailures
  BY SaturationAssumption
<1>2. Enabled(n) \in Node
  BY <1>1 DEF GoodNode, Enabled, Node, DisableReason
<1> QED
  BY <1>2 DEF GoodNode, Enabled, Node

\* update_health_status.
LEMMA AfterStatusGood ==
    ASSUME NEW n, GoodNode(n), NEW healthy \in BOOLEAN
    PROVE  /\ GoodNode(AfterStatus(n, healthy))
           /\ AfterStatus(n, healthy).enabled = n.enabled
           /\ AfterStatus(n, healthy).disable_reason = n.disable_reason
<1>1. /\ OneMoreFailure(n) \in 0..MaxFailures
      /\ 0 \in 0..MaxFailures
      /\ 0 \in 0..max_timeout
  BY SaturationAssumption, ConfigAssumption DEF GoodNode, Node, OneMoreFailure
<1>2. CASE healthy
  BY <1>1, <1>2 DEF AfterStatus, AfterHealthy, Close, GoodNode, Node, CircuitBreakerState, Unset
<1>3. CASE ~healthy
  <2> DEFINE counted == [n EXCEPT !.consecutive_failures = OneMoreFailure(n)]
  <2>1. /\ GoodNode(counted)
        /\ counted.enabled = n.enabled
        /\ counted.disable_reason = n.disable_reason
    BY <1>1 DEF GoodNode, Node
  <2>2. /\ GoodNode(TripOpen(counted))
        /\ TripOpen(counted).enabled = n.enabled
        /\ TripOpen(counted).disable_reason = n.disable_reason
    <3> HIDE DEF counted
    <3>1. TripOpen(counted) \in Node
      BY <1>1, <2>1 DEF TripOpen, GoodNode, Node, CircuitBreakerState
    <3>2. /\ TripOpen(counted).circuit_state = "Open"
          /\ TripOpen(counted).circuit_opened_at = 0
          /\ TripOpen(counted).half_open_attempted = FALSE
          /\ TripOpen(counted).enabled = counted.enabled
          /\ TripOpen(counted).disable_reason = counted.disable_reason
      BY <2>1 DEF TripOpen, GoodNode, Node
    <3> QED
      BY <2>1, <3>1, <3>2 DEF GoodNode, Unset
  <2>3. AfterStatus(n, healthy) \in {counted, TripOpen(counted)}
    BY <1>3 DEF AfterStatus, AfterUnhealthy
  <2> HIDE DEF counted
  <2> QED
    BY <2>1, <2>2, <2>3
<1> QED
  BY <1>2, <1>3

\* check_circuit_timeouts, on one node.
LEMMA HalfOpenGood ==
    ASSUME NEW n, GoodNode(n)
    PROVE  /\ GoodNode(try_transition_to_half_open(n))
           /\ try_transition_to_half_open(n).enabled = n.enabled
           /\ try_transition_to_half_open(n).disable_reason = n.disable_reason
BY DEF try_transition_to_half_open, GoodNode, Node, CircuitBreakerState, Unset

\* The passing of time, on one node.
LEMMA AgedGood ==
    ASSUME NEW n, GoodNode(n)
    PROVE  GoodNode(Aged(n)) /\ Aged(n).enabled = n.enabled
BY ConfigAssumption DEF Aged, GoodNode, Node, Unset

-----------------------------------------------------------------------------
(* The pool: the map of nodes and the roster together. *)

PoolGood(map, roster) ==
    /\ DOMAIN map \subseteq Addr
    /\ map = [a \in DOMAIN map |-> map[a]]
    /\ \A a \in DOMAIN map : GoodNode(map[a])
    /\ roster \in Seq(Addr)
    /\ Entries(roster) = {a \in DOMAIN map : map[a].enabled}

\* The invariant says that the pool is good, before and after a step.
LEMMA LBInvIsPoolGood ==
    LBInv <=> PoolGood(nodes, enabled_nodes) /\ round_robin_index \in Nat
BY DEF LBInv, LBTypeOK, RosterCoherent, CircuitCoherent, PoolGood, GoodNode

LEMMA LBInvIsPoolGoodPrimed ==
    LBInv' <=> PoolGood(nodes', enabled_nodes') /\ round_robin_index' \in Nat
BY DEF LBInv, LBTypeOK, RosterCoherent, CircuitCoherent, PoolGood, GoodNode

\* One node is replaced and the roster follows its enabled flag.
LEMMA PoolReplace ==
    ASSUME NEW map, NEW roster, PoolGood(map, roster),
           NEW a \in DOMAIN map, NEW n, GoodNode(n),
           NEW new \in Seq(Addr),
           n.enabled => Entries(new) = Entries(roster) \cup {a},
           ~n.enabled => Entries(new) = Entries(roster) \ {a}
    PROVE  PoolGood([map EXCEPT ![a] = n], new)
<1> DEFINE m == [map EXCEPT ![a] = n]
<1>1. /\ DOMAIN m = DOMAIN map
      /\ m = [x \in DOMAIN m |-> m[x]]
      /\ m[a] = n
      /\ \A x \in DOMAIN map : x # a => m[x] = map[x]
  BY DEF PoolGood
<1> HIDE DEF m
<1>2. Entries(new) = {x \in DOMAIN m : m[x].enabled}
  BY <1>1 DEF PoolGood
<1>3. \A x \in DOMAIN m : GoodNode(m[x])
  BY <1>1 DEF PoolGood
<1>4. PoolGood(m, new)
  BY <1>1, <1>2, <1>3 DEF PoolGood
<1> QED
  BY <1>4 DEF m

\* Every node is rewritten and none changes its enabled flag.
LEMMA PoolRewrite ==
    ASSUME NEW map, NEW roster, PoolGood(map, roster), NEW new,
           DOMAIN new = DOMAIN map, new = [a \in DOMAIN new |-> new[a]],
           \A a \in DOMAIN map : GoodNode(new[a]) /\ new[a].enabled = map[a].enabled
    PROVE  PoolGood(new, roster)
BY DEF PoolGood

\* A node is added, or replaced, and is enabled.
LEMMA PoolAdd ==
    ASSUME NEW map, NEW roster, PoolGood(map, roster),
           NEW a \in Addr, NEW n, GoodNode(n), n.enabled,
           NEW m, m = [x \in DOMAIN map \cup {a} |-> IF x = a THEN n ELSE map[x]],
           NEW new \in Seq(Addr), Entries(new) = Entries(roster) \cup {a}
    PROVE  PoolGood(m, new)
<1>1. /\ DOMAIN m = DOMAIN map \cup {a}
      /\ m = [x \in DOMAIN m |-> m[x]]
      /\ m[a] = n
      /\ \A x \in DOMAIN map : x # a => m[x] = map[x]
  OBVIOUS
<1> QED
  BY <1>1 DEF PoolGood

\* A node is taken out.
LEMMA PoolRemove ==
    ASSUME NEW map, NEW roster, PoolGood(map, roster), NEW a,
           NEW new \in Seq(Addr), Entries(new) = Entries(roster) \ {a}
    PROVE  PoolGood([x \in DOMAIN map \ {a} |-> map[x]], new)
BY DEF PoolGood

-----------------------------------------------------------------------------
(* Every method preserves the invariant. *)

LEMMA LBInitGood == LBInit => LBInv
<1> SUFFICES ASSUME NEW list \in InitialLists,
                    nodes = [a \in Entries(list) |-> NewNode],
                    enabled_nodes = list,
                    round_robin_index = 0
             PROVE  LBInv
  BY DEF LBInit
<1>1. list \in Seq(Addr) /\ Entries(list) \subseteq Addr
  BY ListAssumption, ElementOfSeq DEF Entries
<1>2. PoolGood(nodes, enabled_nodes)
  BY <1>1, NewNodeGood DEF PoolGood
<1> QED
  BY <1>2, LBInvIsPoolGood

\* The index stays a position that the next call can reduce.
LEMMA NextNodeKeeps ==
    ASSUME LBInv, NEW r, next_node(r)
    PROVE  LBInv'
<1>1. /\ UNCHANGED <<nodes, enabled_nodes>>
      /\ PoolGood(nodes, enabled_nodes)
      /\ round_robin_index \in Nat
      /\ Len(enabled_nodes) \in Nat
      /\ enabled_nodes # << >> => Len(enabled_nodes) > 0
  BY LBInvIsPoolGood, EmptySeq, LenProperties DEF next_node, PoolGood
<1>2. CASE Selectable = {} /\ round_robin_index' = IF enabled_nodes = << >>
                                                   THEN round_robin_index
                                                   ELSE round_robin_index % Len(enabled_nodes)
  BY <1>1, <1>2, LBInvIsPoolGoodPrimed
<1>3. ASSUME NEW k \in Selectable,
             round_robin_index' = (round_robin_index + k + 1) % Len(enabled_nodes)
      PROVE  LBInv'
  BY <1>1, <1>3, LBInvIsPoolGoodPrimed DEF Selectable
<1> QED
  BY <1>2, <1>3 DEF next_node

LEMMA DisableKeeps ==
    ASSUME LBInv, NEW a \in Addr, disable_node(a)
    PROVE  LBInv'
<1> DEFINE n == Disabled(nodes[a], "Manual")
<1>1. /\ PoolGood(nodes, enabled_nodes)
      /\ round_robin_index \in Nat
      /\ a \in DOMAIN nodes
      /\ enabled_nodes \in Seq(Addr)
      /\ GoodNode(nodes[a])
  BY LBInvIsPoolGood DEF disable_node, PoolGood
<1>2. GoodNode(n) /\ ~n.enabled
  BY <1>1, DisabledGood
<1>3. nodes' = [nodes EXCEPT ![a] = n] /\ UNCHANGED round_robin_index
  BY DEF disable_node, SetNode
<1>4. /\ enabled_nodes' \in Seq(Addr)
      /\ Entries(enabled_nodes') = Entries(enabled_nodes) \ {a}
  BY <1>1, RetainLemma DEF disable_node
<1> HIDE DEF n
<1>5. PoolGood(nodes', enabled_nodes')
  BY <1>1, <1>2, <1>3, <1>4, PoolReplace
<1> QED
  BY <1>1, <1>3, <1>5, LBInvIsPoolGoodPrimed

LEMMA EnableKeeps ==
    ASSUME LBInv, NEW a \in Addr, enable_node(a)
    PROVE  LBInv'
<1> DEFINE n == Enabled(nodes[a])
<1>1. /\ PoolGood(nodes, enabled_nodes)
      /\ round_robin_index \in Nat
      /\ a \in DOMAIN nodes
      /\ enabled_nodes \in Seq(Addr)
      /\ GoodNode(nodes[a])
  BY LBInvIsPoolGood DEF enable_node, PoolGood
<1>2. GoodNode(n) /\ n.enabled
  BY <1>1, EnabledGood
<1>3. nodes' = [nodes EXCEPT ![a] = n] /\ UNCHANGED round_robin_index
  BY DEF enable_node, SetNode
<1>4. /\ enabled_nodes' \in Seq(Addr)
      /\ Entries(enabled_nodes') = Entries(enabled_nodes) \cup {a}
  BY <1>1, PushLemma DEF enable_node
<1> HIDE DEF n
<1>5. PoolGood(nodes', enabled_nodes')
  BY <1>1, <1>2, <1>3, <1>4, PoolReplace
<1> QED
  BY <1>1, <1>3, <1>5, LBInvIsPoolGoodPrimed

LEMMA AddKeeps ==
    ASSUME LBInv, NEW a \in Addr, add_node(a)
    PROVE  LBInv'
BY LBInvIsPoolGood, LBInvIsPoolGoodPrimed, AppendLemma, NewNodeGood, PoolAdd
   DEF add_node, PoolGood

LEMMA RemoveKeeps ==
    ASSUME LBInv, NEW a \in Addr, remove_node(a)
    PROVE  LBInv'
BY LBInvIsPoolGood, LBInvIsPoolGoodPrimed, RetainLemma, PoolRemove
   DEF remove_node, PoolGood

\* register_node: add_node and enable_node in one write-lock section.
LEMMA RegisterKeeps ==
    ASSUME LBInv, NEW a \in Addr, register_node(a)
    PROVE  LBInv'
<1>0. PICK n : n = Enabled(IF a \in DOMAIN nodes THEN nodes[a] ELSE NewNode)
  OBVIOUS
<1>1. /\ PoolGood(nodes, enabled_nodes)
      /\ round_robin_index \in Nat
      /\ enabled_nodes \in Seq(Addr)
      /\ \A x \in DOMAIN nodes : GoodNode(nodes[x])
  BY LBInvIsPoolGood DEF PoolGood
<1>2. GoodNode(n) /\ n.enabled
  BY <1>0, <1>1, NewNodeGood, EnabledGood
<1>3. /\ nodes' = [x \in DOMAIN nodes \cup {a} |-> IF x = a THEN n ELSE nodes[x]]
      /\ UNCHANGED round_robin_index
  BY <1>0 DEF register_node
<1>4. /\ enabled_nodes' \in Seq(Addr)
      /\ Entries(enabled_nodes') = Entries(enabled_nodes) \cup {a}
  BY <1>1, PushLemma DEF register_node
<1>5. PoolGood(nodes', enabled_nodes')
  <2>1. DOMAIN nodes \subseteq Addr
        /\ Entries(enabled_nodes) = {x \in DOMAIN nodes : nodes[x].enabled}
    BY <1>1 DEF PoolGood
  <2>2. /\ DOMAIN nodes' = DOMAIN nodes \cup {a}
        /\ nodes' = [x \in DOMAIN nodes' |-> nodes'[x]]
        /\ nodes'[a] = n
        /\ \A x \in DOMAIN nodes : x # a => nodes'[x] = nodes[x]
    BY <1>3
  <2>3. Entries(enabled_nodes') = {x \in DOMAIN nodes' : nodes'[x].enabled}
    BY <1>2, <1>4, <2>1, <2>2
  <2> QED
    BY <1>1, <1>2, <1>4, <2>1, <2>2, <2>3 DEF PoolGood
<1> QED
  BY <1>1, <1>3, <1>5, LBInvIsPoolGoodPrimed

LEMMA TimeoutsKeep ==
    ASSUME LBInv, check_circuit_timeouts
    PROVE  LBInv'
<1>1. PoolGood(nodes, enabled_nodes) /\ round_robin_index \in Nat
  BY LBInvIsPoolGood
<1>2. /\ DOMAIN nodes' = DOMAIN nodes
      /\ nodes' = [a \in DOMAIN nodes' |-> nodes'[a]]
      /\ UNCHANGED <<enabled_nodes, round_robin_index>>
  BY DEF check_circuit_timeouts
<1>3. \A a \in DOMAIN nodes : GoodNode(nodes'[a]) /\ nodes'[a].enabled = nodes[a].enabled
  BY <1>1, HalfOpenGood DEF check_circuit_timeouts, PoolGood
<1>4. PoolGood(nodes', enabled_nodes)
  BY <1>1, <1>2, <1>3, PoolRewrite
<1> QED
  BY <1>1, <1>2, <1>4, LBInvIsPoolGoodPrimed

LEMMA TickKeeps ==
    ASSUME LBInv, Tick
    PROVE  LBInv'
<1>1. PoolGood(nodes, enabled_nodes) /\ round_robin_index \in Nat
  BY LBInvIsPoolGood
<1>2. /\ DOMAIN nodes' = DOMAIN nodes
      /\ nodes' = [a \in DOMAIN nodes' |-> nodes'[a]]
      /\ UNCHANGED <<enabled_nodes, round_robin_index>>
  BY DEF Tick
<1>3. \A a \in DOMAIN nodes : GoodNode(nodes'[a]) /\ nodes'[a].enabled = nodes[a].enabled
  BY <1>1, AgedGood DEF Tick, PoolGood
<1>4. PoolGood(nodes', enabled_nodes)
  BY <1>1, <1>2, <1>3, PoolRewrite
<1> QED
  BY <1>1, <1>2, <1>4, LBInvIsPoolGoodPrimed

LEMMA HealthUpdateKeeps ==
    ASSUME LBInv, NEW a, NEW healthy \in BOOLEAN,
           NEW should_enable \in BOOLEAN, NEW should_disable \in BOOLEAN,
           HealthUpdate(a, healthy, should_enable, should_disable)
    PROVE  LBInv'
<1> DEFINE told     == AfterStatus(nodes[a], healthy)
           enables  == should_enable /\ auto_enable_node(told)
           on       == IF enables THEN Enabled(told) ELSE told
           disables == should_disable /\ auto_disable_node(on)
<1>1. CASE a \notin DOMAIN nodes
  BY <1>1 DEF HealthUpdate, lbVars, LBInv, LBTypeOK, RosterCoherent, CircuitCoherent
<1>2. CASE a \in DOMAIN nodes
  <2>1. PoolGood(nodes, enabled_nodes) /\ round_robin_index' \in Nat
    BY <1>2, LBInvIsPoolGood DEF HealthUpdate
  <2>2. GoodNode(nodes[a]) /\ a \in Addr /\ enabled_nodes \in Seq(Addr)
    BY <1>2, <2>1 DEF PoolGood
  <2>3. GoodNode(told) /\ told.enabled = nodes[a].enabled
    BY <2>2, AfterStatusGood
  <2>4. /\ GoodNode(on)
        /\ enables => on.enabled
        /\ ~enables => on.enabled = nodes[a].enabled
    BY <2>3, EnabledGood
  <2>5. /\ nodes' = [nodes EXCEPT ![a] = IF disables THEN Disabled(on, "HealthCheck")
                                         ELSE on]
        /\ enabled_nodes' = IF disables THEN Retain(enabled_nodes, a)
                            ELSE IF enables THEN PushIfAbsent(enabled_nodes, a)
                            ELSE enabled_nodes
    BY <1>2 DEF HealthUpdate, SetNode
  <2> HIDE DEF on, enables, disables
  <2>6. CASE disables
    <3>1. GoodNode(Disabled(on, "HealthCheck")) /\ ~Disabled(on, "HealthCheck").enabled
      BY <2>4, DisabledGood
    <3>2. /\ enabled_nodes' \in Seq(Addr)
          /\ Entries(enabled_nodes') = Entries(enabled_nodes) \ {a}
      BY <2>2, <2>5, <2>6, RetainLemma
    <3>3. PoolGood(nodes', enabled_nodes')
      BY <1>2, <2>1, <2>5, <2>6, <3>1, <3>2, PoolReplace
    <3> QED
      BY <2>1, <3>3, LBInvIsPoolGoodPrimed
  <2>7. CASE ~disables
    <3>1. nodes' = [nodes EXCEPT ![a] = on]
      BY <2>5, <2>7
    <3>2. Entries(enabled_nodes) = {x \in DOMAIN nodes : nodes[x].enabled}
      BY <2>1 DEF PoolGood
    <3>3. /\ enabled_nodes' \in Seq(Addr)
          /\ on.enabled => Entries(enabled_nodes') = Entries(enabled_nodes) \cup {a}
          /\ ~on.enabled => Entries(enabled_nodes') = Entries(enabled_nodes) \ {a}
      BY <1>2, <2>2, <2>4, <2>5, <2>7, <3>2, PushLemma
    <3>4. PoolGood(nodes', enabled_nodes')
      BY <1>2, <2>1, <2>4, <3>1, <3>3, PoolReplace
    <3> QED
      BY <2>1, <3>4, LBInvIsPoolGoodPrimed
  <2> QED
    BY <2>6, <2>7
<1> QED
  BY <1>1, <1>2

-----------------------------------------------------------------------------
(* The walk of next_node. *)

\* Quotient and remainder of an index by the roster's length.
LEMMA DivMod ==
    ASSUME NEW r \in Nat, NEW L \in Nat \ {0}
    PROVE  \E q \in Nat, m \in 0..(L - 1) : m = r % L /\ r = L * q + m
<1>1. PICK q : q = r \div L
  OBVIOUS
<1>2. PICK m : m = r % L
  OBVIOUS
<1>3. r = L * q + m
  BY <1>1, <1>2
<1>4. q \in Int /\ m \in 0..(L - 1)
  BY <1>1, <1>2
<1>5. q >= 0
  <2> SUFFICES ASSUME q <= -1 PROVE FALSE
    BY <1>4
  <2>1. L * q <= -L
    BY <1>4
  <2> QED
    BY <1>3, <1>4, <2>1
<1>6. q \in Nat
  BY <1>4, <1>5
<1> QED
  BY <1>2, <1>3, <1>4, <1>6, Zenon

\* The remainder is the only one.
LEMMA ModUnique ==
    ASSUME NEW q \in Nat, NEW L \in Nat \ {0}, NEW j \in 0..(L - 1)
    PROVE  (L * q + j) % L = j
<1>1. PICK x \in Nat : x = L * q + j 
  OBVIOUS
<1>2. PICK p \in Nat, m \in 0..(L - 1) : m = x % L /\ x = L * p + m
  BY DivMod
<1>4. L * q + j = L * p + m
  BY <1>1, <1>2
<1>5. p = q
  <2>1. CASE p > q
    <3>1. L * p >= L * q + L  
      <4>1. PICK d \in Nat : p = q + 1 + d
        BY <2>1
      <4>2. L * p = L * q + L + L * d
        BY <4>1
      <4>3. L * d \in Nat
        OBVIOUS
      <4> QED
        BY <4>2, <4>3
    <3> QED
      BY <3>1, <1>4
  <2>2. CASE p < q
    <3>1. L * q >= L * p + L  
      <4>1. PICK d \in Nat : q = p + 1 + d
        BY <2>2
      <4>2. L * q = L * p + L + L * d
        BY <4>1
      <4>3. L * d \in Nat
        OBVIOUS
      <4> QED
        BY <4>2, <4>3
    <3> QED
      BY <3>1, <1>4
  <2> QED
    BY <2>1, <2>2
<1>6. m = j
  BY <1>4, <1>5
<1> QED
  BY <1>1, <1>2, <1>6, Zenon

\* Counting on from any index reaches every position within one round.
LEMMA ModCover ==
    ASSUME NEW r \in Nat, NEW L \in Nat \ {0}, NEW j \in 0..(L - 1)
    PROVE  \E k \in 0..(L - 1) : (r + k) % L = j
<1>1. PICK q \in Nat, m \in 0..(L - 1) : m = r % L /\ r = L * q + m
  BY DivMod
<1>3. r = L * q + m
  BY <1>1
<1>4. CASE j >= m
  <2>1. r + (j - m) = L * q + j /\ j - m \in 0..(L-1)
    BY <1>3, <1>4
  <2>2. (r + (j - m)) % L = j
    BY <2>1, ModUnique
  <2> QED
    BY <2>1, <2>2
<1>5. CASE j < m
  <2>1. j + L - m \in 0..(L-1)
    BY <1>5
  <2>2. r + (j + L - m) = L * (q + 1) + j 
    BY <1>3
  <2>3. q + 1 \in Nat
    OBVIOUS
  <2>4. (r + (j + L - m)) % L = j
    BY <2>2, <2>3, ModUnique
  <2> QED
    BY <2>1, <2>4
<1> QED
  BY <1>4, <1>5

\* The walk visits roster entries only, and each of them.
LEMMA VisitLemma ==
    ASSUME enabled_nodes \in Seq(Addr), round_robin_index \in Nat
    PROVE  {Visit(k) : k \in 0..(Len(enabled_nodes) - 1)} = Entries(enabled_nodes)
<1> DEFINE L == Len(enabled_nodes)
<1>1. L \in Nat /\ DOMAIN enabled_nodes = 1..L
  BY LenProperties
<1>2. ASSUME NEW k \in 0..(L - 1)
      PROVE  Visit(k) \in Entries(enabled_nodes)
  <2>1. L \in Nat \ {0} /\ round_robin_index + k \in Nat
    BY <1>1, <1>2
  <2>2. PICK m \in 0..(L - 1) : m = (round_robin_index + k) % L
    <3> HIDE DEF L
    <3> QED
      BY <2>1, DivMod
  <2>3. m + 1 \in 1..L /\ Visit(k) = enabled_nodes[m + 1]
    BY <1>1, <2>2 DEF Visit
  <2> QED
    BY <1>1, <2>3 DEF Entries
<1>3. ASSUME NEW i \in 1..L
      PROVE  \E k \in 0..(L - 1) : Visit(k) = enabled_nodes[i]
  <2>1. L \in Nat \ {0} /\ i - 1 \in 0..(L - 1) /\ i - 1 + 1 = i
    BY <1>1, <1>3
  <2>2. PICK k \in 0..(L - 1) : (round_robin_index + k) % L = i - 1
    <3> HIDE DEF L
    <3> QED
      BY <2>1, ModCover
  <2> QED
    BY <2>1, <2>2 DEF Visit
<1> HIDE DEF L
<1>4. Entries(enabled_nodes) \subseteq {Visit(k) : k \in 0..(L - 1)}
  BY <1>1, <1>3 DEF Entries
<1>5. {Visit(k) : k \in 0..(L - 1)} \subseteq Entries(enabled_nodes)
  BY <1>2
<1> QED
  BY <1>4, <1>5 DEF L

\* next_node finds a routable node whenever there is one, and no other node.
LEMMA WalkLemma == LBInv => WalkFindsRoutable
<1> SUFFICES ASSUME LBInv
             PROVE  {Visit(k) : k \in Selectable} = {a \in Addr : Routable(a)}
  BY DEF WalkFindsRoutable
<1>1. /\ DOMAIN nodes \subseteq Addr
      /\ Entries(enabled_nodes) = {a \in DOMAIN nodes : nodes[a].enabled}
      /\ {Visit(k) : k \in 0..(Len(enabled_nodes) - 1)} = Entries(enabled_nodes)
  BY VisitLemma DEF LBInv, LBTypeOK, RosterCoherent
<1>2. {Visit(k) : k \in Selectable} =
          {a \in Entries(enabled_nodes) :
              a \in DOMAIN nodes /\ nodes[a].circuit_state # "Open"}
  BY <1>1, Zenon DEF Selectable
<1> QED
  BY <1>1, <1>2 DEF Routable

-----------------------------------------------------------------------------
(***************************************************************************)
(* next_node is fair for any number of nodes: the argument is a turn that  *)
(* comes closer with every pick of another node.                           *)
(***************************************************************************)

\* a is due d rounds of the loop from here, and has not waited so often that
\* this would be too late.
Due(a, d) ==
    /\ d \in 0..(Len(enabled_nodes) - 1)
    /\ Visit(d) = a
    /\ waited[a] + d < Len(enabled_nodes)

Turns == \A a \in Entries(enabled_nodes) : \E d \in Nat : Due(a, d)

RRInv ==
    /\ LBInv
    /\ waited \in [Addr -> Nat]
    /\ Turns

-----------------------------------------------------------------------------
(* The index, modulo the length of the roster *)

LEMMA ModAdd ==
    ASSUME NEW x \in Nat, NEW y \in Nat, NEW L \in Nat \ {0}
    PROVE  ((x % L) + y) % L = (x + y) % L
<1>1. PICK q \in Nat, m \in 0..(L - 1) : m = x % L /\ x = L * q + m
  BY DivMod
<1>2. m + y \in Nat
  OBVIOUS
<1>3. PICK p \in Nat, n \in 0..(L - 1) : n = (m + y) % L /\ m + y = L * p + n
  BY <1>2, DivMod
<1>4. x + y = L * (q + p) + n
  BY <1>1, <1>3
<1>5. q + p \in Nat
  OBVIOUS
<1>6. (L * (q + p) + n) % L = n
  BY <1>5, ModUnique
<1> QED
  BY <1>1, <1>3, <1>4, <1>6

\* After a pick in round k, round d of the next call looks where round
\* k + 1 + d of this one would have looked.
LEMMA VisitAfterPick ==
    ASSUME round_robin_index \in Nat, enabled_nodes \in Seq(Addr),
           enabled_nodes' = enabled_nodes,
           Len(enabled_nodes) # 0,
           NEW k \in Nat, NEW d \in Nat,
           round_robin_index' = (round_robin_index + k + 1) % Len(enabled_nodes)
    PROVE  Visit(d)' = Visit(k + 1 + d)
<1> DEFINE L == Len(enabled_nodes)
           x == round_robin_index + k + 1
<1>1. L \in Nat \ {0} /\ x \in Nat
  BY LenProperties
<1>2. x + d = round_robin_index + (k + 1 + d)
  OBVIOUS
<1>3. ((x % L) + d) % L = (x + d) % L
  <2> HIDE DEF L, x
  <2> QED
    BY <1>1, ModAdd
<1> QED
  BY <1>2, <1>3 DEF Visit

\* Whoever has not waited at all is due in time.
FreshAreDue ==
    \A a \in Entries(enabled_nodes) : waited[a] = 0 => \E d \in Nat : Due(a, d)

LEMMA FreshTurn == LBInv => FreshAreDue
<1> SUFFICES ASSUME LBInv, NEW a \in Entries(enabled_nodes), waited[a] = 0
             PROVE  \E d \in Nat : Due(a, d)
  BY DEF FreshAreDue
<1>1. PICK d \in 0..(Len(enabled_nodes) - 1) : Visit(d) = a
  BY VisitLemma DEF LBInv, LBTypeOK
<1>2. Len(enabled_nodes) \in Nat
  BY LenProperties DEF LBInv, LBTypeOK
<1> QED
  BY <1>1, <1>2 DEF Due

LEMMA FreshTurnPrimed == (LBInv => FreshAreDue)'
BY FreshTurn, PTL

-----------------------------------------------------------------------------
(* A routable node is in the roster, and the walk can stop there. *)

LEMMA RoutableLemma ==
    ASSUME LBInv, NEW a \in Addr, Routable(a)
    PROVE  /\ a \in Entries(enabled_nodes)
           /\ \A d \in 0..(Len(enabled_nodes) - 1) : Visit(d) = a => d \in Selectable
BY DEF LBInv, RosterCoherent, Routable, Selectable

LEMMA PickKeeps ==
    ASSUME RRInv, Pick
    PROVE  RRInv'
<1>1. PICK r \in Addr \cup {NoNode} :
         /\ next_node(r)
         /\ waited' = [a \in Addr |->
                          IF Routable(a) /\ a # r THEN waited[a] + 1 ELSE 0]
  BY DEF Pick
<1>2. LBInv'
  BY <1>1, NextNodeKeeps DEF RRInv
<1>3. waited' \in [Addr -> Nat]
  BY <1>1 DEF RRInv
<1>4. enabled_nodes' = enabled_nodes /\ Entries(enabled_nodes) \subseteq Addr
  BY <1>1 DEF next_node, RRInv, LBInv, LBTypeOK, Entries
<1>5. ASSUME NEW a \in Entries(enabled_nodes), waited'[a] = 0
      PROVE  \E d \in Nat : Due(a, d)'
  BY <1>2, <1>4, <1>5, FreshTurnPrimed DEF FreshAreDue
<1>6. ASSUME NEW a \in Entries(enabled_nodes), Routable(a), a # r
      PROVE  \E d \in Nat : Due(a, d)'
  <2>1. PICK d \in Nat : Due(a, d)
    BY DEF RRInv, Turns
  <2>2. /\ d \in 0..(Len(enabled_nodes) - 1) /\ Visit(d) = a
        /\ waited[a] + d < Len(enabled_nodes)
    BY <2>1 DEF Due
  <2>3. a \in Addr /\ d \in Selectable
    BY <1>4, <1>6, <2>2, RoutableLemma DEF RRInv
  <2>4. PICK k \in Selectable :
           /\ \A j \in Selectable : k <= j
           /\ r = Visit(k)
           /\ round_robin_index' = (round_robin_index + k + 1) % Len(enabled_nodes)
    BY <1>1, <2>3 DEF next_node
  <2>5. k \in 0..(Len(enabled_nodes) - 1) /\ k <= d /\ k # d
    BY <1>6, <2>2, <2>3, <2>4 DEF Selectable
  <2>6. Len(enabled_nodes) \in Nat /\ Len(enabled_nodes) # 0
    BY <2>2, LenProperties DEF RRInv, LBInv, LBTypeOK
  <2>7. PICK e \in Nat : e = d - (k + 1) /\ k + 1 + e = d /\ e \in 0..(Len(enabled_nodes) - 1)
    BY <2>2, <2>5, <2>6
  <2>8. Visit(e)' = a
    <3>1. round_robin_index \in Nat /\ enabled_nodes \in Seq(Addr) /\ k \in Nat
      BY <2>5 DEF RRInv, LBInv, LBTypeOK
    <3>2. Visit(e)' = Visit(k + 1 + e)
      BY <1>4, <2>4, <2>6, <3>1, VisitAfterPick
    <3> QED
      BY <2>2, <2>7, <3>2
  <2>9. waited'[a] = waited[a] + 1 /\ waited[a] \in Nat
    BY <1>1, <1>6, <2>3 DEF RRInv
  <2>10. waited'[a] + e < Len(enabled_nodes)
    <3>1. ASSUME NEW w \in Nat, NEW l \in Nat, NEW i \in Nat, NEW j \in Nat, NEW m \in Nat,
                 i + 1 + j = m, w + m < l
          PROVE  w + 1 + j < l
      BY <3>1
    <3>2. k \in Nat
      BY <2>5
    <3>3. waited[a] + 1 + e < Len(enabled_nodes)
      BY <2>2, <2>6, <2>7, <2>9, <3>1, <3>2
    <3> QED
      BY <2>9, <3>3
  <2> QED
    BY <1>4, <2>7, <2>8, <2>10 DEF Due
<1>7. Turns'
  <2>1. \A a \in Entries(enabled_nodes) : (Routable(a) /\ a # r) \/ waited'[a] = 0
    BY <1>1, <1>4
  <2> QED
    BY <1>4, <1>5, <1>6, <2>1 DEF Turns
<1> QED
  BY <1>2, <1>3, <1>7 DEF RRInv

LEMMA OtherMethodKeeps ==
    ASSUME LBInv, OtherMethod
    PROVE  LBInv' /\ round_robin_index' = round_robin_index
<1>1. CASE check_circuit_timeouts
  BY <1>1, TimeoutsKeep DEF check_circuit_timeouts
<1>2. CASE Tick
  BY <1>2, TickKeeps DEF Tick
<1>3. ASSUME NEW a \in Addr, add_node(a)
      PROVE  LBInv' /\ round_robin_index' = round_robin_index
  BY <1>3, AddKeeps DEF add_node
<1>4. ASSUME NEW a \in Addr, remove_node(a)
      PROVE  LBInv' /\ round_robin_index' = round_robin_index
  BY <1>4, RemoveKeeps DEF remove_node
<1>5. ASSUME NEW a \in Addr, disable_node(a)
      PROVE  LBInv' /\ round_robin_index' = round_robin_index
  BY <1>5, DisableKeeps DEF disable_node
<1>6. ASSUME NEW a \in Addr, enable_node(a)
      PROVE  LBInv' /\ round_robin_index' = round_robin_index
  BY <1>6, EnableKeeps DEF enable_node
<1>7. ASSUME NEW a \in Addr, NEW healthy \in BOOLEAN,
             NEW enable \in BOOLEAN, NEW disable \in BOOLEAN,
             HealthUpdate(a, healthy, enable, disable)
      PROVE  LBInv' /\ round_robin_index' = round_robin_index
  BY <1>7, HealthUpdateKeeps DEF HealthUpdate, lbVars
<1> QED
  BY <1>1, <1>2, <1>3, <1>4, <1>5, <1>6, <1>7 DEF OtherMethod

LEMMA ChurnKeeps ==
    ASSUME RRInv, Churn
    PROVE  RRInv'
<1>1. LBInv' /\ round_robin_index' = round_robin_index
  BY OtherMethodKeeps DEF RRInv, Churn
<1>2. waited' = [a \in Addr |->
                    IF enabled_nodes' = enabled_nodes /\ Routable(a)'
                    THEN waited[a] ELSE 0]
  BY DEF Churn
<1>3. waited' \in [Addr -> Nat]
  BY <1>2 DEF RRInv
<1>4. Entries(enabled_nodes') \subseteq Addr
  BY <1>1 DEF LBInv, LBTypeOK, Entries
<1>5. ASSUME NEW a \in Entries(enabled_nodes')
      PROVE  \E d \in Nat : Due(a, d)'
  <2>1. CASE waited'[a] = 0
    BY <1>1, <2>1, FreshTurnPrimed DEF FreshAreDue
  <2>2. CASE enabled_nodes' = enabled_nodes /\ waited'[a] = waited[a]
    <3>1. PICK d \in Nat : Due(a, d)
      BY <2>2 DEF RRInv, Turns
    <3>2. Due(a, d)'
      BY <1>1, <2>2, <3>1 DEF Due, Visit
    <3> QED
      BY <3>2
  <2> QED
    BY <1>2, <1>4, <2>1, <2>2
<1>6. Turns'
  BY <1>5 DEF Turns
<1> QED
  BY <1>1, <1>3, <1>6 DEF RRInv

-----------------------------------------------------------------------------
LEMMA RRInitHolds == RRInit => RRInv
<1> SUFFICES ASSUME RRInit PROVE RRInv
  OBVIOUS
<1>1. LBInv
  BY LBInitGood DEF RRInit
<1>2. waited \in [Addr -> Nat]
  BY DEF RRInit
<1>3. Turns
  <2>1. Entries(enabled_nodes) \subseteq Addr
    BY <1>1 DEF LBInv, LBTypeOK, Entries
  <2> QED
    BY <1>1, <2>1, FreshTurn DEF FreshAreDue, RRInit, Turns
<1> QED
  BY <1>1, <1>2, <1>3 DEF RRInv

LEMMA RRNextKeeps == RRInv /\ [RRNext]_rrVars => RRInv'
<1> SUFFICES ASSUME RRInv, [RRNext]_rrVars PROVE RRInv'
  OBVIOUS
<1>1. CASE Pick
  BY <1>1, PickKeeps
<1>2. CASE Churn
  BY <1>2, ChurnKeeps
<1>3. CASE UNCHANGED rrVars
  BY <1>3 DEF rrVars, RRInv, LBInv, LBTypeOK, RosterCoherent, CircuitCoherent, Turns, Due, Visit
<1> QED
  BY <1>1, <1>2, <1>3 DEF RRNext

LEMMA AlwaysRR == RRSpec => []RRInv
BY RRInitHolds, RRNextKeeps, PTL DEF RRSpec

-----------------------------------------------------------------------------
(* What holds for any number of nodes and any configuration *)

(***************************************************************************)
(* The pool has its type, and the history counts picks.                    *)
(***************************************************************************)
THEOREM RoundRobinTyped == RRSpec => []RRTypeOK
<1>1. RRInv => RRTypeOK
  BY DEF RRInv, LBInv, RRTypeOK
<1> QED
  BY <1>1, AlwaysRR, PTL

(***************************************************************************)
(* next_node never passes over a routable node as often as the roster has  *)
(* entries, whatever circuits do and wherever the index was left by a      *)
(* roster that shrank.                                                     *)
(***************************************************************************)
THEOREM NobodyBypassed == RRSpec => []BoundedBypass
<1>1. RRInv => BoundedBypass
  <2> SUFFICES ASSUME RRInv, NEW a \in Addr, Routable(a)
               PROVE  waited[a] < Len(enabled_nodes)
    BY DEF BoundedBypass
  <2>1. PICK d \in Nat : Due(a, d)
    BY RoutableLemma DEF RRInv, Turns
  <2>2. waited[a] \in Nat /\ Len(enabled_nodes) \in Nat
    BY LenProperties DEF RRInv, LBInv, LBTypeOK
  <2> QED
    BY <2>1, <2>2 DEF Due
<1> QED
  BY <1>1, AlwaysRR, PTL

=============================================================================
