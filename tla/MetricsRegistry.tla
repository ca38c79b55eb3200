--------------------------- MODULE MetricsRegistry ---------------------------
(***************************************************************************)
(* The metrics shared by every request of a server:                        *)
(* madrpc-metrics/src/registry.rs, as the collectors of collector.rs call  *)
(* it.                                                                     *)
(*                                                                         *)
(* A thread recording a call takes several steps: atomic counters, a       *)
(* cleanup pass every CLEANUP_INTERVAL operations, a lookup under the      *)
(* write lock, and counters of the entry it then holds by Arc, outside any *)
(* lock.  Another thread's cleanup may evict that entry in between: what   *)
(* is written to it afterwards is in no table any more.  A critical        *)
(* section is one step, and so is a counter with the stamp that follows    *)
(* it: only the cleanup reads the stamp, and only a snapshot the counter.  *)
(* To issue a stamp and to store it is one step too, so that the stamps of *)
(* an entry only rise here; in the code a thread delayed between the two   *)
(* may store an older stamp over a newer one.  (No two stamps issued are   *)
(* equal either way.)                                                      *)
(***************************************************************************)
EXTENDS Integers, FiniteSets

CONSTANTS
    Thread,             \* threads recording calls; each is reused
    Method,             \* method names
    Peer,               \* node addresses (orchestrator only)
    max_methods, max_nodes, method_ttl, node_ttl,       \* MetricsConfig
    CLEANUP_INTERVAL,
    MaxOps,             \* bound of the model: operations started
    MaxClock            \* bound of the model: the clock stops there

ASSUME MetricsAssumption ==
    /\ IsFiniteSet(Thread)
    /\ Method # {}
    /\ max_methods \in Nat
    /\ max_nodes \in Nat
    /\ method_ttl \in Nat
    /\ node_ttl \in Nat
    /\ CLEANUP_INTERVAL \in Nat \ {0}
    /\ MaxOps \in Nat
    /\ MaxClock \in Nat

VARIABLES
    clock,              \* SystemTime::now(), in milliseconds
    last_timestamp,     \* LAST_TIMESTAMP
    totals,             \* total_, successful_ and failed_requests
    methods,            \* HashMap name -> MethodStats
    nodes,              \* HashMap address -> NodeStats
    cleanup_counter,
    threads             \* where each thread is, and what it holds

mrVars == <<clock, last_timestamp, totals, methods, nodes, cleanup_counter, threads>>

-----------------------------------------------------------------------------
(* State *)

MethodStats ==
    [call_count : Nat, success_count : Nat, failure_count : Nat,
     sample_count : Nat, last_access : Nat]

\* used is history: the clock when the entry was created or last used.
NodeStats == [request_count : Nat, last_access : Nat, used : Nat]

\* Mutant: two stamps in the same millisecond are equal.
StampOfTheClock ==
    IF clock >= last_timestamp THEN clock ELSE last_timestamp

\* get_monotonic_timestamp: the stamp it issues and stores.
Stamp == IF clock >= last_timestamp + 1 THEN clock ELSE last_timestamp + 1

NewMethodStats ==
    [call_count |-> 0, success_count |-> 0, failure_count |-> 0,
     sample_count |-> 0, last_access |-> Stamp]

NewNodeStats == [request_count |-> 0, last_access |-> 0, used |-> clock]

\* op is "method" or "node"; held tells whether the entry the thread holds is
\* still the one in the table.
Idle == [pc |-> "idle", op |-> "method", name |-> CHOOSE m \in Method : TRUE,
         success |-> TRUE, now |-> 0, held |-> FALSE]

MRInit ==
    /\ clock \in 0..MaxClock
    /\ last_timestamp = 0
    /\ totals = [total |-> 0, successful |-> 0, failed |-> 0]
    /\ methods = << >>
    /\ nodes = << >>
    /\ cleanup_counter = 0
    /\ threads = [t \in Thread |-> Idle]

Goto(t, pc) == threads' = [threads EXCEPT ![t].pc = pc]

\* Mutant: the entry is found by its name at each counter, not held from the
\* lookup on.
StoreByName(table, t, stats) ==
    IF threads[t].name \in DOMAIN table
    THEN [table EXCEPT ![threads[t].name] = stats]
    ELSE table

\* The table with the entry thread t holds replaced by stats.  If that entry has
\* been evicted, nothing in the table changes.
Store(table, t, stats) ==
    IF threads[t].held
    THEN [table EXCEPT ![threads[t].name] = stats]
    ELSE table

-----------------------------------------------------------------------------
(* record_method_call and record_node_request *)

\* The global counters: increment_total, then increment_success or
\* increment_failure, which no other step reads.
StartCall(t, m, success) ==
    /\ threads[t].pc = "idle"
    /\ totals' = [total      |-> totals.total + 1,
                  successful |-> totals.successful + (IF success THEN 1 ELSE 0),
                  failed     |-> totals.failed + (IF success THEN 0 ELSE 1)]
    /\ threads' = [threads EXCEPT ![t] =
          [Idle EXCEPT !.pc = "maybe_cleanup", !.name = m, !.success = success]]
    /\ UNCHANGED <<clock, last_timestamp, methods, nodes, cleanup_counter>>

StartNodeRequest(t, n) ==
    /\ threads[t].pc = "idle"
    /\ threads' = [threads EXCEPT ![t] =
          [Idle EXCEPT !.pc = "maybe_cleanup", !.op = "node", !.name = n]]
    /\ UNCHANGED <<clock, last_timestamp, totals, methods, nodes, cleanup_counter>>

\* The counter, and the stamp cleanup_stale_entries starts with.
maybe_cleanup(t) ==
    /\ threads[t].pc = "maybe_cleanup"
    /\ cleanup_counter' = cleanup_counter + 1
    /\ IF cleanup_counter % CLEANUP_INTERVAL = 0
       THEN /\ threads' = [threads EXCEPT ![t].pc = "clean_methods", ![t].now = Stamp]
            /\ last_timestamp' = Stamp
       ELSE /\ Goto(t, "lookup")
            /\ UNCHANGED last_timestamp
    /\ UNCHANGED <<clock, totals, methods, nodes>>

\* retain: saturating_sub makes an entry newer than now fresh.
Fresh(table, ttl, now) ==
    {k \in DOMAIN table : now - table[k].last_access < ttl}

\* Mutant: the size limit is not enforced.
EvictNone(table, fresh, max) == {{}}

\* The LRU choices: the sort is by stamp, and entries with the same stamp come
\* in the order of the hash map.
LeastRecentlyUsed(table, fresh, max) ==
    {evicted \in SUBSET fresh :
        /\ Cardinality(evicted) = IF Cardinality(fresh) > max
                                  THEN Cardinality(fresh) - max ELSE 0
        /\ \A k \in evicted, j \in fresh \ evicted :
              table[k].last_access <= table[j].last_access}

\* Thread t goes on to pc; threads of this kind of operation lose the entries
\* that are not kept.
Orphan(t, op, keep, pc) ==
    threads' = [u \in Thread |->
        IF u = t
        THEN [threads[t] EXCEPT !.pc = pc, !.now = IF pc = "lookup" THEN 0 ELSE @]
        ELSE [threads[u] EXCEPT
                 !.held = @ /\ (threads[u].op = op => threads[u].name \in keep)]]

\* cleanup_stale_entries, under the lock of methods.
CleanMethods(t) ==
    LET fresh == Fresh(methods, method_ttl, threads[t].now)
    IN  /\ threads[t].pc = "clean_methods"
        /\ \E evicted \in LeastRecentlyUsed(methods, fresh, max_methods) :
              /\ methods' = [m \in fresh \ evicted |-> methods[m]]
              /\ Orphan(t, "method", fresh \ evicted, "clean_nodes")
        /\ UNCHANGED <<clock, last_timestamp, totals, nodes, cleanup_counter>>

\* cleanup_stale_entries, under the lock of nodes, with the same now.
CleanNodes(t) ==
    LET fresh == Fresh(nodes, node_ttl, threads[t].now)
    IN  /\ threads[t].pc = "clean_nodes"
        /\ \E evicted \in LeastRecentlyUsed(nodes, fresh, max_nodes) :
              /\ nodes' = [n \in fresh \ evicted |-> nodes[n]]
              /\ Orphan(t, "node", fresh \ evicted, "lookup")
        /\ UNCHANGED <<clock, last_timestamp, totals, methods, cleanup_counter>>

\* methods.write().entry(method).or_insert_with(MethodStats::new).clone()
LookupMethod(t) ==
    LET name == threads[t].name
    IN  /\ threads[t].pc = "lookup"
        /\ threads[t].op = "method"
        /\ threads' = [threads EXCEPT ![t].pc = "count_call", ![t].held = TRUE]
        /\ IF name \in DOMAIN methods
           THEN UNCHANGED <<methods, last_timestamp>>
           ELSE /\ methods' = [m \in DOMAIN methods \cup {name} |->
                                  IF m = name THEN NewMethodStats ELSE methods[m]]
                /\ last_timestamp' = Stamp
        /\ UNCHANGED <<clock, totals, nodes, cleanup_counter>>

\* MethodStats::increment_call
IncrementCall(t) ==
    LET stats == methods[threads[t].name]
    IN  /\ threads[t].pc = "count_call"
        /\ methods' = Store(methods, t,
              [stats EXCEPT !.call_count = @ + 1, !.last_access = Stamp])
        /\ last_timestamp' = Stamp
        /\ Goto(t, "record_latency")
        /\ UNCHANGED <<clock, totals, nodes, cleanup_counter>>

RecordLatency(t) ==
    LET stats == methods[threads[t].name]
    IN  /\ threads[t].pc = "record_latency"
        /\ methods' = Store(methods, t,
              [stats EXCEPT !.sample_count = @ + 1, !.last_access = Stamp])
        /\ last_timestamp' = Stamp
        /\ Goto(t, "count_outcome")
        /\ UNCHANGED <<clock, totals, nodes, cleanup_counter>>

\* MethodStats::increment_success or increment_failure, and the return.
IncrementOutcome(t) ==
    LET stats == methods[threads[t].name]
    IN  /\ threads[t].pc = "count_outcome"
        /\ methods' = Store(methods, t,
              IF threads[t].success
              THEN [stats EXCEPT !.success_count = @ + 1, !.last_access = Stamp]
              ELSE [stats EXCEPT !.failure_count = @ + 1, !.last_access = Stamp])
        /\ last_timestamp' = Stamp
        /\ threads' = [threads EXCEPT ![t] = Idle]
        /\ UNCHANGED <<clock, totals, nodes, cleanup_counter>>

\* Mutant: the node is entered in the table of methods.
LookupInMethods(t) ==
    LET name == threads[t].name
    IN  /\ threads[t].pc = "lookup"
        /\ threads[t].op = "node"
        /\ threads' = [threads EXCEPT ![t].pc = "idle"]
        /\ methods' = [n \in DOMAIN methods \cup {name} |->
                          IF n = name THEN NewMethodStats ELSE methods[n]]
        /\ UNCHANGED <<clock, last_timestamp, totals, nodes, cleanup_counter>>

\* nodes.write().entry(node_addr).or_insert_with(NodeStats::new).clone()
LookupNode(t) ==
    LET name == threads[t].name
    IN  /\ threads[t].pc = "lookup"
        /\ threads[t].op = "node"
        /\ threads' = [threads EXCEPT ![t].pc = "count_request", ![t].held = TRUE]
        /\ nodes' = IF name \in DOMAIN nodes
                    THEN nodes
                    ELSE [n \in DOMAIN nodes \cup {name} |->
                             IF n = name THEN NewNodeStats ELSE nodes[n]]
        /\ UNCHANGED <<clock, last_timestamp, totals, methods, cleanup_counter>>

\* NodeStats::record_request, and the return.
RecordRequest(t) ==
    LET stats == nodes[threads[t].name]
    IN  /\ threads[t].pc = "count_request"
        /\ nodes' = Store(nodes, t, [request_count |-> stats.request_count + 1,
                                     last_access |-> Stamp, used |-> clock])
        /\ last_timestamp' = Stamp
        /\ threads' = [threads EXCEPT ![t] = Idle]
        /\ UNCHANGED <<clock, totals, methods, cleanup_counter>>

-----------------------------------------------------------------------------
\* The system clock moves, also backwards when it is set.
ClockMoves ==
    /\ clock' \in 0..MaxClock \ {clock}
    /\ UNCHANGED <<last_timestamp, totals, methods, nodes, cleanup_counter, threads>>

\* Operations started so far, those that have not reached the counter included.
Starting == {t \in Thread : threads[t].pc = "maybe_cleanup"}

Started == cleanup_counter + Cardinality(Starting)

ThreadStep(t) ==
    \/ /\ Started < MaxOps
       /\ \/ \E m \in Method, success \in BOOLEAN : StartCall(t, m, success)
          \/ \E n \in Peer : StartNodeRequest(t, n)
    \/ maybe_cleanup(t) \/ CleanMethods(t) \/ CleanNodes(t)
    \/ LookupMethod(t) \/ IncrementCall(t) \/ RecordLatency(t) \/ IncrementOutcome(t)
    \/ LookupNode(t) \/ RecordRequest(t)

MRNext == ClockMoves \/ \E t \in Thread : ThreadStep(t)

MRSpec == MRInit /\ [][MRNext]_mrVars

-----------------------------------------------------------------------------
MRTypeOK ==
    /\ clock \in 0..MaxClock
    /\ last_timestamp \in Nat
    /\ totals \in [total : Nat, successful : Nat, failed : Nat]
    /\ DOMAIN methods \subseteq Method
    /\ methods \in [DOMAIN methods -> MethodStats]
    /\ DOMAIN nodes \subseteq Peer
    /\ nodes \in [DOMAIN nodes -> NodeStats]
    /\ cleanup_counter \in 0..MaxOps
    /\ threads \in [Thread ->
          [pc : {"idle", "maybe_cleanup", "clean_methods", "clean_nodes",
                 "lookup", "count_call", "record_latency", "count_outcome",
                 "count_request"},
           op : {"method", "node"}, name : Method \cup Peer,
           success : BOOLEAN, now : Nat, held : BOOLEAN]]

\* The threads at pcs that hold the entry of m which is in the table.
Holders(m, pcs) ==
    {t \in Thread : /\ threads[t].held
                    /\ threads[t].op = "method"
                    /\ threads[t].name = m
                    /\ threads[t].pc \in pcs}

(***************************************************************************)
(* The counters of a method in the table agree with each other up to the   *)
(* calls being recorded right now: every call counted has an outcome and a *)
(* latency sample, or a thread that still holds this very entry and will   *)
(* add them.  An eviction while a call is half recorded never leaves the   *)
(* other half to the entry that replaces it.                               *)
(***************************************************************************)
EntriesAddUp ==
    \A m \in DOMAIN methods :
        LET done == methods[m].success_count + methods[m].failure_count
        IN  /\ methods[m].call_count
                  = done + Cardinality(Holders(m, {"record_latency", "count_outcome"}))
            /\ methods[m].sample_count
                  = done + Cardinality(Holders(m, {"count_outcome"}))

(***************************************************************************)
(* maybe_cleanup looks at the size of the table only every                 *)
(* CLEANUP_INTERVAL operations, before the operation's own insertion, and  *)
(* a thread may be delayed in between: the table is over max_methods at    *)
(* times, by at most an interval's worth of insertions per thread.         *)
(***************************************************************************)
TableBound ==
    Cardinality(DOMAIN methods)
        <= max_methods + CLEANUP_INTERVAL * Cardinality(Thread)

(***************************************************************************)
(* "critical for correct LRU eviction" (registry.rs): no two methods in    *)
(* the table carry the same stamp and none is ahead of LAST_TIMESTAMP, so  *)
(* the order of last use is total, whatever the system clock does.         *)
(***************************************************************************)
StampsUnique ==
    \A m \in DOMAIN methods :
        /\ methods[m].last_access <= last_timestamp
        /\ \A k \in DOMAIN methods :
              methods[k].last_access = methods[m].last_access => k = m

(***************************************************************************)
(* MetricsConfig: "Nodes not receiving requests within this duration are   *)
(* eligible for cleanup".  A node that a cleanup drops as stale was not    *)
(* asked for, nor put into the table, during its time-to-live.             *)
(***************************************************************************)
StaleMeansUnused ==
    [][\A t \in Thread :
         threads[t].pc = "clean_nodes" /\ threads'[t].pc = "lookup" =>
             \A n \in DOMAIN nodes \ Fresh(nodes, node_ttl, threads[t].now) :
                 clock - nodes[n].used >= node_ttl]_mrVars

=============================================================================
