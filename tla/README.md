# MaDRPC in TLA+

MaDRPC runs JavaScript functions on a cluster. Clients send JSON-RPC requests to an
*orchestrator*, which picks a *node* by round robin and forwards the request; the node runs
the function in a fresh script context and may, from there, call back into the cluster. This
directory holds TLA+ models of the parts of MaDRPC that keep state and run concurrently, the
TLC configurations that check them on small instances, and TLAPS proofs that hold for any
number of nodes, requests, connections, threads or jobs and any configuration.

`PROJECT.json` maps every definition to the lines it models and lists runs, mutants,
findings, hazards and theorems.

## 1. Inventory

| Component | State | Operations | Concurrency and failure |
|---|---|---|---|
| Load balancer (`load_balancer.rs`) | map of nodes, roster of enabled ones, index | next, add, remove, enable, disable, auto-enable, auto-disable, health status, circuit timeouts | one `RwLock`; callers interleave between methods |
| Circuit breaker (`madrpc-orchestrator/src/node.rs`) | state, failures, opening time, half-open claim | trip, close, half-open, timeout with backoff | a claim or time left behind locks a node out |
| Health checker (`health_checker.rs`) | the round's snapshot, results, pending update | probe all, process, apply | releases the lock between snapshot, read and write |
| Orchestrator (`orchestrator.rs`) | the pool, metrics | pool operations, `register_node`, forward with retries | the pool changes between passes of a request |
| Orchestrator HTTP server and router (`http_server.rs`, `http_router.rs`) | one handler per request | rate limit, key, content type, parse, route, answer | errors are given new codes on the way out |
| Client (`client.rs`) | attempt counter | call, try, back off | responses lost after the script ran; nested under other loops |
| Node registration (`madrpc-server/src/node.rs`, `main.rs`) | attempt counter, the two processes | register, bind, die, restart | replies lost, requests outlive their sender, the pool dies with its process |
| Rate limiter (`rate_limit.rs`) | bucket per address, time of the last cleanup | check, clean up | time is read before two locks are awaited |
| Metrics registry (`registry.rs`) | totals, entries per method and node, last stamp | record call, record node request, clean up, snapshot | entries are written outside the lock, evicted meanwhile |
| Latency histogram (`registry.rs`) | bins, sum, number of samples | record, estimate percentiles | no lock: relaxed atomics read while they are written |
| Node server (`http_server.rs`, `http_router.rs`) | permits, connections | accept, serve, route, answer | hang-ups, full server |
| Script execution (`madrpc-server/src/node.rs`) | blocking pool, timer | spawn, deliver, time out | threads cannot be stopped; scripts call their own node |
| `madrpc.callSync` (`runtime/bindings.rs`) | one runtime, one mutex | lock, block, unlock | held for a whole nested call, poisoned by a panic |
| Job executor (`runtime/job_executor.rs`, `context.rs`, `bindings.rs`) | three queues, group of nested calls, promise | enqueue, poll, drain, inspect, time out | jobs enqueue jobs; nested calls may hang |
| Everything else | none | protocol types, conversions, resource-limit builders, argument parsing, `top` | stateless or display only |

How they interact: client -> orchestrator HTTP server -> rate limiter -> key -> router ->
forwarding loop -> load balancer (write lock) -> client -> node HTTP server -> permit -> rate
limiter -> router -> blocking pool -> script context -> job executor -> (nested call) client ->
orchestrator. The health checker is a background task on the same load balancer. Nodes enter
the pool from the command line or by `_register`.

What makes each part correct:

* pool: the roster agrees with the map, routing reaches exactly the routable nodes and treats
  them fairly, circuits move only along their transitions;
* health checker: late updates do not undo what an operator decided; dead nodes are isolated,
  recovered nodes return;
* forwarding and client: bounded sends, no second run of a script that was answered, one
  answer, an end;
* registration: who was told so is a member; a start comes to an end unless the orchestrator keeps
  silent; a serving member becomes routable and a gone one stops being so;
* rate limiter: no address gets more than burst plus refill, late time stamps and very low rates
  apart (section 6);
* metrics: what is counted is what happened, tables stay bounded, estimates mean something;
* node: permits are conserved, every call is answered, metrics match the answers;
* job executor: no job of the three kinds it supports is dropped (any other is, with a warning),
  continuations keep their order, and only a nested call without an answer keeps the call from
  ending.

## 2. Modules

| Module | Models | Extends |
|---|---|---|
| `LoadBalancer` | a node, its circuit, the pool; one operator per method | |
| `HealthChecker` | `check_all_nodes`, one step per lock and per probe | `LoadBalancer` |
| `Orchestrator` | the composition: checker, operators, registrations, requests, crashes, time | `HealthChecker` |
| `NodePool` | abstract: what the pool promises, without roster, counters, timers and rounds | |
| `RoundRobin` | fairness of `next_node`, with a history of how often a node was passed over | `LoadBalancer` |
| `Client` | `MadrpcClient::call` and `try_call` | |
| `Forwarding` | `forward_request_jsonrpc` around a changing pool and a retrying client | `LoadBalancer`, `Client` |
| `FrontEnd` | the orchestrator's handler and router around `Forwarding` | `Forwarding` |
| `RequestService` | abstract: what the sender of a request is promised | |
| `Registration` | the processes of a node and of the orchestrator, around the pool | `Orchestrator`, instance of `Client` |
| `RateLimiter` | `check_rate_limit` and its cleanup | |
| `MetricsRegistry` | recording and cleanup | |
| `Histogram` | `record` and `calculate_percentiles`, one atomic operation per step | |
| `NodeServer` | accept loop, connections, blocking pool, timeout, `callSync` | |
| `JobExecutor` | one call of a script on its thread | |
| `MC*` | model values and start lists | the module after `MC` |

The proofs are in `LoadBalancerProofs` (the pool's methods, which the next two build on, and
`RoundRobin`), `OrchestratorProofs` (`Orchestrator` and `Registration`), `FrontEndProofs`,
`RateLimiterProofs`, `MetricsRegistryProofs`, `HistogramProofs`, `NodeServerProofs` and
`JobExecutorProofs`.

A definition named *Mutant* in its comment is a plausible mistake in the operator that follows
it; substituting it makes one property fail, and no specification uses it.

### Correspondence and abstraction

* **LoadBalancer.** Every method of the struct runs under one write guard and is one step.
  `circuit_opened_at` is kept as the time elapsed since, capped at `max_timeout`, because it is
  only compared with timeouts. `consecutive_failures` saturates at `MaxFailures`, which is
  required to be at least the thresholds and to reach the cap of the backoff, so that no
  comparison can tell a saturated counter from a larger one (`SaturationAssumption`). That time is
  read off the system's clock (`SystemTime`); a clock set back, which makes it 0 for a while and so
  delays the probation of an open circuit, is not modelled. Display
  fields (request counts, time of the last check) are left out.
* **HealthChecker.** `phase` is where `check_all_nodes` is. The snapshot keeps the fields that
  are read later; failure counts are read from the live pool, as the code does. A probe that
  runs into its timeout is an `Err`. Nodes answer or not as `up`, which changes at any time.
* **Orchestrator.** `Admit` is add, enable or register, `Withdraw` remove or disable; each takes
  the lock once. `TimePasses` ages the circuits. The refinement to `NodePool` maps an address to
  its standing (absent, serving, held by an operator, isolated by the checker), its circuit and
  the set of addresses requests may go to, which it reads off the roster.
* **Client, Forwarding.** An answer is a kind, a JSON-RPC code, and whether the script ran.
  Backoff delays are a step. The write lock is held for `next_node` only. Other requests and the
  health checker appear as `PoolChanges`.
* **FrontEnd.** `Handler` is `handle_jsonrpc` with its checks in the order of the code;
  `TurnedAwayWith` lists the status of each early return. The router's built-in methods answer
  without a node. The answer is what the sender's `MadrpcClient` sees, so that its own decision
  to retry is part of `AnsweredErrorsAreFinal`. The rate limiter is a possible refusal here and
  a module of its own.
* **Registration.** `proc` is where `main` of a node is: in a call of the registration loop,
  waiting for the next, starting its server, serving, or down. The client's own loop runs inside
  it. `post` is the request in flight; `late` are nodes that died or lost the connection with one,
  which the orchestrator may still read (of each node one at a time). An orchestrator started with an API key (`keyed`) refuses the
  request, which carries none. The orchestrator's process loses the whole pool when it dies and
  starts with its command line. `undone` is history.
* **RateLimiter.** Tokens are integers: a request costs `Cost` units and time refills `Rate`
  units per tick, so fractions of tokens exist. `Arrive` reads the time, `Cleanup` and
  `Consume` take the two locks. `admitted`, `seen` and `rewound` are history.
* **MetricsRegistry.** A thread walks through the calls of `record_method_call`; `held` tells
  whether the `Arc` it holds is still the entry in the table. A stamp is
  `max(clock, last + 1)`; the system clock may be set back. To issue a stamp and to store it is one
  step: that a delayed thread may store an older stamp over a newer one of the same entry is left
  out, which changes who is evicted and not that stamps are distinct. Latencies are counted here,
  their values are in `Histogram`.
* **Histogram.** The three additions of `record` may become visible in any order, because they
  are relaxed; the reader's loads are in program order. `f64` arithmetic is integer arithmetic.
  Only bins a latency of the instance can fall into are loaded one by one. The samples in a set of
  bins are counted as the cardinality of a set of numbered samples, which can be reasoned about
  without induction. Every latency is binned as the code bins it (from 10^9 µs on all are in the
  last bin); the bounds of the bins from 90 on do not fit TLC's integers, and the instance does not
  use them.
* **NodeServer.** A connection is `closed`, `queued`, `idle`, `reading` or `waiting`. A script is
  `queued` until a pool thread takes it, `loading` while its source is evaluated,
  `calling` or `sync_calling` while its nested call is out. The rate limiter and the API key are
  the "turned away" alternative of `Receive`. `blocking_runtime` is who has the mutex
  of `BLOCKING_RUNTIME`, or `Poisoned`: `callSync` works while a script is loaded, but its
  function runs inside `block_on` already, where a second `block_on` panics with the guard held.
* **JobExecutor.** A piece of script is an interval in which jobs are enqueued one by one; it ends
  by returning, throwing or settling the promise. A nested call that is answered settles its own
  promise, which may be the one the function returned and enqueues a continuation for each of its
  reactions (`in_poll`). Jobs of a fourth kind change nothing and are left out. `waited` becomes
  true when 30 seconds have passed. The first look at the clock right after it was read is taken to
  find no time gone.
  The blocking twin `call_rpc` has the same loop.

## 3. Runs

| Run | Instance | Checks |
|---|---|---|
| `orchestrator` | 2 nodes, one on the command line, all thresholds 1 | `TypeOK`, `RosterCoherent`, `CircuitCoherent`, `ManualDisableSticks`, `NoSkippedProbation`, `PoolImplemented`, `RecoveredNodeReturns`, `DeadNodeIsolated` |
| `round_robin` | 3 nodes, every start list of three entries | `BoundedBypass`, `WalkFindsRoutable` |
| `forwarding` | 2 nodes, 1 request, 2 attempts, 1 retry | `FrontTypeOK`, `ReRunOnlyAfterLoss`, `SendBudget`, `SuccessIsFinal`, `AnsweredErrorsAreFinal`, `ServiceImplemented`, `HangsOnlyOnSilentNode` |
| `registration` | 1 node, known at the start or not, circuit threshold 2, 2 attempts in each loop | `RegTypeOK`, `RegisteredIsMember`, `PoolInEachLife`, `StartSettles`, `AdmittedNodeServes`, `GoneNodeIsolated` |
| `rate_limiter` | 2 addresses, 2 requests at a time, burst of 2 units at cost 2 | `RLTypeOK`, `AdmissionBound`, `Budget` |
| `histogram` | 2 writers, latencies 40 and 300000 µs, 3 samples | `HTypeOK`, `EstimateBracketed` |
| `metrics_registry` | 2 threads, 4 methods, limit 1, 4 operations | `MRTypeOK`, `EntriesAddUp`, `TableBound`, `StampsUnique` |
| `node_server` | 3 connections, 2 permits, 1 pool thread, 2 requests | `NSTypeOK`, `PermitsConserved`, `RecordedIffDelivered`, `EveryCallAnswered` |
| `job_executor` | up to 4 jobs of any kind | `JETypeOK`, `NoJobAbandoned`, `ContinuationsInOrder`, `HangsOnlyOnNestedCall` |
| `metrics_ttl` | 1 method, 1 node, cleanup at every second operation | violates `StaleMeansUnused` |
| `call_sync` | as `node_server` | violates `SyncCallReleasesLock` |
| `lone_sample` | as `histogram` | violates `EstimateNotBelowSamples` |

What each one shows:

* **orchestrator.** Under every interleaving of checker, operators, registrations, requests,
  crashes and time, roster and map agree and an opened circuit leads to closed only through
  probation. A node disabled by hand stays disabled until an operator or a registration enables
  it, although the checker decides on copies that are out of date. Every behaviour is one of
  `NodePool`. A node that stays up and is not held by hand becomes routable again and a node
  that stays down is isolated.
* **round_robin.** One call of `next_node` reaches every routable node and nothing else, with
  an index that may lie past the end and nodes listed twice; a node that stays
  routable is passed over fewer times than the roster has entries, as long as the roster stays
  as it is.
* **forwarding.** Sends are bounded by (retries + 1) * attempts, counting both loops. A script
  runs a second time only after an answer was lost. A call recorded as a success is one that
  was answered. No error that stands for an answer tells the sender to try again. A request
  ends, unless a node it was sent to keeps silent. Every behaviour is one of `RequestService`.
* **registration.** A node that was told it is registered is in the pool of the orchestrator
  that told it, and each life of the orchestrator's process is a behaviour of `NodePool` that
  begins with the `--node` list. Starting ends in serving or giving up, unless a registration is
  neither answered nor broken for ever. A node that serves and is a member becomes routable, and one that is gone (also one that registered and died before it bound its
  port) is isolated.
* **rate_limiter.** The admissions of one address stay within burst plus refill, plus the time
  by which late stamps turned a bucket back (section 6), however requests and evictions
  interleave.
* **histogram.** A percentile read while samples are half written is bracketed: the bin of the
  estimate and those below hold at least the rank asked for, those below it held fewer when
  the scan began, and the latency reported is between the bounds of its bin. `MCHistogram` also
  checks that the two conversions between latency and bin fit together, up to a second.
* **metrics_registry.** An entry's counts differ from its calls only by those that threads
  still have in hand, even if it is evicted and created anew meanwhile. The table exceeds its
  limit by no more than the operations between two cleanups and those in flight.
* **node_server.** Permits are conserved through hang-ups, rejections and full queues, each
  delivered answer is counted exactly once, and every call is answered although threads cannot
  be stopped and scripts wait on their own node.
* **job_executor.** A call returns only with empty queues (or throws, or times out),
  continuations run in the order in which they were enqueued, and a call that does not end has a
  nested call that is never answered. This is about scripts that stop creating jobs: one that
  enqueues continuations for ever keeps `run_jobs_async` from returning and is cut off by
  `MaxJobs` (section 6).
* The three violations are described in section 6.

### Bounds

| Bound | Where | Why it is enough |
|---|---|---|
| 2 nodes | orchestrator, forwarding | nodes interact through roster and index only, two are enough for one to disturb another; `round_robin` takes three for the order of visits. Safety is proved for any number. |
| thresholds 1 | orchestrator | with 1 every failure both trips and disables, the case in which checker and circuit meet most often. `registration` keeps a circuit threshold of 2 with the same checker, so that a node is isolated while its circuit is closed. That the timeout grows from one opening to the next is not exercised (`NoSkippedProbation` and the liveness properties hold for the timeout there is). Safety is proved for all thresholds. |
| `MaxFailures`, `max_timeout` | pool | counters saturate where comparisons no longer tell them apart (`SaturationAssumption`, `Older`). |
| 1 request | forwarding | other requests change the pool, which `PoolChanges` does at any time; the proofs cover any number of requests. |
| 2 attempts, 2 passes | forwarding, registration | a first, a last and an exhausted turn of each of the nested loops. |
| `MaxClock` | rate limiter, registry | longer than the lifetime of an entry, so that entries expire while requests wait; in `metrics_registry` nothing expires and eviction is by the limit, in `metrics_ttl` the other way round. |
| `CLEANUP_INTERVAL` 1, 2 | registry | at 1 every operation cleans up, and the slack of `TableBound` is the delay of threads alone; 2 separates the operation that inserts from the one that cleans up. That insertions pile up between two cleanups, as at 1000 in the code, is in `TableAlwaysBounded`, which is proved for every interval. |
| 3 connections, 2 permits | node server | one connection has to wait for a permit. |
| 1 pool thread | node server | a nested call has to wait behind the script that waits for it. |
| 4 jobs | job executor | a job of each kind, or a chain of jobs that enqueue jobs across two batches. Scripts that never stop creating jobs are beyond any such bound, and `HangsOnlyOnNestedCall` says nothing of them. |

`CHECK_DEADLOCK FALSE` stands where a model ends because its operations are used up or its call
is over: `rate_limiter`, `histogram`, `lone_sample`, `metrics_registry`, `metrics_ttl`,
`job_executor`. Elsewhere a deadlock would be an error, and none is found.

### Abstract specifications

`Orchestrator` implements `NodePool` (`PoolImplemented`): whatever the eight writers of the pool
do between the steps of the checker amounts to nodes that are admitted, expelled, held,
isolated and put on probation one at a time, and requests are offered exactly the nodes that
serve. `FrontEnd` implements `RequestService` (`ServiceImplemented`): a request is received,
its script runs a bounded number of times and never after the answer, a result is backed by a
run, and there is at most one answer. Both are checked by TLC and
proved.

### Fairness

* `FairSpec`: the health checker's task and time. Tokio runs a task that is ready and the
  probe has a timeout, so each of the checker's steps is eventually taken. Nothing is assumed of
  operators, requests or nodes; the properties speak of nodes that stay up or stay down.
* `FrontSpec`: the steps a handler takes by itself. A node is not obliged to answer, which
  is why `HangsOnlyOnSilentNode` has the exception in its name.
* `RegSpec`: the steps of a node's start that wait for nobody (`OwnSteps`), binding its port, the
  checker and time. Nobody has to restart a process, and a registration that was sent need neither
  be answered nor break, because `MadrpcClient` sets no timeout (`madrpc-client/src/client.rs:333`,
  654); hence the exception in `StartSettles`.
* `NSSpec`: a call in progress is answered by the script or by its timer. Scripts need not end
  and pool threads need not come free.
* `JESpec`: the loop of the executor, with the pieces of script it runs, and time. No nested call
  has to be answered (the client has no timeout here either), hence the exception that
  `HangsOnlyOnNestedCall` has in its name.

## 4. Proofs

TLAPS proves the following for all values of the constants that satisfy the named assumptions.

| Module | Theorems | Inductive invariant | Assumptions |
|---|---|---|---|
| `OrchestratorProofs` | `TypeCorrect`, `RosterAlwaysCoherent`, `CircuitAlwaysCoherent`, `WalkAlwaysFinds`, `ManualDisableAlwaysSticks`, `ProbationNeverSkipped`, `OrchestratorImplementsPool` | `Inv == LBInv /\ HcTypeOK` | Node, List, Config, Saturation, Hc |
| `OrchestratorProofs` | `RegistrationTyped`, `RegisteredAlwaysMember`, `EachLifeImplementsPool`, `RegistrationEnds` | `RegInv` | the above, Registration |
| `LoadBalancerProofs` | `RoundRobinTyped`, `NobodyBypassed` | `RRInv` | Node, List, Config, Saturation |
| `FrontEndProofs` | `FrontTyped`, `RunsAgainOnlyAfterLoss`, `LoopsKeepBudget`, `SuccessesAreFinal`, `AnsweredErrorsFinal`, `FrontEndImplementsService`, `HandlersRunOut` | `RequestInv`, `LBInv` | Node, List, Config, Saturation, Retries, Attempts |
| `RateLimiterProofs` | `BucketsTyped`, `BudgetAlwaysKept`, `AdmissionsBounded` | `RLInv` | Rate, Ttl |
| `MetricsRegistryProofs` | `RegistryTyped`, `CountsAlwaysAddUp`, `TableAlwaysBounded`, `StampsAlwaysUnique` | `MRInv` | Metrics |
| `HistogramProofs` | `BinsBracket`, `HistogramTyped`, `EstimateAlwaysBracketed`, `RankedEstimates` | `HInv` | Histogram |
| `NodeServerProofs` | `ServerTyped`, `PermitsAlwaysConserved`, `MetricsMatchAnswers` | `NSInv` | Server |
| `JobExecutorProofs` | `ExecutorTyped`, `NoJobLeftBehind`, `ContinuationsKeepOrder` | `JEInv` | Jobs |

`RoundRobinTyped` (`RRTypeOK`), `RegistrationEnds` (`RetriesRunOut`), `HandlersRunOut`
(`RequestsRunOut`), `BinsBracket` and `RankedEstimates` (`RankedEstimateNotBelowSamples`) are
proved and belong to no run. The arguments:

* **Pool.** `LBInv` is the type invariant with `RosterCoherent` and `CircuitCoherent`.
  `PoolGood(map, roster)` states it of a map and a roster, `GoodNode` of one node, so that
  each method reduces to three questions: is the new node good, does the roster still hold
  exactly the enabled ones, is each of them still known. Removing an entry from the roster
  (`retain`) is a filter on sequences and needs the counting argument of `RetainLemma`.
  That the walk of `next_node` misses nothing is arithmetic: the visits `(index + k) % len`
  cover the roster (`DivMod`, `ModUnique`, `ModCover`).
* **Refinement to `NodePool`.** One lemma per move (`AdmitMaps`, `HoldMaps`, `ExpelMaps`,
  `ProbationMaps`, `GoodVerdictMaps`, `BadVerdictMaps`). Two facts beyond `Inv` are needed: the
  flags a pending update carries follow the probe's answer (`FlagsFollowAnswer`), and the set
  of nodes on offer is the one the abstract pool would offer (`OfferFollows`).
* **Registration.** `RegInv` adds to the pool's invariant where a node's two nested loops are
  (`InStep`: a request is in flight only while the client tries, the client runs only while main
  waits for it, and each loop goes round only if it has a turn left) and when a node counts as
  admitted: from the moment the orchestrator *granted* its request, long before the node knows
  (`Admitted`). `RegisteredIsMember` alone is not inductive, because the reply is read some
  steps after the pool was changed; `AdmittedIsMember` is. A request that outlives its sender can
  only add members, and while the orchestrator is down every admission is undone.
  Each life is a `NodePool` by the step lemmas of the refinement above (`StepRefines`), since the
  processes touch the pool through the orchestrator's operations only. For the end of the loops,
  `StepsLeft` counts the steps a starting node has left at most: turns of the outer loop times
  the steps of a client call. Every own step lowers it and no step of anybody else raises it,
  which is what `StartSettles` has to say apart from fairness and the silence of the orchestrator.
* **Round robin.** `Due(a, d)` says that node `a` has its turn when the index has moved
  `d` on, and that its wait so far and those `d` together are fewer than the roster has entries. Each pick
  moves every turn on; each change of the roster starts it anew.
* **Requests.** `RequestInv` is one predicate per request, `Good`, and requests touch only
  their own records, so preservation is proved for a single one (`OneRequest`). Its parts:
  sends are bounded by the turns taken so far (`Bounded`), every run beyond the first is backed
  by a lost answer (`Backed`), the two loops are in matching places (`Calling`, `Retrying`), and
  what was recorded and returned is what happened (`Recorded`, `Handled`). That the loops come to
  an end is again a measure: passes left times the steps of a client call, which each step of the
  request's handler lowers and nobody else's step touches.
* **Rate limiter.** `Budget` relates the tokens of a bucket to what it has admitted. It is
  inductive with the fact that no stamp in use is ahead of the clock. What is proved is the bound
  *with* `rewound`, the time by which late stamps turned the bucket back; without it the bound is
  false of the code. Eviction needs `TtlAssumption`: a bucket idle for the lifetime of an entry
  would be full again. The code does not enforce it (section 6).
* **Registry.** `TableBound` has to count ahead: the entries there are, the threads about to
  insert one (`Inserting`) and the operations still to come before the next cleanup by someone
  else (`ToCome`) stay within the bound (`Room`). `EntriesAddUp` needs that a thread holding
  an entry that is still in the table is recorded as holding it (`Holding`).
* **Histogram.** `HInv` has three parts beside the types. `Balance`: samples in bins plus those
  still to be added to one are the samples counted plus those still to be counted. `BinsFill`:
  bins only fill, and those no latency falls into stay empty, so that skipping them adds nothing.
  `ScanSoFar`: what a scan has added up lies between what the bins below held when it
  began and what they hold now, and is short of the target; a bin is loaded once, at some moment
  between the two, which is all that is known of it. The estimate is then bracketed when the
  sum reaches the target. The bins and their bounds are arithmetic over powers of ten
  (`BinOf`, `BoundOf`, `BoundsInOrder`); `BinsBracket` is what `MCHistogram` checks on samples.
* **Node server.** A connection waits exactly if its request is in progress (`InLine`,
  `InProgress`); the metrics count answers of each kind and the lemmas on cardinality add one.
* **Job executor.** Continuations in queue, batch and history are together sorted by the
  time they were enqueued (`Order`), and the exit is reached only with empty queues (`Drained`).

Every invariant, action property and refinement of the passing runs is stated by one of these
theorems. Only model-checked is liveness: `RecoveredNodeReturns`, `DeadNodeIsolated`,
`HangsOnlyOnSilentNode`, `StartSettles`, `AdmittedNodeServes`, `GoneNodeIsolated`,
`EveryCallAnswered` and `HangsOnlyOnNestedCall`, because TLAPS does not reason about `ENABLED`, which
fairness is made of. Out of reach is also arithmetic with a variable exponent: that
`calculate_timeout` grows with the failures follows for no prover here from the definition of `^`.
No proof of the pool needs it; `SaturationAssumption` is evaluated by TLC on each run.

## 5. Not modelled

* `madrpc.register` and the conversion of values between JSON and script: no state is shared
  with the rest; that a conversion may fail is an alternative of the executor.
* Assembling a metrics snapshot (of the counters; the percentiles are modelled) and the
  collectors, which pass their calls on to the registry.
* Protocol types, serialisation and HTTP transport: stateless.
* Argument parsing, the one-shot `call` command, and `top`, which fetches and draws.
* The builders and validation of resource limits; the execution timeout is modelled.
* TCP, hyper, axum, tokio and the script engine are external: they appear as losses, delays,
  timeouts, panics and the moments at which a task or job may run.

The map covers about 45 % of the lines of code that are neither comments, blank nor tests; of
all lines, doc comments and inline tests included, it is about 20 %. What is left is mostly the
list above.

## 6. Divergences between code and documentation

Paths are below `src/crates/`. With a run that shows them:

* `metrics_ttl`: a node's entry is made with stamp 0 and stamped only after the lock is
  released (`madrpc-metrics/src/registry.rs:522`); a cleanup in between finds it decades old
  and drops it with the request. Line 103 promises this of nodes "not receiving requests".
* `call_sync`: `callSync` blocks inside a runtime and panics with the mutex held
  (`madrpc-server/src/runtime/bindings.rs:309`); every later call of any script fails. Line 56
  says the lock is released after each call.
* `lone_sample`: the rank of a percentile is rounded down to 0 for few samples
  (`registry.rs:264`) and the first bin, empty or not, is the answer; line 256 says "0 if no
  samples".

Seen while modelling. The models follow the code in each case:

* Orchestrator. A failed forward is not recorded as a failure (`madrpc-orchestrator/src/orchestrator.rs:489`
  against 201). Transport errors are not retried on another node (210) and their own error is
  returned, not `AllNodesFailed` (224). A forwarded request has no timeout (508), so a
  silent node holds it.
* Registration. It enables a node that was disabled by hand (`orchestrator.rs:619`
  against `load_balancer.rs:138`), yet a node whose circuit is open is not routable
  although the README (140) says so. An orchestrator with an API key refuses every
  registration, because the node sends none. A node registers before it binds its port
  (`madrpc-cli/src/main.rs:417`, 426), so it is routable before it listens, and remains
  a member if it then fails. A refused registration is retried, since its code falls into
  the range of retryable errors.
* Health checker. The first trip waits `base * multiplier^(threshold - 1)`, not the base
  (`madrpc-orchestrator/src/node.rs:72`). A node enabled between count and decision is disabled
  again with fewer failures (`health_checker.rs:253`). `--disable-health-check` still runs one
  round at the start (`main.rs:447`).
* Client. The arm for the code of a rate limit lies in the range an earlier arm retries
  (`madrpc-client/src/client.rs:720`, 726).
* Limits. A request whose stamp is older than its bucket's turns the bucket back and refills
  it twice (`madrpc-common/src/rate_limit.rs:400`); this is the term `rewound` of `AdmissionBound`.
  Entries live for 300 s whatever the rate (`rate_limit.rs:106`), and `--rate-limit-rps` takes any
  number: below one request per 300 s an address finds a full bucket again before its rate allows
  one (`TtlAssumption` excludes this).
  The body limit of the HTTP framework (2 MB) applies before the one of the code (10 MB,
  `transport/http.rs:58`).
* Node. A script that timed out goes on, or starts later, although only the caller was told
  (`resource_limits.rs:21`). "The polling has a maximum timeout of 30 seconds to prevent CPU
  exhaustion and indefinite hangs" (`runtime/context.rs:276`), but the time is looked at only between
  runs of the executor (486), and such a run does not return while a nested call is unanswered or
  while continuations enqueue continuations (`while (true) await null`; `job_executor.rs:257`): it
  spins for ever on its pool thread, and only the execution timeout of the node answers the
  caller. A generic job that enqueues a generic job panics
  (`job_executor.rs:107`). `run_jobs_async` is documented to wait and polls and yields. One
  failing `accept` ends the server (`http_server.rs:231`).
* Metrics. Latencies of a second and more are counted in bins whose bounds say tenfold (1 s is
  reported as 9 to 10 s) although the code promises the lower bound of the bin. While a sample is
  counted but in no bin, a percentile may be reported as 10^10 µs; the average may exceed every
  latency. Under load, stamps run ahead of the clock. `active_connections` is never updated.
* `top`. No key is read while a fetch hangs, errors are not shown once there are metrics, the
  terminal stays raw if its setup fails half-way, and the kind of server is found out once.

## 7. Plan

Done, in this order: pool and circuit breaker, health checker, client and forwarding, rate
limiter, registry, node server, executor; then front end, registration, histogram, `callSync`,
the two abstract specifications; then the proofs of every safety property.

Left, the most valuable first:

1. the safety half of the other liveness properties, as `RegistrationEnds` is for
   `StartSettles` and `HandlersRunOut` for `HangsOnlyOnSilentNode`: a measure for a call in
   `JobExecutor`, which spins while it waits for nested calls;
2. orchestrator and node in one model, so that a nested call passes through both and their
   limits, pools and timeouts act on each other;
3. snapshots of the registry under concurrent recording; `madrpc.register`.
