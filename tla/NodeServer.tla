----------------------------- MODULE NodeServer -----------------------------
(***************************************************************************)
(* A node: its HTTP server (madrpc-server/src/http_server.rs), router      *)
(* (http_router.rs) and script execution (node.rs).                        *)
(*                                                                         *)
(* One task accepts connections and waits for a permit for each; a         *)
(* connection is kept alive and serves one request after another; a        *)
(* request for a script is run on a thread of tokio's blocking pool, and   *)
(* its connection waits for the result or for the execution timeout.  A    *)
(* thread cannot be stopped: after the timeout, or when the client has     *)
(* hung up, the script goes on (or is still going to start) for nobody.  A *)
(* script may call back into the cluster and so into this very node.       *)
(*                                                                         *)
(* madrpc.callSync (runtime/bindings.rs) does so on a runtime that all     *)
(* scripts share and lock for the whole nested call.  That works while the *)
(* script is being loaded; the function of a script runs inside a runtime  *)
(* of its own, and tokio refuses to block on a second one.                 *)
(***************************************************************************)
EXTENDS Integers, FiniteSets, Sequences

CONSTANTS
    Conn,                           \* connections; each is reused
    MaxRequests,                    \* bound of the model: requests sent
    MAX_CONCURRENT_CONNECTIONS,
    PoolSize,                       \* threads of tokio's blocking pool
    Nobody,
    Poisoned

\* Requests are numbered as they arrive.
Request == 1..MaxRequests

ASSUME ServerAssumption ==
    /\ IsFiniteSet(Conn)
    /\ MaxRequests \in Nat
    /\ MAX_CONCURRENT_CONNECTIONS \in Nat \ {0}
    /\ PoolSize \in Nat \ {0}
    /\ Nobody \notin Conn \cup Request
    /\ Poisoned \notin Request \cup {Nobody}

VARIABLES
    backlog,    \* connections the kernel has queued for accept
    acceptor,   \* the connection run() holds while it waits for a permit
    permits,    \* connection_semaphore
    conns,      \* the state of each connection
    scripts,    \* what became of each request's script
    answers,    \* the answer to each request
    metrics,    \* calls recorded by the NodeMetricsCollector
    blocking_runtime    \* who holds the mutex of BLOCKING_RUNTIME

nsVars == <<backlog, acceptor, permits, conns, scripts, answers, metrics, blocking_runtime>>

-----------------------------------------------------------------------------
NSInit ==
    /\ backlog = << >>
    /\ acceptor = Nobody
    /\ permits = MAX_CONCURRENT_CONNECTIONS
    /\ conns = [c \in Conn |-> [pc |-> "closed", req |-> Nobody]]
    /\ scripts = [r \in Request |-> [state |-> "none", child |-> Nobody, result |-> "none"]]
    /\ answers = [r \in Request |-> "none"]
    /\ metrics = [ok |-> 0, failed |-> 0]
    /\ blocking_runtime = Nobody

Served == {c \in Conn : conns[c].pc \in {"idle", "reading", "waiting"}}

\* A thread of the pool is at work on the script.
Running == {r \in Request : scripts[r].state \in
                {"loading", "sync_calling", "running", "calling"}}

Sent == {r \in Request : \/ answers[r] # "none"
                         \/ scripts[r].state # "none"
                         \/ \E c \in Conn : conns[c].req = r}

\* r is the next request that anybody sends.
IsNext(r) == r \notin Sent /\ \A k \in 1..(r - 1) : k \in Sent

-----------------------------------------------------------------------------
(* Connections *)

Connect(c) ==
    /\ conns[c].pc = "closed"
    /\ backlog' = Append(backlog, c)
    /\ conns' = [conns EXCEPT ![c].pc = "queued"]
    /\ UNCHANGED <<acceptor, permits, scripts, answers, metrics, blocking_runtime>>

\* listener.accept()
Accept ==
    /\ acceptor = Nobody
    /\ backlog # << >>
    /\ acceptor' = Head(backlog)
    /\ backlog' = Tail(backlog)
    /\ UNCHANGED <<permits, conns, scripts, answers, metrics, blocking_runtime>>

\* Mutant: the connection is served before a permit is there.
ServeAnyway ==
    /\ acceptor # Nobody
    /\ permits' = permits - 1
    /\ conns' = [conns EXCEPT ![acceptor].pc = "idle"]
    /\ acceptor' = Nobody
    /\ UNCHANGED <<backlog, scripts, answers, metrics, blocking_runtime>>

\* acquire_owned() returns and the connection's task is spawned.
Serve ==
    /\ acceptor # Nobody
    /\ permits > 0
    /\ permits' = permits - 1
    /\ conns' = [conns EXCEPT ![acceptor].pc = "idle"]
    /\ acceptor' = Nobody
    /\ UNCHANGED <<backlog, scripts, answers, metrics, blocking_runtime>>

\* Mutant: the permit of a connection that breaks is not given back.
HangUpKeepsPermit(c) ==
    /\ c \in Served
    /\ permits' = IF conns[c].pc = "idle" THEN permits + 1 ELSE permits
    /\ conns' = [conns EXCEPT ![c] = [pc |-> "closed", req |-> Nobody]]
    /\ answers' = IF conns[c].req = Nobody
                  THEN answers
                  ELSE [answers EXCEPT ![conns[c].req] = "abandoned"]
    /\ UNCHANGED <<backlog, acceptor, scripts, metrics, blocking_runtime>>

\* The client closes the connection.  serve_connection ends, a handler that is
\* still waiting is dropped, the permit goes out of scope.
HangUp(c) ==
    /\ c \in Served
    /\ permits' = permits + 1
    /\ conns' = [conns EXCEPT ![c] = [pc |-> "closed", req |-> Nobody]]
    /\ answers' = IF conns[c].req = Nobody
                  THEN answers
                  ELSE [answers EXCEPT ![conns[c].req] = "abandoned"]
    /\ UNCHANGED <<backlog, acceptor, scripts, metrics, blocking_runtime>>

Reply(c, answer) ==
    /\ conns' = [conns EXCEPT ![c] = [pc |-> "idle", req |-> Nobody]]
    /\ answers' = [answers EXCEPT ![conns[c].req] = answer]

-----------------------------------------------------------------------------
(* Requests *)

\* The head of request r arrives.  It is turned away (rate limited, no valid
\* API key, not a POST), or its body is read.
Receive(c, r) ==
    /\ conns[c].pc = "idle"
    /\ IsNext(r)
    /\ \/ /\ answers' = [answers EXCEPT ![r] = "rejected"]
          /\ UNCHANGED conns
       \/ /\ conns' = [conns EXCEPT ![c] = [pc |-> "reading", req |-> r]]
          /\ UNCHANGED answers
    /\ UNCHANGED <<backlog, acceptor, permits, scripts, metrics, blocking_runtime>>

\* The body is unreadable, too large or not JSON-RPC.
RejectBody(c) ==
    /\ conns[c].pc = "reading"
    /\ Reply(c, "rejected")
    /\ UNCHANGED <<backlog, acceptor, permits, scripts, metrics, blocking_runtime>>

\* _health, _metrics and _info are answered by the router, not by a script.
AnswerBuiltin(c) ==
    /\ conns[c].pc = "reading"
    /\ Reply(c, "builtin")
    /\ UNCHANGED <<backlog, acceptor, permits, scripts, metrics, blocking_runtime>>

\* Node::call_rpc: the script is handed to the blocking pool.
SpawnScript(c) ==
    /\ conns[c].pc = "reading"
    /\ conns' = [conns EXCEPT ![c].pc = "waiting"]
    /\ scripts' = [scripts EXCEPT ![conns[c].req].state = "queued"]
    /\ UNCHANGED <<backlog, acceptor, permits, answers, metrics, blocking_runtime>>

-----------------------------------------------------------------------------
(* Scripts, on the threads of the pool *)

\* A fresh context starts to run the script's source.
StartScript(r) ==
    /\ scripts[r].state = "queued"
    /\ Cardinality(Running) < PoolSize
    /\ scripts' = [scripts EXCEPT ![r].state = "loading"]
    /\ UNCHANGED <<backlog, acceptor, permits, conns, answers, metrics, blocking_runtime>>

\* The source has run and registered its functions; call_rpc_async begins.
Loaded(r) ==
    /\ scripts[r].state = "loading"
    /\ scripts' = [scripts EXCEPT ![r].state = "running"]
    /\ UNCHANGED <<backlog, acceptor, permits, conns, answers, metrics, blocking_runtime>>

\* The orchestrator sends the call of script r to this node, as request k, on
\* connection c.
SendNested(r, c, k, state) ==
    /\ scripts[r].child = Nobody
    /\ conns[c].pc = "idle"
    /\ IsNext(k)
    /\ conns' = [conns EXCEPT ![c] = [pc |-> "reading", req |-> k]]
    /\ scripts' = [scripts EXCEPT ![r].state = state, ![r].child = k]
    /\ UNCHANGED <<backlog, acceptor, permits, answers, metrics>>

\* madrpc.call
CallBack(r, c, k) ==
    /\ scripts[r].state = "running"
    /\ SendNested(r, c, k, "calling")
    /\ UNCHANGED blocking_runtime

\* The nested call is answered, in whatever way.
CallReturns(r) ==
    /\ scripts[r].state = "calling"
    /\ answers[scripts[r].child] # "none"
    /\ scripts' = [scripts EXCEPT ![r].state = "running"]
    /\ UNCHANGED <<backlog, acceptor, permits, conns, answers, metrics, blocking_runtime>>

\* madrpc.callSync while the source runs.  A thread whose turn it is not waits
\* for the mutex; a poisoned mutex is an error the source may catch.
CallSync(r, c, k) ==
    /\ scripts[r].state = "loading"
    /\ blocking_runtime = Nobody
    /\ SendNested(r, c, k, "sync_calling")
    /\ blocking_runtime' = r

\* block_on returns and the guard goes out of scope.
SyncReturns(r) ==
    /\ scripts[r].state = "sync_calling"
    /\ answers[scripts[r].child] # "none"
    /\ scripts' = [scripts EXCEPT ![r].state = "loading"]
    /\ blocking_runtime' = Nobody
    /\ UNCHANGED <<backlog, acceptor, permits, conns, answers, metrics>>

\* madrpc.callSync in a function: block_on panics inside the runtime of
\* call_rpc, with the mutex held, and ends the task.
SyncPanics(r) ==
    /\ scripts[r].state = "running"
    /\ blocking_runtime = Nobody
    /\ blocking_runtime' = Poisoned
    /\ scripts' = [scripts EXCEPT ![r].state = "finished", ![r].result = "panic"]
    /\ UNCHANGED <<backlog, acceptor, permits, conns, answers, metrics>>

\* The source throws, call_rpc_async returns Ok or Err, or the closure panics, in
\* either half.
Outcomes == {"result", "error", "panic"}

FinishScript(r) ==
    /\ \E result \in Outcomes :
          /\ \/ scripts[r].state = "running"
             \/ scripts[r].state = "loading" /\ result # "result"
          /\ scripts' = [scripts EXCEPT ![r].state = "finished", ![r].result = result]
    /\ UNCHANGED <<backlog, acceptor, permits, conns, answers, metrics, blocking_runtime>>

-----------------------------------------------------------------------------
(* The end of call_rpc *)

Recorded(result) ==
    [metrics EXCEPT !.ok     = IF result = "result" THEN @ + 1 ELSE @,
                    !.failed = IF result = "result" THEN @ ELSE @ + 1]

\* Mutant: a panicked task is recorded before its join error is looked at.
DeliverRecordsAll(c) ==
    /\ conns[c].pc = "waiting"
    /\ scripts[conns[c].req].state = "finished"
    /\ metrics' = Recorded(scripts[conns[c].req].result)
    /\ Reply(c, IF scripts[conns[c].req].result = "panic"
                THEN "join_error" ELSE scripts[conns[c].req].result)
    /\ UNCHANGED <<backlog, acceptor, permits, scripts, blocking_runtime>>

\* The task has ended in time.  A join error leaves before record_call.
Deliver(c) ==
    LET result == scripts[conns[c].req].result
    IN  /\ conns[c].pc = "waiting"
        /\ scripts[conns[c].req].state = "finished"
        /\ metrics' = IF result = "panic" THEN metrics ELSE Recorded(result)
        /\ Reply(c, IF result = "panic" THEN "join_error" ELSE result)
        /\ UNCHANGED <<backlog, acceptor, permits, scripts, blocking_runtime>>

\* Mutant: the timer only runs while the script does.
TimeoutOfRunning(c) ==
    /\ conns[c].pc = "waiting"
    /\ conns[c].req \in Running
    /\ Reply(c, "timed_out")
    /\ UNCHANGED <<backlog, acceptor, permits, scripts, metrics, blocking_runtime>>

\* execution_timeout has passed: answered with an error, before record_call.
\* The script stays where it is.
ExecutionTimeout(c) ==
    /\ conns[c].pc = "waiting"
    /\ scripts[conns[c].req].state # "finished"
    /\ Reply(c, "timed_out")
    /\ UNCHANGED <<backlog, acceptor, permits, scripts, metrics, blocking_runtime>>

-----------------------------------------------------------------------------
CallEnds(c) == Deliver(c) \/ ExecutionTimeout(c)

NSNext ==
    \/ Accept \/ Serve
    \/ \E c \in Conn :
          \/ Connect(c) \/ HangUp(c)
          \/ RejectBody(c) \/ AnswerBuiltin(c) \/ SpawnScript(c) \/ CallEnds(c)
          \/ \E r \in Request : Receive(c, r)
          \/ \E r, k \in Request : CallBack(r, c, k) \/ CallSync(r, c, k)
    \/ \E r \in Request :
          \/ StartScript(r) \/ Loaded(r) \/ FinishScript(r)
          \/ CallReturns(r) \/ SyncReturns(r) \/ SyncPanics(r)

(***************************************************************************)
(* tokio polls the timer of every waiting call.  Nothing is assumed of     *)
(* scripts, which may run for ever, nor of clients, which may stop in the  *)
(* middle of a request.                                                    *)
(***************************************************************************)
NSSpec == NSInit /\ [][NSNext]_nsVars /\ \A c \in Conn : WF_nsVars(CallEnds(c))

-----------------------------------------------------------------------------
NSTypeOK ==
    /\ backlog \in Seq(Conn)
    /\ acceptor \in Conn \cup {Nobody}
    /\ permits \in 0..MAX_CONCURRENT_CONNECTIONS
    /\ conns \in [Conn -> [pc  : {"closed", "queued", "idle", "reading", "waiting"},
                           req : Request \cup {Nobody}]]
    /\ scripts \in [Request ->
          [state  : {"none", "queued", "loading", "sync_calling", "running",
                     "calling", "finished"},
           child  : Request \cup {Nobody},
           result : Outcomes \cup {"none"}]]
    /\ answers \in [Request ->
          {"none", "rejected", "builtin", "result", "error", "join_error",
           "timed_out", "abandoned"}]
    /\ metrics \in [ok : Nat, failed : Nat]
    /\ blocking_runtime \in Request \cup {Nobody, Poisoned}

(***************************************************************************)
(* Every connection being served holds one permit and nothing else does,   *)
(* however the connection ends: the limit never wears away.                *)
(***************************************************************************)
PermitsConserved ==
    permits + Cardinality(Served) = MAX_CONCURRENT_CONNECTIONS

(***************************************************************************)
(* The metrics count exactly the calls whose client got the script's own   *)
(* outcome: a script that is still running when its call times out, that   *)
(* panics, or whose client hangs up is never counted, however late it      *)
(* ends, and none is counted twice.                                        *)
(***************************************************************************)
RecordedIffDelivered ==
    /\ metrics.ok     = Cardinality({r \in Request : answers[r] = "result"})
    /\ metrics.failed = Cardinality({r \in Request : answers[r] = "error"})

(***************************************************************************)
(* Every call that reaches the pool is answered, even if scripts occupy    *)
(* all threads for ever or wait for calls to this node that are queued     *)
(* behind them.                                                            *)
(***************************************************************************)
EveryCallAnswered ==
    \A r \in Request :
        (\E c \in Conn : conns[c].pc = "waiting" /\ conns[c].req = r)
            ~> answers[r] # "none"

(***************************************************************************)
(* bindings.rs:56, of BLOCKING_RUNTIME: "Each blocking call will lock the  *)
(* mutex, run the async operation to completion, then release the lock",   *)
(* so the mutex stays usable for the next call.  It does not hold.         *)
(***************************************************************************)
SyncCallReleasesLock == blocking_runtime # Poisoned

=============================================================================
