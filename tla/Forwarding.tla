----------------------------- MODULE Forwarding -----------------------------
(***************************************************************************)
(* Forwarding a request through the orchestrator: the retry loop of        *)
(* forward_request_jsonrpc (orchestrator.rs) around the load balancer's    *)
(* next_node and around a MadrpcClient, which retries by itself.           *)
(*                                                                         *)
(* Requests are tokio tasks that interleave with one another and with      *)
(* whatever changes the pool: the write lock is held for next_node only,   *)
(* never while a node is being called or during a backoff.                 *)
(***************************************************************************)
EXTENDS LoadBalancer, Client

CONSTANT max_retries      \* orchestrator::RetryConfig::max_retries

ASSUME RetriesAssumption == max_retries \in Nat

Req == Call               \* a request uses one client call at a time

VARIABLES
    fwd,        \* the state of each request's task
    recorded    \* what the metrics collector was told of it: the outcome of
                \* record_call and the number of record_node_request calls

fwdVars == <<nodes, enabled_nodes, round_robin_index, calls, wire, fwd, recorded>>

FwdInit ==
    /\ LBInit
    /\ ClientInit
    /\ fwd = [r \in Req |-> [pc      |-> "picking",
                             attempt |-> 0,
                             node    |-> NoNode,
                             result  |-> "Ok"]]
    /\ recorded = [r \in Req |-> [outcome |-> "nothing", forwards |-> 0]]

-----------------------------------------------------------------------------
\* Orchestrator::is_retryable_static.
is_retryable_static(error) == error \in {"AllNodesFailed", "NodeUnavailable"}

\* ok_or_else(...)?: no node leaves the function, whatever retries are left.
NoNodeError(attempt) ==
    IF attempt < max_retries THEN "NodeUnavailable" ELSE "AllNodesFailed"

\* One pass of the loop: next_node under the write lock.
PickNode(r) ==
    /\ fwd[r].pc = "picking"
    /\ \E n \in Addr \cup {NoNode} :
          /\ next_node(n)
          /\ IF n = NoNode
             THEN /\ fwd' = [fwd EXCEPT ![r].pc     = "done",
                                        ![r].result = NoNodeError(fwd[r].attempt)]
                  /\ UNCHANGED <<calls, wire, recorded>>
             ELSE /\ fwd' = [fwd EXCEPT ![r].pc = "calling", ![r].node = n]
                  /\ recorded' = [recorded EXCEPT ![r].forwards = @ + 1]
                  /\ StartCall(r)

\* send_http_request: the client's own loop, always against the same node.
CallNode(r) ==
    /\ fwd[r].pc = "calling"
    /\ ClientStep(r)
    /\ UNCHANGED <<lbVars, fwd, recorded>>

\* Mutant: every answer is recorded as a success.
RecordAlways(r) ==
    LET result == calls[r].result
        again  == fwd[r].attempt < max_retries /\ is_retryable_static(result)
    IN  /\ fwd[r].pc = "calling"
        /\ calls[r].pc = "returned"
        /\ fwd' = [fwd EXCEPT ![r].pc     = IF again THEN "backing_off" ELSE "done",
                              ![r].result = result]
        /\ recorded' = [recorded EXCEPT ![r].outcome = "success"]
        /\ UNCHANGED <<lbVars, calls, wire>>

\* send_http_request returned.
NodeReturned(r) ==
    LET result == calls[r].result
        again  == fwd[r].attempt < max_retries /\ is_retryable_static(result)
    IN  /\ fwd[r].pc = "calling"
        /\ calls[r].pc = "returned"
        /\ fwd' = [fwd EXCEPT ![r].pc     = IF again THEN "backing_off" ELSE "done",
                              ![r].result = result]
        /\ recorded' = [recorded EXCEPT
                           ![r].outcome = IF result = "Ok" THEN "success" ELSE @]
        /\ UNCHANGED <<lbVars, calls, wire>>

BackoffOver(r) ==
    /\ fwd[r].pc = "backing_off"
    /\ fwd' = [fwd EXCEPT ![r].pc = "picking", ![r].attempt = @ + 1]
    /\ UNCHANGED <<lbVars, calls, wire, recorded>>

\* The pool changes under the requests: operators, the health checker, and
\* other requests that move the index.
PoolChanges ==
    /\ \/ check_circuit_timeouts
       \/ \E n \in Addr \cup {NoNode} : next_node(n)
       \/ \E a \in Addr :
             \/ add_node(a)
             \/ remove_node(a)
             \/ disable_node(a)
             \/ enable_node(a)
             \/ \E healthy \in BOOLEAN : HealthUpdate(a, healthy, FALSE, FALSE)
    /\ UNCHANGED <<calls, wire, fwd, recorded>>

-----------------------------------------------------------------------------
Step(r) == PickNode(r) \/ CallNode(r) \/ NodeReturned(r) \/ BackoffOver(r)

-----------------------------------------------------------------------------
FwdTypeOK ==
    /\ LBTypeOK
    /\ ClientTypeOK
    /\ fwd \in [Req -> [pc      : {"picking", "calling", "backing_off", "done"},
                        attempt : 0..max_retries,
                        node    : Addr \cup {NoNode},
                        result  : {"Ok"} \cup MadrpcError]]
    /\ recorded \in [Req -> [outcome  : {"nothing", "success", "failure"},
                             forwards : Nat]]

(***************************************************************************)
(* Retries are safe as far as they can be: the two nested retry loops run  *)
(* the script of one request again only after a response was lost on the   *)
(* network, never after a script's answer or error came back.              *)
(***************************************************************************)
ReRunOnlyAfterLoss ==
    \A r \in Req : wire[r].ran <= 1 + wire[r].lost

(***************************************************************************)
(* The nested loops of orchestrator and client multiply, and no further: a *)
(* request is sent at most max_attempts times for each forward the metrics *)
(* know of, and forwarded at most once per pass, whatever nodes were       *)
(* picked.                                                                 *)
(***************************************************************************)
SendBudget ==
    \A r \in Req :
        /\ wire[r].sent <= recorded[r].forwards * max_attempts
        /\ recorded[r].forwards <=
               fwd[r].attempt + (IF fwd[r].pc = "picking" THEN 0 ELSE 1)

(***************************************************************************)
(* A request is reported successful exactly when a node's result reached   *)
(* the orchestrator, and then nothing of it is still in flight.            *)
(***************************************************************************)
SuccessIsFinal ==
    \A r \in Req :
        recorded[r].outcome = "success" <=>
            /\ fwd[r].pc = "done"
            /\ fwd[r].result = "Ok"
            /\ calls[r].pc = "returned"
            /\ wire[r].ran > wire[r].lost

=============================================================================
