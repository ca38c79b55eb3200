------------------------------ MODULE FrontEnd ------------------------------
(***************************************************************************)
(* The orchestrator from the socket inwards: the axum handler              *)
(* (madrpc-orchestrator/src/http_server.rs) with rate limit, API key,      *)
(* content type and JSON-RPC parsing, the router (http_router.rs) with its *)
(* built-in methods, and behind it Forwarding.                             *)
(*                                                                         *)
(* A request is followed from its arrival to its answer and to what the    *)
(* MadrpcClient that sent it makes of that answer.                         *)
(***************************************************************************)
EXTENDS Forwarding

VARIABLE http       \* the handler of each request, and its answer

allVars == <<fwdVars, http>>

(* jsonrpc.rs *)
NODE_REGISTRATION_ERROR == -32002

OK == 200

\* An answer: HTTP status, and the code of the JSON-RPC error in it, 0 if none.
NoAnswer == [status |-> 0, code |-> 0]
HttpAnswer(status, code) == [status |-> status, code |-> code]

FrontInit ==
    /\ FwdInit
    /\ http = [r \in Req |-> [pc |-> "arrived", answer |-> NoAnswer]]

Answered(r, pc, answer) == http' = [http EXCEPT ![r] = [pc |-> pc, answer |-> answer]]

-----------------------------------------------------------------------------
(***************************************************************************)
(* handle_jsonrpc up to the router.  The body is extracted before the      *)
(* handler runs (413 beyond axum's limit).  Each check leaves at once, in  *)
(* the order rate limit, API key, content type, JSON, so only the first    *)
(* reason is told.                                                         *)
(***************************************************************************)
TurnedAwayWith == {413, 429, 401, 415, 400}

\* Mutant: a request may be turned away after it went to the router.
RejectLate(r) ==
    /\ http[r].pc \in {"arrived", "forwarded"}
    /\ \E status \in TurnedAwayWith :
          Answered(r, "turned_away", HttpAnswer(status, 0))
    /\ UNCHANGED fwdVars

handle_jsonrpc(r) ==
    /\ http[r].pc = "arrived"
    /\ \E status \in TurnedAwayWith :
          Answered(r, "turned_away", HttpAnswer(status, 0))
    /\ UNCHANGED fwdVars

\* _metrics and _info read the pool and the metrics; neither can fail.
handle_builtin(r) ==
    /\ http[r].pc = "arrived"
    /\ Answered(r, "served_here", HttpAnswer(OK, 0))
    /\ UNCHANGED fwdVars

\* _register: no node_url, not a URL, or a node for the pool.
handle_register(r) ==
    /\ http[r].pc = "arrived"
    /\ \/ /\ \E code \in {INVALID_PARAMS, NODE_REGISTRATION_ERROR} :
                Answered(r, "served_here", HttpAnswer(OK, code))
          /\ UNCHANGED lbVars
       \/ /\ Answered(r, "served_here", HttpAnswer(OK, 0))
          /\ \E a \in Addr : register_node(a)
    /\ UNCHANGED <<calls, wire, fwd, recorded>>

\* Any other method: forward_to_node awaits forward_request_jsonrpc.
StartForward(r) ==
    /\ http[r].pc = "arrived"
    /\ Answered(r, "forwarded", NoAnswer)
    /\ UNCHANGED fwdVars

ForwardStep(r) ==
    /\ http[r].pc = "forwarded"
    /\ Step(r)
    /\ UNCHANGED http

\* Mutant: a failed forward is answered as an internal error.
ForwardAsInternal(r) ==
    /\ http[r].pc = "forwarded"
    /\ fwd[r].pc = "done"
    /\ IF fwd[r].result = "Ok"
       THEN Answered(r, "result", HttpAnswer(OK, 0))
       ELSE Answered(r, "error", HttpAnswer(OK, INTERNAL_ERROR))
    /\ UNCHANGED fwdVars

\* forward_to_node: whatever went wrong becomes a server error.
forward_to_node(r) ==
    /\ http[r].pc = "forwarded"
    /\ fwd[r].pc = "done"
    /\ IF fwd[r].result = "Ok"
       THEN Answered(r, "result", HttpAnswer(OK, 0))
       ELSE Answered(r, "error", HttpAnswer(OK, SERVER_ERROR))
    /\ UNCHANGED fwdVars

-----------------------------------------------------------------------------
Handler(r) ==
    \/ handle_jsonrpc(r) \/ handle_builtin(r) \/ handle_register(r)
    \/ StartForward(r) \/ ForwardStep(r) \/ forward_to_node(r)

FrontNext ==
    \/ PoolChanges /\ UNCHANGED http
    \/ \E r \in Req : Handler(r)

(***************************************************************************)
(* tokio polls every task and timers fire.  Nothing is assumed of nodes: a *)
(* node that was called may stay silent for ever, and the code sets no     *)
(* timeout on the call.                                                    *)
(***************************************************************************)
OwnStep(r) == Handler(r) /\ (fwd[r].pc = "calling" => calls[r].pc # "trying")

FrontSpec ==
    /\ FrontInit /\ [][FrontNext]_allVars
    /\ \A r \in Req : WF_allVars(OwnStep(r))

-----------------------------------------------------------------------------
FrontTypeOK ==
    /\ FwdTypeOK
    /\ http \in [Req -> [pc     : {"arrived", "forwarded", "turned_away",
                                   "served_here", "result", "error"},
                         answer : [status : {0, OK} \cup TurnedAwayWith,
                                   code   : Int]]]

(***************************************************************************)
(* The two nested retry loops, a pool that changes between any two steps,  *)
(* lost responses and the handler's early exits together behave like       *)
(* RequestService: one answer for each request, results backed by a run,   *)
(* and no more runs than the two loops multiply to.                        *)
(***************************************************************************)
Service == INSTANCE RequestService WITH
               Budget <- (max_retries + 1) * max_attempts,
               stage  <- [r \in Req |-> http[r].pc],
               runs   <- [r \in Req |-> wire[r].ran]

ServiceImplemented == Service!ServiceSpec

\* What try_call makes of the answer at the client that sent the request.
CallerSees(answer) ==
    IF answer.status # OK
    THEN try_call(Answer("status_4xx", 0, FALSE))
    ELSE try_call(Answer(IF answer.code = 0 THEN "result" ELSE "error",
                         answer.code, TRUE))

(***************************************************************************)
(* The client of the orchestrator retries too, and knows only the code it  *)
(* is given.  An answer that makes it send the request again is given only *)
(* if the script has not run: what is retryable between orchestrator and   *)
(* node is final beyond the orchestrator.                                  *)
(***************************************************************************)
AnsweredErrorsAreFinal ==
    \A r \in Req :
        (/\ http[r].answer # NoAnswer
         /\ is_retryable(CallerSees(http[r].answer)))
        => wire[r].ran = 0

(***************************************************************************)
(* The only thing that can keep a request from being answered is a node    *)
(* that stays silent: no loop, backoff or change of the pool can.          *)
(***************************************************************************)
HangsOnlyOnSilentNode ==
    \A r \in Req :
        \/ <>(http[r].answer # NoAnswer)
        \/ <>[](fwd[r].pc = "calling" /\ calls[r].pc = "trying")

\* The steps that are left of a client's call, at most, and the one that hands
\* its result to the loop around it.
StepsOfCall(call) ==
    LET tries == max_attempts - call.attempt
    IN  CASE call.pc = "trying"  -> 2 * tries + 2
          [] call.pc = "waiting" -> 2 * tries + 1
          [] OTHER               -> 1

\* The steps that are left of a request's handler, at most.
StepsLeft(r) ==
    LET turn   == 2 * max_attempts + 3
        turns  == turn * (max_retries - fwd[r].attempt)
        within == CASE fwd[r].pc = "picking"     -> turns + turn - 1
                    [] fwd[r].pc = "calling"     -> turns + StepsOfCall(calls[r]) + 1
                    [] fwd[r].pc = "backing_off" -> turns + 1
                    [] OTHER                     -> 1
    IN  CASE http[r].pc = "arrived"   -> turns + turn
          [] http[r].pc = "forwarded" -> within
          [] OTHER                    -> 0

(***************************************************************************)
(* No request goes round for ever: each step of its handler leaves fewer   *)
(* of them, of (2 * max_attempts + 3) * (max_retries + 1) at most, and no  *)
(* other request and no change of the pool ever adds one.                  *)
(***************************************************************************)
RequestsRunOut ==
    [][\A r \in Req :
          /\ Handler(r) => StepsLeft(r)' < StepsLeft(r)
          /\ StepsLeft(r)' <= StepsLeft(r)]_allVars

=============================================================================
