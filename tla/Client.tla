------------------------------- MODULE Client -------------------------------
(***************************************************************************)
(* MadrpcClient: madrpc-client/src/client.rs (the retry loop of `call` and *)
(* the classification of answers in `try_call`) with the error type of     *)
(* madrpc-common/src/protocol/error.rs and the codes of jsonrpc.rs.        *)
(*                                                                         *)
(* Calls run concurrently and share nothing but the server's answers.  The *)
(* answer to a try, and whether the server ran the script for it, is up to *)
(* the server and the network.                                             *)
(***************************************************************************)
EXTENDS Integers

CONSTANTS
    Call,           \* calls in flight
    max_attempts    \* client::RetryConfig::max_attempts

ASSUME AttemptsAssumption == max_attempts \in Nat \ {0}

VARIABLES
    calls,   \* the state of each call
    wire     \* history: what happened to each call's tries

clientVars == <<calls, wire>>

-----------------------------------------------------------------------------
(* jsonrpc.rs *)

PARSE_ERROR       == -32700
INVALID_REQUEST   == -32600
METHOD_NOT_FOUND  == -32601
INVALID_PARAMS    == -32602
INTERNAL_ERROR    == -32603
REQUEST_TOO_LARGE == -32001
SERVER_ERROR      == -32000

(***************************************************************************)
(* The arms of the match in try_call, in their order.  The range arm is    *)
(* written above the arm for REQUEST_TOO_LARGE and contains its code, so   *)
(* that arm never applies.                                                 *)
(***************************************************************************)
ErrorOfCode(code) ==
    CASE code \in {PARSE_ERROR, INVALID_REQUEST}     -> "InvalidResponse"
      [] code \in {METHOD_NOT_FOUND, INVALID_PARAMS} -> "InvalidRequest"
      [] code = INTERNAL_ERROR                       -> "NodeUnavailable"
      [] code \in -32099..-32001                     -> "NodeUnavailable"
      [] OTHER                                       -> "JavaScriptExecution"

(* error.rs *)

MadrpcError ==
    {"Transport", "JsonSerialization", "Timeout", "NodeUnavailable",
     "JavaScriptExecution", "InvalidResponse", "AllNodesFailed",
     "InvalidRequest", "Io", "Connection", "PoolTimeout", "PoolExhausted",
     "PayloadTooLarge"}

\* Mutant: an error of the script counts as retryable.
RetriesScriptErrors(error) ==
    error \in {"Transport", "Timeout", "NodeUnavailable", "Io", "Connection",
               "PoolTimeout", "JavaScriptExecution"}

is_retryable(error) ==
    error \in {"Transport", "Timeout", "NodeUnavailable", "Io", "Connection",
               "PoolTimeout"}

-----------------------------------------------------------------------------
(***************************************************************************)
(* What one try can meet (the environment).  ran tells whether the server  *)
(* executed the script; code is the JSON-RPC error code, 0 if none.        *)
(***************************************************************************)
Answer(kind, code, ran) == [kind |-> kind, code |-> code, ran |-> ran]

Answers ==
    {Answer("result", 0, TRUE),                   \* the script's result
     Answer("error", SERVER_ERROR, TRUE),         \* the script failed
     Answer("error", METHOD_NOT_FOUND, FALSE),
     Answer("error", PARSE_ERROR, FALSE),
     Answer("error", INTERNAL_ERROR, FALSE),      \* request body unreadable
     Answer("error", REQUEST_TOO_LARGE, FALSE),
     Answer("status_4xx", 0, FALSE),              \* rate limited, bad API key
     Answer("status_5xx", 0, FALSE),              \* a proxy in between
     Answer("network", 0, FALSE),                 \* refused, or request lost
     Answer("network", 0, TRUE),                  \* response lost
     Answer("garbage", 0, TRUE)}                  \* body is not JSON-RPC

\* What try_call makes of it: "Ok" or an error.
try_call(answer) ==
    CASE answer.kind = "result"                      -> "Ok"
      [] answer.kind = "error"                       -> ErrorOfCode(answer.code)
      [] answer.kind \in {"network", "status_5xx"}   -> "Transport"
      [] answer.kind \in {"garbage", "status_4xx"}   -> "InvalidResponse"

-----------------------------------------------------------------------------
ClientInit ==
    /\ calls = [c \in Call |-> [pc |-> "idle", attempt |-> 0, result |-> "Ok"]]
    /\ wire = [c \in Call |-> [sent |-> 0, ran |-> 0, lost |-> 0, code |-> 0]]

\* Mutant: a client serves one call only.
StartOnce(c) ==
    /\ calls[c].pc = "idle"
    /\ calls' = [calls EXCEPT ![c] =
                    [pc |-> "trying", attempt |-> 1, result |-> "Ok"]]
    /\ UNCHANGED wire

\* `call` is entered, by a client that may have been used before.
StartCall(c) ==
    /\ calls[c].pc \in {"idle", "returned"}
    /\ calls' = [calls EXCEPT ![c] =
                    [pc |-> "trying", attempt |-> 1, result |-> "Ok"]]
    /\ UNCHANGED wire

\* Mutant: one attempt too many.
OneTryTooMany(call, outcome) ==
    [call EXCEPT
        !.result = outcome,
        !.pc     = IF is_retryable(outcome) /\ call.attempt <= max_attempts
                   THEN "waiting"
                   ELSE "returned"]

\* Where the loop of `call` goes once try_call has given outcome.
AfterTry(call, outcome) ==
    [call EXCEPT
        !.result = outcome,
        !.pc     = IF is_retryable(outcome) /\ call.attempt < max_attempts
                   THEN "waiting"
                   ELSE "returned"]

ReceiveAnswer(c) ==
    /\ calls[c].pc = "trying"
    /\ \E answer \in Answers :
          /\ calls' = [calls EXCEPT ![c] = AfterTry(@, try_call(answer))]
          /\ wire' = [wire EXCEPT
                ![c] = [sent |-> @.sent + 1,
                        ran  |-> @.ran + (IF answer.ran THEN 1 ELSE 0),
                        lost |-> @.lost + (IF answer.ran /\ answer.kind = "network"
                                           THEN 1 ELSE 0),
                        code |-> answer.code]]

\* The delay is over; the same request goes to the same server again.
RetryCall(c) ==
    /\ calls[c].pc = "waiting"
    /\ calls' = [calls EXCEPT ![c].pc = "trying", ![c].attempt = @ + 1]
    /\ UNCHANGED wire

ClientStep(c) == ReceiveAnswer(c) \/ RetryCall(c)

ClientTypeOK ==
    /\ calls \in [Call -> [pc      : {"idle", "trying", "waiting", "returned"},
                           attempt : 0..max_attempts,
                           result  : {"Ok"} \cup MadrpcError]]
    /\ wire \in [Call -> [sent : Nat, ran : Nat, lost : Nat, code : Int]]

=============================================================================
