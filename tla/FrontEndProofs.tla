--------------------------- MODULE FrontEndProofs ---------------------------
(***************************************************************************)
(* What holds of every request on its way through the orchestrator, for    *)
(* any number of requests, nodes, passes and attempts: the nested retry    *)
(* loops send and run no more than they may, and FrontEnd implements       *)
(* RequestService.                                                         *)
(***************************************************************************)
EXTENDS FrontEnd, LoadBalancerProofs

CallState == [pc      : {"idle", "trying", "waiting", "returned"},
              attempt : 0..max_attempts,
              result  : {"Ok"} \cup MadrpcError]

WireState == [sent : Nat, ran : Nat, lost : Nat, code : Int]

FwdState == [pc      : {"picking", "calling", "backing_off", "done"},
             attempt : 0..max_retries,
             node    : Addr \cup {NoNode},
             result  : {"Ok"} \cup MadrpcError]

RecordState == [outcome : {"nothing", "success", "failure"}, forwards : Nat]

HttpState == [pc     : {"arrived", "forwarded", "turned_away",
                        "served_here", "result", "error"},
              answer : [status : {0, OK} \cup TurnedAwayWith, code : Int]]

-----------------------------------------------------------------------------
(* One request: c its call, w what happened on the wire, f its task, n what *)
(* was recorded of it, h its handler.                                      *)

\* The outcomes of a try that neither loop tries again.
Final == {"Ok", "JavaScriptExecution", "InvalidResponse", "InvalidRequest"}

\* k forwards may send this often.
Sends(k) == k * max_attempts

\* The client's tries so far in this pass that have reached the wire.
Tries(c) == IF c.pc = "trying" THEN c.attempt - 1 ELSE c.attempt

Bounded(c, w, f, n) ==
    /\ f.pc = "calling" => /\ n.forwards > 0
                           /\ w.sent <= Sends(n.forwards - 1) + Tries(c)
    /\ f.pc # "calling" => w.sent <= Sends(n.forwards)
    /\ n.forwards <= f.attempt + (IF f.pc = "picking" THEN 0 ELSE 1)
    /\ w.ran <= w.sent

Backed(c, w, f) ==
    /\ w.lost <= w.ran
    /\ w.ran <= w.lost + 1
    /\ w.ran > w.lost => \/ f.pc = "calling" /\ c.pc = "returned" /\ c.result \in Final
                         \/ f.pc = "done"
    /\ c.pc = "returned" /\ c.result = "Ok" => w.ran > w.lost

Calling(c, f) ==
    f.pc = "calling" => /\ c.pc # "idle"
                        /\ c.attempt > 0
                        /\ c.pc = "waiting" => c.attempt < max_attempts

Retrying(f) == f.pc = "backing_off" => f.attempt < max_retries

Recorded(c, f, n) ==
    IF f.pc = "done" /\ f.result = "Ok"
    THEN n.outcome = "success" /\ c.pc = "returned" /\ c.result = "Ok"
    ELSE n.outcome = "nothing"

Handled(w, f, h) ==
    /\ h.pc \in {"arrived", "turned_away", "served_here"} => w.ran = 0 /\ f.pc = "picking"
    /\ h.pc \in {"arrived", "forwarded"} => h.answer = NoAnswer
    /\ h.pc \in {"result", "error"} => f.pc = "done"
    /\ h.pc = "result" => h.answer = HttpAnswer(OK, 0)
    /\ h.pc = "error" => h.answer = HttpAnswer(OK, SERVER_ERROR)

Good(c, w, f, n, h) ==
    /\ Bounded(c, w, f, n)
    /\ Backed(c, w, f)
    /\ Calling(c, f)
    /\ Retrying(f)
    /\ Recorded(c, f, n)
    /\ Handled(w, f, h)

Shape ==
    /\ calls \in [Req -> CallState]
    /\ wire \in [Req -> WireState]
    /\ fwd \in [Req -> FwdState]
    /\ recorded \in [Req -> RecordState]
    /\ http \in [Req -> HttpState]

AllGood == \A r \in Req : Good(calls[r], wire[r], fwd[r], recorded[r], http[r])

RequestInv == Shape /\ AllGood

-----------------------------------------------------------------------------
\* Every answer carries an integer code.
LEMMA AnswersLemma ==
    \A answer \in Answers : answer.code \in Int
<1>1. /\ SERVER_ERROR \in Int /\ METHOD_NOT_FOUND \in Int /\ PARSE_ERROR \in Int
      /\ INTERNAL_ERROR \in Int /\ REQUEST_TOO_LARGE \in Int
  BY DEF SERVER_ERROR, METHOD_NOT_FOUND, PARSE_ERROR, INTERNAL_ERROR, REQUEST_TOO_LARGE
<1> QED
  BY <1>1 DEF Answers, Answer

\* Only a result is taken for one, and what came back from a script that ran
\* is final.
LEMMA TryCallLemma ==
    ASSUME NEW answer \in Answers
    PROVE  /\ try_call(answer) \in {"Ok"} \cup MadrpcError
           /\ try_call(answer) = "Ok" => answer.kind = "result" /\ answer.ran
           /\ answer.ran /\ answer.kind # "network" => try_call(answer) \in Final
BY DEF Answers, Answer, try_call, ErrorOfCode, Final, MadrpcError, PARSE_ERROR,
       INVALID_REQUEST, METHOD_NOT_FOUND, INVALID_PARAMS, INTERNAL_ERROR,
       REQUEST_TOO_LARGE, SERVER_ERROR

\* What is final is retried by neither loop.
LEMMA FinalLemma ==
    \A e \in Final : ~is_retryable(e) /\ ~is_retryable_static(e)
BY DEF Final, is_retryable, is_retryable_static

\* Sends counts in steps of max_attempts.
LEMMA SendsLemma ==
    /\ Sends(0) = 0
    /\ \A k \in Nat : Sends(k) \in Nat /\ Sends(k + 1) = Sends(k) + max_attempts
    /\ \A k, l \in Nat : k <= l => Sends(k) <= Sends(l)
<1>1. max_attempts \in Nat
  BY AttemptsAssumption
<1>2. Sends(0) = 0
  BY <1>1 DEF Sends
<1>3. ASSUME NEW k \in Nat
      PROVE  Sends(k) \in Nat /\ Sends(k + 1) = Sends(k) + max_attempts
  BY <1>1 DEF Sends
<1>4. ASSUME NEW k \in Nat, NEW l \in Nat, k <= l
      PROVE  Sends(k) <= Sends(l)
  <2>1. PICK d \in Nat : l = k + d
    BY <1>4
  <2>2. Sends(l) = Sends(k) + Sends(d) /\ Sends(d) \in Nat /\ Sends(k) \in Nat
    BY <1>1, <2>1 DEF Sends
  <2> QED
    BY <2>2
<1> QED
  BY <1>2, <1>3, <1>4

\* A step that concerns one request only and leaves it good.
OneRequestStep(r, c, w, f, n, h) ==
    /\ c \in CallState /\ w \in WireState /\ f \in FwdState
    /\ n \in RecordState /\ h \in HttpState
    /\ Good(c, w, f, n, h)
    /\ calls' = [calls EXCEPT ![r] = c]
    /\ wire' = [wire EXCEPT ![r] = w]
    /\ fwd' = [fwd EXCEPT ![r] = f]
    /\ recorded' = [recorded EXCEPT ![r] = n]
    /\ http' = [http EXCEPT ![r] = h]

\* It leaves all requests good.
LEMMA OneRequest ==
    ASSUME RequestInv, NEW r \in Req, NEW c, NEW w, NEW f, NEW n, NEW h,
           OneRequestStep(r, c, w, f, n, h)
    PROVE  RequestInv'
<1>1. Shape'
  BY DEF RequestInv, Shape, OneRequestStep
<1>2. ASSUME NEW q \in Req
      PROVE  Good(calls'[q], wire'[q], fwd'[q], recorded'[q], http'[q])
  BY DEF RequestInv, AllGood, Shape, OneRequestStep
<1> QED
  BY <1>1, <1>2 DEF RequestInv, AllGood

-----------------------------------------------------------------------------
(* The steps of forward_request_jsonrpc and of the client below it *)

\* No node ends the request; a node starts a forward with a fresh call.
LEMMA PickNodeKeeps ==
    ASSUME RequestInv, NEW r \in Req, http[r].pc = "forwarded", PickNode(r), UNCHANGED http
    PROVE  RequestInv'
<1> DEFINE c == calls[r]
           w == wire[r]
           f == fwd[r]
           n == recorded[r]
           h == http[r]
<1>1. /\ c \in CallState /\ w \in WireState /\ f \in FwdState
      /\ n \in RecordState /\ h \in HttpState
      /\ Good(c, w, f, n, h)
      /\ f.pc = "picking"
      /\ h.pc = "forwarded"
  BY DEF RequestInv, Shape, AllGood, PickNode
<1>2. PICK a \in Addr \cup {NoNode} :
         IF a = NoNode
         THEN /\ fwd' = [fwd EXCEPT ![r].pc     = "done",
                                    ![r].result = NoNodeError(fwd[r].attempt)]
              /\ UNCHANGED <<calls, wire, recorded>>
         ELSE /\ fwd' = [fwd EXCEPT ![r].pc = "calling", ![r].node = a]
              /\ recorded' = [recorded EXCEPT ![r].forwards = @ + 1]
              /\ StartCall(r)
  BY DEF PickNode
<1>3. CASE a = NoNode
  <2> DEFINE g == [f EXCEPT !.pc = "done", !.result = NoNodeError(f.attempt)]
  <2>1. /\ NoNodeError(f.attempt) \in MadrpcError
        /\ NoNodeError(f.attempt) # "Ok"
    BY DEF NoNodeError, MadrpcError
  <2>2. /\ g \in FwdState
        /\ g.pc = "done" /\ g.result # "Ok" /\ g.attempt = f.attempt
    BY <1>1, <2>1 DEF FwdState
  <2>3. /\ fwd' = [fwd EXCEPT ![r] = g]
        /\ calls' = [calls EXCEPT ![r] = c]
        /\ wire' = [wire EXCEPT ![r] = w]
        /\ recorded' = [recorded EXCEPT ![r] = n]
        /\ http' = [http EXCEPT ![r] = h]
    BY <1>2, <1>3 DEF RequestInv, Shape
  <2> HIDE DEF g
  <2>4. Good(c, w, g, n, h)
    BY <1>1, <2>2 DEF Good, Bounded, Backed, Calling, Retrying, Recorded, Handled, RecordState, FwdState
  <2> HIDE DEF c, w, f, n, h
  <2>5. OneRequestStep(r, c, w, g, n, h)
    BY <1>1, <2>2, <2>3, <2>4 DEF OneRequestStep
  <2> QED
    BY <2>5, OneRequest
<1>4. CASE a # NoNode
  <2> DEFINE d == [pc |-> "trying", attempt |-> 1, result |-> "Ok"]
             g == [f EXCEPT !.pc = "calling", !.node = a]
             m == [n EXCEPT !.forwards = @ + 1]
  <2>1. d \in CallState /\ d.pc = "trying" /\ d.attempt = 1
    BY AttemptsAssumption DEF CallState
  <2>2. g \in FwdState /\ g.pc = "calling" /\ g.attempt = f.attempt
    BY <1>1 DEF FwdState
  <2>3. m \in RecordState /\ m.outcome = n.outcome /\ m.forwards = n.forwards + 1
    BY <1>1 DEF RecordState
  <2>4. /\ fwd' = [fwd EXCEPT ![r] = g]
        /\ calls' = [calls EXCEPT ![r] = d]
        /\ wire' = [wire EXCEPT ![r] = w]
        /\ recorded' = [recorded EXCEPT ![r] = m]
        /\ http' = [http EXCEPT ![r] = h]
    BY <1>2, <1>4 DEF RequestInv, Shape, StartCall
  <2> HIDE DEF d, g, m, c, w, f, n, h
  <2>5. /\ n.forwards \in Nat /\ f.attempt \in Nat /\ w.sent \in Nat
        /\ m.forwards - 1 = n.forwards
    BY <1>1, <2>3, RetriesAssumption DEF RecordState, FwdState, WireState
  <2>6. Bounded(d, w, g, m)
    <3>1. Sends(m.forwards - 1) = Sends(n.forwards) /\ Sends(n.forwards) \in Nat
      BY <2>5, SendsLemma
    <3>2. Tries(d) = 0
      BY <2>1 DEF Tries
    <3>3. /\ w.sent <= Sends(n.forwards)
          /\ n.forwards <= f.attempt
          /\ w.ran <= w.sent
      BY <1>1, <2>5 DEF Good, Bounded
    <3> QED
      BY <2>2, <2>3, <2>5, <3>1, <3>2, <3>3 DEF Bounded
  <2>7. Good(d, w, g, m, h)
    BY <1>1, <2>1, <2>2, <2>3, <2>6 DEF Good, Backed, Calling, Retrying, Recorded, Handled
  <2>8. OneRequestStep(r, d, w, g, m, h)
    BY <1>1, <2>1, <2>2, <2>3, <2>4, <2>7 DEF OneRequestStep
  <2> QED
    BY <2>8, OneRequest
<1> QED
  BY <1>3, <1>4

\* Where one try leaves the call.
LEMMA AfterTryLemma ==
    ASSUME NEW c \in CallState, NEW e \in {"Ok"} \cup MadrpcError
    PROVE  /\ AfterTry(c, e) \in CallState
           /\ AfterTry(c, e).result = e
           /\ AfterTry(c, e).attempt = c.attempt
           /\ AfterTry(c, e).pc \in {"waiting", "returned"}
           /\ AfterTry(c, e).pc = "waiting" => is_retryable(e) /\ c.attempt < max_attempts
BY DEF AfterTry, CallState

\* One more try has reached the wire, and was possibly run, or lost.
LEMMA ReceiveAnswerKeeps ==
    ASSUME RequestInv, NEW r \in Req, http[r].pc = "forwarded", fwd[r].pc = "calling",
           ReceiveAnswer(r), UNCHANGED <<fwd, recorded, http>>
    PROVE  RequestInv'
<1> DEFINE c == calls[r]
           w == wire[r]
           f == fwd[r]
           n == recorded[r]
           h == http[r]
<1>1. /\ c \in CallState /\ w \in WireState /\ f \in FwdState
      /\ n \in RecordState /\ h \in HttpState
      /\ Good(c, w, f, n, h)
      /\ f.pc = "calling" /\ c.pc = "trying" /\ h.pc = "forwarded"
  BY DEF RequestInv, Shape, AllGood, ReceiveAnswer
<1>2. PICK answer \in Answers :
         /\ calls' = [calls EXCEPT ![r] = AfterTry(@, try_call(answer))]
         /\ wire' = [wire EXCEPT
                ![r] = [sent |-> @.sent + 1,
                        ran  |-> @.ran + (IF answer.ran THEN 1 ELSE 0),
                        lost |-> @.lost + (IF answer.ran /\ answer.kind = "network"
                                           THEN 1 ELSE 0),
                        code |-> answer.code]]
  BY DEF ReceiveAnswer
<1>3. answer.code \in Int
  BY AnswersLemma
<1> DEFINE e == try_call(answer)
           d == AfterTry(c, e)
           v == [sent |-> w.sent + 1,
                 ran  |-> w.ran + (IF answer.ran THEN 1 ELSE 0),
                 lost |-> w.lost + (IF answer.ran /\ answer.kind = "network" THEN 1 ELSE 0),
                 code |-> answer.code]
<1>4. /\ e \in {"Ok"} \cup MadrpcError
      /\ e = "Ok" => answer.kind = "result" /\ answer.ran
      /\ answer.ran /\ answer.kind # "network" => e \in Final
  BY TryCallLemma
<1>5. /\ calls' = [calls EXCEPT ![r] = d]
      /\ wire' = [wire EXCEPT ![r] = v]
      /\ fwd' = [fwd EXCEPT ![r] = f]
      /\ recorded' = [recorded EXCEPT ![r] = n]
      /\ http' = [http EXCEPT ![r] = h]
  BY <1>2 DEF RequestInv, Shape
<1>6. /\ v \in WireState
      /\ v.sent = w.sent + 1
      /\ v.ran = IF answer.ran THEN w.ran + 1 ELSE w.ran
      /\ v.lost = IF answer.ran /\ answer.kind = "network" THEN w.lost + 1 ELSE w.lost
      /\ w.sent \in Nat /\ w.ran \in Nat /\ w.lost \in Nat
  BY <1>1, <1>3 DEF WireState
<1> HIDE DEF e
<1>7. /\ d \in CallState
      /\ d.result = e
      /\ d.attempt = c.attempt
      /\ d.pc \in {"waiting", "returned"}
      /\ d.pc = "waiting" => is_retryable(e) /\ c.attempt < max_attempts
  BY <1>1, <1>4, AfterTryLemma
<1> HIDE DEF c, w, f, n, h, d, v
<1>8. w.ran = w.lost
  BY <1>1, <1>6 DEF Good, Backed
<1>9. Bounded(d, v, f, n)
  <2>1. n.forwards \in Nat /\ n.forwards > 0 /\ c.attempt \in Nat
    BY <1>1, AttemptsAssumption DEF Good, Bounded, RecordState, CallState
  <2>2. Sends(n.forwards - 1) \in Nat
    BY <2>1, SendsLemma
  <2>3. Tries(c) = c.attempt - 1 /\ Tries(d) = c.attempt
    BY <1>1, <1>7 DEF Tries
  <2>4. w.sent <= Sends(n.forwards - 1) + Tries(c) /\ w.ran <= w.sent
    BY <1>1 DEF Good, Bounded
  <2>5. v.sent <= Sends(n.forwards - 1) + Tries(d) /\ v.ran <= v.sent
    BY <1>6, <2>1, <2>2, <2>3, <2>4
  <2> QED
    BY <1>1, <2>1, <2>5 DEF Good, Bounded
<1>10. Backed(d, v, f)
  <2>1. v.ran > v.lost => d.pc = "returned" /\ d.result \in Final
    BY <1>3, <1>4, <1>6, <1>7, <1>8, FinalLemma
  <2>2. d.pc = "returned" /\ d.result = "Ok" => v.ran > v.lost
    BY <1>4, <1>6, <1>7, <1>8
  <2>3. v.lost <= v.ran /\ v.ran <= v.lost + 1
    BY <1>3, <1>6, <1>8
  <2> QED
    BY <1>1, <2>1, <2>2, <2>3 DEF Backed
<1>11. Good(d, v, f, n, h)
  BY <1>1, <1>7, <1>9, <1>10 DEF Good, Calling, Retrying, Recorded, Handled
<1>12. OneRequestStep(r, d, v, f, n, h)
  BY <1>1, <1>5, <1>6, <1>7, <1>11 DEF OneRequestStep
<1> QED
  BY <1>12, OneRequest

\* The next try is still within max_attempts.
LEMMA RetryCallKeeps ==
    ASSUME RequestInv, NEW r \in Req, http[r].pc = "forwarded", fwd[r].pc = "calling",
           RetryCall(r), UNCHANGED <<fwd, recorded, http>>
    PROVE  RequestInv'
<1> DEFINE c == calls[r]
           w == wire[r]
           f == fwd[r]
           n == recorded[r]
           h == http[r]
           d == [c EXCEPT !.pc = "trying", !.attempt = @ + 1]
<1>1. /\ c \in CallState /\ w \in WireState /\ f \in FwdState
      /\ n \in RecordState /\ h \in HttpState
      /\ Good(c, w, f, n, h)
      /\ f.pc = "calling" /\ c.pc = "waiting" /\ h.pc = "forwarded"
  BY DEF RequestInv, Shape, AllGood, RetryCall
<1>2. /\ calls' = [calls EXCEPT ![r] = d]
      /\ wire' = [wire EXCEPT ![r] = w]
      /\ fwd' = [fwd EXCEPT ![r] = f]
      /\ recorded' = [recorded EXCEPT ![r] = n]
      /\ http' = [http EXCEPT ![r] = h]
  BY DEF RequestInv, Shape, RetryCall
<1>3. c.attempt \in Nat /\ c.attempt < max_attempts /\ c.attempt + 1 \in 0..max_attempts
  BY <1>1, AttemptsAssumption DEF CallState, Good, Calling
<1>4. /\ d \in CallState
      /\ d.pc = "trying"
      /\ d.attempt = c.attempt + 1
      /\ d.result = c.result
  BY <1>1, <1>3 DEF CallState
<1> HIDE DEF c, w, f, n, h, d
<1>5. Tries(d) = Tries(c)
  BY <1>1, <1>3, <1>4 DEF Tries
<1>6. Good(d, w, f, n, h)
  BY <1>1, <1>3, <1>4, <1>5 DEF Good, Bounded, Backed, Calling, Retrying, Recorded, Handled
<1>7. OneRequestStep(r, d, w, f, n, h)
  BY <1>1, <1>2, <1>4, <1>6 DEF OneRequestStep
<1> QED
  BY <1>7, OneRequest

\* The loop goes on only if nothing was run, or what was run was lost.
LEMMA NodeReturnedKeeps ==
    ASSUME RequestInv, NEW r \in Req, http[r].pc = "forwarded", NodeReturned(r), UNCHANGED http
    PROVE  RequestInv'
<1> DEFINE c == calls[r]
           w == wire[r]
           f == fwd[r]
           n == recorded[r]
           h == http[r]
           again == f.attempt < max_retries /\ is_retryable_static(c.result)
           g == [f EXCEPT !.pc = IF again THEN "backing_off" ELSE "done",
                          !.result = c.result]
           m == [n EXCEPT !.outcome = IF c.result = "Ok" THEN "success" ELSE @]
<1>1. /\ c \in CallState /\ w \in WireState /\ f \in FwdState
      /\ n \in RecordState /\ h \in HttpState
      /\ Good(c, w, f, n, h)
      /\ f.pc = "calling" /\ c.pc = "returned" /\ h.pc = "forwarded"
  BY DEF RequestInv, Shape, AllGood, NodeReturned
<1>2. /\ calls' = [calls EXCEPT ![r] = c]
      /\ wire' = [wire EXCEPT ![r] = w]
      /\ fwd' = [fwd EXCEPT ![r] = g]
      /\ recorded' = [recorded EXCEPT ![r] = m]
      /\ http' = [http EXCEPT ![r] = h]
  BY DEF RequestInv, Shape, NodeReturned
<1>3. /\ g \in FwdState
      /\ g.pc = IF again THEN "backing_off" ELSE "done"
      /\ g.result = c.result
      /\ g.attempt = f.attempt
  BY <1>1 DEF FwdState, CallState
<1>4. /\ m \in RecordState
      /\ m.outcome = IF c.result = "Ok" THEN "success" ELSE n.outcome
      /\ m.forwards = n.forwards
  BY <1>1 DEF RecordState
<1>5. c.result \in Final => ~again
  BY FinalLemma
<1>6. again => f.attempt < max_retries
  OBVIOUS
<1> HIDE DEF c, w, f, n, h, g, m, again
<1>7. Bounded(c, w, g, m)
  <2>1. n.forwards \in Nat /\ n.forwards > 0 /\ c.attempt \in Nat /\ c.attempt <= max_attempts
        /\ max_attempts \in Nat /\ w.sent \in Nat
    BY <1>1, AttemptsAssumption DEF Good, Bounded, RecordState, CallState, WireState
  <2>2. /\ Sends(n.forwards - 1) \in Nat
        /\ Sends(n.forwards) = Sends(n.forwards - 1) + max_attempts
    <3>1. PICK k \in Nat : n.forwards = k + 1 /\ n.forwards - 1 = k
      BY <2>1
    <3> QED
      BY <3>1, SendsLemma
  <2>3. w.sent <= Sends(n.forwards - 1) + c.attempt
    BY <1>1 DEF Good, Bounded, Tries
  <2>4. w.sent <= Sends(n.forwards)
    BY <2>1, <2>2, <2>3
  <2> QED
    BY <1>1, <1>3, <1>4, <2>4 DEF Good, Bounded
<1>8. Backed(c, w, g)
  BY <1>1, <1>3, <1>5 DEF Good, Backed
<1>9. Recorded(c, g, m)
  BY <1>1, <1>3, <1>4, <1>5 DEF Good, Recorded, Final
<1>10. Good(c, w, g, m, h)
  BY <1>1, <1>3, <1>6, <1>7, <1>8, <1>9 DEF Good, Calling, Retrying, Handled
<1>11. OneRequestStep(r, c, w, g, m, h)
  BY <1>1, <1>2, <1>3, <1>4, <1>10 DEF OneRequestStep
<1> QED
  BY <1>11, OneRequest

\* The next pass is still within max_retries.
LEMMA BackoffOverKeeps ==
    ASSUME RequestInv, NEW r \in Req, http[r].pc = "forwarded", BackoffOver(r), UNCHANGED http
    PROVE  RequestInv'
<1> DEFINE c == calls[r]
           w == wire[r]
           f == fwd[r]
           n == recorded[r]
           h == http[r]
           g == [f EXCEPT !.pc = "picking", !.attempt = @ + 1]
<1>1. /\ c \in CallState /\ w \in WireState /\ f \in FwdState
      /\ n \in RecordState /\ h \in HttpState
      /\ Good(c, w, f, n, h)
      /\ f.pc = "backing_off" /\ h.pc = "forwarded"
  BY DEF RequestInv, Shape, AllGood, BackoffOver
<1>2. /\ calls' = [calls EXCEPT ![r] = c]
      /\ wire' = [wire EXCEPT ![r] = w]
      /\ fwd' = [fwd EXCEPT ![r] = g]
      /\ recorded' = [recorded EXCEPT ![r] = n]
      /\ http' = [http EXCEPT ![r] = h]
  BY DEF RequestInv, Shape, BackoffOver
<1>3. f.attempt \in Nat /\ f.attempt + 1 \in 0..max_retries
  BY <1>1, RetriesAssumption DEF FwdState, Good, Retrying
<1>4. /\ g \in FwdState
      /\ g.pc = "picking"
      /\ g.attempt = f.attempt + 1
  BY <1>1, <1>3 DEF FwdState
<1> HIDE DEF c, w, f, n, h, g
<1>5. Good(c, w, g, n, h)
  BY <1>1, <1>3, <1>4 DEF Good, Bounded, Backed, Calling, Retrying, Recorded, Handled
<1>6. OneRequestStep(r, c, w, g, n, h)
  BY <1>1, <1>2, <1>4, <1>5 DEF OneRequestStep
<1> QED
  BY <1>6, OneRequest

-----------------------------------------------------------------------------
(* The steps of the handler *)

\* The handler moves on, or answers; the request's task is not touched.
LEMMA HandlerMoves ==
    ASSUME RequestInv, NEW r \in Req,
           UNCHANGED <<calls, wire, fwd, recorded>>,
           NEW pc, NEW answer, Answered(r, pc, answer),
           [pc |-> pc, answer |-> answer] \in HttpState,
           Handled(wire[r], fwd[r], [pc |-> pc, answer |-> answer])
    PROVE  RequestInv'
<1> DEFINE c == calls[r]
           w == wire[r]
           f == fwd[r]
           n == recorded[r]
           g == [pc |-> pc, answer |-> answer]
<1>1. /\ c \in CallState /\ w \in WireState /\ f \in FwdState /\ n \in RecordState
      /\ Good(c, w, f, n, http[r])
  BY DEF RequestInv, Shape, AllGood
<1>2. /\ calls' = [calls EXCEPT ![r] = c]
      /\ wire' = [wire EXCEPT ![r] = w]
      /\ fwd' = [fwd EXCEPT ![r] = f]
      /\ recorded' = [recorded EXCEPT ![r] = n]
      /\ http' = [http EXCEPT ![r] = g]
  BY DEF RequestInv, Shape, Answered
<1> HIDE DEF c, w, f, n, g
<1>3. g \in HttpState /\ Handled(w, f, g)
  BY DEF g, w, f
<1>4. OneRequestStep(r, c, w, f, n, g)
  BY <1>1, <1>2, <1>3 DEF OneRequestStep, Good
<1> QED
  BY <1>4, OneRequest

\* The codes the handler answers with.
LEMMA CodesLemma ==
    /\ 0 \in Int /\ SERVER_ERROR \in Int /\ INVALID_PARAMS \in Int
    /\ NODE_REGISTRATION_ERROR \in Int
BY DEF SERVER_ERROR, INVALID_PARAMS, NODE_REGISTRATION_ERROR

\* The request leaves "arrived", with an answer unless it is forwarded.
LEMMA ArrivedMoves ==
    ASSUME RequestInv, NEW r \in Req, http[r].pc = "arrived",
           UNCHANGED <<calls, wire, fwd, recorded>>,
           NEW pc \in {"turned_away", "served_here", "forwarded"},
           NEW status \in {0, OK} \cup TurnedAwayWith, NEW code \in Int,
           pc = "forwarded" => HttpAnswer(status, code) = NoAnswer,
           Answered(r, pc, HttpAnswer(status, code))
    PROVE  RequestInv'
<1> DEFINE answer == HttpAnswer(status, code)
<1>1. [pc |-> pc, answer |-> answer] \in HttpState
  BY DEF HttpState, HttpAnswer
<1>2. Handled(wire[r], fwd[r], http[r])
  BY DEF RequestInv, AllGood, Good
<1> HIDE DEF answer
<1>3. pc = "forwarded" => answer = NoAnswer
  BY DEF answer
<1>4. Handled(wire[r], fwd[r], [pc |-> pc, answer |-> answer])
  BY <1>2, <1>3 DEF Handled
<1>5. Answered(r, pc, answer)
  BY DEF answer
<1> QED
  BY <1>1, <1>4, <1>5, HandlerMoves

\* The answer follows the outcome of the request's task.
LEMMA ForwardToNodeKeeps ==
    ASSUME RequestInv, NEW r \in Req, forward_to_node(r)
    PROVE  RequestInv'
<1> DEFINE pc == IF fwd[r].result = "Ok" THEN "result" ELSE "error"
           code == IF fwd[r].result = "Ok" THEN 0 ELSE SERVER_ERROR
           answer == HttpAnswer(OK, code)
<1>1. /\ pc = "result" => answer = HttpAnswer(OK, 0)
      /\ pc = "error" => answer = HttpAnswer(OK, SERVER_ERROR)
      /\ pc \in {"result", "error"}
      /\ Answered(r, pc, answer)
      /\ UNCHANGED <<calls, wire, fwd, recorded>>
      /\ fwd[r].pc = "done"
  BY DEF forward_to_node, fwdVars
<1>2. answer \in [status : {0, OK} \cup TurnedAwayWith, code : Int]
  BY CodesLemma DEF HttpAnswer
<1> HIDE DEF pc, answer
<1>3. [pc |-> pc, answer |-> answer] \in HttpState
  BY <1>1, <1>2 DEF HttpState
<1>4. Handled(wire[r], fwd[r], [pc |-> pc, answer |-> answer])
  BY <1>1 DEF Handled
<1> QED
  BY <1>1, <1>3, <1>4, HandlerMoves

-----------------------------------------------------------------------------
(* Every step *)

\* A request that has just arrived.
LEMMA InitGood == FrontInit => RequestInv
<1> SUFFICES ASSUME FrontInit PROVE RequestInv
  OBVIOUS
<1> DEFINE c == [pc |-> "idle", attempt |-> 0, result |-> "Ok"]
           w == [sent |-> 0, ran |-> 0, lost |-> 0, code |-> 0]
           f == [pc |-> "picking", attempt |-> 0, node |-> NoNode, result |-> "Ok"]
           n == [outcome |-> "nothing", forwards |-> 0]
           h == [pc |-> "arrived", answer |-> NoAnswer]
<1>1. /\ calls = [r \in Req |-> c] /\ wire = [r \in Req |-> w]
      /\ fwd = [r \in Req |-> f] /\ recorded = [r \in Req |-> n]
      /\ http = [r \in Req |-> h]
  BY DEF FrontInit, FwdInit, ClientInit, Req
<1>2. /\ c \in CallState /\ w \in WireState /\ f \in FwdState
      /\ n \in RecordState /\ h \in HttpState
  BY AttemptsAssumption, RetriesAssumption
     DEF CallState, WireState, FwdState, RecordState, HttpState, NoAnswer
<1>3. Good(c, w, f, n, h)
  BY SendsLemma DEF Good, Bounded, Backed, Calling, Retrying, Recorded, Handled
<1> HIDE DEF c, w, f, n, h
<1> QED
  BY <1>1, <1>2, <1>3 DEF RequestInv, Shape, AllGood

\* What leaves the requests alone leaves their invariant alone.
LEMMA RequestUnchanged ==
    ASSUME RequestInv, UNCHANGED <<calls, wire, fwd, recorded, http>>
    PROVE  RequestInv'
BY DEF RequestInv, Shape, AllGood

\* One case for each disjunct of Handler.
LEMMA HandlerKeeps ==
    ASSUME RequestInv, NEW r \in Req, Handler(r)
    PROVE  RequestInv'
<1> USE DEF fwdVars
<1>1. CASE handle_jsonrpc(r)
  <2>1. PICK status \in TurnedAwayWith :
            Answered(r, "turned_away", HttpAnswer(status, 0))
    BY <1>1 DEF handle_jsonrpc
  <2> QED
    BY <1>1, <2>1, CodesLemma, ArrivedMoves DEF handle_jsonrpc
<1>2. CASE handle_builtin(r)
  BY <1>2, CodesLemma, ArrivedMoves DEF handle_builtin
<1>3. CASE handle_register(r)
  <2>1. PICK code \in {0, INVALID_PARAMS, NODE_REGISTRATION_ERROR} :
            Answered(r, "served_here", HttpAnswer(OK, code))
    BY <1>3 DEF handle_register
  <2>2. code \in Int
    BY CodesLemma
  <2> QED
    BY <1>3, <2>1, <2>2, ArrivedMoves DEF handle_register
<1>4. CASE StartForward(r)
  <2>1. HttpAnswer(0, 0) = NoAnswer
    BY DEF HttpAnswer, NoAnswer
  <2> QED
    BY <1>4, <2>1, CodesLemma, ArrivedMoves DEF StartForward
<1>5. CASE ForwardStep(r)
  <2>1. /\ http[r].pc = "forwarded"
        /\ UNCHANGED http
        /\ \/ PickNode(r) \/ NodeReturned(r) \/ BackoffOver(r)
           \/ /\ fwd[r].pc = "calling" /\ UNCHANGED <<fwd, recorded>>
              /\ ReceiveAnswer(r) \/ RetryCall(r)
    BY <1>5 DEF ForwardStep, Step, CallNode, ClientStep
  <2> QED
    BY <2>1, PickNodeKeeps, NodeReturnedKeeps, BackoffOverKeeps, ReceiveAnswerKeeps,
       RetryCallKeeps
<1>6. CASE forward_to_node(r)
  BY <1>6, ForwardToNodeKeeps
<1> QED
  BY <1>1, <1>2, <1>3, <1>4, <1>5, <1>6 DEF Handler

\* The invariant of the requests is inductive.
LEMMA RequestNext == RequestInv /\ [FrontNext]_allVars => RequestInv'
<1> SUFFICES ASSUME RequestInv, [FrontNext]_allVars PROVE RequestInv'
  OBVIOUS
<1>1. CASE PoolChanges /\ UNCHANGED http
  BY <1>1, RequestUnchanged DEF PoolChanges
<1>2. CASE UNCHANGED allVars
  BY <1>2, RequestUnchanged DEF allVars, fwdVars
<1> QED
  BY <1>1, <1>2, HandlerKeeps DEF FrontNext

\* It holds in every state.
LEMMA RequestAlways == FrontSpec => []RequestInv
BY InitGood, RequestNext, PTL DEF FrontSpec

\* What the requests do to the pool, and what else happens to it.
LEMMA PoolNext == LBInv /\ [FrontNext]_allVars => LBInv'
<1> SUFFICES ASSUME LBInv, [FrontNext]_allVars PROVE LBInv'
  OBVIOUS
<1>1. ASSUME UNCHANGED lbVars
      PROVE  LBInv'
  BY <1>1 DEF LBInv, LBTypeOK, RosterCoherent, CircuitCoherent, lbVars
<1>2. CASE PoolChanges
  <2>1. ASSUME NEW a \in Addr, NEW healthy \in BOOLEAN, HealthUpdate(a, healthy, FALSE, FALSE)
        PROVE  LBInv'
    BY <2>1, HealthUpdateKeeps
  <2> QED
    BY <1>2, <2>1, TimeoutsKeep, NextNodeKeeps, AddKeeps, RemoveKeeps, DisableKeeps, EnableKeeps
       DEF PoolChanges
<1>3. ASSUME NEW r \in Req, Handler(r)
      PROVE  LBInv'
  <2>1. \/ UNCHANGED lbVars
        \/ \E a \in Addr : register_node(a)
        \/ \E a \in Addr \cup {NoNode} : next_node(a)
    BY <1>3 DEF Handler, handle_jsonrpc, handle_builtin, handle_register, StartForward,
                ForwardStep, Step, PickNode, CallNode, NodeReturned, BackoffOver,
                forward_to_node, fwdVars, lbVars
  <2> QED
    BY <1>1, <2>1, RegisterKeeps, NextNodeKeeps
<1>4. CASE UNCHANGED allVars
  BY <1>1, <1>4 DEF allVars, fwdVars, lbVars
<1> QED
  BY <1>2, <1>3, <1>4 DEF FrontNext

\* The invariant of the load balancer holds in every state.
LEMMA PoolAlways == FrontSpec => []LBInv
<1>1. FrontInit => LBInv
  BY LBInitGood DEF FrontInit, FwdInit
<1> QED
  BY <1>1, PoolNext, PTL DEF FrontSpec

-----------------------------------------------------------------------------
(***************************************************************************)
(* Every variable of the orchestrator's front end keeps its type, for any  *)
(* number of requests and nodes.                                           *)
(***************************************************************************)
THEOREM FrontTyped == FrontSpec => []FrontTypeOK
<1>1. LBInv /\ RequestInv => FrontTypeOK
  BY DEF LBInv, RequestInv, Shape, CallState, WireState, FwdState, RecordState, HttpState,
         FrontTypeOK, FwdTypeOK, ClientTypeOK, Req
<1> QED
  BY <1>1, PoolAlways, RequestAlways, PTL

(***************************************************************************)
(* Whatever max_attempts and max_retries are, a script that ran is run     *)
(* again only after its answer was lost.                                   *)
(***************************************************************************)
THEOREM RunsAgainOnlyAfterLoss == FrontSpec => []ReRunOnlyAfterLoss
<1>1. RequestInv => ReRunOnlyAfterLoss
  <2> SUFFICES ASSUME RequestInv, NEW r \in Req PROVE wire[r].ran <= 1 + wire[r].lost
    BY DEF ReRunOnlyAfterLoss
  <2>1. wire[r] \in WireState /\ Backed(calls[r], wire[r], fwd[r])
    BY DEF RequestInv, Shape, AllGood, Good
  <2> QED
    BY <2>1 DEF Backed, WireState
<1> QED
  BY <1>1, RequestAlways, PTL

(***************************************************************************)
(* The two retry loops send a request at most max_attempts times for each  *)
(* forward and forward it at most once per pass, whatever the pool does.   *)
(***************************************************************************)
THEOREM LoopsKeepBudget == FrontSpec => []SendBudget
<1>1. RequestInv => SendBudget
  <2> SUFFICES ASSUME RequestInv, NEW r \in Req
               PROVE  /\ wire[r].sent <= recorded[r].forwards * max_attempts
                      /\ recorded[r].forwards <=
                             fwd[r].attempt + (IF fwd[r].pc = "picking" THEN 0 ELSE 1)
    BY DEF SendBudget
  <2> DEFINE k == recorded[r].forwards
  <2>1. /\ calls[r] \in CallState /\ wire[r] \in WireState /\ k \in Nat
        /\ Bounded(calls[r], wire[r], fwd[r], recorded[r])
        /\ Calling(calls[r], fwd[r])
    BY DEF RequestInv, Shape, AllGood, Good, RecordState
  <2>2. CASE fwd[r].pc # "calling"
    BY <2>1, <2>2 DEF Bounded, Sends
  <2>3. CASE fwd[r].pc = "calling"
    <3>1. /\ k > 0 /\ wire[r].sent <= Sends(k - 1) + Tries(calls[r])
          /\ wire[r].sent \in Nat
          /\ k <= fwd[r].attempt + (IF fwd[r].pc = "picking" THEN 0 ELSE 1)
      BY <2>1, <2>3 DEF Bounded, WireState
    <3>2. /\ Tries(calls[r]) \in Nat /\ Tries(calls[r]) <= max_attempts
          /\ max_attempts \in Nat
      BY <2>1, <2>3, AttemptsAssumption DEF Calling, Tries, CallState
    <3>3. PICK l \in Nat : k = l + 1 /\ k - 1 = l
      BY <2>1, <3>1
    <3>4. Sends(k) = Sends(k - 1) + max_attempts /\ Sends(k - 1) \in Nat
      BY <3>3, SendsLemma
    <3>5. wire[r].sent <= Sends(k)
      BY <3>1, <3>2, <3>4
    <3> QED
      BY <3>1, <3>5 DEF Sends
  <2> QED
    BY <2>2, <2>3
<1> QED
  BY <1>1, RequestAlways, PTL

(***************************************************************************)
(* The metrics count a success exactly for the requests whose result came  *)
(* back from a node.                                                       *)
(***************************************************************************)
THEOREM SuccessesAreFinal == FrontSpec => []SuccessIsFinal
<1>1. RequestInv => SuccessIsFinal
  BY DEF RequestInv, AllGood, Good, Recorded, Backed, SuccessIsFinal
<1> QED
  BY <1>1, RequestAlways, PTL

\* The two answers of forward_to_node, as the client of the orchestrator sees
\* them, make it give up.
LEMMA ForwardedAnswersFinal ==
    /\ ~is_retryable(CallerSees(HttpAnswer(OK, 0)))
    /\ ~is_retryable(CallerSees(HttpAnswer(OK, SERVER_ERROR)))
<1>1. CallerSees(HttpAnswer(OK, 0)) = "Ok"
  BY DEF CallerSees, HttpAnswer, Answer, try_call
<1>2. SERVER_ERROR # 0
  BY DEF SERVER_ERROR
<1>3. CallerSees(HttpAnswer(OK, SERVER_ERROR)) = ErrorOfCode(SERVER_ERROR)
  BY <1>2 DEF CallerSees, HttpAnswer, Answer, try_call
<1>4. ErrorOfCode(SERVER_ERROR) = "JavaScriptExecution"
  BY DEF ErrorOfCode, PARSE_ERROR, INVALID_REQUEST, METHOD_NOT_FOUND, INVALID_PARAMS,
         INTERNAL_ERROR, SERVER_ERROR
<1> QED
  BY <1>1, <1>3, <1>4 DEF is_retryable

(***************************************************************************)
(* The orchestrator never gives the sender of a request whose script ran   *)
(* an answer that makes its client send the request again.                 *)
(***************************************************************************)
THEOREM AnsweredErrorsFinal == FrontSpec => []AnsweredErrorsAreFinal
<1>1. RequestInv => AnsweredErrorsAreFinal
  <2> SUFFICES ASSUME RequestInv, NEW r \in Req,
                      http[r].answer # NoAnswer,
                      is_retryable(CallerSees(http[r].answer))
               PROVE  wire[r].ran = 0
    BY DEF AnsweredErrorsAreFinal
  <2>1. http[r] \in HttpState /\ Handled(wire[r], fwd[r], http[r])
    BY DEF RequestInv, Shape, AllGood, Good
  <2> QED
    BY <2>1, ForwardedAnswersFinal DEF Handled, HttpState
<1> QED
  BY <1>1, RequestAlways, PTL

-----------------------------------------------------------------------------
(* FrontEnd implements RequestService *)

stages == [r \in Req |-> http[r].pc]
runs == [r \in Req |-> wire[r].ran]

\* A request in the middle of a forward has a run left.
LEMMA RunLeft ==
    ASSUME RequestInv, NEW r \in Req, fwd[r].pc = "calling", calls[r].pc = "trying"
    PROVE  wire[r].ran < (max_retries + 1) * max_attempts
<1> DEFINE k == recorded[r].forwards
<1>1. /\ calls[r] \in CallState /\ wire[r] \in WireState /\ fwd[r] \in FwdState
      /\ k \in Nat
      /\ Bounded(calls[r], wire[r], fwd[r], recorded[r])
      /\ Calling(calls[r], fwd[r])
  BY DEF RequestInv, Shape, AllGood, Good, RecordState
<1>2. /\ wire[r].ran \in Nat /\ wire[r].sent \in Nat
      /\ wire[r].ran <= wire[r].sent
      /\ wire[r].sent <= Sends(k - 1) + (calls[r].attempt - 1)
      /\ calls[r].attempt \in Nat /\ calls[r].attempt <= max_attempts
      /\ k > 0 /\ k <= fwd[r].attempt + 1
      /\ fwd[r].attempt \in Nat /\ fwd[r].attempt <= max_retries
      /\ max_retries \in Nat /\ max_attempts \in Nat
  BY <1>1, AttemptsAssumption, RetriesAssumption
     DEF Bounded, Tries, CallState, WireState, FwdState
<1>3. PICK l \in Nat : k = l + 1 /\ k - 1 = l
  BY <1>1, <1>2
<1>4. Sends(k) = Sends(k - 1) + max_attempts /\ Sends(k - 1) \in Nat
  BY <1>3, SendsLemma
<1>5. Sends(k) <= Sends(max_retries + 1) /\ Sends(max_retries + 1) \in Nat
  <2>1. k <= max_retries + 1 /\ max_retries + 1 \in Nat
    BY <1>1, <1>2
  <2> QED
    BY <1>1, <2>1, SendsLemma
<1>6. wire[r].ran < Sends(max_retries + 1)
  BY <1>1, <1>2, <1>4, <1>5
<1> QED
  BY <1>6 DEF Sends

\* Every step of one request is a step of RequestService, or none.
LEMMA RequestMaps ==
    ASSUME RequestInv, NEW r \in Req, Handler(r)
    PROVE  [Service!ServiceNext]_(Service!serviceVars)
<1> USE DEF stages, runs
<1>1. /\ http \in [Req -> HttpState] /\ wire \in [Req -> WireState]
      /\ Good(calls[r], wire[r], fwd[r], recorded[r], http[r])
  BY DEF RequestInv, Shape, AllGood
<1>2. ASSUME NEW from, NEW to, NEW answer,
             http[r].pc = from, Answered(r, to, answer), UNCHANGED wire
      PROVE  Service!Moves(r, from, to)
  BY <1>1, <1>2 DEF Service!Moves, Answered
<1>3. CASE handle_jsonrpc(r)
  BY <1>2, <1>3 DEF handle_jsonrpc, fwdVars, Service!TurnAway, Service!ServiceNext
<1>4. CASE handle_builtin(r) \/ handle_register(r)
  BY <1>2, <1>4 DEF handle_builtin, handle_register, fwdVars,
                    Service!ServeHere, Service!ServiceNext
<1>5. CASE StartForward(r)
  BY <1>2, <1>5 DEF StartForward, fwdVars, Service!Forward, Service!ServiceNext
<1>6. CASE forward_to_node(r)
  <2>1. CASE fwd[r].result = "Ok"
    <3>1. wire[r].ran > 0
      BY <1>1, <1>6, <2>1 DEF forward_to_node, Good, Recorded, Backed, WireState
    <3> QED
      BY <1>2, <1>6, <2>1, <3>1 DEF forward_to_node, fwdVars, Service!Succeed, Service!ServiceNext
  <2>2. CASE fwd[r].result # "Ok"
    BY <1>2, <1>6, <2>2 DEF forward_to_node, fwdVars, Service!Fail, Service!ServiceNext
  <2> QED
    BY <2>1, <2>2
<1>7. CASE ForwardStep(r)
  <2>1. CASE UNCHANGED wire
    BY <1>7, <2>1 DEF ForwardStep, Service!serviceVars
  <2>2. CASE fwd[r].pc = "calling" /\ ReceiveAnswer(r)
    <3>1. PICK answer \in Answers :
             wire' = [wire EXCEPT
                ![r] = [sent |-> @.sent + 1,
                        ran  |-> @.ran + (IF answer.ran THEN 1 ELSE 0),
                        lost |-> @.lost + (IF answer.ran /\ answer.kind = "network"
                                           THEN 1 ELSE 0),
                        code |-> answer.code]]
      BY <2>2 DEF ReceiveAnswer
    <3>2. runs' = [runs EXCEPT ![r] = @ + (IF answer.ran THEN 1 ELSE 0)]
      BY <1>1, <3>1
    <3>3. runs[r] \in Nat /\ runs[r] < (max_retries + 1) * max_attempts
      BY <1>1, <2>2, RunLeft DEF ReceiveAnswer, WireState
    <3>4. UNCHANGED stages /\ stages[r] = "forwarded"
      BY <1>7 DEF ForwardStep
    <3>5. CASE answer.ran
      BY <3>2, <3>3, <3>4, <3>5 DEF Service!Run, Service!ServiceNext
    <3>6. CASE ~answer.ran
      <4>1. wire'[r].ran = wire[r].ran + 0 /\ wire[r].ran \in Nat
        BY <1>1, <3>1, <3>6 DEF WireState
      <4>2. \A q \in Req : wire'[q].ran = wire[q].ran
        BY <1>1, <3>1, <4>1
      <4>3. runs' = runs
        BY <4>2
      <4> QED
        BY <3>4, <4>3 DEF Service!serviceVars
    <3> QED
      BY <3>5, <3>6
  <2>3. UNCHANGED wire \/ (fwd[r].pc = "calling" /\ ReceiveAnswer(r))
    BY <1>7 DEF ForwardStep, Step, PickNode, CallNode, ClientStep, RetryCall, NodeReturned,
                BackoffOver, StartCall
  <2> QED
    BY <2>1, <2>2, <2>3
<1> QED
  BY <1>3, <1>4, <1>5, <1>6, <1>7 DEF Handler

(***************************************************************************)
(* The front end, with its handler, its two nested retry loops and a pool  *)
(* that changes at any moment, implements RequestService: each request is  *)
(* answered once, a result is backed by a run of the script, and the       *)
(* script runs at most (max_retries + 1) * max_attempts times.             *)
(***************************************************************************)
THEOREM FrontEndImplementsService == FrontSpec => ServiceImplemented
<1>1. FrontInit => Service!ServiceInit
  BY DEF FrontInit, FwdInit, ClientInit, Req, Service!ServiceInit
<1>2. RequestInv /\ [FrontNext]_allVars => [Service!ServiceNext]_(Service!serviceVars)
  <2> SUFFICES ASSUME RequestInv, [FrontNext]_allVars
               PROVE  [Service!ServiceNext]_(Service!serviceVars)
    OBVIOUS
  <2>1. CASE UNCHANGED <<wire, http>>
    BY <2>1 DEF Service!serviceVars
  <2>2. UNCHANGED <<wire, http>> \/ \E r \in Req : Handler(r)
    BY DEF FrontNext, PoolChanges, allVars, fwdVars
  <2> QED
    BY <2>1, <2>2, RequestMaps
<1> QED
  BY <1>1, <1>2, RequestAlways, PTL DEF FrontSpec, ServiceImplemented, Service!ServiceSpec

-----------------------------------------------------------------------------
(***************************************************************************)
(* The nested loops come to an end: StepsLeft is a measure.                *)
(***************************************************************************)

\* What the measure is made of.
LEMMA TurnsTyped ==
    ASSUME RequestInv, NEW r \in Req
    PROVE  /\ max_attempts \in Nat \ {0}
           /\ max_retries - fwd[r].attempt \in Nat
           /\ (2 * max_attempts + 3) * (max_retries - fwd[r].attempt) \in Nat
           /\ max_attempts - calls[r].attempt \in Nat
           /\ StepsOfCall(calls[r]) \in Nat \ {0}
<1>1. /\ max_attempts \in Nat \ {0}
      /\ max_retries \in Nat
      /\ fwd[r].attempt \in 0..max_retries
      /\ calls[r].attempt \in 0..max_attempts
  BY AttemptsAssumption, RetriesAssumption DEF RequestInv, Shape, FwdState, CallState
<1>2. max_retries - fwd[r].attempt \in Nat /\ max_attempts - calls[r].attempt \in Nat
  BY <1>1
<1>3. (2 * max_attempts + 3) * (max_retries - fwd[r].attempt) \in Nat
  BY <1>1, <1>2
<1>4. StepsOfCall(calls[r]) \in Nat \ {0}
  BY <1>2 DEF StepsOfCall
<1> QED
  BY <1>1, <1>2, <1>3, <1>4

\* The measure is a number, before and after a step.
StepsTyped == \A r \in Req : StepsLeft(r) \in Nat

LEMMA StepsLeftTyped == RequestInv => StepsTyped
<1> SUFFICES ASSUME RequestInv, NEW r \in Req PROVE StepsLeft(r) \in Nat
  BY DEF StepsTyped
<1> DEFINE turns == (2 * max_attempts + 3) * (max_retries - fwd[r].attempt)
<1>1. turns \in Nat /\ max_attempts \in Nat /\ StepsOfCall(calls[r]) \in Nat
  BY TurnsTyped
<1>2. StepsLeft(r) \in {turns + (2 * max_attempts + 3), turns + (2 * max_attempts + 3) - 1,
                        turns + StepsOfCall(calls[r]) + 1, turns + 1, 1, 0}
  BY DEF StepsLeft
<1> HIDE DEF turns
<1> QED
  BY <1>1, <1>2

LEMMA StepsLeftTypedPrimed == (RequestInv => StepsTyped)'
BY StepsLeftTyped, PTL

\* A pass of the loop begins with a fresh call, or there is no node.
LEMMA PickNodeAdvances ==
    ASSUME RequestInv, NEW r \in Req, http[r].pc = "forwarded", PickNode(r), UNCHANGED http
    PROVE  StepsLeft(r)' < StepsLeft(r)
<1> DEFINE turn == 2 * max_attempts + 3
           turns == turn * (max_retries - fwd[r].attempt)
<1>1. /\ max_attempts \in Nat \ {0}
      /\ turns \in Nat
  BY TurnsTyped
<1>2. /\ fwd \in [Req -> FwdState] /\ calls \in [Req -> CallState]
      /\ fwd[r].pc = "picking"
  BY DEF RequestInv, Shape, PickNode
<1>3. StepsLeft(r) = turns + turn - 1
  BY <1>2 DEF StepsLeft
<1>4. /\ fwd'[r].attempt = fwd[r].attempt
      /\ \/ fwd'[r].pc = "done"
         \/ /\ fwd'[r].pc = "calling"
            /\ calls'[r].pc = "trying" /\ calls'[r].attempt = 1
  BY <1>2 DEF PickNode, StartCall, FwdState
<1>5. StepsLeft(r)' = 1 \/ StepsLeft(r)' = turns + 2 * max_attempts + 1
  BY <1>1, <1>4 DEF StepsLeft, StepsOfCall
<1> HIDE DEF turns
<1> QED
  BY <1>1, <1>3, <1>5

\* A step within the call.
LEMMA CallNodeAdvances ==
    ASSUME RequestInv, NEW r \in Req, http[r].pc = "forwarded", CallNode(r), UNCHANGED http
    PROVE  StepsLeft(r)' < StepsLeft(r)
<1> DEFINE turns == (2 * max_attempts + 3) * (max_retries - fwd[r].attempt)
<1>1. /\ max_attempts - calls[r].attempt \in Nat
      /\ turns \in Nat
      /\ max_attempts \in Nat
      /\ calls \in [Req -> CallState] /\ calls[r] \in CallState
      /\ Calling(calls[r], fwd[r])
  BY TurnsTyped DEF RequestInv, Shape, AllGood, Good
<1>2. fwd[r].pc = "calling" /\ fwd' = fwd
  BY DEF CallNode
<1>3. StepsOfCall(calls'[r]) \in Nat /\ StepsOfCall(calls'[r]) < StepsOfCall(calls[r])
  <2>1. CASE ReceiveAnswer(r)
    <3>1. PICK answer \in Answers : calls'[r] = AfterTry(calls[r], try_call(answer))
      BY <1>1, <2>1 DEF ReceiveAnswer
    <3>2. /\ calls'[r].attempt = calls[r].attempt
          /\ calls'[r].pc \in {"waiting", "returned"}
      <4> DEFINE e == try_call(answer)
      <4>1. e \in {"Ok"} \cup MadrpcError
        BY TryCallLemma
      <4> HIDE DEF e
      <4>2. /\ AfterTry(calls[r], e).attempt = calls[r].attempt
            /\ AfterTry(calls[r], e).pc \in {"waiting", "returned"}
        BY <1>1, <4>1, AfterTryLemma
      <4> QED
        BY <3>1, <4>2 DEF e
    <3> QED
      BY <1>1, <2>1, <3>2 DEF ReceiveAnswer, StepsOfCall
  <2>2. CASE RetryCall(r)
    <3>1. /\ calls[r].pc = "waiting" /\ calls'[r].pc = "trying"
          /\ calls'[r].attempt = calls[r].attempt + 1
          /\ calls[r].attempt \in Nat /\ calls[r].attempt < max_attempts
      BY <1>1, <1>2, <2>2 DEF RetryCall, CallState, Calling
    <3> QED
      BY <1>1, <3>1 DEF StepsOfCall
  <2> QED
    BY <2>1, <2>2 DEF CallNode, ClientStep
<1>4. StepsLeft(r) = turns + StepsOfCall(calls[r]) + 1
  BY <1>2 DEF StepsLeft
<1>5. StepsLeft(r)' = turns + StepsOfCall(calls'[r]) + 1
  BY <1>2 DEF StepsLeft, StepsOfCall
<1>6. StepsOfCall(calls[r]) \in Nat
  BY TurnsTyped
<1> HIDE DEF turns
<1> QED
  BY <1>1, <1>3, <1>4, <1>5, <1>6

\* The end of a pass, and of the delay before the next one.
LEMMA PassAdvances ==
    ASSUME RequestInv, NEW r \in Req, http[r].pc = "forwarded",
           NodeReturned(r) \/ BackoffOver(r), UNCHANGED http
    PROVE  StepsLeft(r)' < StepsLeft(r)
<1> DEFINE turn == 2 * max_attempts + 3
           left == max_retries - fwd[r].attempt
<1>1. /\ max_attempts \in Nat \ {0}
      /\ left \in Nat
      /\ turn * left \in Nat
      /\ fwd \in [Req -> FwdState] /\ fwd[r] \in FwdState
      /\ max_retries \in Nat
  BY TurnsTyped, RetriesAssumption DEF RequestInv, Shape
<1>2. CASE NodeReturned(r)
  <2>1. StepsLeft(r) = turn * left + 2
    BY <1>1, <1>2 DEF NodeReturned, StepsLeft, StepsOfCall
  <2>2. /\ fwd'[r].attempt = fwd[r].attempt
        /\ fwd'[r].pc \in {"backing_off", "done"}
    BY <1>1, <1>2 DEF NodeReturned, FwdState
  <2>3. StepsLeft(r)' \in {turn * left + 1, 1}
    BY <2>2 DEF StepsLeft
  <2> HIDE DEF turn, left
  <2> QED
    BY <1>1, <2>1, <2>3
<1>3. CASE BackoffOver(r)
  <2>1. StepsLeft(r) = turn * left + 1
    BY <1>3 DEF BackoffOver, StepsLeft
  <2>2. /\ fwd'[r].attempt = fwd[r].attempt + 1
        /\ fwd'[r].pc = "picking"
    BY <1>1, <1>3 DEF BackoffOver, FwdState
  <2>3. max_retries - fwd'[r].attempt = left - 1
    BY <1>1, <2>2 DEF FwdState
  <2>4. StepsLeft(r)' = turn * (left - 1) + turn - 1
    BY <2>2, <2>3 DEF StepsLeft
  <2>5. turn * (left - 1) = turn * left - turn
    BY <1>1
  <2>6. turn \in Nat
    BY <1>1
  <2> HIDE DEF turn, left
  <2> QED
    BY <1>1, <2>1, <2>4, <2>5, <2>6
<1> QED
  BY <1>2, <1>3

\* The handler around the loop: it leaves the router, or enters the loop.
LEMMA RouterAdvances ==
    ASSUME RequestInv, NEW r \in Req,
           \/ handle_jsonrpc(r) \/ handle_builtin(r) \/ handle_register(r)
           \/ StartForward(r) \/ forward_to_node(r)
    PROVE  StepsLeft(r)' < StepsLeft(r)
<1> DEFINE turn == 2 * max_attempts + 3
           turns == turn * (max_retries - fwd[r].attempt)
<1>1. /\ turns \in Nat /\ turn \in Nat /\ turn > 0
      /\ http \in [Req -> HttpState]
      /\ Handled(wire[r], fwd[r], http[r])
  BY TurnsTyped DEF RequestInv, Shape, AllGood, Good
<1>2. fwd' = fwd /\ calls' = calls
  BY DEF handle_jsonrpc, handle_builtin, handle_register, StartForward, forward_to_node, fwdVars
<1>3. CASE forward_to_node(r)
  <2>1. StepsLeft(r) = 1
    BY <1>3 DEF forward_to_node, StepsLeft
  <2>2. http'[r].pc \in {"result", "error"}
    BY <1>1, <1>3 DEF forward_to_node, Answered
  <2> QED
    BY <2>1, <2>2 DEF StepsLeft
<1>4. CASE StartForward(r)
  <2>1. http[r].pc = "arrived" /\ http'[r].pc = "forwarded" /\ fwd[r].pc = "picking"
    BY <1>1, <1>4 DEF StartForward, Answered, Handled
  <2>2. StepsLeft(r) = turns + turn /\ StepsLeft(r)' = turns + turn - 1
    BY <1>2, <2>1 DEF StepsLeft
  <2> HIDE DEF turns, turn
  <2> QED
    BY <1>1, <2>2
<1>5. CASE handle_jsonrpc(r) \/ handle_builtin(r) \/ handle_register(r)
  <2>1. http[r].pc = "arrived" /\ http'[r].pc \in {"turned_away", "served_here"}
    BY <1>1, <1>5 DEF handle_jsonrpc, handle_builtin, handle_register, Answered
  <2>2. StepsLeft(r) = turns + turn /\ StepsLeft(r)' = 0
    BY <2>1 DEF StepsLeft
  <2> HIDE DEF turns, turn
  <2> QED
    BY <1>1, <2>2
<1> QED
  BY <1>3, <1>4, <1>5

LEMMA HandlerAdvances ==
    ASSUME RequestInv, NEW r \in Req, Handler(r)
    PROVE  StepsLeft(r)' < StepsLeft(r)
<1>1. CASE ForwardStep(r)
  <2>1. http[r].pc = "forwarded" /\ UNCHANGED http
    BY <1>1 DEF ForwardStep
  <2> QED
    BY <1>1, <2>1, PickNodeAdvances, CallNodeAdvances, PassAdvances DEF ForwardStep, Step
<1> QED
  BY <1>1, RouterAdvances DEF Handler

\* Nobody else's step changes what is left of a request.
LEMMA OthersLeaveSteps ==
    ASSUME RequestInv, [FrontNext]_allVars, NEW r \in Req, ~Handler(r)
    PROVE  StepsLeft(r)' = StepsLeft(r)
<1>1. calls'[r] = calls[r] /\ fwd'[r] = fwd[r] /\ http'[r] = http[r]
  <2>1. CASE PoolChanges /\ UNCHANGED http
    BY <2>1 DEF PoolChanges
  <2>2. CASE UNCHANGED allVars
    BY <2>2 DEF allVars, fwdVars
  <2>3. ASSUME NEW q \in Req, Handler(q)
        PROVE  calls'[r] = calls[r] /\ fwd'[r] = fwd[r] /\ http'[r] = http[r]
    <3>1. q # r
      BY <2>3
    <3>2. /\ calls \in [Req -> CallState] /\ fwd \in [Req -> FwdState]
          /\ http \in [Req -> HttpState]
      BY DEF RequestInv, Shape
    <3>3. CASE ForwardStep(q)
      <4>1. calls'[r] = calls[r] /\ fwd'[r] = fwd[r] /\ http' = http
        BY <3>1, <3>2, <3>3 DEF ForwardStep, Step, PickNode, StartCall, CallNode, ClientStep,
           ReceiveAnswer, RetryCall, NodeReturned, BackoffOver
      <4> QED
        BY <4>1
    <3>4. CASE ~ForwardStep(q)
      BY <2>3, <3>1, <3>2, <3>4 DEF Handler, handle_jsonrpc, handle_builtin, handle_register,
         StartForward, forward_to_node, Answered, fwdVars
    <3> QED
      BY <3>3, <3>4
  <2> QED
    BY <2>1, <2>2, <2>3 DEF FrontNext
<1> QED
  BY <1>1 DEF StepsLeft, StepsOfCall

(***************************************************************************)
(* The two nested retry loops come to an end, whatever the pool, the nodes *)
(* and other requests do: a handler takes no more than                     *)
(* (2 * max_attempts + 3) * (max_retries + 1) steps.                       *)
(***************************************************************************)
THEOREM HandlersRunOut == FrontSpec => RequestsRunOut
<1>1. RequestInv /\ [FrontNext]_allVars
      => \A r \in Req : /\ Handler(r) => StepsLeft(r)' < StepsLeft(r)
                        /\ StepsLeft(r)' <= StepsLeft(r)
  <2> SUFFICES ASSUME RequestInv, [FrontNext]_allVars, NEW r \in Req
               PROVE  /\ Handler(r) => StepsLeft(r)' < StepsLeft(r)
                      /\ StepsLeft(r)' <= StepsLeft(r)
    OBVIOUS
  <2>1. StepsLeft(r) \in Nat /\ StepsLeft(r)' \in Nat
    BY RequestNext, StepsLeftTyped, StepsLeftTypedPrimed DEF StepsTyped
  <2> QED
    BY <2>1, HandlerAdvances, OthersLeaveSteps
<1> QED
  BY <1>1, RequestAlways, PTL DEF FrontSpec, RequestsRunOut

=============================================================================
