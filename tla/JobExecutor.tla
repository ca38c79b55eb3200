---------------------------- MODULE JobExecutor ----------------------------
(***************************************************************************)
(* One call of a script on its thread: MadrpcContext::call_rpc_async (and  *)
(* its blocking twin call_rpc) of madrpc-server/src/runtime/context.rs     *)
(* driving the TokioJobExecutor of job_executor.rs.                        *)
(*                                                                         *)
(* A piece of script, run to completion, may enqueue jobs of three kinds   *)
(* and may settle the promise the call returns.  An async job is a nested  *)
(* RPC (madrpc.call of bindings.rs): it is polled among the others until   *)
(* the cluster has answered, and then resolves its own promise.            *)
(***************************************************************************)
EXTENDS Integers, Sequences, FiniteSets, SequencesExt

CONSTANT MaxJobs    \* bound of the model: jobs a call creates.  It cuts off
                    \* scripts that never stop creating them, such as
                    \* while (true) await null

ASSUME JobsAssumption == MaxJobs \in Nat

Job == 1..MaxJobs   \* numbered as they are enqueued

Kind == {"promise", "async", "generic"}

VARIABLES
    promise_jobs, async_jobs, generic_jobs,     \* the queues of the executor
    batch,      \* promise jobs drain_jobs has taken and not run yet
    group,      \* nested calls being polled, the FutureGroup
    answered,   \* those the cluster has answered
    promise,    \* state of the promise the function returned
    waited,     \* MAX_PROMISE_WAIT_MS have passed
    pc,
    born,       \* jobs enqueued so far
    ran         \* history: the last promise job that ran

queues == <<promise_jobs, async_jobs, generic_jobs>>

jeVars == <<queues, batch, group, answered, promise, waited, pc, born, ran>>

-----------------------------------------------------------------------------
JEInit ==
    /\ promise_jobs = << >>
    /\ async_jobs = << >>
    /\ generic_jobs = << >>
    /\ batch = << >>
    /\ group = {}
    /\ answered = {}
    /\ promise = "none"
    /\ waited = FALSE
    /\ pc = "loading"
    /\ born = 0
    /\ ran = 0

\* Mutant: a new promise job is put at the front.
EnqueueAtFront(kind) ==
    /\ born < MaxJobs
    /\ born' = born + 1
    /\ promise_jobs' = IF kind = "promise" THEN <<born + 1>> \o promise_jobs ELSE promise_jobs
    /\ async_jobs' = IF kind = "async" THEN Append(async_jobs, born + 1) ELSE async_jobs
    /\ generic_jobs' = IF kind = "generic" THEN Append(generic_jobs, born + 1) ELSE generic_jobs

\* enqueue_job, for the jobs it keeps: one of any other kind (a TimeoutJob, say)
\* is dropped with a warning and changes nothing.
enqueue_job(kind) ==
    /\ born < MaxJobs
    /\ born' = born + 1
    /\ promise_jobs' = IF kind = "promise" THEN Append(promise_jobs, born + 1) ELSE promise_jobs
    /\ async_jobs' = IF kind = "async" THEN Append(async_jobs, born + 1) ELSE async_jobs
    /\ generic_jobs' = IF kind = "generic" THEN Append(generic_jobs, born + 1) ELSE generic_jobs

\* While a piece of script runs it enqueues jobs, one after the other; a promise
\* that a nested call settles enqueues a continuation for each of its reactions.
Enqueue ==
    /\ pc \in {"loading", "calling", "in_poll", "in_generic", "in_promise"}
    /\ \E kind \in Kind :
          /\ pc = "in_poll" => kind = "promise"
          /\ enqueue_job(kind)
          /\ pc' = IF pc = "in_generic" /\ kind = "generic"
                   THEN "panicked"      \* the queue is still borrowed
                   ELSE pc
    /\ UNCHANGED <<batch, group, answered, promise, waited, ran>>

\* A settled promise stays settled.
Settles(now) ==
    \/ now = promise
    \/ promise = "pending" /\ now \in {"fulfilled", "rejected"}

-----------------------------------------------------------------------------
(* with_client_from_source, then the first half of call_rpc_async *)

Loaded ==
    /\ pc = "loading"
    /\ pc' \in {"calling", "failed"}
    /\ UNCHANGED <<queues, batch, group, answered, promise, waited, born, ran>>

\* The method is unknown, its arguments do not convert, or the function throws.
CallFails ==
    /\ pc = "calling"
    /\ pc' = "failed"
    /\ UNCHANGED <<queues, batch, group, answered, promise, waited, born, ran>>

ReturnsValue ==
    /\ pc = "calling"
    /\ pc' = "collect"
    /\ UNCHANGED <<queues, batch, group, answered, promise, waited, born, ran>>

\* The clock is read, and no time has passed when it is first looked at.
ReturnsPromise ==
    /\ pc = "calling"
    /\ pc' = "collect"
    /\ promise' \in {"pending", "fulfilled", "rejected"}
    /\ UNCHANGED <<queues, batch, group, answered, waited, born, ran>>

-----------------------------------------------------------------------------
(* The polling loop of call_rpc_async *)

\* Mutant: the time is not looked at.
NeverTimesOut ==
    /\ pc = "check_timeout"
    /\ pc' = "collect"
    /\ UNCHANGED <<queues, batch, group, answered, promise, waited, born, ran>>

CheckTimeout ==
    /\ pc = "check_timeout"
    /\ pc' = IF waited THEN "timed_out" ELSE "collect"
    /\ UNCHANGED <<queues, batch, group, answered, promise, waited, born, ran>>

\* run_jobs_async has returned: answer, or sleep and poll again.
Inspect ==
    /\ pc = "inspect"
    /\ pc' = IF promise = "pending" THEN "check_timeout" ELSE "answered"
    /\ UNCHANGED <<queues, batch, group, answered, promise, waited, born, ran>>

-----------------------------------------------------------------------------
(* run_jobs_async *)

\* Mutant: calls in flight do not keep the loop going.
CollectForgetsGroup ==
    /\ pc = "collect"
    /\ group' = group \cup ToSet(async_jobs)
    /\ async_jobs' = << >>
    /\ pc' = IF promise_jobs = << >> /\ generic_jobs = << >>
             THEN "inspect" ELSE "poll"
    /\ UNCHANGED <<promise_jobs, generic_jobs, batch, answered, promise, waited,
                   born, ran>>

\* Mutant: the queue is read, not taken.
CollectKeepsQueue ==
    /\ pc = "collect"
    /\ group' = group \cup ToSet(async_jobs)
    /\ pc' = IF group' = {} /\ promise_jobs = << >> /\ generic_jobs = << >>
             THEN "inspect" ELSE "poll"
    /\ UNCHANGED <<queues, batch, answered, promise, waited, born, ran>>

\* Async jobs join the group; the loop ends when nothing is left.
Collect ==
    /\ pc = "collect"
    /\ group' = group \cup ToSet(async_jobs)
    /\ async_jobs' = << >>
    /\ pc' = IF group' = {} /\ promise_jobs = << >> /\ generic_jobs = << >>
             THEN "inspect" ELSE "poll"
    /\ UNCHANGED <<promise_jobs, generic_jobs, batch, answered, promise, waited,
                   born, ran>>

\* poll_once(group.next()): nothing is ready,
PollNothing ==
    /\ pc = "poll"
    /\ group \cap answered = {}
    /\ pc' = "drain"
    /\ UNCHANGED <<queues, batch, group, answered, promise, waited, born, ran>>

\* or one call is, and its promise is resolved or rejected: that may be the
\* promise the function returned.
PollOne ==
    /\ pc = "poll"
    /\ \E j \in group \cap answered : group' = group \ {j}
    /\ promise' \in {promise, "fulfilled", "rejected"}
    /\ Settles(promise')
    /\ pc' = "in_poll"
    /\ UNCHANGED <<queues, batch, answered, waited, born, ran>>

EndPoll ==
    /\ pc = "in_poll"
    /\ pc' = "drain"
    /\ UNCHANGED <<queues, batch, group, answered, promise, waited, born, ran>>

\* drain_jobs: at most one generic job,
StartGeneric ==
    /\ pc = "drain"
    /\ generic_jobs # << >>
    /\ generic_jobs' = Tail(generic_jobs)
    /\ pc' = "in_generic"
    /\ UNCHANGED <<promise_jobs, async_jobs, batch, group, answered, promise,
                   waited, born, ran>>

\* then the promise jobs enqueued so far,
TakePromiseJobs ==
    /\ \/ pc = "in_generic"
       \/ pc = "drain" /\ generic_jobs = << >>
    /\ batch' = promise_jobs
    /\ promise_jobs' = << >>
    /\ pc' = "in_batch"
    /\ \E now \in {promise, "fulfilled", "rejected"} :
          /\ Settles(now)
          /\ pc = "drain" => now = promise
          /\ promise' = now
    /\ UNCHANGED <<async_jobs, generic_jobs, group, answered, waited, born, ran>>

\* one by one.
StartPromiseJob ==
    /\ pc = "in_batch"
    /\ batch # << >>
    /\ batch' = Tail(batch)
    /\ ran' = Head(batch)
    /\ pc' = "in_promise"
    /\ UNCHANGED <<queues, group, answered, promise, waited, born>>

EndPromiseJob ==
    /\ pc = "in_promise"
    /\ promise' \in {promise, "fulfilled", "rejected"}
    /\ Settles(promise')
    /\ pc' = "in_batch"
    /\ UNCHANGED <<queues, batch, group, answered, waited, born, ran>>

\* yield_now, and the next round.
EndDrain ==
    /\ pc = "in_batch"
    /\ batch = << >>
    /\ pc' = "collect"
    /\ UNCHANGED <<queues, batch, group, answered, promise, waited, born, ran>>

-----------------------------------------------------------------------------
(* The world outside the thread *)

CallAnswered(j) ==
    /\ j \in group \ answered
    /\ answered' = answered \cup {j}
    /\ UNCHANGED <<queues, batch, group, promise, waited, pc, born, ran>>

TimePasses ==
    /\ promise # "none"
    /\ ~waited
    /\ waited' = TRUE
    /\ UNCHANGED <<queues, batch, group, answered, promise, pc, born, ran>>

\* Steps of the executor itself; how long a piece of script runs is up to it.
Loop ==
    \/ Loaded \/ CallFails \/ ReturnsValue \/ ReturnsPromise
    \/ CheckTimeout \/ Inspect
    \/ Collect \/ PollNothing \/ PollOne \/ EndPoll
    \/ StartGeneric \/ TakePromiseJobs \/ StartPromiseJob \/ EndPromiseJob \/ EndDrain

JENext == Enqueue \/ Loop \/ TimePasses \/ \E j \in Job : CallAnswered(j)

(***************************************************************************)
(* The thread keeps running, its scripts' pieces end, and time passes.     *)
(* Nothing makes the cluster answer a nested call: a node does so by its   *)
(* execution timeout, but a call to a silent one has no timeout (FrontEnd, *)
(* HangsOnlyOnSilentNode).                                                 *)
(***************************************************************************)
JESpec ==
    /\ JEInit /\ [][JENext]_jeVars
    /\ WF_jeVars(Loop)
    /\ WF_jeVars(TimePasses)

-----------------------------------------------------------------------------
\* The state is well formed, and a nested call is queued or polled, never both.
JETypeOK ==
    /\ promise_jobs \in Seq(Job)
    /\ async_jobs \in Seq(Job)
    /\ generic_jobs \in Seq(Job)
    /\ batch \in Seq(Job)
    /\ group \subseteq Job
    /\ group \cap ToSet(async_jobs) = {}
    /\ answered \subseteq Job
    /\ promise \in {"none", "pending", "fulfilled", "rejected"}
    /\ waited \in BOOLEAN
    /\ pc \in {"loading", "calling", "check_timeout", "collect", "poll", "in_poll", "drain",
               "in_generic", "in_batch", "in_promise", "inspect",
               "failed", "timed_out", "answered", "panicked"}
    /\ born \in 0..MaxJobs
    /\ ran \in 0..MaxJobs

(***************************************************************************)
(* When the call is answered, or given up after the promise timeout, no    *)
(* job of the three kinds is left: every nested call it made has been      *)
(* answered and every continuation has run, even those nobody awaited.     *)
(* (Jobs of another kind enqueue_job has dropped at once.)                 *)
(***************************************************************************)
NoJobAbandoned ==
    pc \in {"answered", "timed_out"} =>
        /\ promise_jobs = << >> /\ async_jobs = << >> /\ generic_jobs = << >>
        /\ batch = << >> /\ group = {}

(***************************************************************************)
(* Continuations run in the order in which they were enqueued, across the  *)
(* batch drain_jobs has taken and the queue that fills up behind it.       *)
(***************************************************************************)
ContinuationsInOrder ==
    LET pending == batch \o promise_jobs
    IN  \A i \in DOMAIN pending :
           /\ pending[i] > ran
           /\ \A k \in DOMAIN pending : i < k => pending[i] < pending[k]

(***************************************************************************)
(* A call that does not end has made a nested call that is never answered. *)
(* Otherwise it ends, also when its promise is never settled: the timeout  *)
(* of 30 seconds sees to that.  But call_rpc_async looks at the time only  *)
(* between two runs of run_jobs_async, and such a run does not return      *)
(* while a nested call is open.                                            *)
(*                                                                         *)
(* Nor does it while continuations enqueue continuations for ever.  The    *)
(* property says nothing of such scripts: every call here creates at most  *)
(* MaxJobs jobs.                                                           *)
(***************************************************************************)
HangsOnlyOnNestedCall ==
    \/ <>(pc \in {"answered", "timed_out", "failed", "panicked"})
    \/ \E j \in Job : <>[](j \in group \ answered)

=============================================================================
