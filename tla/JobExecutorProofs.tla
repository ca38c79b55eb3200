-------------------------- MODULE JobExecutorProofs --------------------------
(***************************************************************************)
(* The job executor for a call that creates any number of jobs: nothing is *)
(* left behind when the call returns, and continuations keep their order.  *)
(***************************************************************************)
EXTENDS JobExecutor, TLAPS

\* run_jobs_async has returned and no script has run since.
Idle == {"inspect", "check_timeout", "answered", "timed_out"}

\* Jobs the executor has not seen the end of are among those enqueued.
Known ==
    /\ group \subseteq 1..born
    /\ \A i \in DOMAIN async_jobs : async_jobs[i] \in 1..born

\* A batch exists in drain_jobs only, and nothing does once the loop is left.
Drained ==
    /\ pc \notin {"in_batch", "in_promise"} => batch = << >>
    /\ pc \in Idle =>
          /\ promise_jobs = << >> /\ async_jobs = << >> /\ generic_jobs = << >>
          /\ group = {}

Sorted(queue) ==
    \A i, k \in DOMAIN queue : i < k => queue[i] < queue[k]

\* The batch first, the queue behind it, and both behind what ran.
Order ==
    /\ ran <= born
    /\ Sorted(batch)
    /\ Sorted(promise_jobs)
    /\ \A i \in DOMAIN batch : ran < batch[i] /\ batch[i] <= born
    /\ \A k \in DOMAIN promise_jobs : ran < promise_jobs[k] /\ promise_jobs[k] <= born
    /\ \A i \in DOMAIN batch : \A k \in DOMAIN promise_jobs : batch[i] < promise_jobs[k]

QueuesTyped ==
    /\ promise_jobs \in Seq(Job)
    /\ async_jobs \in Seq(Job)
    /\ generic_jobs \in Seq(Job)
    /\ batch \in Seq(Job)
    /\ group \subseteq Job
    /\ group \cap ToSet(async_jobs) = {}
    /\ born \in 0..MaxJobs
    /\ ran \in 0..MaxJobs

\* The rest of JETypeOK.
Control ==
    /\ answered \subseteq Job
    /\ promise \in {"none", "pending", "fulfilled", "rejected"}
    /\ waited \in BOOLEAN
    /\ pc \in {"loading", "calling", "check_timeout", "collect", "poll", "in_poll", "drain",
               "in_generic", "in_batch", "in_promise", "inspect",
               "failed", "timed_out", "answered", "panicked"}

QueuesGood == QueuesTyped /\ Known /\ Order

JEInv == QueuesGood /\ Control /\ Drained

-----------------------------------------------------------------------------
(* Queues *)

LEMMA EmptyQueue ==
    /\ \A S : << >> \in Seq(S)
    /\ DOMAIN << >> = {}
    /\ ToSet(<< >>) = {}
    /\ Sorted(<< >>)
BY DEF ToSet, Sorted

\* A queue after enqueue_job: as it was, or with one job more at its end.
Grown(queue, new, job) ==
    \/ new = queue
    \/ /\ DOMAIN new = 1..(Len(queue) + 1)
       /\ \A i \in 1..Len(queue) : new[i] = queue[i]
       /\ new[Len(queue) + 1] = job
       /\ ToSet(new) = ToSet(queue) \cup {job}

LEMMA QueueLemma ==
    ASSUME NEW queue \in Seq(Job)
    PROVE  /\ Len(queue) \in Nat
           /\ DOMAIN queue = 1..Len(queue)
           /\ \A i \in DOMAIN queue : queue[i] \in Job
OBVIOUS

\* A job with the next number is enqueued.
LEMMA AppendLemma ==
    ASSUME NEW queue \in Seq(Job), NEW job \in Job
    PROVE  /\ Append(queue, job) \in Seq(Job)
           /\ Grown(queue, Append(queue, job), job)
<1> DEFINE longer == Append(queue, job)
<1>1. longer \in Seq(Job) /\ DOMAIN longer = 1..(Len(queue) + 1) /\ DOMAIN queue = 1..Len(queue)
  OBVIOUS
<1>2. Len(queue) \in Nat
  OBVIOUS
<1>3. /\ \A i \in 1..Len(queue) : longer[i] = queue[i]
      /\ longer[Len(queue) + 1] = job
  OBVIOUS
<1> HIDE DEF longer
<1>4. ToSet(longer) = ToSet(queue) \cup {job}
  BY <1>1, <1>2, <1>3 DEF ToSet
<1> QED
  BY <1>1, <1>3, <1>4 DEF longer, Grown

\* The first job of a queue is taken.
LEMMA TailLemma ==
    ASSUME NEW queue \in Seq(Job), queue # << >>
    PROVE  /\ Tail(queue) \in Seq(Job)
           /\ Head(queue) \in Job
           /\ 1 \in DOMAIN queue /\ Head(queue) = queue[1]
           /\ \A i \in DOMAIN Tail(queue) :
                 /\ i + 1 \in DOMAIN queue
                 /\ Tail(queue)[i] = queue[i + 1]
OBVIOUS

-----------------------------------------------------------------------------
(* The steps *)

\* A new job gets the highest number, so it is new to every queue and last in
\* its own.
LEMMA EnqueueLemma ==
    ASSUME QueuesGood, NEW kind \in Kind, enqueue_job(kind),
           UNCHANGED <<batch, group, ran>>
    PROVE  QueuesGood'
<1>1. /\ born \in Nat /\ born + 1 \in Job /\ born' = born + 1
      /\ born \in 0..MaxJobs /\ MaxJobs \in Nat
  BY JobsAssumption DEF QueuesGood, QueuesTyped, enqueue_job, Job
<1>2. /\ promise_jobs \in Seq(Job) /\ async_jobs \in Seq(Job) /\ generic_jobs \in Seq(Job)
      /\ batch \in Seq(Job)
  BY DEF QueuesGood, QueuesTyped
<1>3. /\ promise_jobs' \in Seq(Job) /\ Grown(promise_jobs, promise_jobs', born + 1)
      /\ async_jobs' \in Seq(Job) /\ Grown(async_jobs, async_jobs', born + 1)
      /\ generic_jobs' \in Seq(Job)
  <2>1. /\ promise_jobs' = promise_jobs \/ promise_jobs' = Append(promise_jobs, born + 1)
        /\ async_jobs' = async_jobs \/ async_jobs' = Append(async_jobs, born + 1)
        /\ generic_jobs' = generic_jobs \/ generic_jobs' = Append(generic_jobs, born + 1)
    BY DEF enqueue_job
  <2>2. /\ Append(promise_jobs, born + 1) \in Seq(Job)
        /\ Grown(promise_jobs, Append(promise_jobs, born + 1), born + 1)
        /\ Append(async_jobs, born + 1) \in Seq(Job)
        /\ Grown(async_jobs, Append(async_jobs, born + 1), born + 1)
        /\ Append(generic_jobs, born + 1) \in Seq(Job)
    BY <1>1, <1>2, AppendLemma, Zenon
  <2>3. Grown(promise_jobs, promise_jobs, born + 1) /\ Grown(async_jobs, async_jobs, born + 1)
    BY DEF Grown
  <2> QED
    BY <1>2, <2>1, <2>2, <2>3, Zenon
<1>4. QueuesTyped'
  <2>1. born + 1 \notin group
    <3>1. group \subseteq 1..born
      BY DEF QueuesGood, Known
    <3> QED
      BY <1>1, <3>1
  <2>2. ToSet(async_jobs') \subseteq ToSet(async_jobs) \cup {born + 1}
    BY <1>3 DEF Grown
  <2>3. group' \cap ToSet(async_jobs') = {}
    BY <2>1, <2>2 DEF QueuesGood, QueuesTyped
  <2>4. born + 1 \in 0..MaxJobs
    BY <1>1 DEF Job
  <2>5. group' \subseteq Job /\ ran' \in 0..MaxJobs /\ batch' \in Seq(Job)
    BY DEF QueuesGood, QueuesTyped
  <2> QED
    BY <1>1, <1>3, <2>3, <2>4, <2>5, Zenon DEF QueuesTyped
<1>5. Known'
  <2>1. \A i \in DOMAIN async_jobs' : async_jobs'[i] \in 1..(born + 1)
    <3>1. /\ Len(async_jobs) \in Nat
          /\ DOMAIN async_jobs = 1..Len(async_jobs)
          /\ \A i \in DOMAIN async_jobs : async_jobs[i] \in 1..born
      BY <1>2, QueueLemma DEF QueuesGood, Known
    <3> QED
      BY <1>1, <1>3, <3>1 DEF Grown
  <2>2. group' \subseteq 1..(born + 1)
    BY <1>1 DEF QueuesGood, Known
  <2> QED
    BY <1>1, <2>1, <2>2 DEF Known
<1>6. Order'
  <2>1. /\ Len(promise_jobs) \in Nat
        /\ DOMAIN promise_jobs = 1..Len(promise_jobs)
        /\ \A i \in DOMAIN promise_jobs : promise_jobs[i] \in Int
        /\ \A i \in DOMAIN batch : batch[i] \in Int
        /\ ran \in Int
    <3>1. /\ Len(promise_jobs) \in Nat
          /\ DOMAIN promise_jobs = 1..Len(promise_jobs)
          /\ \A i \in DOMAIN promise_jobs : promise_jobs[i] \in Job
          /\ \A i \in DOMAIN batch : batch[i] \in Job
      BY <1>2, QueueLemma
    <3>2. \A j \in Job : j \in Int
      BY DEF Job
    <3>3. ran \in Int
      BY DEF QueuesGood, QueuesTyped
    <3> QED
      BY <3>1, <3>2, <3>3, Zenon
  <2>2. \A k \in DOMAIN promise_jobs' :
           \/ k \in DOMAIN promise_jobs /\ promise_jobs'[k] = promise_jobs[k]
           \/ k = Len(promise_jobs) + 1 /\ promise_jobs'[k] = born + 1
    BY <1>3, <2>1 DEF Grown
  <2>3. Sorted(promise_jobs')
    BY <1>1, <2>1, <2>2 DEF QueuesGood, Order, Sorted
  <2>4. \A k \in DOMAIN promise_jobs' :
           /\ ran < promise_jobs'[k] /\ promise_jobs'[k] <= born + 1
           /\ \A i \in DOMAIN batch : batch[i] < promise_jobs'[k]
    BY <1>1, <2>1, <2>2 DEF QueuesGood, Order
  <2>5. ran <= born + 1 /\ \A i \in DOMAIN batch : ran < batch[i] /\ batch[i] <= born + 1
    BY <1>1, <2>1 DEF QueuesGood, Order
  <2>6. Sorted(batch)
    BY DEF QueuesGood, Order
  <2> QED
    BY <1>1, <2>3, <2>4, <2>5, <2>6 DEF Order
<1> QED
  BY <1>4, <1>5, <1>6 DEF QueuesGood

LEMMA SameQueues ==
    ASSUME QueuesGood, UNCHANGED <<queues, batch, group, born, ran>>
    PROVE  QueuesGood'
BY DEF QueuesGood, QueuesTyped, Known, Order, Sorted, queues

LEMMA EnqueueKeeps ==
    ASSUME JEInv, Enqueue
    PROVE  JEInv'
<1>1. QueuesGood /\ Control /\ Drained
  BY DEF JEInv
<1>2. PICK kind \in Kind :
         /\ enqueue_job(kind)
         /\ pc' = IF pc = "in_generic" /\ kind = "generic" THEN "panicked" ELSE pc
  BY DEF Enqueue
<1>3. /\ pc \in {"loading", "calling", "in_poll", "in_generic", "in_promise"}
      /\ UNCHANGED <<batch, group, answered, promise, waited, ran>>
  BY DEF Enqueue
<1>4. QueuesGood'
  BY <1>1, <1>2, <1>3, EnqueueLemma
<1>5. Control'
  BY <1>1, <1>2, <1>3 DEF Control
<1>6. Drained'
  BY <1>1, <1>2, <1>3 DEF Drained, Idle
<1> QED
  BY <1>4, <1>5, <1>6 DEF JEInv

\* Steps that leave the queues alone.
LEMMA ControlKeeps ==
    ASSUME JEInv,
           \/ Loaded \/ CallFails \/ ReturnsValue \/ ReturnsPromise
           \/ CheckTimeout \/ Inspect \/ PollNothing \/ EndPoll \/ EndPromiseJob \/ EndDrain
           \/ TimePasses
           \/ \E j \in Job : CallAnswered(j)
    PROVE  JEInv'
<1>1. QueuesGood /\ Control /\ Drained
  BY DEF JEInv
<1>2. UNCHANGED <<queues, batch, group, born, ran>>
  BY DEF Loaded, CallFails, ReturnsValue, ReturnsPromise, CheckTimeout, Inspect,
         PollNothing, EndPoll, EndPromiseJob, EndDrain, TimePasses, CallAnswered
<1>3. QueuesGood'
  BY <1>1, <1>2, SameQueues
<1>4. Control'
  BY <1>1 DEF Control, Loaded, CallFails, ReturnsValue, ReturnsPromise, CheckTimeout, Inspect,
              PollNothing, EndPoll, EndPromiseJob, EndDrain, TimePasses, CallAnswered
<1>5. Drained'
  BY <1>1 DEF Drained, Idle, Loaded, CallFails, ReturnsValue, ReturnsPromise, CheckTimeout,
              Inspect, PollNothing, EndPoll, EndPromiseJob, EndDrain, TimePasses, CallAnswered, queues
<1> QED
  BY <1>3, <1>4, <1>5 DEF JEInv

LEMMA CollectKeeps ==
    ASSUME JEInv, Collect
    PROVE  JEInv'
<1>1. QueuesGood /\ Control /\ Drained
  BY DEF JEInv
<1>2. /\ ToSet(async_jobs) \subseteq Job
      /\ ToSet(async_jobs) \subseteq 1..born
  BY <1>1 DEF QueuesGood, QueuesTyped, Known, ToSet
<1>3. QueuesGood'
  BY <1>1, <1>2, EmptyQueue DEF Collect, QueuesGood, QueuesTyped, Known, Order, Sorted
<1>4. Control' /\ Drained'
  BY <1>1 DEF Collect, Control, Drained, Idle
<1> QED
  BY <1>3, <1>4 DEF JEInv

LEMMA PollOneKeeps ==
    ASSUME JEInv, PollOne
    PROVE  JEInv'
<1>1. QueuesGood /\ Control /\ Drained
  BY DEF JEInv
<1>2. PICK j \in group \cap answered : group' = group \ {j}
  BY DEF PollOne
<1>3. /\ UNCHANGED <<queues, batch, answered, waited, born, ran>>
      /\ pc = "poll" /\ pc' = "in_poll"
  BY DEF PollOne
<1>4. Control' /\ Drained'
  <2>1. promise' \in {"none", "pending", "fulfilled", "rejected"}
    BY <1>1 DEF PollOne, Control
  <2> QED
    BY <1>1, <1>3, <2>1 DEF Control, Drained, Idle
<1>5. QueuesGood'
  BY <1>1, <1>2, <1>3 DEF QueuesGood, QueuesTyped, Known, Order, Sorted, queues
<1> QED
  BY <1>4, <1>5 DEF JEInv

\* One generic job.
LEMMA StartGenericKeeps ==
    ASSUME JEInv, StartGeneric
    PROVE  JEInv'
<1>1. QueuesGood /\ Control /\ Drained
  BY DEF JEInv
<1>2. generic_jobs' \in Seq(Job)
  BY <1>1, TailLemma DEF StartGeneric, QueuesGood, QueuesTyped
<1>3. QueuesGood'
  BY <1>1, <1>2 DEF StartGeneric, QueuesGood, QueuesTyped, Known, Order, Sorted
<1>4. Control' /\ Drained'
  BY <1>1 DEF StartGeneric, Control, Drained, Idle
<1> QED
  BY <1>3, <1>4 DEF JEInv

\* The queue becomes the batch.
LEMMA TakePromiseJobsKeeps ==
    ASSUME JEInv, TakePromiseJobs
    PROVE  JEInv'
<1>1. QueuesGood /\ Control /\ Drained
  BY DEF JEInv
<1>2. QueuesGood'
  BY <1>1, EmptyQueue DEF TakePromiseJobs, QueuesGood, QueuesTyped, Known, Order, Sorted
<1>3. Control'
  <2>1. promise' \in {"none", "pending", "fulfilled", "rejected"}
    BY <1>1 DEF TakePromiseJobs, Control
  <2> QED
    BY <1>1, <2>1 DEF TakePromiseJobs, Control
<1>4. Drained'
  BY DEF TakePromiseJobs, Drained, Idle
<1> QED
  BY <1>2, <1>3, <1>4 DEF JEInv

\* The first of the batch runs, and is the last that ran.
LEMMA StartPromiseJobKeeps ==
    ASSUME JEInv, StartPromiseJob
    PROVE  JEInv'
<1>1. QueuesGood /\ Control /\ Drained
  BY DEF JEInv
<1>2. /\ batch \in Seq(Job) /\ batch # << >>
      /\ batch' = Tail(batch) /\ ran' = batch[1] /\ 1 \in DOMAIN batch
      /\ UNCHANGED <<queues, group, born>>
  BY <1>1, TailLemma DEF StartPromiseJob, QueuesGood, QueuesTyped
<1>3. /\ batch' \in Seq(Job)
      /\ ran' \in Job
      /\ \A i \in DOMAIN batch' : i + 1 \in DOMAIN batch /\ batch'[i] = batch[i + 1]
  BY <1>1, <1>2, TailLemma DEF StartPromiseJob
<1>4. /\ DOMAIN batch = 1..Len(batch) /\ Len(batch) \in Nat
      /\ DOMAIN batch' = 1..Len(batch') /\ Len(batch') \in Nat
      /\ \A i \in DOMAIN batch : batch[i] \in Job
  BY <1>2, <1>3, QueueLemma
<1>5. QueuesTyped'
  <2>1. ran' \in 0..MaxJobs
    BY <1>3, JobsAssumption DEF Job
  <2> QED
    BY <1>1, <1>2, <1>3, <2>1 DEF QueuesGood, QueuesTyped, queues
<1>6. Known'
  BY <1>1, <1>2 DEF QueuesGood, Known, queues
<1>7. Order'
  <2>1. \A i \in DOMAIN batch : batch[i] \in Int
    BY <1>4 DEF Job
  <2>2. Sorted(batch')
    BY <1>1, <1>3, <1>4, <2>1 DEF QueuesGood, Order, Sorted
  <2>3. \A i \in DOMAIN batch' : batch[1] < batch'[i] /\ batch'[i] <= born
    BY <1>1, <1>2, <1>3, <1>4 DEF QueuesGood, Order, Sorted
  <2>4. \A k \in DOMAIN promise_jobs :
           /\ batch[1] < promise_jobs[k]
           /\ \A i \in DOMAIN batch' : batch'[i] < promise_jobs[k]
    BY <1>1, <1>2, <1>3 DEF QueuesGood, Order
  <2> QED
    BY <1>1, <1>2, <2>2, <2>3, <2>4 DEF QueuesGood, Order, queues
<1>8. Control' /\ Drained'
  BY <1>1 DEF StartPromiseJob, Control, Drained, Idle
<1> QED
  BY <1>5, <1>6, <1>7, <1>8 DEF JEInv, QueuesGood

-----------------------------------------------------------------------------
LEMMA InitHolds == JEInit => JEInv
<1> SUFFICES ASSUME JEInit PROVE JEInv
  OBVIOUS
<1>1. QueuesTyped
  <2>1. 0 \in 0..MaxJobs
    BY JobsAssumption
  <2> QED
    BY <2>1, EmptyQueue, Zenon DEF JEInit, QueuesTyped
<1>2. Known /\ Order
  <2>1. DOMAIN batch = {} /\ DOMAIN promise_jobs = {} /\ DOMAIN async_jobs = {} /\ group = {}
    BY EmptyQueue, Zenon DEF JEInit
  <2>2. ran <= born
    BY DEF JEInit
  <2> QED
    BY <2>1, <2>2, Zenon DEF Known, Order, Sorted
<1>3. Control /\ Drained
  BY DEF JEInit, Control, Drained, Idle
<1> QED
  BY <1>1, <1>2, <1>3 DEF JEInv, QueuesGood

LEMMA NextKeeps == JEInv /\ [JENext]_jeVars => JEInv'
<1> SUFFICES ASSUME JEInv, [JENext]_jeVars
             PROVE  JEInv'
  OBVIOUS
<1>1. CASE Enqueue
  BY <1>1, EnqueueKeeps
<1>2. CASE Collect
  BY <1>2, CollectKeeps
<1>3. CASE PollOne
  BY <1>3, PollOneKeeps
<1>4. CASE StartGeneric
  BY <1>4, StartGenericKeeps
<1>5. CASE TakePromiseJobs
  BY <1>5, TakePromiseJobsKeeps
<1>6. CASE StartPromiseJob
  BY <1>6, StartPromiseJobKeeps
<1>7. CASE \/ Loaded \/ CallFails \/ ReturnsValue \/ ReturnsPromise
           \/ CheckTimeout \/ Inspect \/ PollNothing \/ EndPoll \/ EndPromiseJob \/ EndDrain
           \/ TimePasses
           \/ \E j \in Job : CallAnswered(j)
  BY <1>7, ControlKeeps
<1>8. CASE UNCHANGED jeVars
  BY <1>8 DEF jeVars, queues, JEInv, QueuesGood, QueuesTyped, Known, Order, Sorted,
              Control, Drained, Idle
<1> QED
  BY <1>1, <1>2, <1>3, <1>4, <1>5, <1>6, <1>7, <1>8 DEF JENext, Loop

LEMMA AlwaysJE == JESpec => []JEInv
BY InitHolds, NextKeeps, PTL DEF JESpec

-----------------------------------------------------------------------------
(* What holds for any number of jobs *)

(***************************************************************************)
(* The queues hold jobs, each nested call is in one place, and the thread  *)
(* is at a step of the loop.                                               *)
(***************************************************************************)
THEOREM ExecutorTyped == JESpec => []JETypeOK
<1>1. JEInv => JETypeOK
  BY DEF JEInv, QueuesGood, QueuesTyped, Control, JETypeOK
<1> QED
  BY <1>1, AlwaysJE, PTL

(***************************************************************************)
(* A call that returns, or gives up on its promise, has left no job and no *)
(* nested call behind, whatever jobs its jobs enqueued.                    *)
(***************************************************************************)
THEOREM NoJobLeftBehind == JESpec => []NoJobAbandoned
<1>1. JEInv => NoJobAbandoned
  BY DEF JEInv, Drained, Idle, NoJobAbandoned
<1> QED
  BY <1>1, AlwaysJE, PTL

(***************************************************************************)
(* Continuations run in the order in which they were enqueued, also those  *)
(* enqueued while a batch taken earlier is still running.                  *)
(***************************************************************************)
THEOREM ContinuationsKeepOrder == JESpec => []ContinuationsInOrder
<1>1. JEInv => ContinuationsInOrder
  <2> SUFFICES ASSUME JEInv PROVE ContinuationsInOrder
    OBVIOUS
  <2> DEFINE pending == batch \o promise_jobs
  <2>1. /\ batch \in Seq(Job) /\ promise_jobs \in Seq(Job) /\ Order
    BY DEF JEInv, QueuesGood, QueuesTyped
  <2>2. /\ DOMAIN batch = 1..Len(batch) /\ Len(batch) \in Nat
        /\ DOMAIN promise_jobs = 1..Len(promise_jobs) /\ Len(promise_jobs) \in Nat
    BY <2>1, QueueLemma
  <2>3. /\ DOMAIN pending = 1..(Len(batch) + Len(promise_jobs))
        /\ \A i \in DOMAIN pending :
              pending[i] = IF i <= Len(batch) THEN batch[i] ELSE promise_jobs[i - Len(batch)]
    BY <2>1
  <2> HIDE DEF pending
  <2>4. \A i \in DOMAIN pending :
           \/ i \in DOMAIN batch /\ pending[i] = batch[i]
           \/ /\ i - Len(batch) \in DOMAIN promise_jobs
              /\ i \notin DOMAIN batch
              /\ pending[i] = promise_jobs[i - Len(batch)]
    BY <2>2, <2>3
  <2>5. \A i \in DOMAIN pending : pending[i] > ran
    BY <2>1, <2>4 DEF Order
  <2>6. \A i, k \in DOMAIN pending : i < k => pending[i] < pending[k]
    BY <2>1, <2>2, <2>3, <2>4 DEF Order, Sorted
  <2> QED
    BY <2>5, <2>6 DEF ContinuationsInOrder, pending
<1> QED
  BY <1>1, AlwaysJE, PTL

=============================================================================
