----------------------------- MODULE RateLimiter -----------------------------
(***************************************************************************)
(* The per-IP token bucket: madrpc-common/src/rate_limit.rs.               *)
(*                                                                         *)
(* check_rate_limit reads the clock first and waits for two locks later,   *)
(* so a request may reach its bucket with a time stamp older than the one  *)
(* the bucket was last updated with.  Time and tokens are integers: Cost   *)
(* token units make one token, Rate units are refilled per tick, so rates  *)
(* below one token per tick are covered.                                   *)
(***************************************************************************)
EXTENDS Integers

CONSTANTS
    IP,                 \* client addresses
    Req,                \* request slots; a slot is reused
    Rate,               \* requests_per_second, in token units per tick
    Burst,              \* burst_size, in token units
    Cost,               \* one token, in token units
    CleanupInterval,
    EntryTtl,
    MaxClock            \* bound of the model: the clock stops there

ASSUME RateAssumption ==
    /\ IP # {}
    /\ Rate \in Nat
    /\ Burst \in Nat
    /\ Cost \in Nat \ {0}
    /\ CleanupInterval \in Nat
    /\ EntryTtl \in Nat \ {0}
    /\ MaxClock \in Nat

\* What time gives back.
Refill(time) == Rate * time

\* An entry is kept at least as long as it takes to refill.  The code does not
\* enforce this.  With the 300 s of RateLimitConfig::new and the burst of
\* per_second it holds for any rate of at least one request per 300 s; below
\* that (--rate-limit-rps takes any number) an eviction gives an address a full
\* bucket too early, and the bounds below do not hold.
ASSUME TtlAssumption == Refill(EntryTtl) >= Burst

VARIABLES
    clock,          \* Instant::now()
    buckets,        \* HashMap ip -> TokenBucket
    last_cleanup,
    reqs,           \* requests inside check_rate_limit
    admitted,       \* history: token units handed out per ip
    seen,           \* history: the last_update the ip's bucket has, or had
                    \*          when it was evicted
    rewound         \* history: how far last_update was set back, in total

rlVars == <<clock, buckets, last_cleanup, reqs, admitted, seen, rewound>>

TokenBucket == [tokens : 0..Burst, last_update : Nat]

Least(x, y) == IF x <= y THEN x ELSE y

\* Instant::duration_since saturates at zero.
duration_since(later, earlier) == IF later >= earlier THEN later - earlier ELSE 0

NewBucket == [tokens |-> Burst, last_update |-> clock]

\* Mutant: the refill is not capped at the burst.
RefilledUncapped(bucket, now) ==
    [tokens      |-> bucket.tokens + Refill(duration_since(now, bucket.last_update)),
     last_update |-> now]

\* Mutant: last_update is not moved, so the same time is refilled again.
RefilledAgain(bucket, now) ==
    [tokens      |-> Least(bucket.tokens
                             + Refill(duration_since(now, bucket.last_update)),
                           Burst),
     last_update |-> bucket.last_update]

\* The refill half of try_consume.
Refilled(bucket, now) ==
    [tokens      |-> Least(bucket.tokens
                             + Refill(duration_since(now, bucket.last_update)),
                           Burst),
     last_update |-> now]

-----------------------------------------------------------------------------
RLInit ==
    /\ clock = 0
    /\ buckets = << >>
    /\ last_cleanup = 0
    /\ reqs = [r \in Req |-> [pc |-> "idle", ip |-> CHOOSE i \in IP : TRUE, now |-> 0]]
    /\ admitted = [i \in IP |-> 0]
    /\ seen = [i \in IP |-> 0]
    /\ rewound = [i \in IP |-> 0]

\* let now = Instant::now(), before any lock.
Arrive(r, i) ==
    /\ reqs[r].pc = "idle"
    /\ reqs' = [reqs EXCEPT ![r] = [pc |-> "arrived", ip |-> i, now |-> clock]]
    /\ UNCHANGED <<clock, buckets, last_cleanup, admitted, seen, rewound>>

\* Mutant: entries are evicted by the cleanup interval.
StaleEarly(i, now) == duration_since(now, buckets[i].last_update) >= CleanupInterval

Stale(i, now) == duration_since(now, buckets[i].last_update) >= EntryTtl

\* The section under the last_cleanup lock, cleanup_stale_entries included.
Cleanup(r) ==
    LET now == reqs[r].now
        due == duration_since(now, last_cleanup) >= CleanupInterval
        keep == {i \in DOMAIN buckets : ~(due /\ Stale(i, now))}
    IN  /\ reqs[r].pc = "arrived"
        /\ last_cleanup' = IF due THEN now ELSE last_cleanup
        /\ buckets' = [i \in keep |-> buckets[i]]
        /\ seen' = [i \in IP |-> IF i \in DOMAIN buckets \ keep
                                 THEN now
                                 ELSE seen[i]]
        /\ reqs' = [reqs EXCEPT ![r].pc = "consuming"]
        /\ UNCHANGED <<clock, admitted, rewound>>

\* The section under the buckets lock: or_insert_with, try_consume, answer.
Consume(r) ==
    LET i        == reqs[r].ip
        now      == reqs[r].now
        bucket   == IF i \in DOMAIN buckets THEN buckets[i] ELSE NewBucket
        refilled == Refilled(bucket, now)
        allowed  == refilled.tokens >= Cost
        left     == [refilled EXCEPT !.tokens = IF allowed THEN @ - Cost ELSE @]
    IN  /\ reqs[r].pc = "consuming"
        /\ buckets' = [j \in DOMAIN buckets \cup {i} |->
                          IF j = i THEN left ELSE buckets[j]]
        /\ admitted' = [admitted EXCEPT ![i] = IF allowed THEN @ + Cost ELSE @]
        /\ rewound' = [rewound EXCEPT ![i] = @ + duration_since(seen[i], now)]
        /\ seen' = [seen EXCEPT ![i] = now]
        /\ reqs' = [reqs EXCEPT ![r].pc = "idle"]
        /\ UNCHANGED <<clock, last_cleanup>>

TimePasses ==
    /\ clock < MaxClock
    /\ clock' = clock + 1
    /\ UNCHANGED <<buckets, last_cleanup, reqs, admitted, seen, rewound>>

RLNext ==
    \/ TimePasses
    \/ \E r \in Req :
          \/ \E i \in IP : Arrive(r, i)
          \/ Cleanup(r)
          \/ Consume(r)

RLSpec == RLInit /\ [][RLNext]_rlVars

-----------------------------------------------------------------------------
RLTypeOK ==
    /\ clock \in 0..MaxClock
    /\ DOMAIN buckets \subseteq IP
    /\ buckets \in [DOMAIN buckets -> TokenBucket]
    /\ last_cleanup \in Nat
    /\ reqs \in [Req -> [pc  : {"idle", "arrived", "consuming"},
                         ip  : IP,
                         now : Nat]]
    /\ admitted \in [IP -> Nat]
    /\ seen \in [IP -> Nat]
    /\ rewound \in [IP -> Nat]

(***************************************************************************)
(* The token bucket law, as far as the code keeps it: since the start an   *)
(* address gets at most the burst plus the refill for the time that has    *)
(* passed plus the refill for the time that late requests turned its       *)
(* bucket back (rewound).  Without the last term it is false.  Evicting a  *)
(* stale bucket, and re-creating it full, gives nothing away under         *)
(* TtlAssumption.                                                          *)
(***************************************************************************)
AdmissionBound ==
    \A i \in IP : admitted[i] <= Burst + Refill(clock + rewound[i])

(***************************************************************************)
(* What a bucket still holds is part of the same budget: the units handed  *)
(* out and the units left never exceed the burst plus the refill up to the *)
(* bucket's own time, turned-back time included.  An evicted bucket leaves *)
(* a surplus of at least a burst behind for the bucket that replaces it.   *)
(***************************************************************************)
Budget ==
    \A i \in IP :
        IF i \in DOMAIN buckets
        THEN /\ buckets[i].last_update = seen[i]
             /\ admitted[i] + buckets[i].tokens
                    <= Burst + Refill(seen[i] + rewound[i])
        ELSE admitted[i] <= Refill(seen[i] + rewound[i])

\* No time stamp is ahead of the clock.
StampsBehindClock ==
    /\ \A r \in Req : reqs[r].now <= clock
    /\ \A i \in IP : seen[i] <= clock

=============================================================================
