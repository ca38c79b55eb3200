------------------------- MODULE RateLimiterProofs -------------------------
(***************************************************************************)
(* The token bucket law for any number of addresses and concurrent         *)
(* requests, any rate, burst, price and times to live.                     *)
(***************************************************************************)
EXTENDS RateLimiter, TLAPS

RLInv == RLTypeOK /\ Budget /\ StampsBehindClock

-----------------------------------------------------------------------------
(* Arithmetic *)

\* Refill adds up, and grows with time.
LEMMA RefillLemma ==
    /\ \A x \in Nat : Refill(x) \in Nat
    /\ \A x, y \in Nat : Refill(x + y) = Refill(x) + Refill(y)
    /\ \A x, y \in Nat : x <= y => Refill(x) <= Refill(y)
<1>1. Rate \in Nat
  BY RateAssumption
<1>2. \A x \in Nat : Refill(x) \in Nat
  BY <1>1 DEF Refill
<1>3. \A x, y \in Nat : Refill(x + y) = Refill(x) + Refill(y)
  BY <1>1 DEF Refill
<1>4. ASSUME NEW x \in Nat, NEW y \in Nat, x <= y
      PROVE  Refill(x) <= Refill(y)
  <2>1. PICK d \in Nat : y = x + d
    BY <1>4
  <2>2. Refill(y) = Refill(x) + Refill(d)
    BY <1>3, <2>1, Zenon
  <2>3. Refill(x) \in Nat /\ Refill(d) \in Nat
    BY <1>2, <2>1, Zenon
  <2> QED
    BY <2>2, <2>3
<1> QED
  BY <1>2, <1>3, <1>4

\* A bucket that is set back to now, or brought forward to it.
LEMMA DurationLemma ==
    ASSUME NEW now \in Nat, NEW last \in Nat
    PROVE  /\ duration_since(now, last) \in Nat
           /\ duration_since(last, now) \in Nat
           /\ now + duration_since(last, now) = last + duration_since(now, last)
           /\ now <= last => duration_since(now, last) = 0
BY DEF duration_since

-----------------------------------------------------------------------------
(* One address: spent, at and back stand for its admitted, seen, rewound.  *)

\* The refill half of try_consume on one bucket.
LEMMA RefilledLemma ==
    ASSUME NEW bucket \in TokenBucket, NEW now \in Nat
    PROVE  /\ Refilled(bucket, now) \in TokenBucket
           /\ Refilled(bucket, now).last_update = now
           /\ Refilled(bucket, now).tokens
                 <= bucket.tokens + Refill(duration_since(now, bucket.last_update))
<1> DEFINE gain == Refill(duration_since(now, bucket.last_update))
           sum  == bucket.tokens + gain
<1>1. bucket.tokens \in 0..Burst /\ bucket.last_update \in Nat
  BY DEF TokenBucket
<1>2. gain \in Nat
  BY <1>1, DurationLemma, RefillLemma
<1>3. Refilled(bucket, now) = [tokens |-> Least(sum, Burst), last_update |-> now]
  BY DEF Refilled
<1> HIDE DEF gain
<1>4. Least(sum, Burst) \in 0..Burst /\ Least(sum, Burst) <= sum
  BY <1>1, <1>2, RateAssumption DEF Least
<1> HIDE DEF sum
<1> QED
  BY <1>3, <1>4 DEF TokenBucket, sum, gain

\* What one call of try_consume spends is covered.
LEMMA CoveredLemma ==
    ASSUME NEW spent \in Nat, NEW at \in Nat, NEW back \in Nat,
           NEW tokens \in Nat, NEW after \in Nat, NEW now \in Nat,
           spent + tokens <= Burst + Refill(at + back),
           after <= tokens + Refill(duration_since(now, at))
    PROVE  spent + after <= Burst + Refill(now + (back + duration_since(at, now)))
<1> DEFINE d == duration_since(now, at)
           e == duration_since(at, now)
<1>1. d \in Nat /\ e \in Nat /\ now + e = at + d
  BY DurationLemma
<1>2. after <= tokens + Refill(d)
  OBVIOUS
<1>3. spent + after <= Burst + Refill(now + (back + e))
  <2> HIDE DEF d, e
  <2>1. now + (back + e) = (at + back) + d
    BY <1>1
  <2>2. Refill(now + (back + e)) = Refill(at + back) + Refill(d)
    <3>1. at + back \in Nat
      OBVIOUS
    <3>2. Refill((at + back) + d) = Refill(at + back) + Refill(d)
      BY <1>1, <3>1, RefillLemma, Zenon
    <3> QED
      BY <2>1, <3>2, Zenon
  <2>3. Refill(at + back) \in Nat /\ Refill(d) \in Nat /\ Burst \in Nat
    <3>1. at + back \in Nat /\ Burst \in Nat
      BY RateAssumption
    <3> QED
      BY <1>1, <3>1, RefillLemma, Zenon
  <2> DEFINE x == Refill(at + back)
             y == Refill(d)
  <2>4. /\ x \in Nat /\ y \in Nat /\ Burst \in Nat
        /\ spent + tokens <= Burst + x /\ after <= tokens + y
    BY <1>2, <2>3
  <2> HIDE DEF x, y
  <2>5. spent + after <= Burst + (x + y)
    BY <2>4
  <2> QED
    BY <2>2, <2>5 DEF x, y
<1> QED
  BY <1>3

\* A bucket that is evicted leaves a burst behind.
LEMMA EvictedLemma ==
    ASSUME NEW spent \in Nat, NEW at \in Nat, NEW back \in Nat,
           NEW tokens \in Nat, NEW now \in Nat,
           spent + tokens <= Burst + Refill(at + back),
           duration_since(now, at) >= EntryTtl
    PROVE  spent <= Refill(now + back)
<1>1. EntryTtl \in Nat /\ Burst \in Nat /\ EntryTtl > 0
  BY RateAssumption
<1>2. /\ (at + back) + EntryTtl <= now + back
      /\ at + back \in Nat /\ now + back \in Nat /\ (at + back) + EntryTtl \in Nat
  BY <1>1 DEF duration_since
<1>3. Refill((at + back) + EntryTtl) = Refill(at + back) + Refill(EntryTtl)
  BY <1>1, <1>2, RefillLemma, Zenon
<1>4. Refill((at + back) + EntryTtl) <= Refill(now + back)
  BY <1>1, <1>2, RefillLemma, Zenon
<1>5. Burst <= Refill(EntryTtl)
  BY TtlAssumption, <1>1, RateAssumption
<1> DEFINE x == Refill(at + back)
           y == Refill(EntryTtl)
           z == Refill(now + back)
<1>6. x \in Nat /\ y \in Nat /\ z \in Nat
  BY <1>1, <1>2, RefillLemma, Zenon
<1>7. x + y <= z /\ Burst <= y /\ spent + tokens <= Burst + x
  BY <1>3, <1>4, <1>5
<1> HIDE DEF x, y, z
<1>8. spent <= z
  BY <1>1, <1>6, <1>7
<1> QED
  BY <1>8 DEF z

\* A new bucket starts full.
LEMMA NewLemma ==
    ASSUME NEW spent \in Nat, NEW at \in Nat, NEW back \in Nat, NEW now \in Nat,
           spent <= Refill(at + back)
    PROVE  spent + Burst <= Burst + Refill(now + (back + duration_since(at, now)))
<1>1. back + duration_since(at, now) \in Nat /\ Burst \in Nat
  BY DurationLemma, RateAssumption
<1>2. /\ at + back <= now + (back + duration_since(at, now))
      /\ at + back \in Nat /\ now + (back + duration_since(at, now)) \in Nat
  BY DEF duration_since
<1>3. Refill(at + back) <= Refill(now + (back + duration_since(at, now)))
  BY <1>2, RefillLemma, Zenon
<1> DEFINE x == Refill(at + back)
           z == Refill(now + (back + duration_since(at, now)))
<1>4. x \in Nat /\ z \in Nat
  BY <1>2, RefillLemma, Zenon
<1>5. x <= z /\ spent <= x
  BY <1>3
<1> HIDE DEF x, z
<1>6. spent + Burst <= Burst + z
  BY <1>1, <1>4, <1>5
<1> QED
  BY <1>6 DEF z

-----------------------------------------------------------------------------
(* The invariant is inductive *)

\* No bucket, and nothing handed out.
LEMMA InitRL == RLInit => RLInv
<1> SUFFICES ASSUME RLInit PROVE RLInv
  OBVIOUS
<1>1. PICK j \in IP : reqs = [r \in Req |-> [pc |-> "idle", ip |-> j, now |-> 0]]
  <2>1. (CHOOSE j \in IP : TRUE) \in IP
    BY RateAssumption, Zenon
  <2> QED
    BY <2>1, Zenon DEF RLInit
<1>2. /\ clock = 0 /\ last_cleanup = 0
      /\ DOMAIN buckets = {} /\ buckets \in [DOMAIN buckets -> TokenBucket]
      /\ admitted = [i \in IP |-> 0] /\ seen = [i \in IP |-> 0] /\ rewound = [i \in IP |-> 0]
  <2>1. buckets = << >>
    BY Zenon DEF RLInit
  <2>2. clock = 0 /\ last_cleanup = 0 /\ admitted = [i \in IP |-> 0]
        /\ seen = [i \in IP |-> 0] /\ rewound = [i \in IP |-> 0]
    BY Zenon DEF RLInit
  <2> QED
    BY <2>1, <2>2
<1>3. RLTypeOK
  BY <1>1, <1>2, RateAssumption DEF RLTypeOK
<1>4. Refill(0 + 0) \in Nat
  BY RateAssumption DEF Refill
<1>5. Budget
  <2> SUFFICES ASSUME NEW i \in IP
               PROVE  admitted[i] <= Refill(seen[i] + rewound[i]) /\ i \notin DOMAIN buckets
    BY Zenon DEF Budget
  <2>1. admitted[i] = 0 /\ Refill(seen[i] + rewound[i]) = Refill(0 + 0) /\ i \notin DOMAIN buckets
    BY <1>2
  <2> QED
    BY <1>4, <2>1
<1>6. StampsBehindClock
  BY <1>1, <1>2 DEF StampsBehindClock
<1> QED
  BY <1>3, <1>5, <1>6 DEF RLInv

\* A request that arrives has read the clock.
LEMMA ArriveKeeps ==
    ASSUME RLInv, NEW r \in Req, NEW i \in IP, Arrive(r, i)
    PROVE  RLInv'
<1>1. RLTypeOK'
  BY RateAssumption DEF RLInv, RLTypeOK, Arrive
<1>2. Budget' /\ StampsBehindClock'
  BY RateAssumption DEF RLInv, RLTypeOK, Arrive, Budget, StampsBehindClock
<1> QED
  BY <1>1, <1>2 DEF RLInv

\* Time only gives more.
LEMMA TimeKeeps ==
    ASSUME RLInv, TimePasses
    PROVE  RLInv'
<1>1. RLTypeOK'
  BY RateAssumption DEF RLInv, RLTypeOK, TimePasses
<1>2. Budget' /\ StampsBehindClock'
  BY RateAssumption DEF RLInv, RLTypeOK, TimePasses, Budget, StampsBehindClock
<1> QED
  BY <1>1, <1>2 DEF RLInv

\* Full buckets only are evicted.
LEMMA CleanupKeeps ==
    ASSUME RLInv, NEW r \in Req, Cleanup(r)
    PROVE  RLInv'
<1> DEFINE now == reqs[r].now
           due == duration_since(now, last_cleanup) >= CleanupInterval
           keep == {i \in DOMAIN buckets : ~(due /\ Stale(i, now))}
<1>1. /\ buckets' = [i \in keep |-> buckets[i]]
      /\ seen' = [i \in IP |-> IF i \in DOMAIN buckets \ keep THEN now ELSE seen[i]]
      /\ last_cleanup' = IF due THEN now ELSE last_cleanup
      /\ reqs' = [reqs EXCEPT ![r].pc = "consuming"]
      /\ UNCHANGED <<clock, admitted, rewound>>
  BY DEF Cleanup
<1>2. /\ RLTypeOK /\ Budget /\ StampsBehindClock
      /\ now \in Nat /\ now <= clock
      /\ keep \subseteq DOMAIN buckets
      /\ \A i \in DOMAIN buckets \ keep : Stale(i, now)
  BY DEF RLInv, RLTypeOK, StampsBehindClock
<1> HIDE DEF now, due, keep
<1>3. RLTypeOK'
  BY <1>1, <1>2 DEF RLTypeOK
<1>4. StampsBehindClock'
  BY <1>1, <1>2 DEF RLTypeOK, StampsBehindClock
<1>5. ASSUME NEW i \in IP
      PROVE  IF i \in DOMAIN buckets'
             THEN /\ buckets'[i].last_update = seen'[i]
                  /\ admitted'[i] + buckets'[i].tokens
                         <= Burst + Refill(seen'[i] + rewound'[i])
             ELSE admitted'[i] <= Refill(seen'[i] + rewound'[i])
  <2>1. CASE i \notin DOMAIN buckets \ keep
    BY <1>1, <1>2, <2>1 DEF Budget
  <2>2. CASE i \in DOMAIN buckets \ keep
    <3>1. /\ admitted[i] \in Nat /\ seen[i] \in Nat /\ rewound[i] \in Nat
          /\ buckets[i].tokens \in Nat
          /\ buckets[i].last_update = seen[i]
          /\ admitted[i] + buckets[i].tokens <= Burst + Refill(seen[i] + rewound[i])
      BY <1>2, <2>2, RateAssumption DEF RLTypeOK, TokenBucket, Budget
    <3>2. duration_since(now, seen[i]) >= EntryTtl
      BY <1>2, <2>2, <3>1 DEF Stale
    <3>3. admitted[i] <= Refill(now + rewound[i])
      BY <1>2, <3>1, <3>2, EvictedLemma
    <3> QED
      BY <1>1, <2>2, <3>3
  <2> QED
    BY <2>1, <2>2
<1> QED
  BY <1>3, <1>4, <1>5 DEF RLInv, Budget

\* The refill and the price of one request.
LEMMA ConsumeKeeps ==
    ASSUME RLInv, NEW r \in Req, Consume(r)
    PROVE  RLInv'
<1> DEFINE i        == reqs[r].ip
           now      == reqs[r].now
           bucket   == IF i \in DOMAIN buckets THEN buckets[i] ELSE NewBucket
           refilled == Refilled(bucket, now)
           allowed  == refilled.tokens >= Cost
           left     == [refilled EXCEPT !.tokens = IF allowed THEN @ - Cost ELSE @]
           price    == IF allowed THEN Cost ELSE 0
<1>1. /\ buckets' = [j \in DOMAIN buckets \cup {i} |-> IF j = i THEN left ELSE buckets[j]]
      /\ admitted' = [admitted EXCEPT ![i] = IF allowed THEN @ + Cost ELSE @]
      /\ rewound' = [rewound EXCEPT ![i] = @ + duration_since(seen[i], now)]
      /\ seen' = [seen EXCEPT ![i] = now]
      /\ reqs' = [reqs EXCEPT ![r].pc = "idle"]
      /\ UNCHANGED <<clock, last_cleanup>>
  BY DEF Consume
<1>2. /\ RLTypeOK /\ Budget /\ StampsBehindClock
      /\ i \in IP /\ now \in Nat /\ now <= clock /\ clock \in Nat
      /\ admitted[i] \in Nat /\ seen[i] \in Nat /\ rewound[i] \in Nat
  BY RateAssumption DEF RLInv, RLTypeOK, StampsBehindClock
<1>3. duration_since(seen[i], now) \in Nat
  BY <1>2, DurationLemma
<1>4. bucket \in TokenBucket
  BY <1>2, RateAssumption DEF RLTypeOK, NewBucket, TokenBucket
<1> HIDE DEF bucket
<1>5. refilled \in TokenBucket /\ refilled.last_update = now
  BY <1>2, <1>4, RefilledLemma
<1>6. admitted[i] + refilled.tokens
          <= Burst + Refill(now + (rewound[i] + duration_since(seen[i], now)))
  <2>0. refilled.tokens \in Nat /\ refilled.tokens <= Burst
    BY <1>5, RateAssumption DEF TokenBucket
  <2>1. CASE i \in DOMAIN buckets
    <3>1. /\ bucket.tokens \in Nat /\ bucket.last_update = seen[i]
          /\ admitted[i] + bucket.tokens <= Burst + Refill(seen[i] + rewound[i])
      BY <1>2, <1>4, <2>1, RateAssumption DEF bucket, Budget, TokenBucket
    <3>2. refilled.tokens <= bucket.tokens + Refill(duration_since(now, seen[i]))
      BY <1>2, <1>4, <3>1, RefilledLemma
    <3> HIDE DEF i, now, refilled
    <3> QED
      BY <1>2, <2>0, <3>1, <3>2, CoveredLemma
  <2>2. CASE i \notin DOMAIN buckets
    <3>1. admitted[i] <= Refill(seen[i] + rewound[i])
      BY <1>2, <2>2 DEF Budget
    <3> DEFINE z == Refill(now + (rewound[i] + duration_since(seen[i], now)))
    <3>2. admitted[i] + Burst <= Burst + z
      BY <1>2, <3>1, NewLemma
    <3>3. z \in Nat
      <4> HIDE DEF i, now
      <4>1. now + (rewound[i] + duration_since(seen[i], now)) \in Nat
        BY <1>2, <1>3
      <4> QED
        BY <4>1, RefillLemma, Zenon
    <3> HIDE DEF z, i, refilled
    <3>4. admitted[i] + refilled.tokens <= Burst + z
      BY <1>2, <2>0, <3>2, <3>3, RateAssumption
    <3> QED
      BY <3>4 DEF z
  <2> QED
    BY <2>1, <2>2
<1> HIDE DEF refilled
<1>7. /\ left \in TokenBucket
      /\ left.last_update = now
      /\ price \in Nat
      /\ left.tokens + price = refilled.tokens
  BY <1>5, RateAssumption DEF TokenBucket
<1>8. admitted' = [admitted EXCEPT ![i] = @ + price]
  <2>1. CASE allowed
    BY <1>1, <2>1
  <2>2. CASE ~allowed
    <3>1. admitted[i] + price = admitted[i]
      BY <1>2, <2>2
    <3>2. admitted' = [admitted EXCEPT ![i] = admitted[i]]
      BY <1>1, <2>2
    <3> QED
      BY <3>1, <3>2
  <2> QED
    BY <2>1, <2>2
<1> HIDE DEF i, now, left, allowed, price
<1>9. RLTypeOK'
  BY <1>1, <1>2, <1>7, <1>8, <1>3 DEF RLTypeOK
<1>10. StampsBehindClock'
  BY <1>1, <1>2 DEF RLTypeOK, StampsBehindClock
<1>11. ASSUME NEW j \in IP
       PROVE  IF j \in DOMAIN buckets'
              THEN /\ buckets'[j].last_update = seen'[j]
                   /\ admitted'[j] + buckets'[j].tokens
                          <= Burst + Refill(seen'[j] + rewound'[j])
              ELSE admitted'[j] <= Refill(seen'[j] + rewound'[j])
  <2>1. CASE j # i
    BY <1>1, <1>2, <1>8, <2>1 DEF RLTypeOK, Budget
  <2>2. CASE j = i
    <3>1. /\ j \in DOMAIN buckets' /\ buckets'[j] = left
          /\ seen'[j] = now
          /\ rewound'[j] = rewound[i] + duration_since(seen[i], now)
          /\ admitted'[j] = admitted[i] + price
      BY <1>1, <1>2, <1>8, <2>2 DEF RLTypeOK
    <3>2. left.tokens \in Nat
      BY <1>7, RateAssumption DEF TokenBucket
    <3>3. (admitted[i] + price) + left.tokens = admitted[i] + refilled.tokens
      BY <1>2, <1>7, <3>2
    <3> QED
      BY <1>6, <1>7, <3>1, <3>3
  <2> QED
    BY <2>1, <2>2
<1> QED
  BY <1>9, <1>10, <1>11 DEF RLInv, Budget

\* The invariant is inductive.
LEMMA NextRL == RLInv /\ [RLNext]_rlVars => RLInv'
<1> SUFFICES ASSUME RLInv, [RLNext]_rlVars PROVE RLInv'
  OBVIOUS
<1>1. CASE UNCHANGED rlVars
  BY <1>1 DEF rlVars, RLInv, RLTypeOK, Budget, StampsBehindClock
<1> QED
  BY <1>1, TimeKeeps, ArriveKeeps, CleanupKeeps, ConsumeKeeps DEF RLNext

\* It holds in every state.
LEMMA AlwaysRL == RLSpec => []RLInv
BY InitRL, NextRL, PTL DEF RLSpec

-----------------------------------------------------------------------------
(***************************************************************************)
(* Every variable of the limiter keeps its type; in particular a bucket    *)
(* never holds more than the burst.                                        *)
(***************************************************************************)
THEOREM BucketsTyped == RLSpec => []RLTypeOK
BY AlwaysRL, PTL DEF RLInv

(***************************************************************************)
(* What a bucket holds is part of the budget of its address: the burst and *)
(* the refill for the bucket's own time and for all the time that late     *)
(* stamps turned it back (rewound).  So late stamps do give more than time *)
(* alone would, and never more than this.  Evictions give nothing, by      *)
(* TtlAssumption, which the code leaves to who chooses the rate.           *)
(***************************************************************************)
THEOREM BudgetAlwaysKept == RLSpec => []Budget
BY AlwaysRL, PTL DEF RLInv

(***************************************************************************)
(* No address is ever admitted more than the burst and the refill for the  *)
(* time that has passed and for the time turned back (rewound), however    *)
(* many requests race; without the latter the code exceeds the bound.      *)
(* Rests on TtlAssumption, as the budget does.                             *)
(***************************************************************************)
THEOREM AdmissionsBounded == RLSpec => []AdmissionBound
<1>1. RLInv => AdmissionBound
  <2> SUFFICES ASSUME RLInv, NEW i \in IP
               PROVE  admitted[i] <= Burst + Refill(clock + rewound[i])
    BY DEF AdmissionBound
  <2>1. /\ admitted[i] \in Nat /\ seen[i] \in Nat /\ rewound[i] \in Nat
        /\ clock \in Nat /\ seen[i] <= clock /\ Burst \in Nat
        /\ i \in DOMAIN buckets => buckets[i].tokens \in Nat
    BY RateAssumption DEF RLInv, RLTypeOK, StampsBehindClock, TokenBucket
  <2> DEFINE x == Refill(seen[i] + rewound[i])
             z == Refill(clock + rewound[i])
  <2>2. x \in Nat /\ z \in Nat /\ x <= z
    <3>1. /\ seen[i] + rewound[i] \in Nat /\ clock + rewound[i] \in Nat
          /\ seen[i] + rewound[i] <= clock + rewound[i]
      BY <2>1
    <3> QED
      BY <3>1, RefillLemma, Zenon
  <2>3. admitted[i] <= x \/ \E t \in Nat : admitted[i] + t <= Burst + x
    BY <2>1 DEF RLInv, Budget
  <2> HIDE DEF x, z
  <2>4. admitted[i] <= Burst + z
    BY <2>1, <2>2, <2>3
  <2> QED
    BY <2>4 DEF z
<1> QED
  BY <1>1, AlwaysRL, PTL

=============================================================================
