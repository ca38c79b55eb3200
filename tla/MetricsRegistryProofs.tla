------------------------ MODULE MetricsRegistryProofs -------------------------
(***************************************************************************)
(* The metrics tables with any number of threads, methods and nodes and    *)
(* any limits: entries add up, stamps are unique, the table is bounded.    *)
(***************************************************************************)
EXTENDS MetricsRegistry, FiniteSetTheorems, TLAPS

Recording == {"count_call", "record_latency", "count_outcome"}

ThreadState ==
    [pc : {"idle", "maybe_cleanup", "clean_methods", "clean_nodes", "lookup",
           "count_call", "record_latency", "count_outcome", "count_request"},
     op : {"method", "node"}, name : Method \cup Peer,
     success : BOOLEAN, now : Nat, held : BOOLEAN]

Typed ==
    /\ clock \in 0..MaxClock
    /\ last_timestamp \in Nat
    /\ totals \in [total : Nat, successful : Nat, failed : Nat]
    /\ DOMAIN methods \subseteq Method
    /\ methods \in [DOMAIN methods -> MethodStats]
    /\ DOMAIN nodes \subseteq Peer
    /\ nodes \in [DOMAIN nodes -> NodeStats]
    /\ cleanup_counter \in Nat
    /\ threads \in [Thread -> ThreadState]

\* An operation has a name of its kind, and only one that records holds an
\* entry, which is then in the table.
Consistent(t) ==
    /\ threads[t].op = "method" => threads[t].name \in Method
    /\ threads[t].op = "node" => threads[t].name \in Peer
    /\ threads[t].pc \in Recording => threads[t].op = "method"
    /\ threads[t].pc = "count_request" => threads[t].op = "node"
    /\ threads[t].held =>
          /\ threads[t].pc \in Recording \cup {"count_request"}
          /\ threads[t].op = "method" => threads[t].name \in DOMAIN methods
          /\ threads[t].op = "node" => threads[t].name \in DOMAIN nodes

Holding == \A t \in Thread : Consistent(t)

\* Threads that may insert without passing another cleanup, and threads that
\* are not about to clean up.
Inserting ==
    {t \in Thread : threads[t].op = "method" /\ threads[t].pc \in {"clean_nodes", "lookup"}}

Elsewhere == {t \in Thread : threads[t].pc # "clean_methods"}

\* Operations that pass maybe_cleanup before the next one that cleans up.
Pass(n) ==
    IF n % CLEANUP_INTERVAL = 0 THEN 0 ELSE CLEANUP_INTERVAL - (n % CLEANUP_INTERVAL)

\* Insertions that can still come before the next cleanup of the methods: one by
\* each thread past maybe_cleanup, one by each operation up to the next that
\* cleans up, and an interval of them for each further thread that may be
\* delayed before it takes the lock.
ToCome(u) == IF u = 0 THEN 0
             ELSE Pass(cleanup_counter) + (CLEANUP_INTERVAL - 1) * (u - 1)

Room ==
    /\ IsFiniteSet(DOMAIN methods)
    /\ Cardinality(DOMAIN methods) + Cardinality(Inserting) + ToCome(Cardinality(Elsewhere))
          <= max_methods + CLEANUP_INTERVAL * Cardinality(Thread)

MRInv == Typed /\ Started <= MaxOps /\ Holding /\ EntriesAddUp /\ StampsUnique /\ Room

-----------------------------------------------------------------------------
(* Counting *)

LEMMA ThreadsFinite == \A S \in SUBSET Thread : IsFiniteSet(S) /\ Cardinality(S) \in Nat
<1> SUFFICES ASSUME NEW S \in SUBSET Thread PROVE IsFiniteSet(S) /\ Cardinality(S) \in Nat
  OBVIOUS
<1>1. IsFiniteSet(S)
  BY FS_Subset, MetricsAssumption DEF MetricsAssumption
<1> QED
  BY <1>1, FS_CardinalityType

LEMMA OneMore ==
    ASSUME NEW S \in SUBSET Thread, NEW t \in Thread, t \notin S
    PROVE  Cardinality(S \cup {t}) = Cardinality(S) + 1
BY ThreadsFinite, FS_AddElement

LEMMA OneLess ==
    ASSUME NEW S \in SUBSET Thread, NEW t \in S
    PROVE  Cardinality(S \ {t}) = Cardinality(S) - 1
BY ThreadsFinite, FS_RemoveElement

\* The position in the interval after one more operation.
LEMMA NextRemainder ==
    ASSUME NEW n \in Nat, NEW c \in Nat \ {0}
    PROVE  /\ n % c \in 0..(c - 1)
           /\ (n + 1) % c = IF n % c = c - 1 THEN 0 ELSE (n % c) + 1
<1> DEFINE q == n \div c
           m == n % c
           p == (n + 1) \div c
           k == (n + 1) % c
<1>1. q \in Int /\ p \in Int /\ m \in 0..(c - 1) /\ k \in 0..(c - 1)
  OBVIOUS
<1>2. n = c * q + m /\ n + 1 = c * p + k
  <2>1. PICK x \in Nat : x = n + 1
    OBVIOUS
  <2>2. n = c * (n \div c) + (n % c) /\ x = c * (x \div c) + (x % c)
    OBVIOUS
  <2> QED
    BY <2>1, <2>2
<1> HIDE DEF q, m, p, k
<1>3. c * p + k = c * q + m + 1
  BY <1>1, <1>2
<1>4. c * (p - q) = m + 1 - k
  BY <1>1, <1>3
<1>5. PICK d \in Int : d = p - q /\ c * d = m + 1 - k
  BY <1>1, <1>4
<1>6. d <= 0 \/ d = 1 \/ d >= 2
  BY <1>5
<1>7. d < 2
  <2> SUFFICES ASSUME d >= 2 PROVE FALSE
    BY <1>5
  <2>1. PICK e \in Nat : d = 2 + e
    BY <1>5
  <2>2. c * d = 2 * c + c * e /\ c * e >= 0
    BY <2>1
  <2> QED
    BY <1>1, <1>5, <2>2
<1>8. d >= 0
  <2> SUFFICES ASSUME d < 0 PROVE FALSE
    BY <1>5
  <2>1. PICK e \in Nat : d + 1 + e = 0
    <3>1. -(d + 1) \in Nat
      BY <1>5
    <3> QED
      BY <3>1, <1>5
  <2>2. c * d = -c - c * e /\ c * e >= 0
    BY <2>1
  <2> QED
    BY <1>1, <1>5, <2>2
<1>9. k = m + 1 \/ (k = m + 1 - c)
  BY <1>1, <1>5, <1>6, <1>7, <1>8
<1>10. k = IF m = c - 1 THEN 0 ELSE m + 1
  BY <1>1, <1>9
<1> QED
  BY <1>1, <1>10 DEF m, k

-----------------------------------------------------------------------------
(* What most steps leave alone *)

LEMMA IdleTyped ==
    /\ Idle \in ThreadState
    /\ Idle.name \in Method
BY MetricsAssumption DEF MetricsAssumption, Idle, ThreadState

LEMMA StampRises == Typed => Stamp \in Nat /\ Stamp > last_timestamp
BY MetricsAssumption DEF Typed, Stamp, MetricsAssumption

\* Entries are removed, but none is changed, and the same threads hold them.
LEMMA Untouched ==
    ASSUME Typed, Typed', EntriesAddUp, StampsUnique,
           DOMAIN methods' \subseteq DOMAIN methods,
           \A m \in DOMAIN methods' : methods'[m] = methods[m],
           last_timestamp <= last_timestamp',
           \A m \in DOMAIN methods' :
               /\ Holders(m, {"record_latency", "count_outcome"})'
                     = Holders(m, {"record_latency", "count_outcome"})
               /\ Holders(m, {"count_outcome"})' = Holders(m, {"count_outcome"})
    PROVE  EntriesAddUp' /\ StampsUnique'
<1>1. EntriesAddUp'
  <2> SUFFICES ASSUME NEW m \in DOMAIN methods'
               PROVE
        LET done == methods'[m].success_count + methods'[m].failure_count
        IN  /\ methods'[m].call_count
                  = done + Cardinality(Holders(m, {"record_latency", "count_outcome"})')
            /\ methods'[m].sample_count
                  = done + Cardinality(Holders(m, {"count_outcome"})')
    BY DEF EntriesAddUp
  <2> QED
    BY DEF EntriesAddUp
<1>2. StampsUnique'
  <2>1. \A m \in DOMAIN methods' : methods[m].last_access \in Nat
    BY DEF Typed, MethodStats
  <2> QED
    BY <2>1 DEF StampsUnique, Typed
<1> QED
  BY <1>1, <1>2

LEMMA SameRoom ==
    ASSUME Typed, Room, DOMAIN methods' \subseteq DOMAIN methods,
           Inserting' \subseteq Inserting, Elsewhere' = Elsewhere,
           cleanup_counter' = cleanup_counter
    PROVE  Room'
<1>1. /\ IsFiniteSet(DOMAIN methods') /\ Cardinality(DOMAIN methods') \in Nat
      /\ Cardinality(DOMAIN methods') <= Cardinality(DOMAIN methods)
      /\ Cardinality(DOMAIN methods) \in Nat
  BY FS_Subset, FS_CardinalityType DEF Room
<1>2. /\ Cardinality(Inserting') <= Cardinality(Inserting)
      /\ Cardinality(Inserting) \in Nat /\ Cardinality(Inserting') \in Nat
  <2>1. Inserting \in SUBSET Thread /\ Inserting' \in SUBSET Inserting
    BY DEF Inserting
  <2> QED
    BY <2>1, ThreadsFinite, FS_Subset
<1>3. ToCome(Cardinality(Elsewhere))' = ToCome(Cardinality(Elsewhere))
  BY DEF ToCome, Pass
<1> DEFINE c == ToCome(Cardinality(Elsewhere))
           limit == max_methods + CLEANUP_INTERVAL * Cardinality(Thread)
<1>4. c \in Int /\ limit \in Int
  <2>1. Cardinality(Elsewhere) \in Nat /\ Cardinality(Thread) \in Nat
    BY ThreadsFinite DEF Elsewhere
  <2> QED
    BY <2>1, MetricsAssumption DEF Typed, ToCome, Pass, MetricsAssumption
<1> HIDE DEF c, limit
<1>5. Cardinality(DOMAIN methods) + Cardinality(Inserting) + c <= limit
  BY DEF Room, c, limit
<1>6. Cardinality(DOMAIN methods') + Cardinality(Inserting') + c <= limit
  BY <1>1, <1>2, <1>4, <1>5
<1> QED
  BY <1>1, <1>3, <1>6 DEF Room, c, limit

LEMMA InitHolds == MRInit => MRInv
<1> SUFFICES ASSUME MRInit PROVE MRInv
  OBVIOUS
<1> USE DEF MRInit
<1>1. DOMAIN methods = {} /\ DOMAIN nodes = {}
  OBVIOUS
<1>2. Typed
  <2>1. methods \in [DOMAIN methods -> MethodStats] /\ nodes \in [DOMAIN nodes -> NodeStats]
    BY <1>1
  <2> QED
    BY <1>1, <2>1, IdleTyped, MetricsAssumption DEF Typed, MetricsAssumption
<1>3. \A t \in Thread : threads[t].pc = "idle" /\ threads[t].held = FALSE
                         /\ threads[t].op = "method"
  BY DEF Idle
<1>4. Started <= MaxOps
  <2>1. Starting = {}
    BY <1>3 DEF Starting
  <2> QED
    BY <2>1, FS_EmptySet, MetricsAssumption DEF Started, MetricsAssumption
<1>5. Holding
  BY <1>3, IdleTyped DEF Holding, Consistent, Recording
<1>6. EntriesAddUp /\ StampsUnique
  BY <1>1 DEF EntriesAddUp, StampsUnique
<1>7. Room
  <2>1. Inserting = {} /\ Elsewhere = Thread
    BY <1>3 DEF Inserting, Elsewhere
  <2>2. Cardinality(Thread) \in Nat
    BY ThreadsFinite
  <2>3. Cardinality(DOMAIN methods) = 0 /\ IsFiniteSet(DOMAIN methods)
        /\ Cardinality(Inserting) = 0
    BY <1>1, <2>1, FS_EmptySet
  <2> DEFINE u == Cardinality(Thread)
             c == CLEANUP_INTERVAL
  <2>4. u \in Nat /\ c \in Nat /\ c > 0 /\ max_methods \in Nat /\ cleanup_counter = 0
    BY <2>2, MetricsAssumption DEF MetricsAssumption
  <2>5. ToCome(u) <= c * u
    <3>1. ToCome(u) = IF u = 0 THEN 0 ELSE (c - 1) * (u - 1)
      <4>1. 0 % c = 0
        BY <2>4
      <4> QED
        BY <4>1, <2>4 DEF ToCome, Pass
    <3> HIDE DEF u, c
    <3>2. u # 0 => (c - 1) * (u - 1) = c * u - c - u + 1
      BY <2>4
    <3>3. c * u \in Nat
      BY <2>4
    <3> QED
      BY <2>4, <3>1, <3>2, <3>3
  <2>6. ToCome(u) \in Int /\ c * u \in Int
    BY <2>4 DEF ToCome, Pass
  <2>7. ToCome(u) <= max_methods + c * u
    <3> DEFINE x == ToCome(u)
               y == c * u
    <3> HIDE DEF x, y
    <3>1. x <= y /\ x \in Int /\ y \in Int
      BY <2>5, <2>6 DEF x, y
    <3>2. x <= max_methods + y
      BY <3>1, <2>4
    <3> QED
      BY <3>2 DEF x, y
  <2> QED
    BY <2>1, <2>3, <2>6, <2>7 DEF Room
<1> QED
  BY <1>2, <1>4, <1>5, <1>6, <1>7 DEF MRInv

-----------------------------------------------------------------------------
(* Each action keeps the invariant. *)

\* A thread that holds nothing takes a step that moves neither to nor from the
\* places that record, and leaves it holding nothing.
LEMMA SameHolders ==
    ASSUME Typed, NEW t \in Thread, NEW r, threads' = [threads EXCEPT ![t] = r],
           ~threads[t].held, ~r.held,
           NEW m, NEW pcs
    PROVE  Holders(m, pcs)' = Holders(m, pcs)
<1>1. threads'[t] = r /\ \A u \in Thread \ {t} : threads'[u] = threads[u]
  BY DEF Typed
<1>2. \A u \in Thread : u \in Holders(m, pcs)' <=> u \in Holders(m, pcs)
  BY <1>1 DEF Holders
<1> QED
  BY <1>2 DEF Holders

\* An operation begins: a thread goes from idle to maybe_cleanup.
LEMMA StartKeeps ==
    ASSUME MRInv, NEW t \in Thread, threads[t].pc = "idle", Started < MaxOps,
           NEW r \in ThreadState, r.pc = "maybe_cleanup", ~r.held,
           r.op = "method" => r.name \in Method,
           r.op = "node" => r.name \in Peer,
           threads' = [threads EXCEPT ![t] = r],
           totals' \in [total : Nat, successful : Nat, failed : Nat],
           UNCHANGED <<clock, last_timestamp, methods, nodes, cleanup_counter>>
    PROVE  MRInv'
<1>1. Typed'
  BY DEF MRInv, Typed
<1>2. threads'[t] = r /\ \A u \in Thread \ {t} : threads'[u] = threads[u]
  BY DEF MRInv, Typed
<1>3. ~threads[t].held
  BY DEF MRInv, Holding, Consistent, Recording
<1>4. (Started <= MaxOps)'
  <2>1. Starting' = Starting \cup {t} /\ t \notin Starting
    BY <1>2 DEF Starting
  <2>2. Cardinality(Starting') = Cardinality(Starting) + 1 /\ Cardinality(Starting) \in Nat
    BY <2>1, OneMore, ThreadsFinite DEF Starting
  <2> QED
    BY <2>2, MetricsAssumption DEF Started, MRInv, Typed, MetricsAssumption
<1>5. Holding'
  <2> SUFFICES ASSUME NEW u \in Thread PROVE Consistent(u)'
    BY DEF Holding
  <2>1. Consistent(u)
    BY DEF MRInv, Holding
  <2>2. CASE u = t
    BY <1>2, <2>2 DEF Consistent, Recording
  <2>3. CASE u # t
    BY <1>2, <2>1, <2>3 DEF Consistent
  <2> QED
    BY <2>2, <2>3
<1>6. EntriesAddUp' /\ StampsUnique'
  <2>1. \A m, pcs : Holders(m, pcs)' = Holders(m, pcs)
    BY <1>3, SameHolders DEF MRInv
  <2>2. last_timestamp <= last_timestamp'
    BY DEF MRInv, Typed
  <2> QED
    BY <1>1, <2>1, <2>2, Untouched DEF MRInv
<1>7. Room'
  <2>1. Inserting' \subseteq Inserting /\ Elsewhere' = Elsewhere
    BY <1>2 DEF Inserting, Elsewhere
  <2> QED
    BY <2>1, SameRoom DEF MRInv
<1> QED
  BY <1>1, <1>4, <1>5, <1>6, <1>7 DEF MRInv

LEMMA StartCallKeeps ==
    ASSUME MRInv, NEW t \in Thread, Started < MaxOps,
           NEW m \in Method, NEW success \in BOOLEAN, StartCall(t, m, success)
    PROVE  MRInv'
<1> DEFINE r == [Idle EXCEPT !.pc = "maybe_cleanup", !.name = m, !.success = success]
<1>1. r \in ThreadState /\ r.pc = "maybe_cleanup" /\ ~r.held /\ r.op = "method" /\ r.name = m
  BY DEF Idle, ThreadState
<1>2. totals' \in [total : Nat, successful : Nat, failed : Nat]
  BY DEF StartCall, MRInv, Typed
<1>3. threads[t].pc = "idle" /\ threads' = [threads EXCEPT ![t] = r]
      /\ UNCHANGED <<clock, last_timestamp, methods, nodes, cleanup_counter>>
  BY DEF StartCall
<1> HIDE DEF r
<1> QED
  BY <1>1, <1>2, <1>3, StartKeeps

LEMMA StartNodeRequestKeeps ==
    ASSUME MRInv, NEW t \in Thread, Started < MaxOps,
           NEW n \in Peer, StartNodeRequest(t, n)
    PROVE  MRInv'
<1> DEFINE r == [Idle EXCEPT !.pc = "maybe_cleanup", !.op = "node", !.name = n]
<1>1. r \in ThreadState /\ r.pc = "maybe_cleanup" /\ ~r.held /\ r.op = "node" /\ r.name = n
  BY DEF Idle, ThreadState
<1>2. totals' \in [total : Nat, successful : Nat, failed : Nat]
  BY DEF StartNodeRequest, MRInv, Typed
<1>3. threads[t].pc = "idle" /\ threads' = [threads EXCEPT ![t] = r]
      /\ UNCHANGED <<clock, last_timestamp, methods, nodes, cleanup_counter>>
  BY DEF StartNodeRequest
<1> HIDE DEF r
<1> QED
  BY <1>1, <1>2, <1>3, StartKeeps

\* The sum Room bounds.
LEMMA RoomParts ==
    ASSUME Typed, IsFiniteSet(DOMAIN methods)
    PROVE  /\ Cardinality(DOMAIN methods) \in Nat /\ Cardinality(Inserting) \in Nat
           /\ Cardinality(Elsewhere) \in Nat
           /\ ToCome(Cardinality(Elsewhere)) \in Int
           /\ max_methods + CLEANUP_INTERVAL * Cardinality(Thread) \in Int
<1>1. /\ Cardinality(Inserting) \in Nat /\ Cardinality(Elsewhere) \in Nat
      /\ Cardinality(Thread) \in Nat /\ Cardinality(DOMAIN methods) \in Nat
  BY ThreadsFinite, FS_CardinalityType DEF Inserting, Elsewhere
<1>2. ToCome(Cardinality(Elsewhere)) \in Int
  BY <1>1, MetricsAssumption DEF Typed, ToCome, Pass, MetricsAssumption
<1> QED
  BY <1>1, <1>2, MetricsAssumption DEF MetricsAssumption

\* One more operation has passed maybe_cleanup: it is the one that cleans up, or
\* there is one less until then.
LEMMA PassStep ==
    ASSUME NEW n \in Nat
    PROVE  /\ Pass(n) \in Nat
           /\ Pass(n) <= CLEANUP_INTERVAL - 1
           /\ n % CLEANUP_INTERVAL = 0 => Pass(n) = 0 /\ Pass(n + 1) = CLEANUP_INTERVAL - 1
           /\ n % CLEANUP_INTERVAL # 0 => Pass(n + 1) = Pass(n) - 1
<1> DEFINE c == CLEANUP_INTERVAL
           m == n % c
           k == (n + 1) % c
<1>1. c \in Nat /\ c > 0
  BY MetricsAssumption DEF MetricsAssumption
<1>2. m \in 0..(c - 1) /\ k = IF m = c - 1 THEN 0 ELSE m + 1
  <2>1. c \in Nat \ {0}
    BY <1>1
  <2> QED
    BY <2>1, NextRemainder, Zenon
<1>3. Pass(n) = (IF m = 0 THEN 0 ELSE c - m) /\ Pass(n + 1) = (IF k = 0 THEN 0 ELSE c - k)
  BY DEF Pass
<1> HIDE DEF m, k, c
<1>4. /\ Pass(n) \in Nat
      /\ Pass(n) <= c - 1
      /\ m = 0 => Pass(n) = 0 /\ Pass(n + 1) = c - 1
      /\ m # 0 => Pass(n + 1) = Pass(n) - 1
  BY <1>1, <1>2, <1>3
<1> QED
  BY <1>4 DEF m, c

LEMMA MaybeCleanupKeeps ==
    ASSUME MRInv, NEW t \in Thread, maybe_cleanup(t)
    PROVE  MRInv'
<1> DEFINE cleans == cleanup_counter % CLEANUP_INTERVAL = 0
<1>1. Typed'
  BY StampRises DEF maybe_cleanup, Goto, MRInv, Typed, ThreadState
<1>2. /\ threads'[t].pc = IF cleans THEN "clean_methods" ELSE "lookup"
      /\ threads'[t].op = threads[t].op /\ threads'[t].name = threads[t].name
      /\ threads'[t].held = threads[t].held
      /\ \A u \in Thread \ {t} : threads'[u] = threads[u]
  BY DEF maybe_cleanup, Goto, MRInv, Typed, ThreadState
<1>3. threads[t].pc = "maybe_cleanup" /\ ~threads[t].held
  BY DEF maybe_cleanup, MRInv, Holding, Consistent, Recording
<1>4. /\ last_timestamp <= last_timestamp' /\ UNCHANGED <<methods, nodes>>
      /\ cleanup_counter' = cleanup_counter + 1 /\ cleanup_counter \in Nat
  BY StampRises DEF maybe_cleanup, MRInv, Typed
<1>5. (Started <= MaxOps)'
  <2>1. Starting' = Starting \ {t} /\ t \in Starting
    BY <1>2, <1>3 DEF Starting
  <2>2. Cardinality(Starting') = Cardinality(Starting) - 1 /\ Cardinality(Starting) \in Nat
    BY <2>1, OneLess, ThreadsFinite DEF Starting
  <2> QED
    BY <1>4, <2>2, MetricsAssumption DEF Started, MRInv, MetricsAssumption
<1>6. Holding'
  <2> SUFFICES ASSUME NEW u \in Thread PROVE Consistent(u)'
    BY DEF Holding
  <2>1. Consistent(u)
    BY DEF MRInv, Holding
  <2>2. CASE u = t
    BY <1>2, <1>3, <2>1, <2>2 DEF Consistent, Recording
  <2>3. CASE u # t
    BY <1>2, <1>4, <2>1, <2>3 DEF Consistent
  <2> QED
    BY <2>2, <2>3
<1>7. EntriesAddUp' /\ StampsUnique'
  <2>1. ASSUME NEW m, NEW pcs PROVE Holders(m, pcs)' = Holders(m, pcs)
    <3>1. \A u \in Thread : u \in Holders(m, pcs)' <=> u \in Holders(m, pcs)
      BY <1>2, <1>3 DEF Holders
    <3> QED
      BY <3>1 DEF Holders
  <2> QED
    BY <1>1, <1>4, <2>1, Untouched DEF MRInv
<1>8. Room'
  <2> DEFINE s == Cardinality(DOMAIN methods)
             i == Cardinality(Inserting)
             j == Cardinality(Inserting')
             u == Cardinality(Elsewhere)
             v == Cardinality(Elsewhere')
             c == CLEANUP_INTERVAL
             p == Pass(cleanup_counter)
             q == Pass(cleanup_counter + 1)
             limit == max_methods + CLEANUP_INTERVAL * Cardinality(Thread)
             before == ToCome(u)
             after == IF v = 0 THEN 0 ELSE q + (c - 1) * (v - 1)
  <2>1. /\ s \in Nat /\ i \in Nat /\ u \in Nat /\ limit \in Int /\ before \in Int
        /\ IsFiniteSet(DOMAIN methods)
    BY RoomParts DEF MRInv, Room
  <2>2. s + i + before <= limit
    BY DEF MRInv, Room
  <2>3. before = IF u = 0 THEN 0 ELSE p + (c - 1) * (u - 1)
    BY DEF ToCome
  <2>4. /\ p \in Nat /\ p <= c - 1 /\ c \in Nat /\ c > 0
        /\ cleans => p = 0 /\ q = c - 1
        /\ ~cleans => q = p - 1
    BY <1>4, PassStep, MetricsAssumption DEF MetricsAssumption
  <2>5. t \in Elsewhere /\ t \notin Inserting
    BY <1>3 DEF Elsewhere, Inserting
  <2>6. u > 0
    BY <2>5, ThreadsFinite, FS_EmptySet DEF Elsewhere
  <2>7. CASE cleans
    <3>1. Elsewhere' = Elsewhere \ {t} /\ Inserting' = Inserting
      BY <1>2, <1>3, <2>7 DEF Elsewhere, Inserting
    <3>2. v = u - 1 /\ j = i
      BY <2>5, <3>1, OneLess DEF Elsewhere
    <3> HIDE DEF s, i, j, u, v, c, p, q, limit, before, after
    <3>3. after = before
      <4>1. u # 1 => (c - 1) * (u - 1) = (c - 1) + (c - 1) * (v - 1)
        BY <2>1, <2>4, <3>2
      <4>2. u = 1 => (c - 1) * (u - 1) = 0
        BY <2>4
      <4>3. after = IF v = 0 THEN 0 ELSE q + (c - 1) * (v - 1)
        BY DEF after
      <4> QED
        BY <2>1, <2>3, <2>4, <2>6, <2>7, <3>2, <4>1, <4>2, <4>3
    <3>4. s + j + after <= limit
      BY <2>2, <3>2, <3>3
    <3> QED
      BY <1>4, <2>1, <3>4 DEF Room, ToCome, s, j, v, limit, q, c, after
  <2>8. CASE ~cleans
    <3>1. Elsewhere' = Elsewhere /\ Inserting' \subseteq Inserting \cup {t}
      BY <1>2, <1>3, <2>8 DEF Elsewhere, Inserting
    <3>2. v = u /\ j <= i + 1 /\ j \in Nat
      <4>1. Inserting \in SUBSET Thread /\ Inserting \cup {t} \in SUBSET Thread
            /\ Inserting' \in SUBSET (Inserting \cup {t})
        BY <3>1 DEF Inserting
      <4>2. Cardinality(Inserting \cup {t}) = i + 1
        BY <2>5, <4>1, OneMore
      <4> QED
        BY <3>1, <4>1, <4>2, ThreadsFinite, FS_Subset
    <3> HIDE DEF s, i, j, u, v, c, p, q, limit, before, after
    <3>3. after = before - 1
      <4>1. after = IF v = 0 THEN 0 ELSE q + (c - 1) * (v - 1)
        BY DEF after
      <4>2. (c - 1) * (u - 1) \in Int
        BY <2>1, <2>4
      <4> QED
        BY <2>1, <2>3, <2>4, <2>6, <2>8, <3>2, <4>1, <4>2
    <3>4. s + j + after <= limit
      BY <2>1, <2>2, <3>2, <3>3
    <3> QED
      BY <1>4, <2>1, <3>4 DEF Room, ToCome, s, j, v, limit, q, c, after
  <2> QED
    BY <2>7, <2>8
<1> QED
  BY <1>1, <1>5, <1>6, <1>7, <1>8 DEF MRInv

LEMMA OrphanLemma ==
    ASSUME Typed, NEW t \in Thread, ~threads[t].held, NEW op, NEW keep,
           NEW pc \in {"clean_nodes", "lookup"}, Orphan(t, op, keep, pc)
    PROVE  /\ threads' \in [Thread -> ThreadState]
           /\ threads'[t].pc = pc /\ ~threads'[t].held
           /\ \A u \in Thread :
                 /\ threads'[u].op = threads[u].op
                 /\ threads'[u].name = threads[u].name
                 /\ u # t => threads'[u].pc = threads[u].pc
                 /\ threads'[u].held
                       <=> threads[u].held /\ (threads[u].op = op => threads[u].name \in keep)
<1> DEFINE own == [threads[t] EXCEPT !.pc = pc, !.now = IF pc = "lookup" THEN 0 ELSE @]
           other(u) == [threads[u] EXCEPT
               !.held = @ /\ (threads[u].op = op => threads[u].name \in keep)]
<1>1. threads' = [u \in Thread |-> IF u = t THEN own ELSE other(u)]
  BY DEF Orphan
<1>2. /\ own \in ThreadState /\ own.pc = pc /\ own.held = threads[t].held
      /\ own.op = threads[t].op /\ own.name = threads[t].name
  BY DEF Typed, ThreadState
<1>3. ASSUME NEW u \in Thread
      PROVE  /\ other(u) \in ThreadState /\ other(u).pc = threads[u].pc
             /\ other(u).op = threads[u].op /\ other(u).name = threads[u].name
             /\ other(u).held
                   <=> threads[u].held /\ (threads[u].op = op => threads[u].name \in keep)
  <2>1. threads[u] \in ThreadState
    BY DEF Typed
  <2> DEFINE h == threads[u].held /\ (threads[u].op = op => threads[u].name \in keep)
  <2>2. h \in BOOLEAN
    OBVIOUS
  <2>3. other(u) = [threads[u] EXCEPT !.held = h]
    OBVIOUS
  <2> HIDE DEF h, other
  <2>4. /\ other(u) \in ThreadState /\ other(u).pc = threads[u].pc
        /\ other(u).op = threads[u].op /\ other(u).name = threads[u].name
        /\ other(u).held = h
    BY <2>1, <2>2, <2>3 DEF ThreadState
  <2> QED
    BY <2>4 DEF h
<1> HIDE DEF own, other
<1> QED
  BY <1>1, <1>2, <1>3

\* What a cleanup keeps of a table.
LEMMA LimitLemma ==
    ASSUME NEW table, IsFiniteSet(DOMAIN table), NEW ttl, NEW now, NEW max \in Nat,
           NEW evicted \in LeastRecentlyUsed(table, Fresh(table, ttl, now), max)
    PROVE  LET keep == Fresh(table, ttl, now) \ evicted
           IN  keep \in SUBSET (DOMAIN table) /\ Cardinality(keep) <= max
<1> DEFINE fresh == Fresh(table, ttl, now)
<1>1. fresh \in SUBSET (DOMAIN table)
  BY DEF Fresh
<1> HIDE DEF fresh
<1>2. /\ IsFiniteSet(fresh) /\ Cardinality(fresh) \in Nat
      /\ evicted \in SUBSET fresh
      /\ Cardinality(evicted) = IF Cardinality(fresh) > max THEN Cardinality(fresh) - max ELSE 0
  BY <1>1, FS_Subset, FS_CardinalityType DEF LeastRecentlyUsed, fresh
<1>3. Cardinality(fresh \ evicted) = Cardinality(fresh) - Cardinality(evicted)
  <2>1. fresh \cap evicted = evicted
    BY <1>2
  <2>2. Cardinality(fresh \ evicted) = Cardinality(fresh) - Cardinality(fresh \cap evicted)
    BY <1>2, FS_Difference, Zenon
  <2> QED
    BY <2>1, <2>2
<1>4. Cardinality(fresh \ evicted) <= max
  BY <1>2, <1>3
<1> QED
  BY <1>1, <1>4 DEF fresh

LEMMA CleanMethodsKeeps ==
    ASSUME MRInv, NEW t \in Thread, CleanMethods(t)
    PROVE  MRInv'
<1>1. /\ threads[t].pc = "clean_methods" /\ ~threads[t].held
      /\ UNCHANGED <<clock, last_timestamp, totals, nodes, cleanup_counter>>
  BY DEF CleanMethods, MRInv, Holding, Consistent, Recording
<1>2. PICK keep \in SUBSET (DOMAIN methods) :
         /\ Cardinality(keep) <= max_methods
         /\ methods' = [m \in keep |-> methods[m]]
         /\ Orphan(t, "method", keep, "clean_nodes")
  <2>1. PICK evicted \in LeastRecentlyUsed(methods,
                             Fresh(methods, method_ttl, threads[t].now), max_methods) :
           /\ methods' = [m \in Fresh(methods, method_ttl, threads[t].now) \ evicted |-> methods[m]]
           /\ Orphan(t, "method", Fresh(methods, method_ttl, threads[t].now) \ evicted,
                     "clean_nodes")
    BY DEF CleanMethods
  <2>2. max_methods \in Nat /\ IsFiniteSet(DOMAIN methods)
    BY MetricsAssumption DEF MetricsAssumption, MRInv, Room
  <2> QED
    BY <2>1, <2>2, LimitLemma
<1>3. /\ threads' \in [Thread -> ThreadState]
      /\ threads'[t].pc = "clean_nodes" /\ ~threads'[t].held
      /\ \A u \in Thread :
            /\ threads'[u].op = threads[u].op
            /\ threads'[u].name = threads[u].name
            /\ u # t => threads'[u].pc = threads[u].pc
            /\ threads'[u].held
                  <=> threads[u].held /\ (threads[u].op = "method" => threads[u].name \in keep)
  BY <1>1, <1>2, OrphanLemma DEF MRInv
<1>4. DOMAIN methods' = keep /\ \A m \in keep : methods'[m] = methods[m]
  BY <1>2
<1>5. Typed'
  BY <1>1, <1>2, <1>3, <1>4 DEF MRInv, Typed
<1>6. (Started <= MaxOps)'
  <2>1. Starting' = Starting
    BY <1>1, <1>3 DEF Starting
  <2> QED
    BY <1>1, <2>1 DEF MRInv, Started
<1>7. Holding'
  <2> SUFFICES ASSUME NEW u \in Thread PROVE Consistent(u)'
    BY DEF Holding
  <2>1. Consistent(u)
    BY DEF MRInv, Holding
  <2>2. CASE u = t
    BY <1>1, <1>3, <2>1, <2>2 DEF Consistent, Recording
  <2>3. CASE u # t
    BY <1>1, <1>3, <1>4, <2>1, <2>3 DEF Consistent
  <2> QED
    BY <2>2, <2>3
<1>8. EntriesAddUp' /\ StampsUnique'
  <2>1. ASSUME NEW m \in keep, NEW pcs PROVE Holders(m, pcs)' = Holders(m, pcs)
    <3>1. \A u \in Thread : u \in Holders(m, pcs)' <=> u \in Holders(m, pcs)
      BY <1>1, <1>3 DEF Holders
    <3> QED
      BY <3>1 DEF Holders
  <2>2. last_timestamp <= last_timestamp'
    BY <1>1 DEF MRInv, Typed
  <2> QED
    BY <1>4, <1>5, <2>1, <2>2, Untouched DEF MRInv
<1>9. Room'
  <2>1. IsFiniteSet(keep)
    BY FS_Subset DEF MRInv, Room
  <2> DEFINE s == Cardinality(keep)
             j == Cardinality(Inserting')
             v == Cardinality(Elsewhere')
             N == Cardinality(Thread)
             c == CLEANUP_INTERVAL
             p == Pass(cleanup_counter)
             after == IF v = 0 THEN 0 ELSE p + (c - 1) * (v - 1)
  <2>2. /\ s \in Nat /\ j \in Nat /\ v \in Nat /\ N \in Nat
        /\ c \in Nat /\ c > 0 /\ max_methods \in Nat
        /\ p \in Nat /\ p <= c - 1
    <3>1. s \in Nat
      BY <2>1, FS_CardinalityType
    <3>2. j \in Nat /\ v \in Nat /\ N \in Nat
      BY ThreadsFinite DEF Inserting, Elsewhere
    <3>3. p \in Nat /\ p <= c - 1
      BY PassStep DEF MRInv, Typed
    <3> QED
      BY <3>1, <3>2, <3>3, MetricsAssumption DEF MetricsAssumption
  <2>3. j <= v /\ v <= N /\ v > 0
    <3>1. Inserting' \in SUBSET Elsewhere' /\ Elsewhere' \in SUBSET Thread /\ t \in Elsewhere'
      BY <1>3 DEF Inserting, Elsewhere
    <3> QED
      BY <3>1, ThreadsFinite, FS_Subset, FS_EmptySet
  <2>4. s <= max_methods
    BY <1>2
  <2> HIDE DEF s, j, v, N, c, p, after
  <2>5. after <= (c - 1) * v
    <3>1. after = p + (c - 1) * (v - 1)
      BY <2>2, <2>3 DEF after
    <3>2. (c - 1) * v = (c - 1) + (c - 1) * (v - 1)
      BY <2>2
    <3>3. (c - 1) * (v - 1) \in Int
      BY <2>2
    <3> QED
      BY <2>2, <3>1, <3>2, <3>3
  <2>6. c * v <= c * N
    <3>1. PICK d \in Nat : N = v + d
      BY <2>2, <2>3
    <3>2. c * N = c * v + c * d /\ c * d \in Nat
      BY <2>2, <3>1
    <3> QED
      BY <2>2, <3>2
  <2>7. s + j + after <= max_methods + c * N
    <3>1. (c - 1) * v = c * v - v
      BY <2>2
    <3>2. c * v \in Int /\ c * N \in Int /\ after \in Int
      BY <2>2 DEF after
    <3> QED
      BY <2>2, <2>3, <2>4, <2>5, <2>6, <3>1, <3>2
  <2> QED
    BY <1>1, <1>4, <2>1, <2>7 DEF Room, ToCome, s, j, v, N, c, p, after
<1> QED
  BY <1>5, <1>6, <1>7, <1>8, <1>9 DEF MRInv

LEMMA CleanNodesKeeps ==
    ASSUME MRInv, NEW t \in Thread, CleanNodes(t)
    PROVE  MRInv'
<1>1. /\ threads[t].pc = "clean_nodes" /\ ~threads[t].held
      /\ UNCHANGED <<clock, last_timestamp, totals, methods, cleanup_counter>>
  BY DEF CleanNodes, MRInv, Holding, Consistent, Recording
<1>2. PICK keep \in SUBSET (DOMAIN nodes) :
         /\ nodes' = [n \in keep |-> nodes[n]]
         /\ Orphan(t, "node", keep, "lookup")
  <2>1. PICK evicted :
           /\ nodes' = [n \in Fresh(nodes, node_ttl, threads[t].now) \ evicted |-> nodes[n]]
           /\ Orphan(t, "node", Fresh(nodes, node_ttl, threads[t].now) \ evicted, "lookup")
    BY DEF CleanNodes
  <2>2. Fresh(nodes, node_ttl, threads[t].now) \ evicted \in SUBSET (DOMAIN nodes)
    BY DEF Fresh
  <2> QED
    BY <2>1, <2>2
<1>3. /\ threads' \in [Thread -> ThreadState]
      /\ threads'[t].pc = "lookup" /\ ~threads'[t].held
      /\ \A u \in Thread :
            /\ threads'[u].op = threads[u].op
            /\ threads'[u].name = threads[u].name
            /\ u # t => threads'[u].pc = threads[u].pc
            /\ threads'[u].held
                  <=> threads[u].held /\ (threads[u].op = "node" => threads[u].name \in keep)
  BY <1>1, <1>2, OrphanLemma DEF MRInv
<1>4. DOMAIN nodes' = keep /\ \A n \in keep : nodes'[n] = nodes[n]
  BY <1>2
<1>5. Typed'
  BY <1>1, <1>2, <1>3, <1>4 DEF MRInv, Typed
<1>6. (Started <= MaxOps)'
  <2>1. Starting' = Starting
    BY <1>1, <1>3 DEF Starting
  <2> QED
    BY <1>1, <2>1 DEF MRInv, Started
<1>7. Holding'
  <2> SUFFICES ASSUME NEW u \in Thread PROVE Consistent(u)'
    BY DEF Holding
  <2>1. Consistent(u)
    BY DEF MRInv, Holding
  <2>2. CASE u = t
    BY <1>1, <1>3, <2>1, <2>2 DEF Consistent, Recording
  <2>3. CASE u # t
    BY <1>1, <1>3, <1>4, <2>1, <2>3 DEF Consistent
  <2> QED
    BY <2>2, <2>3
<1>8. EntriesAddUp' /\ StampsUnique'
  <2>1. ASSUME NEW m, NEW pcs PROVE Holders(m, pcs)' = Holders(m, pcs)
    <3>1. \A u \in Thread : u \in Holders(m, pcs)' <=> u \in Holders(m, pcs)
      BY <1>1, <1>3 DEF Holders
    <3> QED
      BY <3>1 DEF Holders
  <2>2. last_timestamp <= last_timestamp'
    BY <1>1 DEF MRInv, Typed
  <2> QED
    BY <1>1, <1>5, <2>1, <2>2, Untouched DEF MRInv
<1>9. Room'
  <2>1. Inserting' \subseteq Inserting /\ Elsewhere' = Elsewhere
    BY <1>1, <1>3 DEF Inserting, Elsewhere
  <2> QED
    BY <1>1, <2>1, SameRoom DEF MRInv
<1> QED
  BY <1>5, <1>6, <1>7, <1>8, <1>9 DEF MRInv

\* A thread takes hold of the entry it looked up.  One that is new has counted
\* nothing and is held by nobody else.
LEMMA LookupMethodKeeps ==
    ASSUME MRInv, NEW t \in Thread, LookupMethod(t)
    PROVE  MRInv'
<1> DEFINE name == threads[t].name
<1>1. /\ threads[t].pc = "lookup" /\ threads[t].op = "method" /\ ~threads[t].held
      /\ name \in Method
      /\ UNCHANGED <<clock, totals, nodes, cleanup_counter>>
  BY DEF LookupMethod, MRInv, Holding, Consistent, Recording
<1>2. /\ threads' \in [Thread -> ThreadState]
      /\ threads'[t].pc = "count_call" /\ threads'[t].held
      /\ threads'[t].op = "method" /\ threads'[t].name = name
      /\ \A u \in Thread \ {t} : threads'[u] = threads[u]
  BY <1>1 DEF LookupMethod, MRInv, Typed, ThreadState
<1>3. /\ DOMAIN methods' = DOMAIN methods \cup {name}
      /\ \A m \in DOMAIN methods : methods'[m] = methods[m]
      /\ name \notin DOMAIN methods => methods'[name] = NewMethodStats /\ last_timestamp' = Stamp
      /\ last_timestamp' \in Nat /\ last_timestamp <= last_timestamp'
      /\ methods' = [m \in DOMAIN methods' |-> methods'[m]]
  <2>1. CASE name \in DOMAIN methods
    <3>1. methods' = methods /\ last_timestamp' = last_timestamp
      BY <2>1 DEF LookupMethod
    <3>2. methods = [m \in DOMAIN methods |-> methods[m]] /\ last_timestamp \in Nat
      BY DEF MRInv, Typed
    <3> QED
      BY <2>1, <3>1, <3>2
  <2>2. CASE name \notin DOMAIN methods
    <3>1. /\ methods' = [m \in DOMAIN methods \cup {name} |->
                            IF m = name THEN NewMethodStats ELSE methods[m]]
          /\ last_timestamp' = Stamp
      BY <2>2 DEF LookupMethod
    <3>2. Stamp \in Nat /\ Stamp > last_timestamp /\ last_timestamp \in Nat
      BY StampRises DEF MRInv, Typed
    <3> QED
      BY <2>2, <3>1, <3>2
  <2> QED
    BY <2>1, <2>2
<1>4. NewMethodStats \in MethodStats
  BY StampRises DEF MRInv, NewMethodStats, MethodStats
<1>5. Typed'
  <2>1. \A m \in DOMAIN methods' : methods'[m] \in MethodStats
    BY <1>3, <1>4 DEF MRInv, Typed
  <2> QED
    BY <1>1, <1>2, <1>3, <2>1 DEF MRInv, Typed
<1>6. (Started <= MaxOps)'
  <2>1. Starting' = Starting
    BY <1>1, <1>2 DEF Starting
  <2> QED
    BY <1>1, <2>1 DEF MRInv, Started
<1>7. Holding'
  <2> SUFFICES ASSUME NEW u \in Thread PROVE Consistent(u)'
    BY DEF Holding
  <2>1. Consistent(u)
    BY DEF MRInv, Holding
  <2>2. CASE u = t
    BY <1>1, <1>2, <1>3, <2>2 DEF Consistent, Recording
  <2>3. CASE u # t
    BY <1>1, <1>2, <1>3, <2>1, <2>3 DEF Consistent
  <2> QED
    BY <2>2, <2>3
<1>8. ASSUME NEW m, NEW pcs, "count_call" \notin pcs
      PROVE  Holders(m, pcs)' = Holders(m, pcs)
  <2>1. \A u \in Thread : u \in Holders(m, pcs)' <=> u \in Holders(m, pcs)
    BY <1>1, <1>2, <1>8 DEF Holders
  <2> QED
    BY <2>1 DEF Holders
<1>9. EntriesAddUp' /\ StampsUnique'
  <2>1. CASE name \in DOMAIN methods
    BY <1>3, <1>5, <1>8, <2>1, Untouched DEF MRInv
  <2>2. CASE name \notin DOMAIN methods
    <3>1. \A pcs : Holders(name, pcs) = {}
      BY <2>2 DEF Holders, MRInv, Holding, Consistent
    <3>2. EntriesAddUp'
      <4> SUFFICES ASSUME NEW m \in DOMAIN methods'
                   PROVE
            LET done == methods'[m].success_count + methods'[m].failure_count
            IN  /\ methods'[m].call_count
                      = done + Cardinality(Holders(m, {"record_latency", "count_outcome"}))
                /\ methods'[m].sample_count
                      = done + Cardinality(Holders(m, {"count_outcome"}))
        BY <1>8 DEF EntriesAddUp
      <4>1. CASE m = name
        <5>1. /\ Cardinality(Holders(m, {"record_latency", "count_outcome"})) = 0
              /\ Cardinality(Holders(m, {"count_outcome"})) = 0
          BY <3>1, <4>1, FS_EmptySet
        <5>2. methods'[m] = NewMethodStats
          BY <1>3, <2>2, <4>1
        <5> QED
          BY <5>1, <5>2 DEF NewMethodStats
      <4>2. CASE m # name
        BY <1>3, <4>2 DEF MRInv, EntriesAddUp
      <4> QED
        BY <4>1, <4>2
    <3>3. StampsUnique'
      <4>1. methods'[name].last_access = last_timestamp' /\ last_timestamp' > last_timestamp
        BY <1>3, <2>2, StampRises DEF MRInv, NewMethodStats
      <4>2. \A m \in DOMAIN methods : /\ methods[m].last_access <= last_timestamp
                                      /\ methods[m].last_access \in Nat
        BY DEF MRInv, StampsUnique, Typed, MethodStats
      <4>3. last_timestamp \in Nat
        BY DEF MRInv, Typed
      <4> QED
        BY <1>3, <2>2, <4>1, <4>2, <4>3 DEF MRInv, StampsUnique
    <3> QED
      BY <3>2, <3>3
  <2> QED
    BY <2>1, <2>2
<1>10. Room'
  <2>1. /\ IsFiniteSet(DOMAIN methods')
        /\ Cardinality(DOMAIN methods') <= Cardinality(DOMAIN methods) + 1
        /\ Cardinality(DOMAIN methods') \in Nat
    <3>1. IsFiniteSet(DOMAIN methods) /\ Cardinality(DOMAIN methods) \in Nat
      BY FS_CardinalityType DEF MRInv, Room
    <3>2. /\ IsFiniteSet(DOMAIN methods \cup {name})
          /\ Cardinality(DOMAIN methods \cup {name})
                = IF name \in DOMAIN methods THEN Cardinality(DOMAIN methods)
                                             ELSE Cardinality(DOMAIN methods) + 1
      BY <3>1, FS_AddElement, Zenon
    <3> QED
      BY <1>3, <3>1, <3>2
  <2>2. Inserting' = Inserting \ {t} /\ t \in Inserting /\ Elsewhere' = Elsewhere
    BY <1>1, <1>2 DEF Inserting, Elsewhere
  <2>3. Cardinality(Inserting') = Cardinality(Inserting) - 1
    BY <2>2, OneLess DEF Inserting
  <2>4. ToCome(Cardinality(Elsewhere))' = ToCome(Cardinality(Elsewhere))
    BY <1>1, <2>2 DEF ToCome, Pass
  <2> DEFINE s == Cardinality(DOMAIN methods)
             z == Cardinality(DOMAIN methods')
             i == Cardinality(Inserting)
             c == ToCome(Cardinality(Elsewhere))
             limit == max_methods + CLEANUP_INTERVAL * Cardinality(Thread)
  <2>5. s \in Nat /\ i \in Nat /\ c \in Int /\ limit \in Int /\ s + i + c <= limit
    BY RoomParts DEF MRInv, Room
  <2> HIDE DEF s, z, i, c, limit
  <2>6. z + (i - 1) + c <= limit
    BY <2>1, <2>5 DEF z, s
  <2> QED
    BY <2>1, <2>3, <2>4, <2>6 DEF Room, z, i, c, limit
<1> QED
  BY <1>5, <1>6, <1>7, <1>9, <1>10 DEF MRInv

\* A thread adds to the entry it looked up, which is in the table if it still
\* holds it, and goes on or returns.
LEMMA RecordStep ==
    ASSUME MRInv, NEW t \in Thread, threads[t].pc \in Recording,
           NEW name, name = threads[t].name,
           NEW stats, methods' = Store(methods, t, stats), last_timestamp' = Stamp,
           UNCHANGED <<clock, totals, nodes, cleanup_counter>>,
           NEW r, threads' = [threads EXCEPT ![t] = r], r \in ThreadState,
           \/ /\ r.pc \in {"record_latency", "count_outcome"} /\ r.op = threads[t].op
              /\ r.name = name /\ r.held = threads[t].held
           \/ r = Idle,
           threads[t].held =>
              /\ stats \in MethodStats /\ stats.last_access = Stamp
              /\ LET done == stats.success_count + stats.failure_count
                 IN  /\ stats.call_count = done + Cardinality(
                           Holders(name, {"record_latency", "count_outcome"})')
                     /\ stats.sample_count = done + Cardinality(
                           Holders(name, {"count_outcome"})')
    PROVE  MRInv'
<1>1. /\ threads[t].op = "method" /\ name \in Method
      /\ threads[t].held => name \in DOMAIN methods
  BY DEF MRInv, Holding, Consistent
<1>2. threads'[t] = r /\ \A u \in Thread \ {t} : threads'[u] = threads[u]
  BY DEF MRInv, Typed
<1>3. /\ r.pc \in {"idle", "record_latency", "count_outcome"} /\ r.op = "method"
      /\ r.name \in Method
      /\ r.held => threads[t].held /\ r.name = name
      /\ r.held => r.pc \in Recording
  BY <1>1, IdleTyped DEF Idle, Recording
<1>4. /\ DOMAIN methods' = DOMAIN methods
      /\ \A m \in DOMAIN methods : (threads[t].held /\ m = name) \/ methods'[m] = methods[m]
      /\ threads[t].held => methods'[name] = stats
      /\ methods' \in [DOMAIN methods -> MethodStats]
  <2>1. CASE threads[t].held
    BY <1>1, <2>1 DEF Store, MRInv, Typed
  <2>2. CASE ~threads[t].held
    BY <2>2 DEF Store, MRInv, Typed
  <2> QED
    BY <2>1, <2>2
<1>5. Stamp \in Nat /\ Stamp > last_timestamp /\ last_timestamp \in Nat
  BY StampRises DEF MRInv, Typed
<1>6. Typed'
  BY <1>4, <1>5 DEF MRInv, Typed
<1>7. (Started <= MaxOps)'
  <2>1. Starting' = Starting
    BY <1>2, <1>3 DEF Starting, Recording
  <2> QED
    BY <2>1 DEF MRInv, Started
<1>8. Holding'
  <2> SUFFICES ASSUME NEW u \in Thread PROVE Consistent(u)'
    BY DEF Holding
  <2>1. Consistent(u)
    BY DEF MRInv, Holding
  <2>2. CASE u = t
    <3>1. /\ r.op = "method" /\ r.name \in Method /\ r.pc # "count_request"
          /\ r.held => r.pc \in Recording /\ r.name \in DOMAIN methods'
      BY <1>1, <1>3, <1>4
    <3> QED
      BY <1>2, <2>2, <3>1 DEF Consistent
  <2>3. CASE u # t
    BY <1>2, <1>4, <2>1, <2>3 DEF Consistent
  <2> QED
    BY <2>2, <2>3
<1>9. ASSUME NEW m, NEW pcs, ~threads[t].held \/ m # name
      PROVE  Holders(m, pcs)' = Holders(m, pcs)
  <2>1. \A u \in Thread : u \in Holders(m, pcs)' <=> u \in Holders(m, pcs)
    <3> SUFFICES ASSUME NEW u \in Thread
                 PROVE  u \in Holders(m, pcs)' <=> u \in Holders(m, pcs)
      OBVIOUS
    <3>1. CASE u = t
      <4>1. ~(r.held /\ r.name = m) /\ ~(threads[t].held /\ threads[t].name = m)
        BY <1>3, <1>9
      <4> QED
        BY <1>2, <3>1, <4>1 DEF Holders
    <3>2. CASE u # t
      BY <1>2, <3>2 DEF Holders
    <3> QED
      BY <3>1, <3>2
  <2> QED
    BY <2>1 DEF Holders
<1>10. EntriesAddUp'
  <2> SUFFICES ASSUME NEW m \in DOMAIN methods'
               PROVE
        LET done == methods'[m].success_count + methods'[m].failure_count
        IN  /\ methods'[m].call_count
                  = done + Cardinality(Holders(m, {"record_latency", "count_outcome"})')
            /\ methods'[m].sample_count
                  = done + Cardinality(Holders(m, {"count_outcome"})')
    BY DEF EntriesAddUp
  <2>1. CASE threads[t].held /\ m = name
    BY <1>4, <2>1
  <2>2. CASE ~(threads[t].held /\ m = name)
    BY <1>4, <1>9, <2>2 DEF MRInv, EntriesAddUp
  <2> QED
    BY <2>1, <2>2
<1>11. StampsUnique'
  <2>1. \A m \in DOMAIN methods : /\ methods[m].last_access <= last_timestamp
                                  /\ methods[m].last_access \in Nat
    BY DEF MRInv, StampsUnique, Typed, MethodStats
  <2>2. threads[t].held => methods'[name].last_access = Stamp
    BY <1>4
  <2> QED
    BY <1>4, <1>5, <2>1, <2>2 DEF MRInv, StampsUnique
<1>12. Room'
  <2>1. Inserting' \subseteq Inserting /\ Elsewhere' = Elsewhere
    BY <1>2, <1>3 DEF Inserting, Elsewhere, Recording
  <2> QED
    BY <1>4, <2>1, SameRoom DEF MRInv
<1> QED
  BY <1>6, <1>7, <1>8, <1>10, <1>11, <1>12 DEF MRInv

\* What the entry held by t counts before the step.
LEMMA HeldEntry ==
    ASSUME MRInv, NEW t \in Thread, threads[t].pc \in Recording, threads[t].held
    PROVE  LET stats == methods[threads[t].name]
               done  == stats.success_count + stats.failure_count
           IN  /\ stats \in MethodStats
               /\ stats.call_count = done + Cardinality(
                     Holders(threads[t].name, {"record_latency", "count_outcome"}))
               /\ stats.sample_count = done + Cardinality(
                     Holders(threads[t].name, {"count_outcome"}))
               /\ threads[t].op = "method"
<1>1. threads[t].name \in DOMAIN methods /\ threads[t].op = "method"
  BY DEF MRInv, Holding, Consistent
<1> QED
  BY <1>1 DEF MRInv, EntriesAddUp, Typed

\* Two sets of threads differ at most in t.
LEMMA OneMoves ==
    ASSUME NEW A \in SUBSET Thread, NEW B \in SUBSET Thread, NEW t \in Thread,
           \A u \in Thread \ {t} : u \in A <=> u \in B
    PROVE  /\ Cardinality(A) \in Nat /\ Cardinality(B) \in Nat
           /\ (t \in A <=> t \in B) => Cardinality(A) = Cardinality(B)
           /\ t \in A /\ t \notin B => Cardinality(A) = Cardinality(B) + 1
           /\ t \notin A /\ t \in B => Cardinality(A) = Cardinality(B) - 1
<1>1. Cardinality(A) \in Nat /\ Cardinality(B) \in Nat
  BY ThreadsFinite
<1>2. (t \in A <=> t \in B) => A = B
  OBVIOUS
<1>3. t \in A /\ t \notin B => Cardinality(A) = Cardinality(B) + 1
  <2>1. t \in A /\ t \notin B => A = B \cup {t}
    OBVIOUS
  <2> QED
    BY <2>1, OneMore
<1>4. t \notin A /\ t \in B => Cardinality(A) = Cardinality(B) - 1
  <2>1. t \notin A /\ t \in B => A = B \ {t}
    OBVIOUS
  <2> QED
    BY <2>1, OneLess
<1> QED
  BY <1>1, <1>2, <1>3, <1>4

LEMMA IncrementCallKeeps ==
    ASSUME MRInv, NEW t \in Thread, IncrementCall(t)
    PROVE  MRInv'
<1>1. PICK name : name = threads[t].name
  OBVIOUS
<1> DEFINE stats == [methods[name] EXCEPT !.call_count = @ + 1, !.last_access = Stamp]
           r == [threads[t] EXCEPT !.pc = "record_latency"]
<1>2. /\ threads[t].pc = "count_call" /\ threads[t] \in ThreadState
      /\ methods' = Store(methods, t, stats) /\ last_timestamp' = Stamp
      /\ threads' = [threads EXCEPT ![t] = r]
      /\ UNCHANGED <<clock, totals, nodes, cleanup_counter>>
  BY <1>1 DEF IncrementCall, Goto, MRInv, Typed
<1>3. /\ r \in ThreadState /\ r.pc = "record_latency" /\ r.op = threads[t].op
      /\ r.name = name /\ r.held = threads[t].held
  BY <1>1, <1>2 DEF ThreadState
<1>4. ASSUME threads[t].held
      PROVE  /\ stats \in MethodStats /\ stats.last_access = Stamp
             /\ LET done == stats.success_count + stats.failure_count
                IN  /\ stats.call_count = done + Cardinality(
                          Holders(name, {"record_latency", "count_outcome"})')
                    /\ stats.sample_count = done + Cardinality(
                          Holders(name, {"count_outcome"})')
  <2> DEFINE old == methods[name]
             done == old.success_count + old.failure_count
  <2>1. /\ old \in MethodStats /\ threads[t].op = "method"
        /\ old.call_count = done + Cardinality(
              Holders(name, {"record_latency", "count_outcome"}))
        /\ old.sample_count = done + Cardinality(Holders(name, {"count_outcome"}))
    BY <1>1, <1>2, <1>4, HeldEntry DEF Recording
  <2>2. /\ stats \in MethodStats /\ stats.last_access = Stamp
        /\ stats.call_count = old.call_count + 1 /\ stats.sample_count = old.sample_count
        /\ stats.success_count = old.success_count
        /\ stats.failure_count = old.failure_count
    <3>1. old.call_count + 1 \in Nat /\ Stamp \in Nat
      BY <2>1, StampRises DEF MRInv, MethodStats
    <3> QED
      BY <2>1, <3>1 DEF MethodStats
  <2>3. done \in Nat
    BY <2>1 DEF MethodStats
  <2> HIDE DEF stats, old, r
  <2> DEFINE A == Holders(name, {"record_latency", "count_outcome"})
             A2 == Holders(name, {"record_latency", "count_outcome"})'
             B == Holders(name, {"count_outcome"})
             B2 == Holders(name, {"count_outcome"})'
  <2>4. /\ A \in SUBSET Thread /\ A2 \in SUBSET Thread
        /\ B \in SUBSET Thread /\ B2 \in SUBSET Thread
    BY DEF Holders
  <2>5. threads'[t] = r /\ \A u \in Thread \ {t} : threads'[u] = threads[u]
    BY <1>2 DEF MRInv, Typed
  <2>6. \A u \in Thread \ {t} : (u \in A2 <=> u \in A) /\ (u \in B2 <=> u \in B)
    BY <2>5 DEF Holders
  <2>7. t \notin A /\ t \in A2 /\ t \notin B /\ t \notin B2
    BY <1>1, <1>2, <1>3, <1>4, <2>1, <2>5 DEF Holders
  <2> HIDE DEF A, A2, B, B2
  <2>8. /\ Cardinality(A) \in Nat /\ Cardinality(B) \in Nat
        /\ Cardinality(A2) = Cardinality(A) + 1 /\ Cardinality(B2) = Cardinality(B)
    BY <2>4, <2>6, <2>7, OneMoves
  <2> QED
    BY <2>1, <2>2, <2>3, <2>8 DEF A, A2, B, B2
<1> HIDE DEF stats, r
<1> QED
  BY <1>1, <1>2, <1>3, <1>4, RecordStep DEF Recording

LEMMA RecordLatencyKeeps ==
    ASSUME MRInv, NEW t \in Thread, RecordLatency(t)
    PROVE  MRInv'
<1>1. PICK name : name = threads[t].name
  OBVIOUS
<1> DEFINE stats == [methods[name] EXCEPT !.sample_count = @ + 1, !.last_access = Stamp]
           r == [threads[t] EXCEPT !.pc = "count_outcome"]
<1>2. /\ threads[t].pc = "record_latency" /\ threads[t] \in ThreadState
      /\ methods' = Store(methods, t, stats) /\ last_timestamp' = Stamp
      /\ threads' = [threads EXCEPT ![t] = r]
      /\ UNCHANGED <<clock, totals, nodes, cleanup_counter>>
  BY <1>1 DEF RecordLatency, Goto, MRInv, Typed
<1>3. /\ r \in ThreadState /\ r.pc = "count_outcome" /\ r.op = threads[t].op
      /\ r.name = name /\ r.held = threads[t].held
  BY <1>1, <1>2 DEF ThreadState
<1>4. ASSUME threads[t].held
      PROVE  /\ stats \in MethodStats /\ stats.last_access = Stamp
             /\ LET done == stats.success_count + stats.failure_count
                IN  /\ stats.call_count = done + Cardinality(
                          Holders(name, {"record_latency", "count_outcome"})')
                    /\ stats.sample_count = done + Cardinality(
                          Holders(name, {"count_outcome"})')
  <2> DEFINE old == methods[name]
             done == old.success_count + old.failure_count
  <2>1. /\ old \in MethodStats /\ threads[t].op = "method"
        /\ old.call_count = done + Cardinality(
              Holders(name, {"record_latency", "count_outcome"}))
        /\ old.sample_count = done + Cardinality(Holders(name, {"count_outcome"}))
    BY <1>1, <1>2, <1>4, HeldEntry DEF Recording
  <2>2. /\ stats \in MethodStats /\ stats.last_access = Stamp
        /\ stats.call_count = old.call_count /\ stats.sample_count = old.sample_count + 1
        /\ stats.success_count = old.success_count
        /\ stats.failure_count = old.failure_count
    <3>1. old.sample_count + 1 \in Nat /\ Stamp \in Nat
      BY <2>1, StampRises DEF MRInv, MethodStats
    <3> QED
      BY <2>1, <3>1 DEF MethodStats
  <2>3. done \in Nat
    BY <2>1 DEF MethodStats
  <2> HIDE DEF stats, old, r
  <2> DEFINE A == Holders(name, {"record_latency", "count_outcome"})
             A2 == Holders(name, {"record_latency", "count_outcome"})'
             B == Holders(name, {"count_outcome"})
             B2 == Holders(name, {"count_outcome"})'
  <2>4. /\ A \in SUBSET Thread /\ A2 \in SUBSET Thread
        /\ B \in SUBSET Thread /\ B2 \in SUBSET Thread
    BY DEF Holders
  <2>5. threads'[t] = r /\ \A u \in Thread \ {t} : threads'[u] = threads[u]
    BY <1>2 DEF MRInv, Typed
  <2>6. \A u \in Thread \ {t} : (u \in A2 <=> u \in A) /\ (u \in B2 <=> u \in B)
    BY <2>5 DEF Holders
  <2>7. t \in A /\ t \in A2 /\ t \notin B /\ t \in B2
    BY <1>1, <1>2, <1>3, <1>4, <2>1, <2>5 DEF Holders
  <2> HIDE DEF A, A2, B, B2
  <2>8. /\ Cardinality(A) \in Nat /\ Cardinality(B) \in Nat
        /\ Cardinality(A2) = Cardinality(A) /\ Cardinality(B2) = Cardinality(B) + 1
    BY <2>4, <2>6, <2>7, OneMoves
  <2> QED
    BY <2>1, <2>2, <2>3, <2>8 DEF A, A2, B, B2
<1> HIDE DEF stats, r
<1> QED
  BY <1>1, <1>2, <1>3, <1>4, RecordStep DEF Recording

LEMMA IncrementOutcomeKeeps ==
    ASSUME MRInv, NEW t \in Thread, IncrementOutcome(t)
    PROVE  MRInv'
<1>1. PICK name : name = threads[t].name
  OBVIOUS
<1> DEFINE stats == IF threads[t].success
                    THEN [methods[name] EXCEPT !.success_count = @ + 1, !.last_access = Stamp]
                    ELSE [methods[name] EXCEPT !.failure_count = @ + 1, !.last_access = Stamp]
<1>2. /\ threads[t].pc = "count_outcome"
      /\ methods' = Store(methods, t, stats) /\ last_timestamp' = Stamp
      /\ threads' = [threads EXCEPT ![t] = Idle]
      /\ UNCHANGED <<clock, totals, nodes, cleanup_counter>>
  BY <1>1 DEF IncrementOutcome
<1>3. Idle \in ThreadState /\ ~Idle.held
  BY IdleTyped DEF Idle
<1>4. ASSUME threads[t].held
      PROVE  /\ stats \in MethodStats /\ stats.last_access = Stamp
             /\ LET done == stats.success_count + stats.failure_count
                IN  /\ stats.call_count = done + Cardinality(
                          Holders(name, {"record_latency", "count_outcome"})')
                    /\ stats.sample_count = done + Cardinality(
                          Holders(name, {"count_outcome"})')
  <2> DEFINE old == methods[name]
             done == old.success_count + old.failure_count
  <2>1. /\ old \in MethodStats /\ threads[t].op = "method"
        /\ old.call_count = done + Cardinality(
              Holders(name, {"record_latency", "count_outcome"}))
        /\ old.sample_count = done + Cardinality(Holders(name, {"count_outcome"}))
    BY <1>1, <1>2, <1>4, HeldEntry DEF Recording
  <2>2. done \in Nat
    BY <2>1 DEF MethodStats
  <2>3. /\ stats \in MethodStats /\ stats.last_access = Stamp
        /\ stats.call_count = old.call_count /\ stats.sample_count = old.sample_count
        /\ stats.success_count + stats.failure_count = done + 1
    <3>1. /\ old.success_count + 1 \in Nat /\ old.failure_count + 1 \in Nat
          /\ Stamp \in Nat
      BY <2>1, StampRises DEF MRInv, MethodStats
    <3> DEFINE good == [old EXCEPT !.success_count = @ + 1, !.last_access = Stamp]
               bad == [old EXCEPT !.failure_count = @ + 1, !.last_access = Stamp]
    <3>2. /\ good \in MethodStats /\ good.last_access = Stamp
          /\ good.call_count = old.call_count /\ good.sample_count = old.sample_count
          /\ good.success_count = old.success_count + 1
          /\ good.failure_count = old.failure_count
      BY <2>1, <3>1 DEF MethodStats
    <3>3. /\ bad \in MethodStats /\ bad.last_access = Stamp
          /\ bad.call_count = old.call_count /\ bad.sample_count = old.sample_count
          /\ bad.success_count = old.success_count
          /\ bad.failure_count = old.failure_count + 1
      BY <2>1, <3>1 DEF MethodStats
    <3>4. stats = good \/ stats = bad
      OBVIOUS
    <3>5. old.success_count \in Nat /\ old.failure_count \in Nat
      BY <2>1 DEF MethodStats
    <3> HIDE DEF good, bad, stats, old
    <3> QED
      BY <3>2, <3>3, <3>4, <3>5
  <2> HIDE DEF stats, old
  <2> DEFINE A == Holders(name, {"record_latency", "count_outcome"})
             A2 == Holders(name, {"record_latency", "count_outcome"})'
             B == Holders(name, {"count_outcome"})
             B2 == Holders(name, {"count_outcome"})'
  <2>4. /\ A \in SUBSET Thread /\ A2 \in SUBSET Thread
        /\ B \in SUBSET Thread /\ B2 \in SUBSET Thread
    BY DEF Holders
  <2>5. threads'[t] = Idle /\ \A u \in Thread \ {t} : threads'[u] = threads[u]
    BY <1>2 DEF MRInv, Typed
  <2>6. \A u \in Thread \ {t} : (u \in A2 <=> u \in A) /\ (u \in B2 <=> u \in B)
    BY <2>5 DEF Holders
  <2>7. t \in A /\ t \notin A2 /\ t \in B /\ t \notin B2
    BY <1>1, <1>2, <1>3, <1>4, <2>1, <2>5 DEF Holders
  <2> HIDE DEF A, A2, B, B2
  <2>8. /\ Cardinality(A) \in Nat /\ Cardinality(B) \in Nat
        /\ Cardinality(A2) = Cardinality(A) - 1 /\ Cardinality(B2) = Cardinality(B) - 1
    BY <2>4, <2>6, <2>7, OneMoves
  <2> QED
    BY <2>1, <2>2, <2>3, <2>8 DEF A, A2, B, B2
<1> HIDE DEF stats
<1> QED
  BY <1>1, <1>2, <1>3, <1>4, RecordStep DEF Recording

\* The node's steps do not touch the table of methods.
LEMMA NodeStep ==
    ASSUME MRInv, Typed', NEW t \in Thread, threads[t].op = "node",
           UNCHANGED <<methods, cleanup_counter>>, last_timestamp <= last_timestamp',
           NEW r, threads' = [threads EXCEPT ![t] = r],
           DOMAIN nodes \subseteq DOMAIN nodes',
           threads[t].pc \in {"lookup", "count_request"},
           \/ /\ r.pc = "count_request" /\ r.op = "node" /\ r.name = threads[t].name
              /\ r.name \in DOMAIN nodes'
           \/ r = Idle
    PROVE  MRInv'
<1>1. threads'[t] = r /\ \A u \in Thread \ {t} : threads'[u] = threads[u]
  BY DEF MRInv, Typed
<1>2. /\ r.pc \in {"idle", "count_request"}
      /\ r = Idle => r.op = "method" /\ r.name \in Method /\ ~r.held /\ r.pc = "idle"
  BY IdleTyped DEF Idle
<1>3. (Started <= MaxOps)'
  <2>1. Starting' = Starting
    BY <1>1, <1>2 DEF Starting
  <2> QED
    BY <2>1 DEF MRInv, Started
<1>4. Holding'
  <2> SUFFICES ASSUME NEW u \in Thread PROVE Consistent(u)'
    BY DEF Holding
  <2>1. Consistent(u)
    BY DEF MRInv, Holding
  <2>2. CASE u = t
    <3>1. CASE r = Idle
      BY <1>1, <1>2, <2>2, <3>1 DEF Consistent, Recording
    <3>2. CASE r # Idle
      <4>1. threads'[u].pc = "count_request" /\ threads'[u].op = "node"
            /\ threads'[u].name = threads[t].name /\ threads'[u].name \in DOMAIN nodes'
        BY <1>1, <2>2, <3>2
      <4> QED
        BY <2>1, <2>2, <4>1 DEF Consistent, Recording
    <3> QED
      BY <3>1, <3>2
  <2>3. CASE u # t
    BY <1>1, <2>1, <2>3 DEF Consistent
  <2> QED
    BY <2>2, <2>3
<1>5. EntriesAddUp' /\ StampsUnique'
  <2>1. ASSUME NEW m, NEW pcs PROVE Holders(m, pcs)' = Holders(m, pcs)
    <3>1. ~(r.held /\ r.op = "method")
      BY <1>2
    <3>2. \A u \in Thread : u \in Holders(m, pcs)' <=> u \in Holders(m, pcs)
      <4> SUFFICES ASSUME NEW u \in Thread
                   PROVE  u \in Holders(m, pcs)' <=> u \in Holders(m, pcs)
        OBVIOUS
      <4>1. CASE u = t
        <5>1. u \notin Holders(m, pcs)
          BY <4>1 DEF Holders
        <5>2. u \notin Holders(m, pcs)'
          BY <1>1, <3>1, <4>1 DEF Holders
        <5> QED
          BY <5>1, <5>2
      <4>2. CASE u # t
        BY <1>1, <4>2 DEF Holders
      <4> QED
        BY <4>1, <4>2
    <3> QED
      BY <3>2 DEF Holders
  <2> QED
    BY <2>1, Untouched DEF MRInv
<1>6. Room'
  <2>1. Inserting' \subseteq Inserting /\ Elsewhere' = Elsewhere
    BY <1>1, <1>2 DEF Inserting, Elsewhere
  <2> QED
    BY <2>1, SameRoom DEF MRInv
<1> QED
  BY <1>3, <1>4, <1>5, <1>6 DEF MRInv

LEMMA LookupNodeKeeps ==
    ASSUME MRInv, NEW t \in Thread, LookupNode(t)
    PROVE  MRInv'
<1> DEFINE r == [threads[t] EXCEPT !.pc = "count_request", !.held = TRUE]
           name == threads[t].name
<1>1. /\ threads[t].pc = "lookup" /\ threads[t].op = "node" /\ name \in Peer
      /\ threads[t] \in ThreadState
      /\ UNCHANGED <<clock, last_timestamp, totals, methods, cleanup_counter>>
  BY DEF LookupNode, MRInv, Typed, Holding, Consistent
<1>2. r \in ThreadState /\ r.pc = "count_request" /\ r.op = "node" /\ r.name = name
  BY <1>1 DEF ThreadState
<1>3. threads' = [threads EXCEPT ![t] = r]
  BY DEF LookupNode, MRInv, Typed
<1>4. /\ DOMAIN nodes' = DOMAIN nodes \cup {name}
      /\ nodes' \in [DOMAIN nodes' -> NodeStats]
  <2>1. NewNodeStats \in NodeStats
    BY MetricsAssumption DEF NewNodeStats, NodeStats, MRInv, Typed, MetricsAssumption
  <2>2. CASE name \in DOMAIN nodes
    BY <2>2 DEF LookupNode, MRInv, Typed
  <2>3. CASE name \notin DOMAIN nodes
    <3>1. nodes' = [n \in DOMAIN nodes \cup {name} |->
                       IF n = name THEN NewNodeStats ELSE nodes[n]]
      BY <2>3 DEF LookupNode
    <3> QED
      BY <2>1, <3>1 DEF MRInv, Typed
  <2> QED
    BY <2>2, <2>3
<1>5. Typed'
  BY <1>1, <1>2, <1>3, <1>4 DEF MRInv, Typed
<1>6. last_timestamp <= last_timestamp'
  BY <1>1 DEF MRInv, Typed
<1> HIDE DEF r
<1> QED
  BY <1>1, <1>2, <1>3, <1>4, <1>5, <1>6, NodeStep

LEMMA RecordRequestKeeps ==
    ASSUME MRInv, NEW t \in Thread, RecordRequest(t)
    PROVE  MRInv'
<1>1. /\ threads[t].pc = "count_request" /\ threads[t].op = "node"
      /\ threads[t].held => threads[t].name \in DOMAIN nodes
      /\ threads' = [threads EXCEPT ![t] = Idle] /\ last_timestamp' = Stamp
      /\ UNCHANGED <<clock, totals, methods, cleanup_counter>>
  BY DEF RecordRequest, MRInv, Holding, Consistent
<1>2. /\ DOMAIN nodes' = DOMAIN nodes
      /\ nodes' \in [DOMAIN nodes -> NodeStats]
  <2> DEFINE old == nodes[threads[t].name]
             stats == [request_count |-> old.request_count + 1,
                       last_access |-> Stamp, used |-> clock]
  <2>1. nodes' = Store(nodes, t, stats)
    BY DEF RecordRequest
  <2>2. CASE threads[t].held
    <3>1. old \in NodeStats
      BY <1>1, <2>2 DEF MRInv, Typed
    <3>2. old.request_count + 1 \in Nat /\ Stamp \in Nat /\ clock \in Nat
      BY <3>1, StampRises, MetricsAssumption DEF NodeStats, MRInv, Typed, MetricsAssumption
    <3>3. stats \in NodeStats
      BY <3>2 DEF NodeStats
    <3> HIDE DEF stats
    <3> QED
      BY <1>1, <2>1, <2>2, <3>3 DEF Store, MRInv, Typed
  <2>3. CASE ~threads[t].held
    BY <2>1, <2>3 DEF Store, MRInv, Typed
  <2> QED
    BY <2>2, <2>3
<1>3. last_timestamp' \in Nat /\ last_timestamp <= last_timestamp'
  BY <1>1, StampRises DEF MRInv, Typed
<1>4. Typed'
  BY <1>1, <1>2, <1>3, IdleTyped DEF MRInv, Typed
<1> QED
  BY <1>1, <1>2, <1>3, <1>4, NodeStep

LEMMA ClockMovesKeeps ==
    ASSUME MRInv, ClockMoves
    PROVE  MRInv'
<1> USE DEF ClockMoves
<1>1. Typed'
  BY DEF MRInv, Typed
<1>2. (Started <= MaxOps)' /\ Holding' /\ EntriesAddUp' /\ StampsUnique'
  <2>1. \A t \in Thread : Consistent(t)' <=> Consistent(t)
    BY DEF Consistent
  <2>2. \A m, pcs : Holders(m, pcs)' = Holders(m, pcs)
    BY DEF Holders
  <2> QED
    BY <2>1, <2>2 DEF MRInv, Started, Starting, Holding, EntriesAddUp, StampsUnique
<1>3. Room'
  <2>1. Inserting' = Inserting /\ Elsewhere' = Elsewhere
    BY DEF Inserting, Elsewhere
  <2> QED
    BY <2>1, SameRoom DEF MRInv
<1> QED
  BY <1>1, <1>2, <1>3 DEF MRInv

LEMMA NextKeeps == MRInv /\ [MRNext]_mrVars => MRInv'
<1> SUFFICES ASSUME MRInv, [MRNext]_mrVars PROVE MRInv'
  OBVIOUS
<1>1. CASE UNCHANGED mrVars
  <2> USE <1>1 DEF mrVars
  <2>1. Typed' /\ (Started <= MaxOps)'
    BY DEF MRInv, Typed, Started, Starting
  <2>2. Holding'
    BY DEF MRInv, Holding, Consistent
  <2>3. EntriesAddUp' /\ StampsUnique'
    BY DEF MRInv, EntriesAddUp, StampsUnique, Holders
  <2>4. Room'
    BY DEF MRInv, Room, ToCome, Pass, Inserting, Elsewhere
  <2> QED
    BY <2>1, <2>2, <2>3, <2>4 DEF MRInv
<1>2. CASE ClockMoves
  BY <1>2, ClockMovesKeeps
<1>3. ASSUME NEW t \in Thread, ThreadStep(t) PROVE MRInv'
  <2>1. ASSUME Started < MaxOps, NEW m \in Method, NEW success \in BOOLEAN,
               StartCall(t, m, success)
        PROVE  MRInv'
    BY <2>1, StartCallKeeps
  <2>2. ASSUME Started < MaxOps, NEW n \in Peer, StartNodeRequest(t, n)
        PROVE  MRInv'
    BY <2>2, StartNodeRequestKeeps
  <2>3. CASE maybe_cleanup(t)
    BY <2>3, MaybeCleanupKeeps
  <2>4. CASE CleanMethods(t)
    BY <2>4, CleanMethodsKeeps
  <2>5. CASE CleanNodes(t)
    BY <2>5, CleanNodesKeeps
  <2>6. CASE LookupMethod(t)
    BY <2>6, LookupMethodKeeps
  <2>7. CASE IncrementCall(t)
    BY <2>7, IncrementCallKeeps
  <2>8. CASE RecordLatency(t)
    BY <2>8, RecordLatencyKeeps
  <2>9. CASE IncrementOutcome(t)
    BY <2>9, IncrementOutcomeKeeps
  <2>10. CASE LookupNode(t)
    BY <2>10, LookupNodeKeeps
  <2>11. CASE RecordRequest(t)
    BY <2>11, RecordRequestKeeps
  <2> QED
    BY <1>3, <2>1, <2>2, <2>3, <2>4, <2>5, <2>6, <2>7, <2>8, <2>9, <2>10, <2>11
       DEF ThreadStep
<1> QED
  BY <1>1, <1>2, <1>3 DEF MRNext

LEMMA AlwaysMR == MRSpec => []MRInv
BY InitHolds, NextKeeps, PTL DEF MRSpec

-----------------------------------------------------------------------------
(* What holds for any number of threads, methods and nodes *)

(***************************************************************************)
(* The tables and the threads between the locks have their types.          *)
(***************************************************************************)
THEOREM RegistryTyped == MRSpec => []MRTypeOK
<1>1. MRInv => MRTypeOK
  <2> SUFFICES ASSUME MRInv PROVE MRTypeOK
    OBVIOUS
  <2>1. Cardinality(Starting) \in Nat /\ cleanup_counter \in Nat
    BY ThreadsFinite DEF Starting, MRInv, Typed
  <2>2. cleanup_counter \in 0..MaxOps
    BY <2>1, MetricsAssumption DEF MRInv, Started, MetricsAssumption
  <2> QED
    BY <2>2 DEF MRInv, Typed, MRTypeOK, ThreadState
<1> QED
  BY <1>1, AlwaysMR, PTL

(***************************************************************************)
(* No eviction splits the recording of a call between an entry and the one *)
(* that replaces it.                                                       *)
(***************************************************************************)
THEOREM CountsAlwaysAddUp == MRSpec => []EntriesAddUp
<1>1. MRInv => EntriesAddUp
  BY DEF MRInv
<1> QED
  BY <1>1, AlwaysMR, PTL

(***************************************************************************)
(* The table of methods is never over its limit by more than the           *)
(* insertions of one interval for each thread.                             *)
(***************************************************************************)
THEOREM TableAlwaysBounded == MRSpec => []TableBound
<1>1. MRInv => TableBound
  <2> SUFFICES ASSUME MRInv PROVE TableBound
    OBVIOUS
  <2>1. /\ Cardinality(DOMAIN methods) \in Nat /\ Cardinality(Inserting) \in Nat
        /\ Cardinality(Elsewhere) \in Nat
        /\ ToCome(Cardinality(Elsewhere)) \in Int
        /\ max_methods + CLEANUP_INTERVAL * Cardinality(Thread) \in Int
    BY RoomParts DEF MRInv, Room
  <2> DEFINE u == Cardinality(Elsewhere)
             c == CLEANUP_INTERVAL
             p == Pass(cleanup_counter)
  <2>2. ToCome(u) >= 0
    <3>1. c \in Nat /\ c > 0 /\ p \in Nat /\ u \in Nat
      BY <2>1, PassStep, MetricsAssumption DEF MRInv, Typed, MetricsAssumption
    <3>2. ToCome(u) = IF u = 0 THEN 0 ELSE p + (c - 1) * (u - 1)
      BY DEF ToCome
    <3> HIDE DEF u, c, p
    <3>3. u # 0 => (c - 1) * (u - 1) \in Nat
      <4>1. u # 0 => u - 1 \in Nat /\ c - 1 \in Nat
        BY <3>1
      <4>2. \A x, y \in Nat : x * y \in Nat
        OBVIOUS
      <4> QED
        BY <4>1, <4>2
    <3> QED
      BY <3>1, <3>2, <3>3
  <2> QED
    BY <2>1, <2>2 DEF MRInv, Room, TableBound
<1> QED
  BY <1>1, AlwaysMR, PTL

(***************************************************************************)
(* Least recently used is a total order of the methods, whatever the       *)
(* system clock does.                                                      *)
(***************************************************************************)
THEOREM StampsAlwaysUnique == MRSpec => []StampsUnique
<1>1. MRInv => StampsUnique
  BY DEF MRInv
<1> QED
  BY <1>1, AlwaysMR, PTL

=============================================================================
