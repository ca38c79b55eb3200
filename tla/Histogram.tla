----------------------------- MODULE Histogram -----------------------------
(***************************************************************************)
(* LatencyHistogram of madrpc-metrics/src/registry.rs: the latencies of a  *)
(* method, counted in bins by threads that record calls while a snapshot   *)
(* is taken.                                                               *)
(*                                                                         *)
(* There is no lock.  A sample is three relaxed additions to different     *)
(* atomics, which other threads may see in any order; the reader loads the *)
(* number of samples and then one bin after the other.  Loads are in       *)
(* program order: moving one earlier is the same as moving an addition     *)
(* later.                                                                  *)
(***************************************************************************)
EXTENDS Integers, Sequences, FiniteSetsExt

CONSTANTS
    Writer,         \* threads in record; each is reused
    Latency,        \* the latencies they record, in microseconds
    MaxSamples      \* bound of the model: samples recorded

ASSUME HistogramAssumption ==
    /\ IsFiniteSet(Writer)
    /\ Latency \subseteq Nat
    /\ MaxSamples \in Nat

NUM_HISTOGRAM_BINS == 100

Bin == 0..(NUM_HISTOGRAM_BINS - 1)

\* calculate_percentiles asks for these, in this order.
Percentile == <<50, 95, 99>>

VARIABLES
    bins, total_latency, sample_count,  \* the histogram
    writers,        \* the additions each writer has still to make
    reader,         \* where calculate_percentiles is
    started         \* history: bins when the reader loaded the count

histogram == <<bins, total_latency, sample_count>>

hVars == <<histogram, writers, reader, started>>

-----------------------------------------------------------------------------
(* From a latency to its bin and back *)

\* The powers of ten that fit TLC's integers.  From 10^9 on, every latency is
\* in the last bin.
Decade == 0..9

ilog10(n) == Max({k \in Decade : 10^k <= n} \cup {0})

\* Below a second, the leading digit.  From there on the digit of a longer
\* latency would be 10 or more, and is cut to 9.
ScaleFactor(l) ==
    IF l < 1000000
    THEN l \div 10^ilog10(l)
    ELSE 10 + Min({ilog10(l \div 1000000), 3}) * 10

latency_to_bin(l) ==
    IF l = 0
    THEN 0
    ELSE Min({ilog10(l) * 10 + Min({ScaleFactor(l), 9}), NUM_HISTOGRAM_BINS - 1})

\* For the bins below 90; beyond, 10^decade is out of TLC's range.
bin_to_latency(bin) ==
    IF bin = 0 THEN 1 ELSE 10^(bin \div 10) * Max({bin % 10, 1})

\* Stands for bin_to_latency(NUM_HISTOGRAM_BINS), 10^10 microseconds.
PastTheEnd == 2147483647

-----------------------------------------------------------------------------
HInit ==
    /\ bins = [b \in Bin |-> 0]
    /\ total_latency = 0
    /\ sample_count = 0
    /\ writers = [w \in Writer |-> [todo |-> {}, latency |-> 0]]
    /\ reader = [pc |-> "idle", total |-> 0, which |-> 1, next |-> 0, cumulative |-> 0,
                 avg |-> 0,
                 estimate |-> [bin |-> 0, value |-> 0, target |-> 0]]
    /\ started = bins

InFlight == {w \in Writer : writers[w].todo # {}}

\* The samples that a table of bins counts in some of them, numbered in each.
SamplesIn(table, some) == UNION {{b} \X (1..table[b]) : b \in some}

CountIn(table, some) == Cardinality(SamplesIn(table, some))

\* The bound MaxSamples counts the samples on their way.
Samples == sample_count + Cardinality({w \in Writer : "count" \in writers[w].todo})

-----------------------------------------------------------------------------
(* record *)

StartRecord(w, l) ==
    /\ writers[w].todo = {}
    /\ Samples < MaxSamples
    /\ writers' = [writers EXCEPT ![w] = [todo |-> {"bin", "latency", "count"}, latency |-> l]]
    /\ UNCHANGED <<histogram, reader, started>>

Done(w, addition) ==
    /\ addition \in writers[w].todo
    /\ writers' = [writers EXCEPT ![w].todo = @ \ {addition}]
    /\ UNCHANGED <<reader, started>>

\* Mutant: a load and a store in place of fetch_add.
AddToBinLossy(w) ==
    /\ Done(w, "bin")
    /\ bins' = [bins EXCEPT ![latency_to_bin(writers[w].latency)] = 1]
    /\ UNCHANGED <<total_latency, sample_count>>

AddToBin(w) ==
    /\ Done(w, "bin")
    /\ bins' = [bins EXCEPT ![latency_to_bin(writers[w].latency)] = @ + 1]
    /\ UNCHANGED <<total_latency, sample_count>>

AddLatency(w) ==
    /\ Done(w, "latency")
    /\ total_latency' = total_latency + writers[w].latency
    /\ UNCHANGED <<bins, sample_count>>

AddCount(w) ==
    /\ Done(w, "count")
    /\ sample_count' = sample_count + 1
    /\ UNCHANGED <<bins, total_latency>>

-----------------------------------------------------------------------------
(* calculate_percentiles *)

\* Without a sample the answer is (0, 0, 0, 0).
StartReading ==
    /\ reader.pc = "idle"
    /\ sample_count > 0
    /\ reader' = [reader EXCEPT !.pc = "average", !.total = sample_count,
                                !.which = 1]
    /\ UNCHANGED <<histogram, writers, started>>

Average ==
    /\ reader.pc = "average"
    /\ reader' = [reader EXCEPT !.pc = "count", !.avg = total_latency \div reader.total]
    /\ UNCHANGED <<histogram, writers, started>>

\* estimate_percentile loads the count again.
LoadCount ==
    /\ reader.pc = "count"
    /\ reader' = [reader EXCEPT !.pc = "scan", !.total = sample_count,
                                !.next = 0, !.cumulative = 0]
    /\ started' = bins
    /\ UNCHANGED <<histogram, writers>>

target_count == (reader.total * Percentile[reader.which]) \div 100

\* The bins that may hold a sample.  The others are loaded as 0 and change
\* nothing, except that the first bin ends a scan whose target is 0.
UsedBins == {0} \cup {latency_to_bin(l) : l \in Latency}

\* The position in the bin, by linear interpolation (in f64 in the code).
Interpolate(bin, count, offset) ==
    LET low  == bin_to_latency(bin)
        high == bin_to_latency(bin + 1)
    IN  IF count = 0
        THEN (low + high) \div 2
        ELSE low + (offset * (high - low)) \div count

\* An estimate has been found; the next percentile, or the end.
Estimated(bin, value) ==
    reader' = [reader EXCEPT
        !.pc        = IF reader.which = Len(Percentile) THEN "idle" ELSE "count",
        !.which     = IF @ = Len(Percentile) THEN @ ELSE @ + 1,
        !.estimate  = [bin |-> bin, value |-> value, target |-> target_count]]

PassBin ==
    LET later == {b \in UsedBins : b > reader.next}
        sum   == reader.cumulative + bins[reader.next]
    IN  /\ sum < target_count
        /\ IF later = {}
           THEN Estimated(NUM_HISTOGRAM_BINS, PastTheEnd)
           ELSE reader' = [reader EXCEPT !.cumulative = sum, !.next = Min(later)]

\* Mutant: the scan passes the bin in which it reaches the target.
ScanTooFar ==
    LET later == {b \in UsedBins : b > reader.next}
        sum   == reader.cumulative + bins[reader.next]
    IN  /\ reader.pc = "scan"
        /\ IF later = {} \/ sum > target_count
           THEN Estimated(reader.next,
                   Interpolate(reader.next, bins[reader.next], target_count - reader.cumulative))
           ELSE reader' = [reader EXCEPT !.cumulative = sum, !.next = Min(later)]
        /\ UNCHANGED <<histogram, writers, started>>

\* One bin is loaded.
Scan ==
    /\ reader.pc = "scan"
    /\ \/ /\ reader.cumulative + bins[reader.next] >= target_count
          /\ Estimated(reader.next,
                Interpolate(reader.next, bins[reader.next], target_count - reader.cumulative))
       \/ PassBin
    /\ UNCHANGED <<histogram, writers, started>>

-----------------------------------------------------------------------------
HNext ==
    \/ \E w \in Writer :
          \/ \E l \in Latency : StartRecord(w, l)
          \/ AddToBin(w) \/ AddLatency(w) \/ AddCount(w)
    \/ StartReading \/ Average \/ LoadCount \/ Scan

HSpec == HInit /\ [][HNext]_hVars

-----------------------------------------------------------------------------
(***************************************************************************)
(* Types, and the meaning of the bins and of sample_count: what is missing *)
(* from either is on its way.  (Of total_latency, the type only.)          *)
(***************************************************************************)
HTypeOK ==
    /\ bins \in [Bin -> Nat]
    /\ total_latency \in Nat
    /\ writers \in [Writer -> [todo : SUBSET {"bin", "latency", "count"},
                               latency : Latency \cup {0}]]
    /\ reader.pc \in {"idle", "average", "count", "scan"}
    /\ reader.next \in UsedBins
    /\ reader.which \in DOMAIN Percentile
    /\ reader.estimate.bin \in 0..NUM_HISTOGRAM_BINS
    /\ CountIn(bins, Bin) + Cardinality({w \in Writer : "bin" \in writers[w].todo}) = Samples

\* The scan that started is over, and its estimate the last one made.
Ended ==
    \/ reader.pc = "count" /\ reader.which > 1
    \/ reader.pc = "idle" /\ reader.total > 0

(***************************************************************************)
(* What an estimate means, although samples arrive during the scan: those  *)
(* in its bin or below it now are at least the rank asked for, those below *)
(* its bin when the scan began were fewer, and the latency reported is     *)
(* between the bounds of the bin.  The scan falls past the last bin, and   *)
(* reports hours, only if a sample had been counted before it was in its   *)
(* bin.                                                                    *)
(***************************************************************************)
EstimateBracketed ==
    LET bin    == reader.estimate.bin
        target == reader.estimate.target
    IN  Ended =>
            /\ bin \in Bin =>
                /\ CountIn(bins, 0..bin) >= target
                /\ reader.estimate.value \in bin_to_latency(bin)..bin_to_latency(bin + 1)
            /\ bin > 0 => CountIn(started, 0..(bin - 1)) < target

(***************************************************************************)
(* registry.rs:256 promises the "Estimated latency at the given            *)
(* percentile, or 0 if no samples".  With nobody recording, an estimate    *)
(* should not be below the bin of the shortest sample there is.  It is, as *)
(* soon as the rank rounds down to 0.                                      *)
(***************************************************************************)
EstimateNotBelowSamples ==
    Ended /\ InFlight = {} /\ started = bins =>
        reader.estimate.value >= bin_to_latency(Min({b \in Bin : bins[b] > 0}))

(***************************************************************************)
(* What is left of that promise: an estimate for a rank of at least 1 is   *)
(* not below the bin of the shortest sample, also while others record.     *)
(***************************************************************************)
RankedEstimateNotBelowSamples ==
    Ended /\ reader.estimate.target > 0 /\ reader.estimate.bin \in Bin =>
        reader.estimate.value >= bin_to_latency(Min({b \in Bin : bins[b] > 0}))

=============================================================================
