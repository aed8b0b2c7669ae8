------------------------------ MODULE AtomicPeak ------------------------------
(***************************************************************************)
(* The gauges of ThreadCacheState and their peaks: a thread adds to the    *)
(* gauge, then runs update_peak with the value it produced, while others   *)
(* add, subtract and update.  All operations are relaxed: a load may       *)
(* return a value the peak had earlier, a read-modify-write the latest.    *)
(***************************************************************************)
EXTENDS Naturals

CONSTANTS
    Threads,
    MaxGauge    \* bounds the gauge: the number of blocks there are

ASSUME GaugeAssumption == MaxGauge \in Nat

VARIABLES
    gauge,      \* live_allocations, or cached_blocks
    peak,       \* its peak
    highest,    \* the largest value the gauge ever had
    pc,         \* Threads -> where the thread is in update_peak
    candidate, observed

peakVars == <<gauge, peak, highest, pc, candidate, observed>>

PeakTypeOK ==
    /\ gauge \in 0 .. MaxGauge
    /\ peak \in 0 .. MaxGauge
    /\ highest \in 0 .. MaxGauge
    /\ pc \in [Threads -> {"idle", "load", "compare"}]
    /\ candidate \in [Threads -> 0 .. MaxGauge]
    /\ observed \in [Threads -> 0 .. MaxGauge]

PeakInit ==
    /\ gauge = 0 /\ peak = 0 /\ highest = 0
    /\ pc = [t \in Threads |-> "idle"]
    /\ candidate = [t \in Threads |-> 0]
    /\ observed = [t \in Threads |-> 0]

------------------------------------------------------------------------------
\* fetch_add and one more: the candidate is the value after the addition.
Add(t) ==
    /\ pc[t] = "idle"
    /\ gauge < MaxGauge
    /\ gauge' = gauge + 1
    /\ highest' = IF gauge + 1 > highest THEN gauge + 1 ELSE highest
    /\ candidate' = [candidate EXCEPT ![t] = gauge + 1]
    /\ pc' = [pc EXCEPT ![t] = "load"]
    /\ UNCHANGED <<peak, observed>>

\* fetch_sub, of a thread that frees, flushes or takes a cached block.
Subtract(t) ==
    /\ pc[t] = "idle"
    /\ gauge > 0
    /\ gauge' = gauge - 1
    /\ UNCHANGED <<peak, highest, pc, candidate, observed>>

Load(t) ==
    /\ pc[t] = "load"
    /\ \E value \in 0 .. peak : observed' = [observed EXCEPT ![t] = value]
    /\ pc' = [pc EXCEPT ![t] = "compare"]
    /\ UNCHANGED <<gauge, peak, highest, candidate>>

LeaveLoop(t) ==
    /\ pc[t] = "compare"
    /\ observed[t] >= candidate[t]
    /\ pc' = [pc EXCEPT ![t] = "idle"]
    /\ UNCHANGED <<gauge, peak, highest, candidate, observed>>

Exchange(t) ==
    /\ pc[t] = "compare"
    /\ observed[t] < candidate[t]
    /\ peak = observed[t]
    /\ peak' = candidate[t]
    /\ pc' = [pc EXCEPT ![t] = "idle"]
    /\ UNCHANGED <<gauge, highest, candidate, observed>>

\* Mutants: the loop gives up when the exchange fails, or does not reload.
GiveUp(t) ==
    /\ pc[t] = "compare"
    /\ observed[t] < candidate[t]
    /\ pc' = [pc EXCEPT ![t] = "idle"]
    /\ UNCHANGED <<gauge, peak, highest, candidate, observed>>
RetryStale(t) ==
    /\ pc[t] = "compare"
    /\ observed[t] < candidate[t]
    /\ UNCHANGED peakVars

\* compare_exchange_weak fails, spuriously or not, and reloads observed.
ExchangeFails(t) ==
    /\ pc[t] = "compare"
    /\ observed[t] < candidate[t]
    /\ observed' = [observed EXCEPT ![t] = peak]
    /\ UNCHANGED <<gauge, peak, highest, pc, candidate>>

Update(t) == Load(t) \/ LeaveLoop(t) \/ Exchange(t) \/ ExchangeFails(t)

PeakNext == \E t \in Threads : Add(t) \/ Subtract(t) \/ Update(t)

(***************************************************************************)
(* A thread in update_peak keeps running, and a weak compare-exchange does *)
(* not fail spuriously for ever.                                           *)
(***************************************************************************)
PeakSpec ==
    /\ PeakInit
    /\ [][PeakNext]_peakVars
    /\ \A t \in Threads : WF_peakVars(Update(t)) /\ SF_peakVars(Exchange(t))

------------------------------------------------------------------------------
\* When no thread is inside update_peak the peak is the largest value the gauge
\* ever had, whichever order the updates were made in.
PeakExact == (\A t \in Threads : pc[t] = "idle") => peak = highest

\* A late update with a smaller candidate never lowers the peak.
PeakNeverFalls == [][peak' >= peak]_peakVars

\* Every update returns: an exchange that loses to another thread has raised
\* the peak, so it can lose only so often.
UpdateReturns == \A t \in Threads : pc[t] # "idle" ~> pc[t] = "idle"

\* The inductive invariant: the largest value is in the peak, or still the
\* candidate of some thread; nothing in flight is above it.
PeakInvariant ==
    /\ gauge <= highest /\ peak <= highest
    /\ \A t \in Threads : pc[t] # "idle" => candidate[t] <= highest
    /\ \A t \in Threads : pc[t] = "compare" => observed[t] <= peak
    /\ peak = highest \/ \E t \in Threads : pc[t] # "idle" /\ candidate[t] = highest
==============================================================================
