------------------------------- MODULE Anomaly -------------------------------
(***************************************************************************)
(* The anomaly analyzer's signals (core/anomaly.py): a bounded window of a *)
(* device's queries, kept in RAM, and the conditions on it that make an    *)
(* anomaly.  Times are whole, the multiplier is in percent, and the        *)
(* heuristic on a domain's letters is the set of the domains it flags.     *)
(* One group's thresholds are enough: a device's window does not depend on *)
(* them.                                                                   *)
(***************************************************************************)
EXTENDS Integers, Sequences, FiniteSets, SequencesExt

CONSTANTS
    WindowLength, MaxEntries,     \* AnalyzerConfig
    NxdomainCount, NxdomainSpan,  \* AnomalyThresholds of the device's group
    FailureCount, FailureSpan,
    SpikePercent, Baseline,
    MinRepeats, Tolerance,
    RandomLooking                 \* domains that look_high_entropy

\* The spans fit the window in the shipped configuration; nothing validates it.
ASSUME AnomalyAssumption ==
    /\ WindowLength \in Nat /\ MaxEntries \in Nat \ {0}
    /\ NxdomainCount \in Nat \ {0} /\ NxdomainSpan \in 1..WindowLength
    /\ FailureCount \in Nat \ {0} /\ FailureSpan \in 1..WindowLength
    /\ SpikePercent \in Nat /\ SpikePercent > 100
    /\ Baseline \in Nat \ {0} /\ 2 * Baseline <= WindowLength
    /\ MinRepeats \in Nat /\ MinRepeats >= 3 /\ Tolerance \in Nat

-----------------------------------------------------------------------------
(* The window.                                                             *)

\* Mutant: an entry exactly as old as the window is long goes too.
PrunedAtCutoff(window, cutoff) ==
    LET fresh == {i \in DOMAIN window : window[i].time > cutoff}
    IN IF fresh = {} THEN <<>> ELSE SubSeq(window, Min(fresh), Len(window))

\* The leading entries that are too old go; one that is not stops the pruning.
Pruned(window, cutoff) ==
    LET fresh == {i \in DOMAIN window : window[i].time >= cutoff}
    IN IF fresh = {} THEN <<>> ELSE SubSeq(window, Min(fresh), Len(window))

Capped(window) ==
    IF Len(window) <= MaxEntries THEN window
    ELSE SubSeq(window, Len(window) - MaxEntries + 1, Len(window))

\* _record.
Record(window, entry, at) == Capped(Pruned(Append(window, entry), at - WindowLength))

-----------------------------------------------------------------------------
(* The signals.                                                            *)

Between(window, from, to) ==
    {i \in DOMAIN window : from <= window[i].time /\ window[i].time < to}
Since(window, from) == {i \in DOMAIN window : window[i].time >= from}

NxdomainBurst(window, at) ==
    Cardinality({i \in Since(window, at - NxdomainSpan) : window[i].reply = "NXDOMAIN"})
        >= NxdomainCount

FailureReplies == {"SERVFAIL", "REFUSED", "NOTIMP"}
RepeatedFailures(window, at) ==
    Cardinality({i \in Since(window, at - FailureSpan) : window[i].reply \in FailureReplies})
        >= FailureCount

\* Without an older span there is nothing to compare against.
QueryRateSpike(window, at) ==
    LET recent == Cardinality(Since(window, at - Baseline))
        older == Cardinality(Between(window, at - 2 * Baseline, at - Baseline))
    IN older > 0 /\ 100 * recent >= SpikePercent * older

\* The times of a domain, oldest first.
TimesOf(window, domain) ==
    SortSeq([i \in DOMAIN SelectSeq(window, LAMBDA e : e.domain = domain) |->
                SelectSeq(window, LAMBDA e : e.domain = domain)[i].time],
            LAMBDA s, t : s < t)

\* No interval is further from their mean than the tolerance.
Regular(times) ==
    LET intervals == Len(times) - 1
        whole == times[Len(times)] - times[1]
    IN /\ whole > 0
       /\ \A i \in 1..intervals :
             LET apart == intervals * (times[i + 1] - times[i]) - whole
             IN /\ apart <= Tolerance * intervals
                /\ -apart <= Tolerance * intervals
Beaconing(window) ==
    \E domain \in {window[i].domain : i \in DOMAIN window} :
        LET times == TimesOf(window, domain)
        IN Len(times) >= MinRepeats /\ Regular(times)

LooksHighEntropy(domain) == domain \in RandomLooking
HighEntropyPresent(window) == \E i \in DOMAIN window : LooksHighEntropy(window[i].domain)

\* What a signal adds to the score.
SignalWeight == [nxdomain_burst |-> 30, query_rate_spike |-> 25, beaconing |-> 20,
                 high_entropy_domain |-> 15, repeated_failures |-> 30]
AnomalySignal == DOMAIN SignalWeight

\* _evaluate: the signals that fire, and the severity of their sum.
Signals(window, at) ==
    {s \in AnomalySignal :
        CASE s = "nxdomain_burst" -> NxdomainBurst(window, at)
          [] s = "query_rate_spike" -> QueryRateSpike(window, at)
          [] s = "beaconing" -> Beaconing(window)
          [] s = "high_entropy_domain" -> HighEntropyPresent(window)
          [] s = "repeated_failures" -> RepeatedFailures(window, at)}
Score(signals) == Min({100, MapThenSumSet(LAMBDA s : SignalWeight[s], signals)})
SeverityForScore(score) ==
    IF score >= 60 THEN "high" ELSE IF score >= 30 THEN "medium" ELSE "low"

\* observe, for one device: every entry is recorded, then the window is evaluated.
Windowed(window, entries, at) ==
    FoldLeft(LAMBDA w, e : Record(w, e, at), window, entries)
=============================================================================
