------------------------- MODULE BlocklistPipeline -------------------------
(***************************************************************************)
(* "home-dns blocklists update --apply" and "rollback --apply"             *)
(* (pipeline/blocklists.py, the blocklists command of cli.py): each        *)
(* selected source is downloaded from a mirror, put through the gates and  *)
(* activated; when all are done, each source's count of runs that kept the *)
(* previous list is advanced and saved.                                    *)
(*                                                                         *)
(* A list is the set of its entries: its artifact is named by its content. *)
(* Steps 1 to 7 of a download attempt end in an accepted list or in none.  *)
(* The store is the three pointers ArtifactStore has been shown to         *)
(* implement (VersionStore), with the lists and states that decay on disk. *)
(* A dry run writes nothing and is a stutter.                              *)
(***************************************************************************)
EXTENDS Tripwire, FiniteSets

CONSTANTS
    Source,      \* blocklist sources
    Fallback,    \* those with a second mirror
    Offered,     \* the lists each source's mirrors may deliver
    NoList,      \* the null of state.json
    Limits,      \* the approved sanity limits of each source
    NoLimits,    \* a source without
    Protections, \* what the configured protected domains may be
    Fragile,     \* sources whose state.json may decay
    Serialized,  \* TRUE: no rollback while an update runs
    MaxStreak,   \* bound on the counters
    MaxDisturbances  \* bound on crashes, failed steps, decays and rollbacks

\* Ratios in percent; a limit that is not set is one that nothing exceeds.
ASSUME PipelineAssumption ==
    /\ Fallback \subseteq Source /\ Fragile \subseteq Source
    /\ Offered \in [Source -> SUBSET SUBSET Scope]
    /\ \A s \in Source : NoList \notin Offered[s]
    /\ Limits \in [Source -> [min: Nat, max: Nat, added: Nat, removed: Nat]
                              \cup {NoLimits}]
    /\ Protections \subseteq SUBSET Scope
    /\ Serialized \in BOOLEAN
    /\ MaxStreak \in Nat /\ MaxStreak >= 3
    /\ MaxDisturbances \in Nat

VARIABLES
    protected,   \* the configured protected domains
    versions,    \* state.json of each source
    rotten,      \* stored lists that fail their hash
    corrupt,     \* sources whose state.json cannot be parsed
    counter,     \* consecutive_kept_previous of each source
    pc, accepting,          \* the update command and its --accept-anomalies
    todo, reports, counted, \* sources to update, their outcomes, those counted
    at, previous, role, candidate, \* update_source: source, previous_sha,
                                   \* mirror being tried, list accepted
    critical,    \* sources with a "failed_update" alert
    disturbances,
    \* history: the runs of a source that kept the previous list since a valid update;
    \* sources with a run among those that was held, blocked or failed; sources whose
    \* last outcomes were not all counted
    streak, halted, missed

store == <<versions, rotten, corrupt>>
run == <<at, previous, role, candidate>>
command == <<pc, accepting, todo, reports, counted, run, critical>>
history == <<streak, halted, missed>>
vars == <<protected, store, counter, command, disturbances, history>>

List == UNION {Offered[s] : s \in Source}
Version == [current: List \cup {NoList}, previous: List \cup {NoList},
            backup: List \cup {NoList}]
Outcome == {"activated", "unchanged", "held_for_review", "kept_previous",
            "blocked_by_tripwire", "failed"}
Empty == [current |-> NoList, previous |-> NoList, backup |-> NoList]

TypeOK ==
    /\ protected \in Protections
    /\ versions \in [Source -> Version]
    /\ rotten \subseteq Source \X List /\ corrupt \subseteq Source
    /\ counter \in [Source -> 0..MaxStreak]
    /\ pc \in {"idle", "select", "download", "gate", "activate", "count"}
    /\ accepting \in BOOLEAN
    /\ todo \subseteq Source /\ counted \subseteq Source
    /\ reports \in [Source -> Outcome \cup {"none"}]
    /\ at \in Source /\ previous \in List \cup {NoList}
    /\ role \in {"primary", "fallback"}
    /\ candidate \in List \cup {NoList}
    /\ pc \in {"gate", "activate"} => candidate \in List
    /\ critical \subseteq Source
    /\ disturbances \in 0..MaxDisturbances
    /\ streak \in [Source -> 0..MaxStreak] /\ halted \subseteq Source /\ missed \subseteq Source

Unreported == [s \in Source |-> "none"]

Init ==
    /\ protected \in Protections
    /\ versions = [s \in Source |-> Empty] /\ rotten = {} /\ corrupt = {}
    /\ counter = [s \in Source |-> 0]
    /\ pc = "idle" /\ accepting = FALSE /\ todo = {} /\ counted = {}
    /\ reports = Unreported
    /\ at \in Source /\ previous = NoList /\ role = "primary" /\ candidate = NoList
    /\ critical = {} /\ disturbances = 0
    /\ streak = [s \in Source |-> 0] /\ halted = {} /\ missed = {}

-----------------------------------------------------------------------------
Count(n) == IF n < MaxStreak THEN n + 1 ELSE n
Disturb == disturbances < MaxDisturbances /\ disturbances' = disturbances + 1

\* The command starts with its own copy of the configuration.
Start ==
    /\ pc = "idle"
    /\ pc' = "select"
    /\ accepting' \in BOOLEAN
    /\ todo' \in (SUBSET Source) \ {{}}
    /\ reports' = Unreported /\ counted' = {} /\ critical' = {}
    /\ UNCHANGED <<protected, store, counter, run, disturbances, history>>

\* update_source, first step: previous_sha is read.  The order of the
\* sources is that of the configuration: here any order.
ReadState(s) ==
    /\ pc = "select" /\ s \in todo /\ s \notin corrupt
    /\ at' = s /\ previous' = versions[s].current /\ role' = "primary"
    /\ candidate' = NoList
    /\ todo' = todo \ {s}
    /\ pc' = "download"
    /\ UNCHANGED <<protected, store, counter, accepting, reports, counted,
                   critical, disturbances, history>>

\* The command ends; outcomes that were not counted are lost.
Quit ==
    /\ pc' = "idle"
    /\ missed' = missed \cup {s \in Source : reports[s] # "none" /\ s \notin counted}
    /\ UNCHANGED <<protected, store, counter, accepting, todo, reports, counted,
                   run, critical, streak, halted>>

\* Reading a corrupted state.json raises out of run_update.
StateUnreadable(s) ==
    /\ pc = "select" /\ s \in todo /\ s \in corrupt
    /\ Quit
    /\ UNCHANGED disturbances

\* "any valid update (activated or unchanged)" (docs/blocklists.md, line 49).
ValidUpdate == {"activated", "unchanged"}

\* finish(): the source's outcome is known.
Finish(outcome) ==
    /\ reports' = [reports EXCEPT ![at] = outcome]
    /\ streak' = [streak EXCEPT ![at] = CASE outcome = "kept_previous" -> Count(@)
                                           [] outcome \in ValidUpdate -> 0
                                           [] OTHER -> @]
    /\ halted' = CASE outcome \in ValidUpdate -> halted \ {at}
                   [] outcome = "kept_previous" \/ streak[at] = 0 -> halted
                   [] OTHER -> halted \cup {at}
    /\ pc' = "select"
    /\ UNCHANGED <<protected, corrupt, counter, accepting, todo, counted, run,
                   critical, missed>>

\* An attempt (steps 1 to 7) that is rejected: the next mirror, or none.
TryFallback ==
    /\ pc = "download" /\ role = "primary" /\ at \in Fallback
    /\ role' = "fallback"
    /\ UNCHANGED <<protected, store, counter, pc, accepting, todo, reports, counted,
                   at, previous, candidate, critical, disturbances, history>>

\* Mutant: the return after the last mirror is forgotten.
NothingAcceptedGoesOn ==
    /\ pc = "download" /\ (role = "fallback" \/ at \notin Fallback)
    /\ pc' = "gate"
    /\ UNCHANGED <<protected, store, counter, accepting, todo, reports, counted,
                   run, critical, disturbances, history>>

NothingAccepted ==
    /\ pc = "download" /\ (role = "fallback" \/ at \notin Fallback)
    /\ Finish("kept_previous")
    /\ UNCHANGED <<versions, rotten, disturbances>>
Accepted(l) ==
    /\ pc = "download"
    /\ candidate' = l
    /\ pc' = "gate"
    /\ UNCHANGED <<protected, store, counter, accepting, todo, reports, counted,
                   at, previous, role, critical, disturbances, history>>

(* The gates.                                                              *)

\* Step 8; without protected domains nothing is activated.
PassesTripwire == protected # {} /\ TripwireHits(candidate, protected) = {}
BlockedByTripwire ==
    /\ pc = "gate" /\ ~PassesTripwire
    /\ Finish("blocked_by_tripwire")
    /\ UNCHANGED <<versions, rotten, disturbances>>

\* The artifact has the hash of the one that was active.
Unchanged ==
    /\ pc = "gate" /\ PassesTripwire
    /\ candidate = previous
    /\ Finish("unchanged")
    /\ UNCHANGED <<versions, rotten, disturbances>>

\* Step 10: evaluate_sanity over compute_delta.  A previous artifact that
\* cannot be read gives no delta.
SizeAnomaly(s, new) ==
    LET size == Cardinality(new)
    IN Limits[s] # NoLimits /\ (size < Limits[s].min \/ size > Limits[s].max)
DeltaAnomaly(s, old, new) ==
    LET size == Cardinality(old)
        Above(changed, limit) == 100 * Cardinality(changed) > limit * size
    IN /\ Limits[s] # NoLimits
       /\ size > 0
       /\ \/ Above(new \ old, Limits[s].added)
          \/ Above(old \ new, Limits[s].removed)

\* Mutant: the delta is taken against the list before the active one.
AnomalousAgainstPrevious ==
    \/ SizeAnomaly(at, candidate)
    \/ /\ versions[at].previous # NoList
       /\ <<at, versions[at].previous>> \notin rotten
       /\ DeltaAnomaly(at, versions[at].previous, candidate)

Anomalous ==
    \/ SizeAnomaly(at, candidate)
    \/ /\ previous # NoList /\ <<at, previous>> \notin rotten
       /\ DeltaAnomaly(at, previous, candidate)

New == pc = "gate" /\ PassesTripwire /\ candidate # previous
NoEntries ==
    /\ New /\ candidate = {}
    /\ Finish("failed")
    /\ UNCHANGED <<versions, rotten, disturbances>>
HeldForReview ==
    /\ New /\ candidate # {} /\ Anomalous /\ ~accepting
    /\ Finish("held_for_review")
    /\ UNCHANGED <<versions, rotten, disturbances>>

\* Steps 9, 11 and 12: the artifact is parsed back, deployed on a test
\* provider and looked up there; any of them may fail.
TestFails ==
    /\ New /\ candidate # {} /\ (Anomalous => accepting)
    /\ Disturb
    /\ Finish("failed")
    /\ UNCHANGED <<versions, rotten>>
TestPasses ==
    /\ New /\ candidate # {} /\ (Anomalous => accepting)
    /\ \A p \in protected : ~Blocks(candidate, p.domain)
    /\ pc' = "activate"
    /\ UNCHANGED <<protected, store, counter, accepting, todo, reports, counted,
                   run, critical, disturbances, history>>

\* Step 13: ArtifactStore.activate, which reads the state again, stores the
\* list, shifts the pointers and prunes what they no longer name.  The list
\* that is current already is left as it is; a stored copy that fails its hash
\* is not written again.
Retained(v) == {v.current, v.previous, v.backup}
Shifted(v, l) == [current |-> l, previous |-> v.current, backup |-> v.previous]
Activate ==
    /\ pc = "activate" /\ at \notin corrupt
    /\ \/ versions[at].current = candidate /\ UNCHANGED <<versions, rotten>>
       \/ /\ versions[at].current # candidate /\ <<at, candidate>> \notin rotten
          /\ versions' = [versions EXCEPT ![at] = Shifted(@, candidate)]
          /\ rotten' = {f \in rotten : f[1] = at => f[2] \in Retained(versions'[at])}
    /\ Finish("activated")
    /\ UNCHANGED disturbances
ActivationFails ==
    /\ pc = "activate"
    /\ \/ /\ \/ at \in corrupt
             \/ versions[at].current # candidate /\ <<at, candidate>> \in rotten
          /\ UNCHANGED disturbances
       \/ Disturb
    /\ Finish("failed")
    /\ UNCHANGED <<versions, rotten>>

(* The counters.                                                           *)
BeginCounting ==
    /\ pc = "select" /\ todo = {}
    /\ pc' = "count"
    /\ UNCHANGED <<protected, store, counter, accepting, todo, reports, counted,
                   run, critical, disturbances, history>>

\* Mutant: only an activation resets the count.
AdvancedOnlyActivatedResets(n, outcome) ==
    CASE outcome = "kept_previous" -> Count(n)
      [] outcome = "activated" -> 0
      [] OTHER -> n

\* advance_freshness.
Advanced(n, outcome) == IF outcome = "kept_previous" THEN Count(n) ELSE 0

\* Mutant: the alert waits for a fourth run.
IsCriticalLate(n) == n > 3

\* freshness_severity.
IsCritical(n) == n >= 3

CountReport(s) ==
    /\ pc = "count" /\ reports[s] # "none" /\ s \notin counted
    /\ counter' = [counter EXCEPT ![s] = Advanced(@, reports[s])]
    /\ counted' = counted \cup {s}
    /\ critical' = IF IsCritical(counter'[s]) THEN critical \cup {s} ELSE critical
    /\ missed' = IF reports[s] = "kept_previous" THEN missed ELSE missed \ {s}
    /\ UNCHANGED <<protected, store, pc, accepting, todo, reports, run,
                   disturbances, streak, halted>>
Done ==
    /\ pc = "count" /\ \A s \in Source : reports[s] # "none" => s \in counted
    /\ Quit
    /\ UNCHANGED disturbances

\* The process dies, or an exception leaves the command.
Crash ==
    /\ pc # "idle"
    /\ Disturb
    /\ Quit

-----------------------------------------------------------------------------
(* The operator and the disk.                                              *)

\* rollback --apply: current and previous change places.
Rollback(s) ==
    /\ Serialized => pc = "idle"
    /\ Disturb
    /\ s \notin corrupt
    /\ versions[s].previous # NoList /\ <<s, versions[s].previous>> \notin rotten
    /\ versions' = [versions EXCEPT ![s] =
                      [current |-> @.previous, previous |-> @.current,
                       backup |-> @.backup]]
    /\ UNCHANGED <<protected, rotten, corrupt, counter, command, history>>

\* The protected domains are edited.
Reconfigure ==
    /\ pc = "idle"
    /\ protected' \in Protections
    /\ UNCHANGED <<store, counter, command, disturbances, history>>

\* A list that a version names, or a state, decays on the disk.
Rot(s, l) ==
    /\ Disturb
    /\ l \in Retained(versions[s]) \ {NoList}
    /\ rotten' = rotten \cup {<<s, l>>}
    /\ UNCHANGED <<protected, versions, corrupt, counter, command, history>>
Corrupt(s) ==
    /\ Disturb
    /\ corrupt' = corrupt \cup {s}
    /\ UNCHANGED <<protected, versions, rotten, counter, command, history>>

Update ==
    \/ Start
    \/ \E s \in Source : ReadState(s) \/ StateUnreadable(s)
    \/ TryFallback
    \/ NothingAccepted
    \/ \E l \in Offered[at] : Accepted(l)
    \/ BlockedByTripwire
    \/ Unchanged
    \/ NoEntries
    \/ HeldForReview
    \/ TestFails
    \/ TestPasses
    \/ Activate
    \/ ActivationFails
    \/ BeginCounting
    \/ \E s \in Source : CountReport(s)
    \/ Done
    \/ Crash

Next ==
    \/ Update
    \/ Reconfigure
    \/ \E s \in Source : Rollback(s)
    \/ \E s \in Source, l \in List : Rot(s, l)
    \/ \E s \in Fragile : Corrupt(s)

Spec == Init /\ [][Next]_vars

-----------------------------------------------------------------------------
(***************************************************************************)
(* Properties.                                                             *)
(***************************************************************************)

\* No update makes current a list that blocks a protected domain, or a name
\* below one that is protected with its subdomains, whatever the operator
\* accepts; and none without protected domains (step 8).
UpdateSparesProtected ==
    [][\A s \in Source :
          pc = "activate" /\ pc' = "select" /\ versions'[s].current # versions[s].current
             => protected # {} /\ Spares(versions'[s].current, protected)]_vars

\* A list outside the approved limits replaces the current one, as it is at
\* that moment, only when the operator accepts it; a current list that cannot
\* be read limits nothing (step 10 against step 13).
AnomaliesAreReviewed ==
    [][\A s \in Source :
          LET old == versions[s].current  new == versions'[s].current
          IN pc = "activate" /\ pc' = "select" /\ ~accepting /\ new # old =>
                /\ ~SizeAnomaly(s, new)
                /\ old # NoList /\ <<s, old>> \notin rotten => ~DeltaAnomaly(s, old, new)]_vars

\* The saved counter is the number of runs that kept the previous list since the
\* source's last valid update, over all commands (docs/blocklists.md, "Counting" and
\* "Reset"): unless a command ended before it counted one, and then until a run that
\* resets it; and never more, but less after a run that was held, blocked or failed,
\* for which the code starts over and the document does not.
CounterCountsKeptRuns ==
    \A s \in Source \ missed :
        pc = "idle" \/ reports[s] = "none" \/ s \in counted =>
            /\ counter[s] <= streak[s]
            /\ s \notin halted => counter[s] = streak[s]

\* "A warning on the 1st and 2nd consecutive such runs, critical on the 3rd"
\* (docs/blocklists.md, line 48): a command that has counted all its sources has
\* raised the alert for none but those with three such runs since a valid update,
\* and for all of them without a held, blocked or failed run in between.
ThirdRunIsCritical ==
    [][pc = "count" /\ pc' = "idle" /\ disturbances' = disturbances =>
          \A s \in Source \ missed :
              LET due == reports[s] = "kept_previous" /\ streak[s] >= 3
              IN (s \in critical => due) /\ (due /\ s \notin halted => s \in critical)]_vars
=============================================================================
