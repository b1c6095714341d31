--------------------------- MODULE IncidentMonitor ---------------------------
(***************************************************************************)
(* The storage check of "home-dns monitoring status --apply"               *)
(* (core/monitoring.py, storage/monitoring.py, cli.py): one command reads  *)
(* the disk usage, advances the debounced incident kept in                 *)
(* incidents/storage.json, saves it, records an opened or recovered        *)
(* transition in the incident_events table, and prints the alert.  Each    *)
(* command is a new process and may die between any two of those writes.   *)
(*                                                                         *)
(* The clock moves between commands, not within one.  The incident's       *)
(* last_notified_at is kept as an age; opened_at and last_change_at are    *)
(* only displayed.                                                         *)
(***************************************************************************)
EXTENDS Naturals

CONSTANTS
    IncidentAfter,   \* incident_after
    RecoveredAfter,  \* recovered_after
    Cooldown,        \* cooldown_seconds, in units of the clock
    StreakBound,     \* bound: streaks are not told apart beyond it
    MaxCrashes       \* bound on the commands that die half-way

ASSUME MonitorAssumption ==
    /\ IncidentAfter \in Nat \ {0}
    /\ RecoveredAfter \in Nat \ {0}
    /\ Cooldown \in Nat
    /\ StreakBound \in Nat
    /\ StreakBound >= IncidentAfter
    /\ StreakBound >= RecoveredAfter
    /\ MaxCrashes \in Nat

VARIABLES
    band,      \* the disk's ThresholdState
    incident,  \* incidents/storage.json
    age,       \* time since the incident's last_notified_at
    run,       \* the command in progress: where it is and its local variables
    event,     \* the newest row of incident_events
    crashes,
    \* history variables, written by no code:
    fired,     \* the last opened or recovered transition that was saved
    bad, good, \* how many of the last saved results were problems, or fine
    sinceAlert, \* time since the open incident last raised an alert
    missed     \* a command died between saving a transition and recording it

code == <<band, incident, age, run, event, crashes>>
history == <<fired, bad, good, sinceAlert, missed>>
vars == <<code, history>>

ThresholdState == {"healthy", "warning", "auto_cleanup", "emergency"}
IncidentState == {"ok", "suspect", "incident", "recovering"}
TransitionKind == {"none", "opened", "reminder", "recovered"}
Incident == [state: IncidentState, problem: 0..StreakBound, ok: 0..StreakBound]
Run == [pc: {"idle", "save", "record", "print"}, seen: ThresholdState,
        next: Incident, transition: TransitionKind]

Fresh == [state |-> "ok", problem |-> 0, ok |-> 0]
Idle == [pc |-> "idle", seen |-> "healthy", next |-> Fresh, transition |-> "none"]

TypeOK ==
    /\ band \in ThresholdState
    /\ incident \in Incident
    /\ age \in 0..Cooldown
    /\ run \in Run
    /\ event \in {"none", "opened", "recovered"}
    /\ crashes \in 0..MaxCrashes
    /\ fired \in {"none", "opened", "recovered"}
    /\ bad \in 0..StreakBound
    /\ good \in 0..StreakBound
    /\ sinceAlert \in 0..Cooldown
    /\ missed \in BOOLEAN

Init ==
    /\ band \in ThresholdState
    /\ incident = Fresh
    /\ age = 0
    /\ run = Idle
    /\ event = "none"
    /\ crashes = 0
    /\ fired = "none"
    /\ bad = 0 /\ good = 0
    /\ sinceAlert = 0
    /\ missed = FALSE

-----------------------------------------------------------------------------
Count(n) == IF n < StreakBound THEN n + 1 ELSE n
Outcome(s, p, o, t) ==
    [next |-> [state |-> s, problem |-> p, ok |-> o], transition |-> t]

\* Mutant: a relapse counts as a new incident.
OnProblemReopens(i) ==
    LET streak == Count(i.problem)
    IN IF i.state = "incident" THEN Outcome("incident", streak, 0, "none")
       ELSE IF streak >= IncidentAfter THEN Outcome("incident", streak, 0, "opened")
       ELSE Outcome("suspect", streak, 0, "none")

\* advance_incident for a result that is a problem.
OnProblem(i) ==
    LET streak == Count(i.problem)
        due == Cooldown > 0 /\ age >= Cooldown
    IN CASE i.state \in {"ok", "suspect"} /\ streak >= IncidentAfter ->
              Outcome("incident", streak, 0, "opened")
         [] i.state \in {"ok", "suspect"} /\ streak < IncidentAfter ->
              Outcome("suspect", streak, 0, "none")
         [] i.state = "incident" ->
              Outcome("incident", streak, 0, IF due THEN "reminder" ELSE "none")
         [] i.state = "recovering" ->
              Outcome("incident", streak, 0, "none")

\* Mutant: a good result clears SUSPECT and keeps its count of problems.
OnOkKeepsStreak(i) ==
    CASE i.state \in {"ok", "suspect"} -> Outcome("ok", i.problem, 0, "none")
      [] i.state \in {"incident", "recovering"} /\ Count(i.ok) >= RecoveredAfter ->
           Outcome("ok", 0, 0, "recovered")
      [] i.state \in {"incident", "recovering"} /\ Count(i.ok) < RecoveredAfter ->
           Outcome("recovering", 0, Count(i.ok), "none")

\* advance_incident for a result that is fine.
OnOk(i) ==
    LET streak == Count(i.ok)
    IN CASE i.state \in {"ok", "suspect"} -> [next |-> Fresh, transition |-> "none"]
         [] i.state \in {"incident", "recovering"} /\ streak >= RecoveredAfter ->
              [next |-> Fresh, transition |-> "recovered"]
         [] i.state \in {"incident", "recovering"} /\ streak < RecoveredAfter ->
              Outcome("recovering", 0, streak, "none")

\* The check: the report is built, the incident loaded and advanced.
Observe ==
    /\ run.pc = "idle"
    /\ LET result == IF band = "healthy" THEN OnOk(incident) ELSE OnProblem(incident)
       IN run' = [pc |-> "save", seen |-> band, next |-> result.next,
                  transition |-> result.transition]
    /\ UNCHANGED <<band, incident, age, event, crashes, history>>

\* Mutants: every transition is recorded; a recovery is not.
RecordedAll(transition) == transition # "none"
RecordedOpenings(transition) == transition = "opened"

\* The transitions the command writes to incident_events.
Recorded(transition) == transition \in {"opened", "recovered"}

\* Mutant: a reminder leaves last_notified_at alone.
AgeSavedReminderKeeps == IF run.transition \in {"none", "reminder"} THEN age ELSE 0

\* last_notified_at in the incident to be saved: set by every transition.
AgeSaved == IF run.transition = "none" THEN age ELSE 0

\* What save_incident makes true of the results seen so far.
Witness ==
    /\ bad' = IF run.seen = "healthy" THEN 0 ELSE Count(bad)
    /\ good' = IF run.seen = "healthy" THEN Count(good) ELSE 0
    /\ fired' = IF run.transition \in {"opened", "recovered"} THEN run.transition
                ELSE fired
    /\ sinceAlert' = IF run.transition \in {"opened", "reminder"} THEN 0
                     ELSE sinceAlert

Save ==
    /\ run.pc = "save"
    /\ incident' = run.next
    /\ age' = AgeSaved
    /\ run' = [run EXCEPT !.pc = IF Recorded(run.transition) THEN "record" ELSE "print"]
    /\ Witness
    /\ UNCHANGED <<band, event, crashes, missed>>

\* record_incident_event: one INSERT in a transaction of its own.
Record ==
    /\ run.pc = "record"
    /\ event' = run.transition
    /\ missed' = FALSE
    /\ run' = [run EXCEPT !.pc = "print"]
    /\ UNCHANGED <<band, incident, age, crashes, fired, bad, good, sinceAlert>>

\* The alert is printed (its text and severity are _storage_alert's).
PrintAlert ==
    /\ run.pc = "print"
    /\ run' = Idle
    /\ UNCHANGED <<band, incident, age, event, crashes, fired, bad, good,
                   sinceAlert, missed>>

\* The process dies; a transition saved and not yet recorded stays unrecorded.
Crash ==
    /\ run.pc # "idle"
    /\ crashes < MaxCrashes
    /\ crashes' = crashes + 1
    /\ missed' = (missed \/ run.pc = "record")
    /\ run' = Idle
    /\ UNCHANGED <<band, incident, age, event, fired, bad, good, sinceAlert>>

\* Time passes and the disk fills or empties, between commands.
Elapse ==
    /\ run.pc = "idle"
    /\ band' \in ThresholdState
    /\ age' = IF age < Cooldown THEN age + 1 ELSE age
    /\ sinceAlert' = IF sinceAlert < Cooldown THEN sinceAlert + 1 ELSE sinceAlert
    /\ UNCHANGED <<incident, run, event, crashes, fired, bad, good, missed>>

Next == Observe \/ Save \/ Record \/ PrintAlert \/ Crash \/ Elapse

Spec == Init /\ [][Next]_vars

-----------------------------------------------------------------------------
(***************************************************************************)
(* Properties.                                                             *)
(***************************************************************************)

\* The saved state is what the results saved so far call for, over any
\* sequence of results and crashes: incident_after problems in a row are an
\* incident, recovered_after good results in a row are none, fewer of either
\* are a suspicion or a recovery, and neither alert is about to be saved on
\* fewer: one result of the other kind starts the count again ("the flapping
\* guard" of advance_incident).
StateMatchesStreaks ==
    /\ bad >= IncidentAfter => incident.state = "incident"
    /\ good >= RecoveredAfter => incident.state = "ok"
    /\ incident.state = "suspect" => bad \in 1..(IncidentAfter - 1)
    /\ incident.state = "recovering" => good \in 1..(RecoveredAfter - 1)
    /\ run.pc = "save" /\ run.transition = "opened" => Count(bad) >= IncidentAfter
    /\ run.pc = "save" /\ run.transition = "recovered" => Count(good) >= RecoveredAfter

\* "Fire exactly once, entering INCIDENT" and "returning to OK": opened and
\* recovered alternate, and an incident is open exactly when the last of the
\* two was opened (TransitionKind).
TransitionsAlternate ==
    /\ [][fired' # fired => (fired' = "opened") # (fired = "opened")]_vars
    /\ [][run.pc = "save" /\ run'.pc = "record" => fired' # fired]_vars
    /\ []((fired = "opened") <=> incident.state \in {"incident", "recovering"})

\* A reminder repeats an alert only when reminders are enabled and the
\* cooldown has passed since the open incident's last one, through any relapse
\* from a recovery (the "due" test of advance_incident).
RemindersAreSpaced ==
    [][run.pc = "save" /\ run'.pc # "idle" /\ run.transition = "reminder"
          => Cooldown > 0 /\ sinceAlert >= Cooldown]_vars

\* When no command is running, the newest recorded event is the last
\* transition that fired, unless a command died between saving and recording
\* it, and then until the next one is recorded (cli.py, lines 1258-1263).
HistoryFollowsIncident ==
    run.pc = "idle" /\ ~missed => event = fired
=============================================================================
