------------------------ MODULE IncidentMonitor_proofs ------------------------
(***************************************************************************)
(* Proofs of the properties of IncidentMonitor for every policy.           *)
(*                                                                         *)
(* The properties are not inductive: they speak of the saved incident,     *)
(* which is computed one step earlier.  The invariant adds that a command  *)
(* about to save holds exactly what advance_incident makes of the incident *)
(* on disk, that the two streaks kept in the incident are the lengths of   *)
(* the runs of results that led there, and that the reminder clock of an   *)
(* open incident is the time since its last alert.                         *)
(***************************************************************************)
EXTENDS IncidentMonitor, TLAPS

Open == {"incident", "recovering"}

\* advance_incident, for a result seen.
Advance(seen) == IF seen = "healthy" THEN OnOk(incident) ELSE OnProblem(incident)

\* The streaks of an incident against the results saved so far.
Streaks ==
    /\ incident.state = "ok" => bad = 0 /\ incident.problem = 0
    /\ incident.state = "suspect" =>
          bad = incident.problem /\ bad \in 1..(IncidentAfter - 1) /\ good = 0
    /\ incident.state = "incident" => good = 0 /\ incident.ok = 0
    /\ incident.state = "recovering" =>
          bad = 0 /\ good = incident.ok /\ good \in 1..(RecoveredAfter - 1)

OpenedIsOpen == fired = "opened" <=> incident.state \in Open
ClockOfOpen == incident.state \in Open => age = sinceAlert
Computed ==
    run.pc = "save" => /\ run.next = Advance(run.seen).next
                       /\ run.transition = Advance(run.seen).transition
Recording ==
    run.pc = "record" => run.transition \in {"opened", "recovered"} /\ run.transition = fired
EventIsLast == run.pc # "record" /\ ~missed => event = fired

IInv ==
    /\ TypeOK
    /\ Streaks
    /\ OpenedIsOpen
    /\ ClockOfOpen
    /\ Computed
    /\ Recording
    /\ EventIsLast

-----------------------------------------------------------------------------
(* What advance_incident returns, one fact for each row of its table.      *)

LEMMA CountProperties ==
    ASSUME NEW n \in 0..StreakBound
    PROVE  /\ Count(n) \in 0..StreakBound
           /\ Count(n) >= n
           /\ n < StreakBound => Count(n) = n + 1
           /\ StreakBound > 0 => Count(n) >= 1
  BY MonitorAssumption DEF Count

LEMMA IncidentFields ==
    ASSUME NEW i \in Incident
    PROVE  i.state \in IncidentState /\ i.problem \in 0..StreakBound /\ i.ok \in 0..StreakBound
  BY DEF Incident

LEMMA ProblemConfirms ==
    ASSUME NEW i \in Incident, i.state \in {"ok", "suspect"},
           Count(i.problem) >= IncidentAfter
    PROVE  OnProblem(i) = Outcome("incident", Count(i.problem), 0, "opened")
  BY MonitorAssumption, IncidentFields, CountProperties DEF OnProblem

LEMMA ProblemSuspects ==
    ASSUME NEW i \in Incident, i.state \in {"ok", "suspect"},
           Count(i.problem) < IncidentAfter
    PROVE  OnProblem(i) = Outcome("suspect", Count(i.problem), 0, "none")
  <1>1. Count(i.problem) \in Nat /\ IncidentAfter \in Nat
    BY MonitorAssumption, IncidentFields, CountProperties
  <1> QED
    BY <1>1 DEF OnProblem

LEMMA ProblemContinues ==
    ASSUME NEW i \in Incident, i.state = "incident"
    PROVE  OnProblem(i) = Outcome("incident", Count(i.problem), 0,
                              IF Cooldown > 0 /\ age >= Cooldown THEN "reminder" ELSE "none")
  BY DEF OnProblem

LEMMA ProblemRelapses ==
    ASSUME NEW i \in Incident, i.state = "recovering"
    PROVE  OnProblem(i) = Outcome("incident", Count(i.problem), 0, "none")
  BY DEF OnProblem

LEMMA OkClears ==
    ASSUME NEW i \in Incident, i.state \in {"ok", "suspect"}
    PROVE  OnOk(i) = [next |-> Fresh, transition |-> "none"]
  BY DEF OnOk

LEMMA OkRecovers ==
    ASSUME NEW i \in Incident, i.state \in Open, Count(i.ok) >= RecoveredAfter
    PROVE  OnOk(i) = [next |-> Fresh, transition |-> "recovered"]
  <1>1. i.state \notin {"ok", "suspect"} /\ Count(i.ok) \in Nat /\ RecoveredAfter \in Nat
    BY MonitorAssumption, IncidentFields, CountProperties DEF Open
  <1>2. ~(Count(i.ok) < RecoveredAfter)
    BY <1>1
  <1> QED
    BY <1>1, <1>2 DEF OnOk, Open

LEMMA OkWaits ==
    ASSUME NEW i \in Incident, i.state \in Open, Count(i.ok) < RecoveredAfter
    PROVE  OnOk(i) = Outcome("recovering", 0, Count(i.ok), "none")
  <1>1. Count(i.ok) \in Nat /\ RecoveredAfter \in Nat
    BY MonitorAssumption, IncidentFields, CountProperties
  <1> QED
    BY <1>1 DEF OnOk, Open

\* The seven rows in one fact, for an incident i and a result seen.
LEMMA AdvanceRows ==
    ASSUME TypeOK, NEW seen \in ThresholdState
    PROVE  \/ /\ seen # "healthy" /\ incident.state \in {"ok", "suspect"}
              /\ Count(incident.problem) >= IncidentAfter
              /\ Advance(seen) = Outcome("incident", Count(incident.problem), 0, "opened")
           \/ /\ seen # "healthy" /\ incident.state \in {"ok", "suspect"}
              /\ Count(incident.problem) < IncidentAfter
              /\ Advance(seen) = Outcome("suspect", Count(incident.problem), 0, "none")
           \/ /\ seen # "healthy" /\ incident.state = "incident"
              /\ Cooldown > 0 /\ age >= Cooldown
              /\ Advance(seen) = Outcome("incident", Count(incident.problem), 0, "reminder")
           \/ /\ seen # "healthy" /\ incident.state \in Open
              /\ Advance(seen) = Outcome("incident", Count(incident.problem), 0, "none")
           \/ /\ seen = "healthy" /\ incident.state \in {"ok", "suspect"}
              /\ Advance(seen) = [next |-> Fresh, transition |-> "none"]
           \/ /\ seen = "healthy" /\ incident.state \in Open
              /\ Count(incident.ok) >= RecoveredAfter
              /\ Advance(seen) = [next |-> Fresh, transition |-> "recovered"]
           \/ /\ seen = "healthy" /\ incident.state \in Open
              /\ Count(incident.ok) < RecoveredAfter
              /\ Advance(seen) = Outcome("recovering", 0, Count(incident.ok), "none")
  <1>1. incident \in Incident /\ incident.state \in {"ok", "suspect"} \cup Open
    BY IncidentFields DEF TypeOK, IncidentState, Open
  <1>2. /\ Count(incident.problem) \in Nat /\ Count(incident.ok) \in Nat
        /\ age \in Nat /\ Cooldown \in Nat
        /\ IncidentAfter \in Nat /\ RecoveredAfter \in Nat
    BY <1>1, IncidentFields, CountProperties, MonitorAssumption DEF TypeOK
  <1>3. CASE seen = "healthy"
    <2>1. Advance(seen) = OnOk(incident)
      BY <1>3 DEF Advance
    <2>2. CASE incident.state \in {"ok", "suspect"}
      BY <1>1, <1>3, <2>1, <2>2, OkClears
    <2>3. CASE incident.state \in Open /\ Count(incident.ok) >= RecoveredAfter
      BY <1>1, <1>3, <2>1, <2>3, OkRecovers
    <2>4. CASE incident.state \in Open /\ Count(incident.ok) < RecoveredAfter
      BY <1>1, <1>3, <2>1, <2>4, OkWaits
    <2> QED
      BY <1>1, <1>2, <2>2, <2>3, <2>4
  <1>4. CASE seen # "healthy"
    <2>1. Advance(seen) = OnProblem(incident)
      BY <1>4 DEF Advance
    <2>2. CASE incident.state \in {"ok", "suspect"} /\ Count(incident.problem) >= IncidentAfter
      BY <1>1, <1>4, <2>1, <2>2, ProblemConfirms
    <2>3. CASE incident.state \in {"ok", "suspect"} /\ Count(incident.problem) < IncidentAfter
      BY <1>1, <1>4, <2>1, <2>3, ProblemSuspects
    <2>4. CASE incident.state = "incident"
      BY <1>1, <1>4, <2>1, <2>4, ProblemContinues DEF Open
    <2>5. CASE incident.state = "recovering"
      BY <1>1, <1>4, <2>1, <2>5, ProblemRelapses DEF Open
    <2> QED
      BY <1>1, <1>2, <2>2, <2>3, <2>4, <2>5 DEF Open
  <1> QED
    BY <1>3, <1>4

\* What advance_incident returns is an incident and a transition.
LEMMA AdvanceType ==
    ASSUME TypeOK, NEW seen \in ThresholdState
    PROVE  Advance(seen) \in [next: Incident, transition: TransitionKind]
  <1>1. /\ Count(incident.problem) \in 0..StreakBound
        /\ Count(incident.ok) \in 0..StreakBound
        /\ 0 \in 0..StreakBound
    BY IncidentFields, CountProperties, MonitorAssumption DEF TypeOK
  <1> QED
    BY <1>1, AdvanceRows DEF Outcome, Fresh, Incident, IncidentState, TransitionKind

\* The incident each transition comes from.
LEMMA TransitionMeans ==
    ASSUME TypeOK, NEW seen \in ThresholdState
    PROVE  /\ Advance(seen).transition = "opened" => incident.state \notin Open
           /\ Advance(seen).transition = "opened" =>
                 Count(incident.problem) >= IncidentAfter
           /\ Advance(seen).transition = "recovered" => incident.state \in Open
           /\ Advance(seen).transition = "recovered" =>
                 Count(incident.ok) >= RecoveredAfter
           /\ Advance(seen).transition = "reminder" =>
                 incident.state = "incident" /\ Cooldown > 0 /\ age >= Cooldown
  BY AdvanceRows DEF Outcome, Open

\* advance_incident reads nothing but the incident and its clock.
LEMMA AdvanceUnchanged ==
    ASSUME UNCHANGED <<incident, age>>
    PROVE  OnOk(incident)' = OnOk(incident) /\ OnProblem(incident)' = OnProblem(incident)
  BY DEF OnOk, OnProblem

-----------------------------------------------------------------------------
LEMMA InitEstablishesIInv == Init => IInv
  <1> SUFFICES ASSUME Init PROVE IInv
    OBVIOUS
  <1>1. TypeOK
    <2>1. 0 \in 0..StreakBound /\ 0 \in 0..Cooldown /\ 0 \in 0..MaxCrashes
      BY MonitorAssumption
    <2>2. Fresh \in Incident
      BY <2>1 DEF Fresh, Incident, IncidentState
    <2>3. Idle \in Run
      BY <2>2 DEF Idle, Run, TransitionKind, ThresholdState
    <2> QED
      BY <2>1, <2>2, <2>3 DEF Init, TypeOK
  <1>2. Streaks /\ OpenedIsOpen /\ ClockOfOpen /\ Computed /\ Recording /\ EventIsLast
    BY DEF Init, Fresh, Idle, Streaks, OpenedIsOpen, ClockOfOpen, Computed, Recording,
           EventIsLast, Open
  <1> QED
    BY <1>1, <1>2 DEF IInv

\* The check only fills in the command's variables.
LEMMA ObserveKeepsIInv == IInv /\ Observe => IInv'
  <1> SUFFICES ASSUME IInv, Observe PROVE IInv'
    OBVIOUS
  <1> USE DEF IInv
  <1>1. run' = [pc |-> "save", seen |-> band, next |-> Advance(band).next,
                transition |-> Advance(band).transition]
    BY DEF Observe, Advance
  <1>2. Advance(band) \in [next: Incident, transition: TransitionKind]
    BY AdvanceType DEF TypeOK
  <1>3. UNCHANGED <<band, incident, age, event, crashes, fired, bad, good, sinceAlert,
                    missed>>
    BY DEF Observe, history
  <1>4. run' \in Run
    BY <1>1, <1>2 DEF TypeOK, Run
  <1>5. TypeOK'
    BY <1>3, <1>4 DEF TypeOK
  <1>6. Streaks' /\ OpenedIsOpen' /\ ClockOfOpen'
    BY <1>3 DEF Streaks, OpenedIsOpen, ClockOfOpen
  <1>7. run'.pc = "save" /\ run.pc = "idle"
    BY <1>1 DEF Observe
  <1>8. OnOk(incident)' = OnOk(incident) /\ OnProblem(incident)' = OnProblem(incident)
    BY <1>3, AdvanceUnchanged
  <1>9. Computed'
    BY <1>1, <1>8 DEF Computed, Advance
  <1>10. Recording' /\ EventIsLast'
    BY <1>3, <1>7 DEF Recording, EventIsLast
  <1> QED
    BY <1>5, <1>6, <1>9, <1>10

\* The save: what was computed becomes the incident, one row at a time.
LEMMA SaveKeepsIInv == IInv /\ Save => IInv'
  <1> SUFFICES ASSUME IInv, Save PROVE IInv'
    OBVIOUS
  <1> USE DEF IInv
  <1>1. run \in Run /\ run.seen \in ThresholdState /\ run.next \in Incident
    BY DEF TypeOK, Run
  <1>2. /\ incident' = Advance(run.seen).next
        /\ run.transition = Advance(run.seen).transition
        /\ age' = IF run.transition = "none" THEN age ELSE 0
        /\ run' = [run EXCEPT !.pc = IF run.transition \in {"opened", "recovered"}
                                     THEN "record" ELSE "print"]
    BY DEF Save, Computed, AgeSaved, Recorded
  <1>3. Witness /\ UNCHANGED <<band, event, crashes, missed>>
    BY DEF Save
  <1>4. /\ Count(bad) \in 0..StreakBound /\ (bad < StreakBound => Count(bad) = bad + 1)
        /\ Count(good) \in 0..StreakBound /\ (good < StreakBound => Count(good) = good + 1)
    BY CountProperties DEF TypeOK
  <1>5. TypeOK'
    <2>1. incident' \in Incident
      BY <1>1 DEF Save
    <2>2. run' \in Run
      BY <1>1, <1>2 DEF Run
    <2>3. age' \in 0..Cooldown /\ sinceAlert' \in 0..Cooldown
      BY <1>2, <1>3, MonitorAssumption DEF TypeOK, Witness
    <2>4. bad' \in 0..StreakBound /\ good' \in 0..StreakBound
      BY <1>3, <1>4, MonitorAssumption DEF TypeOK, Witness
    <2>5. fired' \in {"none", "opened", "recovered"}
      BY <1>3 DEF TypeOK, Witness
    <2> QED
      BY <1>3, <2>1, <2>2, <2>3, <2>4, <2>5 DEF TypeOK
  <1>6. Streaks' /\ OpenedIsOpen' /\ ClockOfOpen'
    <2>1. incident \in Incident /\ incident.state \in IncidentState
          /\ incident.problem \in 0..StreakBound /\ incident.ok \in 0..StreakBound
      BY IncidentFields DEF TypeOK
    <2>2. Streaks'
      <3>1. /\ Count(incident.problem) \in 0..StreakBound /\ Count(incident.problem) >= 1
            /\ Count(incident.ok) \in 0..StreakBound /\ Count(incident.ok) >= 1
        BY <2>1, CountProperties, MonitorAssumption
      <3>2. bad' = (IF run.seen = "healthy" THEN 0 ELSE Count(bad))
            /\ good' = (IF run.seen = "healthy" THEN Count(good) ELSE 0)
        BY <1>3 DEF Witness
      <3>3. CASE run.seen = "healthy" /\ incident.state \in {"ok", "suspect"}
        BY <1>2, <3>2, <3>3, <1>1, AdvanceRows DEF Streaks, Fresh, Open
      <3>4. CASE run.seen = "healthy" /\ incident.state \in Open
        <4>1. good = incident.ok \/ (incident.state = "incident" /\ good = 0 /\ incident.ok = 0)
          BY <3>4 DEF Streaks, Open
        <4> QED
          BY <1>1, <1>2, <3>1, <3>2, <3>4, <4>1, AdvanceRows, MonitorAssumption
          DEF Streaks, Fresh, Outcome, Open
      <3>5. CASE run.seen # "healthy"
        <4>1. incident.state \in {"ok", "suspect"} => Count(bad) = Count(incident.problem)
          BY DEF Streaks
        <4> QED
          BY <1>1, <1>2, <3>1, <3>2, <3>5, <4>1, AdvanceRows, MonitorAssumption
          DEF Streaks, Fresh, Outcome, Open
      <3> QED
        BY <2>1, <3>3, <3>4, <3>5 DEF IncidentState, Open
    <2>3. OpenedIsOpen'
      BY <1>1, <1>2, <1>3, AdvanceRows DEF OpenedIsOpen, Witness, Outcome, Fresh, Open
    <2>4. ClockOfOpen'
      BY <1>1, <1>2, <1>3, AdvanceRows DEF ClockOfOpen, Witness, Outcome, Fresh, Open
    <2> QED
      BY <2>2, <2>3, <2>4
  <1>7. Computed' /\ Recording' /\ EventIsLast'
    <2>1. run'.pc = (IF run.transition \in {"opened", "recovered"} THEN "record" ELSE "print")
          /\ run'.transition = run.transition
      BY <1>1, <1>2 DEF Run
    <2>2. fired' = IF run.transition \in {"opened", "recovered"} THEN run.transition ELSE fired
      BY <1>3 DEF Witness
    <2>3. run.pc = "save"
      BY DEF Save
    <2> QED
      BY <1>3, <2>1, <2>2, <2>3 DEF Computed, Recording, EventIsLast
  <1> QED
    BY <1>5, <1>6, <1>7

\* The other four actions leave the incident and its results alone.
LEMMA OthersKeepIInv == IInv /\ (Record \/ PrintAlert \/ Crash \/ Elapse) => IInv'
  <1> SUFFICES ASSUME IInv, Record \/ PrintAlert \/ Crash \/ Elapse PROVE IInv'
    OBVIOUS
  <1> USE DEF IInv
  <1>1. run \in Run /\ Idle \in Run /\ Idle.pc = "idle"
    BY MonitorAssumption
    DEF TypeOK, Run, Idle, Fresh, Incident, IncidentState, ThresholdState, TransitionKind
  <1>2. UNCHANGED <<incident, fired, bad, good>>
    BY DEF Record, PrintAlert, Crash, Elapse
  <1>3. TypeOK'
    <2>1. CASE Record
      BY <1>1, <2>1 DEF TypeOK, Record, Recording, Run
    <2>2. CASE PrintAlert
      BY <1>1, <2>2 DEF TypeOK, PrintAlert
    <2>3. CASE Crash
      BY <1>1, <2>3, MonitorAssumption DEF TypeOK, Crash
    <2>4. CASE Elapse
      BY <1>1, <2>4, MonitorAssumption DEF TypeOK, Elapse
    <2> QED
      BY <2>1, <2>2, <2>3, <2>4
  <1>4. Streaks' /\ OpenedIsOpen'
    BY <1>2 DEF Streaks, OpenedIsOpen
  <1>5. ClockOfOpen'
    BY <1>2 DEF ClockOfOpen, Record, PrintAlert, Crash, Elapse
  <1>6. run'.pc # "save"
    BY <1>1 DEF Record, PrintAlert, Crash, Elapse, Run
  <1>7. Computed'
    BY <1>6 DEF Computed
  <1>8. Recording' /\ EventIsLast'
    BY <1>1, <1>2 DEF Recording, EventIsLast, Record, PrintAlert, Crash, Elapse, Run
  <1> QED
    BY <1>3, <1>4, <1>5, <1>7, <1>8

LEMMA StutterKeepsIInv == IInv /\ UNCHANGED vars => IInv'
  <1> SUFFICES ASSUME IInv, UNCHANGED vars PROVE IInv'
    OBVIOUS
  <1>1. UNCHANGED <<band, incident, age, run, event, crashes, fired, bad, good, sinceAlert,
                    missed>>
    BY DEF vars, code, history
  <1>2. OnOk(incident)' = OnOk(incident) /\ OnProblem(incident)' = OnProblem(incident)
    BY <1>1, AdvanceUnchanged
  <1>3. Computed'
    BY <1>1, <1>2 DEF IInv, Computed, Advance
  <1> QED
    BY <1>1, <1>3 DEF IInv, TypeOK, Streaks, OpenedIsOpen, ClockOfOpen, Recording, EventIsLast

LEMMA IInvIsInvariant == Spec => []IInv
  <1>1. IInv /\ [Next]_vars => IInv'
    BY ObserveKeepsIInv, SaveKeepsIInv, OthersKeepIInv, StutterKeepsIInv DEF Next
  <1> QED
    BY <1>1, InitEstablishesIInv, PTL DEF Spec

-----------------------------------------------------------------------------
\* Every value the command keeps on disk or in its variables has its type
\* (IncidentPolicy, Incident, CheckResult).
THEOREM MonitorTypeCorrect == Spec => []TypeOK
  <1>1. IInv => TypeOK
    BY DEF IInv
  <1> QED
    BY <1>1, IInvIsInvariant, PTL

\* The saved state is what the run of results calls for, over every sequence
\* of results and crashes (advance_incident's table).
THEOREM StateIsWhatResultsCallFor == Spec => []StateMatchesStreaks
  <1>1. IInv => StateMatchesStreaks
    <2> SUFFICES ASSUME IInv PROVE StateMatchesStreaks
      OBVIOUS
    <2>1. incident.state \in IncidentState /\ bad \in Nat /\ good \in Nat
      BY IncidentFields, MonitorAssumption DEF IInv, TypeOK
    <2>2. ASSUME run.pc = "save"
          PROVE  /\ run.transition = "opened" => Count(bad) >= IncidentAfter
                 /\ run.transition = "recovered" => Count(good) >= RecoveredAfter
      <3>1. /\ run.transition = Advance(run.seen).transition
            /\ run.seen \in ThresholdState /\ TypeOK
        BY <2>2 DEF IInv, Computed, TypeOK, Run
      <3>2. run.transition = "opened" =>
               incident.state \notin Open /\ Count(incident.problem) >= IncidentAfter
        BY <3>1, TransitionMeans
      <3>3. run.transition = "recovered" =>
               incident.state \in Open /\ Count(incident.ok) >= RecoveredAfter
        BY <3>1, TransitionMeans
      <3>4. incident.state \notin Open => bad = incident.problem
        BY <2>1 DEF IInv, Streaks, Open, IncidentState
      <3>5. incident.state \in Open => good = incident.ok
        BY DEF IInv, Streaks, Open
      <3> QED
        BY <3>2, <3>3, <3>4, <3>5
    <2> QED
      BY <2>1, <2>2, MonitorAssumption DEF IInv, Streaks, StateMatchesStreaks, IncidentState
  <1> QED
    BY <1>1, IInvIsInvariant, PTL

\* The newest recorded event is the last transition, unless a command died
\* between saving and recording it (cli.py, lines 1255 and 1263).
THEOREM HistoryIsComplete == Spec => []HistoryFollowsIncident
  <1>1. IInv => HistoryFollowsIncident
    BY DEF IInv, EventIsLast, HistoryFollowsIncident
  <1> QED
    BY <1>1, IInvIsInvariant, PTL

\* Opened and recovered alternate, only they are recorded, and the incident is
\* open exactly between the two (TransitionKind's "fire exactly once").
THEOREM OpenedAndRecoveredAlternate == Spec => TransitionsAlternate
  <1>1. IInv => (fired = "opened" <=> incident.state \in {"incident", "recovering"})
    BY DEF IInv, OpenedIsOpen, Open
  <1>2. IInv /\ [Next]_vars
          => [fired' # fired => (fired' = "opened") # (fired = "opened")]_vars
    <2> SUFFICES ASSUME IInv, Next, fired' # fired
                 PROVE  (fired' = "opened") # (fired = "opened")
      OBVIOUS
    <2>1. Save /\ run.transition \in {"opened", "recovered"} /\ fired' = run.transition
      BY DEF Next, Observe, Save, Witness, Record, PrintAlert, Crash, Elapse, history
    <2>2. /\ run.transition = Advance(run.seen).transition
          /\ run.seen \in ThresholdState /\ TypeOK
      BY <2>1 DEF IInv, Save, Computed, TypeOK, Run
    <2>3. run.transition = "opened" <=> incident.state \notin Open
      BY <2>1, <2>2, TransitionMeans
    <2> QED
      BY <2>1, <2>3 DEF IInv, OpenedIsOpen
  <1>3. IInv /\ [Next]_vars => [run.pc = "save" /\ run'.pc = "record" => fired' # fired]_vars
    <2> SUFFICES ASSUME IInv, Next, run.pc = "save", run'.pc = "record"
                 PROVE  fired' # fired
      OBVIOUS
    <2>1. run \in Run
      BY DEF IInv, TypeOK
    <2>2. Save
      BY <2>1 DEF Next, Observe, Record, PrintAlert, Crash, Elapse, Idle
    <2>3. run.transition \in {"opened", "recovered"} /\ fired' = run.transition
      BY <2>1, <2>2 DEF Save, Recorded, Witness, Run
    <2>4. /\ run.transition = Advance(run.seen).transition
          /\ run.seen \in ThresholdState /\ TypeOK
      BY <2>1 DEF IInv, Computed, Run
    <2>5. run.transition = "opened" <=> incident.state \notin Open
      BY <2>3, <2>4, TransitionMeans
    <2> QED
      BY <2>3, <2>5 DEF IInv, OpenedIsOpen
  <1> QED
    BY <1>1, <1>2, <1>3, IInvIsInvariant, PTL DEF Spec, TransitionsAlternate

\* A reminder comes only when reminders are on and the cooldown has passed
\* since the open incident's last alert (the "due" test of advance_incident).
THEOREM RemindersRespectCooldown == Spec => RemindersAreSpaced
  <1>1. IInv /\ [Next]_vars
          => [run.pc = "save" /\ run'.pc # "idle" /\ run.transition = "reminder"
                 => Cooldown > 0 /\ sinceAlert >= Cooldown]_vars
    <2> SUFFICES ASSUME IInv, run.pc = "save", run.transition = "reminder"
                 PROVE  Cooldown > 0 /\ sinceAlert >= Cooldown
      OBVIOUS
    <2>1. /\ Advance(run.seen).transition = "reminder"
          /\ run.seen \in ThresholdState /\ TypeOK
      BY DEF IInv, Computed, TypeOK, Run
    <2>2. incident.state = "incident" /\ Cooldown > 0 /\ age >= Cooldown
      BY <2>1, TransitionMeans
    <2> QED
      BY <2>2 DEF IInv, ClockOfOpen, Open
  <1> QED
    BY <1>1, IInvIsInvariant, PTL DEF Spec, RemindersAreSpaced
=============================================================================
