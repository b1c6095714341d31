--------------------------- MODULE Blocking_proofs ---------------------------
(***************************************************************************)
(* Proofs about what gets blocked: of the tripwire, for every set of names *)
(* and every tree of labels; of BlocklistPipeline, for every set of        *)
(* sources, lists, limits and protected domains; and of Policy, for every  *)
(* set of configurations, names and lists.                                 *)
(*                                                                         *)
(* The pipeline's gates look at a list several steps before it is          *)
(* activated, so its invariant says what is known of the candidate at that *)
(* moment: no hit of the tripwire, no anomaly the operator has not         *)
(* accepted, and a delta that was taken against the list still current.    *)
(* The counters need what each source's outcome will do to its counter     *)
(* while it is not counted.                                                *)
(*                                                                         *)
(* Two facts carry the policy: a rule that is active later is active now,  *)
(* so time can only take rules away; and a rule and a protected domain     *)
(* that cover the same name cover each other.                              *)
(***************************************************************************)
EXTENDS BlocklistPipeline, Policy, TLAPS

-----------------------------------------------------------------------------
(* The tripwire against what the list would block, for every set of names  *)
(* and every tree of labels: find_tripwire_hits looks names up in sets of  *)
(* parents, and never asks whether a rule covers a name.                   *)

\* A prefix as long as the sequence is the sequence, and a prefix of a prefix
\* is a prefix.
LEMMA PrefixFacts ==
    ASSUME NEW s \in Seq(Label), NEW m \in 1..Len(s), NEW n \in 1..m
    PROVE  /\ SubSeq(s, 1, m) \in Seq(Label) /\ Len(SubSeq(s, 1, m)) = m
           /\ SubSeq(SubSeq(s, 1, m), 1, n) = SubSeq(s, 1, n)
           /\ m = Len(s) => SubSeq(s, 1, m) = s
  <1>1. SubSeq(s, 1, m) \in Seq(Label) /\ Len(SubSeq(s, 1, m)) = m
    OBVIOUS
  <1>2. SubSeq(s, 1, m) = [i \in 1..m |-> s[i]]
    OBVIOUS
  <1>3. SubSeq(s, 1, n) = [i \in 1..n |-> s[i]]
    OBVIOUS
  <1>4. SubSeq(SubSeq(s, 1, m), 1, n) = [i \in 1..n |-> SubSeq(s, 1, m)[i]]
    BY <1>1
  <1>5. SubSeq(SubSeq(s, 1, m), 1, n) = SubSeq(s, 1, n)
    BY <1>2, <1>3, <1>4
  <1> QED
    BY <1>1, <1>5

\* A name below a domain has it among its parents.
LEMMA BelowIsAncestor ==
    ASSUME NEW name \in Domain, NEW d \in Domain
    PROVE  IsBelow(name, d) <=> d \in Ancestors(name)
  <1>1. name \in Seq(Label) /\ d \in Seq(Label) /\ Len(d) >= 2 /\ Len(d) \in Nat /\ Len(name) \in Nat
    BY DomainAssumption DEF IsDomain
  <1>2. ASSUME IsBelow(name, d) PROVE d \in Ancestors(name)
    <2>1. Len(d) \in 2..(Len(name) - 1) /\ d = SubSeq(name, 1, Len(d))
      BY <1>1, <1>2 DEF IsBelow
    <2>2. \E n \in 2..(Len(name) - 1) : d = SubSeq(name, 1, n)
      BY <2>1
    <2> QED
      BY <2>2 DEF Ancestors
  <1>3. ASSUME d \in Ancestors(name) PROVE IsBelow(name, d)
    <2>1. PICK n \in 2..(Len(name) - 1) : d = SubSeq(name, 1, n)
      BY <1>3 DEF Ancestors
    <2>2. Len(d) = n
      BY <1>1, <2>1, PrefixFacts
    <2> QED
      BY <1>1, <2>1, <2>2 DEF IsBelow
  <1> QED
    BY <1>2, <1>3

\* Of two domains above the same name, one is the other or a parent of it.
LEMMA AboveTheSame ==
    ASSUME NEW name \in Domain, NEW d \in Domain, NEW e \in Domain,
           IsBelow(name, d), IsBelow(name, e)
    PROVE  d = e \/ IsBelow(d, e) \/ IsBelow(e, d)
  <1>1. /\ name \in Seq(Label) /\ Len(name) \in Nat
        /\ Len(d) \in 1..Len(name) /\ Len(e) \in 1..Len(name)
    BY DomainAssumption DEF IsDomain, IsBelow
  <1>2. d = SubSeq(name, 1, Len(d)) /\ e = SubSeq(name, 1, Len(e))
    BY DEF IsBelow
  <1>3. CASE Len(d) = Len(e)
    BY <1>2, <1>3
  <1>4. CASE Len(d) < Len(e)
    <2>1. SubSeq(SubSeq(name, 1, Len(e)), 1, Len(d)) = SubSeq(name, 1, Len(d))
      BY <1>1, <1>4, PrefixFacts
    <2> QED
      BY <1>2, <1>4, <2>1 DEF IsBelow
  <1>5. CASE Len(e) < Len(d)
    <2>1. SubSeq(SubSeq(name, 1, Len(d)), 1, Len(e)) = SubSeq(name, 1, Len(e))
      BY <1>1, <1>5, PrefixFacts
    <2> QED
      BY <1>2, <1>5, <2>1 DEF IsBelow
  <1> QED
    BY <1>1, <1>3, <1>4, <1>5

\* What covers a common name covers one another.
LEMMA CoverEachOther ==
    ASSUME NEW p \in Scope, NEW e \in Scope, NEW d \in Domain, Covers(p, d), Covers(e, d)
    PROVE  Covers(e, p.domain) \/ Covers(p, e.domain)
  <1>1. p.domain \in Domain /\ e.domain \in Domain
    BY DEF Scope
  <1> QED
    BY <1>1, AboveTheSame DEF Covers

\* An entry that blocks a protected name is reported.
LEMMA NoHitIsMissed ==
    ASSUME NEW list \in SUBSET Scope, NEW guarded \in SUBSET Scope,
           NEW p \in guarded, NEW e \in list, NEW name \in Domain,
           Covers(p, name), Covers(e, name)
    PROVE  e \in TripwireHits(list, guarded)
  <1>1. p.domain \in Domain /\ e.domain \in Domain
    BY DEF Scope
  <1>2. CASE p.domain = e.domain
    BY <1>2 DEF TripwireHits
  <1>3. CASE e.subdomains /\ IsBelow(p.domain, e.domain)
    <2>1. e.domain \in Ancestors(p.domain)
      BY <1>1, <1>3, BelowIsAncestor
    <2> QED
      BY <1>3, <2>1 DEF TripwireHits
  <1>4. CASE p.subdomains /\ IsBelow(e.domain, p.domain)
    <2>1. p.domain \in Ancestors(e.domain)
      BY <1>1, <1>4, BelowIsAncestor
    <2> QED
      BY <1>4, <2>1 DEF TripwireHits
  <1>5. \/ p.domain = e.domain
        \/ e.subdomains /\ IsBelow(p.domain, e.domain)
        \/ p.subdomains /\ IsBelow(e.domain, p.domain)
    BY <1>1, AboveTheSame DEF Covers
  <1> QED
    BY <1>2, <1>3, <1>4, <1>5

\* An entry that is reported blocks a protected name.
LEMMA NoHitIsFalse ==
    ASSUME NEW list \in SUBSET Scope, NEW guarded \in SUBSET Scope,
           NEW e \in TripwireHits(list, guarded)
    PROVE  \E p \in guarded, name \in Domain : Covers(p, name) /\ Blocks(list, name)
  <1>1. e \in list /\ e.domain \in Domain /\ \A p \in guarded : p.domain \in Domain
    BY DEF TripwireHits, Scope
  <1>2. CASE \E p \in guarded : p.domain = e.domain
    BY <1>1, <1>2 DEF Covers, Blocks
  <1>3. CASE \E p \in guarded : p.subdomains /\ p.domain \in Ancestors(e.domain)
    <2>1. PICK p \in guarded : p.subdomains /\ p.domain \in Ancestors(e.domain)
      BY <1>3
    <2>2. Covers(p, e.domain) /\ Covers(e, e.domain)
      BY <1>1, <2>1, BelowIsAncestor DEF Covers
    <2> QED
      BY <1>1, <2>2 DEF Blocks
  <1>4. CASE \E p \in guarded : e.subdomains /\ e.domain \in Ancestors(p.domain)
    <2>1. PICK p \in guarded : e.subdomains /\ e.domain \in Ancestors(p.domain)
      BY <1>4
    <2>2. Covers(p, p.domain) /\ Covers(e, p.domain)
      BY <1>1, <2>1, BelowIsAncestor DEF Covers
    <2> QED
      BY <1>1, <2>2 DEF Blocks
  <1>5. \/ \E p \in guarded : p.domain = e.domain
        \/ \E p \in guarded : p.subdomains /\ p.domain \in Ancestors(e.domain)
        \/ \E p \in guarded : e.subdomains /\ e.domain \in Ancestors(p.domain)
    BY DEF TripwireHits
  <1> QED
    BY <1>2, <1>3, <1>4, <1>5

\* The tripwire reports nothing exactly when no name that the protected
\* domains stand for would be blocked by the list (find_tripwire_hits against
\* lookup_domain): it misses no entry, and raises no false alarm.
THEOREM TripwireIsExact ==
    ASSUME NEW list \in SUBSET Scope, NEW guarded \in SUBSET Scope
    PROVE  TripwireHits(list, guarded) = {} <=> Spares(list, guarded)
  <1>1. ASSUME TripwireHits(list, guarded) = {} PROVE Spares(list, guarded)
    BY <1>1, NoHitIsMissed DEF Spares, Blocks
  <1>2. ASSUME TripwireHits(list, guarded) # {} PROVE ~Spares(list, guarded)
    BY <1>2, NoHitIsFalse DEF Spares
  <1> QED
    BY <1>1, <1>2

-----------------------------------------------------------------------------
(* The invariant.                                                          *)

\* The sources still to do have no outcome, and those counted have one.
Reporting ==
    /\ pc \in {"select", "download", "gate", "activate"} =>
          counted = {} /\ \A s \in todo : reports[s] = "none"
    /\ pc \in {"download", "gate", "activate"} => reports[at] = "none" /\ at \notin todo
    /\ \A s \in counted : reports[s] # "none"

\* A count is within the streak, and the whole of it unless the source was halted.
Counts(s, n) == n <= streak[s] /\ (s \notin halted => n = streak[s])

\* An outcome that does not keep the previous list ends the streak, or halts it, and
\* the counter starts over.
Ended ==
    \A s \in Source : reports[s] \notin {"none", "kept_previous"} =>
        Counts(s, 0) /\ (s \in counted => counter[s] = 0)

\* The counter counts the streak, or will once the outcome is counted.
Counting ==
    \A s \in Source \ missed :
        Counts(s, IF pc = "idle" \/ reports[s] = "none" \/ s \in counted
                  THEN counter[s] ELSE Advanced(counter[s], reports[s]))

Alerts == critical = {s \in counted : IsCritical(counter[s])}

\* What the gates have found of the list about to be activated.
Cleared ==
    pc = "activate" => protected # {} /\ TripwireHits(candidate, protected) = {}
Reviewed == pc = "activate" /\ ~accepting => ~Anomalous
Current ==
    Serialized /\ pc \in {"download", "gate", "activate"} => previous = versions[at].current

IInv ==
    /\ TypeOK
    /\ Reporting
    /\ Ended
    /\ Counting
    /\ Alerts
    /\ Cleared
    /\ Reviewed
    /\ Current

-----------------------------------------------------------------------------
(* Types.                                                                  *)

LEMMA CountFacts ==
    ASSUME NEW n \in 0..MaxStreak
    PROVE  /\ Count(n) \in 0..MaxStreak /\ 0 \in 0..MaxStreak
           /\ \A m \in 0..n : Count(m) <= Count(n)
  BY PipelineAssumption DEF Count

LEMMA OfferedFacts ==
    /\ \A s \in Source : Offered[s] \subseteq List
    /\ \A l \in List : l \in SUBSET Scope
    /\ NoList \notin List
  BY PipelineAssumption DEF List

\* finish() with an outcome, the store being of its type.
LEMMA FinishTypes ==
    ASSUME TypeOK, NEW outcome \in Outcome, Finish(outcome),
           versions' \in [Source -> Version], rotten' \subseteq Source \X List,
           disturbances' \in 0..MaxDisturbances
    PROVE  TypeOK'
  <1>1. streak[at] \in 0..MaxStreak
    BY DEF TypeOK
  <1>2. streak' \in [Source -> 0..MaxStreak]
    BY <1>1, CountFacts DEF TypeOK, Finish, ValidUpdate
  <1>3. reports' \in [Source -> Outcome \cup {"none"}]
    BY DEF TypeOK, Finish
  <1>4. halted' \subseteq Source
    BY DEF TypeOK, Finish
  <1> QED
    BY <1>2, <1>3, <1>4 DEF TypeOK, Finish, run

\* The end of the command.
LEMMA QuitTypes ==
    ASSUME TypeOK, Quit, disturbances' \in 0..MaxDisturbances
    PROVE  TypeOK'
  BY DEF TypeOK, Quit, run, store

LEMMA DisturbTypes == TypeOK /\ Disturb => disturbances' \in 0..MaxDisturbances
  BY PipelineAssumption DEF TypeOK, Disturb

LEMMA SourceFacts ==
    /\ "kept_previous" \in Outcome /\ "blocked_by_tripwire" \in Outcome
    /\ "unchanged" \in Outcome /\ "failed" \in Outcome
    /\ "held_for_review" \in Outcome /\ "activated" \in Outcome
  BY DEF Outcome

LEMMA InitTypes == Init => TypeOK
  <1> SUFFICES ASSUME Init PROVE TypeOK
    OBVIOUS
  <1>1. 0 \in 0..MaxStreak /\ 0 \in 0..MaxDisturbances
    BY PipelineAssumption
  <1> QED
    BY <1>1 DEF Init, TypeOK, Version, Empty, Unreported, Outcome

\* The steps that end no run of a source.
LEMMA StepTypes ==
    ASSUME TypeOK, Next
    PROVE  TypeOK'
  <1> USE DEF store, run, command, history
  <1>1. CASE Start
    BY <1>1 DEF TypeOK, Start, Unreported
  <1>2. ASSUME NEW s \in Source, ReadState(s) PROVE TypeOK'
    <2>1. versions[s].current \in List \cup {NoList}
      BY DEF TypeOK, Version
    <2> QED
      BY <1>2, <2>1 DEF TypeOK, ReadState
  <1>3. ASSUME NEW s \in Source, StateUnreadable(s) PROVE TypeOK'
    <2>1. disturbances' \in 0..MaxDisturbances
      BY <1>3 DEF TypeOK, StateUnreadable
    <2> QED
      BY <1>3, <2>1, QuitTypes DEF StateUnreadable
  <1>4. CASE TryFallback
    BY <1>4 DEF TypeOK, TryFallback
  <1>5. CASE NothingAccepted
    BY <1>5, FinishTypes, SourceFacts DEF TypeOK, NothingAccepted
  <1>6. ASSUME NEW l \in Offered[at], Accepted(l) PROVE TypeOK'
    <2>1. l \in List
      BY OfferedFacts DEF TypeOK
    <2> QED
      BY <1>6, <2>1 DEF TypeOK, Accepted
  <1>7. CASE BlockedByTripwire
    BY <1>7, FinishTypes, SourceFacts DEF TypeOK, BlockedByTripwire
  <1>8. CASE Unchanged
    BY <1>8, FinishTypes, SourceFacts DEF TypeOK, Unchanged
  <1>9. CASE NoEntries
    BY <1>9, FinishTypes, SourceFacts DEF TypeOK, NoEntries
  <1>10. CASE HeldForReview
    BY <1>10, FinishTypes, SourceFacts DEF TypeOK, HeldForReview
  <1>11. CASE TestFails
    <2>1. disturbances' \in 0..MaxDisturbances
      BY <1>11, DisturbTypes DEF TestFails
    <2> QED
      BY <1>11, <2>1, FinishTypes, SourceFacts DEF TypeOK, TestFails
  <1>12. CASE TestPasses
    BY <1>12 DEF TypeOK, TestPasses, New
  <1>13. CASE Activate
    <2>1. candidate \in List /\ at \in Source /\ versions[at] \in Version
      BY <1>13 DEF TypeOK, Activate
    <2>2. Shifted(versions[at], candidate) \in Version
      BY <2>1 DEF Shifted, Version
    <2>3. versions' \in [Source -> Version] /\ rotten' \subseteq Source \X List
      BY <1>13, <2>1, <2>2 DEF TypeOK, Activate
    <2> QED
      BY <1>13, <2>3, FinishTypes, SourceFacts DEF TypeOK, Activate
  <1>14. CASE ActivationFails
    <2>1. disturbances' \in 0..MaxDisturbances
      BY <1>14, DisturbTypes DEF TypeOK, ActivationFails
    <2> QED
      BY <1>14, <2>1, FinishTypes, SourceFacts DEF TypeOK, ActivationFails
  <1>15. CASE BeginCounting
    BY <1>15 DEF TypeOK, BeginCounting
  <1>16. ASSUME NEW s \in Source, CountReport(s) PROVE TypeOK'
    <2>1. Advanced(counter[s], reports[s]) \in 0..MaxStreak
      BY CountFacts DEF TypeOK, Advanced
    <2>2. counter' \in [Source -> 0..MaxStreak]
      BY <1>16, <2>1 DEF TypeOK, CountReport
    <2>3. critical' \subseteq Source /\ missed' \subseteq Source /\ counted' \subseteq Source
      BY <1>16 DEF TypeOK, CountReport
    <2> QED
      BY <1>16, <2>2, <2>3 DEF TypeOK, CountReport
  <1>17. CASE Done
    BY <1>17, QuitTypes DEF TypeOK, Done
  <1>18. CASE Crash
    BY <1>18, QuitTypes, DisturbTypes DEF Crash
  <1>19. ASSUME NEW s \in Source, Rollback(s) PROVE TypeOK'
    <2>1. disturbances' \in 0..MaxDisturbances
      BY <1>19, DisturbTypes DEF Rollback
    <2>2. versions[s] \in Version
      BY DEF TypeOK
    <2>3. versions' \in [Source -> Version]
      BY <1>19, <2>2 DEF TypeOK, Rollback, Version
    <2> QED
      BY <1>19, <2>1, <2>3 DEF TypeOK, Rollback
  <1>20. CASE Reconfigure
    BY <1>20 DEF TypeOK, Reconfigure
  <1>21. ASSUME NEW s \in Source, NEW l \in List, Rot(s, l) PROVE TypeOK'
    BY <1>21, DisturbTypes DEF TypeOK, Rot
  <1>22. ASSUME NEW s \in Fragile, Corrupt(s) PROVE TypeOK'
    BY <1>22, DisturbTypes, PipelineAssumption DEF TypeOK, Corrupt
  <1> QED
    BY <1>1, <1>2, <1>3, <1>4, <1>5, <1>6, <1>7, <1>8, <1>9, <1>10, <1>11, <1>12, <1>13,
       <1>14, <1>15, <1>16, <1>17, <1>18, <1>19, <1>20, <1>21, <1>22 DEF Next, Update

\* The specification is well typed: in particular a list has been accepted
\* whenever the gates and the activation look at one (update_source).
THEOREM PipelineTypeCorrect == Spec => []TypeOK
  <1>1. TypeOK /\ UNCHANGED vars => TypeOK'
    BY DEF TypeOK, vars, store, run, command, history
  <1>2. TypeOK /\ [Next]_vars => TypeOK'
    BY <1>1, StepTypes
  <1> QED
    BY InitTypes, <1>2, PTL DEF Spec

-----------------------------------------------------------------------------
(* The counters.                                                           *)

LEMMA FinishCounts ==
    ASSUME TypeOK, Reporting, Ended, Counting, Alerts,
           NEW outcome \in Outcome, Finish(outcome),
           pc \in {"download", "gate", "activate"}
    PROVE  Reporting' /\ Ended' /\ Counting' /\ Alerts'
  <1> USE DEF run
  <1>1. /\ at \in Source /\ reports[at] = "none" /\ at \notin todo /\ counted = {}
        /\ reports' = [reports EXCEPT ![at] = outcome] /\ "none" \notin Outcome
    BY DEF TypeOK, Reporting, Finish, Outcome
  <1>2. \A s \in Source : s # at => reports'[s] = reports[s] /\ streak'[s] = streak[s]
                                     /\ (s \in halted' <=> s \in halted)
    BY <1>1 DEF TypeOK, Finish
  <1>3. reports'[at] = outcome /\ streak[at] \in 0..MaxStreak
    BY <1>1 DEF TypeOK, Finish
  <1>4. /\ outcome = "kept_previous" => streak'[at] = Count(streak[at])
        /\ outcome \in ValidUpdate => streak'[at] = 0
        /\ outcome \notin ValidUpdate \cup {"kept_previous"} => streak'[at] = streak[at]
    BY <1>1 DEF TypeOK, Finish, ValidUpdate
  <1>5. /\ outcome = "kept_previous" => halted' = halted
        /\ outcome \notin ValidUpdate \cup {"kept_previous"} /\ streak[at] # 0 => at \in halted'
    BY <1>1 DEF TypeOK, Finish, ValidUpdate
  <1>6. outcome # "kept_previous" =>
          0 <= streak'[at] /\ (at \notin halted' => 0 = streak'[at])
    BY <1>3, <1>4, <1>5, PipelineAssumption
  <1>7. Reporting'
    BY <1>1, <1>2 DEF TypeOK, Reporting, Finish
  <1>8. Ended'
    BY <1>1, <1>2, <1>3, <1>6 DEF Ended, Finish, Counts
  <1>9. Counting'
    <2> SUFFICES ASSUME NEW s \in Source \ missed
                 PROVE  Counts(s, IF reports[s] = "none" THEN counter[s]
                                  ELSE Advanced(counter[s], reports[s]))'
      BY <1>1 DEF Counting, Finish, Advanced, Count, Counts
    <2>1. CASE s = at
      <3>1. Counts(at, counter[at]) /\ counter'[at] = counter[at] /\ counter[at] \in 0..streak[at]
        BY <1>1, <1>3, <2>1 DEF Counting, Counts, Finish, TypeOK
      <3>2. CASE outcome = "kept_previous"
        <4>1. Count(counter[at]) <= Count(streak[at])
          BY <1>3, <3>1, CountFacts
        <4>2. /\ Count(counter[at]) <= streak'[at]
              /\ at \notin halted' => Count(counter[at]) = streak'[at]
          BY <1>4, <1>5, <3>1, <3>2, <4>1 DEF Counts
        <4>3. reports'[s] = "kept_previous" /\ counter'[s] = counter[at]
          BY <1>3, <2>1, <3>1, <3>2
        <4>4. Advanced(counter'[s], reports'[s]) = Count(counter[at])
          BY <4>3 DEF Advanced
        <4> QED
          BY <2>1, <4>2, <4>3, <4>4 DEF Counts, Advanced, Count
      <3>3. CASE outcome # "kept_previous"
        <4>1. reports'[s] = outcome /\ outcome # "none" /\ Advanced(counter'[s], reports'[s]) = 0
          BY <1>1, <1>3, <2>1, <3>3 DEF Advanced
        <4> QED
          BY <1>6, <2>1, <3>3, <4>1 DEF Counts, Advanced, Count
      <3> QED
        BY <3>2, <3>3
    <2>2. CASE s # at
      BY <1>1, <1>2, <2>2 DEF Counting, Counts, Finish, Advanced, Count
    <2> QED
      BY <2>1, <2>2
  <1>10. Alerts'
    BY DEF Alerts, Finish
  <1> QED
    BY <1>7, <1>8, <1>9, <1>10

LEMMA QuitCounts ==
    ASSUME TypeOK, Reporting, Ended, Counting, Alerts, Quit
    PROVE  Reporting' /\ Ended' /\ Counting' /\ Alerts'
  <1>1. \A s \in Source \ missed' : s \notin missed /\ (reports[s] = "none" \/ s \in counted)
    BY DEF Quit
  <1>2. Counting'
    BY <1>1 DEF Quit, Counting, Counts, Advanced, Count
  <1> QED
    BY <1>2 DEF Quit, Reporting, Ended, Counts, Alerts

LEMMA CountReportCounts ==
    ASSUME TypeOK, Reporting, Ended, Counting, Alerts, NEW s \in Source, CountReport(s)
    PROVE  Reporting' /\ Ended' /\ Counting' /\ Alerts'
  <1>1. /\ pc = "count" /\ pc' = pc /\ reports[s] # "none" /\ s \notin counted
        /\ counted' = counted \cup {s}
        /\ reports' = reports /\ streak' = streak /\ halted' = halted
        /\ missed' \subseteq missed
        /\ counter'[s] = Advanced(counter[s], reports[s])
        /\ \A r \in Source : r # s => counter'[r] = counter[r]
    BY DEF TypeOK, CountReport
  <1>2. Counting'
    <2> SUFFICES ASSUME NEW r \in Source \ missed'
                 PROVE  Counts(r, IF reports[r] = "none" \/ r \in counted'
                                  THEN counter'[r] ELSE Advanced(counter'[r], reports[r]))
      BY <1>1 DEF Counting, Counts, Advanced, Count
    <2>1. CASE r # s
      <3>1. r \notin missed
        BY <2>1 DEF CountReport
      <3> QED
        BY <1>1, <2>1, <3>1 DEF Counting
    <2>2. CASE r = s /\ s \notin missed
      BY <1>1, <2>2 DEF Counting
    <2>3. CASE r = s /\ s \in missed
      <3>1. reports[s] # "kept_previous"
        BY <2>3 DEF CountReport
      <3> QED
        BY <1>1, <2>3, <3>1 DEF Ended, Advanced
    <2> QED
      BY <2>1, <2>2, <2>3
  <1>3. Alerts'
    BY <1>1 DEF Alerts, CountReport
  <1>4. Ended'
    BY <1>1 DEF Ended, Counts, Advanced
  <1> QED
    BY <1>1, <1>2, <1>3, <1>4 DEF Reporting, CountReport

LEMMA StepCounts ==
    ASSUME TypeOK, Reporting, Ended, Counting, Alerts, Next
    PROVE  Reporting' /\ Ended' /\ Counting' /\ Alerts'
  <1> DEFINE Parts == Reporting /\ Ended /\ Counting /\ Alerts
  <1> USE DEF store, run, command, history
  <1>1. CASE Start
    BY <1>1 DEF Start, Unreported, Reporting, Ended, Counting, Counts, Alerts, TypeOK
  <1>2. ASSUME NEW s \in Source, ReadState(s) PROVE Parts'
    BY <1>2 DEF ReadState, Reporting, Ended, Counting, Counts, Alerts, Advanced, Count
  <1>3. ASSUME NEW s \in Source, StateUnreadable(s) PROVE Parts'
    BY <1>3, QuitCounts DEF StateUnreadable
  <1>4. CASE TryFallback
    BY <1>4 DEF TryFallback, Reporting, Ended, Counting, Counts, Alerts, Advanced, Count
  <1>5. CASE NothingAccepted
    BY <1>5, FinishCounts, SourceFacts DEF NothingAccepted
  <1>6. ASSUME NEW l \in Offered[at], Accepted(l) PROVE Parts'
    BY <1>6 DEF Accepted, Reporting, Ended, Counting, Counts, Alerts, Advanced, Count
  <1>7. CASE BlockedByTripwire
    BY <1>7, FinishCounts, SourceFacts DEF BlockedByTripwire
  <1>8. CASE Unchanged
    BY <1>8, FinishCounts, SourceFacts DEF Unchanged
  <1>9. CASE NoEntries
    BY <1>9, FinishCounts, SourceFacts DEF NoEntries, New
  <1>10. CASE HeldForReview
    BY <1>10, FinishCounts, SourceFacts DEF HeldForReview, New
  <1>11. CASE TestFails
    BY <1>11, FinishCounts, SourceFacts DEF TestFails, New
  <1>12. CASE TestPasses
    BY <1>12 DEF TestPasses, New, Reporting, Ended, Counting, Counts, Alerts, Advanced, Count
  <1>13. CASE Activate
    BY <1>13, FinishCounts, SourceFacts DEF Activate
  <1>14. CASE ActivationFails
    BY <1>14, FinishCounts, SourceFacts DEF ActivationFails
  <1>15. CASE BeginCounting
    BY <1>15 DEF BeginCounting, Reporting, Ended, Counting, Counts, Alerts, Advanced, Count
  <1>16. ASSUME NEW s \in Source, CountReport(s) PROVE Parts'
    BY <1>16, CountReportCounts
  <1>17. CASE Done
    BY <1>17, QuitCounts DEF Done
  <1>18. CASE Crash
    BY <1>18, QuitCounts DEF Crash
  <1>19. ASSUME NEW s \in Source, Rollback(s) PROVE Parts'
    BY <1>19 DEF Rollback, Reporting, Ended, Counting, Counts, Alerts, Advanced, Count
  <1>20. CASE Reconfigure
    BY <1>20 DEF Reconfigure, Reporting, Ended, Counting, Counts, Alerts, Advanced, Count
  <1>21. ASSUME NEW s \in Source, NEW l \in List, Rot(s, l) PROVE Parts'
    BY <1>21 DEF Rot, Reporting, Ended, Counting, Counts, Alerts, Advanced, Count
  <1>22. ASSUME NEW s \in Fragile, Corrupt(s) PROVE Parts'
    BY <1>22 DEF Corrupt, Reporting, Ended, Counting, Counts, Alerts, Advanced, Count
  <1> QED
    BY <1>1, <1>2, <1>3, <1>4, <1>5, <1>6, <1>7, <1>8, <1>9, <1>10, <1>11, <1>12, <1>13,
       <1>14, <1>15, <1>16, <1>17, <1>18, <1>19, <1>20, <1>21, <1>22 DEF Next, Update

\* The saved counters are the streaks of runs that kept the previous list, but for
\* the runs of a command that ended early or a held, blocked or failed run in between
\* (cli.py, advance_freshness), over all commands, whatever fails or dies.
THEOREM CountersAreStreaks == Spec => []CounterCountsKeptRuns
  <1> DEFINE Inv == TypeOK /\ Reporting /\ Ended /\ Counting /\ Alerts
  <1>1. Init => Inv
    BY InitTypes DEF Init, Reporting, Ended, Counting, Counts, Alerts
  <1>2. Inv /\ [Next]_vars => Inv'
    <2>1. Inv /\ Next => Inv'
      BY StepTypes, StepCounts
    <2>2. Inv /\ UNCHANGED vars => Inv'
      BY DEF vars, store, run, command, history, TypeOK, Reporting, Ended, Counting, Counts, Alerts,
             Advanced, Count
    <2> QED
      BY <2>1, <2>2
  <1>3. Inv => CounterCountsKeptRuns
    BY DEF Counting, Counts, CounterCountsKeptRuns
  <1> QED
    BY <1>1, <1>2, <1>3, PTL DEF Spec

-----------------------------------------------------------------------------
(* The gates.                                                              *)

\* No step but an activation or a rollback moves a pointer; once the operator
\* has stopped rolling back, what was read at the start is still current.
LEMMA StepGates ==
    ASSUME TypeOK, Cleared, Reviewed, Current, Next
    PROVE  Cleared' /\ Reviewed' /\ Current'
  <1> DEFINE Parts == Cleared /\ Reviewed /\ Current
  <1> USE DEF store, run, command, history
  <1>1. CASE Start
    BY <1>1 DEF Start, Cleared, Reviewed, Current
  <1>2. ASSUME NEW s \in Source, ReadState(s) PROVE Parts'
    BY <1>2 DEF ReadState, Cleared, Reviewed, Current
  <1>3. ASSUME NEW s \in Source, StateUnreadable(s) PROVE Parts'
    BY <1>3 DEF StateUnreadable, Quit, Cleared, Reviewed, Current
  <1>4. CASE TryFallback
    BY <1>4 DEF TryFallback, Cleared, Reviewed, Current
  <1>5. CASE NothingAccepted
    BY <1>5 DEF NothingAccepted, Finish, Cleared, Reviewed, Current
  <1>6. ASSUME NEW l \in Offered[at], Accepted(l) PROVE Parts'
    BY <1>6 DEF Accepted, Cleared, Reviewed, Current
  <1>7. CASE BlockedByTripwire
    BY <1>7 DEF BlockedByTripwire, Finish, Cleared, Reviewed, Current
  <1>8. CASE Unchanged
    BY <1>8 DEF Unchanged, Finish, Cleared, Reviewed, Current
  <1>9. CASE NoEntries
    BY <1>9 DEF NoEntries, Finish, Cleared, Reviewed, Current
  <1>10. CASE HeldForReview
    BY <1>10 DEF HeldForReview, Finish, Cleared, Reviewed, Current
  <1>11. CASE TestFails
    BY <1>11 DEF TestFails, Finish, Cleared, Reviewed, Current
  <1>12. CASE TestPasses
    BY <1>12 DEF TestPasses, New, PassesTripwire, Anomalous, Cleared, Reviewed, Current
  <1>13. CASE Activate
    BY <1>13 DEF Activate, Finish, Cleared, Reviewed, Current
  <1>14. CASE ActivationFails
    BY <1>14 DEF ActivationFails, Finish, Cleared, Reviewed, Current
  <1>15. CASE BeginCounting
    BY <1>15 DEF BeginCounting, Cleared, Reviewed, Current
  <1>16. ASSUME NEW s \in Source, CountReport(s) PROVE Parts'
    BY <1>16 DEF CountReport, Cleared, Reviewed, Current
  <1>17. CASE Done
    BY <1>17 DEF Done, Quit, Cleared, Reviewed, Current
  <1>18. CASE Crash
    BY <1>18 DEF Crash, Quit, Cleared, Reviewed, Current
  <1>19. ASSUME NEW s \in Source, Rollback(s) PROVE Parts'
    BY <1>19 DEF Rollback, Anomalous, Cleared, Reviewed, Current, TypeOK
  <1>20. CASE Reconfigure
    BY <1>20 DEF Reconfigure, Cleared, Reviewed, Current
  <1>21. ASSUME NEW s \in Source, NEW l \in List, Rot(s, l) PROVE Parts'
    BY <1>21 DEF Rot, Anomalous, Cleared, Reviewed, Current, TypeOK
  <1>22. ASSUME NEW s \in Fragile, Corrupt(s) PROVE Parts'
    BY <1>22 DEF Corrupt, Anomalous, Cleared, Reviewed, Current, TypeOK
  <1> QED
    BY <1>1, <1>2, <1>3, <1>4, <1>5, <1>6, <1>7, <1>8, <1>9, <1>10, <1>11, <1>12, <1>13,
       <1>14, <1>15, <1>16, <1>17, <1>18, <1>19, <1>20, <1>21, <1>22 DEF Next, Update

THEOREM PipelineInvariant == Spec => []IInv
  <1>1. Init => IInv
    BY InitTypes DEF Init, IInv, Reporting, Ended, Counting, Counts, Alerts, Cleared, Reviewed, Current
  <1>2. IInv /\ [Next]_vars => IInv'
    <2>1. IInv /\ Next => IInv'
      BY StepTypes, StepCounts, StepGates DEF IInv
    <2>2. IInv /\ UNCHANGED vars => IInv'
      BY DEF vars, store, run, command, history, IInv, TypeOK, Reporting, Ended, Counting, Counts,
             Alerts, Cleared, Reviewed, Current, Advanced, Count, Anomalous
    <2> QED
      BY <2>1, <2>2
  <1> QED
    BY <1>1, <1>2, PTL DEF Spec

\* Only Activate leaves "activate" for "select" with another list current, and
\* that list is the candidate.
LEMMA OnlyActivateSwitches ==
    ASSUME TypeOK, Next, pc = "activate", pc' = "select",
           NEW s \in Source, versions'[s].current # versions[s].current
    PROVE  /\ s = at /\ versions[s].current # candidate
           /\ versions'[s].current = candidate
           /\ candidate \in List
  <1> USE DEF store, run, command, history
  <1>1. CASE Activate
    BY <1>1 DEF TypeOK, Activate, Shifted
  <1>2. CASE ~Activate
    <2>1. versions' = versions
      BY <1>2 DEF Next, Update, Start, ReadState, StateUnreadable, TryFallback, NothingAccepted,
                  Accepted, BlockedByTripwire, Unchanged, NoEntries, HeldForReview, TestFails,
                  TestPasses, ActivationFails, BeginCounting, CountReport, Done, Crash,
                  Rollback, Reconfigure, Rot, Corrupt, Quit, Finish
    <2> QED
      BY <2>1
  <1> QED
    BY <1>1, <1>2

\* No update makes a list current that blocks a name the protected domains
\* stand for, whatever the operator accepts (update_source, step 8 to 13).
THEOREM UpdatesSpareProtected == Spec => UpdateSparesProtected
  <1>1. IInv /\ [Next]_vars =>
          \A s \in Source :
             pc = "activate" /\ pc' = "select" /\ versions'[s].current # versions[s].current
                => protected # {} /\ Spares(versions'[s].current, protected)
    <2> SUFFICES ASSUME IInv, [Next]_vars, NEW s \in Source, pc = "activate", pc' = "select",
                        versions'[s].current # versions[s].current
                 PROVE  protected # {} /\ Spares(versions'[s].current, protected)
      OBVIOUS
    <2>1. Next
      BY DEF vars, command
    <2>2. versions'[s].current = candidate /\ candidate \in List
      BY <2>1, OnlyActivateSwitches DEF IInv
    <2>3. candidate \in SUBSET Scope /\ protected \in SUBSET Scope
      BY <2>2, OfferedFacts, PipelineAssumption DEF IInv, TypeOK
    <2>4. protected # {} /\ TripwireHits(candidate, protected) = {}
      BY DEF IInv, Cleared
    <2> QED
      BY <2>2, <2>3, <2>4, TripwireIsExact
  <1> QED
    BY <1>1, PipelineInvariant, PTL DEF Spec, UpdateSparesProtected

\* While no rollback runs beside an update, no list outside the approved
\* limits becomes current unless the operator accepts it: the delta that was
\* computed before the tests is the delta of the switch (step 10 against 13).
THEOREM AnomaliesNeedReview ==
    ASSUME Serialized = TRUE
    PROVE  Spec => AnomaliesAreReviewed
  <1>1. IInv /\ [Next]_vars =>
          \A s \in Source :
             LET old == versions[s].current  new == versions'[s].current
             IN pc = "activate" /\ pc' = "select" /\ ~accepting /\ new # old =>
                   /\ ~SizeAnomaly(s, new)
                   /\ old # NoList /\ <<s, old>> \notin rotten => ~DeltaAnomaly(s, old, new)
    <2> SUFFICES ASSUME IInv, [Next]_vars, NEW s \in Source, pc = "activate", pc' = "select",
                        ~accepting, versions'[s].current # versions[s].current
                 PROVE  /\ ~SizeAnomaly(s, versions'[s].current)
                        /\ versions[s].current # NoList /\ <<s, versions[s].current>> \notin rotten
                             => ~DeltaAnomaly(s, versions[s].current, versions'[s].current)
      OBVIOUS
    <2>1. Next
      BY DEF vars, command
    <2>2. s = at /\ versions'[s].current = candidate
      BY <2>1, OnlyActivateSwitches DEF IInv
    <2>3. previous = versions[s].current
      BY <2>2 DEF IInv, Current
    <2>4. ~Anomalous
      BY DEF IInv, Reviewed
    <2> QED
      BY <2>2, <2>3, <2>4 DEF Anomalous
  <1> QED
    BY <1>1, PipelineInvariant, PTL DEF Spec, AnomaliesAreReviewed

-----------------------------------------------------------------------------
(* The alert.                                                              *)

\* A command that comes to its end has raised the critical alert only for sources
\* with three kept runs since a valid update, and for all of those that were not
\* halted in between (cli.py, freshness_severity), with state.json files that may
\* decay.
THEOREM ThirdRunAlerts == Spec => ThirdRunIsCritical
  <1>1. IInv /\ [Next]_vars =>
          (pc = "count" /\ pc' = "idle" /\ disturbances' = disturbances =>
             \A s \in Source \ missed :
                LET due == reports[s] = "kept_previous" /\ streak[s] >= 3
                IN (s \in critical => due) /\ (due /\ s \notin halted => s \in critical))
    <2> SUFFICES ASSUME IInv, [Next]_vars, pc = "count", pc' = "idle",
                        disturbances' = disturbances, NEW s \in Source \ missed
                 PROVE  LET due == reports[s] = "kept_previous" /\ streak[s] >= 3
                        IN (s \in critical => due) /\ (due /\ s \notin halted => s \in critical)
      OBVIOUS
    <2>1. Next /\ disturbances \in Nat
      BY PipelineAssumption DEF vars, command, IInv, TypeOK
    <2>2. Done
      <3>1. Update
        BY <2>1 DEF Next, Rollback, Reconfigure, Rot, Corrupt, command
      <3>2. ~Disturb
        BY <2>1 DEF Disturb
      <3> QED
        BY <3>1, <3>2 DEF Update, Start, ReadState, StateUnreadable, TryFallback,
           NothingAccepted, Accepted, BlockedByTripwire, Unchanged, NoEntries, HeldForReview, New,
           TestFails, TestPasses, Activate, ActivationFails, BeginCounting, CountReport, Crash
    <2>3. reports[s] = "none" \/ s \in counted
      BY <2>2 DEF Done
    <2>4. Counts(s, counter[s]) /\ counter[s] \in Nat /\ streak[s] \in Nat
      BY <2>3, PipelineAssumption DEF IInv, TypeOK, Counting
    <2>5. s \in critical <=> s \in counted /\ counter[s] >= 3
      BY DEF IInv, Alerts, IsCritical
    <2>6. s \in critical => reports[s] = "kept_previous"
      BY <2>5 DEF IInv, Reporting, Ended
    <2> QED
      BY <2>3, <2>4, <2>5, <2>6 DEF Counts
  <1> QED
    BY <1>1, PipelineInvariant, PTL DEF Spec, ThirdRunIsCritical

-----------------------------------------------------------------------------
(* Policy: time.                                                           *)

LEMMA ActiveBefore ==
    ASSUME NEW c \in Configurations, NEW t \in Int, NEW u \in Int, t <= u,
           NEW r \in Rules(c), IsActive(r, u)
    PROVE  IsActive(r, t)
  <1>1. r.expires \in Int \cup {Never}
    BY ConfigurationsAssumption DEF Typed
  <1> QED
    BY <1>1, PolicyAssumption DEF IsActive

LEMMA RulesAreRules ==
    ASSUME NEW c \in Configurations
    PROVE  /\ \A i \in 1..Len(c.allow) : c.allow[i] \in Rules(c)
           /\ \A i \in 1..Len(c.deny) : c.deny[i] \in Rules(c)
           /\ \A i \in 1..Len(c.regex) : c.regex[i] \in Rules(c)
           /\ Ran(c.allow) \subseteq Rules(c) /\ Ran(c.deny) \subseteq Rules(c)
           /\ Ran(c.regex) \subseteq Rules(c)
  BY DEF Rules, Ran

\* A configuration without errors gets none.
LEMMA ErrorsOnlyExpire ==
    ASSUME NEW c \in Configurations, NEW t \in Int, NEW u \in Int, t <= u,
           ~HasErrors(c, t)
    PROVE  ~HasErrors(c, u)
  <1>1. \A r, s \in Rules(c) : Clash(r, s, u) => Clash(r, s, t)
    BY ActiveBefore DEF Clash
  <1>2. Contradicts(c, u) => Contradicts(c, t)
    <2>1. ASSUME NEW rules \in {c.allow, c.deny}, NEW i \in 1..Len(rules), NEW j \in 1..Len(rules),
                 i < j, rules[i].scope = rules[j].scope, Clash(rules[i], rules[j], u)
          PROVE  Contradicts(c, t)
      <3>1. rules[i] \in Rules(c) /\ rules[j] \in Rules(c)
        BY RulesAreRules
      <3> QED
        BY <1>1, <2>1, <3>1 DEF Contradicts
    <2>2. ASSUME NEW a \in Ran(c.allow), NEW d \in Ran(c.deny), a.scope = d.scope, Clash(a, d, u)
          PROVE  Contradicts(c, t)
      BY <1>1, <2>2, RulesAreRules DEF Contradicts
    <2>3. ASSUME NEW i \in 1..Len(c.regex), NEW j \in 1..Len(c.regex), i < j,
                 c.regex[i].pattern = c.regex[j].pattern, Clash(c.regex[i], c.regex[j], u)
          PROVE  Contradicts(c, t)
      BY <1>1, <2>3, RulesAreRules DEF Contradicts
    <2> QED
      BY <2>1, <2>2, <2>3 DEF Contradicts
  <1>3. Threatens(c, u) => Threatens(c, t)
    <2>1. \A r \in Ran(c.deny) \cup Ran(c.regex) : IsActive(r, u) => IsActive(r, t)
      BY ActiveBefore, RulesAreRules
    <2> QED
      BY <2>1 DEF Threatens
  <1> QED
    BY <1>2, <1>3 DEF HasErrors

LEMMA HitsBefore ==
    ASSUME NEW c \in Configurations, NEW t \in Int, NEW u \in Int, t <= u, NEW g, NEW d
    PROVE  /\ DomainRuleHits(c.deny, g, d, u) => DomainRuleHits(c.deny, g, d, t)
           /\ \A action : RegexHits(c, action, g, d, u) => RegexHits(c, action, g, d, t)
  <1>1. \A r \in Rules(c) : Applies(r, g, u) => Applies(r, g, t)
    BY ActiveBefore DEF Applies
  <1> QED
    BY <1>1, RulesAreRules DEF DomainRuleHits, RegexHits

-----------------------------------------------------------------------------
(* Policy: names.                                                          *)

\* A name that a provider blocks is found by the walk over its parents.
LEMMA BlockedIsListed ==
    ASSUME NEW list \in SUBSET Scope, NEW d \in Domain, Blocks(list, d)
    PROVE  Listed(list, d)
  <1>1. PICK e \in list : Covers(e, d)
    BY DEF Blocks
  <1>2. e.domain \in Domain /\ e = [domain |-> e.domain, subdomains |-> e.subdomains]
        /\ e.subdomains \in BOOLEAN
    BY DEF Scope
  <1>3. CASE e.domain = d
    <2>1. e = [domain |-> d, subdomains |-> FALSE] \/ e = [domain |-> d, subdomains |-> TRUE]
      BY <1>2, <1>3
    <2> QED
      BY <2>1 DEF Listed
  <1>4. CASE e.domain # d
    <2>1. e.subdomains /\ e.domain \in Ancestors(d)
      BY <1>1, <1>2, <1>4, DomainAssumption DEF Covers, IsBelow, Ancestors, IsDomain
    <2>2. e = [domain |-> e.domain, subdomains |-> TRUE]
      BY <1>2, <2>1
    <2> QED
      BY <2>1, <2>2 DEF Listed
  <1> QED
    BY <1>3, <1>4

-----------------------------------------------------------------------------
(* decide.                                                                 *)

\* The layers by what stands before them.
LEMMA FirstLayer ==
    ASSUME NEW c, NEW read, NEW g, NEW d, NEW t
    PROVE  LET M == Matching(c, read, g, d, t)
               reason == Decide(c, read, g, d, t)
           IN /\ reason = "default" => "blocklist" \notin M
              /\ Blocked(reason) => "protected" \notin M /\ M \cap {"deny_rule", "deny_regex", "blocklist"} # {}
              /\ ~Blocked(reason) /\ M \cap {"deny_rule", "deny_regex", "blocklist"} # {}
                    => M \cap {"protected", "allow_rule", "allow_regex"} # {}
  <1> DEFINE M == Matching(c, read, g, d, t)
             IsFirst(i) == Order[i] \in M /\ \A j \in 1..(i - 1) : Order[j] \notin M
             first == CHOOSE i \in 1..7 : IsFirst(i)
  <1>1. /\ Order[1] = "protected" /\ Order[2] = "allow_rule" /\ Order[3] = "allow_regex"
        /\ Order[4] = "deny_rule" /\ Order[5] = "deny_regex" /\ Order[6] = "blocklist"
        /\ Order[7] = "default"
    BY DEF Order
  <1>2. Decide(c, read, g, d, t) = Order[first]
    BY DEF Decide
  <1>3. "default" \in M
    BY DEF Matching
  <1> HIDE DEF M
  <1>4. \E i \in 1..7 : IsFirst(i)
    <2>1. CASE Order[1] \in M
      BY <2>1
    <2>2. CASE Order[1] \notin M /\ Order[2] \in M
      BY <2>2
    <2>3. CASE Order[1] \notin M /\ Order[2] \notin M /\ Order[3] \in M
      BY <2>3
    <2>4. CASE Order[1] \notin M /\ Order[2] \notin M /\ Order[3] \notin M /\ Order[4] \in M
      BY <2>4
    <2>5. CASE /\ Order[1] \notin M /\ Order[2] \notin M /\ Order[3] \notin M /\ Order[4] \notin M
               /\ Order[5] \in M
      BY <2>5
    <2>6. CASE /\ Order[1] \notin M /\ Order[2] \notin M /\ Order[3] \notin M /\ Order[4] \notin M
               /\ Order[5] \notin M /\ Order[6] \in M
      BY <2>6
    <2>7. CASE /\ Order[1] \notin M /\ Order[2] \notin M /\ Order[3] \notin M /\ Order[4] \notin M
               /\ Order[5] \notin M /\ Order[6] \notin M
      BY <1>1, <1>3, <2>7
    <2> QED
      BY <2>1, <2>2, <2>3, <2>4, <2>5, <2>6, <2>7
  <1>5. first \in 1..7 /\ IsFirst(first)
    <2> HIDE DEF IsFirst
    <2> QED
      BY <1>4
  <1> HIDE DEF first
  <1>6. Decide(c, read, g, d, t) = "default" => first = 7
    <2>1. \A i \in 1..6 : Order[i] # "default"
      BY <1>1
    <2>2. first \in 1..6 \/ first = 7
      BY <1>5
    <2> HIDE DEF IsFirst
    <2> QED
      BY <1>2, <2>1, <2>2
  <1>7. Blocked(Decide(c, read, g, d, t)) => first \in 4..6
    BY <1>1, <1>2, <1>5 DEF Blocked
  <1>8. ~Blocked(Decide(c, read, g, d, t)) => first \in {1, 2, 3, 7}
    BY <1>1, <1>2, <1>5 DEF Blocked
  <1>9. /\ Decide(c, read, g, d, t) = "default" => "blocklist" \notin M
        /\ Blocked(Decide(c, read, g, d, t)) =>
              "protected" \notin M /\ M \cap {"deny_rule", "deny_regex", "blocklist"} # {}
    BY <1>1, <1>5, <1>6, <1>7
  <1>10. ASSUME ~Blocked(Decide(c, read, g, d, t)),
                M \cap {"deny_rule", "deny_regex", "blocklist"} # {}
         PROVE  M \cap {"protected", "allow_rule", "allow_regex"} # {}
    <2>1. CASE first = 7
      BY <1>1, <1>5, <1>10, <2>1
    <2>2. CASE first \in {1, 2, 3}
      BY <1>1, <1>5, <2>2
    <2> QED
      BY <1>8, <1>10, <2>1, <2>2
  <1> QED
    BY <1>9, <1>10 DEF M

-----------------------------------------------------------------------------
(* The invariant.                                                          *)

\* What was read of each source, or that it could not be read, is on record.
Read(s) == s \in notes \/ (lists[s] # NoArtifact /\ lists[s] \in SUBSET Scope)

PolicyInv ==
    /\ now \in Nat
    /\ active \in [StoredSource -> Lists \cup {NoArtifact, Unreadable}]
    /\ DOMAIN lists = StoredSource
    /\ stage \in {"idle", "lists", "done"}
    /\ stage # "done" => answer = NoAnswer
    /\ stage = "idle" <=> config = Unreadable
    /\ stage = "done" => left = {}
    /\ config # Unreadable =>
          /\ config \in Configurations /\ ~HasErrors(config, now)
          /\ \A s \in Ids(config.sources) \ left : Read(s)
    /\ NoListSkippedSilently

LEMMA SourcesAreConfigured ==
    ASSUME NEW c, NEW t, NEW g, ~HasErrors(c, t)
    PROVE  SourcesFor(c, g) \subseteq Ids(c.sources)
  BY DEF HasErrors, Dangling, SourcesFor

LEMMA InitIsRead == PolicyInit => PolicyInv
  BY DEF PolicyInit, PolicyInv, NoListSkippedSilently, Unread

LEMMA ExplainIsHonest ==
    ASSUME PolicyInv, NEW g \in Group, NEW d \in Domain, Explain(g, d)
    PROVE  PolicyInv'
  <1>1. /\ stage = "lists" /\ left = {} /\ stage' = "done"
        /\ UNCHANGED <<now, active, config, left, lists, notes>>
    BY DEF Explain
  <1>2. NoListSkippedSilently'
    <2> SUFFICES ASSUME answer' # NoAnswer, answer'.reason = "default",
                        NEW s \in SourcesFor(config, answer'.group)
                 PROVE  s \in notes \/ (lists[s] # NoArtifact /\ ~Blocks(lists[s], answer'.domain))
      BY <1>1 DEF NoListSkippedSilently
    <2>1. answer' = [group |-> g, domain |-> d, reason |-> Decide(config, lists, g, d, now)]
          /\ g \in Ids(config.groups)
      BY DEF Explain
    <2>2. answer'.group = g /\ answer'.domain = d /\ Decide(config, lists, g, d, now) = "default"
      BY <2>1
    <2>3. ListedBy(config, lists, g, d) = {}
      <3>1. "blocklist" \notin Matching(config, lists, g, d, now)
        BY <2>2, FirstLayer
      <3> QED
        BY <3>1 DEF Matching
    <2>4. config # Unreadable
      BY <1>1 DEF PolicyInv
    <2>5. s \in Ids(config.sources) /\ s \in SourcesFor(config, g)
      BY <2>2, <2>4, SourcesAreConfigured DEF PolicyInv
    <2>6. Read(s)
      BY <1>1, <2>4, <2>5 DEF PolicyInv
    <2> QED
      BY <2>2, <2>3, <2>5, <2>6, BlockedIsListed DEF Read, ListedBy
  <1> QED
    BY <1>1, <1>2 DEF PolicyInv, Read

LEMMA NextIsRead == PolicyInv /\ [PolicyNext]_policyVars => PolicyInv'
  <1> SUFFICES ASSUME PolicyInv, [PolicyNext]_policyVars PROVE PolicyInv'
    OBVIOUS
  <1> USE DEF PolicyInv, Read, NoListSkippedSilently
  <1>1. CASE Tick
    <2>1. now \in Int /\ now' \in Int /\ now <= now' /\ now' \in Nat
      BY <1>1 DEF Tick
    <2>2. config # Unreadable => ~HasErrors(config, now')
      BY <2>1, ErrorsOnlyExpire
    <2> QED
      BY <1>1, <2>1, <2>2 DEF Tick
  <1>2. ASSUME NEW s \in StoredSource, Switch(s) PROVE PolicyInv'
    BY <1>2 DEF Switch
  <1>3. CASE Load
    BY <1>3, PolicyAssumption DEF Load, Accepts
  <1>4. ASSUME NEW s \in StoredSource, ReadList(s) PROVE PolicyInv'
    <2>1. CASE active[s] \in Lists
      <3>1. active[s] # NoArtifact /\ active[s] \in SUBSET Scope
        BY <2>1, PolicyAssumption
      <3>2. /\ stage = "lists" /\ lists' = [lists EXCEPT ![s] = active[s]] /\ left' = left \ {s}
            /\ UNCHANGED <<now, active, stage, config, notes, answer>>
        BY <1>4, <2>1 DEF ReadList
      <3>3. lists'[s] = active[s] /\ \A q \in StoredSource \ {s} : lists'[q] = lists[q]
        BY <3>2
      <3>4. \A q : q # s => lists'[q] = lists[q]
        BY <3>2
      <3>5. \A q \in Ids(config.sources) \ left' : config # Unreadable => Read(q)'
        BY <3>1, <3>2, <3>3, <3>4
      <3> QED
        BY <3>2, <3>5
    <2>2. CASE active[s] \notin Lists
      BY <1>4, <2>2 DEF ReadList
    <2> QED
      BY <2>1, <2>2
  <1>5. CASE NoStore
    BY <1>5 DEF NoStore
  <1>6. ASSUME NEW g \in Group, NEW d \in Domain, Explain(g, d) PROVE PolicyInv'
    BY <1>6, ExplainIsHonest
  <1>7. CASE Exit
    BY <1>7 DEF Exit, Unread
  <1>8. CASE UNCHANGED policyVars
    BY <1>8 DEF policyVars
  <1> QED
    BY <1>1, <1>2, <1>3, <1>4, <1>5, <1>6, <1>7, <1>8 DEF PolicyNext

\* A configuration in use has no error, and each of its sources was read or is
\* reported, whatever is switched and however long it takes.
THEOREM ReadOrReported == PolicySpec => []PolicyInv
  <1> QED
    BY InitIsRead, NextIsRead, PTL DEF PolicySpec

\* For every configuration and every clock: what was accepted stays acceptable
\* (check_filtering_config at the time of loading).
THEOREM AcceptanceLasts == PolicySpec => []AcceptedForGood
  <1>1. PolicyInv => AcceptedForGood
    BY DEF PolicyInv, AcceptedForGood
  <1> QED
    BY <1>1, ReadOrReported, PTL

\* "default" is never said over a list that was left out without a note
\* (_policy_explain).
THEOREM SilenceIsNoted == PolicySpec => []NoListSkippedSilently
  <1>1. PolicyInv => NoListSkippedSilently
    BY DEF PolicyInv
  <1> QED
    BY <1>1, ReadOrReported, PTL

\* The deny rules of an accepted configuration spare what the protected domains
\* stand for at every later time, for every tree of names (check_filtering_config).
THEOREM DenyIsHarmless == PolicySpec => []DenySparesProtected
  <1>1. ASSUME PolicyInv PROVE DenySparesProtected
    <2> SUFFICES ASSUME config # Unreadable, NEW p \in Ran(config.protected),
                        NEW d \in Domain, NEW g \in Ids(config.groups)
                 PROVE  /\ Covers(p, d) => ~DomainRuleHits(config.deny, g, d, now)
                        /\ ~RegexHits(config, "deny", g, p.domain, now)
      BY DEF DenySparesProtected
    <2>1. config \in Configurations /\ ~Threatens(config, now) /\ p \in Scope
      BY <1>1, ConfigurationsAssumption DEF PolicyInv, HasErrors, Typed
    <2>2. ASSUME Covers(p, d), NEW r \in Ran(config.deny), Applies(r, g, now), Covers(r.scope, d)
          PROVE  FALSE
      <3>1. r.scope \in Scope
        BY <2>1, ConfigurationsAssumption DEF Typed
      <3>2. Covers(r.scope, p.domain) \/ Covers(p, r.scope.domain)
        BY <2>1, <2>2, <3>1, CoverEachOther
      <3> QED
        BY <2>1, <2>2, <3>2 DEF Threatens, Applies
    <2>3. ~RegexHits(config, "deny", g, p.domain, now)
      BY <2>1 DEF Threatens, RegexHits, Applies
    <2> QED
      BY <2>2, <2>3 DEF DomainRuleHits
  <1> QED
    BY <1>1, ReadOrReported, PTL

\* Time turns a verdict to blocked only where an allow rule or pattern expires
\* (is_active, decide).
THEOREM OnlyExpiryBlocks == PolicySpec => OnlyExpiryOfAllowBlocks
  <1> DEFINE Turns ==
        config # Unreadable /\ now' # now =>
          \A g \in Ids(config.groups), d \in Domain :
              ~Blocked(Decide(config, lists, g, d, now)) /\ Blocked(Decide(config, lists, g, d, now'))
                => \/ DomainRuleHits(config.allow, g, d, now)
                   \/ RegexHits(config, "allow", g, d, now)
  <1>1. ASSUME PolicyInv, [PolicyNext]_policyVars, config # Unreadable, now' # now,
               NEW g, NEW d, ~Blocked(Decide(config, lists, g, d, now)),
               Blocked(Decide(config, lists, g, d, now'))
        PROVE  DomainRuleHits(config.allow, g, d, now) \/ RegexHits(config, "allow", g, d, now)
    <2> DEFINE M == Matching(config, lists, g, d, now)
               N == Matching(config, lists, g, d, now')
    <2>1. Tick
      BY <1>1 DEF PolicyNext, Load, NoStore, Exit, Switch, ReadList, Explain, policyVars
    <2>2. now \in Int /\ now' \in Int /\ now <= now' /\ config \in Configurations
      BY <1>1, <2>1 DEF Tick, PolicyInv
    <2>3. "protected" \notin N /\ N \cap {"deny_rule", "deny_regex", "blocklist"} # {}
      BY <1>1, FirstLayer
    <2>4. "protected" \notin M /\ M \cap {"deny_rule", "deny_regex", "blocklist"} # {}
      <3>1. DomainRuleHits(config.deny, g, d, now') => DomainRuleHits(config.deny, g, d, now)
        BY <2>2, HitsBefore
      <3>2. RegexHits(config, "deny", g, d, now') => RegexHits(config, "deny", g, d, now)
        BY <2>2, HitsBefore
      <3> QED
        BY <2>3, <3>1, <3>2 DEF Matching
    <2>5. M \cap {"protected", "allow_rule", "allow_regex"} # {}
      BY <1>1, <2>4, FirstLayer
    <2> QED
      BY <2>4, <2>5 DEF Matching
  <1>2. PolicyInv /\ [PolicyNext]_policyVars => [Turns]_policyVars
    BY <1>1
  <1> QED
    BY <1>2, ReadOrReported, PTL DEF PolicySpec, OnlyExpiryOfAllowBlocks
=============================================================================
