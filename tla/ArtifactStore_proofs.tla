------------------------ MODULE ArtifactStore_proofs ------------------------
(***************************************************************************)
(* Theorems about ArtifactStore, for any set of hashes, any number of      *)
(* commands and any number of interruptions, when the commands are run one *)
(* after the other (Serialized).                                           *)
(***************************************************************************)
EXTENDS ArtifactStore, TLAPS

Listed == {"write_txt", "rename_txt", "write_json", "rename_json", "verify",
           "switch"}
Written == {"write_json", "rename_json", "verify", "switch"}
RollingBack == {"rollback_verify", "rollback_switch"}

\* At most one command is running.
Exclusive ==
    \A p, q \in Process : pc[p] # "idle" /\ pc[q] # "idle" => p = q

\* The temporary file the command itself is about to rename.
Own(p) == {f \in Sha \X Ext :
              /\ f[1] = target[p]
              /\ \/ pc[p] = "rename_txt" /\ f[2] = "txt.tmp"
                 \/ pc[p] = "rename_json" /\ f[2] = "json.tmp"}

\* A running command's view of the directory is the directory itself.
ViewCurrent(p) ==
    pc[p] \notin {"idle", "prune"} => before[p] = state

\* What an activation needs at each of its steps for the next ones to be safe.
ActivationSafe(p) ==
    /\ pc[p] \in Activating => target[p] # state.current
    /\ pc[p] \in Written => <<target[p], "txt">> \in disk
    /\ pc[p] = "switch" => target[p] \notin rotten
    /\ pc[p] \in Listed
          => /\ \A f \in doomed[p] :
                   f[2] = "txt" => f[1] \notin retained(Activated(state, target[p]))
             /\ Unreferenced(disk, Activated(state, target[p]))
                   \subseteq doomed[p] \cup Own(p)

RollbackSafe(p) ==
    /\ pc[p] \in RollingBack => state.previous # NoSha
    /\ pc[p] = "rollback_switch" => state.previous \notin rotten

\* What is still to be deleted is named by no pointer, and nothing else is
\* left that no pointer names.
PruneSafe(p) ==
    pc[p] = "prune"
       => /\ \A f \in doomed[p] : f[2] = "txt" => f[1] \notin retained(state)
          /\ Unreferenced(disk, state) \subseteq doomed[p] \cup skipped[p]

IInv ==
    /\ TypeOK
    /\ ReferencedArtifactsPresent
    /\ Exclusive
    /\ \A p \in Process : /\ ViewCurrent(p)
                          /\ ActivationSafe(p)
                          /\ RollbackSafe(p)
                          /\ PruneSafe(p)

-----------------------------------------------------------------------------
(* The type invariant.                                                      *)

LEMMA EmptyIsState == Empty \in SourceState
  BY DEF Empty, SourceState

LEMMA StepTypeOK ==
  ASSUME TypeOK, NEW p \in Process, Step(p)
  PROVE  TypeOK'
<1> USE StoreAssumption, EmptyIsState DEF TypeOK, Goto, Return, local, Label, Activating, Ext, TempExt
<1>1. ASSUME NEW s \in Sha, BeginActivate(p, s) PROVE TypeOK'
  BY <1>1 DEF BeginActivate
<1>2. CASE ListForActivate(p)
  BY <1>2 DEF ListForActivate, prunable
<1>3. CASE WriteText(p)
  BY <1>3 DEF WriteText, WriteTemp
<1>4. CASE RenameText(p)
  BY <1>4 DEF RenameText
<1>5. CASE WriteMeta(p)
  BY <1>5 DEF WriteMeta, WriteTemp
<1>6. CASE RenameMeta(p)
  BY <1>6 DEF RenameMeta
<1>7. CASE VerifyWritten(p)
  BY <1>7 DEF VerifyWritten
<1>8. CASE SwitchToTarget(p)
  BY <1>8 DEF SwitchToTarget, Activated, SourceState
<1>9. CASE FinishPrune(p)
  BY <1>9 DEF FinishPrune
<1>10. CASE BeginRollback(p)
  BY <1>10 DEF BeginRollback
<1>11. CASE VerifyPrevious(p)
  BY <1>11 DEF VerifyPrevious
<1>12. CASE SwitchToPrevious(p)
  BY <1>12 DEF SwitchToPrevious, RolledBack, SourceState
<1>13. CASE BeginReconcile(p)
  BY <1>13 DEF BeginReconcile
<1>14. CASE ListForReconcile(p)
  BY <1>14 DEF ListForReconcile, prunable
<1>15. CASE Refuse(p)
  BY <1>15 DEF Refuse
<1>16. CASE Abort(p)
  BY <1>16 DEF Abort, Fail
<1>17. ASSUME NEW f \in doomed[p], PruneOne(p, f) PROVE TypeOK'
  BY <1>17 DEF PruneOne, Fail
<1> QED
  BY <1>1, <1>2, <1>3, <1>4, <1>5, <1>6, <1>7, <1>8, <1>9, <1>10, <1>11, <1>12, <1>13, <1>14, <1>15, <1>16, <1>17 DEF Step

\* Every reachable state of the store is well typed.
THEOREM StoreTypeCorrect == Spec => []TypeOK
<1>1. Init => TypeOK
  BY StoreAssumption, EmptyIsState DEF Init, TypeOK, Label, Activating
<1>2. TypeOK /\ [Next]_vars => TypeOK'
  <2> SUFFICES ASSUME TypeOK, [Next]_vars PROVE TypeOK'
    OBVIOUS
  <2>1. ASSUME NEW p \in Process, Step(p) PROVE TypeOK'
    BY <2>1, StepTypeOK
  <2>2. ASSUME NEW s \in Sha, Rot(s) PROVE TypeOK'
    BY <2>2 DEF Rot, TypeOK, local
  <2>3. CASE UNCHANGED vars
    BY <2>3 DEF vars, TypeOK
  <2> QED
    BY <2>1, <2>2, <2>3 DEF Next
<1> QED
  BY <1>1, <1>2, PTL DEF Spec

-----------------------------------------------------------------------------
(* The inductive invariant.                                                 *)

\* A step of one command finds and leaves every other command idle.
LEMMA OthersIdle ==
  ASSUME Serialized, IInv, NEW p \in Process, Step(p)
  PROVE  \A q \in Process \ {p} : pc[q] = "idle" /\ pc'[q] = "idle"
<1>1. \A q \in Process \ {p} : pc[q] = "idle"
  BY DEF IInv, Exclusive, Step, MayStart, BeginActivate, ListForActivate,
         WriteText, RenameText, WriteMeta, RenameMeta, WriteTemp, VerifyWritten,
         SwitchToTarget, PruneOne, FinishPrune, BeginRollback, VerifyPrevious,
         SwitchToPrevious, BeginReconcile, ListForReconcile, Refuse, CanGoOn,
         Abort
<1>2. \A q \in Process \ {p} : pc'[q] = pc[q]
  BY DEF IInv, TypeOK, Goto, Return, Step, BeginActivate, ListForActivate,
         WriteText, RenameText, WriteMeta, RenameMeta, WriteTemp, VerifyWritten,
         SwitchToTarget, PruneOne, FinishPrune, BeginRollback, VerifyPrevious,
         SwitchToPrevious, BeginReconcile, ListForReconcile, Refuse, Abort
<1> QED
  BY <1>1, <1>2

\* So a step need only be shown to keep what concerns the command taking it.
LEMMA OwnPartSuffices ==
  ASSUME Serialized, IInv, NEW p \in Process, Step(p),
         ReferencedArtifactsPresent',
         ViewCurrent(p)', ActivationSafe(p)', RollbackSafe(p)', PruneSafe(p)'
  PROVE  IInv'
<1>1. TypeOK'
  BY StepTypeOK DEF IInv
<1>2. \A q \in Process \ {p} : pc'[q] = "idle"
  BY OthersIdle
<1>3. Exclusive'
  BY <1>2 DEF Exclusive
<1>4. ASSUME NEW q \in Process \ {p}
      PROVE  /\ ViewCurrent(q)' /\ ActivationSafe(q)'
             /\ RollbackSafe(q)' /\ PruneSafe(q)'
  BY <1>2 DEF ViewCurrent, ActivationSafe, RollbackSafe, PruneSafe, Listed,
              Written, RollingBack, Activating
<1> QED
  BY <1>1, <1>3, <1>4 DEF IInv

\* A file is the pair of its hash and its extension.
LEMMA Pairs == \A f \in Sha \X Ext : f = <<f[1], f[2]>> /\ f[1] \in Sha /\ f[2] \in Ext
  OBVIOUS

LEMMA StepIInv ==
  ASSUME Serialized, IInv, NEW p \in Process, Step(p)
  PROVE  IInv'
<1> USE DEF Goto, Return, local
<1>0. /\ TypeOK /\ ReferencedArtifactsPresent
      /\ ViewCurrent(p) /\ ActivationSafe(p) /\ RollbackSafe(p) /\ PruneSafe(p)
  BY DEF IInv
<1> USE <1>0 DEF TypeOK
<1> USE DEF ReferencedArtifactsPresent, ViewCurrent, ActivationSafe,
            RollbackSafe, PruneSafe, Listed, Written, RollingBack, Activating
<1>1. ASSUME NEW s \in Sha, BeginActivate(p, s) PROVE IInv'
  BY <1>1, OwnPartSuffices DEF BeginActivate
<1>2. CASE ListForActivate(p)
  <2>1. ReferencedArtifactsPresent'
    BY <1>2 DEF ListForActivate
  <2>2. ViewCurrent(p)'
    BY <1>2 DEF ListForActivate
  <2>3. ActivationSafe(p)'
    <3>1. /\ target'[p] = target[p] /\ state' = state /\ before[p] = state
          /\ doomed'[p] = prunable(retained(Activated(state, target[p])))
          /\ pc'[p] \in {"write_json", "write_txt"} /\ disk' = disk
      BY <1>2 DEF ListForActivate
    <3>2. \A f \in doomed'[p] :
             f[2] = "txt" => f[1] \notin retained(Activated(state, target[p]))
      BY <3>1 DEF prunable, TempExt
    <3>3. Unreferenced(disk, Activated(state, target[p])) \subseteq doomed'[p]
      BY <3>1 DEF prunable, Unreferenced
    <3>4. pc'[p] = "write_json" => <<target[p], "txt">> \in disk
      BY <1>2 DEF ListForActivate
    <3> QED
      BY <1>2, <3>1, <3>2, <3>3, <3>4 DEF ListForActivate
  <2>4. RollbackSafe(p)'
    BY <1>2 DEF ListForActivate
  <2>5. PruneSafe(p)'
    BY <1>2, Pairs DEF ListForActivate
  <2> QED
    BY <2>1, <2>2, <2>3, <2>4, <2>5, OwnPartSuffices
<1>3. CASE WriteText(p)
  <2>1. ReferencedArtifactsPresent'
    BY <1>3 DEF WriteText, WriteTemp
  <2>2. ViewCurrent(p)'
    BY <1>3 DEF WriteText, WriteTemp
  <2>3. ActivationSafe(p)'
    <3>1. /\ target' = target /\ state' = state /\ doomed' = doomed
          /\ rotten' \subseteq rotten /\ pc[p] = "write_txt" /\ pc'[p] = "rename_txt"
      BY <1>3 DEF WriteText, WriteTemp
    <3>2. Unreferenced(disk', Activated(state, target[p]))
             \subseteq doomed[p] \cup Own(p)'
      BY <1>3, <3>1, Pairs DEF WriteText, WriteTemp, Unreferenced, Own, Ext, TempExt, Activated, retained
    <3>3. pc'[p] \in Written => <<target[p], "txt">> \in disk'
      BY <1>3, <3>1 DEF WriteText, WriteTemp
    <3> QED
      BY <3>1, <3>2, <3>3
  <2>4. RollbackSafe(p)'
    BY <1>3 DEF WriteText, WriteTemp
  <2>5. PruneSafe(p)'
    BY <1>3, Pairs DEF WriteText, WriteTemp
  <2> QED
    BY <2>1, <2>2, <2>3, <2>4, <2>5, OwnPartSuffices
<1>4. CASE RenameText(p)
  <2>1. ReferencedArtifactsPresent'
    BY <1>4 DEF RenameText
  <2>2. ViewCurrent(p)'
    BY <1>4 DEF RenameText
  <2>3. ActivationSafe(p)'
    <3>1. /\ target' = target /\ state' = state /\ doomed' = doomed
          /\ rotten' \subseteq rotten /\ pc[p] = "rename_txt" /\ pc'[p] = "write_json"
      BY <1>4 DEF RenameText
    <3>2. Unreferenced(disk', Activated(state, target[p]))
             \subseteq doomed[p] \cup Own(p)'
      <4> SUFFICES ASSUME NEW f \in Unreferenced(disk', Activated(state, target[p]))
                   PROVE  f \in doomed[p]
        OBVIOUS
      <4>1. f # <<target[p], "txt">>
        BY StoreAssumption, <3>1 DEF Unreferenced, Activated, retained, TempExt
      <4>2. f \in disk /\ f # <<target[p], "txt.tmp">>
        BY <1>4, <4>1 DEF RenameText, Unreferenced
      <4>3. f \in doomed[p] \cup Own(p)
        BY <3>1, <4>2 DEF Unreferenced
      <4>4. f \notin Own(p)
        BY <3>1, <4>2, Pairs DEF Own
      <4> QED
        BY <4>3, <4>4
    <3>3. pc'[p] \in Written => <<target[p], "txt">> \in disk'
      BY <1>4, <3>1 DEF RenameText
    <3> QED
      BY <3>1, <3>2, <3>3
  <2>4. RollbackSafe(p)'
    BY <1>4 DEF RenameText
  <2>5. PruneSafe(p)'
    BY <1>4, Pairs DEF RenameText
  <2> QED
    BY <2>1, <2>2, <2>3, <2>4, <2>5, OwnPartSuffices
<1>5. CASE WriteMeta(p)
  <2>1. ReferencedArtifactsPresent'
    BY <1>5 DEF WriteMeta, WriteTemp
  <2>2. ViewCurrent(p)'
    BY <1>5 DEF WriteMeta, WriteTemp
  <2>3. ActivationSafe(p)'
    <3>1. /\ target' = target /\ state' = state /\ doomed' = doomed
          /\ rotten' \subseteq rotten /\ pc[p] = "write_json" /\ pc'[p] = "rename_json"
      BY <1>5 DEF WriteMeta, WriteTemp
    <3>2. Unreferenced(disk', Activated(state, target[p]))
             \subseteq doomed[p] \cup Own(p)'
      BY <1>5, <3>1, Pairs DEF WriteMeta, WriteTemp, Unreferenced, Own, Ext, TempExt, Activated, retained
    <3>3. pc'[p] \in Written => <<target[p], "txt">> \in disk'
      BY <1>5, <3>1 DEF WriteMeta, WriteTemp
    <3> QED
      BY <3>1, <3>2, <3>3
  <2>4. RollbackSafe(p)'
    BY <1>5 DEF WriteMeta, WriteTemp
  <2>5. PruneSafe(p)'
    BY <1>5, Pairs DEF WriteMeta, WriteTemp
  <2> QED
    BY <2>1, <2>2, <2>3, <2>4, <2>5, OwnPartSuffices
<1>6. CASE RenameMeta(p)
  <2>1. ReferencedArtifactsPresent'
    BY <1>6 DEF RenameMeta
  <2>2. ViewCurrent(p)'
    BY <1>6 DEF RenameMeta
  <2>3. ActivationSafe(p)'
    <3>1. /\ target' = target /\ state' = state /\ doomed' = doomed
          /\ rotten' \subseteq rotten /\ pc[p] = "rename_json" /\ pc'[p] = "verify"
      BY <1>6 DEF RenameMeta
    <3>2. Unreferenced(disk', Activated(state, target[p]))
             \subseteq doomed[p] \cup Own(p)'
      <4> SUFFICES ASSUME NEW f \in Unreferenced(disk', Activated(state, target[p]))
                   PROVE  f \in doomed[p]
        OBVIOUS
      <4>1. f # <<target[p], "json">>
        BY StoreAssumption, <3>1 DEF Unreferenced, Activated, retained, TempExt
      <4>2. f \in disk /\ f # <<target[p], "json.tmp">>
        BY <1>6, <4>1 DEF RenameMeta, Unreferenced
      <4>3. f \in doomed[p] \cup Own(p)
        BY <3>1, <4>2 DEF Unreferenced
      <4>4. f \notin Own(p)
        BY <3>1, <4>2, Pairs DEF Own
      <4> QED
        BY <4>3, <4>4
    <3>3. pc'[p] \in Written => <<target[p], "txt">> \in disk'
      BY <1>6, <3>1 DEF RenameMeta
    <3> QED
      BY <3>1, <3>2, <3>3
  <2>4. RollbackSafe(p)'
    BY <1>6 DEF RenameMeta
  <2>5. PruneSafe(p)'
    BY <1>6, Pairs DEF RenameMeta
  <2> QED
    BY <2>1, <2>2, <2>3, <2>4, <2>5, OwnPartSuffices
<1>7. CASE VerifyWritten(p)
  BY <1>7, OwnPartSuffices DEF VerifyWritten, Unreferenced, Own, Readable
<1>8. CASE SwitchToTarget(p)
  BY <1>8, OwnPartSuffices DEF SwitchToTarget, Unreferenced, Own, Activated, retained
<1>9. ASSUME NEW f \in doomed[p], PruneOne(p, f) PROVE IInv'
  <2>1. ReferencedArtifactsPresent'
    <3>1. ASSUME NEW s \in retained(state), f = <<s, "txt">> PROVE FALSE
      BY <1>9, <3>1 DEF PruneOne
    <3> QED
      BY <1>9, <3>1 DEF PruneOne
  <2>2. ViewCurrent(p)'
    BY <1>9 DEF PruneOne
  <2>3. ActivationSafe(p)'
    BY <1>9, Pairs DEF PruneOne
  <2>4. RollbackSafe(p)'
    BY <1>9 DEF PruneOne
  <2>5. PruneSafe(p)'
    BY <1>9, Pairs DEF PruneOne, Unreferenced, Fail
  <2> QED
    BY <2>1, <2>2, <2>3, <2>4, <2>5, OwnPartSuffices
<1>10. CASE FinishPrune(p)
  BY <1>10, OwnPartSuffices DEF FinishPrune
<1>11. CASE BeginRollback(p)
  BY <1>11, OwnPartSuffices DEF BeginRollback
<1>12. CASE VerifyPrevious(p)
  BY <1>12, OwnPartSuffices DEF VerifyPrevious, Readable
<1>13. CASE SwitchToPrevious(p)
  BY <1>13, OwnPartSuffices DEF SwitchToPrevious, RolledBack, retained
<1>14. CASE BeginReconcile(p)
  BY <1>14, OwnPartSuffices DEF BeginReconcile
<1>15. CASE ListForReconcile(p)
  <2>1. ReferencedArtifactsPresent'
    BY <1>15 DEF ListForReconcile
  <2>2. ViewCurrent(p)'
    BY <1>15 DEF ListForReconcile
  <2>3. ActivationSafe(p)'
    BY <1>15, Pairs DEF ListForReconcile
  <2>4. RollbackSafe(p)'
    BY <1>15 DEF ListForReconcile
  <2>5. PruneSafe(p)'
    BY <1>15, Pairs DEF ListForReconcile, prunable, Unreferenced, TempExt
  <2> QED
    BY <2>1, <2>2, <2>3, <2>4, <2>5, OwnPartSuffices
<1>16. CASE Refuse(p)
  BY <1>16, OwnPartSuffices DEF Refuse
<1>17. CASE Abort(p)
  BY <1>17, OwnPartSuffices DEF Abort, Fail
<1> QED
  BY <1>1, <1>2, <1>3, <1>4, <1>5, <1>6, <1>7, <1>8, <1>9, <1>10, <1>11, <1>12, <1>13, <1>14, <1>15, <1>16, <1>17 DEF Step

LEMMA StoreInductive == ASSUME Serialized PROVE Spec => []IInv
<1>1. Init => IInv
  BY StoreAssumption, EmptyIsState
     DEF Init, IInv, TypeOK, Label, Activating, ReferencedArtifactsPresent,
         retained, Empty, Exclusive, ViewCurrent, ActivationSafe, RollbackSafe,
         PruneSafe, Listed, Written, RollingBack
<1>2. IInv /\ [Next]_vars => IInv'
  <2> SUFFICES ASSUME IInv, [Next]_vars PROVE IInv'
    OBVIOUS
  <2>1. ASSUME NEW p \in Process, Step(p) PROVE IInv'
    BY <2>1, StepIInv
  <2>2. ASSUME NEW s \in Sha, Rot(s) PROVE IInv'
    BY <2>2 DEF Rot, IInv, TypeOK, local, ReferencedArtifactsPresent,
                Exclusive, ViewCurrent, ActivationSafe, RollbackSafe,
                PruneSafe, Listed, Written, RollingBack, Activating
  <2>3. CASE UNCHANGED vars
    BY <2>3 DEF vars, IInv, TypeOK, ReferencedArtifactsPresent, Exclusive,
                ViewCurrent, ActivationSafe, RollbackSafe, PruneSafe, Own
  <2> QED
    BY <2>1, <2>2, <2>3 DEF Next
<1> QED
  BY <1>1, <1>2, PTL DEF Spec

-----------------------------------------------------------------------------
(* The properties the runs check.                                           *)

\* Whatever is interrupted wherever, each version that state.json names has
\* its list on disk.
THEOREM NothingReferencedIsLost ==
  ASSUME Serialized PROVE Spec => []ReferencedArtifactsPresent
BY StoreInductive, PTL DEF IInv

\* The current pointer only ever moves to a list that hashes to its name.
THEOREM OnlyIntactBecomesCurrent ==
  ASSUME Serialized PROVE Spec => SwitchOnlyToIntact
<1>1. IInv /\ [Next]_vars => [state' # state => Readable(state'.current)]_vars
  <2> SUFFICES ASSUME IInv, Next, state' # state
               PROVE  Readable(state'.current)
    BY DEF vars
  <2>1. PICK p \in Process : SwitchToTarget(p) \/ SwitchToPrevious(p)
    BY DEF Next, Step, Rot, BeginActivate, ListForActivate, WriteText,
           RenameText, WriteMeta, RenameMeta, WriteTemp, VerifyWritten,
           PruneOne, FinishPrune, BeginRollback, VerifyPrevious,
           BeginReconcile, ListForReconcile, Refuse, Abort
  <2>2. CASE SwitchToTarget(p)
    BY <2>2 DEF SwitchToTarget, Activated, IInv, ActivationSafe, Written, Readable
  <2>3. CASE SwitchToPrevious(p)
    BY <2>3 DEF SwitchToPrevious, RolledBack, IInv, ViewCurrent, RollbackSafe,
                RollingBack, ReferencedArtifactsPresent, retained, Readable
  <2> QED
    BY <2>1, <2>2, <2>3
<1> QED
  BY <1>1, StoreInductive, PTL DEF Spec, SwitchOnlyToIntact

\* A command that finishes its pruning leaves no unreferenced file, except
\* those it could not unlink.
THEOREM FinishedPruneIsComplete ==
  ASSUME Serialized PROVE Spec => PruneLeavesNoOrphan
<1> DEFINE Clean ==
      \A p \in Process :
         pc[p] = "prune" /\ doomed[p] = {} /\ pc'[p] = "idle"
            => Unreferenced(disk', state') \subseteq skipped[p]
<1>1. IInv /\ [Next]_vars => [Clean]_vars
  <2> SUFFICES ASSUME IInv, Next, NEW p \in Process,
                      pc[p] = "prune", doomed[p] = {}, pc'[p] = "idle"
               PROVE  Unreferenced(disk', state') \subseteq skipped[p]
    OBVIOUS
  <2>1. disk' = disk /\ state' = state
    <3>1. PICK q \in Process : Step(q)
      BY DEF Next, Rot
    <3>2. q = p
      BY <3>1, OthersIdle
    <3>3. FinishPrune(p) \/ Abort(p)
      BY <3>1, <3>2 DEF Step, MayStart, BeginActivate, ListForActivate,
         WriteText, RenameText, WriteMeta, RenameMeta, WriteTemp, VerifyWritten,
         SwitchToTarget, PruneOne, BeginRollback, VerifyPrevious,
         SwitchToPrevious, BeginReconcile, ListForReconcile, Refuse, CanGoOn
    <3> QED
      BY <3>3 DEF FinishPrune, Abort
  <2>2. Unreferenced(disk, state) \subseteq skipped[p]
    BY DEF IInv, PruneSafe
  <2> QED
    BY <2>1, <2>2
<1> QED
  BY <1>1, StoreInductive, PTL DEF Spec, PruneLeavesNoOrphan

\* The store implements VersionStore: each step of a command is one atomic
\* move of the pointers, a change of the stored lists that no pointer names,
\* or invisible.
THEOREM StoreImplementsVersionStore ==
  ASSUME Serialized PROVE Spec => ImplementsVersionStore
<1> DEFINE held == {s \in Sha : <<s, "txt">> \in disk}
<1>1. Init => Abstract!Init
  BY DEF Init, Empty, Abstract!Init
<1>2. IInv /\ [Next]_vars => [Abstract!Next]_<<state, held>>
  <2> SUFFICES ASSUME IInv, Next,
                      ~ (state' = state /\ held' = held)
               PROVE  Abstract!Next
    BY DEF vars
  <2> USE DEF IInv, TypeOK
  <2>1. PICK p \in Process : Step(p)
    BY DEF Next, Rot
  <2>2. \/ RenameText(p) \/ SwitchToTarget(p) \/ SwitchToPrevious(p)
        \/ \E f \in doomed[p] : PruneOne(p, f)
        \/ WriteText(p) \/ WriteMeta(p) \/ RenameMeta(p)
    BY <2>1 DEF Step, BeginActivate, ListForActivate, VerifyWritten,
       FinishPrune, BeginRollback, VerifyPrevious, BeginReconcile,
       ListForReconcile, Refuse, Abort
  <2>3. CASE RenameText(p)
    <3>1. held' = held \cup {target[p]} /\ state' = state /\ target[p] \in Sha
      BY <2>3 DEF RenameText, Activating
    <3> QED
      BY <3>1 DEF Abstract!Next, Abstract!Store
  <2>4. CASE WriteText(p) \/ WriteMeta(p) \/ RenameMeta(p)
    BY <2>4 DEF WriteText, WriteMeta, WriteTemp, RenameMeta
  <2>5. CASE SwitchToTarget(p)
    <3>1. /\ target[p] \in held /\ target[p] # state.current /\ held' = held
          /\ state' = Activated(state, target[p])
      BY <2>5 DEF SwitchToTarget, ViewCurrent, ActivationSafe, Written, Activating
    <3> QED
      BY <3>1 DEF Activated, Abstract!Next, Abstract!Activate
  <2>6. CASE SwitchToPrevious(p)
    <3>1. state.previous # NoSha /\ held' = held /\ state' = RolledBack(state)
      BY <2>6 DEF SwitchToPrevious, ViewCurrent, RollbackSafe, RollingBack
    <3> QED
      BY <3>1 DEF RolledBack, Abstract!Next, Abstract!Rollback
  <2>7. ASSUME NEW f \in doomed[p], PruneOne(p, f) PROVE Abstract!Next
    <3>1. PICK s \in Sha : f = <<s, "txt">>
      <4>1. f \in Sha \X Ext
        OBVIOUS
      <4> QED
        BY <2>7, <4>1, Pairs DEF PruneOne
    <3>2. held' = held \ {s} /\ state' = state
      BY <2>7, <3>1 DEF PruneOne
    <3>3. s \notin retained(state)
      BY <2>7, <3>1 DEF PruneOne, PruneSafe
    <3> QED
      BY <3>2, <3>3 DEF Abstract!Next, Abstract!Discard, Abstract!Retained, retained
  <2> QED
    BY <2>2, <2>3, <2>4, <2>5, <2>6, <2>7
<1> QED
  BY <1>1, <1>2, StoreInductive, PTL DEF Spec, ImplementsVersionStore, Abstract!Spec
=============================================================================
