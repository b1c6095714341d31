--------------------------- MODULE Backups_proofs ---------------------------
(***************************************************************************)
(* Proofs of the properties of Backups, for any number of processes,       *)
(* files, backups and failures.                                            *)
(***************************************************************************)
EXTENDS Backups, FiniteSetTheorems, TLAPS

Stage == {"idle", "snapshot", "hash", "copy", "manifest", "publish", "reclaim", "sweep", "list",
          "remove", "restore"}
Command ==
    [pc: Stage, since: Stamp, at: Stamp, hashes: Hashes, todo: SUBSET Item, limit: Nat \ {0},
     doomed: SUBSET Stamp]

\* The database is never restored, and only a removal has something to remove.
TypeOK ==
    /\ now \in First..MaxTime
    /\ current \in [Item -> Content] /\ current[Database] \in Version
    /\ dirs \in [Stamp -> Directory \cup {None}] /\ tmp \in [Stamp -> Directory \cup {None}]
    /\ snapshots \in [Stamp -> Version \cup {Broken, None}]
    /\ cmd \in [Process -> Command]
    /\ \A p \in Process :
          /\ cmd[p].pc = "restore" => cmd[p].todo \subseteq File
          /\ cmd[p].pc # "remove" => cmd[p].doomed = {}

\* The steps of no command.
Environment ==
    Tick \/ Commit \/ (\E i \in File : Edit(i)) \/ (\E s \in Stamp : Rot(s)) \/ UNCHANGED vars

HistoryOK == failures \in Nat /\ reused \subseteq Stamp

-----------------------------------------------------------------------------
(* Types.                                                                  *)

LEMMA ItemFacts ==
    /\ Database \in Item /\ File \subseteq Item /\ \A i \in File : i # Database
    /\ Version \subseteq Content /\ Missing \in Content /\ Broken \in Content
    /\ Missing \notin Version \cup {Broken} /\ None \notin Version \cup {Broken}
    /\ Broken \notin Version
  BY BackupAssumption DEF Item, Version, Content

LEMMA StampFacts == First \in Stamp /\ First..MaxTime \subseteq Stamp /\ Stamp \subseteq Int
  BY BackupAssumption DEF Stamp

LEMMA IdleFacts ==
    /\ Idle \in Command /\ Idle.pc = "idle" /\ Idle.doomed = {} /\ Idle.todo = {}
    /\ NoHashes \in Hashes /\ EmptyDir \in Directory
  BY ItemFacts, StampFacts, BackupAssumption DEF Idle, Command, Stage, NoHashes, Hashes, EmptyDir, Directory

\* What a step may make of one process's variables.
LEMMA CommandTypes ==
    ASSUME TypeOK, NEW p \in Process, NEW c \in Command, cmd' = [cmd EXCEPT ![p] = c],
           c.pc = "restore" => c.todo \subseteq File, c.pc # "remove" => c.doomed = {}
    PROVE  /\ cmd' \in [Process -> Command]
           /\ \A q \in Process :
                 /\ cmd'[q].pc = "restore" => cmd'[q].todo \subseteq File
                 /\ cmd'[q].pc # "remove" => cmd'[q].doomed = {}
  BY DEF TypeOK

LEMMA InitTypes == Init => TypeOK
  <1> SUFFICES ASSUME Init PROVE TypeOK
    OBVIOUS
  <1>1. 0 \in Version
    BY BackupAssumption DEF Version
  <1>2. Whole \in Directory /\ Headless \in Directory
    BY <1>1, ItemFacts DEF Whole, Headless, Directory, Hashes
  <1>3. now \in First..MaxTime
    BY BackupAssumption DEF Init
  <1>4. \A p \in Process : cmd[p] = Idle
    BY DEF Init
  <1> QED
    BY <1>1, <1>2, <1>3, <1>4, IdleFacts, ItemFacts DEF Init, TypeOK

LEMMA EnvironmentTypes ==
    ASSUME TypeOK, Environment
    PROVE  TypeOK'
  <1>1. CASE Tick
    <2>1. now' \in First..MaxTime
      BY <1>1, BackupAssumption DEF Tick, TypeOK
    <2> QED
      BY <1>1, <2>1 DEF Tick, TypeOK
  <1>2. ASSUME NEW i \in File, Edit(i)
        PROVE  TypeOK'
    <2>1. PICK c \in Version \cup {Missing} : current' = [current EXCEPT ![i] = c]
      BY <1>2 DEF Edit
    <2>2. /\ current' \in [Item -> Content]
          /\ current'[Database] \in Version
      BY <2>1, ItemFacts DEF TypeOK, Content
    <2> QED
      BY <1>2, <2>2 DEF Edit, TypeOK
  <1>5. CASE Commit
    <2>1. current[Database] + 1 \in Version
      BY <1>5, BackupAssumption DEF Commit, Version, TypeOK
    <2>2. /\ current' \in [Item -> Content]
          /\ current'[Database] \in Version
      BY <1>5, <2>1, ItemFacts DEF Commit, TypeOK
    <2> QED
      BY <1>5, <2>2 DEF Commit, TypeOK
  <1>3. ASSUME NEW s \in Stamp, Rot(s)
        PROVE  TypeOK'
    <2>1. dirs[s] \in Directory
      BY <1>3 DEF Rot, TypeOK
    <2>2. PICK d \in Directory : dirs' = [dirs EXCEPT ![s] = d]
      <3>1. CASE dirs' = [dirs EXCEPT ![s].manifest = Broken]
        <4>1. [dirs[s] EXCEPT !.manifest = Broken] \in Directory
          BY <2>1 DEF Directory
        <4> QED
          BY <3>1, <4>1
      <3>2. ASSUME NEW i \in Item, dirs' = [dirs EXCEPT ![s].copies[i] = Broken]
            PROVE  \E d \in Directory : dirs' = [dirs EXCEPT ![s] = d]
        <4>1. [dirs[s] EXCEPT !.copies[i] = Broken] \in Directory
          BY <2>1, ItemFacts DEF Directory, Hashes
        <4> QED
          BY <3>2, <4>1
      <3> QED
        BY <1>3, <3>1, <3>2 DEF Rot
    <2>3. dirs' \in [Stamp -> Directory \cup {None}]
      BY <2>2 DEF TypeOK
    <2> QED
      BY <1>3, <2>3 DEF Rot, TypeOK
  <1>4. CASE UNCHANGED vars
    BY <1>4 DEF vars, TypeOK
  <1> QED
    BY <1>1, <1>2, <1>3, <1>4, <1>5 DEF Environment

LEMMA SourceTypes ==
    ASSUME TypeOK, NEW p \in Process, NEW i \in Item
    PROVE  Source(p, i) \in Content
  <1>1. cmd[p].since \in Stamp
    BY DEF TypeOK, Command
  <1> QED
    BY <1>1, ItemFacts DEF Source, TypeOK

LEMMA LeaveTypes ==
    ASSUME TypeOK, NEW p \in Process, Leave(p)
    PROVE  /\ cmd' \in [Process -> Command]
           /\ \A q \in Process :
                 /\ cmd'[q].pc = "restore" => cmd'[q].todo \subseteq File
                 /\ cmd'[q].pc # "remove" => cmd'[q].doomed = {}
  BY IdleFacts, CommandTypes DEF Leave

LEMMA DropTypes ==
    ASSUME TypeOK, NEW p \in Process
    PROVE  /\ DropSnapshot(p) => snapshots' \in [Stamp -> Version \cup {Broken, None}]
           /\ DropTemporary(p) => tmp' \in [Stamp -> Directory \cup {None}]
  <1>1. cmd[p].since \in Stamp /\ cmd[p].at \in Stamp
    BY DEF TypeOK, Command
  <1> QED
    BY <1>1 DEF DropSnapshot, DropTemporary, TypeOK

LEMMA BackupStepTypes ==
    ASSUME TypeOK, NEW p \in Process,
           \/ StartBackup(p) \/ TakeSnapshot(p) \/ SnapshotFails(p)
           \/ \E i \in Item : HashFile(p, i) \/ CopyFile(p, i)
           \/ HashFails(p) \/ CopyFails(p) \/ WriteManifest(p) \/ Publish(p) \/ PublishRefused(p) \/ Reclaim(p)
    PROVE  TypeOK'
  <1>1. /\ cmd[p] \in Command /\ cmd[p].since \in Stamp /\ cmd[p].at \in Stamp /\ now \in Stamp
        /\ cmd[p].pc # "remove" => cmd[p].doomed = {}
    BY StampFacts DEF TypeOK, Command
  <1>2. CASE StartBackup(p)
    <2>1. [cmd[p] EXCEPT !.pc = "snapshot", !.since = now] \in Command
      BY <1>1 DEF Command, Stage
    <2>2. cmd' = [cmd EXCEPT ![p] = [cmd[p] EXCEPT !.pc = "snapshot", !.since = now]]
      BY <1>2 DEF StartBackup
    <2>3. cmd[p].doomed = {}
      BY <1>1, <1>2 DEF StartBackup, Call
    <2> QED
      BY <1>1, <1>2, <2>1, <2>2, <2>3, CommandTypes DEF StartBackup, TypeOK, Command
  <1>3. CASE TakeSnapshot(p)
    <2> DEFINE c == [cmd[p] EXCEPT !.pc = "hash", !.at = now, !.hashes = NoHashes,
                               !.todo = Present \cup {Database}]
    <2>0. Present \cup {Database} \subseteq Item
      BY ItemFacts DEF Present
    <2>1. c \in Command /\ c.pc = "hash" /\ c.doomed = {} /\ cmd' = [cmd EXCEPT ![p] = c]
      BY <1>1, <1>3, <2>0, IdleFacts DEF TakeSnapshot, Command, Stage
    <2>2. snapshots' \in [Stamp -> Version \cup {Broken, None}]
      BY <1>1, <1>3, ItemFacts DEF TakeSnapshot, TypeOK
    <2> HIDE DEF c
    <2> QED
      BY <1>3, <2>1, <2>2, CommandTypes DEF TakeSnapshot, TypeOK
  <1>4. CASE SnapshotFails(p)
    <2>1. snapshots' \in [Stamp -> Version \cup {Broken, None}]
      BY <1>1, <1>4 DEF SnapshotFails, TypeOK
    <2> QED
      BY <1>4, <2>1, LeaveTypes DEF SnapshotFails, TypeOK
  <1>5. ASSUME NEW i \in Item, HashFile(p, i)
        PROVE  TypeOK'
    <2> DEFINE last == cmd[p].todo = {i}
               c == [cmd[p] EXCEPT !.hashes[i] = Source(p, i),
                                   !.todo = IF last THEN Present \cup {Database} ELSE @ \ {i},
                                   !.pc = IF last THEN "copy" ELSE @]
    <2>0. Present \cup {Database} \subseteq Item
      BY ItemFacts DEF Present
    <2>1. /\ cmd' = [cmd EXCEPT ![p] = c] /\ cmd[p].pc = "hash"
          /\ tmp' = IF last THEN [tmp EXCEPT ![cmd[p].at] = EmptyDir] ELSE tmp
      BY <1>5 DEF HashFile
    <2>2. c \in Command /\ c.pc \in {"hash", "copy"} /\ c.doomed = {}
      <3> HIDE DEF last
      <3> QED
        BY <1>1, <2>0, <2>1, SourceTypes DEF Command, Stage, Hashes
    <2>3. tmp' \in [Stamp -> Directory \cup {None}]
      BY <1>1, <2>1, IdleFacts DEF TypeOK
    <2> HIDE DEF c, last
    <2> QED
      BY <1>5, <2>1, <2>2, <2>3, CommandTypes DEF HashFile, TypeOK
  <1>6. ASSUME NEW i \in Item, CopyFile(p, i)
        PROVE  TypeOK'
    <2> DEFINE c == [cmd[p] EXCEPT !.todo = @ \ {i}, !.pc = IF cmd[p].todo = {i} THEN "manifest" ELSE @]
               dir == IF tmp[cmd[p].at] = None THEN EmptyDir ELSE tmp[cmd[p].at]
               new == [dir EXCEPT !.copies[i] = Source(p, i)]
    <2>1. /\ cmd' = [cmd EXCEPT ![p] = c] /\ cmd[p].pc = "copy"
          /\ tmp' = [tmp EXCEPT ![cmd[p].at] = new]
      BY <1>6 DEF CopyFile
    <2>2. c \in Command /\ c.pc \in {"copy", "manifest"} /\ c.doomed = {}
      BY <1>1, <2>1 DEF Command, Stage
    <2>3. dir \in Directory
      BY <1>1, IdleFacts DEF TypeOK
    <2>4. new \in Directory
      <3> HIDE DEF dir
      <3> QED
        BY <2>3, SourceTypes DEF Directory, Hashes
    <2> HIDE DEF c, new
    <2>5. tmp' \in [Stamp -> Directory \cup {None}]
      BY <1>1, <2>1, <2>4 DEF TypeOK
    <2> QED
      BY <1>6, <2>1, <2>2, <2>5, CommandTypes DEF CopyFile, TypeOK
  <1>7. CASE HashFails(p) \/ CopyFails(p) \/ PublishRefused(p)
    <2>1. /\ DropSnapshot(p) /\ Leave(p) /\ UNCHANGED <<now, current, dirs>>
          /\ DropTemporary(p) \/ tmp' = tmp
      BY <1>7 DEF HashFails, CopyFails, PublishRefused
    <2> QED
      BY <2>1, LeaveTypes, DropTypes DEF TypeOK
  <1>8. CASE WriteManifest(p)
    <2> DEFINE c == [cmd[p] EXCEPT !.pc = "publish"]
               new == [tmp[cmd[p].at] EXCEPT !.manifest = cmd[p].hashes]
    <2>1. cmd' = [cmd EXCEPT ![p] = c] /\ tmp' = [tmp EXCEPT ![cmd[p].at] = new]
      BY <1>8 DEF WriteManifest
    <2>2. c \in Command /\ c.pc = "publish" /\ c.doomed = {} /\ new \in Directory
      BY <1>1, <1>8 DEF WriteManifest, Command, Stage, Directory, TypeOK
    <2> HIDE DEF c, new
    <2>3. tmp' \in [Stamp -> Directory \cup {None}]
      BY <1>1, <2>1, <2>2 DEF TypeOK
    <2> QED
      BY <1>8, <2>1, <2>2, <2>3, CommandTypes DEF WriteManifest, TypeOK
  <1>9. CASE Publish(p)
    <2> DEFINE c == [cmd[p] EXCEPT !.pc = "reclaim"]
    <2>1. cmd' = [cmd EXCEPT ![p] = c] /\ c \in Command /\ c.pc = "reclaim" /\ c.doomed = {}
      BY <1>1, <1>9 DEF Publish, Command, Stage
    <2>2. /\ dirs' \in [Stamp -> Directory \cup {None}]
          /\ tmp' \in [Stamp -> Directory \cup {None}]
      BY <1>1, <1>9 DEF Publish, TypeOK
    <2> HIDE DEF c
    <2> QED
      BY <1>9, <2>1, <2>2, CommandTypes DEF Publish, TypeOK
  <1>10. CASE Reclaim(p)
    <2> DEFINE c == [Idle EXCEPT !.pc = "list"]
    <2>1. cmd' = [cmd EXCEPT ![p] = c]
      BY <1>10 DEF Reclaim
    <2>2. c \in Command /\ c.pc = "list" /\ c.doomed = {}
      BY IdleFacts DEF Command, Stage
    <2> HIDE DEF c
    <2>3. snapshots' \in [Stamp -> Version \cup {Broken, None}]
      BY <1>10, DropTypes DEF Reclaim
    <2> QED
      BY <1>10, <2>1, <2>2, <2>3, CommandTypes DEF Reclaim, TypeOK
  <1> QED
    BY <1>2, <1>3, <1>4, <1>5, <1>6, <1>7, <1>8, <1>9, <1>10

LEMMA OtherStepTypes ==
    ASSUME TypeOK, NEW p \in Process,
           \/ StartCleanup(p) \/ Sweep(p) \/ List(p) \/ PruneDone(p)
           \/ \E s \in Stamp : RemovePart(p, s) \/ RemoveDir(p, s) \/ StartRestore(p, s)
           \/ \E i \in Item : RestoreFile(p, i)
           \/ RestoreEnds(p) \/ Crash(p)
    PROVE  TypeOK'
  <1>1. /\ cmd[p] \in Command /\ cmd[p].since \in Stamp /\ cmd[p].at \in Stamp
        /\ cmd[p].pc # "remove" => cmd[p].doomed = {}
        /\ cmd[p].pc = "restore" => cmd[p].todo \subseteq File
    BY DEF TypeOK, Command
  <1>2. CASE StartCleanup(p)
    <2>1. PICK action \in Cleaning :
            cmd' = [cmd EXCEPT ![p].pc = "sweep", ![p].limit = LimitOf(action)]
      BY <1>2 DEF StartCleanup
    <2> DEFINE c == [cmd[p] EXCEPT !.pc = "sweep", !.limit = LimitOf(action)]
    <2>2. LimitOf(action) \in Nat \ {0}
      BY BackupAssumption DEF LimitOf
    <2>3. cmd' = [cmd EXCEPT ![p] = c] /\ c \in Command /\ c.pc = "sweep" /\ c.doomed = {}
      BY <1>1, <1>2, <2>1, <2>2 DEF StartCleanup, Call, Command, Stage
    <2> HIDE DEF c
    <2> QED
      BY <1>2, <2>3, CommandTypes DEF StartCleanup, TypeOK
  <1>3. CASE Sweep(p)
    <2> DEFINE c == [cmd[p] EXCEPT !.pc = "list"]
    <2>1. cmd' = [cmd EXCEPT ![p] = c] /\ c \in Command /\ c.pc = "list" /\ c.doomed = {}
      BY <1>1, <1>3 DEF Sweep, Command, Stage
    <2> HIDE DEF c
    <2> QED
      BY <1>3, <2>1, CommandTypes DEF Sweep, TypeOK
  <1>4. CASE List(p)
    <2> DEFINE gone == Listed \ Kept(cmd[p].limit)
               c == [cmd[p] EXCEPT !.pc = "remove", !.doomed = gone]
    <2>1. gone \subseteq Stamp
      BY DEF Listed
    <2>2. cmd' = [cmd EXCEPT ![p] = c] /\ c \in Command /\ c.pc = "remove"
      <3> HIDE DEF gone
      <3>1. cmd' = [cmd EXCEPT ![p] = c]
        BY <1>4 DEF List, gone
      <3> QED
        BY <1>1, <2>1, <3>1 DEF Command, Stage
    <2> HIDE DEF c
    <2> QED
      BY <1>4, <2>2, CommandTypes DEF List, TypeOK
  <1>5. CASE PruneDone(p) \/ RestoreEnds(p) \/ Crash(p)
    BY <1>5, LeaveTypes DEF PruneDone, RestoreEnds, Crash, TypeOK
  <1>6. ASSUME NEW s \in Stamp, RemovePart(p, s)
        PROVE  TypeOK'
    <2>1. dirs[s] \in Directory
      BY <1>6 DEF RemovePart, TypeOK
    <2>2. /\ [dirs[s] EXCEPT !.manifest = Missing] \in Directory
          /\ \A i \in Item : [dirs[s] EXCEPT !.copies[i] = Missing] \in Directory
      BY <2>1, ItemFacts DEF Directory, Hashes
    <2>3. \E d \in Directory : dirs' = [dirs EXCEPT ![s] = d]
      BY <1>6, <2>2 DEF RemovePart
    <2>4. dirs' \in [Stamp -> Directory \cup {None}]
      BY <2>3 DEF TypeOK
    <2> QED
      BY <1>6, <2>4 DEF RemovePart, TypeOK
  <1>7. ASSUME NEW s \in Stamp, RemoveDir(p, s)
        PROVE  TypeOK'
    <2> DEFINE c == [cmd[p] EXCEPT !.doomed = @ \ {s}]
    <2>1. cmd' = [cmd EXCEPT ![p] = c] /\ c \in Command /\ c.pc = "remove"
      BY <1>1, <1>7 DEF RemoveDir, Command
    <2>2. dirs' \in [Stamp -> Directory \cup {None}]
      BY <1>7 DEF RemoveDir, TypeOK
    <2> HIDE DEF c
    <2> QED
      BY <1>7, <2>1, <2>2, CommandTypes DEF RemoveDir, TypeOK
  <1>8. ASSUME NEW s \in Stamp, StartRestore(p, s)
        PROVE  TypeOK'
    <2> DEFINE c == [cmd[p] EXCEPT !.pc = "restore", !.at = s, !.hashes = dirs[s].manifest,
                                   !.todo = {i \in File : dirs[s].manifest[i] # Missing}]
    <2>1. dirs[s].manifest \in Hashes /\ cmd[p].doomed = {}
      BY <1>1, <1>8 DEF StartRestore, Verifies, TypeOK, Directory, Call
    <2>2. cmd' = [cmd EXCEPT ![p] = c]
      BY <1>8 DEF StartRestore
    <2>3. c \in Command /\ c.pc = "restore" /\ c.todo \subseteq File /\ c.doomed = {}
      BY <1>1, <2>1, ItemFacts DEF Command, Stage
    <2> HIDE DEF c
    <2> QED
      BY <1>8, <2>2, <2>3, CommandTypes DEF StartRestore, TypeOK
  <1>9. ASSUME NEW i \in Item, RestoreFile(p, i)
        PROVE  TypeOK'
    <2> DEFINE c == [cmd[p] EXCEPT !.todo = @ \ {i}]
    <2>1. cmd' = [cmd EXCEPT ![p] = c] /\ c \in Command /\ c.pc = "restore" /\ c.todo \subseteq File
          /\ c.doomed = {} /\ i \in File
      BY <1>1, <1>9 DEF RestoreFile, Command
    <2>2. dirs[cmd[p].at].copies[i] \in Content
      BY <1>1, <1>9 DEF RestoreFile, Found, TypeOK, Directory, Hashes, Content
    <2>3. /\ current' \in [Item -> Content]
          /\ current'[Database] \in Version
      BY <1>9, <2>1, <2>2, ItemFacts DEF RestoreFile, TypeOK
    <2> HIDE DEF c
    <2> QED
      BY <1>9, <2>1, <2>3, CommandTypes DEF RestoreFile, TypeOK
  <1> QED
    BY <1>2, <1>3, <1>4, <1>5, <1>6, <1>7, <1>8, <1>9

LEMMA NextTypes == TypeOK /\ [Next]_vars => TypeOK'
  BY EnvironmentTypes, BackupStepTypes, OtherStepTypes DEF Next, Step, Environment

LEMMA HistoryInit == Init => HistoryOK
  BY DEF Init, HistoryOK

LEMMA HistoryNext == TypeOK /\ HistoryOK /\ [Next]_vars => HistoryOK'
  <1> SUFFICES ASSUME TypeOK, HistoryOK, [Next]_vars PROVE HistoryOK'
    OBVIOUS
  <1>1. failures' \in {failures, failures + 1} /\ reused' \subseteq reused \cup {now}
    <2>1. CASE Environment
      BY <2>1 DEF Environment, Tick, Commit, Edit, Rot, Fail, vars, history, stamps
    <2>2. ASSUME NEW p \in Process, Step(p)
          PROVE  failures' \in {failures, failures + 1} /\ reused' \subseteq reused \cup {now}
      BY <2>2 DEF Step, StartBackup, TakeSnapshot, SnapshotFails, HashFile, CopyFile, RestoreFile,
           HashFails, CopyFails, MayFail, WriteManifest, Publish, PublishRefused, Reclaim, StartCleanup, Sweep, List,
           PruneDone, RemovePart, RemoveDir, StartRestore, RestoreEnds, Crash, Fail, history, stamps
    <2> QED
      BY <2>1, <2>2 DEF Next, Environment
  <1>2. now \in Stamp
    BY StampFacts DEF TypeOK
  <1> QED
    BY <1>1, <1>2 DEF HistoryOK

\* Every reachable state is well typed: no step reads a field that is not there.
THEOREM BackupsTypeCorrect == Spec => [](TypeOK /\ HistoryOK)
  BY InitTypes, NextTypes, HistoryInit, HistoryNext, PTL DEF Spec

-----------------------------------------------------------------------------
(* What a step of one process leaves as it was.                            *)

\* The stamps of the backups that a process works on.
Uses(p) == cmd[p].doomed \cup {s \in {cmd[p].at} : p \in Filling \/ cmd[p].pc = "restore"}

\* What q reads is as it was, or it is recorded that it changed, or went.
Undisturbed(q) ==
    q \in Reading => \A i \in Item :
        /\ Source(q, i)' = Source(q, i) \/ <<cmd[q].at, i>> \in edited'
        /\ Source(q, i)' # Missing \/ Source(q, i) = Missing \/ <<cmd[q].at, i>> \in deleted'

\* A step of a process changes no other's variables, and of the directories only
\* those it works on; what it changes at the sources of a backup, it records.
Frame(p) ==
    /\ now' = now
    /\ \A q \in Process \ {p} : cmd'[q] = cmd[q]
    /\ \A s \in Stamp : s \notin Uses(p) => dirs'[s] = dirs[s]
    /\ \A s \in Stamp : s # cmd[p].at \/ p \notin Filling => tmp'[s] = tmp[s]
    /\ \A s \in Stamp : s # cmd[p].since \/ p \notin Making => snapshots'[s] = snapshots[s]
    /\ \A q \in Process \ {p} : Undisturbed(q)
    /\ edited \subseteq edited' /\ deleted \subseteq deleted' /\ abandoned \subseteq abandoned'
    /\ taken \subseteq taken' /\ reused \subseteq reused'

LEMMA LeaveFrame ==
    ASSUME TypeOK, NEW p \in Process, Leave(p)
    PROVE  \A q \in Process \ {p} : cmd'[q] = cmd[q]
  BY DEF Leave, TypeOK

\* Nothing changes under q when its sources are as they were.
LEMMA StillUndisturbed ==
    ASSUME NEW q \in Process, cmd'[q] = cmd[q],
           current' = current, snapshots'[cmd[q].since] = snapshots[cmd[q].since]
    PROVE  Undisturbed(q)
  BY DEF Undisturbed, Source

\* To take or to drop a snapshot changes the database under those that share it.
LEMMA SharedUndisturbed ==
    ASSUME TypeOK, NEW p \in Process, p \in Making, NEW q \in Process \ {p}, cmd'[q] = cmd[q], current' = current,
           \A s \in Stamp : s # cmd[p].since => snapshots'[s] = snapshots[s],
           Disturbed(p) \subseteq edited', snapshots'[cmd[p].since] # None \/ Disturbed(p) \subseteq deleted',
           snapshots' \in [Stamp -> Version \cup {Broken, None}]
    PROVE  Undisturbed(q)
  <1>1. cmd[q].since \in Stamp
    BY DEF TypeOK, Command
  <1>2. CASE cmd[q].since # cmd[p].since
    BY <1>1, <1>2, StillUndisturbed
  <1>3. CASE cmd[q].since = cmd[p].since /\ q \in Reading
    <2>1. q \in Making
      BY <1>3 DEF Reading, Making, Filling, At
    <2>2. <<cmd[q].at, Database>> \in Disturbed(p)
      BY <1>3, <2>1 DEF Disturbed, Sharing
    <2>3. \A i \in Item \ {Database} : Source(q, i)' = Source(q, i)
      BY DEF Source
    <2>4. snapshots'[cmd[q].since] # None => Source(q, Database)' # Missing
      BY <1>1, ItemFacts DEF Source
    <2> QED
      BY <1>3, <2>2, <2>3, <2>4 DEF Undisturbed
  <1> QED
    BY <1>2, <1>3 DEF Undisturbed

LEMMA DropFrame ==
    ASSUME TypeOK, NEW p \in Process, p \in Making, DropSnapshot(p), current' = current,
           \A q \in Process \ {p} : cmd'[q] = cmd[q]
    PROVE  /\ \A s \in Stamp : s # cmd[p].since => snapshots'[s] = snapshots[s]
           /\ \A q \in Process \ {p} : Undisturbed(q)
           /\ edited \subseteq edited' /\ deleted \subseteq deleted' /\ abandoned \subseteq abandoned'
  <1>1. /\ \A s \in Stamp : s # cmd[p].since => snapshots'[s] = snapshots[s]
        /\ snapshots' \in [Stamp -> Version \cup {Broken, None}]
        /\ edited \subseteq edited' /\ deleted \subseteq deleted' /\ abandoned \subseteq abandoned'
        /\ snapshots' = snapshots \/ Disturbed(p) \subseteq edited' \cap deleted'
    BY DropTypes DEF DropSnapshot, TypeOK, changes
  <1>2. ASSUME NEW q \in Process \ {p}
        PROVE  Undisturbed(q)
    <2>1. cmd[q].since \in Stamp
      BY DEF TypeOK, Command
    <2> QED
      BY <1>1, <2>1, StillUndisturbed, SharedUndisturbed
  <1> QED
    BY <1>1, <1>2

LEMMA TemporaryFrame ==
    ASSUME TypeOK, NEW p \in Process, DropTemporary(p)
    PROVE  \A s \in Stamp : s # cmd[p].at => tmp'[s] = tmp[s]
  BY DEF DropTemporary, TypeOK

LEMMA BackupStepFrame ==
    ASSUME TypeOK, NEW p \in Process,
           \/ StartBackup(p) \/ TakeSnapshot(p) \/ SnapshotFails(p)
           \/ \E i \in Item : HashFile(p, i) \/ CopyFile(p, i)
           \/ HashFails(p) \/ CopyFails(p) \/ WriteManifest(p) \/ Publish(p) \/ PublishRefused(p) \/ Reclaim(p)
    PROVE  Frame(p)
  <1> USE DEF Frame, Uses, history, changes, stamps
  <1>1. CASE StartBackup(p)
    BY <1>1, StillUndisturbed DEF StartBackup, TypeOK
  <1>2. CASE TakeSnapshot(p) \/ SnapshotFails(p)
    <2>1. /\ p \in Making /\ p \notin Filling /\ cmd[p].since \in Stamp /\ cmd[p].doomed = {}
          /\ current' = current /\ \A q \in Process \ {p} : cmd'[q] = cmd[q]
      BY <1>2, LeaveFrame DEF TakeSnapshot, SnapshotFails, Making, Filling, At, TypeOK, Command
    <2>2. PICK c \in Version \cup {Broken} : snapshots' = [snapshots EXCEPT ![cmd[p].since] = c]
      BY <1>2 DEF TakeSnapshot, SnapshotFails, TypeOK
    <2>3. /\ \A s \in Stamp : s # cmd[p].since => snapshots'[s] = snapshots[s]
          /\ snapshots' \in [Stamp -> Version \cup {Broken, None}]
          /\ snapshots'[cmd[p].since] # None
      BY <2>1, <2>2, ItemFacts, BackupAssumption DEF TypeOK
    <2>4. /\ Disturbed(p) \subseteq edited' /\ edited \subseteq edited' /\ deleted \subseteq deleted'
          /\ abandoned \subseteq abandoned' /\ taken \subseteq taken' /\ reused \subseteq reused'
          /\ dirs' = dirs /\ tmp' = tmp /\ now' = now
      BY <1>2 DEF TakeSnapshot, SnapshotFails
    <2>5. \A q \in Process \ {p} : Undisturbed(q)
      BY <2>1, <2>3, <2>4, SharedUndisturbed
    <2> QED
      BY <2>1, <2>3, <2>4, <2>5
  <1>3. ASSUME NEW i \in Item, HashFile(p, i)
        PROVE  Frame(p)
    BY <1>3, StillUndisturbed DEF HashFile, TypeOK, Filling, At
  <1>4. ASSUME NEW i \in Item, CopyFile(p, i)
        PROVE  Frame(p)
    BY <1>4, StillUndisturbed DEF CopyFile, TypeOK, Filling, At
  <1>5. CASE HashFails(p) \/ CopyFails(p) \/ PublishRefused(p) \/ Reclaim(p)
    <2>1. /\ p \in Making /\ DropSnapshot(p) /\ current' = current /\ dirs' = dirs /\ now' = now
          /\ taken' = taken /\ reused' = reused
          /\ (p \in Filling /\ DropTemporary(p)) \/ tmp' = tmp
      BY <1>5 DEF HashFails, CopyFails, PublishRefused, Reclaim, Making, Filling, At
    <2>2. \A q \in Process \ {p} : cmd'[q] = cmd[q]
      BY <1>5, LeaveFrame DEF HashFails, CopyFails, PublishRefused, Reclaim, TypeOK
    <2>3. \A s \in Stamp : s # cmd[p].at \/ p \notin Filling => tmp'[s] = tmp[s]
      BY <2>1, TemporaryFrame
    <2> QED
      BY <2>1, <2>2, <2>3, DropFrame
  <1>6. CASE WriteManifest(p) \/ Publish(p)
    BY <1>6, StillUndisturbed DEF WriteManifest, Publish, TypeOK, Filling, At
  <1> QED
    BY <1>1, <1>2, <1>3, <1>4, <1>5, <1>6

LEMMA OtherStepFrame ==
    ASSUME TypeOK, NEW p \in Process,
           \/ StartCleanup(p) \/ Sweep(p) \/ List(p) \/ PruneDone(p)
           \/ \E s \in Stamp : RemovePart(p, s) \/ RemoveDir(p, s) \/ StartRestore(p, s)
           \/ \E i \in Item : RestoreFile(p, i)
           \/ RestoreEnds(p) \/ Crash(p)
    PROVE  Frame(p)
  <1> USE DEF Frame, Uses, Filling, Making, At, history, changes, stamps
  <1>1. CASE StartCleanup(p) \/ Sweep(p) \/ List(p)
    BY <1>1, StillUndisturbed DEF StartCleanup, Sweep, List, TypeOK
  <1>2. CASE PruneDone(p) \/ RestoreEnds(p) \/ Crash(p)
    BY <1>2, LeaveFrame, StillUndisturbed DEF PruneDone, RestoreEnds, Crash
  <1>3. ASSUME NEW s \in Stamp, RemovePart(p, s) \/ RemoveDir(p, s)
        PROVE  Frame(p)
    BY <1>3, StillUndisturbed DEF RemovePart, RemoveDir, TypeOK
  <1>4. ASSUME NEW s \in Stamp, StartRestore(p, s)
        PROVE  Frame(p)
    BY <1>4, StillUndisturbed DEF StartRestore, TypeOK
  <1>5. ASSUME NEW i \in Item, RestoreFile(p, i)
        PROVE  Frame(p)
    <2>1. cmd[p].at \in Stamp /\ i # Database
      BY <1>5, ItemFacts DEF RestoreFile, TypeOK, Command
    <2>2. current'[i] # Missing /\ \A j \in Item \ {i} : current'[j] = current[j]
      BY <1>5, <2>1 DEF RestoreFile, Found, TypeOK
    <2>3. \A q \in Process \ {p} : cmd'[q] = cmd[q]
      BY <1>5 DEF RestoreFile, TypeOK
    <2>4. ASSUME NEW q \in Process \ {p}, q \in Reading
          PROVE  Undisturbed(q)
      <3>1. \A j \in Item \ {i} : Source(q, j)' = Source(q, j)
        BY <1>5, <2>2, <2>3 DEF RestoreFile, Source
      <3>2. Source(q, i)' # Missing
        BY <2>1, <2>2 DEF Source
      <3>3. <<cmd[q].at, i>> \in edited'
        BY <1>5, <2>4 DEF RestoreFile
      <3> QED
        BY <3>1, <3>2, <3>3 DEF Undisturbed
    <2>5. \A q \in Process \ {p} : Undisturbed(q)
      BY <2>4 DEF Undisturbed
    <2> QED
      BY <1>5, <2>3, <2>5 DEF RestoreFile
  <1> QED
    BY <1>1, <1>2, <1>3, <1>4, <1>5

LEMMA StepFrame == \A p \in Process : TypeOK /\ Step(p) => Frame(p)
  BY BackupStepFrame, OtherStepFrame DEF Step

\* What the environment leaves as it was.
LEMMA EnvironmentFrame ==
    ASSUME TypeOK, Environment
    PROVE  /\ cmd' = cmd /\ tmp' = tmp /\ snapshots' = snapshots /\ abandoned' = abandoned
           /\ taken' = taken /\ reused' = reused
           /\ \A s \in Stamp : dirs'[s] = None <=> dirs[s] = None
           /\ \A q \in Process : Undisturbed(q)
           /\ edited \subseteq edited' /\ deleted \subseteq deleted'
  <1> USE DEF history, changes, stamps
  <1>1. CASE Tick \/ Commit \/ UNCHANGED vars
    <2>1. /\ cmd' = cmd /\ snapshots' = snapshots /\ \A i \in Item \ {Database} : current'[i] = current[i]
          /\ edited' = edited /\ deleted' = deleted
      BY <1>1 DEF Tick, Commit, vars, TypeOK
    <2>2. \A q \in Process, i \in Item : Source(q, i)' = Source(q, i)
      BY <2>1 DEF Source
    <2> QED
      BY <1>1, <2>1, <2>2 DEF Tick, Commit, vars, Undisturbed
  <1>2. ASSUME NEW i \in File, Edit(i)
        PROVE  \A q \in Process : Undisturbed(q)
    <2>1. PICK c \in Version \cup {Missing} :
            /\ current' = [current EXCEPT ![i] = c]
            /\ deleted' = deleted \cup {<<cmd[p].at, i>> : p \in {q \in Reading : c = Missing}}
      BY <1>2 DEF Edit
    <2>2. i \in Item /\ i # Database /\ current'[i] = c /\ \A j \in Item \ {i} : current'[j] = current[j]
      BY <2>1, ItemFacts DEF TypeOK
    <2> SUFFICES ASSUME NEW q \in Process, q \in Reading PROVE Undisturbed(q)
      BY DEF Undisturbed
    <2>3. \A j \in Item \ {i} : Source(q, j)' = Source(q, j)
      BY <1>2, <2>2 DEF Edit, Source
    <2>4. <<cmd[q].at, i>> \in edited'
      BY <1>2 DEF Edit
    <2>5. Source(q, i)' = c
      BY <2>2 DEF Source
    <2>6. c = Missing => <<cmd[q].at, i>> \in deleted'
      BY <2>1
    <2> QED
      BY <2>3, <2>4, <2>5, <2>6 DEF Undisturbed
  <1>3. ASSUME NEW s \in Stamp, Rot(s)
        PROVE  \A t \in Stamp : dirs'[t] = None <=> dirs[t] = None
    <2>1. dirs[s] # None /\ dirs[s] \in Directory
      BY <1>3 DEF Rot, TypeOK
    <2>2. /\ [dirs[s] EXCEPT !.manifest = Broken] \in Directory
          /\ \A i \in Item : [dirs[s] EXCEPT !.copies[i] = Broken] \in Directory
      BY <2>1, ItemFacts DEF Directory, Hashes
    <2>3. \E d \in Directory : dirs' = [dirs EXCEPT ![s] = d]
      BY <1>3, <2>2 DEF Rot
    <2> QED
      BY <2>1, <2>3, BackupAssumption DEF TypeOK
  <1>4. ASSUME NEW s \in Stamp, Rot(s)
        PROVE  \A q \in Process : Undisturbed(q)
    BY <1>4, StillUndisturbed DEF Rot
  <1> QED
    BY <1>1, <1>2, <1>3, <1>4, StillUndisturbed DEF Environment, Edit, Rot, Tick, Commit, vars

-----------------------------------------------------------------------------
(* A stamp that one backup took is nobody else's to write, prune or        *)
(* restore until that backup is published.                                 *)

Known(s) == s < First \/ s \in taken

StampInv ==
    /\ taken \subseteq First..MaxTime
    /\ \A s \in Listed : Known(s)
    /\ \A p \in Process : \A s \in Uses(p) : Known(s)
    /\ \A p \in Filling :
          /\ cmd[p].at \in taken
          /\ cmd[p].at \notin reused =>
                /\ dirs[cmd[p].at] = None
                /\ \A q \in Process \ {p} : cmd[p].at \notin Uses(q)

\* What holds of every step but the one that takes a stamp.
Calm(p) ==
    /\ taken' = taken /\ reused' = reused
    /\ \A s \in Uses(p)' : s \in Uses(p) \cup Listed
    /\ p \in Filling' => p \in Filling /\ dirs' = dirs /\ cmd'[p].at = cmd[p].at /\ cmd'[p].since = cmd[p].since

LEMMA LeaveCalm ==
    ASSUME TypeOK, NEW p \in Process, Leave(p)
    PROVE  Uses(p)' = {} /\ p \notin Filling' /\ p \notin Making'
  <1>1. cmd'[p] = Idle
    BY DEF Leave, TypeOK
  <1> QED
    BY <1>1, IdleFacts DEF Uses, Filling, Making, At

LEMMA BackupStepCalm ==
    ASSUME TypeOK, NEW p \in Process,
           \/ StartBackup(p) \/ SnapshotFails(p)
           \/ \E i \in Item : HashFile(p, i) \/ CopyFile(p, i)
           \/ HashFails(p) \/ CopyFails(p) \/ WriteManifest(p) \/ Publish(p) \/ PublishRefused(p) \/ Reclaim(p)
    PROVE  Calm(p)
  <1> USE DEF Calm, history, stamps
  <1>1. CASE StartBackup(p)
    BY <1>1 DEF StartBackup, Call, Uses, Filling, At, TypeOK
  <1>2. CASE SnapshotFails(p) \/ HashFails(p) \/ CopyFails(p) \/ PublishRefused(p)
    BY <1>2, LeaveCalm DEF SnapshotFails, HashFails, CopyFails, PublishRefused
  <1>3. ASSUME NEW i \in Item, HashFile(p, i)
        PROVE  Calm(p)
    <2>1. /\ cmd[p].pc = "hash" /\ cmd'[p].pc \in {"hash", "copy"}
          /\ cmd'[p].at = cmd[p].at /\ cmd'[p].since = cmd[p].since /\ cmd'[p].doomed = cmd[p].doomed
      BY <1>3 DEF HashFile, TypeOK, Command
    <2> QED
      BY <1>3, <2>1 DEF HashFile, Uses, Filling, At
  <1>4. ASSUME NEW i \in Item, CopyFile(p, i)
        PROVE  Calm(p)
    <2>1. /\ cmd[p].pc = "copy" /\ cmd'[p].pc \in {"copy", "manifest"}
          /\ cmd'[p].at = cmd[p].at /\ cmd'[p].since = cmd[p].since /\ cmd'[p].doomed = cmd[p].doomed
      BY <1>4 DEF CopyFile, TypeOK, Command
    <2> QED
      BY <1>4, <2>1 DEF CopyFile, Uses, Filling, At
  <1>5. CASE WriteManifest(p)
    BY <1>5 DEF WriteManifest, Uses, Filling, At, TypeOK
  <1>6. CASE Publish(p)
    BY <1>6 DEF Publish, Uses, Filling, At, TypeOK
  <1>7. CASE Reclaim(p)
    BY <1>7, IdleFacts DEF Reclaim, Uses, Filling, At, TypeOK
  <1> QED
    BY <1>1, <1>2, <1>3, <1>4, <1>5, <1>6, <1>7

LEMMA OtherStepCalm ==
    ASSUME TypeOK, NEW p \in Process,
           \/ StartCleanup(p) \/ Sweep(p) \/ List(p) \/ PruneDone(p)
           \/ \E s \in Stamp : RemovePart(p, s) \/ RemoveDir(p, s) \/ StartRestore(p, s)
           \/ \E i \in Item : RestoreFile(p, i)
           \/ RestoreEnds(p) \/ Crash(p)
    PROVE  Calm(p)
  <1> USE DEF Calm, history, stamps
  <1>1. CASE StartCleanup(p)
    <2>1. cmd[p].pc = "idle" /\ cmd'[p].pc = "sweep" /\ cmd'[p].doomed = cmd[p].doomed
      BY <1>1 DEF StartCleanup, Call, TypeOK, Command
    <2> QED
      BY <1>1, <2>1 DEF StartCleanup, Uses, Filling, At
  <1>2. CASE Sweep(p) \/ List(p)
    <2>1. CASE Sweep(p)
      BY <2>1 DEF Sweep, Uses, Filling, At, TypeOK, Command
    <2>2. CASE List(p)
      <3>1. cmd'[p].pc = "remove" /\ cmd'[p].doomed \subseteq Listed
        BY <2>2 DEF List, TypeOK, Command
      <3> QED
        BY <2>2, <3>1 DEF List, Uses, Filling, At
    <2> QED
      BY <1>2, <2>1, <2>2
  <1>3. CASE PruneDone(p) \/ RestoreEnds(p) \/ Crash(p)
    BY <1>3, LeaveCalm DEF PruneDone, RestoreEnds, Crash
  <1>4. ASSUME NEW s \in Stamp, RemovePart(p, s) \/ RemoveDir(p, s)
        PROVE  Calm(p)
    <2>1. cmd[p].pc = "remove" /\ cmd'[p].pc = "remove" /\ cmd'[p].doomed \subseteq cmd[p].doomed
      BY <1>4 DEF RemovePart, RemoveDir, TypeOK, Command
    <2> QED
      BY <1>4, <2>1 DEF RemovePart, RemoveDir, Uses, Filling, At
  <1>5. ASSUME NEW s \in Stamp, StartRestore(p, s)
        PROVE  Calm(p)
    <2>1. cmd'[p].pc = "restore" /\ cmd'[p].at = s /\ cmd'[p].doomed = cmd[p].doomed
      BY <1>5 DEF StartRestore, TypeOK, Command
    <2>2. s \in Listed
      BY <1>5 DEF StartRestore, Listed
    <2> QED
      BY <1>5, <2>1, <2>2 DEF StartRestore, Uses, Filling, At
  <1>6. ASSUME NEW i \in Item, RestoreFile(p, i)
        PROVE  Calm(p)
    BY <1>6 DEF RestoreFile, Uses, Filling, At, TypeOK
  <1> QED
    BY <1>1, <1>2, <1>3, <1>4, <1>5, <1>6

LEMMA StepCalm == \A p \in Process : TypeOK /\ Step(p) => TakeSnapshot(p) \/ Calm(p)
  BY BackupStepCalm, OtherStepCalm DEF Step

LEMMA UsesAreStamps == TypeOK => \A p \in Process : Uses(p) \subseteq Stamp
  BY DEF TypeOK, Command, Uses

LEMMA OthersKept ==
    ASSUME TypeOK, NEW p \in Process, Frame(p), NEW q \in Process \ {p}
    PROVE  /\ Uses(q)' = Uses(q) /\ (q \in Filling' <=> q \in Filling) /\ (q \in Making' <=> q \in Making)
           /\ (q \in Reading' <=> q \in Reading)
  BY DEF Frame, Uses, Filling, Making, Reading, At

LEMMA CalmStamps ==
    ASSUME TypeOK, StampInv, NEW p \in Process, Frame(p), Calm(p)
    PROVE  StampInv'
  <1>1. \A s : Known(s)' <=> Known(s)
    BY DEF Calm, Known
  <1>2. \A s \in Listed' : Known(s)
    BY DEF Listed, Frame, StampInv
  <1>3. ASSUME NEW q \in Process, NEW s \in Uses(q)'
        PROVE  Known(s)
    BY <1>3, OthersKept DEF Calm, StampInv
  <1>4. ASSUME NEW r \in Filling', cmd'[r].at \notin reused'
        PROVE  /\ dirs'[cmd'[r].at] = None
               /\ \A q \in Process \ {r} : cmd'[r].at \notin Uses(q)'
    <2>0. r \in Process /\ r \in Filling /\ cmd'[r].at = cmd[r].at /\ cmd[r].at \in Stamp
      BY <1>4, OthersKept DEF Frame, Calm, Filling, At, TypeOK, Command
    <2>1. /\ dirs[cmd[r].at] = None
          /\ \A q \in Process \ {r} : cmd[r].at \notin Uses(q)
      BY <1>4, <2>0 DEF StampInv, Calm
    <2>2. CASE r = p
      BY <1>4, <2>0, <2>1, <2>2, OthersKept DEF Calm
    <2>3. CASE r # p
      <3>1. cmd[r].at \notin Uses(p) /\ cmd[r].at \notin Listed
        BY <2>0, <2>1, <2>3 DEF Listed
      <3>2. dirs'[cmd[r].at] = None
        BY <2>0, <2>1, <3>1 DEF Frame
      <3>3. cmd[r].at \notin Uses(p)'
        BY <3>1 DEF Calm
      <3> QED
        BY <2>0, <2>1, <3>2, <3>3, OthersKept
    <2> QED
      BY <2>2, <2>3
  <1>5. taken' \subseteq First..MaxTime
    BY DEF Calm, StampInv
  <1>6. \A r \in Filling' : cmd'[r].at \in taken'
    BY OthersKept DEF Calm, Frame, StampInv, Filling, At
  <1> QED
    BY <1>1, <1>2, <1>3, <1>4, <1>5, <1>6 DEF StampInv

LEMMA SnapshotStamps ==
    ASSUME TypeOK, StampInv, NEW p \in Process, Frame(p), TakeSnapshot(p)
    PROVE  StampInv'
  <1>1. /\ now \in First..MaxTime /\ now \in Stamp /\ taken' = taken \cup {now} /\ dirs' = dirs
        /\ reused' = reused \cup (taken \cap {now})
    BY StampFacts DEF TakeSnapshot, TypeOK
  <1>2. cmd'[p].at = now /\ Uses(p)' = {now}
    <2>1. cmd[p].pc = "snapshot" /\ cmd[p].doomed = {}
      BY DEF TakeSnapshot, TypeOK
    <2>2. cmd'[p].pc = "hash" /\ cmd'[p].at = now /\ cmd'[p].doomed = {}
      BY <2>1 DEF TakeSnapshot, TypeOK, Command
    <2> QED
      BY <2>2 DEF Uses, Filling, At
  <1>3. \A s : Known(s) => Known(s)'
    BY <1>1 DEF Known
  <1>4. ASSUME NEW q \in Process, NEW s \in Uses(q)'
        PROVE  Known(s)'
    BY <1>1, <1>2, <1>3, <1>4, OthersKept DEF Known, StampInv
  <1>5. ASSUME NEW r \in Filling', cmd'[r].at \notin reused'
        PROVE  /\ dirs'[cmd'[r].at] = None
               /\ \A q \in Process \ {r} : cmd'[r].at \notin Uses(q)'
    <2>1. CASE r = p
      <3>1. ~Known(now)
        BY <1>1, <1>2, <1>5, <2>1, BackupAssumption DEF Known
      <3>2. now \notin Listed /\ \A q \in Process : now \notin Uses(q)
        BY <3>1 DEF StampInv
      <3> QED
        BY <1>1, <1>2, <2>1, <3>2, OthersKept DEF Listed
    <2>2. CASE r # p
      <3>1. r \in Process /\ r \in Filling /\ cmd'[r].at = cmd[r].at /\ cmd[r].at \in Uses(r)
        BY <2>2, <1>5, OthersKept DEF Frame, Filling, At, Uses
      <3>2. cmd[r].at \in taken
        BY <3>1, StampFacts DEF StampInv, Filling, At
      <3>3. cmd[r].at # now
        BY <1>1, <1>5, <3>1, <3>2
      <3> QED
        BY <1>1, <1>2, <1>5, <3>1, <3>3, OthersKept DEF StampInv
    <2> QED
      BY <2>1, <2>2
  <1>6. \A r \in Filling' : cmd'[r].at \in taken'
    BY <1>1, <1>2, OthersKept DEF StampInv, Frame, Filling, At
  <1>7. taken' \subseteq First..MaxTime /\ \A s \in Listed' : Known(s)'
    BY <1>1, <1>3 DEF StampInv, Listed
  <1> QED
    BY <1>4, <1>5, <1>6, <1>7 DEF StampInv

LEMMA StampInit == Init => StampInv
  <1> SUFFICES ASSUME Init PROVE StampInv
    OBVIOUS
  <1>1. \A p \in Process : Uses(p) = {} /\ p \notin Filling
    BY IdleFacts DEF Init, Uses, Filling, At
  <1>2. \A s \in Listed : s < First
    BY StampFacts, BackupAssumption DEF Init, Listed, Stamp
  <1> QED
    BY <1>1, <1>2 DEF Init, StampInv, Known, Filling, At

LEMMA StampNext == TypeOK /\ StampInv /\ [Next]_vars => StampInv'
  <1> SUFFICES ASSUME TypeOK, StampInv, [Next]_vars PROVE StampInv'
    OBVIOUS
  <1>1. CASE Environment
    <2>1. cmd' = cmd /\ taken' = taken /\ reused' = reused /\ \A s \in Stamp : dirs'[s] = None <=> dirs[s] = None
      BY <1>1, EnvironmentFrame
    <2>2. \A p \in Process : cmd[p].at \in Stamp
      BY DEF TypeOK, Command
    <2> QED
      BY <2>1, <2>2 DEF StampInv, Listed, Known, Uses, Filling, At
  <1>2. ASSUME NEW p \in Process, Step(p)
        PROVE  StampInv'
    BY <1>2, StepFrame, StepCalm, CalmStamps, SnapshotStamps
  <1> QED
    BY <1>1, <1>2 DEF Next, Environment

-----------------------------------------------------------------------------
(* The newest valid backup.                                                *)

\* Newest, without counting.
LEMMA NewestFacts ==
    ASSUME NEW S \in SUBSET Stamp
    PROVE  /\ Newest(S, 1) = {s \in S : \A t \in S : t <= s}
           /\ \A n \in Nat \ {0} : Newest(S, 1) \subseteq Newest(S, n)
  <1>1. ASSUME NEW s \in S
        PROVE  /\ Cardinality({t \in S : t > s}) \in Nat
               /\ Cardinality({t \in S : t > s}) = 0 <=> {t \in S : t > s} = {}
    <2>1. IsFiniteSet(Stamp)
      BY FS_Interval, BackupAssumption DEF Stamp
    <2>2. IsFiniteSet({t \in S : t > s})
      BY <2>1, FS_Subset
    <2> QED
      BY <2>2, FS_CardinalityType, FS_EmptySet
  <1>2. \A s \in S : {t \in S : t > s} = {} <=> \A t \in S : t <= s
    <2>1. \A s, t \in Stamp : t > s <=> ~(t <= s)
      BY StampFacts
    <2> QED
      BY <2>1
  <1>3. \A s \in S : Cardinality({t \in S : t > s}) < 1 <=> \A t \in S : t <= s
    BY <1>1, <1>2
  <1>4. \A n \in Nat \ {0} : \A s \in S :
          Cardinality({t \in S : t > s}) < 1 => Cardinality({t \in S : t > s}) < n
    BY <1>1
  <1> QED
    BY <1>3, <1>4 DEF Newest

\* Whoever decided to remove what is the newest valid backup now did so before a
\* second backup took a stamp at least as late.
NewestInv ==
    \A p \in Process : \A s \in Newest(Valid, 1) \cap cmd[p].doomed : \E t \in reused : t >= s

LEMMA ValidAreStamps == Valid \subseteq Stamp /\ Valid' \subseteq Stamp
  BY DEF Valid, Listed

\* The steps that change a directory, and those that leave a removal its list.
LEMMA StepDirs ==
    ASSUME NEW p \in Process, Step(p)
    PROVE  dirs' = dirs \/ Publish(p) \/ \E s \in Stamp : RemovePart(p, s) \/ RemoveDir(p, s)
  BY DEF Step, StartBackup, TakeSnapshot, SnapshotFails, HashFile, CopyFile, RestoreFile, HashFails, CopyFails,
         WriteManifest, PublishRefused, Reclaim, StartCleanup, Sweep, List, PruneDone, StartRestore,
         RestoreEnds, Crash

LEMMA StepDoomed ==
    ASSUME TypeOK, NEW p \in Process, Step(p), ~List(p)
    PROVE  cmd'[p].doomed \subseteq cmd[p].doomed
  <1>1. CASE cmd' = cmd
    BY <1>1
  <1>2. CASE Leave(p)
    BY <1>2, IdleFacts DEF Leave, TypeOK
  <1>3. CASE StartBackup(p) \/ TakeSnapshot(p) \/ WriteManifest(p) \/ Publish(p) \/ Sweep(p)
    BY <1>3 DEF StartBackup, TakeSnapshot, WriteManifest, Publish, Sweep, TypeOK, Command
  <1>4. ASSUME NEW i \in Item, HashFile(p, i) \/ CopyFile(p, i) \/ RestoreFile(p, i)
        PROVE  cmd'[p].doomed \subseteq cmd[p].doomed
    <2>1. CASE HashFile(p, i)
      BY <2>1 DEF HashFile, TypeOK, Command
    <2>2. CASE CopyFile(p, i) \/ RestoreFile(p, i)
      BY <2>2 DEF CopyFile, RestoreFile, TypeOK, Command
    <2> QED
      BY <1>4, <2>1, <2>2
  <1>5. CASE Reclaim(p)
    BY <1>5, IdleFacts DEF Reclaim, TypeOK, Command
  <1>6. CASE StartCleanup(p)
    BY <1>6 DEF StartCleanup, TypeOK, Command
  <1>7. ASSUME NEW s \in Stamp, RemoveDir(p, s) \/ StartRestore(p, s)
        PROVE  cmd'[p].doomed \subseteq cmd[p].doomed
    BY <1>7 DEF RemoveDir, StartRestore, TypeOK, Command
  <1> QED
    BY <1>1, <1>2, <1>3, <1>4, <1>5, <1>6, <1>7
    DEF Step, SnapshotFails, HashFails, CopyFails, PublishRefused, PruneDone, RestoreEnds, Crash, RemovePart

LEMMA NewestKept ==
    ASSUME TypeOK, HistoryOK, NewestInv, reused \subseteq reused',
           \A q \in Process : cmd'[q].doomed \subseteq cmd[q].doomed,
           \/ Valid' = Valid
           \/ \E s \in reused : Valid \subseteq Valid' /\ Valid' \subseteq Valid \cup {s}
           \/ \E s \in Stamp : /\ \A q \in Process : s \notin cmd[q].doomed
                               /\ Valid \subseteq Valid' /\ Valid' \subseteq Valid \cup {s}
           \/ \E p \in Process : \E s \in cmd[p].doomed : Valid' = Valid \ {s}
    PROVE  NewestInv'
  <1>1. /\ Newest(Valid, 1) = {s \in Valid : \A t \in Valid : t <= s}
        /\ Newest(Valid', 1) = {s \in Valid' : \A t \in Valid' : t <= s}
    BY NewestFacts, ValidAreStamps
  <1>2. \A p \in Process : \A s \in Newest(Valid, 1) \cap cmd'[p].doomed : \E t \in reused' : t >= s
    BY DEF NewestInv
  <1> SUFFICES ASSUME NEW p \in Process, NEW s \in Newest(Valid', 1) \cap cmd'[p].doomed
               PROVE  \E t \in reused' : t >= s
    BY DEF NewestInv, Newest
  <1>3. s \in Valid' /\ s \in Int /\ \A t \in Valid' : t <= s
    BY <1>1, ValidAreStamps, StampFacts
  <1>4. CASE s \in Newest(Valid, 1)
    BY <1>2, <1>4
  <1>5. CASE s \notin Newest(Valid, 1)
    <2>1. CASE Valid' = Valid
      BY <1>1, <1>5, <2>1
    <2>2. ASSUME NEW r, Valid \subseteq Valid', Valid' \subseteq Valid \cup {r}
          PROVE  s = r
      BY <1>1, <1>3, <1>5, <2>2
    <2>3. ASSUME NEW q \in Process, NEW r \in cmd[q].doomed, Valid' = Valid \ {r}
          PROVE  \E t \in reused' : t >= s
      <3>1. s \in Valid /\ \A t \in Valid \ {r} : t <= s
        BY <1>3, <2>3
      <3>2. r \in Valid /\ ~(r <= s)
        BY <1>1, <1>5, <3>1
      <3>3. r \in Int /\ r > s /\ \A t \in Valid : t \in Int
        BY <1>3, <3>2, ValidAreStamps, StampFacts
      <3>4. \A t \in Valid : t <= r
        BY <1>3, <3>1, <3>3
      <3>5. PICK t \in reused : t >= r
        BY <1>1, <3>2, <3>4 DEF NewestInv
      <3>6. t \in Int
        BY StampFacts DEF HistoryOK
      <3>7. t >= s
        BY <1>3, <3>3, <3>5, <3>6
      <3> QED
        BY <3>7
    <2>4. s \in cmd[p].doomed
      BY <1>3
    <2>5. \A t \in reused : t = s => t >= s
      BY <1>3
    <2> QED
      BY <2>1, <2>2, <2>3, <2>4, <2>5
  <1> QED
    BY <1>4, <1>5

LEMMA NewestInit == Init => NewestInv
  BY IdleFacts DEF Init, NewestInv

LEMMA NewestEnvironment ==
    ASSUME TypeOK, HistoryOK, NewestInv,
           Environment
    PROVE  NewestInv'
  <1>1. cmd' = cmd /\ reused' = reused
    BY EnvironmentFrame
  <1>2. CASE dirs' = dirs
    <2>1. Valid' = Valid
      BY <1>2 DEF Valid, Listed
    <2> QED
      BY <1>1, <2>1, NewestKept
  <1>3. ASSUME NEW s \in Stamp, NEW i \in Item, dirs[s] # None, dirs' = [dirs EXCEPT ![s].copies[i] = Broken]
        PROVE  NewestInv'
    <2>1. dirs' \in [Stamp -> Directory \cup {None}] /\ dirs'[s].manifest = dirs[s].manifest /\ dirs'[s] # None
      <3>1. dirs[s] \in Directory
        BY <1>3 DEF TypeOK
      <3>2. [dirs[s] EXCEPT !.copies[i] = Broken] \in Directory
        BY <3>1, ItemFacts DEF Directory, Hashes
      <3>3. dirs' = [dirs EXCEPT ![s] = [dirs[s] EXCEPT !.copies[i] = Broken]]
        BY <1>3
      <3> QED
        BY <3>1, <3>2, <3>3, BackupAssumption DEF TypeOK, Directory
    <2>2. \A t \in Stamp \ {s} : dirs'[t] = dirs[t]
      BY <1>3 DEF TypeOK
    <2>3. Valid' = Valid
      BY <1>3, <2>1, <2>2 DEF Valid, Listed
    <2> QED
      BY <1>1, <2>3, NewestKept
  <1>4. CASE At({"remove"}) = {}
    <2>1. \A p \in Process : cmd'[p].doomed = {}
      BY <1>1, <1>4 DEF At, TypeOK
    <2> QED
      BY <2>1 DEF NewestInv
  <1> QED
    BY <1>2, <1>3, <1>4 DEF Environment, Tick, Commit, Edit, Rot, vars

\* Publishing makes at most one more backup valid, and removing at most one less.
LEMMA PublishValid ==
    ASSUME TypeOK, NEW p \in Process, Publish(p)
    PROVE  Valid \subseteq Valid' /\ Valid' \subseteq Valid \cup {cmd[p].at}
  <1>1. cmd[p].at \in Stamp /\ dirs[cmd[p].at] = None /\ \A t \in Stamp \ {cmd[p].at} : dirs'[t] = dirs[t]
    BY DEF Publish, TypeOK, Command
  <1> QED
    BY <1>1 DEF Valid, Listed

LEMMA RemovalValid ==
    ASSUME TypeOK, NEW p \in Process, NEW s \in Stamp, RemovePart(p, s) \/ RemoveDir(p, s)
    PROVE  /\ Valid' = Valid \/ (s \in cmd[p].doomed /\ Valid' = Valid \ {s})
           /\ dirs'[s] = dirs[s] \/ s \in cmd[p].doomed \/ s \notin Valid
           /\ \A t \in Stamp \ {s} : dirs'[t] = dirs[t]
  <1>1. \A t \in Stamp \ {s} : dirs'[t] = dirs[t]
    BY DEF RemovePart, RemoveDir, TypeOK
  <1>2. CASE RemovePart(p, s)
    <2>1. dirs[s] \in Directory /\ s \in cmd[p].doomed
      BY <1>2 DEF RemovePart, TypeOK
    <2>2. ASSUME NEW d \in Directory, dirs' = [dirs EXCEPT ![s] = d], d.manifest \in {Missing, dirs[s].manifest}
          PROVE  Valid' = Valid \/ Valid' = Valid \ {s}
      <3>1. dirs'[s] = d /\ d # None /\ dirs[s] # None
        BY <2>1, <2>2, BackupAssumption DEF TypeOK
      <3>2. \A t \in Stamp \ {s} : t \in Valid' <=> t \in Valid
        BY <1>1 DEF Valid, Listed
      <3>3. s \in Valid' => s \in Valid
        BY <2>2, <3>1 DEF Valid, Listed
      <3> QED
        BY <3>2, <3>3, ValidAreStamps
    <2>3. ASSUME NEW i \in Item, dirs' = [dirs EXCEPT ![s].copies[i] = Missing]
          PROVE  Valid' = Valid \/ Valid' = Valid \ {s}
      <3>1. /\ [dirs[s] EXCEPT !.copies[i] = Missing] \in Directory
            /\ [dirs[s] EXCEPT !.copies[i] = Missing].manifest = dirs[s].manifest
        BY <2>1, ItemFacts DEF Directory, Hashes
      <3> QED
        BY <2>2, <2>3, <3>1
    <2>4. CASE dirs' = [dirs EXCEPT ![s].manifest = Missing]
      <3>1. PICK d \in Directory : d = [dirs[s] EXCEPT !.manifest = Missing]
        BY <2>1 DEF Directory
      <3>2. d.manifest \in {Missing, dirs[s].manifest}
        BY <2>1, <3>1 DEF Directory
      <3>3. dirs' = [dirs EXCEPT ![s] = d]
        BY <2>4, <3>1
      <3> QED
        BY <1>1, <2>1, <2>2, <3>2, <3>3
    <2> QED
      BY <1>1, <1>2, <2>1, <2>3, <2>4 DEF RemovePart
  <1>3. CASE RemoveDir(p, s)
    <2>1. s \in cmd[p].doomed
      BY <1>3 DEF RemoveDir
    <2>2. dirs' = dirs \/ (s \notin Valid /\ dirs'[s] = None)
      BY <1>3 DEF RemoveDir, EmptyDir, Valid, Listed, TypeOK
    <2>3. Valid' = Valid
      BY <1>1, <2>2 DEF Valid, Listed
    <2> QED
      BY <1>1, <2>1, <2>3
  <1> QED
    BY <1>2, <1>3

LEMMA NewestStep ==
    ASSUME TypeOK, HistoryOK, StampInv, NewestInv, NEW p \in Process, Step(p)
    PROVE  NewestInv'
  <1>1. Frame(p)
    BY StepFrame
  <1>2. CASE List(p)
    <2>1. dirs' = dirs /\ Valid' = Valid /\ reused' = reused
      BY <1>2 DEF List, Valid, Listed, history, stamps
    <2>2. cmd[p].limit \in Nat \ {0} /\ cmd'[p].doomed = Listed \ Kept(cmd[p].limit)
      BY <1>2 DEF List, TypeOK, Command
    <2>3. ASSUME NEW s \in Newest(Valid, 1)
          PROVE  s \notin cmd'[p].doomed
      <3>1. Valid # {}
        BY <2>3 DEF Newest
      <3>2. s \in Newest(Valid, cmd[p].limit)
        BY <2>2, <2>3, NewestFacts, ValidAreStamps
      <3> QED
        BY <2>2, <3>1, <3>2 DEF Kept
    <2>4. ASSUME NEW q \in Process, NEW s \in Newest(Valid, 1) \cap cmd'[q].doomed
          PROVE  \E t \in reused' : t >= s
      BY <1>1, <2>1, <2>3, <2>4 DEF NewestInv, Frame
    <2> QED
      BY <2>1, <2>4 DEF NewestInv
  <1>3. CASE ~List(p)
    <2>1. reused \subseteq reused' /\ \A q \in Process : cmd'[q].doomed \subseteq cmd[q].doomed
      BY <1>1, <1>3, StepDoomed DEF Frame
    <2>2. CASE dirs' = dirs
      <3>1. Valid' = Valid
        BY <2>2 DEF Valid, Listed
      <3> QED
        BY <2>1, <3>1, NewestKept
    <2>3. CASE Publish(p)
      <3>1. cmd[p].at \in Stamp /\ p \in Filling /\ cmd[p].doomed = {}
        BY <2>3 DEF Publish, Filling, At, TypeOK, Command
      <3>2. cmd[p].at \in reused \/ \A q \in Process : cmd[p].at \notin cmd[q].doomed
        BY <3>1 DEF StampInv, Uses
      <3> QED
        BY <2>1, <2>3, <3>1, <3>2, PublishValid, NewestKept
    <2>4. ASSUME NEW s \in Stamp, RemovePart(p, s) \/ RemoveDir(p, s)
          PROVE  NewestInv'
      BY <2>1, <2>4, RemovalValid, NewestKept
    <2> QED
      BY <2>2, <2>3, <2>4, StepDirs
  <1> QED
    BY <1>2, <1>3

\* No command touches the newest valid backup.
LEMMA NewestUntouched ==
    ASSUME TypeOK, HistoryOK, NewestInv, [Next]_vars, NEW s \in Newest(Valid, 1)
    PROVE  dirs'[s] = dirs[s] \/ failures' # failures \/ \E t \in reused : t >= s
  <1>1. s \in Valid /\ s \in Stamp /\ dirs[s] # None
    BY DEF Newest, Valid, Listed
  <1>2. CASE dirs' = dirs
    BY <1>2
  <1>3. ASSUME NEW t \in Stamp, Rot(t)
        PROVE  failures' # failures
    BY <1>3 DEF Rot, Fail, HistoryOK
  <1>4. ASSUME NEW p \in Process, Publish(p)
        PROVE  dirs'[s] = dirs[s]
    BY <1>1, <1>4 DEF Publish, TypeOK
  <1>5. ASSUME NEW p \in Process, NEW t \in Stamp, RemovePart(p, t) \/ RemoveDir(p, t)
        PROVE  dirs'[s] = dirs[s] \/ \E r \in reused : r >= s
    <2>1. CASE t = s /\ s \in cmd[p].doomed
      BY <2>1 DEF NewestInv
    <2>2. CASE t # s \/ s \notin cmd[p].doomed
      BY <1>1, <1>5, <2>2, RemovalValid
    <2> QED
      BY <2>1, <2>2
  <1>6. ASSUME NEW p \in Process, Step(p)
        PROVE  dirs'[s] = dirs[s] \/ \E r \in reused : r >= s
    BY <1>6, <1>4, <1>5, StepDirs
  <1> QED
    BY <1>2, <1>3, <1>6 DEF Next, Tick, Commit, Edit, vars

\* No command touches the newest valid backup, whatever list it decided on and
\* whoever backs up at the same time.
THEOREM NewestIsNeverPruned == Spec => NewestValidSurvives
  <1> DEFINE Inv == TypeOK /\ HistoryOK /\ StampInv /\ NewestInv
  <1>1. Init => Inv
    BY InitTypes, HistoryInit, StampInit, NewestInit
  <1>2. Inv /\ [Next]_vars => Inv'
    BY NextTypes, HistoryNext, StampNext, NewestStep, NewestEnvironment DEF Next, Environment
  <1>3. Inv /\ [Next]_vars => [\A s \in Newest(Valid, 1) :
            dirs'[s] = dirs[s] \/ failures' # failures \/ \E t \in reused : t >= s]_vars
    BY NewestUntouched
  <1> QED
    BY <1>1, <1>2, <1>3, PTL DEF Spec, NewestValidSurvives

-----------------------------------------------------------------------------
(* The snapshot lives as long as its command reads it.                     *)

LEMMA SnapshotInit == Init => SnapshotLivesWithItsCommand
  BY IdleFacts DEF Init, SnapshotLivesWithItsCommand, Reading, Filling, Making, At

\* A reader that keeps its variables keeps its snapshot, or it is recorded that it
\* lost it.
LEMMA ReaderKept ==
    ASSUME TypeOK, SnapshotLivesWithItsCommand, NEW q \in Process, q \in Reading,
           Undisturbed(q), cmd'[q] = cmd[q], edited \subseteq edited'
    PROVE  snapshots'[cmd[q].since] \in Version \/ <<cmd[q].at, Database>> \in edited'
  <1>1. CASE <<cmd[q].at, Database>> \in edited \cup edited'
    BY <1>1
  <1>2. CASE <<cmd[q].at, Database>> \notin edited \cup edited'
    <2>1. snapshots[cmd[q].since] \in Version
      BY <1>2 DEF SnapshotLivesWithItsCommand
    <2>2. Source(q, Database)' = Source(q, Database)
      BY <1>2, ItemFacts DEF Undisturbed
    <2>3. Source(q, Database) = snapshots[cmd[q].since]
      BY <2>1, ItemFacts DEF Source
    <2> QED
      BY <2>1, <2>2, <2>3, ItemFacts DEF Source
  <1> QED
    BY <1>1, <1>2

LEMMA SnapshotEnvironment ==
    ASSUME TypeOK, SnapshotLivesWithItsCommand, Environment
    PROVE  SnapshotLivesWithItsCommand'
  <1>1. /\ cmd' = cmd /\ snapshots' = snapshots /\ abandoned' = abandoned /\ edited \subseteq edited'
        /\ \A q \in Process : Undisturbed(q)
    BY EnvironmentFrame
  <1> QED
    BY <1>1 DEF SnapshotLivesWithItsCommand, Reading, Filling, Making, At

\* What a step makes of its own snapshot.
OwnSnapshot(p) ==
    /\ p \in Reading' => snapshots'[cmd'[p].since] \in Version \/ <<cmd'[p].at, Database>> \in edited'
    /\ p \in Making /\ (p \notin Making' \/ cmd'[p].since # cmd[p].since) =>
          snapshots'[cmd[p].since] = None \/ cmd[p].since \in abandoned'

LEMMA BackupStepSnapshot ==
    ASSUME TypeOK, SnapshotLivesWithItsCommand, NEW p \in Process,
           \/ StartBackup(p) \/ TakeSnapshot(p) \/ SnapshotFails(p)
           \/ \E i \in Item : HashFile(p, i) \/ CopyFile(p, i)
           \/ HashFails(p) \/ CopyFails(p) \/ WriteManifest(p) \/ Publish(p) \/ PublishRefused(p) \/ Reclaim(p)
    PROVE  OwnSnapshot(p)
  <1> USE DEF OwnSnapshot, Making, Filling, Reading, At
  <1>1. /\ cmd[p].since \in Stamp
        /\ p \in Reading => snapshots[cmd[p].since] \in Version \/ <<cmd[p].at, Database>> \in edited
    BY DEF SnapshotLivesWithItsCommand, TypeOK, Command
  <1>2. CASE StartBackup(p)
    <2>1. cmd[p].pc = "idle" /\ cmd'[p].pc = "snapshot"
      BY <1>2 DEF StartBackup, Call, TypeOK, Command
    <2> QED
      BY <2>1
  <1>3. CASE TakeSnapshot(p)
    <2>1. /\ cmd[p].pc = "snapshot" /\ cmd'[p].pc = "hash" /\ cmd'[p].since = cmd[p].since
          /\ cmd'[p].at = now
      BY <1>3 DEF TakeSnapshot, TypeOK, Command
    <2>2. snapshots'[cmd[p].since] \in Version \/ Sharing(p) # {}
      BY <1>1, <1>3 DEF TakeSnapshot, TypeOK
    <2>3. Sharing(p) # {} => <<now, Database>> \in edited'
      BY <1>3 DEF TakeSnapshot
    <2> QED
      BY <2>1, <2>2, <2>3
  <1>4. CASE SnapshotFails(p)
    BY <1>4, LeaveCalm DEF SnapshotFails
  <1>5. ASSUME NEW i \in Item, HashFile(p, i)
        PROVE  OwnSnapshot(p)
    <2>1. /\ cmd[p].pc = "hash" /\ cmd'[p].pc \in {"hash", "copy"} /\ cmd'[p].since = cmd[p].since
          /\ cmd'[p].at = cmd[p].at
      BY <1>5 DEF HashFile, TypeOK, Command
    <2>2. /\ snapshots' = snapshots /\ edited' = edited
          /\ snapshots[cmd[p].since] \in Version \/ <<cmd[p].at, Database>> \in edited
      BY <1>1, <1>5, <2>1 DEF HashFile, history, changes
    <2> QED
      BY <1>1, <2>1, <2>2
  <1>6. ASSUME NEW i \in Item, CopyFile(p, i)
        PROVE  OwnSnapshot(p)
    <2>1. /\ cmd[p].pc = "copy" /\ cmd'[p].pc \in {"copy", "manifest"} /\ cmd'[p].since = cmd[p].since
          /\ cmd'[p].at = cmd[p].at
      BY <1>6 DEF CopyFile, TypeOK, Command
    <2>2. /\ snapshots' = snapshots /\ edited' = edited
          /\ snapshots[cmd[p].since] \in Version \/ <<cmd[p].at, Database>> \in edited
      BY <1>1, <1>6, <2>1 DEF CopyFile, history, changes
    <2> QED
      BY <1>1, <2>1, <2>2
  <1>7. CASE HashFails(p) \/ CopyFails(p) \/ PublishRefused(p)
    <2>1. Leave(p) /\ (snapshots'[cmd[p].since] = None \/ cmd[p].since \in abandoned')
      BY <1>1, <1>7 DEF HashFails, CopyFails, PublishRefused, DropSnapshot, TypeOK
    <2> QED
      BY <2>1, LeaveCalm
  <1>8. CASE WriteManifest(p) \/ Publish(p)
    <2>1. cmd[p].pc \in {"manifest", "publish"} /\ cmd'[p].pc \in {"publish", "reclaim"} /\ cmd'[p].since = cmd[p].since
      BY <1>8 DEF WriteManifest, Publish, TypeOK, Command
    <2> QED
      BY <2>1
  <1>9. CASE Reclaim(p)
    <2>1. cmd'[p].pc = "list" /\ (snapshots'[cmd[p].since] = None \/ cmd[p].since \in abandoned')
      BY <1>1, <1>9, IdleFacts DEF Reclaim, DropSnapshot, TypeOK, Command
    <2> QED
      BY <2>1
  <1> QED
    BY <1>2, <1>3, <1>4, <1>5, <1>6, <1>7, <1>8, <1>9

LEMMA OtherStepSnapshot ==
    ASSUME TypeOK, NEW p \in Process,
           \/ StartCleanup(p) \/ Sweep(p) \/ List(p) \/ PruneDone(p)
           \/ \E s \in Stamp : RemovePart(p, s) \/ RemoveDir(p, s) \/ StartRestore(p, s)
           \/ \E i \in Item : RestoreFile(p, i)
           \/ RestoreEnds(p) \/ Crash(p)
    PROVE  OwnSnapshot(p)
  <1> USE DEF OwnSnapshot, Making, Filling, Reading, At
  <1>1. CASE StartCleanup(p)
    <2>1. cmd[p].pc = "idle" /\ cmd'[p].pc = "sweep"
      BY <1>1 DEF StartCleanup, Call, TypeOK, Command
    <2> QED
      BY <2>1
  <1>2. CASE Sweep(p) \/ List(p)
    <2>1. cmd[p].pc \in {"sweep", "list"} /\ cmd'[p].pc \in {"list", "remove"}
      BY <1>2 DEF Sweep, List, TypeOK, Command
    <2> QED
      BY <2>1
  <1>3. CASE PruneDone(p) \/ RestoreEnds(p)
    BY <1>3, LeaveCalm DEF PruneDone, RestoreEnds
  <1>4. CASE Crash(p)
    BY <1>4, LeaveCalm DEF Crash
  <1>5. ASSUME NEW s \in Stamp, RemovePart(p, s) \/ RemoveDir(p, s)
        PROVE  OwnSnapshot(p)
    <2>1. cmd[p].pc = "remove" /\ cmd'[p].pc = "remove"
      BY <1>5 DEF RemovePart, RemoveDir, TypeOK, Command
    <2> QED
      BY <2>1
  <1>6. ASSUME NEW s \in Stamp, StartRestore(p, s)
        PROVE  OwnSnapshot(p)
    <2>1. cmd[p].pc = "idle" /\ cmd'[p].pc = "restore"
      BY <1>6 DEF StartRestore, Call, TypeOK, Command
    <2> QED
      BY <2>1
  <1>7. ASSUME NEW i \in Item, RestoreFile(p, i)
        PROVE  OwnSnapshot(p)
    <2>1. cmd[p].pc = "restore" /\ cmd'[p].pc = "restore"
      BY <1>7 DEF RestoreFile, TypeOK, Command
    <2> QED
      BY <2>1
  <1> QED
    BY <1>1, <1>2, <1>3, <1>4, <1>5, <1>6, <1>7

LEMMA SnapshotStep ==
    ASSUME TypeOK, SnapshotLivesWithItsCommand, NEW p \in Process, Step(p)
    PROVE  SnapshotLivesWithItsCommand'
  <1>1. Frame(p) /\ OwnSnapshot(p)
    BY StepFrame, BackupStepSnapshot, OtherStepSnapshot DEF Step
  <1>2. \A q \in Process \ {p} : (q \in Making' <=> q \in Making) /\ (q \in Reading' <=> q \in Reading)
    BY <1>1, OthersKept
  <1>3. ASSUME NEW q \in Reading'
        PROVE  snapshots'[cmd'[q].since] \in Version \/ <<cmd'[q].at, Database>> \in edited'
    <2>1. q \in Process
      BY DEF Reading, At
    <2>2. CASE q = p
      BY <1>1, <2>2 DEF OwnSnapshot
    <2>3. CASE q # p
      <3>1. q \in Reading /\ cmd'[q] = cmd[q] /\ Undisturbed(q) /\ edited \subseteq edited'
        BY <1>1, <1>2, <2>1, <2>3 DEF Frame
      <3> QED
        BY <2>1, <3>1, ReaderKept
    <2> QED
      BY <2>2, <2>3
  <1>4. ASSUME NEW s \in Stamp, snapshots'[s] # None, s \notin abandoned'
        PROVE  \E q \in Making' : cmd'[q].since = s
    <2>1. CASE p \in Making /\ cmd[p].since = s
      BY <1>1, <1>4, <2>1 DEF OwnSnapshot
    <2>2. CASE ~(p \in Making /\ cmd[p].since = s)
      <3>1. snapshots[s] # None /\ s \notin abandoned
        BY <1>1, <1>4, <2>2 DEF Frame
      <3>2. PICK q \in Making : cmd[q].since = s
        BY <3>1 DEF SnapshotLivesWithItsCommand
      <3>3. q # p /\ q \in Process
        BY <2>2, <3>2 DEF Making, Filling, At
      <3> QED
        BY <1>1, <1>2, <3>2, <3>3 DEF Frame
    <2> QED
      BY <2>1, <2>2
  <1> QED
    BY <1>3, <1>4 DEF SnapshotLivesWithItsCommand

LEMMA SnapshotNext == TypeOK /\ SnapshotLivesWithItsCommand /\ [Next]_vars => SnapshotLivesWithItsCommand'
  BY SnapshotEnvironment, SnapshotStep DEF Next, Environment

\* A snapshot is there as long as its command reads it, unless a command of the
\* same second touched it, and is left behind only by a command that died or whose
\* removal failed.
THEOREM SnapshotsAreOwned == Spec => []SnapshotLivesWithItsCommand
  BY InitTypes, NextTypes, SnapshotInit, SnapshotNext, PTL DEF Spec

-----------------------------------------------------------------------------
(* What a backup under way has hashed and copied.                          *)

\* The hash of an item is the item's as long as it has not changed, and the item
\* is there as long as it has not gone.
Hashed(p, i) ==
    cmd[p].hashes[i] # Missing =>
        /\ <<cmd[p].at, i>> \notin edited => Source(p, i) = cmd[p].hashes[i]
        /\ <<cmd[p].at, i>> \notin deleted => Source(p, i) # Missing

\* So is the copy in directory d of backup s, with the hash in h.
Copied(d, h, s, i) ==
    h[i] # Missing =>
        /\ <<s, i>> \notin edited => d.copies[i] = h[i]
        /\ <<s, i>> \notin deleted => d.copies[i] # Missing

Filled(p) ==
    /\ cmd[p].pc = "hash" => \A i \in Item \ cmd[p].todo : Hashed(p, i)
    /\ cmd[p].pc = "copy" => \A i \in cmd[p].todo : Hashed(p, i)
    /\ cmd[p].pc # "hash" =>
          /\ tmp[cmd[p].at] # None
          /\ \A i \in Item : cmd[p].pc # "copy" \/ i \notin cmd[p].todo =>
                Copied(tmp[cmd[p].at], cmd[p].hashes, cmd[p].at, i)
    /\ cmd[p].pc # "hash" \/ Database \notin cmd[p].todo =>
          cmd[p].hashes[Database] # Missing \/ <<cmd[p].at, Database>> \in edited
    /\ cmd[p].pc = "publish" => tmp[cmd[p].at].manifest = cmd[p].hashes

FillInv == \A p \in Filling : cmd[p].at \notin reused => Filled(p)

\* What one command hashed is another's business only if that changes its sources.
LEMMA HashedKept ==
    ASSUME NEW r \in Reading, NEW i \in Item, Hashed(r, i), cmd'[r] = cmd[r], Undisturbed(r),
           edited \subseteq edited', deleted \subseteq deleted'
    PROVE  Hashed(r, i)'
  BY DEF Hashed, Undisturbed

LEMMA FilledKept ==
    ASSUME TypeOK, NEW r \in Filling, Filled(r), cmd'[r] = cmd[r], Undisturbed(r),
           tmp'[cmd[r].at] = tmp[cmd[r].at], edited \subseteq edited', deleted \subseteq deleted'
    PROVE  Filled(r)'
  <1>1. cmd[r].pc \in {"hash", "copy"} => r \in Reading
    BY DEF Filling, Reading, At
  <1>2. ASSUME cmd[r].pc \in {"hash", "copy"}, NEW i \in Item, Hashed(r, i)
        PROVE  Hashed(r, i)'
    BY <1>1, <1>2, HashedKept
  <1>3. ASSUME NEW i \in Item, Copied(tmp[cmd[r].at], cmd[r].hashes, cmd[r].at, i)
        PROVE  Copied(tmp[cmd[r].at], cmd[r].hashes, cmd[r].at, i)'
    BY <1>3 DEF Copied
  <1>4. cmd[r].todo \subseteq Item
    BY DEF TypeOK, Command, Filling, At
  <1> QED
    BY <1>2, <1>3, <1>4 DEF Filled

LEMMA FilledOthers ==
    ASSUME TypeOK, StampInv, NEW p \in Process, Frame(p),
           NEW r \in Filling', r # p, cmd[r].at \notin reused, r \in Filling => Filled(r)
    PROVE  Filled(r)'
  <1>1. r \in Process /\ r \in Filling /\ cmd'[r] = cmd[r] /\ cmd[r].at \in Stamp
    BY OthersKept DEF Frame, Filling, At, TypeOK, Command
  <1>2. cmd[r].at \notin Uses(p)
    BY <1>1 DEF StampInv
  <1>3. tmp'[cmd[r].at] = tmp[cmd[r].at]
    BY <1>1, <1>2 DEF Frame, Uses
  <1> QED
    BY <1>1, <1>3, FilledKept DEF Frame

LEMMA HashFills ==
    ASSUME TypeOK, SnapshotLivesWithItsCommand, NEW p \in Process, NEW i \in Item, HashFile(p, i), Filled(p)
    PROVE  Filled(p)'
  <1> DEFINE last == cmd[p].todo = {i}
  <1>1. /\ cmd[p].pc = "hash" /\ i \in cmd[p].todo /\ cmd[p].at \in Stamp /\ cmd[p].since \in Stamp
        /\ snapshots' = snapshots /\ current' = current /\ edited' = edited /\ deleted' = deleted
        /\ i = Database => last
    BY DEF HashFile, Turn, TypeOK, Command, history, changes
  <1>2. /\ cmd'[p].pc = IF last THEN "copy" ELSE "hash"
        /\ cmd'[p].todo = IF last THEN Present \cup {Database} ELSE cmd[p].todo \ {i}
        /\ cmd'[p].at = cmd[p].at /\ cmd'[p].since = cmd[p].since
        /\ cmd'[p].hashes = [cmd[p].hashes EXCEPT ![i] = Source(p, i)]
        /\ cmd[p].hashes \in [Item -> Content]
    BY <1>1 DEF HashFile, TypeOK, Command, Hashes
  <1>3. /\ \A j \in Item : Source(p, j)' = Source(p, j)
        /\ cmd'[p].hashes[i] = Source(p, i)
        /\ \A j \in Item \ {i} : cmd'[p].hashes[j] = cmd[p].hashes[j]
    BY <1>1, <1>2 DEF Source
  <1>4. ASSUME NEW j \in Item, last \/ j \notin cmd'[p].todo
        PROVE  Hashed(p, j)'
    <2>1. CASE j = i
      BY <1>3, <2>1 DEF Hashed
    <2>2. CASE j # i
      <3>1. Hashed(p, j)
        BY <1>1, <1>2, <1>4, <2>2 DEF Filled
      <3> QED
        BY <1>1, <1>2, <1>3, <2>2, <3>1 DEF Hashed
    <2> QED
      BY <2>1, <2>2
  <1>5. last => tmp'[cmd'[p].at] = EmptyDir /\ EmptyDir # None
    BY <1>1, <1>2, IdleFacts, BackupAssumption DEF HashFile, TypeOK
  <1>6. ASSUME last, NEW j \in Item, j \notin cmd'[p].todo
        PROVE  Copied(tmp[cmd[p].at], cmd[p].hashes, cmd[p].at, j)'
    <2>1. j \in File /\ Source(p, j)' = Missing
      <3>1. j \in File /\ j # Database /\ current[j] = Missing
        BY <1>2, <1>6, ItemFacts DEF Present, Item
      <3> QED
        BY <1>3, <3>1 DEF Source
    <2>2. Hashed(p, j)'
      BY <1>4, <1>6
    <2> QED
      BY <2>1, <2>2 DEF Hashed, Copied
  <1>7. last \/ Database \notin cmd'[p].todo =>
          cmd'[p].hashes[Database] # Missing \/ <<cmd'[p].at, Database>> \in edited'
    <2>1. CASE i = Database
      <3>1. snapshots[cmd[p].since] \in Version \/ <<cmd[p].at, Database>> \in edited
        BY <1>1 DEF SnapshotLivesWithItsCommand, Reading, At
      <3>2. snapshots[cmd[p].since] \in Version => Source(p, Database) # Missing
        BY ItemFacts DEF Source
      <3> QED
        BY <1>1, <1>2, <1>3, <2>1, <3>1, <3>2
    <2>2. CASE i # Database
      BY <1>1, <1>2, <1>3, <2>2, ItemFacts DEF Filled
    <2> QED
      BY <2>1, <2>2
  <1>8. Present \cup {Database} \subseteq Item
    BY ItemFacts DEF Present
  <1> QED
    <2>1. CASE last
      BY <1>2, <1>4, <1>5, <1>6, <1>7, <1>8, <2>1 DEF Filled
    <2>2. CASE ~last
      BY <1>2, <1>4, <1>7, <2>2 DEF Filled
    <2> QED
      BY <2>1, <2>2

LEMMA CopyFills ==
    ASSUME TypeOK, NEW p \in Process, NEW i \in Item, CopyFile(p, i), Filled(p)
    PROVE  Filled(p)'
  <1>1. /\ cmd[p].pc = "copy" /\ i \in cmd[p].todo /\ cmd[p].at \in Stamp
        /\ snapshots' = snapshots /\ current' = current /\ edited' = edited /\ deleted' = deleted
    BY DEF CopyFile, Turn, TypeOK, Command, history, changes
  <1>2. /\ cmd'[p].pc = IF cmd[p].todo = {i} THEN "manifest" ELSE "copy"
        /\ cmd'[p].todo = cmd[p].todo \ {i}
        /\ cmd'[p].at = cmd[p].at /\ cmd'[p].since = cmd[p].since /\ cmd'[p].hashes = cmd[p].hashes
    BY <1>1 DEF CopyFile, TypeOK, Command
  <1>3. tmp[cmd[p].at] \in Directory
    BY <1>1 DEF Filled, TypeOK
  <1>4. PICK d \in Directory : d = [tmp[cmd[p].at] EXCEPT !.copies[i] = Source(p, i)]
    BY <1>3, SourceTypes DEF Directory, Hashes
  <1>5. tmp'[cmd[p].at] = d /\ d # None
    <2>1. tmp[cmd[p].at] # None
      BY <1>3, BackupAssumption
    <2>2. tmp' = [tmp EXCEPT ![cmd[p].at] = d]
      BY <1>4, <2>1 DEF CopyFile
    <2> QED
      BY <1>1, <2>2, BackupAssumption DEF TypeOK
  <1>6. d.copies[i] = Source(p, i) /\ \A j \in Item \ {i} : d.copies[j] = tmp[cmd[p].at].copies[j]
    BY <1>3, <1>4 DEF Directory, Hashes
  <1>7. ASSUME NEW j \in cmd[p].todo
        PROVE  Hashed(p, j)'
    <2>1. Hashed(p, j)
      BY <1>1 DEF Filled
    <2>2. Source(p, j)' = Source(p, j)
      BY <1>1, <1>2 DEF Source
    <2> QED
      BY <1>1, <1>2, <2>1, <2>2 DEF Hashed
  <1>8. ASSUME NEW j \in Item, j = i \/ j \notin cmd[p].todo
        PROVE  Copied(tmp[cmd[p].at], cmd[p].hashes, cmd[p].at, j)'
    <2>1. CASE j = i
      <3>1. Hashed(p, j)
        BY <1>1, <2>1 DEF Filled
      <3> QED
        BY <1>1, <1>2, <1>5, <1>6, <2>1, <3>1 DEF Copied, Hashed
    <2>2. CASE j # i
      <3>1. Copied(tmp[cmd[p].at], cmd[p].hashes, cmd[p].at, j)
        BY <1>1, <1>8, <2>2 DEF Filled
      <3> QED
        BY <1>1, <1>2, <1>5, <1>6, <2>2, <3>1 DEF Copied
    <2> QED
      BY <2>1, <2>2
  <1>9. cmd'[p].hashes[Database] # Missing \/ <<cmd'[p].at, Database>> \in edited'
    BY <1>1, <1>2 DEF Filled
  <1>10. \A j \in Item : cmd'[p].pc # "copy" \/ j \notin cmd'[p].todo =>
            Copied(tmp[cmd[p].at], cmd[p].hashes, cmd[p].at, j)'
    BY <1>2, <1>8
  <1> QED
    BY <1>2, <1>5, <1>7, <1>9, <1>10 DEF Filled

LEMMA ManifestFills ==
    ASSUME TypeOK, NEW p \in Process, WriteManifest(p), Filled(p)
    PROVE  Filled(p)'
  <1>1. /\ cmd[p].pc = "manifest" /\ cmd[p].at \in Stamp /\ tmp[cmd[p].at] \in Directory
        /\ edited' = edited /\ deleted' = deleted
    BY DEF WriteManifest, TypeOK, Command, history, changes
  <1>2. /\ cmd'[p].pc = "publish" /\ cmd'[p].at = cmd[p].at /\ cmd'[p].since = cmd[p].since
        /\ cmd'[p].hashes = cmd[p].hashes
    BY DEF WriteManifest, TypeOK, Command
  <1>3. PICK d \in Directory : d = [tmp[cmd[p].at] EXCEPT !.manifest = cmd[p].hashes]
    BY <1>1 DEF Directory, TypeOK, Command
  <1>4. d.manifest = cmd[p].hashes /\ d.copies = tmp[cmd[p].at].copies
    BY <1>1, <1>3 DEF Directory
  <1>5. tmp'[cmd[p].at] = d /\ d # None
    BY <1>1, <1>3, BackupAssumption DEF WriteManifest, TypeOK
  <1> QED
    BY <1>1, <1>2, <1>4, <1>5 DEF Filled, Copied

LEMMA FillInit == Init => FillInv
  BY IdleFacts DEF Init, FillInv, Filling, At

\* A process that was not making a backup has hashed nothing of the one it starts.
LEMMA FillStep ==
    ASSUME TypeOK, StampInv, SnapshotLivesWithItsCommand, FillInv, NEW p \in Process, Step(p)
    PROVE  FillInv'
  <1>1. Frame(p)
    BY StepFrame
  <1>2. ASSUME NEW r \in Filling', r # p, cmd'[r].at \notin reused'
        PROVE  Filled(r)'
    <2>1. r \in Filling /\ cmd'[r].at = cmd[r].at /\ cmd[r].at \notin reused
      BY <1>1, <1>2, OthersKept DEF Frame, Filling, At
    <2> QED
      BY <1>1, <1>2, <2>1, FilledOthers DEF FillInv
  <1>3. ASSUME p \in Filling', cmd'[p].at \notin reused'
        PROVE  Filled(p)'
    <2>1. CASE TakeSnapshot(p)
      <3>1. /\ cmd'[p].pc = "hash" /\ Database \in cmd'[p].todo /\ cmd'[p].hashes = NoHashes
        BY <2>1 DEF TakeSnapshot, TypeOK, Command
      <3>2. \A i \in Item : cmd'[p].hashes[i] = Missing
        BY <3>1 DEF NoHashes
      <3> QED
        BY <3>1, <3>2 DEF Filled, Hashed
    <2>2. CASE ~TakeSnapshot(p)
      <3>1. p \in Filling /\ Filled(p)
        BY <1>3, <2>2, StepCalm DEF Calm, FillInv
      <3>2. CASE \E i \in Item : HashFile(p, i) \/ CopyFile(p, i)
        BY <3>1, <3>2, HashFills, CopyFills
      <3>3. CASE WriteManifest(p)
        BY <3>1, <3>3, ManifestFills
      <3>4. CASE SnapshotFails(p) \/ HashFails(p) \/ CopyFails(p) \/ PublishRefused(p) \/ Crash(p)
        BY <1>3, <3>4, LeaveCalm DEF SnapshotFails, HashFails, CopyFails, PublishRefused, Crash
      <3>5. CASE Publish(p)
        <4>1. cmd'[p].pc = "reclaim"
          BY <3>5 DEF Publish, TypeOK, Command
        <4> QED
          BY <1>3, <4>1 DEF Filling, At
      <3> QED
        BY <2>2, <3>1, <3>2, <3>3, <3>4, <3>5
        DEF Step, StartBackup, Reclaim, StartCleanup, Call, Sweep, List, PruneDone, RemovePart, RemoveDir,
            StartRestore, RestoreFile, RestoreEnds, Filling, At
    <2> QED
      BY <2>1, <2>2
  <1> QED
    BY <1>2, <1>3 DEF FillInv

LEMMA FillEnvironment ==
    ASSUME TypeOK, FillInv,
           Environment
    PROVE  FillInv'
  <1>1. /\ cmd' = cmd /\ tmp' = tmp /\ snapshots' = snapshots /\ reused' = reused
        /\ \A q \in Process : Undisturbed(q)
        /\ edited \subseteq edited' /\ deleted \subseteq deleted'
    BY EnvironmentFrame
  <1>2. \A r \in Filling' : r \in Filling /\ r \in Process
    BY <1>1 DEF Filling, At
  <1> QED
    BY <1>1, <1>2, FilledKept DEF FillInv

-----------------------------------------------------------------------------
(* What a published directory holds.                                       *)

PublishedInv ==
    \A s \in Listed \ (worn \cup reused) :
        /\ s \in Valid /\ \A i \in Item : Copied(dirs[s], dirs[s].manifest, s, i)
        /\ dirs[s].manifest[Database] # Missing \/ <<s, Database>> \in edited

\* A directory that is worn: what is left of it is as it was, or cannot be used.
Decays(s) ==
    /\ s \in worn' /\ dirs[s] # None
    /\ dirs'[s].manifest \in {dirs[s].manifest, Missing, Broken}
    /\ \A i \in Item : dirs'[s].copies[i] \in {dirs[s].copies[i], Missing, Broken}

\* All that can happen to a directory.
LEMMA Wears ==
    ASSUME TypeOK, NEW s \in Stamp, dirs[s] # None, s \in worn',
           \/ \E i \in Item : \E v \in {Missing, Broken} : dirs' = [dirs EXCEPT ![s].copies[i] = v]
           \/ \E v \in {Missing, Broken} : dirs' = [dirs EXCEPT ![s].manifest = v]
    PROVE  Decays(s) /\ \A t \in Stamp \ {s} : dirs'[t] = dirs[t]
  <1>1. dirs[s] \in Directory
    BY DEF TypeOK
  <1>2. ASSUME NEW i \in Item, NEW v \in {Missing, Broken}, dirs' = [dirs EXCEPT ![s].copies[i] = v]
        PROVE  Decays(s)
    <2>1. PICK d \in Directory : d = [dirs[s] EXCEPT !.copies[i] = v]
      BY <1>1, ItemFacts DEF Directory, Hashes
    <2>2. d.manifest = dirs[s].manifest /\ \A j \in Item : d.copies[j] \in {dirs[s].copies[j], Missing, Broken}
      BY <1>1, <2>1 DEF Directory, Hashes
    <2>3. dirs'[s] = d
      BY <1>2, <2>1 DEF TypeOK
    <2> QED
      BY <2>2, <2>3 DEF Decays
  <1>3. ASSUME NEW v \in {Missing, Broken}, dirs' = [dirs EXCEPT ![s].manifest = v]
        PROVE  Decays(s)
    <2>1. PICK d \in Directory : d = [dirs[s] EXCEPT !.manifest = v]
      BY <1>1 DEF Directory
    <2>2. d.manifest = v /\ d.copies = dirs[s].copies
      BY <1>1, <2>1 DEF Directory
    <2>3. dirs'[s] = d
      BY <1>3, <2>1 DEF TypeOK
    <2> QED
      BY <2>2, <2>3 DEF Decays
  <1>4. \A t \in Stamp \ {s} : dirs'[t] = dirs[t]
    BY DEF TypeOK
  <1> QED
    BY <1>2, <1>3, <1>4

LEMMA DirectoryChange ==
    ASSUME TypeOK, [Next]_vars, NEW t \in Stamp
    PROVE  \/ dirs'[t] = dirs[t] /\ (t \in worn => t \in worn')
           \/ dirs'[t] = None
           \/ Decays(t)
           \/ \E p \in Process : Publish(p) /\ t = cmd[p].at
  <1> DEFINE Goal == \/ dirs'[t] = dirs[t] /\ (t \in worn => t \in worn')
                     \/ dirs'[t] = None
                     \/ Decays(t)
                     \/ \E p \in Process : Publish(p) /\ t = cmd[p].at
  <1>1. CASE dirs' = dirs /\ worn' = worn
    BY <1>1
  <1>2. ASSUME NEW s \in Stamp, Rot(s) \/ \E p \in Process : RemovePart(p, s)
        PROVE  Goal
    <2>1. /\ s \in worn' /\ dirs[s] # None /\ worn \subseteq worn'
          /\ \/ \E i \in Item : \E v \in {Missing, Broken} : dirs' = [dirs EXCEPT ![s].copies[i] = v]
             \/ \E v \in {Missing, Broken} : dirs' = [dirs EXCEPT ![s].manifest = v]
      BY <1>2 DEF Rot, RemovePart
    <2> QED
      BY <2>1, Wears
  <1>3. ASSUME NEW s \in Stamp, NEW p \in Process, RemoveDir(p, s)
        PROVE  Goal
    BY <1>3 DEF RemoveDir, TypeOK
  <1>4. ASSUME NEW p \in Process, Publish(p)
        PROVE  Goal
    BY <1>4 DEF Publish, TypeOK, Command, history
  <1>5. ASSUME NEW p \in Process, Step(p)
        PROVE  Goal
    BY <1>1, <1>2, <1>3, <1>4, <1>5
    DEF Step, StartBackup, TakeSnapshot, SnapshotFails, HashFile, CopyFile, RestoreFile, HashFails, CopyFails,
        WriteManifest, PublishRefused, Reclaim, StartCleanup, Sweep, List, PruneDone, StartRestore,
        RestoreEnds, Crash, history
  <1> QED
    BY <1>1, <1>2, <1>5 DEF Next, Tick, Commit, Edit, vars, history

LEMMA PublishedInit == Init => PublishedInv
  <1> SUFFICES ASSUME Init PROVE PublishedInv
    OBVIOUS
  <1>1. ASSUME NEW s \in Listed
        PROVE  dirs[s] = Whole \/ (dirs[s] = Headless /\ s \in worn)
    BY <1>1 DEF Init, Listed
  <1>2. Headless.manifest = Broken
    BY DEF Headless, Whole
  <1>3. /\ Whole.manifest \in Hashes /\ Whole.manifest \notin {Missing, Broken}
        /\ \A i \in Item : Whole.copies[i] = Whole.manifest[i] /\ Whole.manifest[i] # Missing
    <2>1. 0 \in Version
      BY BackupAssumption DEF Version
    <2>2. Whole.manifest \in Hashes
      BY <2>1, ItemFacts DEF Whole, Hashes
    <2>3. \A i \in Item : Whole.copies[i] = 0 /\ Whole.manifest[i] = 0
      BY DEF Whole
    <2> QED
      BY <2>1, <2>2, <2>3, ItemFacts, BackupAssumption
  <1> QED
    BY <1>1, <1>2, <1>3, ItemFacts DEF PublishedInv, Copied, Valid, Listed

\* A backup is published with what it has hashed and copied.
LEMMA PublishWell ==
    ASSUME TypeOK, FillInv, NEW p \in Process, NEW s \in Stamp, Publish(p), s = cmd[p].at, s \notin reused
    PROVE  /\ s \in Valid'
           /\ \A i \in Item : Copied(dirs[s], dirs[s].manifest, s, i)'
           /\ dirs'[s].manifest[Database] # Missing \/ <<s, Database>> \in edited'
  <1>1. /\ cmd[p].pc = "publish" /\ cmd[p].hashes \in Hashes /\ tmp[s] # None
        /\ edited' = edited /\ deleted' = deleted
    BY DEF Publish, TypeOK, Command, history, changes
  <1>2. Filled(p)
    BY <1>1 DEF FillInv, Filling, At
  <1>3. dirs'[s] = tmp[s] /\ tmp[s].manifest = cmd[p].hashes
    BY <1>1, <1>2 DEF Publish, TypeOK, Filled
  <1>4. s \in Valid'
    BY <1>1, <1>3, BackupAssumption DEF Valid, Listed
  <1>5. /\ \A i \in Item : Copied(tmp[s], cmd[p].hashes, s, i)
        /\ cmd[p].hashes[Database] # Missing \/ <<s, Database>> \in edited
    BY <1>1, <1>2 DEF Filled
  <1> QED
    BY <1>1, <1>3, <1>4, <1>5 DEF Copied

LEMMA PublishedNext ==
    ASSUME TypeOK, FillInv, PublishedInv, [Next]_vars
    PROVE  PublishedInv'
  <1>1. edited \subseteq edited' /\ deleted \subseteq deleted' /\ reused \subseteq reused'
    BY StepFrame, EnvironmentFrame DEF Next, Frame, Environment
  <1>2. ASSUME NEW s \in Listed', s \notin worn', s \notin reused'
        PROVE  /\ s \in Valid' /\ \A i \in Item : Copied(dirs[s], dirs[s].manifest, s, i)'
               /\ dirs'[s].manifest[Database] # Missing \/ <<s, Database>> \in edited'
    <2>1. s \in Stamp /\ dirs'[s] # None /\ s \notin reused
      BY <1>1, <1>2 DEF Listed
    <2>2. CASE dirs'[s] = dirs[s] /\ (s \in worn => s \in worn')
      <3>1. /\ s \in Valid /\ \A i \in Item : Copied(dirs[s], dirs[s].manifest, s, i)
            /\ dirs[s].manifest[Database] # Missing \/ <<s, Database>> \in edited
        BY <1>2, <2>1, <2>2 DEF PublishedInv, Listed
      <3> QED
        BY <1>1, <2>1, <2>2, <3>1 DEF Valid, Listed, Copied
    <2>3. CASE \E p \in Process : Publish(p) /\ s = cmd[p].at
      <3>1. PICK p \in Process : Publish(p) /\ s = cmd[p].at
        BY <2>3
      <3> QED
        BY <2>1, <3>1, PublishWell
    <2> QED
      BY <1>2, <2>1, <2>2, <2>3, DirectoryChange DEF Decays
  <1> QED
    BY <1>2 DEF PublishedInv

-----------------------------------------------------------------------------
(* A restore.                                                              *)

RestoreInv ==
    \A p \in Process : cmd[p].pc = "restore" =>
        /\ \A i \in cmd[p].todo : cmd[p].hashes[i] # Missing
        /\ cmd[p].at \notin reused /\ dirs[cmd[p].at] # None =>
              \A i \in File : cmd[p].hashes[i] # Missing =>
                  dirs[cmd[p].at].copies[i] \in {cmd[p].hashes[i], Broken, Missing}

LEMMA HashStage ==
    ASSUME TypeOK, NEW p \in Process, NEW i \in Item, HashFile(p, i)
    PROVE  cmd'[p].pc \in {"hash", "copy"}
  BY DEF HashFile, TypeOK, Command

\* A restore keeps what it read of the manifest; it starts with a verified backup.
LEMMA Restoring ==
    ASSUME TypeOK, [Next]_vars, NEW p \in Process, cmd'[p].pc = "restore"
    PROVE  \/ /\ cmd[p].pc = "restore" /\ cmd'[p].at = cmd[p].at /\ cmd'[p].hashes = cmd[p].hashes
              /\ cmd'[p].todo = cmd[p].todo \/ \E i \in Item : RestoreFile(p, i) /\ cmd'[p].todo = cmd[p].todo \ {i}
           \/ /\ StartRestore(p, cmd'[p].at) /\ cmd'[p].at \in Stamp /\ cmd'[p].hashes = dirs[cmd'[p].at].manifest
              /\ \A i \in cmd'[p].todo : cmd'[p].hashes[i] # Missing
  <1> DEFINE Goal == \/ /\ cmd[p].pc = "restore" /\ cmd'[p].at = cmd[p].at /\ cmd'[p].hashes = cmd[p].hashes
                        /\ cmd'[p].todo = cmd[p].todo \/ \E i \in Item : RestoreFile(p, i) /\ cmd'[p].todo = cmd[p].todo \ {i}
                     \/ /\ StartRestore(p, cmd'[p].at) /\ cmd'[p].at \in Stamp /\ cmd'[p].hashes = dirs[cmd'[p].at].manifest
                        /\ \A i \in cmd'[p].todo : cmd'[p].hashes[i] # Missing
  <1>1. CASE cmd'[p] = cmd[p]
    BY <1>1
  <1>2. ASSUME Step(p)
        PROVE  Goal
    <2>1. ~Leave(p)
      BY IdleFacts DEF Leave, TypeOK
    <2>2. /\ ~StartBackup(p) /\ ~TakeSnapshot(p) /\ ~WriteManifest(p) /\ ~Publish(p) /\ ~Reclaim(p)
          /\ ~StartCleanup(p) /\ ~Sweep(p) /\ ~List(p)
      BY IdleFacts DEF StartBackup, TakeSnapshot, WriteManifest, Publish, Reclaim, StartCleanup, Sweep,
                       List, TypeOK, Command
    <2>3. ASSUME NEW i \in Item, HashFile(p, i) \/ CopyFile(p, i) \/ RestoreFile(p, i)
          PROVE  Goal
      <3>1. ~HashFile(p, i)
        BY HashStage
      <3>2. ~CopyFile(p, i)
        BY DEF CopyFile, TypeOK, Command
      <3>3. cmd[p].pc = "restore" /\ cmd'[p] = [cmd[p] EXCEPT !.todo = @ \ {i}]
        BY <2>3, <3>1, <3>2 DEF RestoreFile, TypeOK
      <3>4. cmd'[p].at = cmd[p].at /\ cmd'[p].hashes = cmd[p].hashes /\ cmd'[p].todo = cmd[p].todo \ {i}
        BY <3>3 DEF TypeOK, Command
      <3> QED
        BY <2>3, <3>1, <3>2, <3>3, <3>4
    <2>4. ASSUME NEW s \in Stamp, RemovePart(p, s) \/ RemoveDir(p, s) \/ StartRestore(p, s)
          PROVE  Goal
      <3>1. CASE RemovePart(p, s)
        BY <1>1, <3>1 DEF RemovePart
      <3>2. ~RemoveDir(p, s)
        BY DEF RemoveDir, TypeOK, Command
      <3>3. CASE StartRestore(p, s)
        <4>1. /\ cmd'[p].at = s /\ cmd'[p].hashes = dirs[s].manifest
              /\ \A i \in cmd'[p].todo : cmd'[p].hashes[i] # Missing
          BY <3>3 DEF StartRestore, TypeOK, Command
        <4> QED
          BY <3>3, <4>1
      <3> QED
        BY <2>4, <3>1, <3>2, <3>3
    <2> QED
      BY <1>2, <2>1, <2>2, <2>3, <2>4
      DEF Step, SnapshotFails, HashFails, CopyFails, PublishRefused, PruneDone, RestoreEnds, Crash
  <1>3. ASSUME NEW q \in Process, q # p, Step(q)
        PROVE  cmd'[p] = cmd[p]
    BY <1>3, StepFrame DEF Frame
  <1> QED
    BY <1>1, <1>2, <1>3, EnvironmentFrame DEF Next, Environment

LEMMA RestoreInit == Init => RestoreInv
  BY IdleFacts DEF Init, RestoreInv

LEMMA RestoreNext ==
    ASSUME TypeOK, StampInv, RestoreInv, [Next]_vars
    PROVE  RestoreInv'
  <1>0. ASSUME NEW p \in Process, cmd'[p].pc = "restore", NEW i \in cmd'[p].todo
        PROVE  cmd'[p].hashes[i] # Missing
    BY <1>0, Restoring DEF RestoreInv
  <1> SUFFICES ASSUME NEW p \in Process, cmd'[p].pc = "restore", cmd'[p].at \notin reused',
                      dirs'[cmd'[p].at] # None, NEW i \in File, cmd'[p].hashes[i] # Missing
               PROVE  dirs'[cmd'[p].at].copies[i] \in {cmd'[p].hashes[i], Broken, Missing}
    BY <1>0 DEF RestoreInv
  <1> DEFINE s == cmd'[p].at
  <1>1. reused \subseteq reused' /\ s \notin reused /\ i \in Item
    BY StepFrame, EnvironmentFrame, ItemFacts DEF Next, Frame, Environment
  <1>2. CASE StartRestore(p, s) /\ s \in Stamp /\ cmd'[p].hashes = dirs[s].manifest
    <2>1. dirs' = dirs /\ dirs[s] # None /\ Verifies(dirs[s])
      BY <1>2 DEF StartRestore
    <2> QED
      BY <1>1, <1>2, <2>1 DEF Verifies
  <1>3. CASE cmd[p].pc = "restore" /\ cmd'[p].at = cmd[p].at /\ cmd'[p].hashes = cmd[p].hashes
    <2>1. s \in Stamp /\ s \in Uses(p)
      BY <1>3 DEF TypeOK, Command, Uses
    <2>2. ASSUME NEW q \in Process, Publish(q)
          PROVE  s # cmd[q].at
      <3>1. q \in Filling /\ p # q
        BY <1>3, <2>2 DEF Publish, Filling, At
      <3> QED
        BY <1>1, <2>1, <3>1 DEF StampInv
    <2>3. dirs[s] # None => dirs[s].copies[i] \in {cmd[p].hashes[i], Broken, Missing}
      BY <1>1, <1>3 DEF RestoreInv
    <2>4. dirs[s] # None /\ dirs'[s].copies[i] \in {dirs[s].copies[i], Missing, Broken}
      BY <1>1, <2>1, <2>2, DirectoryChange DEF Decays
    <2> QED
      BY <1>3, <2>3, <2>4
  <1> QED
    BY <1>2, <1>3, Restoring

\* What a restore writes.
LEMMA RestoreWrites ==
    ASSUME TypeOK, RestoreInv, [Next]_vars, NEW p \in Process, cmd[p].pc = "restore",
           cmd'[p].pc = "restore", cmd[p].at \notin reused, NEW i \in cmd[p].todo \ cmd'[p].todo
    PROVE  current'[i] \in {cmd[p].hashes[i], Broken}
  <1>1. PICK j \in Item : RestoreFile(p, j) /\ cmd'[p].todo = cmd[p].todo \ {j}
    BY Restoring DEF StartRestore, Call
  <1>2. j = i /\ i \in File /\ i \in Item
    BY <1>1, ItemFacts DEF TypeOK
  <1>3. /\ current'[i] = dirs[cmd[p].at].copies[i]
        /\ dirs[cmd[p].at] # None /\ dirs[cmd[p].at].copies[i] # Missing
    BY <1>1, <1>2 DEF RestoreFile, Found, TypeOK
  <1> QED
    BY <1>2, <1>3 DEF RestoreInv

-----------------------------------------------------------------------------
(* The properties.                                                         *)

Inv ==
    /\ TypeOK /\ HistoryOK /\ StampInv
    /\ SnapshotLivesWithItsCommand /\ FillInv /\ PublishedInv /\ RestoreInv

LEMMA InvInit == Init => Inv
  BY InitTypes, HistoryInit, StampInit, SnapshotInit, FillInit, PublishedInit, RestoreInit DEF Inv

LEMMA InvNext == Inv /\ [Next]_vars => Inv'
  <1> SUFFICES ASSUME Inv, [Next]_vars PROVE Inv'
    OBVIOUS
  <1>1. TypeOK' /\ HistoryOK' /\ StampInv'
    BY NextTypes, HistoryNext, StampNext DEF Inv
  <1>2. SnapshotLivesWithItsCommand'
    BY SnapshotNext DEF Inv
  <1>3. FillInv'
    BY FillStep, FillEnvironment DEF Inv, Next, Environment
  <1>4. PublishedInv' /\ RestoreInv'
    BY PublishedNext, RestoreNext DEF Inv
  <1> QED
    BY <1>1, <1>2, <1>3, <1>4 DEF Inv

\* A directory that is listed as a backup holds every file its manifest lists,
\* but for those deleted between hash and copy, whenever commands die or fail.
THEOREM InterruptedNeverLooksComplete == Spec => []PublishedIsComplete
  <1>1. Inv => PublishedIsComplete
    BY DEF Inv, PublishedInv, Copied, PublishedIsComplete
  <1> QED
    BY <1>1, InvInit, InvNext, PTL DEF Spec

\* ... and what did not change while it was made can be restored from it.
THEOREM BackupsAreFaithful == Spec => []OnlyEditsSpoilBackups
  <1>1. Inv => OnlyEditsSpoilBackups
    BY DEF Inv, PublishedInv, Copied, OnlyEditsSpoilBackups
  <1> QED
    BY <1>1, InvInit, InvNext, PTL DEF Spec

\* A restore writes nothing that had not matched its manifest, whatever is pruned,
\* published or edited meanwhile.
THEOREM RestoresAreVerified == Spec => RestoreWritesWhatWasRecorded
  <1>1. Inv /\ [Next]_vars =>
          [\A p \in Process : cmd[p].pc = "restore" /\ cmd'[p].pc = "restore" /\ cmd[p].at \notin reused =>
             \A i \in cmd[p].todo \ cmd'[p].todo : current'[i] \in {cmd[p].hashes[i], Broken}]_vars
    BY RestoreWrites DEF Inv
  <1> QED
    BY <1>1, InvInit, InvNext, PTL DEF Spec, RestoreWritesWhatWasRecorded
=============================================================================
