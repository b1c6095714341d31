------------------------------ MODULE Backups ------------------------------
(***************************************************************************)
(* Backups (storage/backup.py) as `storage backup`, `storage restore` and  *)
(* `storage cleanup` (cli.py) make, restore and prune them, each in a      *)
(* process of its own, beside an owner who edits the files and a disk that *)
(* decays.                                                                 *)
(*                                                                         *)
(* A directory backup-<stamp> is a manifest, which gives each file the     *)
(* version it was hashed in, and the copies, each in a version of its own. *)
(* Versions stand for contents and for their SHA-256.                      *)
(***************************************************************************)
EXTENDS Integers, FiniteSets

CONSTANTS
    Process,      \* the timer's and the operator's commands
    File,         \* the files of the configuration
    Database,     \* the database, copied from a snapshot
    Keep,         \* retention.backups_keep
    None,         \* no directory
    Missing,      \* no file
    Broken,       \* content that cannot be parsed, or fails its hash
    First,        \* the second that commands start at, after others that made backups
    MaxTime, MaxVersion, MaxCommands, MaxFailures, MaxEdits  \* bounds

Stamp == 1..MaxTime
Version == 0..MaxVersion
Item == File \cup {Database}

\* What a file can hold; what a backup's directory holds.
Content == Version \cup {Missing, Broken}
Hashes == [Item -> Content]
Directory == [manifest: Hashes \cup {Missing, Broken}, copies: Hashes]

ASSUME BackupAssumption ==
    /\ Keep \in Nat \ {0} /\ Database \notin File
    /\ MaxTime \in Nat /\ First \in 1..MaxTime /\ MaxVersion \in Nat
    /\ MaxCommands \in Nat /\ MaxFailures \in Nat /\ MaxEdits \in Nat
    /\ None \notin Int /\ Missing \notin Int /\ Broken \notin Int
    /\ Missing # Broken /\ None # Missing /\ None # Broken
    /\ Missing \notin Hashes /\ Broken \notin Hashes /\ None \notin Directory

VARIABLES
    now,
    current,    \* the configuration files and the database
    dirs,       \* backup-<stamp>
    tmp,        \* .backup-<stamp>.tmp
    snapshots,  \* .db-snapshot-<stamp>: the database's version in it
    cmd,        \* the commands, with their local variables
    \* bounds and history
    commands, failures, edits,
    edited,     \* <<backup, item>>: the item changed while the backup read it
    deleted,    \* ... or went
    worn,       \* backups that decayed, or that a removal has touched
    abandoned,  \* stamps of commands that died, or could not make or remove their snapshot
    taken,      \* stamps of backups
    reused      \* ... that a second backup took

changes == <<edited, deleted>>
stamps == <<taken, reused>>
history == <<commands, failures, edits, changes, worn, abandoned, stamps>>
vars == <<now, current, dirs, tmp, snapshots, cmd, history>>

NoHashes == [i \in Item |-> Missing]
EmptyDir == [manifest |-> Missing, copies |-> NoHashes]

\* since and at are the stamps of the snapshot and of the backup, hashes the
\* manifest, todo the files still to hash, copy or restore, limit how many
\* backups pruning keeps, doomed the directories still to remove.
Idle == [pc |-> "idle", since |-> First, at |-> First, hashes |-> NoHashes, todo |-> {},
         limit |-> Keep, doomed |-> {}]

\* Backups made before: whole, or with a manifest that cannot be read.
Whole == [manifest |-> [i \in Item |-> 0], copies |-> [i \in Item |-> 0]]
Headless == [Whole EXCEPT !.manifest = Broken]

Init ==
    /\ now = First
    /\ current \in {c \in [Item -> {0, Missing}] : c[Database] = 0}
    /\ dirs \in {d \in [Stamp -> {None, Whole, Headless}] : \A s \in First..MaxTime : d[s] = None}
    /\ worn = {s \in Stamp : dirs[s] = Headless}
    /\ tmp = [s \in Stamp |-> None] /\ snapshots = [s \in Stamp |-> None]
    /\ cmd = [p \in Process |-> Idle]
    /\ commands = 0 /\ failures = 0 /\ edits = 0 /\ edited = {} /\ deleted = {} /\ abandoned = {}
    /\ taken = {} /\ reused = {}

Fail == failures < MaxFailures /\ failures' = failures + 1
Call(p) == cmd[p].pc = "idle" /\ commands < MaxCommands /\ commands' = commands + 1
Leave(p) == cmd' = [cmd EXCEPT ![p] = Idle]

\* The processes that are making a backup, and some of its stages.
At(steps) == {p \in Process : cmd[p].pc \in steps}
Reading == At({"hash", "copy"})
Filling == At({"hash", "copy", "manifest", "publish"})
Making == Filling \cup At({"snapshot", "reclaim"})

-----------------------------------------------------------------------------
(* The environment.                                                        *)

Tick ==
    /\ now < MaxTime
    /\ now' = now + 1
    /\ UNCHANGED <<current, dirs, tmp, snapshots, cmd, history>>

\* The owner edits, adds or deletes a file.
Edit(i) ==
    /\ edits < MaxEdits /\ edits' = edits + 1
    /\ \E c \in (Version \cup {Missing}) \ {current[i]} :
          /\ current' = [current EXCEPT ![i] = c]
          /\ deleted' = deleted \cup {<<cmd[p].at, i>> : p \in {q \in Reading : c = Missing}}
    /\ edited' = edited \cup {<<cmd[p].at, i>> : p \in Reading}
    /\ UNCHANGED <<now, dirs, tmp, snapshots, cmd, commands, failures, worn, abandoned, stamps>>

\* Another process commits to the database.
Commit ==
    /\ current[Database] < MaxVersion /\ edits < MaxEdits
    /\ edits' = edits + 1
    /\ current' = [current EXCEPT ![Database] = @ + 1]
    /\ UNCHANGED <<now, dirs, tmp, snapshots, cmd, commands, failures, changes, worn, abandoned, stamps>>

\* A published copy decays; a manifest does so while nothing is being pruned.
Rot(s) ==
    /\ dirs[s] # None
    /\ Fail
    /\ \/ \E i \in Item :
             /\ dirs[s].copies[i] \in Version
             /\ dirs' = [dirs EXCEPT ![s].copies[i] = Broken]
       \/ /\ dirs[s].manifest \notin {Missing, Broken} /\ At({"remove"}) = {}
          /\ dirs' = [dirs EXCEPT ![s].manifest = Broken]
    /\ worn' = worn \cup {s}
    /\ UNCHANGED <<now, current, tmp, snapshots, cmd, commands, edits, changes, abandoned, stamps>>

\* The process dies; what it wrote stays.
Crash(p) ==
    /\ cmd[p].pc # "idle"
    /\ Fail
    /\ Leave(p)
    /\ abandoned' = abandoned \cup {cmd[q].since : q \in Making \cap {p}}
    /\ UNCHANGED <<now, current, dirs, tmp, snapshots, commands, edits, changes, worn, stamps>>

-----------------------------------------------------------------------------
(* storage backup --apply.                                                 *)

StartBackup(p) ==
    /\ Call(p)
    /\ cmd' = [cmd EXCEPT ![p].pc = "snapshot", ![p].since = now]
    /\ UNCHANGED <<now, current, dirs, tmp, snapshots, edits, failures, changes, worn, abandoned, stamps>>

\* The other commands that use the snapshot's directory: it is named after the
\* second, and so is the temporary file that it is made in. To change it is to
\* change the database under those of them that read it.
Sharing(p) == {q \in Making \ {p} : cmd[q].since = cmd[p].since}
Disturbed(p) == {<<cmd[q].at, Database>> : q \in Sharing(p) \cap Reading}

\* The files that are there.
Present == {i \in File : current[i] # Missing}

\* backup_database, then create_backup takes its own stamp and lists the files. Of
\* two that copy into one file at once, either may get what is half made.
TakeSnapshot(p) ==
    /\ cmd[p].pc = "snapshot"
    /\ \E c \in {current[Database]} \cup {Broken : q \in Sharing(p) \cap At({"snapshot"})} :
          snapshots' = [snapshots EXCEPT ![cmd[p].since] = c]
    /\ edited' = edited \cup Disturbed(p) \cup {<<now, Database>> : q \in Sharing(p)}
    /\ cmd' = [cmd EXCEPT ![p].pc = "hash", ![p].at = now, ![p].hashes = NoHashes,
                          ![p].todo = Present \cup {Database}]
    /\ taken' = taken \cup {now}
    /\ reused' = reused \cup (taken \cap {now})
    /\ UNCHANGED <<now, current, dirs, tmp, commands, edits, failures, deleted, worn, abandoned>>

\* It raises: this is before the try, so the directory made for it stays.
SnapshotFails(p) ==
    /\ cmd[p].pc = "snapshot"
    /\ Fail
    /\ snapshots' = [snapshots EXCEPT ![cmd[p].since] = Broken]
    /\ edited' = edited \cup Disturbed(p)
    /\ abandoned' = abandoned \cup {cmd[p].since}
    /\ Leave(p)
    /\ UNCHANGED <<now, current, dirs, tmp, commands, edits, deleted, worn, stamps>>

\* Mutant: the database is read where it is written.
SourceLive(p, i) == current[i]

\* What create_backup finds of a file: the database is read from the snapshot.
Source(p, i) ==
    CASE i # Database -> current[i]
      [] i = Database /\ snapshots[cmd[p].since] # None -> snapshots[cmd[p].since]
      [] OTHER -> Missing

\* The files come first, then the snapshot; what was listed and is gone cannot be
\* read, but a snapshot that went before it was listed is passed over.
Turn(p, i) ==
    /\ i \in cmd[p].todo
    /\ IF i = Database THEN cmd[p].todo = {i} ELSE Source(p, i) # Missing
Gone(p) == \E i \in cmd[p].todo : Source(p, i) = Missing

\* First all files are hashed; then the temporary directory is made anew and the
\* files are listed AGAIN.
HashFile(p, i) ==
    /\ cmd[p].pc = "hash" /\ Turn(p, i)
    /\ LET last == cmd[p].todo = {i}
       IN /\ cmd' = [cmd EXCEPT ![p].hashes[i] = Source(p, i),
                                ![p].todo = IF last THEN Present \cup {Database} ELSE @ \ {i},
                                ![p].pc = IF last THEN "copy" ELSE @]
          /\ tmp' = IF last THEN [tmp EXCEPT ![cmd[p].at] = EmptyDir] ELSE tmp
    /\ UNCHANGED <<now, current, dirs, snapshots, history>>

\* shutil.copy2 of one file; its parents are made when they are gone.
CopyFile(p, i) ==
    /\ cmd[p].pc = "copy" /\ Turn(p, i)
    /\ LET dir == IF tmp[cmd[p].at] = None THEN EmptyDir ELSE tmp[cmd[p].at]
       IN tmp' = [tmp EXCEPT ![cmd[p].at] = [dir EXCEPT !.copies[i] = Source(p, i)]]
    /\ cmd' = [cmd EXCEPT ![p].todo = @ \ {i},
                          ![p].pc = IF cmd[p].todo = {i} THEN "manifest" ELSE @]
    /\ UNCHANGED <<now, current, dirs, snapshots, history>>

\* finally: the snapshot goes (ignore_errors: it may stay, and nobody is told).
MayFail == Fail \/ UNCHANGED failures
DropSnapshot(p) ==
    \/ /\ snapshots' = [snapshots EXCEPT ![cmd[p].since] = None]
       /\ edited' = edited \cup Disturbed(p) /\ deleted' = deleted \cup Disturbed(p)
       /\ UNCHANGED abandoned
    \/ /\ failures' # failures
       /\ abandoned' = abandoned \cup {cmd[p].since}
       /\ UNCHANGED <<snapshots, changes>>

\* except: the temporary directory goes, or stays in the same way.
DropTemporary(p) ==
    \/ tmp' = [tmp EXCEPT ![cmd[p].at] = None]
    \/ failures' # failures /\ UNCHANGED tmp

\* Before the try: a listed file has gone, cannot be read, or the directory cannot
\* be made.
HashFails(p) ==
    /\ cmd[p].pc = "hash"
    /\ Fail \/ (Gone(p) /\ UNCHANGED failures)
    /\ DropSnapshot(p) /\ Leave(p)
    /\ UNCHANGED <<now, current, dirs, tmp, commands, edits, worn, stamps>>

\* A listed file has gone, or the disk is full.
CopyFails(p) ==
    /\ cmd[p].pc \in {"copy", "manifest", "publish"}
    /\ Fail \/ (cmd[p].pc = "copy" /\ Gone(p) /\ MayFail)
    /\ DropTemporary(p) /\ DropSnapshot(p) /\ Leave(p)
    /\ UNCHANGED <<now, current, dirs, commands, edits, worn, stamps>>

\* Mutant: the manifest does not wait for the copies.
WriteManifestFirst(p) ==
    /\ cmd[p].pc \in {"copy", "manifest"} /\ tmp[cmd[p].at] # None
    /\ tmp' = [tmp EXCEPT ![cmd[p].at].manifest = cmd[p].hashes]
    /\ cmd' = [cmd EXCEPT ![p].pc = "publish"]
    /\ UNCHANGED <<now, current, dirs, snapshots, history>>

WriteManifest(p) ==
    /\ cmd[p].pc = "manifest" /\ tmp[cmd[p].at] # None
    /\ tmp' = [tmp EXCEPT ![cmd[p].at].manifest = cmd[p].hashes]
    /\ cmd' = [cmd EXCEPT ![p].pc = "publish"]
    /\ UNCHANGED <<now, current, dirs, snapshots, history>>

\* os.replace of the directory.
Publish(p) ==
    /\ cmd[p].pc = "publish" /\ dirs[cmd[p].at] = None /\ tmp[cmd[p].at] # None
    /\ dirs' = [dirs EXCEPT ![cmd[p].at] = tmp[cmd[p].at]]
    /\ tmp' = [tmp EXCEPT ![cmd[p].at] = None]
    /\ cmd' = [cmd EXCEPT ![p].pc = "reclaim"]
    /\ UNCHANGED <<now, current, snapshots, history>>

\* The name is taken, or the directory was another's and is gone.
PublishRefused(p) ==
    /\ cmd[p].pc \in {"manifest", "publish"}
    /\ tmp[cmd[p].at] = None \/ (cmd[p].pc = "publish" /\ dirs[cmd[p].at] # None)
    /\ MayFail
    /\ DropTemporary(p) /\ DropSnapshot(p) /\ Leave(p)
    /\ UNCHANGED <<now, current, dirs, commands, edits, worn, stamps>>

\* Whether the snapshot went or not, the command goes on to prune.
Reclaim(p) ==
    /\ cmd[p].pc = "reclaim"
    /\ MayFail
    /\ DropSnapshot(p)
    /\ cmd' = [cmd EXCEPT ![p] = [Idle EXCEPT !.pc = "list"]]
    /\ UNCHANGED <<now, current, dirs, tmp, commands, edits, worn, stamps>>

-----------------------------------------------------------------------------
(* prune_backups and storage cleanup --apply.                              *)

\* list_backups calls a backup valid when its manifest can be read.
Listed == {s \in Stamp : dirs[s] # None}
Valid == {s \in Listed : dirs[s].manifest \notin {Missing, Broken}}
Newest(S, n) == {s \in S : Cardinality({t \in S : t > s}) < n}

\* Mutant: the list is taken in the order of the directory names.
KeptOldest(n) ==
    IF Valid # {} THEN {s \in Valid : Cardinality({t \in Valid : t < s}) < n}
    ELSE Newest(Listed, 1)

\* The newest valid backups; with none, the newest entry, for inspection.
Kept(n) == IF Valid # {} THEN Newest(Valid, n) ELSE Newest(Listed, 1)

\* What cleanup_action_for answers for each band of the disk, the actions whose
\* plan has steps, and what they leave of the backups.
ActionFor == [healthy |-> "none", warning |-> "none",
              auto_cleanup |-> "routine", emergency |-> "aggressive"]
Cleaning == {"routine", "aggressive"}
LimitOf(action) == IF action = "aggressive" THEN 1 ELSE Keep

StartCleanup(p) ==
    /\ Call(p)
    /\ \E band \in DOMAIN ActionFor :
          /\ ActionFor[band] \in Cleaning
          /\ cmd' = [cmd EXCEPT ![p].pc = "sweep", ![p].limit = LimitOf(ActionFor[band])]
    /\ UNCHANGED <<now, current, dirs, tmp, snapshots, edits, failures, changes, worn, abandoned, stamps>>

\* Mutant: the sweep of temporary files goes into directories.
SweepAll(p) ==
    /\ cmd[p].pc = "sweep"
    /\ snapshots' = [s \in Stamp |-> None]
    /\ cmd' = [cmd EXCEPT ![p].pc = "list"]
    /\ UNCHANGED <<now, current, dirs, tmp, history>>

\* sweep_temp_dir: files of any age may go, directories are skipped.
Sweep(p) ==
    /\ cmd[p].pc = "sweep"
    /\ cmd' = [cmd EXCEPT ![p].pc = "list"]
    /\ UNCHANGED <<now, current, dirs, tmp, snapshots, history>>

\* prune_backups decides, on what it finds now.
List(p) ==
    /\ cmd[p].pc = "list"
    /\ cmd' = [cmd EXCEPT ![p].pc = "remove", ![p].doomed = Listed \ Kept(cmd[p].limit)]
    /\ UNCHANGED <<now, current, dirs, tmp, snapshots, history>>

\* shutil.rmtree takes a directory apart in any order.
RemovePart(p, s) ==
    /\ cmd[p].pc = "remove" /\ s \in cmd[p].doomed /\ dirs[s] # None
    /\ \/ \E i \in Item :
             /\ dirs[s].copies[i] # Missing
             /\ dirs' = [dirs EXCEPT ![s].copies[i] = Missing]
       \/ /\ dirs[s].manifest # Missing
          /\ dirs' = [dirs EXCEPT ![s].manifest = Missing]
    /\ worn' = worn \cup {s}
    /\ UNCHANGED <<now, current, tmp, snapshots, cmd, commands, edits, failures, changes, abandoned, stamps>>

\* ... and is done with it, or gives up (ignore_errors).
RemoveDir(p, s) ==
    /\ cmd[p].pc = "remove" /\ s \in cmd[p].doomed
    /\ \/ /\ dirs[s] \in {None, EmptyDir}
          /\ dirs' = [dirs EXCEPT ![s] = None] /\ worn' = worn \ {s}
          /\ UNCHANGED failures
       \/ Fail /\ UNCHANGED <<dirs, worn>>
    /\ cmd' = [cmd EXCEPT ![p].doomed = @ \ {s}]
    /\ UNCHANGED <<now, current, tmp, snapshots, commands, edits, changes, abandoned, stamps>>

PruneDone(p) ==
    /\ cmd[p].pc = "remove" /\ cmd[p].doomed = {}
    /\ Leave(p)
    /\ UNCHANGED <<now, current, dirs, tmp, snapshots, history>>

-----------------------------------------------------------------------------
(* storage restore --apply.                                                *)

\* Mutant: it is enough that every file is there.
VerifiesPresence(d) ==
    /\ d.manifest \notin {Missing, Broken}
    /\ \A i \in Item : d.manifest[i] # Missing => d.copies[i] # Missing

\* verify_backup: the manifest can be read, each file it lists is there and has
\* the hash it was recorded with.
Verifies(d) ==
    /\ d.manifest \notin {Missing, Broken}
    /\ \A i \in Item : d.manifest[i] # Missing => d.copies[i] = d.manifest[i]

\* restore_backup: verify first, refuse to restore anything if that fails.
StartRestore(p, s) ==
    /\ Call(p)
    /\ dirs[s] # None /\ Verifies(dirs[s])
    /\ cmd' = [cmd EXCEPT ![p].pc = "restore", ![p].at = s, ![p].hashes = dirs[s].manifest,
                          ![p].todo = {i \in File : dirs[s].manifest[i] # Missing}]
    /\ UNCHANGED <<now, current, dirs, tmp, snapshots, edits, failures, changes, worn, abandoned, stamps>>

\* The file is still where the manifest said.
Found(s, i) == dirs[s] # None /\ dirs[s].copies[i] # Missing

\* Copied beside the target and put in its place; it is not hashed again.
RestoreFile(p, i) ==
    /\ cmd[p].pc = "restore" /\ i \in cmd[p].todo /\ Found(cmd[p].at, i)
    /\ current' = [current EXCEPT ![i] = dirs[cmd[p].at].copies[i]]
    /\ cmd' = [cmd EXCEPT ![p].todo = @ \ {i}]
    /\ edited' = edited \cup {<<cmd[q].at, i>> : q \in Reading}
    /\ UNCHANGED <<now, dirs, tmp, snapshots, commands, edits, failures, deleted, worn, abandoned, stamps>>

\* All files are back, or one has gone since and the command ends in the middle.
RestoreEnds(p) ==
    /\ cmd[p].pc = "restore"
    /\ cmd[p].todo = {} \/ ~(\A i \in cmd[p].todo : Found(cmd[p].at, i))
    /\ Leave(p)
    /\ UNCHANGED <<now, current, dirs, tmp, snapshots, history>>

-----------------------------------------------------------------------------

Step(p) ==
    \/ StartBackup(p) \/ TakeSnapshot(p) \/ SnapshotFails(p)
    \/ \E i \in Item : HashFile(p, i) \/ CopyFile(p, i) \/ RestoreFile(p, i)
    \/ HashFails(p) \/ CopyFails(p) \/ WriteManifest(p) \/ Publish(p) \/ PublishRefused(p) \/ Reclaim(p)
    \/ StartCleanup(p) \/ Sweep(p) \/ List(p) \/ PruneDone(p)
    \/ \E s \in Stamp : RemovePart(p, s) \/ RemoveDir(p, s) \/ StartRestore(p, s)
    \/ RestoreEnds(p) \/ Crash(p)

Next ==
    \/ Tick
    \/ Commit
    \/ \E i \in File : Edit(i)
    \/ \E s \in Stamp : Rot(s)
    \/ \E p \in Process : Step(p)

Spec == Init /\ [][Next]_vars

-----------------------------------------------------------------------------
(***************************************************************************)
(* Properties.                                                             *)
(***************************************************************************)

\* A directory under a backup's name that nothing has worn since has its manifest
\* and every file the manifest lists, whenever commands die or fail, but for a
\* file that was deleted between its hash and its copy, and unless two backups
\* took its stamp ("an interrupted backup can never look complete", backup.py).
PublishedIsComplete ==
    \A s \in Listed \ (worn \cup reused) :
        /\ s \in Valid
        /\ \A i \in Item : dirs[s].manifest[i] # Missing /\ <<s, i>> \notin deleted =>
              dirs[s].copies[i] # Missing

\* What did not change while the backup was made can be restored from it, item by
\* item. Commits to the database are no excuse, it is hashed and copied from one
\* snapshot: only a command of the same second, which shares the snapshot, is.
OnlyEditsSpoilBackups ==
    \A s \in Listed \ (worn \cup reused) :
        /\ \A i \in Item : dirs[s].manifest[i] # Missing /\ <<s, i>> \notin edited =>
              dirs[s].copies[i] = dirs[s].manifest[i]
        /\ <<s, Database>> \notin edited => dirs[s].manifest[Database] # Missing

\* No command touches the newest valid backup, whatever the others do and on
\* whatever list it decided, unless two backups took its stamp or a later one ("The
\* single newest valid backup is never pruned").
NewestValidSurvives ==
    [][\A s \in Newest(Valid, 1) :
          dirs'[s] = dirs[s] \/ failures' # failures \/ \E t \in reused : t >= s]_vars

\* A restore writes what the manifest recorded or what decayed after it was
\* verified, never a copy that had not matched, unless two backups took the stamp
\* it restores ("refuse to restore anything").
RestoreWritesWhatWasRecorded ==
    [][\A p \in Process : cmd[p].pc = "restore" /\ cmd'[p].pc = "restore" /\ cmd[p].at \notin reused =>
          \A i \in cmd[p].todo \ cmd'[p].todo : current'[i] \in {cmd[p].hashes[i], Broken}]_vars

\* The snapshot is there as long as its command reads it, beside any cleanup and
\* any command of another second, and is left behind only by a command that died,
\* or whose attempt to make or to remove it failed, which nobody is told ("it must
\* never outlive this command", cli.py).
SnapshotLivesWithItsCommand ==
    /\ \A p \in Reading :
          snapshots[cmd[p].since] \in Version \/ <<cmd[p].at, Database>> \in edited
    /\ \A s \in Stamp : snapshots[s] # None =>
          s \in abandoned \/ \E p \in Making : cmd[p].since = s
=============================================================================
