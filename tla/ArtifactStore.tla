--------------------------- MODULE ArtifactStore ---------------------------
(***************************************************************************)
(* The content-addressed artifact store of one blocklist source            *)
(* (src/src/home_dns/storage/artifacts.py).  The directory of a source     *)
(* holds  artifacts/<sha>.txt  (the list),  artifacts/<sha>.json  (its     *)
(* metadata), the temporary files of writes in progress, and  state.json.  *)
(*                                                                         *)
(* Every file-system call that changes the directory is a step of its own, *)
(* so that a process can die, or another process can run, between any two  *)
(* of them.  A call with dry_run=True changes nothing and is a stutter.    *)
(* Opening, writing and syncing a temporary file is one step; the bytes of *)
(* a file are kept only as far as the hash check tells them apart: intact, *)
(* or in "rotten".                                                         *)
(***************************************************************************)
EXTENDS Naturals

CONSTANTS
    Process,    \* the commands that may work on the source's directory
    Sha,        \* artifact hashes, one per distinct list text
    NoSha,      \* the null of state.json
    Serialized, \* TRUE: the commands are run one after the other
    MaxFailures \* bound on the interrupted commands and failed deletions

ASSUME StoreAssumption ==
    /\ NoSha \notin Sha
    /\ Serialized \in BOOLEAN
    /\ MaxFailures \in Nat

VARIABLES
    state,   \* state.json: the three version pointers
    disk,    \* the files of artifacts/, as <<hash, extension>>
    rotten,  \* hashes whose .txt no longer matches its name
    pc,      \* where each command is
    target,  \* "sha" of the activation a command runs
    before,  \* the state the command read when it started
    doomed,  \* "prunable": the files the command has decided to delete
    skipped, \* history: the files it could not delete
    failures \* how many commands were interrupted, or deletions failed

vars == <<state, disk, rotten, pc, target, before, doomed, skipped, failures>>
local == <<target, before, doomed, skipped>>

TempExt == {"txt.tmp", "json.tmp"}
Ext == {"txt", "json"} \cup TempExt
SourceState == [current: Sha \cup {NoSha}, previous: Sha \cup {NoSha},
                backup: Sha \cup {NoSha}]
Activating == {"list", "write_txt", "rename_txt", "write_json",
               "rename_json", "verify", "switch"}
Label == Activating \cup {"idle", "prune", "rollback_verify",
                          "rollback_switch", "reconcile_list"}

TypeOK ==
    /\ state \in SourceState
    /\ disk \subseteq Sha \X Ext
    /\ rotten \subseteq Sha
    /\ pc \in [Process -> Label]
    /\ target \in [Process -> Sha \cup {NoSha}]
    /\ \A p \in Process : pc[p] \in Activating => target[p] \in Sha
    /\ before \in [Process -> SourceState]
    /\ doomed \in [Process -> SUBSET (Sha \X Ext)]
    /\ skipped \in [Process -> SUBSET (Sha \X Ext)]
    /\ failures \in 0..MaxFailures

retained(st) == {st.current, st.previous, st.backup} \ {NoSha}

\* Mutant: the shift forgets the oldest slot.
ActivatedKeepsBackup(st, s) ==
    [current |-> s, previous |-> st.current, backup |-> st.backup]

\* The pointers after activating s over the state st, and after a rollback.
Activated(st, s) ==
    [current |-> s, previous |-> st.current, backup |-> st.previous]
RolledBack(st) ==
    [current |-> st.previous, previous |-> st.current, backup |-> st.backup]

\* Mutant: temporary files of retained versions are spared.
prunableSparesTemp(keep) == {f \in disk : f[1] \notin keep}

\* What is not in keep, and every temporary file whatever its hash.
prunable(keep) == {f \in disk : f[1] \notin keep \/ f[2] \in TempExt}

\* read() succeeds: the file is there and hashes to its own name.
Readable(s) == <<s, "txt">> \in disk /\ s \notin rotten

Empty == [current |-> NoSha, previous |-> NoSha, backup |-> NoSha]

Init ==
    /\ state = Empty
    /\ disk = {}
    /\ rotten = {}
    /\ pc = [p \in Process |-> "idle"]
    /\ target = [p \in Process |-> NoSha]
    /\ before = [p \in Process |-> Empty]
    /\ doomed = [p \in Process |-> {}]
    /\ skipped = [p \in Process |-> {}]
    /\ failures = 0

-----------------------------------------------------------------------------
Goto(p, l) == pc' = [pc EXCEPT ![p] = l]

Fail == failures < MaxFailures /\ failures' = failures + 1

\* The command is over and its local variables are gone.
Return(p) ==
    /\ Goto(p, "idle")
    /\ target' = [target EXCEPT ![p] = NoSha]
    /\ before' = [before EXCEPT ![p] = Empty]
    /\ doomed' = [doomed EXCEPT ![p] = {}]
    /\ skipped' = [skipped EXCEPT ![p] = {}]

\* Nothing in the code takes a lock; "Serialized" is the operator's discipline.
MayStart(p) ==
    /\ pc[p] = "idle"
    /\ Serialized => \A q \in Process : pc[q] = "idle"

\* Mutant: the hash of the new text is not kept.
BeginActivateForgetsHash(p, s) ==
    /\ MayStart(p)
    /\ state.current # s
    /\ before' = [before EXCEPT ![p] = state]
    /\ Goto(p, "list")
    /\ UNCHANGED <<state, disk, rotten, target, doomed, skipped, failures>>

(* activate(): reads the state; the current text again is an early return.  *)
BeginActivate(p, s) ==
    /\ MayStart(p)
    /\ state.current # s
    /\ target' = [target EXCEPT ![p] = s]
    /\ before' = [before EXCEPT ![p] = state]
    /\ Goto(p, "list")
    /\ UNCHANGED <<state, disk, rotten, doomed, skipped, failures>>

\* Mutant: what to prune is decided against the old state.
ListForActivateKeepsOld(p) ==
    /\ pc[p] = "list"
    /\ doomed' = [doomed EXCEPT ![p] = prunable(retained(before[p]))]
    /\ Goto(p, IF <<target[p], "txt">> \in disk THEN "write_json"
               ELSE "write_txt")
    /\ UNCHANGED <<state, disk, rotten, target, before, skipped, failures>>

\* Decides what to write and what to prune, before anything is written.
ListForActivate(p) ==
    /\ pc[p] = "list"
    /\ doomed' = [doomed EXCEPT ![p] =
                    prunable(retained(Activated(before[p], target[p])))]
    /\ Goto(p, IF <<target[p], "txt">> \in disk THEN "write_json"
               ELSE "write_txt")
    /\ UNCHANGED <<state, disk, rotten, target, before, skipped, failures>>

\* _atomic_write, first half: the temporary file, written and synced.
WriteTemp(p, from, ext, to) ==
    /\ pc[p] = from
    /\ disk' = disk \cup {<<target[p], ext>>}
    /\ Goto(p, to)
    /\ UNCHANGED <<state, rotten, local, failures>>

WriteText(p) == WriteTemp(p, "write_txt", "txt.tmp", "rename_txt")
WriteMeta(p) == WriteTemp(p, "write_json", "json.tmp", "rename_json")

\* _atomic_write, second half: os.replace needs the temporary file to be
\* there still.
RenameText(p) ==
    /\ pc[p] = "rename_txt"
    /\ <<target[p], "txt.tmp">> \in disk
    /\ disk' = (disk \ {<<target[p], "txt.tmp">>}) \cup {<<target[p], "txt">>}
    /\ rotten' = rotten \ {target[p]}
    /\ Goto(p, "write_json")
    /\ UNCHANGED <<state, local, failures>>

RenameMeta(p) ==
    /\ pc[p] = "rename_json"
    /\ <<target[p], "json.tmp">> \in disk
    /\ disk' = (disk \ {<<target[p], "json.tmp">>}) \cup {<<target[p], "json">>}
    /\ Goto(p, "verify")
    /\ UNCHANGED <<state, rotten, local, failures>>

VerifyWritten(p) ==
    /\ pc[p] = "verify"
    /\ Readable(target[p])
    /\ Goto(p, "switch")
    /\ UNCHANGED <<state, disk, rotten, local, failures>>

SwitchToTarget(p) ==
    /\ pc[p] = "switch"
    /\ state' = Activated(before[p], target[p])
    /\ Goto(p, "prune")
    /\ UNCHANGED <<disk, rotten, local, failures>>

\* _prune: unlink with missing_ok; an OSError skips the file.
PruneOne(p, f) ==
    /\ pc[p] = "prune"
    /\ f \in doomed[p]
    /\ doomed' = [doomed EXCEPT ![p] = @ \ {f}]
    /\ \/ /\ disk' = disk \ {f}
          /\ UNCHANGED <<skipped, failures>>
       \/ /\ UNCHANGED disk
          /\ Fail
          /\ skipped' = [skipped EXCEPT ![p] = @ \cup {f}]
    /\ UNCHANGED <<state, rotten, pc, target, before>>

FinishPrune(p) ==
    /\ pc[p] = "prune"
    /\ doomed[p] = {}
    /\ Return(p)
    /\ UNCHANGED <<state, disk, rotten, failures>>

(* rollback(): swaps current and previous once previous has been verified.  *)
BeginRollback(p) ==
    /\ MayStart(p)
    /\ state.previous # NoSha
    /\ before' = [before EXCEPT ![p] = state]
    /\ Goto(p, "rollback_verify")
    /\ UNCHANGED <<state, disk, rotten, target, doomed, skipped, failures>>

\* Mutant: the previous artifact is not verified.
VerifyPreviousSkipped(p) ==
    /\ pc[p] = "rollback_verify"
    /\ Goto(p, "rollback_switch")
    /\ UNCHANGED <<state, disk, rotten, local, failures>>

VerifyPrevious(p) ==
    /\ pc[p] = "rollback_verify"
    /\ Readable(before[p].previous)
    /\ Goto(p, "rollback_switch")
    /\ UNCHANGED <<state, disk, rotten, local, failures>>

SwitchToPrevious(p) ==
    /\ pc[p] = "rollback_switch"
    /\ state' = RolledBack(before[p])
    /\ Return(p)
    /\ UNCHANGED <<disk, rotten, failures>>

(* reconcile(), called by "storage cleanup --apply".                        *)
BeginReconcile(p) ==
    /\ MayStart(p)
    /\ before' = [before EXCEPT ![p] = state]
    /\ Goto(p, "reconcile_list")
    /\ UNCHANGED <<state, disk, rotten, target, doomed, skipped, failures>>

ListForReconcile(p) ==
    /\ pc[p] = "reconcile_list"
    /\ doomed' = [doomed EXCEPT ![p] = prunable(retained(before[p]))]
    /\ Goto(p, "prune")
    /\ UNCHANGED <<state, disk, rotten, target, before, skipped, failures>>

-----------------------------------------------------------------------------
\* A file the command needs is not there, or does not hash to its name: the
\* command ends with ArtifactStoreError or FileNotFoundError.
CanGoOn(p) ==
    /\ pc[p] = "rename_txt" => <<target[p], "txt.tmp">> \in disk
    /\ pc[p] = "rename_json" => <<target[p], "json.tmp">> \in disk
    /\ pc[p] = "verify" => Readable(target[p])
    /\ pc[p] = "rollback_verify" => Readable(before[p].previous)

Refuse(p) ==
    /\ ~CanGoOn(p)
    /\ Return(p)
    /\ UNCHANGED <<state, disk, rotten, failures>>

\* The machine stops, or a call raises OSError.  What is on disk stays; what
\* was in memory is gone.
Abort(p) ==
    /\ pc[p] # "idle"
    /\ Fail
    /\ Return(p)
    /\ UNCHANGED <<state, disk, rotten>>

\* A stored list decays on the card.  Between the verification of a file and
\* the switch to it nothing could detect that, so it happens between commands.
Rot(s) ==
    /\ \A p \in Process : pc[p] = "idle"
    /\ <<s, "txt">> \in disk
    /\ rotten' = rotten \cup {s}
    /\ UNCHANGED <<state, disk, pc, local, failures>>

Step(p) ==
    \/ \E s \in Sha : BeginActivate(p, s)
    \/ ListForActivate(p)
    \/ WriteText(p)
    \/ RenameText(p)
    \/ WriteMeta(p)
    \/ RenameMeta(p)
    \/ VerifyWritten(p)
    \/ SwitchToTarget(p)
    \/ \E f \in doomed[p] : PruneOne(p, f)
    \/ FinishPrune(p)
    \/ BeginRollback(p)
    \/ VerifyPrevious(p)
    \/ SwitchToPrevious(p)
    \/ BeginReconcile(p)
    \/ ListForReconcile(p)
    \/ Refuse(p)
    \/ Abort(p)

Next ==
    \/ \E p \in Process : Step(p)
    \/ \E s \in Sha : Rot(s)

Spec == Init /\ [][Next]_vars

-----------------------------------------------------------------------------
(***************************************************************************)
(* Properties.                                                             *)
(***************************************************************************)

\* "An artifact referenced by the state on disk is never deleted.  A crash at
\* any point leaves a consistent state" (lines 15-16): whatever a command had
\* done when it stopped, each version state.json names has its list on disk.
ReferencedArtifactsPresent ==
    \A s \in retained(state) : <<s, "txt">> \in disk

\* A version becomes current only when its list on disk is the one its hash
\* names, for a new activation and for a rollback to an old list (lines 186
\* and 203), even after lists have decayed between commands.
SwitchOnlyToIntact ==
    [][state' # state => Readable(state'.current)]_vars

\* "Leftover files are pruned on the next activation" (lines 16-17), and by
\* reconcile: when a command has finished pruning, what is left in artifacts/
\* belongs to a retained version or is a file that could not be unlinked.
Unreferenced(d, st) == {f \in d : f[1] \notin retained(st) \/ f[2] \in TempExt}
PruneLeavesNoOrphan ==
    [][\A p \in Process :
          pc[p] = "prune" /\ doomed[p] = {} /\ pc'[p] = "idle"
             => Unreferenced(disk', state') \subseteq skipped[p]]_vars

\* The store implements three pointers that move atomically over a set of
\* lists containing every version they name: no crash, abort or leftover file
\* between two file-system calls is visible to a caller.
Abstract == INSTANCE VersionStore
    WITH versions <- state, stored <- {s \in Sha : <<s, "txt">> \in disk}
ImplementsVersionStore == Abstract!Spec
=============================================================================
