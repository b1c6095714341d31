---------------------------- MODULE VersionStore ----------------------------
(***************************************************************************)
(* What the artifact store of a source promises its callers: three version *)
(* pointers that move in one step, over a set of stored lists that always  *)
(* contains the versions the pointers name.  No file, crash or process     *)
(* appears here; ArtifactStore implements it.                              *)
(***************************************************************************)
CONSTANTS Sha, NoSha

VARIABLES
    versions,  \* current, previous and backup
    stored     \* the lists the store holds

Retained == {versions.current, versions.previous, versions.backup} \ {NoSha}

Init ==
    /\ versions = [current |-> NoSha, previous |-> NoSha, backup |-> NoSha]
    /\ stored = {}

\* A list is stored before anything names it.
Store(s) ==
    /\ stored' = stored \cup {s}
    /\ UNCHANGED versions

\* A stored list becomes current: current -> previous -> backup.
Activate(s) ==
    /\ s \in stored
    /\ s # versions.current
    /\ versions' = [current |-> s, previous |-> versions.current,
                    backup |-> versions.previous]
    /\ UNCHANGED stored

\* Current and previous change places.
Rollback ==
    /\ versions.previous # NoSha
    /\ versions' = [current |-> versions.previous,
                    previous |-> versions.current, backup |-> versions.backup]
    /\ UNCHANGED stored

\* A list that no pointer names is dropped.
Discard(s) ==
    /\ s \notin Retained
    /\ stored' = stored \ {s}
    /\ UNCHANGED versions

Next ==
    \/ \E s \in Sha : Store(s) \/ Activate(s) \/ Discard(s)
    \/ Rollback

Spec == Init /\ [][Next]_<<versions, stored>>
=============================================================================
