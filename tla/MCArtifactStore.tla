-------------------------- MODULE MCArtifactStore --------------------------
(***************************************************************************)
(* ArtifactStore for TLC: the symmetry of its constants.                   *)
(***************************************************************************)
EXTENDS ArtifactStore, TLC

\* Commands and hashes are interchangeable in the model and in every property.
Symmetric == Permutations(Process) \cup Permutations(Sha)
=============================================================================
