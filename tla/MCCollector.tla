----------------------------- MODULE MCCollector -----------------------------
(* Values of the constants of Collector for TLC. *)
EXTENDS Collector, TLC

MCLength == [r \in Resolution |-> IF r = "minute" THEN 1 ELSE 2]
MCKeep == [r \in Resolution |-> IF r = "minute" THEN 1 ELSE 2]
Symmetric == Permutations(Addresses) \cup Permutations(Macs)
=============================================================================
