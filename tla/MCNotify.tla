------------------------------ MODULE MCNotify ------------------------------
(* Instances of Notify for TLC: a cooldown without a limit, and a limit with *)
(* a short cooldown or none.                                                *)
EXTENDS Notify, TLC

MCPolicies ==
    {[cooldown |-> 2, limit |-> NoLimit], [cooldown |-> 0, limit |-> 2],
     [cooldown |-> 1, limit |-> 2]}

Sym == Permutations(Process)
=============================================================================
