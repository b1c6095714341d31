----------------------------- MODULE MCSessions -----------------------------
(* Instance of Sessions for TLC.  The threads are alike, and so are tokens. *)
EXTENDS Sessions, TLC

Sym == Permutations(Request) \cup Permutations(Token)
=============================================================================
