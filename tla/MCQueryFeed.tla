---------------------------- MODULE MCQueryFeed ----------------------------
(* Values of the constants of QueryFeed for TLC. *)
EXTENDS QueryFeed

\* A plain name that does not exist, a random one whose resolution fails.
MCQuestions == {[domain |-> "plain", reply |-> "NXDOMAIN"],
                [domain |-> "random", reply |-> "SERVFAIL"]}

\* Half-open windows, and those with the other end.
MCEnds == {{"since"}, {"until"}}

=============================================================================
