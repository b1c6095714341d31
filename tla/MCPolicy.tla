------------------------------ MODULE MCPolicy ------------------------------
(* Configurations that differ in what the checks and the layers tell apart. *)
EXTENDS Policy, PortableRegex

CONSTANTS top, shop, cdn, ads, kids, s1, s2

MCLabel == {top, shop, cdn, ads}
Shop == <<top, shop>>
Cdn == <<top, shop, cdn>>
Ads == <<top, ads>>
MCDomain == {Shop, Cdn, Ads}
MCGroup == {Default, kids}

\* subs finds subdomains of the shop only, self the shop itself; a pattern that
\* would match any name is not portable.
subs == <<"open", "atom", "alt", "atom", "close", "anchor">>
self == <<"anchor", "atom", "anchor">>
any == <<"atom", "many", "anchor">>
MCPattern == {p \in {subs, self, any} : Portable(p)}

MCMatches == [p \in MCPattern |-> IF p = subs THEN {Cdn} ELSE {Shop}]

On(d, below) == [domain |-> d, subdomains |-> below]
MCLists == {{On(Ads, FALSE), On(Shop, TRUE)}, {On(Cdn, FALSE)}}

Rule(scope, groups, expires) ==
    [scope |-> scope, groups |-> groups, created |-> 0, expires |-> expires]
Regex(action, p, expires) ==
    [action |-> action, pattern |-> p, groups |-> {All}, created |-> 0, expires |-> expires]

Groups == {<<[id |-> Default, policy |-> "std"], [id |-> kids, policy |-> "safe"]>>,
           <<[id |-> Default, policy |-> "std"], [id |-> Default, policy |-> "safe"]>>,
           <<[id |-> kids, policy |-> "std"]>>}
Policies == {<<[id |-> "std", blocklists |-> <<>>], [id |-> "safe", blocklists |-> <<s1>>]>>,
             <<[id |-> "std", blocklists |-> <<s1>>], [id |-> "safe", blocklists |-> <<s1, s2>>]>>}
Allow == {<<>>, <<Rule(On(Shop, FALSE), {kids}, 1)>>,
          <<Rule(On(Ads, FALSE), {All}, 2), Rule(On(Ads, FALSE), {kids}, 1)>>}
Deny == {<<>>, <<Rule(On(Shop, TRUE), {All, kids}, Never)>>, <<Rule(On(Shop, TRUE), {kids}, 2)>>, <<Rule(On(Cdn, FALSE), {All}, Never)>>,
         <<Rule(On(Ads, FALSE), {Default}, 1), Rule(On(Shop, FALSE), {kids}, Never)>>}
Patterns == {<<>>, <<Regex("deny", subs, 2)>>,
             <<Regex("deny", self, Never), Regex("allow", subs, 1)>>}
Protected == {<<>>, <<On(Shop, FALSE)>>, <<On(Shop, TRUE)>>, <<On(Cdn, TRUE), On(Cdn, TRUE)>>}

MCConfigurations ==
    [groups: Groups, policies: Policies, sources: {<<[id |-> s1]>>, <<[id |-> s1], [id |-> s2]>>}, allow: Allow, deny: Deny,
     regex: Patterns, protected: Protected]

\* What validate_portable_regex lets through, of all patterns up to MaxLength, is
\* what the grammar of the portable subset derives and does not match the empty
\* string.
ASSUME PortableIsTheGrammar ==
    \A n \in 0..MaxLength : \A p \in [1..n -> Token \ {"foreign"}] :
        Portable(p) <=> Read(p, FALSE) \in Expressions(n)
=============================================================================
