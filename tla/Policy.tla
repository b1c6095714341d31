------------------------------- MODULE Policy -------------------------------
(***************************************************************************)
(* The filtering configuration, its checks (core/filtering.py), the policy *)
(* engine (core/policy.py) and `policy explain` (cli.py), which loads the  *)
(* configuration, reads the active lists and decides, while rules expire   *)
(* and updates switch lists.                                               *)
(*                                                                         *)
(* A configuration is one record of what the files hold.  The loader reads *)
(* the files one by one, but checks what it read: any mixture of two edits *)
(* is a configuration too, so loading is one step here.                    *)
(***************************************************************************)
EXTENDS Tripwire

CONSTANTS
    Group,           \* the groups one may ask about
    Default,         \* DEFAULT_GROUP
    All,             \* ALL_GROUPS
    Pattern,         \* regular expressions
    Matches,         \* the names each of them finds a match in (external)
    Configurations,  \* what the owner's files may hold
    StoredSource,    \* the blocklist sources with a directory in the store
    Lists,           \* the lists an update activates
    NoArtifact,      \* no active artifact
    Unreadable,      \* an active artifact or a file that cannot be parsed
    Never,           \* a rule without expires_at
    NoAnswer,
    MaxTime          \* bound on the clock

Times == 0..MaxTime

ASSUME PolicyAssumption ==
    /\ MaxTime \in Nat /\ Never \notin Int
    /\ Matches \in [Pattern -> SUBSET Domain]
    /\ Lists \subseteq SUBSET Scope
    /\ NoArtifact \notin Lists /\ Unreadable \notin Lists
    /\ Unreadable \notin Configurations /\ NoAnswer \notin Configurations

VARIABLES
    now,
    active,   \* the active artifact of each source
    \* one `policy explain`
    stage, config, left,
    lists,    \* what was read of each source, NoArtifact if nothing
    notes,    \* the sources reported as not evaluated
    answer

policyVars == <<now, active, stage, config, left, lists, notes, answer>>

-----------------------------------------------------------------------------
(* core/filtering.py                                                       *)

Ran(s) == {s[i] : i \in 1..Len(s)}
Ids(s) == {s[i].id : i \in 1..Len(s)}

Rules(c) == Ran(c.allow) \cup Ran(c.deny) \cup Ran(c.regex)

\* DomainRule, RegexRule and ProtectedDomain: what the fields may hold.
Typed(c) ==
    /\ \A r \in Rules(c) : r.expires \in Int \cup {Never}
    /\ \A r \in Ran(c.allow) \cup Ran(c.deny) : r.scope \in Scope
    /\ \A r \in Ran(c.regex) : r.action \in {"allow", "deny"} /\ r.pattern \in Pattern
    /\ Ran(c.protected) \subseteq Scope
ASSUME ConfigurationsAssumption == \A c \in Configurations : Typed(c)

\* RuleMetadata: "*" stands alone, and a rule expires after it was made.
WellFormed(rule) ==
    /\ rule.groups # {} /\ (All \in rule.groups => rule.groups = {All})
    /\ rule.expires # Never => rule.created < rule.expires

\* Mutant: the comparison is the wrong way round.
IsActiveSwapped(rule, t) == rule.expires = Never \/ rule.expires <= t

IsActive(rule, t) == rule.expires = Never \/ t < rule.expires

Overlap(r, s) == All \in r.groups \cup s.groups \/ r.groups \cap s.groups # {}

RepeatsId(s) == \E i, j \in 1..Len(s) : i < j /\ s[i].id = s[j].id

\* Mutant: a policy may name a source that is not configured.
DanglingGroupsOnly(c) ==
    \/ Default \notin Ids(c.groups)
    \/ \E g \in Ran(c.groups) : g.policy \notin Ids(c.policies)

\* References to nothing, and the required group.
Dangling(c) ==
    \/ Default \notin Ids(c.groups)
    \/ \E g \in Ran(c.groups) : g.policy \notin Ids(c.policies)
    \/ \E p \in Ran(c.policies) : ~(Ran(p.blocklists) \subseteq Ids(c.sources))
    \/ \E r \in Rules(c) : ~(r.groups \subseteq Ids(c.groups) \cup {All})

\* The same list twice in a policy, the same name twice among the protected.
Repeated(c) ==
    \/ RepeatsId(c.groups) \/ RepeatsId(c.policies) \/ RepeatsId(c.sources)
    \/ \E p \in Ran(c.policies) : \E i, j \in 1..Len(p.blocklists) :
          i < j /\ p.blocklists[i] = p.blocklists[j]
    \/ \E i, j \in 1..Len(c.protected) : i < j /\ c.protected[i] = c.protected[j]

Clash(r, s, t) == IsActive(r, t) /\ IsActive(s, t) /\ Overlap(r, s)

\* Active rules that say the same, or the opposite, for a common group.
Contradicts(c, t) ==
    \/ \E rules \in {c.allow, c.deny} : \E i, j \in 1..Len(rules) :
          i < j /\ rules[i].scope = rules[j].scope /\ Clash(rules[i], rules[j], t)
    \/ \E a \in Ran(c.allow), d \in Ran(c.deny) : a.scope = d.scope /\ Clash(a, d, t)
    \/ \E i, j \in 1..Len(c.regex) :
          i < j /\ c.regex[i].pattern = c.regex[j].pattern /\ Clash(c.regex[i], c.regex[j], t)

\* Mutant: only a rule above the protected domain counts.
ThreatensAbove(c, t) ==
    \E d \in Ran(c.deny), p \in Ran(c.protected) :
        IsActive(d, t) /\ Covers(d.scope, p.domain)

\* An active deny rule over a protected domain, or inside what it protects; an
\* active deny pattern that matches the protected domain itself.
Threatens(c, t) ==
    \/ \E d \in Ran(c.deny), p \in Ran(c.protected) :
          IsActive(d, t) /\ (Covers(d.scope, p.domain) \/ Covers(p, d.scope.domain))
    \/ \E r \in Ran(c.regex), p \in Ran(c.protected) :
          r.action = "deny" /\ IsActive(r, t) /\ p.domain \in Matches[r.pattern]

\* Mutant: an expired rule is an error, not an information.
HasErrorsExpired(c, t) ==
    \/ Dangling(c) \/ Repeated(c) \/ Contradicts(c, t) \/ Threatens(c, t)
    \/ \E r \in Rules(c) : ~IsActive(r, t)

\* check_filtering_config finds an issue of level "error".
HasErrors(c, t) == Dangling(c) \/ Repeated(c) \/ Contradicts(c, t) \/ Threatens(c, t)

-----------------------------------------------------------------------------
(* core/policy.py                                                          *)

Applies(rule, g, t) == IsActive(rule, t) /\ (All \in rule.groups \/ g \in rule.groups)

\* sources_for: ids are unique in a configuration without errors.
SourcesFor(c, g) ==
    UNION {Ran(p.blocklists) : p \in {p \in Ran(c.policies) :
        \E h \in Ran(c.groups) : h.id = g /\ h.policy = p.id}}

DomainRuleHits(rules, g, d, t) ==
    \E r \in Ran(rules) : Applies(r, g, t) /\ Covers(r.scope, d)

RegexHits(c, action, g, d, t) ==
    \E r \in Ran(c.regex) : r.action = action /\ Applies(r, g, t) /\ d \in Matches[r.pattern]

\* _names: the domain and its parents of two labels at least.
Listed(list, d) ==
    \/ [domain |-> d, subdomains |-> FALSE] \in list
    \/ \E n \in Ancestors(d) \cup {d} : [domain |-> n, subdomains |-> TRUE] \in list

ListedBy(c, read, g, d) ==
    {s \in SourcesFor(c, g) : read[s] # NoArtifact /\ Listed(read[s], d)}

\* The layers of decide, in their order, and those that match.
Order == <<"protected", "allow_rule", "allow_regex", "deny_rule", "deny_regex", "blocklist",
           "default">>
Matching(c, read, g, d, t) ==
    {"default"}
    \cup {r \in {"protected"} : \E p \in Ran(c.protected) : Covers(p, d)}
    \cup {r \in {"allow_rule"} : DomainRuleHits(c.allow, g, d, t)}
    \cup {r \in {"allow_regex"} : RegexHits(c, "allow", g, d, t)}
    \cup {r \in {"deny_rule"} : DomainRuleHits(c.deny, g, d, t)}
    \cup {r \in {"deny_regex"} : RegexHits(c, "deny", g, d, t)}
    \cup {r \in {"blocklist"} : ListedBy(c, read, g, d) # {}}

\* decide: the first match wins.
Decide(c, read, g, d, t) ==
    LET matching == Matching(c, read, g, d, t)
        first == CHOOSE i \in 1..7 :
                    Order[i] \in matching /\ \A j \in 1..(i - 1) : Order[j] \notin matching
    IN Order[first]

Blocked(reason) == reason \in {"deny_rule", "deny_regex", "blocklist"}

-----------------------------------------------------------------------------
(* policy explain.                                                         *)

Unread == [s \in StoredSource |-> NoArtifact]

PolicyInit ==
    /\ now = 0 /\ active \in [StoredSource -> Lists \cup {NoArtifact, Unreadable}]
    /\ stage = "idle" /\ config = Unreadable /\ left = {}
    /\ lists = Unread /\ notes = {} /\ answer = NoAnswer

Tick ==
    /\ now < MaxTime
    /\ now' = now + 1
    /\ UNCHANGED <<active, stage, config, left, lists, notes, answer>>

\* An update or a rollback switches a list, or an artifact decays.
Switch(s) ==
    /\ active' \in {[active EXCEPT ![s] = l] : l \in (Lists \cup {Unreadable}) \ {active[s]}}
    /\ UNCHANGED <<now, stage, config, left, lists, notes, answer>>

\* load_filtering_config: the rules are well-formed, and there is no error among
\* the issues.
Accepts(c, t) == (\A rule \in Rules(c) : WellFormed(rule)) /\ ~HasErrors(c, t)

\* With a configuration that is not accepted the command ends here.
Load ==
    /\ stage = "idle"
    /\ \E c \in Configurations :
          /\ Accepts(c, now)
          /\ config' = c /\ left' = Ids(c.sources)
    /\ stage' = "lists"
    /\ UNCHANGED <<now, active, lists, notes, answer>>

\* store.current and parse_artifact, for one configured source.
ReadList(s) ==
    /\ stage = "lists" /\ s \in left
    /\ left' = left \ {s}
    /\ IF active[s] \in Lists
       THEN lists' = [lists EXCEPT ![s] = active[s]] /\ UNCHANGED notes
       ELSE notes' = notes \cup {s} /\ UNCHANGED lists
    /\ UNCHANGED <<now, active, stage, config, answer>>

\* paths.data_dir is unresolved: no list is read, and a note says so.
NoStore ==
    /\ stage = "lists" /\ left = Ids(config.sources)
    /\ notes' = notes \cup left /\ left' = {}
    /\ UNCHANGED <<now, active, stage, config, lists, answer>>

\* PolicyEngine(now()).decide, printed; an unknown group has no answer.
Explain(g, d) ==
    /\ stage = "lists" /\ left = {}
    /\ answer' = IF g \in Ids(config.groups)
                 THEN [group |-> g, domain |-> d, reason |-> Decide(config, lists, g, d, now)]
                 ELSE NoAnswer
    /\ stage' = "done"
    /\ UNCHANGED <<now, active, config, left, lists, notes>>

\* The command prints and exits.
Exit ==
    /\ stage = "done"
    /\ stage' = "idle"
    /\ config' = Unreadable /\ lists' = Unread /\ notes' = {} /\ answer' = NoAnswer
    /\ UNCHANGED <<now, active, left>>

PolicyNext ==
    \/ Tick \/ Load \/ NoStore \/ Exit
    \/ \E s \in StoredSource : Switch(s) \/ ReadList(s)
    \/ \E g \in Group, d \in Domain : Explain(g, d)

PolicySpec == PolicyInit /\ [][PolicyNext]_policyVars

-----------------------------------------------------------------------------
(***************************************************************************)
(* Properties.                                                             *)
(***************************************************************************)

\* A configuration that was accepted stays acceptable however long the command,
\* or the service started from it, goes on: rules that expire open no
\* contradiction and no threat (check_filtering_config at the time of loading).
AcceptedForGood == config # Unreadable => ~HasErrors(config, now)

\* The deny rules of an accepted configuration spare every name the protected
\* domains stand for, in every group and at every later time, without the
\* protected layer of decide; patterns are checked against the protected
\* domains themselves only (check_filtering_config, deny[j]).
DenySparesProtected ==
    config # Unreadable =>
        \A p \in Ran(config.protected), d \in Domain, g \in Ids(config.groups) :
            /\ Covers(p, d) => ~DomainRuleHits(config.deny, g, d, now)
            /\ ~RegexHits(config, "deny", g, p.domain, now)

\* "default" is said only when every list of the group's policy was read and
\* blocks the name at no provider, or was reported as not evaluated
\* (_policy_explain, "list not evaluated").
NoListSkippedSilently ==
    answer # NoAnswer /\ answer.reason = "default" =>
        \A s \in SourcesFor(config, answer.group) :
            \/ s \in notes
            \/ lists[s] # NoArtifact /\ ~Blocks(lists[s], answer.domain)

\* As time goes on a verdict turns to blocked only where an allow rule or an
\* allow pattern for that name and group expires (is_active, decide).
OnlyExpiryOfAllowBlocks ==
    [][config # Unreadable /\ now' # now =>
          \A g \in Ids(config.groups), d \in Domain :
              ~Blocked(Decide(config, lists, g, d, now)) /\ Blocked(Decide(config, lists, g, d, now'))
                => \/ DomainRuleHits(config.allow, g, d, now)
                   \/ RegexHits(config, "allow", g, d, now)]_policyVars
=============================================================================
