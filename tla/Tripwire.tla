------------------------------ MODULE Tripwire ------------------------------
(***************************************************************************)
(* Domain names, blocklist entries and the protected-domain tripwire       *)
(* (core/domains.py, core/blocklists.py) against what a provider blocks    *)
(* (providers/mock.py).  A domain is the sequence of its labels from the   *)
(* top: a parent is a prefix.                                              *)
(***************************************************************************)
EXTENDS Integers, Sequences

CONSTANTS Label, Domain

\* What normalize_domain returns: never a single label.
IsDomain(d) == d \in Seq(Label) /\ Len(d) >= 2
ASSUME DomainAssumption == \A d \in Domain : IsDomain(d)

\* BlockEntry, and a protected domain: a name, with what is below it or not.
Scope == [domain: Domain, subdomains: BOOLEAN]

IsBelow(name, domain) ==
    Len(domain) < Len(name) /\ SubSeq(name, 1, Len(domain)) = domain

Covers(scope, name) ==
    name = scope.domain \/ (scope.subdomains /\ IsBelow(name, scope.domain))

\* lookup_domain: the provider that deployed the list blocks the name.
Blocks(list, name) == \E e \in list : Covers(e, name)

\* Mutant: the walk up the tree misses the shortest parent.
AncestorsShort(d) == {SubSeq(d, 1, n) : n \in 3..(Len(d) - 1)}

\* The parents of a domain that have two labels at least.
Ancestors(d) == {SubSeq(d, 1, n) : n \in 2..(Len(d) - 1)}

\* The entries that find_tripwire_hits reports.
TripwireHits(list, protected) ==
    LET exact == {p.domain : p \in protected}
        with_subdomains == {p.domain : p \in {q \in protected : q.subdomains}}
        below == UNION {Ancestors(d) : d \in exact}
    IN {e \in list : \/ e.domain \in exact
                     \/ Ancestors(e.domain) \cap with_subdomains # {}
                     \/ e.subdomains /\ e.domain \in below}

\* A list leaves alone every name the protected domains stand for.
Spares(list, protected) ==
    \A p \in protected, name \in Domain : Covers(p, name) => ~Blocks(list, name)
=============================================================================
