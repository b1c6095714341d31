------------------------ MODULE MCBlocklistPipeline ------------------------
(***************************************************************************)
(* BlocklistPipeline for TLC: a tree of four names and the protected       *)
(* domains that tell the gates apart.  The lists a source offers are what  *)
(* ListText makes of the texts its mirrors may deliver, in the formats the *)
(* owner may configure for it.                                             *)
(***************************************************************************)
EXTENDS BlocklistPipeline, ListText, TLC

CONSTANTS top, shop, cdn, img, ads, a, b

MCLabel == {top, shop, cdn, img, ads}
shop_top == <<top, shop>>
cdn_shop_top == <<top, shop, cdn>>
img_cdn_shop_top == <<top, shop, cdn, img>>
ads_top == <<top, ads>>
MCDomain == {shop_top, cdn_shop_top, img_cdn_shop_top, ads_top}

-----------------------------------------------------------------------------
(* Texts.                                                                  *)

Loud(d) == [of |-> d, canonical |-> FALSE]
Top(number) == Comment("bang", number)
Blank == Rule("blank", <<>>)
Tree(d) == Rule("adblock", <<Spelled(d)>>)
Exact(d) == Rule("plain", <<Spelled(d)>>)
Sink(names) == Rule("hosts", names)
Bad == Rule("adblock", <<Spelled(Broken)>>)

Fresh(text) == [usable |-> TRUE, age |-> "fresh", text |-> text]

\* One name; it and another, with a duplicate; a wildcard over all of the shop;
\* one invalid line of four.
AdblockTexts ==
    {<<Top(1), Tree(ads_top)>>,
     <<Top(Nothing), Tree(ads_top), Blank, Tree(cdn_shop_top), Rule("adblock", <<Loud(ads_top)>>)>>,
     <<Top(2), Tree(ads_top), Tree(shop_top)>>,
     <<Top(4), Tree(ads_top), Tree(cdn_shop_top), Bad, Tree(ads_top)>>}

\* Nothing but the local names; three names.
HostsTexts ==
    {<<Comment("hash", Nothing), Sink(<<Spelled(Local)>>)>>,
     <<Sink(<<Spelled(ads_top), Spelled(cdn_shop_top)>>), Sink(<<Loud(shop_top)>>)>>}

\* Downloads that are refused: not usable, stale, without the header, too many
\* invalid lines, no rules, fewer or more rules than declared.
Refused ==
    {[Fresh(<<Top(1), Tree(shop_top)>>) EXCEPT !.usable = FALSE],
     [Fresh(<<Top(1), Tree(shop_top)>>) EXCEPT !.age = "stale"],
     Fresh(<<Tree(shop_top)>>), Fresh(<<Top(Nothing), Tree(shop_top), Bad>>),
     Fresh(<<Top(0), Blank>>), Fresh(<<Top(3), Tree(shop_top)>>), Fresh(<<>>)}

Lists(downloads, format) ==
    {ParseList(d.text, format).entries :
        d \in {d \in downloads : AttemptAccepts(d, format, TRUE)}}

OfA == Lists({Fresh(t) : t \in AdblockTexts} \cup Refused, "adblock")
       \cup Lists({Fresh(t) : t \in HostsTexts}, "hosts")
OfB == Lists({Fresh(<<Exact(ads_top), Exact(ads_top)>>)}, "domains")
MCOffered == [s \in Source |-> IF s = a THEN OfA ELSE OfB]
MCOfferedFew == [s \in Source |-> IF s = a THEN {l \in OfA : l # {} /\ Cardinality(l) <= 2} ELSE OfB]

-----------------------------------------------------------------------------
(* What ListText is held to, over bounded texts.                           *)

SomeLines ==
    {Top(1), Comment("hash", -1), Blank, Tree(ads_top), Bad, Exact(cdn_shop_top), Sink(<<Spelled(Local)>>),
     Sink(<<Loud(ads_top), Spelled(cdn_shop_top)>>), Sink(<<Spelled(ads_top), Spelled(Broken)>>)}
SomeTexts == UNION {[1..n -> SomeLines] : n \in 0..3}

\* parse_list against its meaning: every line is a blank, a comment or a rule; a
\* rule is invalid as a whole or gives all its names; each name is an entry once.
ParsedAsMeant(text, format) ==
    LET parsed == ParseList(text, format)
        rules == {i \in DOMAIN text : text[i].form # "blank" /\ ~IsComment(text[i])}
        valid == {i \in rules : LET names == Candidates(text[i], format)
                  IN names # Nothing /\ \A k \in DOMAIN names : names[k].of \in Domain}
        found == UNION {{<<i, k>> : k \in DOMAIN Candidates(text[i], format)} : i \in valid}
    IN /\ parsed.blanks + parsed.comments + parsed.rules = Len(text)
       /\ parsed.rules = Cardinality(rules) /\ parsed.invalid = Cardinality(rules \ valid)
       /\ parsed.entries = {Entry(Candidates(text[f[1]], format)[f[2]].of, format) : f \in found}
       /\ Cardinality(parsed.entries) + parsed.duplicates = Cardinality(found)

ASSUME TextsAreParsedAsMeant ==
    \A text \in SomeTexts, format \in {"adblock", "hosts", "domains"} : ParsedAsMeant(text, format)

\* A list is read back from its artifact as it was, and from no first part of it
\* (step 9, and every command that reads a stored list).
ASSUME ArtifactsReadBack ==
    \A list \in {l \in SUBSET Scope : Cardinality(l) <= 4} :
        LET text == RenderArtifact(list)
        IN /\ ParseArtifact(text) = list
           /\ \A n \in 0..(Len(text) - 1) : ParseArtifact(SubSeq(text, 1, n)) = Nothing

\* A download that declares its entries is accepted whole or not at all.
ASSUME CutDownloadsAreRefused ==
    \A text \in AdblockTexts : DeclaredEntries(text) # Nothing =>
        \A n \in 0..Len(text) :
            AttemptAccepts(Fresh(SubSeq(text, 1, n)), "adblock", TRUE) <=> n = Len(text)

\* Nothing of the refused downloads gets through, and all the others do.
ASSUME OfferedAreAccepted ==
    /\ Lists(Refused, "adblock") = {}
    /\ Cardinality(OfA) = 5 /\ OfB = {{Entry(ads_top, "domains")}}

-----------------------------------------------------------------------------
MCLimits == [s \in Source |->
    IF s = a THEN [min |-> 1, max |-> 2, added |-> 50, removed |-> 50] ELSE NoLimits]

Protect(d, below) == [domain |-> d, subdomains |-> below]
MCProtections == {{}, {Protect(shop_top, FALSE)}, {Protect(img_cdn_shop_top, FALSE)},
                  {Protect(shop_top, TRUE)}}
MCProtectionsOne == {{Protect(img_cdn_shop_top, FALSE)}}
=============================================================================
