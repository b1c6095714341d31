------------------------------ MODULE ListText ------------------------------
(***************************************************************************)
(* The text of a blocklist: how a download is parsed (core/blocklists.py), *)
(* what an attempt accepts (_attempt of pipeline/blocklists.py), and the   *)
(* artifact a list is stored as and read back from.                        *)
(*                                                                         *)
(* A text is a sequence of lines, a line what the regular expressions make *)
(* of it.  A name is kept as the domain it stands for and whether it is    *)
(* spelled as normalize_domain spells it.                                  *)
(***************************************************************************)
EXTENDS Tripwire, FiniteSets
LOCAL INSTANCE SequencesExt

CONSTANTS
    Broken,      \* a name that normalize_domain refuses
    Local,       \* one of _HOSTS_IGNORED_NAMES (refused too)
    Nothing,     \* no number in a comment, no result
    MaxInvalid   \* max_invalid_ratio, in percent

ASSUME TextAssumption ==
    /\ MaxInvalid \in 0..100 /\ Nothing \notin Nat
    /\ {Broken, Local} \cap Domain = {} /\ Broken # Local

Spelling == [of : Domain \cup {Broken, Local}, canonical : BOOLEAN]
Normalizes(name) == name.of \in Domain
Spelled(d) == [of |-> d, canonical |-> TRUE]

\* A "!" or a "#" comment may say "Number of entries", or say it without a
\* number (-1).
Line == [form : {"blank", "magic", "bang", "hash", "adblock", "hosts", "plain", "other"},
         names : Seq(Spelling), number : Int \cup {Nothing}]

Comment(form, number) == [form |-> form, names |-> <<>>, number |-> number]
Rule(form, names) == [form |-> form, names |-> names, number |-> Nothing]

IsComment(line) == line.form \in {"magic", "bang", "hash"}

\* parse_header: the first of the declarations at the top counts, or none if it
\* is not a number.
MaxHeaderLines == 50
DeclaredEntries(text) ==
    LET said == {i \in 1..Len(text) : i <= MaxHeaderLines /\ text[i].number # Nothing}
        first == CHOOSE i \in said : \A j \in said : i <= j
    IN IF said = {} \/ text[first].number < 0 THEN Nothing ELSE text[first].number

\* _candidates: the names of a rule, or Nothing where the format has no such line.
Candidates(line, format) ==
    CASE format = "adblock" /\ line.form = "adblock" -> line.names
      [] format = "hosts" /\ line.form = "hosts" ->
            SelectSeq(line.names, LAMBDA n : n.of # Local)
      [] format = "domains" /\ line.form = "plain" -> line.names
      [] OTHER -> Nothing

Entry(d, format) == [domain |-> d, subdomains |-> format = "adblock"]

Unparsed == [entries |-> {}, blanks |-> 0, comments |-> 0, rules |-> 0,
             invalid |-> 0, duplicates |-> 0]

\* The loops of parse_list, line by line and name by name.
AddEntry(parsed, entry) ==
    IF entry \in parsed.entries THEN [parsed EXCEPT !.duplicates = @ + 1]
    ELSE [parsed EXCEPT !.entries = @ \cup {entry}]

ReadLine(parsed, line, format) ==
    LET names == Candidates(line, format)
        ruled == [parsed EXCEPT !.rules = @ + 1]
    IN CASE line.form = "blank" -> [parsed EXCEPT !.blanks = @ + 1]
         [] IsComment(line) -> [parsed EXCEPT !.comments = @ + 1]
         [] OTHER ->
              IF names = Nothing \/ \E i \in DOMAIN names : ~Normalizes(names[i])
              THEN [ruled EXCEPT !.invalid = @ + 1]
              ELSE FoldLeft(LAMBDA p, n : AddEntry(p, Entry(n.of, format)), ruled, names)

ParseList(text, format) ==
    FoldLeft(LAMBDA p, line : ReadLine(p, line, format), Unparsed, text)

\* What an attempt brings: whether the response is usable (status, content type,
\* UTF-8, size), the date of the header against the clock, the text.
FirstLine(text) ==
    LET written == SelectSeq(text, LAMBDA l : l.form # "blank")
    IN IF written = <<>> THEN "none" ELSE Head(written).form

\* Steps 1 to 7 of _attempt; a source with max_age_hours is dated.
AttemptAccepts(download, format, dated) ==
    LET parsed == ParseList(download.text, format)
    IN /\ download.usable
       /\ format = "adblock" => FirstLine(download.text) \in {"bang", "magic"}
       /\ dated => download.age = "fresh"
       /\ parsed.rules > 0
       /\ 100 * parsed.invalid <= MaxInvalid * parsed.rules
       /\ DeclaredEntries(download.text) \in {Nothing, parsed.rules}

-----------------------------------------------------------------------------
(* The artifact.  The order of its rules is a function of the entries.      *)

Magic == Comment("magic", Nothing)

RenderArtifact(entries) ==
    LET ordered == SetToSeq(entries)
        Written(e) == Rule(IF e.subdomains THEN "adblock" ELSE "plain", <<Spelled(e.domain)>>)
    IN <<Magic, Comment("bang", Nothing), Comment("bang", Len(ordered))>>
       \o [i \in 1..Len(ordered) |-> Written(ordered[i])]

\* parse_artifact: Nothing where it raises.  The last declaration counts.
ParseArtifact(text) ==
    LET body == IF text = <<>> THEN <<>> ELSE Tail(text)
        rules == SelectSeq(body, LAMBDA l : l.form \notin {"magic", "bang"})
        said == SelectSeq(body, LAMBDA l : l.form = "bang" /\ l.number # Nothing)
        entries == {[domain |-> r.names[1].of, subdomains |-> r.form = "adblock"] :
                        r \in ToSet(rules)}
    IN IF /\ text # <<>> /\ Head(text) = Magic
          /\ \A r \in ToSet(rules) : /\ r.form \in {"adblock", "plain"}
                                     /\ Normalizes(r.names[1]) /\ r.names[1].canonical
          /\ said # <<>> /\ Last(said).number = Cardinality(entries)
       THEN entries ELSE Nothing
=============================================================================
