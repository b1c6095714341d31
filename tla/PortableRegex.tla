--------------------------- MODULE PortableRegex ---------------------------
(***************************************************************************)
(* validate_portable_regex (core/regex.py): the patterns that Python's re  *)
(* and the provider's engine read alike.  A pattern is a sequence of       *)
(* tokens: an "atom" is a literal, an escaped character, a dot or a        *)
(* bracket expression; "many" a quantifier that allows none (star,         *)
(* question mark, {0,n}), "some" one that does not; "foreign" is what the  *)
(* scanner refuses on the spot (class escapes, (? groups, capitals, POSIX  *)
(* classes, intervals out of bounds).                                      *)
(***************************************************************************)
EXTENDS Integers, Sequences
LOCAL INSTANCE SequencesExt

CONSTANT MaxLength  \* bound on the patterns looked at

Token == {"atom", "anchor", "open", "close", "alt", "many", "some", "foreign"}

Begun == [depth |-> 0, previous |-> "start", portable |-> TRUE]

\* The tokens that may not follow what was read before.
Refuses(state, token) ==
    CASE token = "foreign" -> TRUE
      [] token = "close" -> state.depth = 0 \/ state.previous \in {"open", "alt"}
      [] token = "alt" -> state.previous \in {"start", "open", "alt"}
      [] token \in {"many", "some"} -> state.previous # "atom"
      [] OTHER -> FALSE

Scan(state, token) ==
    IF ~state.portable \/ Refuses(state, token) THEN [state EXCEPT !.portable = FALSE]
    ELSE [state EXCEPT
            !.depth = CASE token = "open" -> @ + 1 [] token = "close" -> @ - 1 [] OTHER -> @,
            !.previous = CASE token = "close" -> "atom"
                           [] token \in {"many", "some"} -> "quantifier"
                           [] OTHER -> token]

-----------------------------------------------------------------------------
(* Python's re: the patterns it parses, and whether each finds a match in   *)
(* the empty string.                                                        *)

Read(text, empty) == [text |-> text, empty |-> empty]

\* What n tokens may be, given what fewer may be.
Derive(shorter, n) ==
    LET Of(kind, k) == IF k \in DOMAIN shorter THEN shorter[k][kind] ELSE {}
        atom == IF n = 1 THEN {Read(<<"atom">>, FALSE)}
                ELSE {Read(<<"open">> \o e.text \o <<"close">>, e.empty) : e \in Of("expression", n - 2)}
        piece == atom
                 \cup {Read(Append(a.text, q), a.empty \/ q = "many") :
                          a \in Of("atom", n - 1), q \in {"many", "some"}}
                 \cup (IF n = 1 THEN {Read(<<"anchor">>, TRUE)} ELSE {})
        branch == piece
                  \cup UNION {{Read(p.text \o b.text, p.empty /\ b.empty) :
                                 p \in Of("piece", k), b \in Of("branch", n - k)} : k \in 1..(n - 1)}
        expression == branch
                      \cup UNION {{Read(b.text \o <<"alt">> \o e.text, b.empty \/ e.empty) :
                                     b \in Of("branch", k), e \in Of("expression", n - k - 1)} :
                                         k \in 1..(n - 2)}
    IN [atom |-> atom, piece |-> piece, branch |-> branch, expression |-> expression]

Derived == FoldLeft(LAMBDA shorter, n : Append(shorter, Derive(shorter, n)), <<>>,
                    [n \in 1..MaxLength |-> n])

Expressions(n) == IF n = 0 THEN {} ELSE Derived[n].expression

MatchesEmpty(pattern) == Read(pattern, TRUE) \in Expressions(Len(pattern))

-----------------------------------------------------------------------------
\* validate_portable_regex raises nothing.
Portable(pattern) ==
    LET end == FoldLeft(Scan, Begun, pattern)
    IN /\ pattern # <<>>
       /\ end.portable /\ end.depth = 0 /\ end.previous # "alt"
       /\ ~MatchesEmpty(pattern)
=============================================================================
