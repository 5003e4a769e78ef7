------------------------------ MODULE MCFileRun ------------------------------
(***************************************************************************)
(* A small world for FileRun: a provider with an alias, a company, a       *)
(* mistyped domain and a throwaway one; files of at most four rows that    *)
(* hold every kind of cell; and what two earlier jobs may have left.       *)
(* The pure algorithms are compared with references on bounded inputs, by  *)
(* assumptions TLC evaluates: the typo suggestion with one that compares   *)
(* everything, the shares with what they promise, the calendar with the    *)
(* rule for the days of a month.                                           *)
(***************************************************************************)
EXTENDS FileRun

CONSTANTS Bad, BadLower    \* a malformed cell, as typed and in lower case

MCLower == [c \in {Bad, BadLower} |-> BadLower]
MCDomain == {"gmail.com", "googlemail.com", "gmial.com", "corp.com", "tmp.com"}
MCCanon == [d \in MCDomain |-> IF d = "googlemail.com" THEN "gmail.com" ELSE d]

Spelled == [d \in MCDomain |->
    IF d = "gmail.com" THEN <<"g", "m", "a", "i", "l", ".", "c", "o", "m">>
    ELSE IF d = "googlemail.com"
    THEN <<"g", "o", "o", "g", "l", "e", "m", "a", "i", "l", ".", "c", "o", "m">>
    ELSE IF d = "gmial.com" THEN <<"g", "m", "i", "a", "l", ".", "c", "o", "m">>
    ELSE IF d = "corp.com" THEN <<"c", "o", "r", "p", ".", "c", "o", "m">>
    ELSE <<"t", "m", "p", ".", "c", "o", "m">>]
Known == INSTANCE Typo WITH Tops <- <<Spelled["gmail.com"], Spelled["googlemail.com"]>>,
                            TldFix <- <<>>, Short <- 8
MCSuggestion == [d \in MCDomain |-> IF d = "gmial.com" THEN "gmail.com" ELSE None]

\* What the table of suggestions says is what the search finds.
ASSUME SuggestionsAreFound ==
    \A d \in MCDomain :
        Known!Suggest(Spelled[d]) = IF MCSuggestion[d] = None THEN None
                                    ELSE Spelled[MCSuggestion[d]]

At(local, domain) == [local |-> local, dotted |-> FALSE, tagged |-> FALSE, domain |-> domain]
Dotted(a) == [a EXCEPT !.dotted = TRUE]
Tagged(a) == [a EXCEPT !.tagged = TRUE]

Old(cell, answer, word, type, age) ==
    [cell |-> cell, answer |-> answer, said |-> word, listType |-> type, age |-> age]

Nothing == {}
Something == {
    Old(At("jdoe", "corp.com"), "found", "valid", "Newsletter", 7),
    Old(At("info", "corp.com"), "found", "greylisted", "Imports", 35),
    Old(At("jdoe", "tmp.com"), "skipped", None, "Imports", 400),
    Old(Bad, "skipped", None, "Newsletter", 40) }

JanuaryEnd == [month |-> 12 * 2026, day |-> 31]
LeapDay == [month |-> 12 * 2024 + 1, day |-> 29]

Case(rows, left, date, type, switches) ==
    {[file |-> rows, earlier |-> left, today |-> date, listType |-> type,
      settings |-> [dns |-> w[1], smtp |-> w[2]]] : w \in switches}

On == <<TRUE, TRUE>>
NoProbe == <<TRUE, FALSE>>
NoLookup == <<FALSE, TRUE>>

MCCases == UNION {
    Case(<<>>, Nothing, LeapDay, "Imports", {On, <<FALSE, FALSE>>}),
    Case(<<Dotted(At("jdoe", "gmail.com")), Tagged(At("jdoe", "googlemail.com")), Blank, Blank>>,
         Something, JanuaryEnd, "Imports", {On}),
    Case(<<Bad, BadLower, At("info", "gmial.com"), At("jdoe", "tmp.com")>>,
         Something, LeapDay, "Newsletter", {On, NoLookup}),
    Case(<<At("jdoe", "corp.com"), Tagged(At("info", "corp.com")), At("jdoe", "corp.com")>>,
         Nothing, JanuaryEnd, "Imports", {On}),
    Case(<<At("info", "corp.com"), Dotted(At("jdoe", "corp.com")), At("jdoe", "gmail.com")>>,
         Something, LeapDay, "Newsletter", {NoProbe, NoLookup}) }

-----------------------------------------------------------------------------
(* Suggestions, among words of four characters at most.                    *)

ShortTops == << <<"a", ".", "b">>, <<"a", "a", ".", "b">>, <<"b", ".", "a", "b">> >>
ShortFix == (<<"a">> :> <<"b">>) @@ (<<"a", "a">> :> <<"b">>)
Small == INSTANCE Typo WITH Tops <- ShortTops, TldFix <- ShortFix, Short <- 3
Words == UNION {[1..n -> {"a", "b", "."}] : n \in 1..4}

OneEdit(w) ==
    LET n == Len(w)
        cut(i) == SubSeq(w, 1, i - 1)
        rest(i) == SubSeq(w, i, n)
    IN  {cut(i) \o rest(i + 1) : i \in 1..n}
        \cup {cut(i) \o <<c>> \o rest(i) : i \in 1..(n + 1), c \in {"a", "b", "."}}
        \cup {cut(i) \o <<c>> \o rest(i + 1) : i \in 1..n, c \in {"a", "b", "."}}
        \cup {cut(i) \o <<w[i + 1], w[i]>> \o rest(i + 2) : i \in 1..(n - 1)}

Within1(a, b) == b = a \/ b \in OneEdit(a)
\* One edit, or two that do not overlap.
Within(a, b, edits) ==
    IF edits = 1 THEN Within1(a, b)
    ELSE \E i \in 0..Len(a), j \in 0..Len(b) :
            /\ Within1(SubSeq(a, 1, i), SubSeq(b, 1, j))
            /\ Within1(SubSeq(a, i + 1, Len(a)), SubSeq(b, j + 1, Len(b)))

\* The nearest known domain within its limit, and of those the first.
NearestOfAll(domain) ==
    LET near(edits) == {n \in DOMAIN ShortTops : /\ edits <= Small!LimitFor(ShortTops[n])
                                                /\ Within(domain, ShortTops[n], edits)}
    IN  IF near(1) # {} THEN ShortTops[Min(near(1))]
        ELSE IF near(2) # {} THEN ShortTops[Min(near(2))] ELSE None

\* What abandons a comparison, skips it or ends the scan changes no suggestion.
ASSUME NearestIsNearest ==
    \A w \in Words : w \notin Range(ShortTops) => Small!Nearest(w) = NearestOfAll(w)

(* Percentages claim neither nothing nor everything unless it is so.       *)
ASSUME ShareClaimsNoAbsolute ==
    \A whole \in 1..220 : \A part \in 0..whole :
        /\ (Share(part, whole) = [sign |-> "=", n |-> 0]) = (part = 0)
        /\ (Share(part, whole) = [sign |-> "=", n |-> 100]) = (part = whole)

(* Ordinals count the days of the Gregorian rule, from 1 January of year 1. *)
ASSUME MonthsAddUp ==
    /\ MonthStart(12) = 1
    /\ \A month \in 12..(12 * 2101) : MonthStart(month + 1) - MonthStart(month) = DaysOf(month)

\* Weeks are Monday to Sunday: 1 January 2026 was a Thursday.
ASSUME Thursday == /\ MonthStart(12 * 2026) = 739617
                   /\ Weekday(MonthStart(12 * 2026)) = 3
====
