-------------------------------- MODULE Typo --------------------------------
(***************************************************************************)
(* The domain a mistyped one was meant to be (layers/typo.py): the nearest *)
(* of the known domains, with the comparisons that cannot win left out or  *)
(* abandoned.  A domain is the sequence of its characters, lower case and  *)
(* without a trailing dot.                                                 *)
(***************************************************************************)
EXTENDS Integers, SequencesExt

CONSTANTS None,
          Tops,    \* _top_domains, in the order of the file
          TldFix,  \* _TLD_FIXES
          Short    \* a known domain this short is allowed one edit only

LimitFor(top) == IF Len(top) <= Short THEN 1 ELSE 2

\* Row i of the table of edits; its entry j + 1 is for the first j characters of b.
NextRow(a, b, i, prev, prev2) ==
    FoldLeft(LAMBDA cur, j :
                 LET cost == IF a[i] = b[j] THEN 0 ELSE 1
                     swapped == i > 1 /\ j > 1 /\ a[i] = b[j - 1] /\ a[i - 1] = b[j]
                 IN  Append(cur, Min({prev[j + 1] + 1, cur[j] + 1, prev[j] + cost}
                                     \cup IF swapped THEN {prev2[j - 1] + 1} ELSE {})),
             <<i>>, [j \in 1..Len(b) |-> j])

Apart(m, n) == IF m < n THEN n - m ELSE m - n

\* _damerau_levenshtein: most + 1 once the lengths, or a whole row, exclude the rest.
Distance(a, b, most) ==
    LET first == [prev2 |-> <<>>, prev |-> [j \in 1..(Len(b) + 1) |-> j - 1], lost |-> FALSE]
        last == FoldLeft(LAMBDA s, i :
                             IF s.lost THEN s
                             ELSE LET cur == NextRow(a, b, i, s.prev, s.prev2)
                                  IN  [prev2 |-> s.prev, prev |-> cur,
                                       lost |-> Min(Range(cur)) > most],
                         first, [i \in 1..Len(a) |-> i])
    IN  IF a = <<>> THEN Len(b) ELSE IF b = <<>> THEN Len(a)
        ELSE IF Apart(Len(a), Len(b)) > most \/ last.lost THEN most + 1
        ELSE last.prev[Len(b) + 1]

\* The scan of the known domains: the first at one edit ends it.
Nearest(domain) ==
    LET far == 99
    IN  FoldLeft(LAMBDA found, top :
                     LET limit == LimitFor(top)
                         dist == Distance(domain, top, limit)
                     IN  IF \/ found.dist = 1 \/ Apart(Len(domain), Len(top)) > limit
                            \/ dist > limit \/ dist >= found.dist
                         THEN found ELSE [best |-> top, dist |-> dist],
                 [best |-> None, dist |-> far], Tops).best

Dots(domain) == {i \in DOMAIN domain : domain[i] = "."}

\* _suggest: a known domain under another TLD, the nearest known one, a fixed TLD.
Suggest(domain) ==
    LET dot == Max(Dots(domain))
        tld == SubSeq(domain, dot + 1, Len(domain))
        fixed == SubSeq(domain, 1, dot) \o TldFix[tld]
        fixable == tld \in DOMAIN TldFix
    IN  IF Dots(domain) = {} \/ domain \in Range(Tops) THEN None
        ELSE IF fixable /\ fixed \in Range(Tops) THEN fixed
        ELSE IF Nearest(domain) # None THEN Nearest(domain)
        ELSE IF fixable THEN fixed ELSE None
=============================================================================
