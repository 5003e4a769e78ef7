------------------------------- MODULE Engine -------------------------------
(***************************************************************************)
(* What eve makes of one cell of a file, or of one address typed in: the   *)
(* cheap layers, the lookup and the probe folded into a verdict            *)
(* (engine.py, verdict.py, layers/, api/main.py).                          *)
(*                                                                         *)
(* A cell is blank, malformed, or an address.  An address keeps what the   *)
(* layers tell apart: its local part, whether dots or a +tag were added to *)
(* it, and its domain.  Case is left out, but for malformed cells: those   *)
(* are recorded as they were typed, and keyed in lower case.               *)
(* So is a local part that is all tag: normalize keys "+x@gmail.com" as    *)
(* "@gmail.com", which is also the key of that malformed cell; here a      *)
(* local part keeps something, and no address has the key of a malformed   *)
(* cell.                                                                   *)
(***************************************************************************)
EXTENDS Integers

CONSTANTS None,           \* no value
          Blank,          \* the cell with nothing in it
          Malformed,      \* cells email-validator rejects, the blank one apart
          Lower,          \* a malformed cell in lower case
          Local, Domain,  \* local parts and domains that occur
          Canon,          \* _DOMAIN_ALIASES, the identity elsewhere
          PlusAlias,      \* _PLUS_ALIAS_DOMAINS
          DotInsensitive, \* _DOT_INSENSITIVE_DOMAINS
          Roles, Free, Disposable,  \* the lists under eve/data
          Suggestion      \* the domain suggest_domain proposes, or None

Address == [local: Local, dotted: BOOLEAN, tagged: BOOLEAN, domain: Domain]
Cell == {Blank} \cup Malformed \cup Address

ASSUME EngineAssumption ==
    /\ Blank \notin Malformed \cup Address /\ Malformed \cap Address = {}
    /\ Lower \in [Malformed -> Malformed]
    /\ \A c \in Malformed : Lower[Lower[c]] = Lower[c]
    /\ Canon \in [Domain -> Domain]
    /\ Roles \subseteq Local
    /\ Suggestion \in [Domain -> Domain \cup {None}]

\* check_syntax: what is not rejected parses into a local part and a domain.
Parses(c) == c \in Address

Classes == [disposable: BOOLEAN, role: BOOLEAN, free: BOOLEAN]

\* A tagged or dotted local part is not on the list of roles.
Classify(a) == [disposable |-> a.domain \in Disposable,
                role |-> a.local \in Roles /\ ~a.dotted /\ ~a.tagged,
                free |-> a.domain \in Free]

\* The dedupe key of normalize.
Fold(a) == LET canon == Canon[a.domain]
           IN  [local |-> a.local,
                dotted |-> a.dotted /\ canon \notin DotInsensitive,
                tagged |-> a.tagged /\ canon \notin PlusAlias,
                domain |-> canon]

Key(c) == IF Parses(c) THEN Fold(c)
          ELSE IF c = Blank THEN Blank ELSE Lower[c]

Status == {"valid", "invalid", "risky", "unknown", "disposable"}
SubStatus == {"ok", "invalid_syntax", "no_mx", "disposable", "role_account",
              "catch_all", "mailbox_not_found", "greylisted", "timeout", "dns_error"}
PrimaryVerdict == {"deliverable", "risky", "unknown", "undeliverable"}

Primary(s) == IF s = "valid" THEN "deliverable"
              ELSE IF s \in {"invalid", "disposable"} THEN "undeliverable" ELSE s

(***************************************************************************)
(* A lookup and a probe end in one of these.  A probe's answer stands for  *)
(* its outcome, is_catch_all and the class of its detail.                  *)
(***************************************************************************)
MxAnswer == {"found", "null_mx", "no_mx", "timeout", "dns_error"}
ProbeAnswer == {"valid", "invalid", "catch_all", "greylisted", "other", "no_mx_hosts"}
Conclusive == {"valid", "invalid", "catch_all"}

ASSUME NoneAssumption == None \notin MxAnswer \cup ProbeAnswer \cup SubStatus \cup Nat

Verdict == [cell: Cell, domain: Domain \cup {None}, status: Status, sub: SubStatus,
            score: 0..100, typo: BOOLEAN, class: Classes, catchAll: BOOLEAN,
            mx: BOOLEAN, dns: MxAnswer \cup {"skipped", None},
            smtp: ProbeAnswer \cup {"smtp_probe_not_enabled", None}]

Score(v, base) ==
    LET score == base - (IF v.typo THEN 10 ELSE 0)
                      - (IF v.class.role /\ v.status \notin {"invalid", "disposable"}
                         THEN 5 ELSE 0)
                      - (IF v.class.free THEN 2 ELSE 0)
    IN  IF score < 0 THEN 0 ELSE IF score > 100 THEN 100 ELSE score

\* The score is taken after the status is set: a role costs nothing then.
Settle(v, status, sub, base) ==
    LET w == [v EXCEPT !.status = status, !.sub = sub]
    IN  [w EXCEPT !.score = Score(w, base)]

\* Layers 1, 2, 3 and 5, in the order they run.
Cheap(c) ==
    LET nothing == [disposable |-> FALSE, role |-> FALSE, free |-> FALSE]
        fresh == [cell |-> c, status |-> "unknown", sub |-> "ok", score |-> 0,
                  domain |-> IF Parses(c) THEN c.domain ELSE None,
                  typo |-> Parses(c) /\ Suggestion[c.domain] \notin {None, c.domain},
                  class |-> IF Parses(c) THEN Classify(c) ELSE nothing,
                  catchAll |-> FALSE, mx |-> FALSE, dns |-> None, smtp |-> None]
    IN  IF ~Parses(c)
        THEN [fresh EXCEPT !.status = "invalid", !.sub = "invalid_syntax"]
        ELSE IF fresh.class.disposable
             THEN Settle(fresh, "disposable", "disposable", 15)
             ELSE fresh

\* Whether the cheap layers settled it, so that nothing is looked up.
SettledCheaply(c) == Cheap(c).sub # "ok"

FinalizeWithoutSmtp(v) == IF v.class.role THEN Settle(v, "risky", "role_account", 55)
                          ELSE Settle(v, "unknown", "ok", 70)

\* validate with the probe off; answer is "skipped" with DNS off.
Validate(c, answer) ==
    LET v == [Cheap(c) EXCEPT !.dns = answer, !.mx = answer = "found"]
    IN  IF SettledCheaply(c) THEN Cheap(c)
        ELSE IF answer \in {"found", "skipped"} THEN FinalizeWithoutSmtp(v)
        ELSE IF answer \in {"timeout", "dns_error"} THEN Settle(v, "unknown", answer, 40)
        ELSE Settle(v, "invalid", "no_mx", 3)

\* Only conclusive answers get here; the code's last branch has no caller.
ApplyProbeOutcome(v, answer) ==
    IF answer = "catch_all"
    THEN Settle([v EXCEPT !.catchAll = TRUE], "risky", "catch_all", 50)
    ELSE IF answer = "invalid" THEN Settle(v, "invalid", "mailbox_not_found", 5)
    ELSE IF v.class.role THEN Settle(v, "risky", "role_account", 55)
    ELSE Settle(v, "valid", "ok", 95)

(***************************************************************************)
(* A single address, checked from the screen or the API: no prober is      *)
(* handed over, so with the probe on NotImplementedProber stands in for it.*)
(***************************************************************************)
SingleCheck(c, answer, smtp) ==
    LET v == Validate(c, answer)
    IN  IF smtp /\ v.mx THEN [v EXCEPT !.smtp = "smtp_probe_not_enabled"] ELSE v
=============================================================================
