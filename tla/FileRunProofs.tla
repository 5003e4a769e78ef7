---------------------------- MODULE FileRunProofs ----------------------------
(***************************************************************************)
(* Every verdict of a file's run rests on evidence, its trace is honest,   *)
(* the books balance and the screens agree, for every file, every table of *)
(* providers, every cache and every reply of DNS and of a mailbox.  First  *)
(* what the engine's operators build (that the layers leave the fields     *)
(* they do not settle alone), then the invariant of a run and its steps,   *)
(* one lemma per step of a check; then the shapes a verdict can have, the  *)
(* trace of each, and the second invariant, which says of every verdict    *)
(* that it has one of them; then sums over finite sets, and the third      *)
(* invariant, which says what is counted where; and last the screens over  *)
(* any table: sums over groups of rows, an order of a set and the pages of *)
(* it, the calendar and the rounding of the shares.                        *)
(***************************************************************************)
EXTENDS FileRun, FiniteSetTheorems, SequenceTheorems, WellFoundedInduction, TLAPS

\* Settling a verdict sets its status, sub-status and score and nothing else
\* (engine.py:139).
LEMMA Settled ==
  ASSUME NEW v \in Verdict, NEW status \in Status, NEW sub \in SubStatus, NEW base \in 0..100
  PROVE  Settle(v, status, sub, base) \in
            {w \in Verdict : /\ w.status = status /\ w.sub = sub
                            /\ w.cell = v.cell /\ w.domain = v.domain
                            /\ w.class = v.class /\ w.mx = v.mx /\ w.smtp = v.smtp}
<1> DEFINE x == [v EXCEPT !.status = status, !.sub = sub]
           n == Score(x, base)
<1>1. /\ x \in Verdict /\ x.status = status /\ x.sub = sub
      /\ x.cell = v.cell /\ x.domain = v.domain /\ x.class = v.class
      /\ x.mx = v.mx /\ x.smtp = v.smtp
  BY DEF Verdict
<1>2. n \in 0..100
  BY DEF Score
<1>3. Settle(v, status, sub, base) = [x EXCEPT !.score = n]
  BY DEF Settle
<1> HIDE DEF x, n
<1> QED BY <1>1, <1>2, <1>3 DEF Verdict

\* The result validate starts from, before any layer has settled it
\* (engine.py:43).
Fresh(c) == [cell |-> c, status |-> "unknown", sub |-> "ok", score |-> 0,
             domain |-> IF Parses(c) THEN c.domain ELSE None,
             typo |-> Parses(c) /\ Suggestion[c.domain] \notin {None, c.domain},
             class |-> IF Parses(c) THEN Classify(c)
                       ELSE [disposable |-> FALSE, role |-> FALSE, free |-> FALSE],
             catchAll |-> FALSE, mx |-> FALSE, dns |-> None, smtp |-> None]

\* A fresh result is a verdict, of this cell and of its domain if it has one.
LEMMA FreshVerdict ==
  ASSUME NEW c \in Cell
  PROVE  Fresh(c) \in Verdict /\ Fresh(c).cell = c /\ Fresh(c).smtp = None /\ Fresh(c).sub = "ok"
         /\ Fresh(c).status = "unknown"
         /\ (Parses(c) => Fresh(c).domain = c.domain /\ Fresh(c).domain \in Domain /\ Fresh(c).class = Classify(c))
<1> DEFINE d == IF Parses(c) THEN c.domain ELSE None
           t == Parses(c) /\ Suggestion[c.domain] \notin {None, c.domain}
           l == IF Parses(c) THEN Classify(c)
                       ELSE [disposable |-> FALSE, role |-> FALSE, free |-> FALSE]
<1>1. d \in Domain \cup {None} /\ (Parses(c) => d = c.domain /\ d \in Domain)
  BY DEF Parses, Address
<1>2. t \in BOOLEAN
  OBVIOUS
<1>3. l \in Classes /\ (Parses(c) => l = Classify(c))
  BY DEF Classify, Classes
<1>4. Fresh(c) = [cell |-> c, status |-> "unknown", sub |-> "ok", score |-> 0,
             domain |-> d, typo |-> t, class |-> l, catchAll |-> FALSE, mx |-> FALSE, dns |-> None, smtp |-> None]
  BY DEF Fresh
<1> HIDE DEF d, t, l
<1> QED BY <1>1, <1>2, <1>3, <1>4 DEF Verdict, Status, SubStatus

\* The layers before DNS either leave the address open, or settle it as
\* malformed or disposable and say nothing of the mailbox.
LEMMA CheapVerdict ==
  ASSUME NEW c \in Cell
  PROVE  /\ Cheap(c) \in Verdict /\ Cheap(c).cell = c /\ Cheap(c).smtp = None
         /\ ~SettledCheaply(c) => /\ Parses(c) /\ Cheap(c).domain = c.domain
         /\ Parses(c) => Cheap(c).domain = c.domain /\ c.domain \in Domain
         /\ SettledCheaply(c) =>
               /\ Cheap(c).status \in {"invalid", "disposable"}
               /\ Cheap(c).sub \in {"invalid_syntax", "disposable"}
               /\ ~Parses(c) \/ Cheap(c).domain \in Disposable
<1> DEFINE f == Fresh(c)
           malformed == [f EXCEPT !.status = "invalid", !.sub = "invalid_syntax"]
           disposable == Settle(f, "disposable", "disposable", 15)
<1>1. Cheap(c) = IF ~Parses(c) THEN malformed ELSE IF f.class.disposable THEN disposable ELSE f
  BY DEF Cheap, Fresh
<1>2. /\ f \in Verdict /\ f.cell = c /\ f.smtp = None /\ f.sub = "ok"
      /\ Parses(c) => f.domain = c.domain /\ c.domain \in Domain /\ f.class = Classify(c)
  BY FreshVerdict
<1>3. Parses(c) /\ f.class.disposable => c.domain \in Disposable
  <2> HIDE DEF f
  <2>1. Classify(c).disposable = (c.domain \in Disposable)
    BY DEF Classify
  <2> QED BY <1>2, <2>1
<1>4. malformed \in Verdict /\ malformed.cell = c /\ malformed.smtp = None
      /\ malformed.status = "invalid" /\ malformed.sub = "invalid_syntax"
  <2> HIDE DEF f
  <2> QED BY <1>2 DEF Verdict, Status, SubStatus
<1>5. /\ disposable \in Verdict /\ disposable.cell = c /\ disposable.smtp = None
      /\ disposable.domain = f.domain
      /\ disposable.status = "disposable" /\ disposable.sub = "disposable"
  <2> HIDE DEF f
  <2>1. "disposable" \in Status /\ "disposable" \in SubStatus /\ 15 \in 0..100
    BY DEF Status, SubStatus
  <2>3. f \in Verdict
    BY <1>2
  <2>2. disposable \in {w \in Verdict : /\ w.status = "disposable" /\ w.sub = "disposable"
                            /\ w.cell = f.cell /\ w.domain = f.domain
                            /\ w.class = f.class /\ w.mx = f.mx /\ w.smtp = f.smtp}
     BY Settled, <2>3, <2>1
  <2> HIDE DEF disposable
  <2> QED BY <1>2, <2>2
<1> HIDE DEF f, malformed, disposable
<1> QED BY <1>1, <1>2, <1>3, <1>4, <1>5 DEF SettledCheaply

\* A verdict of the cheap layers and the lookup, with nothing heard of the mailbox.
Unprobed(v) == /\ v \in Verdict /\ v.smtp = None
               /\ v.status \in {"risky", "unknown", "invalid", "disposable"}
               /\ v.sub \notin {"mailbox_not_found", "catch_all", "greylisted"}

\* Without a probe the engine never says deliverable, and says undeliverable
\* of an open address only on a definite answer of DNS.
LEMMA ValidateVerdict ==
  ASSUME NEW c \in Cell, ~SettledCheaply(c), NEW answer \in MxAnswer \cup {"skipped"}
  PROVE  LET v == Validate(c, answer)
         IN  /\ Unprobed(v) /\ v.status # "disposable"
             /\ v.cell = c /\ v.domain = c.domain /\ v.mx = (answer = "found")
             /\ v.status = "invalid" => v.sub = "no_mx" /\ answer \in {"null_mx", "no_mx"}
<1> DEFINE u == Cheap(c)
           found == answer = "found"
           w == [u EXCEPT !.dns = answer, !.mx = found]
           v == Validate(c, answer)
<1>1. /\ u \in Verdict /\ u.cell = c /\ u.domain = c.domain /\ u.smtp = None
  BY CheapVerdict
<1>2. /\ w \in Verdict /\ w.cell = c /\ w.domain = c.domain /\ w.smtp = None
      /\ w.mx = (answer = "found")
  <2>1. found \in BOOLEAN
    OBVIOUS
  <2> HIDE DEF u, found
  <2>2. /\ w \in Verdict /\ w.cell = c /\ w.domain = c.domain /\ w.smtp = None
        /\ w.mx = found
    BY <1>1, <2>1 DEF Verdict
  <2> QED BY <2>2 DEF found
<1> DEFINE as(status, sub) == {x \in Verdict : /\ x.status = status /\ x.sub = sub
                                 /\ x.cell = w.cell /\ x.domain = w.domain
                                 /\ x.class = w.class /\ x.mx = w.mx /\ x.smtp = w.smtp}
<1>3. /\ {"risky", "unknown", "invalid"} \subseteq Status
      /\ {"role_account", "ok", "timeout", "dns_error", "no_mx"} \subseteq SubStatus
      /\ {55, 70, 40, 3} \subseteq 0..100
  BY DEF Status, SubStatus
<1>4. v = IF answer \in {"found", "skipped"}
          THEN IF w.class.role THEN Settle(w, "risky", "role_account", 55)
               ELSE Settle(w, "unknown", "ok", 70)
          ELSE IF answer \in {"timeout", "dns_error"} THEN Settle(w, "unknown", answer, 40)
          ELSE Settle(w, "invalid", "no_mx", 3)
  BY DEF Validate, FinalizeWithoutSmtp
<1>5. w \in Verdict
  BY <1>2
<1> HIDE DEF u, w
<1>6. /\ Settle(w, "risky", "role_account", 55) \in as("risky", "role_account")
      /\ Settle(w, "unknown", "ok", 70) \in as("unknown", "ok")
      /\ Settle(w, "invalid", "no_mx", 3) \in as("invalid", "no_mx")
  <2>1. "risky" \in Status /\ "role_account" \in SubStatus /\ 55 \in 0..100
    BY <1>3
  <2>2. "unknown" \in Status /\ "ok" \in SubStatus /\ 70 \in 0..100
    BY <1>3
  <2>3. "invalid" \in Status /\ "no_mx" \in SubStatus /\ 3 \in 0..100
    BY <1>3
  <2>4. Settle(w, "risky", "role_account", 55) \in as("risky", "role_account")
    BY Settled, <1>5, <2>1
  <2>5. Settle(w, "unknown", "ok", 70) \in as("unknown", "ok")
    BY Settled, <1>5, <2>2
  <2>6. Settle(w, "invalid", "no_mx", 3) \in as("invalid", "no_mx")
    BY Settled, <1>5, <2>3
  <2> QED BY <2>4, <2>5, <2>6
<1>7. answer \in {"timeout", "dns_error"} =>
          Settle(w, "unknown", answer, 40) \in as("unknown", answer)
  <2> SUFFICES ASSUME answer \in {"timeout", "dns_error"}
               PROVE  Settle(w, "unknown", answer, 40) \in as("unknown", answer)
    OBVIOUS
  <2>1. "unknown" \in Status /\ answer \in SubStatus /\ 40 \in 0..100
    BY <1>3
  <2> QED BY Settled, <1>5, <2>1
<1>8. answer \notin {"found", "skipped", "timeout", "dns_error"} => answer \in {"null_mx", "no_mx"}
  BY DEF MxAnswer
<1> HIDE DEF v
<1>9. CASE answer \in {"found", "skipped"}
  BY <1>2, <1>4, <1>6, <1>9 DEF Unprobed, v
<1>10. CASE answer \in {"timeout", "dns_error"}
  BY <1>2, <1>4, <1>7, <1>10 DEF Unprobed, v
<1>11. CASE answer \notin {"found", "skipped", "timeout", "dns_error"}
  BY <1>2, <1>4, <1>6, <1>8, <1>11 DEF Unprobed, v
<1> QED BY <1>9, <1>10, <1>11

\* A verdict as it is once told: by the receiver when word is no None, and
\* by what was heard of its domain.
Founded(v, word, told) ==
    /\ Primary(v.status) = "undeliverable" =>
          \/ ~Parses(v.cell) \/ v.domain \in Disposable
          \/ v.sub = "no_mx" /\ word = None /\ told[v.domain] # {}
          \/ v.sub = "mailbox_not_found" /\ word = "invalid"
    /\ (v.status = "valid") = (word = "valid" /\ ~v.class.role)
    /\ ~settings.smtp => word = None
    /\ (v.sub = "mailbox_not_found") = (word = "invalid")
    /\ (v.sub = "catch_all") = (word = "catch_all")
    /\ (v.sub = "greylisted") = (word = "greylisted")
    /\ word # None => v.mx \/ ~settings.dns

\* What a check that may still probe holds.
Probeable(v) == /\ Unprobed(v) /\ v.status \notin {"invalid", "disposable"}
                /\ settings.smtp /\ (v.mx \/ ~settings.dns) /\ v.domain \in Domain

\* No answer at all is none of the answers.
LEMMA NoWord == None \notin {"valid", "invalid", "catch_all", "greylisted", "other", "no_mx_hosts"}
  BY NoneAssumption DEF ProbeAnswer

\* What the engine says before a probe is founded on the address or on DNS.
LEMMA UnprobedFounded ==
  ASSUME NEW v, Unprobed(v), NEW told,
         v.status \in {"invalid", "disposable"} =>
            \/ ~Parses(v.cell) \/ v.domain \in Disposable
            \/ v.sub = "no_mx" /\ told[v.domain] # {}
  PROVE  Founded(v, None, told)
  BY NoWord DEF Founded, Unprobed, Primary

\* So is a check whose second lookup finds no host to probe.
LEMMA NoHostsFounded ==
  ASSUME NEW v, Probeable(v), NEW told
  PROVE  Founded([v EXCEPT !.smtp = "no_mx_hosts"], "no_mx_hosts", told)
  BY NoWord DEF Founded, Probeable, Unprobed, Primary, Verdict

\* Folding a probe's answer into a verdict founds it on that answer, and
\* leaves its domain.
LEMMA FoldedFounded ==
  ASSUME NEW v, Probeable(v), NEW answer \in ProbeAnswer \ {"no_mx_hosts"}, NEW told
  PROVE  Founded(Folded(v, answer), answer, told) /\ Folded(v, answer).domain = v.domain
<1> DEFINE w == [v EXCEPT !.smtp = answer]
           x == [w EXCEPT !.catchAll = TRUE]
           g == [w EXCEPT !.sub = "greylisted"]
           as(u, status, sub) == {y \in Verdict : /\ y.status = status /\ y.sub = sub
                                    /\ y.cell = u.cell /\ y.domain = u.domain
                                    /\ y.class = u.class /\ y.mx = u.mx /\ y.smtp = u.smtp}
<1>1. /\ w \in Verdict /\ w.status = v.status /\ w.sub = v.sub /\ w.mx = v.mx
      /\ w.class = v.class /\ w.domain = v.domain
  BY DEF Verdict, Probeable, Unprobed
<1>2. w.status \in {"risky", "unknown"}
      /\ w.sub \notin {"mailbox_not_found", "catch_all", "greylisted"}
  BY <1>1 DEF Probeable, Unprobed
<1>3. Folded(v, answer) =
        IF answer = "catch_all" THEN Settle(x, "risky", "catch_all", 50)
        ELSE IF answer = "invalid" THEN Settle(w, "invalid", "mailbox_not_found", 5)
        ELSE IF answer = "valid"
             THEN IF w.class.role THEN Settle(w, "risky", "role_account", 55)
                  ELSE Settle(w, "valid", "ok", 95)
        ELSE IF answer = "greylisted" THEN g ELSE w
  BY DEF Folded, Conclusive, ApplyProbeOutcome
<1> HIDE DEF w
<1>4. /\ x \in Verdict /\ x.mx = w.mx /\ x.class = w.class /\ x.domain = w.domain
      /\ g \in Verdict /\ g.mx = w.mx /\ g.class = w.class /\ g.domain = w.domain
      /\ g.status = w.status /\ g.sub = "greylisted"
  BY <1>1 DEF Verdict, SubStatus
<1> HIDE DEF x, g
<1>5. /\ "risky" \in Status /\ "invalid" \in Status /\ "valid" \in Status
      /\ "catch_all" \in SubStatus /\ "mailbox_not_found" \in SubStatus
      /\ "role_account" \in SubStatus /\ "ok" \in SubStatus
      /\ 50 \in 0..100 /\ 5 \in 0..100 /\ 55 \in 0..100 /\ 95 \in 0..100
  BY DEF Status, SubStatus
<1>6. w \in Verdict /\ x \in Verdict
  BY <1>1, <1>4
<1>7. Settle(x, "risky", "catch_all", 50) \in as(x, "risky", "catch_all")
  BY Settled, <1>5, <1>6
<1>8. Settle(w, "invalid", "mailbox_not_found", 5) \in as(w, "invalid", "mailbox_not_found")
  BY Settled, <1>5, <1>6
<1>9. Settle(w, "risky", "role_account", 55) \in as(w, "risky", "role_account")
  BY Settled, <1>5, <1>6
<1>10. Settle(w, "valid", "ok", 95) \in as(w, "valid", "ok")
  BY Settled, <1>5, <1>6
<1>11. w.mx \/ ~settings.dns
  BY <1>1 DEF Probeable
<1>12. settings.smtp
  BY DEF Probeable
<1>13. w.domain = v.domain
  BY <1>1
<1>14. CASE answer = "catch_all"
  BY <1>14, <1>3, <1>4, <1>7, <1>11, <1>12, <1>13 DEF Founded, Primary
<1>15. CASE answer = "invalid"
  BY <1>15, <1>3, <1>8, <1>11, <1>12, <1>13 DEF Founded, Primary
<1>16. CASE answer = "valid"
  BY <1>16, <1>3, <1>9, <1>10, <1>11, <1>12, <1>13 DEF Founded, Primary
<1>17. CASE answer = "greylisted"
  BY <1>17, <1>2, <1>3, <1>4, <1>11, <1>12, <1>13, NoWord DEF Founded, Primary
<1>18. CASE answer \notin {"catch_all", "invalid", "valid", "greylisted"}
  BY <1>18, <1>2, <1>3, <1>11, <1>12, <1>13, NoWord DEF Founded, Primary
<1> QED BY <1>14, <1>15, <1>16, <1>17, <1>18

-----------------------------------------------------------------------------
(* The invariant.  Undeliverable verdicts need the cache to hold only what *)
(* was heard; a verdict stays as it was told because a key is verified     *)
(* once, and told of only when it is; and a check on its way to the        *)
(* mailbox holds a verdict that nothing has been said of yet.              *)
Given == /\ file \in Seq(Cell) /\ settings \in [dns: BOOLEAN, smtp: BOOLEAN]

CacheHeard ==
    /\ cache \in [Domain -> MxAnswer \cup {None}]
    /\ heard \in [Domain -> SUBSET {"refused", "lost"}]
    /\ \A d \in Domain : cache[d] \in {"null_mx", "no_mx"} => heard[d] # {}

CheckSound(k) ==
    /\ \E i \in Firsts : Key(file[i]) = k
    /\ chunk[k].at # "verified" => k \notin DOMAIN verdicts
    /\ chunk[k].at = "asking" => ~SettledCheaply(CellOf(k)) /\ settings.dns
    /\ chunk[k].at \in {"hosts", "askingHosts"} => ~SettledCheaply(CellOf(k))
    /\ chunk[k].at \in {"hosts", "askingHosts", "probing"} => Probeable(chunk[k].v)

Word(k) == IF k \in DOMAIN said THEN said[k] ELSE None

IInv == /\ Given /\ CacheHeard
        /\ \A k \in DOMAIN chunk : CheckSound(k)
        /\ DOMAIN said \subseteq DOMAIN verdicts
        /\ \A k \in DOMAIN verdicts : verdicts[k].domain \in Domain \/ ~Parses(verdicts[k].cell)
        /\ \A k \in DOMAIN verdicts : Founded(verdicts[k], Word(k), heard)

\* A run starts with an empty cache and no verdict.
LEMMA InitInv == Init => IInv
<1> SUFFICES ASSUME Init PROVE IInv
  OBVIOUS
<1>1. Given
  BY FileRunAssumption DEF Init, Given
<1>2. CacheHeard
  BY NoneAssumption DEF Init, CacheHeard, MxAnswer
<1>3. DOMAIN chunk = {} /\ DOMAIN verdicts = {} /\ DOMAIN said = {}
  BY DEF Init
<1> QED BY <1>1, <1>2, <1>3 DEF IInv

\* The cell a check verifies is one of the file's, under that key.
LEMMA CellOfCell ==
  ASSUME IInv, NEW k \in DOMAIN chunk
  PROVE  CellOf(k) \in Cell
<1>1. \E i \in Firsts : Key(file[i]) = k
  BY DEF IInv, CheckSound
<1>2. PICK i \in Firsts : CellOf(k) = file[i]
  BY <1>1 DEF CellOf
<1>3. i \in DOMAIN file
  BY <1>2 DEF Firsts
<1> QED BY <1>2, <1>3 DEF IInv, Given

\* What is cached was heard, and what was heard stays heard.
LEMMA PutHears ==
  ASSUME IInv, NEW d \in Domain, NEW reply \in Reply, Put(d, reply)
  PROVE  /\ CacheHeard' /\ AnswerOf(reply) \in MxAnswer
         /\ \A e \in Domain : heard[e] \subseteq heard'[e]
         /\ AnswerOf(reply) \in {"null_mx", "no_mx"} => heard'[d] # {}
<1>1. AnswerOf(reply) \in MxAnswer
  BY DEF AnswerOf, MxAnswer, Reply
<1>2. Against(reply) \in SUBSET {"refused", "lost"}
  BY DEF Against
<1>3. AnswerOf(reply) \in {"null_mx", "no_mx"} => Against(reply) # {}
  BY DEF AnswerOf, Against, Reply
<1>4. /\ cache \in [Domain -> MxAnswer \cup {None}]
      /\ heard \in [Domain -> SUBSET {"refused", "lost"}]
      /\ \A e \in Domain : cache[e] \in {"null_mx", "no_mx"} => heard[e] # {}
  BY DEF IInv, CacheHeard
<1>5. /\ cache' = [cache EXCEPT ![d] = AnswerOf(reply)]
      /\ heard' = [heard EXCEPT ![d] = heard[d] \cup Against(reply)]
  BY DEF Put
<1>6. /\ cache' \in [Domain -> MxAnswer \cup {None}]
      /\ heard' \in [Domain -> SUBSET {"refused", "lost"}]
      /\ \A e \in Domain : heard[e] \subseteq heard'[e]
  BY <1>1, <1>2, <1>4, <1>5
<1>7. AnswerOf(reply) \in {"null_mx", "no_mx"} => heard'[d] # {}
  BY <1>3, <1>4, <1>5
<1>8. \A e \in Domain : cache'[e] \in {"null_mx", "no_mx"} => heard'[e] # {}
  BY <1>4, <1>5, <1>6, <1>7
<1> QED BY <1>1, <1>6, <1>7, <1>8 DEF CacheHeard

\* Hearing more takes nothing back.
LEMMA FoundedGrows ==
  ASSUME IInv, \A e \in Domain : heard[e] \subseteq heard'[e], NEW k \in DOMAIN verdicts
  PROVE  Founded(verdicts[k], Word(k), heard')
  BY DEF IInv, Founded

\* The steps that leave the checks alone.
LEMMA Aside ==
  ASSUME IInv, CacheHeard', \A e \in Domain : heard[e] \subseteq heard'[e],
         UNCHANGED <<file, settings, chunk, verdicts, said>>
  PROVE  IInv'
<1>1. (\A k \in DOMAIN verdicts : Founded(verdicts[k], Word(k), heard))'
  BY FoundedGrows DEF Founded, Word
<1>2. (\A k \in DOMAIN chunk : CheckSound(k))'
  BY DEF IInv, CheckSound, CellOf, Firsts, Probeable
<1> QED BY <1>1, <1>2 DEF IInv, Given

\* Ending a check with a founded verdict keeps the invariant.
LEMMA VerifiedKeeps ==
  ASSUME IInv, NEW k \in DOMAIN chunk, chunk[k].at # "verified", NEW v, NEW word, Verified(k, v),
         CacheHeard', \A e \in Domain : heard[e] \subseteq heard'[e], UNCHANGED <<file, settings>>,
         (word = None /\ said' = said) \/ said' = With(said, k, word),
         v.domain \in Domain \/ ~Parses(v.cell), Founded(v, word, heard')
  PROVE  IInv'
<1>1. k \notin DOMAIN verdicts /\ k \notin DOMAIN said
  BY DEF IInv, CheckSound
<1>2. /\ DOMAIN verdicts' = DOMAIN verdicts \cup {k} /\ verdicts'[k] = v
      /\ \A l \in DOMAIN verdicts : verdicts'[l] = verdicts[l]
  BY <1>1 DEF Verified, With
<1>3. /\ DOMAIN said \subseteq DOMAIN said' /\ DOMAIN said' \subseteq DOMAIN said \cup {k}
      /\ Word(k)' = word
      /\ \A l \in DOMAIN verdicts : Word(l)' = Word(l)
  BY <1>1 DEF With, Word
<1>4. (\A l \in DOMAIN verdicts : Founded(verdicts[l], Word(l), heard))'
  <2> SUFFICES ASSUME NEW l \in DOMAIN verdicts'
               PROVE  Founded(verdicts[l], Word(l), heard)'
    OBVIOUS
  <2>1. CASE l = k
    BY <2>1, <1>2, <1>3 DEF Founded
  <2>2. CASE l \in DOMAIN verdicts
    <3>1. Founded(verdicts[l], Word(l), heard')
      BY <2>2, FoundedGrows
    <3> QED BY <2>2, <3>1, <1>2, <1>3 DEF Founded
  <2> QED BY <2>1, <2>2, <1>2
<1>5. chunk' = [chunk EXCEPT ![k] = [at |-> "verified", v |-> None]]
  BY DEF Verified
<1>6. ASSUME NEW l \in DOMAIN chunk' PROVE CheckSound(l)'
  <2>1. l \in DOMAIN chunk
    BY <1>5
  <2>2. (\E i \in Firsts : Key(file[i]) = l)'
    BY <2>1 DEF IInv, CheckSound, Firsts
  <2>3. CASE l = k
    BY <2>2, <2>3, <1>5 DEF CheckSound
  <2>4. CASE l # k
    <3>1. chunk'[l] = chunk[l]
      BY <2>1, <2>4, <1>5
    <3>2. chunk[l].at # "verified" => l \notin DOMAIN verdicts'
      BY <2>1, <2>4, <1>2 DEF IInv, CheckSound
    <3> QED BY <2>1, <2>2, <3>1, <3>2 DEF IInv, CheckSound, CellOf, Firsts, Probeable
  <2> QED BY <2>3, <2>4
<1>7. (\A l \in DOMAIN verdicts : verdicts[l].domain \in Domain \/ ~Parses(verdicts[l].cell))'
  BY <1>2 DEF IInv
<1>8. (DOMAIN said \subseteq DOMAIN verdicts)'
  BY <1>2, <1>3 DEF IInv
<1> QED BY <1>4, <1>6, <1>7, <1>8 DEF IInv, Given

\* So does sending it on to wait for DNS or for the mailbox.
LEMMA AwaitKeeps ==
  ASSUME IInv, NEW k \in DOMAIN chunk, chunk[k].at # "verified", NEW at, NEW v, Await(k, at, v),
         CacheHeard', \A e \in Domain : heard[e] \subseteq heard'[e],
         UNCHANGED <<file, settings, said>>,
         at = "asking" => settings.dns,
         at \in {"asking", "hosts", "askingHosts"} => ~SettledCheaply(CellOf(k)),
         at \in {"hosts", "askingHosts", "probing"} => Probeable(v)
  PROVE  IInv'
<1>1. /\ chunk' = [chunk EXCEPT ![k] = [at |-> at, v |-> v]]
      /\ UNCHANGED verdicts
  BY DEF Await
<1>2. ASSUME NEW l \in DOMAIN chunk' PROVE CheckSound(l)'
  <2>1. l \in DOMAIN chunk
    BY <1>1
  <2>2. CASE l = k
    <3>1. chunk'[l].at = at /\ chunk'[l].v = v
      BY <2>2, <1>1
    <3> QED BY <2>1, <2>2, <3>1, <1>1 DEF IInv, CheckSound, CellOf, Firsts, Probeable
  <2>3. CASE l # k
    <3>1. chunk'[l] = chunk[l]
      BY <2>1, <2>3, <1>1
    <3> QED BY <2>1, <3>1, <1>1 DEF IInv, CheckSound, CellOf, Firsts, Probeable
  <2> QED BY <2>2, <2>3
<1>3. (\A l \in DOMAIN verdicts : Founded(verdicts[l], Word(l), heard))'
  BY <1>1, FoundedGrows DEF Founded, Word
<1> QED BY <1>1, <1>2, <1>3 DEF IInv, Given

\* So does the engine's verdict, whether it is final or goes on to the probe.
LEMMA ConcludedKeeps ==
  ASSUME IInv, NEW k \in DOMAIN chunk, chunk[k].at # "verified", ~SettledCheaply(CellOf(k)),
         NEW answer \in MxAnswer \cup {"skipped"}, (answer = "skipped") = ~settings.dns,
         Concluded(k, Validate(CellOf(k), answer)),
         answer \in {"null_mx", "no_mx"} => heard'[CellOf(k).domain] # {},
         CacheHeard', \A e \in Domain : heard[e] \subseteq heard'[e],
         UNCHANGED <<file, settings, said>>
  PROVE  IInv'
<1> DEFINE c == CellOf(k)
           v == Validate(c, answer)
<1>1. c \in Cell
  BY CellOfCell
<1>2. /\ Unprobed(v) /\ v.status # "disposable"
      /\ v.cell = c /\ v.domain = c.domain /\ v.mx = (answer = "found")
      /\ v.status = "invalid" => v.sub = "no_mx" /\ answer \in {"null_mx", "no_mx"}
  BY <1>1, ValidateVerdict
<1>3. c.domain \in Domain
  BY <1>1, CheapVerdict
<1> HIDE DEF v, c
<1>4. CASE Verified(k, v)
  <2>1. Founded(v, None, heard')
    BY <1>2, UnprobedFounded DEF c
  <2> QED BY <1>2, <1>3, <1>4, <2>1, VerifiedKeeps
<1>5. CASE /\ settings.smtp /\ v.status \notin {"invalid", "disposable"}
           /\ ~settings.dns \/ v.mx
           /\ Await(k, IF settings.dns THEN "hosts" ELSE "probing", v)
  <2>1. Probeable(v)
    BY <1>2, <1>3, <1>5 DEF Probeable
  <2>2. ~SettledCheaply(CellOf(k))
    OBVIOUS
  <2>3. CASE settings.dns
    <3>1. Await(k, "hosts", v)
      BY <1>5, <2>3
    <3> QED BY <3>1, <2>1, <2>2, AwaitKeeps
  <2>4. CASE ~settings.dns
    <3>1. Await(k, "probing", v)
      BY <1>5, <2>4
    <3> QED BY <3>1, <2>1, <2>2, AwaitKeeps
  <2> QED BY <2>3, <2>4
<1> QED BY <1>4, <1>5 DEF Concluded, v, c

\* The steps of a check, one by one: the cheap layers and the cached answer,
LEMMA CheckKeeps ==
  ASSUME IInv, NEW k \in DOMAIN chunk, Check(k), UNCHANGED <<file, settings>>
  PROVE  IInv'
<1> DEFINE c == CellOf(k)
<1>1. c \in Cell
  BY CellOfCell
<1>2. /\ CacheHeard' /\ chunk[k].at # "verified" /\ chunk[k].at = "start"
      /\ \A e \in Domain : heard[e] \subseteq heard'[e]
      /\ UNCHANGED <<cache, heard, said>>
  BY DEF Check, IInv, CacheHeard
<1>3. ~SettledCheaply(c) => c.domain \in Domain
  BY <1>1, CheapVerdict
<1>4. CASE SettledCheaply(c) /\ Verified(k, Cheap(c))
  <2> DEFINE v == Cheap(c)
  <2>1. /\ v \in Verdict /\ v.cell = c /\ v.smtp = None
        /\ v.status \in {"invalid", "disposable"} /\ v.sub \in {"invalid_syntax", "disposable"}
        /\ ~Parses(c) \/ v.domain \in Disposable
        /\ v.domain \in Domain \/ ~Parses(v.cell)
    BY <1>1, <1>4, CheapVerdict
  <2> HIDE DEF v, c
  <2>2. Founded(v, None, heard')
    BY <2>1, UnprobedFounded DEF Unprobed
  <2>3. Verified(k, v)
    BY <1>4 DEF v
  <2> QED BY <1>2, <2>1, <2>2, <2>3, VerifiedKeeps
<1>5. CASE ~SettledCheaply(c) /\ ~settings.dns /\ Concluded(k, Validate(c, "skipped"))
  BY <1>2, <1>5, ConcludedKeeps
<1>6. CASE /\ ~SettledCheaply(c) /\ settings.dns /\ cache[c.domain] # None
           /\ Concluded(k, Validate(c, cache[c.domain]))
  <2> DEFINE answer == cache[c.domain]
  <2>1. answer \in MxAnswer /\ (answer \in {"null_mx", "no_mx"} => heard'[c.domain] # {})
    BY <1>2, <1>3, <1>6 DEF IInv, CacheHeard
  <2>2. answer # "skipped"
    BY <2>1 DEF MxAnswer
  <2> HIDE DEF answer
  <2> QED BY <1>2, <1>6, <2>1, <2>2, ConcludedKeeps DEF answer
<1>7. CASE ~SettledCheaply(c) /\ settings.dns /\ Await(k, "asking", None)
  BY <1>2, <1>7, AwaitKeeps
<1> QED BY <1>4, <1>5, <1>6, <1>7 DEF Check

\* the answer of the first lookup,
LEMMA AnsweredKeeps ==
  ASSUME IInv, NEW k \in DOMAIN chunk, Answered(k), UNCHANGED <<file, settings>>
  PROVE  IInv'
<1>1. /\ chunk[k].at = "asking" /\ UNCHANGED said
      /\ ~SettledCheaply(CellOf(k)) /\ settings.dns
  BY DEF Answered, IInv, CheckSound
<1>2. CellOf(k).domain \in Domain
  BY <1>1, CellOfCell, CheapVerdict
<1>3. PICK reply \in Reply : /\ Put(CellOf(k).domain, reply)
                             /\ Concluded(k, Validate(CellOf(k), AnswerOf(reply)))
  BY DEF Answered
<1> DEFINE answer == AnswerOf(reply)
<1>4. /\ CacheHeard' /\ answer \in MxAnswer
      /\ \A e \in Domain : heard[e] \subseteq heard'[e]
      /\ answer \in {"null_mx", "no_mx"} => heard'[CellOf(k).domain] # {}
  BY <1>2, <1>3, PutHears
<1>5. answer # "skipped"
  BY <1>4 DEF MxAnswer
<1> HIDE DEF answer
<1> QED BY <1>1, <1>3, <1>4, <1>5, ConcludedKeeps DEF answer

\* the hosts the second lookup gives,
LEMMA HostsAreKeeps ==
  ASSUME IInv, NEW k \in DOMAIN chunk, chunk[k].at \in {"hosts", "askingHosts"},
         NEW answer, HostsAre(k, answer), CacheHeard',
         \A e \in Domain : heard[e] \subseteq heard'[e], UNCHANGED <<file, settings>>
  PROVE  IInv'
<1> DEFINE v == chunk[k].v
           w == [v EXCEPT !.smtp = "no_mx_hosts"]
<1>1. Probeable(v) /\ chunk[k].at # "verified" /\ ~SettledCheaply(CellOf(k))
  BY DEF IInv, CheckSound
<1>2. CASE answer = "found"
  <2>1. Await(k, "probing", v) /\ UNCHANGED said
    BY <1>2 DEF HostsAre
  <2> QED BY <1>1, <2>1, AwaitKeeps
<1>3. CASE answer # "found"
  <2>1. Verified(k, w) /\ said' = With(said, k, "no_mx_hosts")
    BY <1>3 DEF HostsAre
  <2>2. Founded(w, "no_mx_hosts", heard')
    BY <1>1, NoHostsFounded
  <2>3. w.domain \in Domain \/ ~Parses(w.cell)
    BY <1>1 DEF Probeable, Unprobed, Verdict, Parses
  <2> HIDE DEF w
  <2> QED BY <1>1, <2>1, <2>2, <2>3, VerifiedKeeps
<1> QED BY <1>2, <1>3

\* from the cache
LEMMA HostsKeeps ==
  ASSUME IInv, NEW k \in DOMAIN chunk, Hosts(k), UNCHANGED <<file, settings>>
  PROVE  IInv'
<1>1. /\ chunk[k].at = "hosts" /\ CacheHeard' /\ UNCHANGED heard
      /\ \A e \in Domain : heard[e] \subseteq heard'[e]
      /\ Probeable(chunk[k].v) /\ ~SettledCheaply(CellOf(k))
  BY DEF Hosts, IInv, CacheHeard, CheckSound
<1>2. CASE HostsAre(k, cache[CellOf(k).domain])
  BY <1>1, <1>2, HostsAreKeeps
<1>3. CASE Await(k, "askingHosts", chunk[k].v) /\ UNCHANGED said
  BY <1>1, <1>3, AwaitKeeps
<1> QED BY <1>2, <1>3 DEF Hosts

\* or from the network,
LEMMA HostsAnsweredKeeps ==
  ASSUME IInv, NEW k \in DOMAIN chunk, HostsAnswered(k), UNCHANGED <<file, settings>>
  PROVE  IInv'
<1>1. chunk[k].at = "askingHosts" /\ ~SettledCheaply(CellOf(k))
  BY DEF HostsAnswered, IInv, CheckSound
<1>2. CellOf(k).domain \in Domain
  BY <1>1, CellOfCell, CheapVerdict
<1>3. PICK reply \in Reply : /\ Put(CellOf(k).domain, reply)
                             /\ HostsAre(k, AnswerOf(reply))
  BY DEF HostsAnswered
<1>4. CacheHeard' /\ \A e \in Domain : heard[e] \subseteq heard'[e]
  BY <1>2, <1>3, PutHears
<1> QED BY <1>1, <1>3, <1>4, HostsAreKeeps

\* and the mailbox's answer.
LEMMA ProbedKeeps ==
  ASSUME IInv, NEW k \in DOMAIN chunk, Probed(k), UNCHANGED <<file, settings>>
  PROVE  IInv'
<1> DEFINE v == chunk[k].v
<1>1. PICK answer \in ProbeAnswer \ {"no_mx_hosts"} :
         Verified(k, Folded(v, answer)) /\ said' = With(said, k, answer)
  BY DEF Probed
<1> DEFINE w == Folded(v, answer)
<1>2. /\ chunk[k].at = "probing" /\ CacheHeard'
      /\ \A e \in Domain : heard[e] \subseteq heard'[e]
      /\ Probeable(v)
  BY DEF Probed, IInv, CacheHeard, CheckSound
<1>3. Founded(w, answer, heard') /\ w.domain \in Domain
  <2>1. Founded(w, answer, heard') /\ w.domain = v.domain
    BY <1>2, FoldedFounded
  <2>2. v.domain \in Domain
    BY <1>2 DEF Probeable, Unprobed
  <2> QED BY <2>1, <2>2
<1> HIDE DEF w, v
<1>4. Verified(k, w)
  BY <1>1 DEF w
<1> QED BY <1>1, <1>2, <1>3, <1>4, VerifiedKeeps

\* Every step of a check keeps the invariant.
LEMMA VerifyKeeps ==
  ASSUME IInv, NEW k, Verify(k)
  PROVE  IInv'
<1>1. k \in DOMAIN chunk /\ UNCHANGED <<file, settings>>
  BY DEF Verify
<1> QED BY <1>1, CheckKeeps, AnsweredKeeps, HostsKeeps, HostsAnsweredKeeps, ProbedKeeps DEF Verify

\* The checks of a chunk are of keys not verified yet.
LEMMA ChunkKeeps ==
  ASSUME IInv, chunk' = NextChunk,
         UNCHANGED <<file, settings, cache, verdicts, heard, said>>
  PROVE  IInv'
<1>1. ASSUME NEW k \in DOMAIN chunk' PROVE CheckSound(k)'
  <2>1. /\ \E i \in Firsts : Key(file[i]) = k /\ k \notin DOMAIN verdicts
        /\ chunk'[k].at = "start"
    BY DEF NextChunk
  <2> QED BY <2>1 DEF CheckSound, Firsts
<1>2. \A e \in Domain : heard[e] \subseteq heard'[e]
  OBVIOUS
<1>3. (\A k \in DOMAIN verdicts : Founded(verdicts[k], Word(k), heard))'
  BY <1>2, FoundedGrows DEF Founded, Word
<1>4. CacheHeard'
  BY DEF IInv, CacheHeard
<1> QED BY <1>1, <1>3, <1>4 DEF IInv, Given

\* Every step of a run does.
LEMMA StepInv == IInv /\ [Next]_vars => IInv'
<1> SUFFICES ASSUME IInv, [Next]_vars PROVE IInv'
  OBVIOUS
<1>1. CASE UNCHANGED <<file, settings, cache, chunk, verdicts, heard, said>>
  <2>1. CacheHeard' /\ \A e \in Domain : heard[e] \subseteq heard'[e]
    BY <1>1 DEF IInv, CacheHeard
  <2> QED BY <1>1, <2>1, Aside
<1>2. CASE Preview
  BY <1>1, <1>2 DEF Preview
<1>3. CASE Start
  BY <1>1, <1>3 DEF Start
<1>4. CASE Split
  BY <1>1, <1>4 DEF Split
<1>5. CASE BeginVerify
  BY <1>5, ChunkKeeps DEF BeginVerify
<1>6. CASE Record
  BY <1>6, ChunkKeeps DEF Record
<1>7. CASE Assemble
  BY <1>1, <1>7 DEF Assemble
<1>8. ASSUME NEW d \in Domain, Resolve(d) PROVE IInv'
  <2>1. CASE UNCHANGED <<cache, heard>>
    BY <1>1, <1>8, <2>1 DEF Resolve
  <2>2. ASSUME NEW reply \in Reply, Put(d, reply) PROVE IInv'
    BY <1>8, <2>2, PutHears, Aside DEF Resolve
  <2> QED BY <1>8, <2>1, <2>2 DEF Resolve
<1>9. ASSUME NEW d \in Domain, Expire(d) PROVE IInv'
  <2>1. CacheHeard' /\ \A e \in Domain : heard[e] \subseteq heard'[e]
    BY <1>9, NoneAssumption DEF Expire, IInv, CacheHeard, MxAnswer
  <2> QED BY <1>9, <2>1, Aside DEF Expire
<1>10. ASSUME NEW d \in Domain, OtherRequest(d) PROVE IInv'
  <2>1. PICK reply \in Reply : Put(d, reply)
    BY <1>10 DEF OtherRequest
  <2> QED BY <1>10, <2>1, PutHears, Aside DEF OtherRequest
<1>11. ASSUME NEW k \in DOMAIN chunk, Verify(k) PROVE IInv'
  BY <1>11, VerifyKeeps
<1>12. CASE UNCHANGED vars
  BY <1>1, <1>12 DEF vars
<1> QED BY <1>2, <1>3, <1>4, <1>5, <1>6, <1>7, <1>8, <1>9, <1>10, <1>11, <1>12 DEF Next

\* The invariant is about every verdict there is, and so gives the property.
LEMMA InvFounded == IInv => RestsOnEvidence
  BY DEF IInv, Founded, Word, RestsOnEvidence, Shell

(***************************************************************************)
(* Safety: whatever the file, the settings, the replies and the moment an  *)
(* entry of the cache expires or is replaced, a verdict rests on what was  *)
(* heard of its domain and of its mailbox.                                 *)
(***************************************************************************)
THEOREM VerdictsRestOnEvidence == Spec => []RestsOnEvidence
<1>1. Spec => []IInv
  BY InitInv, StepInv, PTL DEF Spec
<1> QED BY <1>1, InvFounded, PTL

(***************************************************************************)
(* A single check never confirms: whatever the cell and the lookup, with   *)
(* the probe asked for or not, no address is called valid, because the     *)
(* prober that stands in for the real one has nothing to say.              *)
(***************************************************************************)
THEOREM SingleCheckNeverConfirms ==
  ASSUME NEW c \in Cell, NEW answer \in MxAnswer \cup {"skipped"}, NEW smtp \in BOOLEAN
  PROVE  SingleCheck(c, answer, smtp).status # "valid"
<1> DEFINE v == Validate(c, answer)
<1>1. CASE SettledCheaply(c)
  <2>1. v = Cheap(c)
    BY <1>1 DEF Validate
  <2>2. v \in Verdict /\ v.status # "valid"
    BY <1>1, <2>1, CheapVerdict
  <2> HIDE DEF v
  <2>3. [v EXCEPT !.smtp = "smtp_probe_not_enabled"].status = v.status
    BY <2>2 DEF Verdict
  <2> QED BY <2>2, <2>3 DEF SingleCheck, v
<1>2. CASE ~SettledCheaply(c)
  <2>1. v \in Verdict /\ v.status # "valid"
    BY <1>2, ValidateVerdict DEF Unprobed
  <2> HIDE DEF v
  <2>2. [v EXCEPT !.smtp = "smtp_probe_not_enabled"].status = v.status
    BY <2>1 DEF Verdict
  <2> QED BY <2>1, <2>2 DEF SingleCheck, v
<1> QED BY <1>1, <1>2

-----------------------------------------------------------------------------
(* What a verdict can look like, whatever the cell, the lookup and the     *)
(* probe.  SameBut: all of v but its status, its sub-status and its score. *)
SameBut(w, v, status, sub) ==
    /\ w \in Verdict /\ w.status = status /\ w.sub = sub
    /\ w.cell = v.cell /\ w.domain = v.domain /\ w.typo = v.typo /\ w.class = v.class
    /\ w.catchAll = v.catchAll /\ w.mx = v.mx /\ w.dns = v.dns /\ w.smtp = v.smtp

\* Settling leaves every other field alone.
LEMMA SettledRest ==
  ASSUME NEW v \in Verdict, NEW status \in Status, NEW sub \in SubStatus, NEW base \in 0..100
  PROVE  SameBut(Settle(v, status, sub, base), v, status, sub)
<1> DEFINE x == [v EXCEPT !.status = status, !.sub = sub]
           n == Score(x, base)
<1>1. SameBut(x, v, status, sub)
  BY DEF SameBut, Verdict
<1>2. n \in 0..100
  BY DEF Score
<1>3. Settle(v, status, sub, base) = [x EXCEPT !.score = n]
  BY DEF Settle
<1> HIDE DEF x, n
<1> QED BY <1>1, <1>2, <1>3 DEF SameBut, Verdict

\* Nothing asked of the domain: the cell does not parse, or its domain is a throwaway.
Unasked(v) ==
    /\ v.dns = None /\ ~v.mx
    /\ \/ ~Parses(v.cell) /\ v.status = "invalid" /\ v.sub = "invalid_syntax"
       \/ Parses(v.cell) /\ v.class.disposable /\ v.status = "disposable" /\ v.sub = "disposable"

\* The verdict of a domain that may take mail, with nothing said of the mailbox.
Undecided(v) == IF v.class.role THEN v.status = "risky" /\ v.sub = "role_account"
                ELSE v.status = "unknown" /\ v.sub = "ok"

Looked(v) == Parses(v.cell) /\ ~v.class.disposable
             /\ v.dns \in MxAnswer \cup {"skipped"} /\ v.mx = (v.dns = "found")

Reachable(v) == Looked(v) /\ v.dns \in {"found", "skipped"}

Unreachable(v) ==
    /\ Looked(v) /\ v.dns \notin {"found", "skipped"}
    /\ IF v.dns \in {"timeout", "dns_error"} THEN v.status = "unknown" /\ v.sub = v.dns
       ELSE v.status = "invalid" /\ v.sub = "no_mx"

\* Before a probe ...
Before(v) == /\ v.smtp = None /\ ~v.catchAll
             /\ Unasked(v) \/ Unreachable(v) \/ (Reachable(v) /\ Undecided(v))

\* ... and after it.
After(v) ==
    /\ Reachable(v) /\ v.smtp \in ProbeAnswer /\ (v.catchAll <=> v.smtp = "catch_all")
    /\ v.smtp = "catch_all" => v.status = "risky" /\ v.sub = "catch_all"
    /\ v.smtp = "invalid" => v.status = "invalid" /\ v.sub = "mailbox_not_found"
    /\ v.smtp = "valid" => IF v.class.role THEN v.status = "risky" /\ v.sub = "role_account"
                           ELSE v.status = "valid" /\ v.sub = "ok"
    /\ v.smtp = "greylisted" => v.status \in {"risky", "unknown"} /\ v.sub = "greylisted"
    /\ v.smtp \in {"other", "no_mx_hosts"} => Undecided(v)

Shaped(v) == Before(v) \/ After(v)

\* The cheap layers settle a cell in one of two ways, or leave it open.
LEMMA CheapShape ==
  ASSUME NEW c \in Cell
  PROVE  /\ SettledCheaply(c) => Before(Cheap(c))
         /\ ~SettledCheaply(c) =>
               LET v == Cheap(c)
               IN  /\ v \in Verdict /\ v.cell = c /\ Parses(c) /\ ~v.class.disposable
                   /\ v.smtp = None /\ ~v.catchAll
<1> DEFINE f == Fresh(c)
           malformed == [f EXCEPT !.status = "invalid", !.sub = "invalid_syntax"]
           disposable == Settle(f, "disposable", "disposable", 15)
<1>1. Cheap(c) = IF ~Parses(c) THEN malformed ELSE IF f.class.disposable THEN disposable ELSE f
  BY DEF Cheap, Fresh
<1>2. /\ f \in Verdict /\ f.cell = c /\ f.smtp = None /\ f.sub = "ok"
      /\ ~f.catchAll /\ ~f.mx /\ f.dns = None
  BY FreshVerdict DEF Fresh
<1>3. ~Parses(c) => Before(malformed) /\ malformed.sub # "ok"
  <2> HIDE DEF f
  <2> QED BY <1>2 DEF Verdict, Before, Unasked
<1>4. SameBut(disposable, f, "disposable", "disposable")
  <2>1. "disposable" \in Status /\ "disposable" \in SubStatus /\ 15 \in 0..100
    BY DEF Status, SubStatus
  <2> HIDE DEF f
  <2> QED BY <1>2, <2>1, SettledRest
<1>5. Parses(c) /\ f.class.disposable => Before(disposable) /\ disposable.sub # "ok"
  <2> HIDE DEF f, disposable
  <2> QED BY <1>2, <1>4 DEF SameBut, Before, Unasked
<1> HIDE DEF f, malformed, disposable
<1> QED BY <1>1, <1>2, <1>3, <1>5 DEF SettledCheaply

\* So does the lookup.
LEMMA ValidateShape ==
  ASSUME NEW c \in Cell, ~SettledCheaply(c), NEW answer \in MxAnswer \cup {"skipped"}
  PROVE  LET v == Validate(c, answer)
         IN  v \in Verdict /\ v.cell = c /\ v.dns = answer /\ Before(v)
<1> DEFINE u == Cheap(c)
           found == answer = "found"
           w == [u EXCEPT !.dns = answer, !.mx = found]
           v == Validate(c, answer)
<1>1. /\ u \in Verdict /\ u.cell = c /\ Parses(c) /\ ~u.class.disposable
      /\ u.smtp = None /\ ~u.catchAll
  BY CheapShape
<1>2. /\ w \in Verdict /\ w.cell = c /\ ~w.class.disposable /\ w.smtp = None /\ ~w.catchAll
      /\ w.dns = answer /\ w.mx = found
  <2>1. found \in BOOLEAN
    OBVIOUS
  <2> HIDE DEF u, found
  <2> QED BY <1>1, <2>1 DEF Verdict
<1>3. v = IF answer \in {"found", "skipped"}
          THEN IF w.class.role THEN Settle(w, "risky", "role_account", 55)
               ELSE Settle(w, "unknown", "ok", 70)
          ELSE IF answer \in {"timeout", "dns_error"} THEN Settle(w, "unknown", answer, 40)
          ELSE Settle(w, "invalid", "no_mx", 3)
  BY DEF Validate, FinalizeWithoutSmtp
<1>4. /\ "risky" \in Status /\ "unknown" \in Status /\ "invalid" \in Status
      /\ "role_account" \in SubStatus /\ "ok" \in SubStatus /\ "timeout" \in SubStatus
      /\ "dns_error" \in SubStatus /\ "no_mx" \in SubStatus
      /\ 55 \in 0..100 /\ 70 \in 0..100 /\ 40 \in 0..100 /\ 3 \in 0..100
  BY DEF Status, SubStatus
<1>5. w \in Verdict /\ Looked(w) /\ w.smtp = None /\ ~w.catchAll /\ w.cell = c /\ w.dns = answer
  BY <1>1, <1>2 DEF Looked
<1> HIDE DEF u, w, v
<1>6. /\ SameBut(Settle(w, "risky", "role_account", 55), w, "risky", "role_account")
      /\ SameBut(Settle(w, "unknown", "ok", 70), w, "unknown", "ok")
      /\ SameBut(Settle(w, "invalid", "no_mx", 3), w, "invalid", "no_mx")
  BY <1>4, <1>5, SettledRest
<1>7. CASE answer \in {"found", "skipped"}
  <2>1. CASE w.class.role
    BY <1>3, <1>5, <1>6, <1>7, <2>1 DEF v, SameBut, Before, Reachable, Looked, Undecided
  <2>2. CASE ~w.class.role
    BY <1>3, <1>5, <1>6, <1>7, <2>2 DEF v, SameBut, Before, Reachable, Looked, Undecided
  <2> QED BY <2>1, <2>2
<1>8. CASE answer \in {"timeout", "dns_error"}
  <2>1. SameBut(Settle(w, "unknown", answer, 40), w, "unknown", answer)
    BY <1>4, <1>5, <1>8, SettledRest
  <2> QED BY <1>3, <1>5, <1>8, <2>1 DEF v, SameBut, Before, Unreachable, Looked
<1>9. CASE answer \notin {"found", "skipped", "timeout", "dns_error"}
  BY <1>3, <1>5, <1>6, <1>9 DEF v, SameBut, Before, Unreachable, Looked
<1> QED BY <1>7, <1>8, <1>9

\* A check that goes on to the mailbox holds the verdict of a domain that may
\* take mail.
Waiting(v) == /\ v \in Verdict /\ v.smtp = None /\ ~v.catchAll
              /\ Reachable(v) /\ Undecided(v)

\* Without a host it stays the one it was.
LEMMA NoHostsShape ==
  ASSUME NEW v, Waiting(v)
  PROVE  LET w == [v EXCEPT !.smtp = "no_mx_hosts"]
         IN  w \in Verdict /\ w.cell = v.cell /\ Shaped(w)
<1> DEFINE w == [v EXCEPT !.smtp = "no_mx_hosts"]
<1>1. "no_mx_hosts" \in ProbeAnswer
  BY DEF ProbeAnswer
<1>2. w \in Verdict /\ w.smtp = "no_mx_hosts"
  BY <1>1 DEF Waiting, Verdict
<1>3. /\ w.cell = v.cell /\ w.class = v.class /\ w.mx = v.mx /\ w.dns = v.dns
      /\ w.status = v.status /\ w.sub = v.sub /\ w.catchAll = v.catchAll
  BY DEF Waiting, Verdict
<1> HIDE DEF w
<1> QED BY <1>1, <1>2, <1>3 DEF w, Waiting, Shaped, After, Reachable, Looked, Undecided

\* What the mailbox answers is folded in.
LEMMA FoldedShape ==
  ASSUME NEW v, Waiting(v), NEW answer \in ProbeAnswer \ {"no_mx_hosts"}
  PROVE  LET w == Folded(v, answer) IN w \in Verdict /\ w.cell = v.cell /\ Shaped(w)
<1> DEFINE w == [v EXCEPT !.smtp = answer]
           x == [w EXCEPT !.catchAll = TRUE]
           g == [w EXCEPT !.sub = "greylisted"]
<1>1. /\ w \in Verdict /\ w.smtp = answer /\ w.cell = v.cell /\ w.status = v.status
      /\ w.sub = v.sub /\ ~w.catchAll /\ w.class = v.class /\ w.mx = v.mx /\ w.dns = v.dns
  BY DEF Waiting, Verdict
<1>2. Folded(v, answer) =
        IF answer = "catch_all" THEN Settle(x, "risky", "catch_all", 50)
        ELSE IF answer = "invalid" THEN Settle(w, "invalid", "mailbox_not_found", 5)
        ELSE IF answer = "valid"
             THEN IF w.class.role THEN Settle(w, "risky", "role_account", 55)
                  ELSE Settle(w, "valid", "ok", 95)
        ELSE IF answer = "greylisted" THEN g ELSE w
  BY DEF Folded, Conclusive, ApplyProbeOutcome
<1>3. Reachable(w) /\ Undecided(w)
  <2> HIDE DEF w
  <2> QED BY <1>1 DEF Waiting, Reachable, Looked, Undecided
<1> HIDE DEF w
<1>4. /\ x \in Verdict /\ x.smtp = answer /\ x.cell = v.cell /\ x.catchAll = TRUE
      /\ x.class = w.class /\ x.mx = w.mx /\ x.dns = w.dns
      /\ g \in Verdict /\ g.smtp = answer /\ g.cell = v.cell /\ ~g.catchAll
      /\ g.class = w.class /\ g.mx = w.mx /\ g.dns = w.dns
      /\ g.status = w.status /\ g.sub = "greylisted"
  BY <1>1 DEF Verdict, SubStatus
<1> HIDE DEF x, g
<1>5. /\ "risky" \in Status /\ "invalid" \in Status /\ "valid" \in Status
      /\ "catch_all" \in SubStatus /\ "mailbox_not_found" \in SubStatus
      /\ "role_account" \in SubStatus /\ "ok" \in SubStatus
      /\ 50 \in 0..100 /\ 5 \in 0..100 /\ 55 \in 0..100 /\ 95 \in 0..100
  BY DEF Status, SubStatus
<1>6. w \in Verdict /\ x \in Verdict
  BY <1>1, <1>4
<1>7. /\ SameBut(Settle(x, "risky", "catch_all", 50), x, "risky", "catch_all")
      /\ SameBut(Settle(w, "invalid", "mailbox_not_found", 5), w, "invalid", "mailbox_not_found")
      /\ SameBut(Settle(w, "risky", "role_account", 55), w, "risky", "role_account")
      /\ SameBut(Settle(w, "valid", "ok", 95), w, "valid", "ok")
  BY <1>5, <1>6, SettledRest
<1>8. answer \in {"valid", "invalid", "catch_all", "greylisted", "other"}
  BY DEF ProbeAnswer
<1>9. CASE answer = "catch_all"
  <2> DEFINE z == Settle(x, "risky", "catch_all", 50)
  <2>1. /\ z \in Verdict /\ z.status = "risky" /\ z.sub = "catch_all" /\ z.cell = v.cell
        /\ z.class = w.class /\ z.mx = w.mx /\ z.dns = w.dns /\ z.smtp = "catch_all"
        /\ z.catchAll = TRUE
    BY <1>9, <1>4, <1>7 DEF SameBut
  <2>2. Folded(v, answer) = z
    BY <1>9, <1>2
  <2> HIDE DEF z
  <2>3. Reachable(z)
    BY <1>1, <1>3, <2>1 DEF Reachable, Looked
  <2>4. After(z)
    BY <1>9, <2>1, <2>3 DEF After
  <2> QED BY <2>1, <2>2, <2>4 DEF Shaped
<1>10. CASE answer = "invalid"
  BY <1>10, <1>1, <1>2, <1>3, <1>7 DEF SameBut, Shaped, After, Reachable, Looked
<1>11. CASE answer = "valid" /\ w.class.role
  BY <1>11, <1>1, <1>2, <1>3, <1>7 DEF SameBut, Shaped, After, Reachable, Looked
<1>12. CASE answer = "valid" /\ ~w.class.role
  BY <1>12, <1>1, <1>2, <1>3, <1>7 DEF SameBut, Shaped, After, Reachable, Looked
<1>13. CASE answer = "greylisted"
  BY <1>13, <1>1, <1>2, <1>3, <1>4 DEF Shaped, After, Reachable, Looked, Undecided
<1>14. CASE answer = "other"
  BY <1>14, <1>1, <1>2, <1>3 DEF Shaped, After, Reachable, Looked, Undecided
<1> QED BY <1>8, <1>9, <1>10, <1>11, <1>12, <1>13, <1>14

-----------------------------------------------------------------------------
(* The trace of a verdict of that shape.  First what a list of rows that   *)
(* ends early is shown as.                                                 *)
LEMMA ShownRows ==
  /\ \A n \in Layer : Shown(<<"Fail">>)[n] = IF n = 1 THEN "Fail" ELSE "Skipped"
  /\ \A t, l : \A n \in Layer :
        Shown(<<"Pass", "Pass", t, l>>)[n]
           = IF n \in {1, 2} THEN "Pass" ELSE IF n = 3 THEN t ELSE IF n = 4 THEN l
             ELSE "Skipped"
  /\ \A t, l : \A n \in Layer :
        Shown(<<"Pass", "Pass", t, l, "Fail">>)[n]
           = IF n \in {1, 2} THEN "Pass" ELSE IF n = 3 THEN t ELSE IF n = 4 THEN l
             ELSE IF n = 5 THEN "Fail" ELSE "Skipped"
<1>1. \A n \in Layer : n \in {1, 2, 3, 4, 5, 6, 7} /\ n \in Int
  BY DEF Layer
<1>2. ASSUME NEW n \in Layer
      PROVE  Shown(<<"Fail">>)[n] = IF n = 1 THEN "Fail" ELSE "Skipped"
  BY <1>1 DEF Shown
<1>3. ASSUME NEW t, NEW l, NEW n \in Layer
      PROVE  Shown(<<"Pass", "Pass", t, l>>)[n]
           = IF n \in {1, 2} THEN "Pass" ELSE IF n = 3 THEN t ELSE IF n = 4 THEN l
             ELSE "Skipped"
  <2> DEFINE rows == <<"Pass", "Pass", t, l>>
  <2>1. /\ DOMAIN rows = 1..4 /\ rows[1] = "Pass" /\ rows[2] = "Pass" /\ rows[3] = t
        /\ rows[4] = l
    OBVIOUS
  <2> HIDE DEF rows
  <2>2. Shown(rows)[n] = IF n \in 1..4 THEN rows[n] ELSE "Skipped"
    BY <2>1 DEF Shown
  <2>3. Shown(rows)[n]
           = IF n \in {1, 2} THEN "Pass" ELSE IF n = 3 THEN t ELSE IF n = 4 THEN l
             ELSE "Skipped"
    BY <1>1, <2>1, <2>2
  <2> QED BY <2>3 DEF rows
<1>4. ASSUME NEW t, NEW l, NEW n \in Layer
      PROVE  Shown(<<"Pass", "Pass", t, l, "Fail">>)[n]
           = IF n \in {1, 2} THEN "Pass" ELSE IF n = 3 THEN t ELSE IF n = 4 THEN l
             ELSE IF n = 5 THEN "Fail" ELSE "Skipped"
  <2> DEFINE rows == <<"Pass", "Pass", t, l, "Fail">>
  <2>1. /\ DOMAIN rows = 1..5 /\ rows[1] = "Pass" /\ rows[2] = "Pass" /\ rows[3] = t
        /\ rows[4] = l /\ rows[5] = "Fail"
    OBVIOUS
  <2> HIDE DEF rows
  <2>2. Shown(rows)[n] = IF n \in 1..5 THEN rows[n] ELSE "Skipped"
    BY <2>1 DEF Shown
  <2>3. Shown(rows)[n]
           = IF n \in {1, 2} THEN "Pass" ELSE IF n = 3 THEN t ELSE IF n = 4 THEN l
             ELSE IF n = 5 THEN "Fail" ELSE "Skipped"
    BY <1>1, <2>1, <2>2
  <2> QED BY <2>3 DEF rows
<1> QED BY <1>2, <1>3, <1>4

\* What TraceIsHonest asks of a verdict by itself.
HonestOf(v) ==
    LET trace == BuildTrace(v)
        settled == SettledLayer(v.sub, v.smtp # None)
        subtitle == Subtitle(v.status, v.sub)
    IN  /\ \A n \in Layer : trace[n] # "Skipped" => n \in Ran(v)
        /\ trace[settled] = "Skipped" => settled = 6 /\ v.sub = "ok" /\ v.smtp = None
        /\ \A n \in Layer : n > settled => trace[n] = "Skipped"
        /\ subtitle \in {"will bounce", "throwaway"} => trace[settled] = "Fail"
        /\ subtitle = "confirmed" => trace[6] = "Pass"

LEMMA ShapeIsHonest ==
  ASSUME NEW v, Shaped(v)
  PROVE  HonestOf(v)
<1> DEFINE trace == BuildTrace(v)
           settled == SettledLayer(v.sub, v.smtp # None)
           typo == IF v.typo THEN "Soft" ELSE "Pass"
           looked == DnsRow(v)
<1>0. \A n \in Layer : n \in {1, 2, 3, 4, 5, 6, 7} /\ n \in Int
  BY DEF Layer
<1>2. CASE Unasked(v) /\ v.smtp = None /\ ~v.catchAll /\ ~Parses(v.cell)
  <2>1. v.status = "invalid" /\ v.sub = "invalid_syntax" /\ v.dns = None
    BY <1>2 DEF Unasked
  <2>6. settled = 1
    BY <2>1 DEF SettledLayer
  <2>2. trace = Shown(<<"Fail">>)
    BY <2>1 DEF BuildTrace
  <2>3. 1 \in Ran(v) /\ Subtitle(v.status, v.sub) = "will bounce"
    BY <2>1 DEF Ran, Subtitle
  <2>4. \A n \in Layer : trace[n] = IF n = 1 THEN "Fail" ELSE "Skipped"
    BY <2>2, ShownRows
  <2> HIDE DEF trace, settled
  <2>5. /\ \A n \in Layer : trace[n] # "Skipped" => n \in Ran(v)
        /\ \A n \in Layer : n > settled => trace[n] = "Skipped"
    <3>1. \A n \in Layer : trace[n] # "Skipped" => n \in Ran(v)
      BY <2>3, <2>4
    <3>2. \A n \in Layer : n > 1 => trace[n] = "Skipped"
      BY <1>0, <2>4
    <3> QED BY <2>6, <3>1, <3>2
  <2>7. trace[settled] = "Fail"
    BY <2>4, <2>6 DEF Layer
  <2> QED BY <2>5, <2>7, <2>3 DEF HonestOf, trace, settled
<1>3. CASE Unasked(v) /\ v.smtp = None /\ ~v.catchAll /\ Parses(v.cell)
  <2>1. v.status = "disposable" /\ v.sub = "disposable" /\ v.dns = None /\ v.class.disposable
    BY <1>3 DEF Unasked
  <2>2. looked = "Skipped"
    BY <2>1 DEF DnsRow
  <2>3. trace = Shown(<<"Pass", "Pass", typo, "Skipped", "Fail">>)
    <3> HIDE DEF looked
    <3> QED BY <2>1, <2>2 DEF BuildTrace, looked
  <2>4. settled = 5 /\ {1, 2, 3, 5} \subseteq Ran(v) /\ Subtitle(v.status, v.sub) = "throwaway"
    BY <1>3, <2>1 DEF Ran, Subtitle, SettledLayer
  <2>5. \A n \in Layer : trace[n] = IF n \in {1, 2} THEN "Pass" ELSE IF n = 3 THEN typo
             ELSE IF n = 4 THEN "Skipped" ELSE IF n = 5 THEN "Fail" ELSE "Skipped"
    <3> HIDE DEF typo
    <3> QED BY <2>3, ShownRows
  <2>6. typo \in {"Soft", "Pass"}
    OBVIOUS
  <2> HIDE DEF trace, settled, typo
  <2>7. /\ \A n \in Layer : trace[n] # "Skipped" => n \in Ran(v)
        /\ \A n \in Layer : n > settled => trace[n] = "Skipped"
    BY <1>0, <2>4, <2>5, <2>6
  <2>8. trace[settled] = "Fail"
    BY <2>4, <2>5 DEF Layer
  <2> QED BY <2>7, <2>8, <2>4 DEF HonestOf, trace, settled
<1>4. CASE Unreachable(v) /\ v.smtp = None /\ ~v.catchAll
  <2>1. /\ Parses(v.cell) /\ ~v.mx /\ v.dns \in MxAnswer /\ v.dns # "found"
        /\ v.dns \notin {None, "skipped"}
    BY <1>4, NoneAssumption DEF Unreachable, Looked
  <2>2. /\ \/ v.status = "unknown" /\ v.sub \in {"timeout", "dns_error"}
           \/ v.status = "invalid" /\ v.sub = "no_mx"
    BY <1>4 DEF Unreachable
  <2>3. looked = IF v.sub = "no_mx" THEN "Fail" ELSE "Unknown"
    BY <2>1 DEF DnsRow
  <2>4. trace = Shown(<<"Pass", "Pass", typo, looked>>)
    <3> HIDE DEF looked
    <3> QED BY <2>2, <2>3 DEF BuildTrace, looked
  <2>5. settled = 4 /\ {1, 2, 3, 4} \subseteq Ran(v)
    BY <1>4, <2>1, <2>2 DEF Ran, SettledLayer
  <2>10. Subtitle(v.status, v.sub) = IF v.sub = "no_mx" THEN "will bounce" ELSE "not confirmed"
    BY <2>2 DEF Subtitle
  <2>6. \A n \in Layer : trace[n] = IF n \in {1, 2} THEN "Pass" ELSE IF n = 3 THEN typo
             ELSE IF n = 4 THEN looked ELSE "Skipped"
    <3> HIDE DEF typo, looked
    <3> QED BY <2>4, ShownRows
  <2>7. typo \in {"Soft", "Pass"}
    OBVIOUS
  <2> HIDE DEF trace, settled, typo, looked
  <2>8. /\ \A n \in Layer : trace[n] # "Skipped" => n \in Ran(v)
        /\ \A n \in Layer : n > settled => trace[n] = "Skipped"
    BY <1>0, <2>5, <2>6
  <2>9. trace[settled] = looked
    BY <2>5, <2>6 DEF Layer
  <2> QED BY <2>8, <2>9, <2>2, <2>3, <2>10 DEF HonestOf, trace, settled
<1> DEFINE class == ClassRow(v)
           probe == ProbeRow(v)
           last == IF v.catchAll THEN "Soft" ELSE "Skipped"
<1>5. ASSUME Reachable(v), v.sub \notin {"invalid_syntax", "no_mx"}
      PROVE  /\ \A n \in Layer : trace[n] = IF n \in {1, 2} THEN "Pass" ELSE IF n = 3 THEN typo
                      ELSE IF n = 4 THEN looked ELSE IF n = 5 THEN class
                      ELSE IF n = 6 THEN probe ELSE last
             /\ typo \in {"Soft", "Pass"} /\ class \in {"Soft", "Pass"}
             /\ looked \in {"Pass", "Skipped"} /\ (looked = "Pass" => 4 \in Ran(v))
             /\ {1, 2, 3, 5} \subseteq Ran(v)
  <2>1. /\ Parses(v.cell) /\ ~v.class.disposable /\ v.dns \in {"found", "skipped"}
        /\ (v.mx <=> v.dns = "found")
    BY <1>5 DEF Reachable, Looked
  <2>2. "found" # None
    BY NoneAssumption DEF MxAnswer
  <2>3. looked \in {"Pass", "Skipped"} /\ (looked = "Pass" => v.dns = "found")
    BY <2>1, <2>2 DEF DnsRow
  <2>4. class \in {"Soft", "Pass"} /\ typo \in {"Soft", "Pass"}
    BY <2>1 DEF ClassRow
  <2>5. (looked = "Pass" => 4 \in Ran(v)) /\ {1, 2, 3, 5} \subseteq Ran(v)
    BY <2>1, <2>2, <2>3 DEF Ran
  <2>6. trace = <<"Pass", "Pass", typo, looked, class, probe, last>>
    <3> HIDE DEF looked, class, probe
    <3> QED BY <1>5, <2>1, <2>3 DEF BuildTrace, looked, class, probe
  <2>7. \A n \in Layer : trace[n] = IF n \in {1, 2} THEN "Pass" ELSE IF n = 3 THEN typo
                      ELSE IF n = 4 THEN looked ELSE IF n = 5 THEN class
                      ELSE IF n = 6 THEN probe ELSE last
    <3> HIDE DEF trace, typo, looked, class, probe, last
    <3> QED BY <1>0, <2>6
  <2> QED BY <2>3, <2>4, <2>5, <2>7
<1>6. CASE Reachable(v) /\ Undecided(v) /\ v.smtp = None /\ ~v.catchAll
  <2>1. probe = "Skipped" /\ last = "Skipped"
    BY <1>6 DEF ProbeRow
  <2>2. /\ v.sub = "role_account" => settled = 5 /\ v.status = "risky"
        /\ v.sub = "ok" => settled = 6 /\ v.status = "unknown"
        /\ v.sub \in {"role_account", "ok"}
    BY <1>6 DEF Undecided, SettledLayer
  <2>3. Subtitle(v.status, v.sub) \notin {"will bounce", "throwaway", "confirmed"}
    BY <2>2 DEF Subtitle
  <2>4. v.sub \notin {"invalid_syntax", "no_mx"}
    BY <2>2
  <2> HIDE DEF trace, settled, typo, looked, class, probe, last
  <2>5. /\ \A n \in Layer : trace[n] # "Skipped" => n \in Ran(v)
        /\ \A n \in Layer : n > settled => trace[n] = "Skipped"
    BY <1>0, <1>5, <1>6, <2>1, <2>2, <2>4
  <2>6. trace[settled] = "Skipped" => settled = 6 /\ v.sub = "ok" /\ v.smtp = None
    BY <1>5, <1>6, <2>1, <2>2, <2>4 DEF Layer
  <2> QED BY <2>5, <2>6, <2>3 DEF HonestOf, trace, settled
<1>7. CASE After(v)
  <2>1. v.smtp # None /\ Reachable(v) /\ v.smtp \in ProbeAnswer /\ {6, 7} \subseteq Ran(v)
    BY <1>7, NoneAssumption DEF After, Ran
  <2>2. v.smtp = "catch_all" => /\ v.catchAll /\ probe = "Soft" /\ last = "Soft"
                                /\ settled = 7 /\ v.sub = "catch_all" /\ v.status = "risky"
    BY <1>7, <2>1 DEF After, ProbeRow, SettledLayer
  <2>3. v.smtp # "catch_all" => ~v.catchAll /\ last = "Skipped"
    BY <1>7 DEF After
  <2>4. v.smtp = "invalid" => /\ probe = "Fail" /\ settled = 6 /\ v.sub = "mailbox_not_found"
                              /\ v.status = "invalid"
    BY <1>7, <2>1, <2>3 DEF After, ProbeRow, SettledLayer
  <2>5. v.smtp = "valid" => /\ probe = "Pass" /\ settled = 6
                            /\ v.sub \in {"role_account", "ok"} /\ v.status \in {"risky", "valid"}
    BY <1>7, <2>1, <2>3 DEF After, ProbeRow, SettledLayer
  <2>6. v.smtp \in {"greylisted", "other", "no_mx_hosts"} =>
            /\ probe = "Unknown" /\ settled = 6
            /\ v.sub \in {"role_account", "ok", "greylisted"} /\ v.status \in {"risky", "unknown"}
    BY <1>7, <2>1, <2>3 DEF After, ProbeRow, SettledLayer, Undecided
  <2>7. v.smtp \in {"valid", "invalid", "catch_all", "greylisted", "other", "no_mx_hosts"}
    BY <2>1 DEF ProbeAnswer
  <2>8. v.sub \notin {"invalid_syntax", "no_mx"}
    BY <2>2, <2>4, <2>5, <2>6, <2>7
  <2>9. /\ Subtitle(v.status, v.sub) \in {"will bounce", "throwaway"} => v.smtp = "invalid"
        /\ Subtitle(v.status, v.sub) = "confirmed" => v.smtp = "valid"
    BY <2>2, <2>4, <2>5, <2>6, <2>7 DEF Subtitle
  <2> HIDE DEF trace, settled, typo, looked, class, probe, last
  <2>10. \A n \in Layer : trace[n] # "Skipped" => n \in Ran(v)
    BY <1>0, <1>5, <2>1, <2>8
  <2>11. trace[settled] # "Skipped" /\ \A n \in Layer : n > settled => trace[n] = "Skipped"
    <3>1. 6 \in Layer /\ 7 \in Layer
      BY DEF Layer
    <3>2. trace[6] = probe /\ trace[7] = last
      BY <1>5, <2>1, <2>8, <3>1
    <3> QED BY <1>0, <2>2, <2>3, <2>4, <2>5, <2>6, <2>7, <3>2
  <2>12. trace[6] = probe /\ (v.smtp = "invalid" => trace[settled] = "Fail")
    <3>1. 6 \in Layer
      BY DEF Layer
    <3>2. trace[6] = probe
      BY <1>5, <2>1, <2>8, <3>1
    <3> QED BY <2>4, <3>2
  <2> QED BY <2>5, <2>9, <2>10, <2>11, <2>12 DEF HonestOf, trace, settled
<1> QED BY <1>2, <1>3, <1>4, <1>6, <1>7 DEF Shaped, Before

-----------------------------------------------------------------------------
(* Counting.  A file has no more unique addresses than rows, and a chunk   *)
(* no more than its size: the rows that may go into it are told apart by   *)
(* how many come before them.                                              *)
LEMMA RowsAreFinite ==
  ASSUME NEW rows \in Seq(Cell), NEW S \in SUBSET DOMAIN rows
  PROVE  IsFiniteSet(S) /\ Cardinality(S) \in 0..Len(rows)
<1>1. Len(rows) \in Nat /\ DOMAIN rows = 1..Len(rows)
  OBVIOUS
<1> DEFINE n == Len(rows)
<1>2. IsFiniteSet(1..n) /\ Cardinality(1..n) = n
  <2>1. n \in Nat
    BY <1>1
  <2> HIDE DEF n
  <2>2. IsFiniteSet(1..n) /\ Cardinality(1..n) = IF 1 > n THEN 0 ELSE n - 1 + 1
    BY <2>1, FS_Interval
  <2> QED BY <2>1, <2>2
<1>3. S \in SUBSET (1..n)
  BY <1>1
<1>4. n \in Nat
  BY <1>1
<1> HIDE DEF n
<1>5. IsFiniteSet(S) /\ Cardinality(S) <= n /\ Cardinality(S) \in Nat
  BY <1>2, <1>3, FS_Subset, FS_CardinalityType
<1>6. Cardinality(S) \in 0..n
  BY <1>4, <1>5
<1> QED BY <1>5, <1>6 DEF n

LEMMA KeysAreFewer ==
  ASSUME NEW rows \in Seq(Cell), NEW S \in SUBSET DOMAIN rows
  PROVE  LET K == {Key(rows[i]) : i \in S}
         IN  IsFiniteSet(K) /\ Cardinality(K) \in Nat /\ Cardinality(K) <= Cardinality(S)
<1> DEFINE K == {Key(rows[i]) : i \in S}
           f == [i \in S |-> Key(rows[i])]
<1>1. f \in Surjection(S, K)
  BY DEF Surjection
<1>2. IsFiniteSet(S)
  BY RowsAreFinite
<1> HIDE DEF f, K
<1>3. IsFiniteSet(K) /\ Cardinality(K) <= Cardinality(S)
  BY <1>1, <1>2, FS_Surjection
<1>4. Cardinality(K) \in Nat
  BY <1>3, FS_CardinalityType
<1> QED BY <1>3, <1>4 DEF K

LEMMA QuoteTyped ==
  ASSUME NEW rows \in Seq(Cell)
  PROVE  PreviewStats(rows) \in [total: 0..Len(rows), unique: 0..Len(rows), blank: 0..Len(rows)]
<1> DEFINE n == Len(rows)
           K == Keys(rows)
           b == Cardinality({i \in DOMAIN rows : rows[i] = Blank})
           u == Cardinality(K \ {Blank})
<1>1. n \in Nat
  OBVIOUS
<1>2. b \in 0..n
  BY RowsAreFinite
<1>3. u \in 0..n
  <2>1. IsFiniteSet(K) /\ Cardinality(K) <= n
    <3>1. Cardinality(DOMAIN rows) \in 0..n
      BY RowsAreFinite
    <3>2. IsFiniteSet(K) /\ Cardinality(K) \in Nat /\ Cardinality(K) <= Cardinality(DOMAIN rows)
      BY KeysAreFewer DEF Keys
    <3> HIDE DEF n, K
    <3> QED BY <1>1, <3>1, <3>2
  <2>2. IsFiniteSet(K \ {Blank}) /\ u \in Nat /\ u <= Cardinality(K) /\ Cardinality(K) \in Nat
    <3> HIDE DEF K
    <3> QED BY <2>1, FS_Subset, FS_CardinalityType
  <2> HIDE DEF n, K, u
  <2> QED BY <1>1, <2>1, <2>2
<1>4. PreviewStats(rows) = [total |-> n, unique |-> u, blank |-> b]
  BY DEF PreviewStats
<1>5. n \in 0..n
  BY <1>1
<1> HIDE DEF u, b
<1>6. [total |-> n, unique |-> u, blank |-> b] \in [total: 0..n, unique: 0..n, blank: 0..n]
  <2> HIDE DEF n
  <2> QED BY <1>2, <1>3, <1>5
<1> QED BY <1>4, <1>6

LEMMA ChunkFits ==
  ASSUME file \in Seq(Cell)
  PROVE  /\ DOMAIN NextChunk \subseteq Keys(file) /\ DOMAIN NextChunk \cap DOMAIN verdicts = {}
         /\ Cardinality(DOMAIN NextChunk) <= ChunkSize
         /\ \A k \in DOMAIN NextChunk : NextChunk[k] = [at |-> "start", v |-> None]
<1> DEFINE todo == {i \in Firsts : Key(file[i]) \notin DOMAIN verdicts}
           before(i) == {j \in todo : j < i}
           next == {i \in todo : Cardinality(before(i)) < ChunkSize}
           K == {Key(file[i]) : i \in next}
           f == [i \in next |-> Cardinality(before(i))]
<1>1. NextChunk = [k \in K |-> [at |-> "start", v |-> None]]
  BY DEF NextChunk
<1>2. next \subseteq todo /\ todo \subseteq DOMAIN file /\ DOMAIN file \subseteq Nat
  BY DEF Firsts
<1>3. K \subseteq Keys(file) /\ K \cap DOMAIN verdicts = {}
  BY <1>2 DEF Keys
<1>4. ChunkSize \in Nat /\ IsFiniteSet(0..(ChunkSize - 1))
      /\ Cardinality(0..(ChunkSize - 1)) = ChunkSize
  BY FileRunAssumption, FS_Interval
<1>5. \A i \in todo : IsFiniteSet(before(i)) /\ Cardinality(before(i)) \in Nat
  BY <1>2, RowsAreFinite
<1>6. ASSUME NEW i \in todo, NEW j \in todo, i < j
      PROVE  Cardinality(before(i)) < Cardinality(before(j))
  <2>1. before(i) \cup {i} \subseteq before(j) /\ i \notin before(i)
    BY <1>2, <1>6
  <2>2. IsFiniteSet(before(i)) /\ IsFiniteSet(before(j))
        /\ Cardinality(before(i)) \in Nat /\ Cardinality(before(j)) \in Nat
    BY <1>5
  <2> HIDE DEF before
  <2>3. Cardinality(before(i) \cup {i}) = Cardinality(before(i)) + 1
    BY <2>1, <2>2, FS_AddElement
  <2>4. Cardinality(before(i) \cup {i}) <= Cardinality(before(j))
    BY <2>1, <2>2, FS_Subset
  <2> QED BY <2>2, <2>3, <2>4
<1>7. f \in Injection(next, 0..(ChunkSize - 1))
  <2>1. ASSUME NEW i \in next PROVE f[i] = Cardinality(before(i)) /\ f[i] \in 0..(ChunkSize - 1)
    <3>1. i \in todo /\ Cardinality(before(i)) < ChunkSize
      OBVIOUS
    <3>2. Cardinality(before(i)) \in Nat
      BY <1>5, <3>1
    <3>3. f[i] = Cardinality(before(i))
      OBVIOUS
    <3> HIDE DEF before, next, todo, f
    <3>4. Cardinality(before(i)) \in 0..(ChunkSize - 1)
      BY <1>4, <3>1, <3>2
    <3> QED BY <3>3, <3>4
  <2>2. ASSUME NEW i \in next, NEW j \in next, i # j PROVE f[i] # f[j]
    <3>1. i \in todo /\ j \in todo /\ i \in Nat /\ j \in Nat /\ (i < j \/ j < i)
      BY <1>2, <2>2
    <3>2. Cardinality(before(i)) \in Nat /\ Cardinality(before(j)) \in Nat
      BY <1>5, <3>1
    <3>3. Cardinality(before(i)) < Cardinality(before(j))
          \/ Cardinality(before(j)) < Cardinality(before(i))
      BY <1>6, <3>1
    <3>4. f[i] = Cardinality(before(i)) /\ f[j] = Cardinality(before(j))
      BY <2>1
    <3> HIDE DEF before, next, todo, f
    <3> QED BY <3>2, <3>3, <3>4
  <2>3. f \in [next -> 0..(ChunkSize - 1)]
    <3> HIDE DEF before, next
    <3> QED BY <2>1
  <2> HIDE DEF f, next
  <2> QED BY <2>2, <2>3 DEF Injection, IsInjective
<1> HIDE DEF f, before, todo
<1>8. Cardinality(next) <= ChunkSize
  <2> HIDE DEF next
  <2> QED BY <1>4, <1>7, FS_Injection
<1>9. Cardinality(K) \in Nat /\ Cardinality(K) <= Cardinality(next) /\ Cardinality(next) \in Nat
  <2>1. next \in SUBSET DOMAIN file
    BY <1>2
  <2> HIDE DEF next
  <2> QED BY <2>1, KeysAreFewer, RowsAreFinite
<1> HIDE DEF K, next
<1>10. Cardinality(K) <= ChunkSize
  BY <1>4, <1>8, <1>9
<1> QED BY <1>1, <1>3, <1>10

-----------------------------------------------------------------------------
(* The job and the rows of the read-model.                                 *)
Tallies == [total_rows: Int, unique_emails: Int, duplicates: Int, valid: Int, invalid: Int,
            risky: Int, unknown: Int, disposable: Int]

JobRow == [status: {"none", "pending", "processing", "completed"}, listType: ListType,
           counts: Tallies, total: Int, processed: Int, outputs: SUBSET Segment]

\* The verdicts counted so far, of each status.
Counted(counts) == counts["valid"] + counts["invalid"] + counts["risky"] + counts["unknown"]
                   + counts["disposable"]

\* Counting a verdict adds one to its status and leaves the others alone.
LEMMA OneMore ==
  ASSUME NEW c \in Tallies, NEW status \in Status
  PROVE  LET after == [c EXCEPT ![status] = c[status] + 1]
         IN  /\ after \in Tallies /\ Counted(after) = Counted(c) + 1
             /\ \A s \in Status : after[s] = IF s = status THEN c[s] + 1 ELSE c[s]
             /\ after.total_rows = c.total_rows /\ after.unique_emails = c.unique_emails
             /\ after.duplicates = c.duplicates
<1>1. CASE status = "valid"
  BY <1>1 DEF Tallies, Counted, Status
<1>2. CASE status = "invalid"
  BY <1>2 DEF Tallies, Counted, Status
<1>3. CASE status = "risky"
  BY <1>3 DEF Tallies, Counted, Status
<1>4. CASE status = "unknown"
  BY <1>4 DEF Tallies, Counted, Status
<1>5. CASE status = "disposable"
  BY <1>5 DEF Tallies, Counted, Status
<1> QED BY <1>1, <1>2, <1>3, <1>4, <1>5 DEF Status

\* The rest of the job is left alone too.
LEMMA JobCounted ==
  ASSUME NEW row \in JobRow, NEW status \in Status
  PROVE  LET after == [row EXCEPT !.processed = @ + 1, !.counts[status] = @ + 1]
         IN  /\ after \in JobRow /\ after.listType = row.listType
             /\ after.status = row.status /\ after.total = row.total /\ after.outputs = row.outputs
             /\ after.processed = row.processed + 1
             /\ after.counts = [row.counts EXCEPT ![status] = row.counts[status] + 1]
<1> DEFINE n == row.processed + 1
           counts == [row.counts EXCEPT ![status] = row.counts[status] + 1]
           after == [row EXCEPT !.processed = n, !.counts = counts]
<1>1. row.counts \in Tallies /\ row.processed \in Int
  BY DEF JobRow
<1>2. counts \in Tallies
  BY <1>1, OneMore
<1>3. n \in Int
  BY <1>1
<1>4. [row EXCEPT !.processed = @ + 1, !.counts[status] = @ + 1] = after
  BY DEF JobRow
<1> HIDE DEF n, counts
<1>5. /\ after \in JobRow /\ after.listType = row.listType
      /\ after.status = row.status /\ after.total = row.total /\ after.outputs = row.outputs
      /\ after.processed = n /\ after.counts = counts
  BY <1>2, <1>3 DEF JobRow
<1> QED BY <1>4, <1>5 DEF n, counts

\* Settling on the word of a probe leaves the cell.
LEMMA AppliedCell ==
  ASSUME NEW v \in Verdict, NEW answer
  PROVE  ApplyProbeOutcome(v, answer) \in Verdict /\ ApplyProbeOutcome(v, answer).cell = v.cell
<1> DEFINE x == [v EXCEPT !.catchAll = TRUE]
<1>1. x \in Verdict /\ x.cell = v.cell
  BY DEF Verdict
<1>2. /\ "risky" \in Status /\ "invalid" \in Status /\ "valid" \in Status
      /\ "catch_all" \in SubStatus /\ "mailbox_not_found" \in SubStatus
      /\ "role_account" \in SubStatus /\ "ok" \in SubStatus
      /\ 50 \in 0..100 /\ 5 \in 0..100 /\ 55 \in 0..100 /\ 95 \in 0..100
  BY DEF Status, SubStatus
<1>3. ApplyProbeOutcome(v, answer) =
        IF answer = "catch_all" THEN Settle(x, "risky", "catch_all", 50)
        ELSE IF answer = "invalid" THEN Settle(v, "invalid", "mailbox_not_found", 5)
        ELSE IF v.class.role THEN Settle(v, "risky", "role_account", 55)
        ELSE Settle(v, "valid", "ok", 95)
  BY DEF ApplyProbeOutcome
<1> HIDE DEF x
<1>4. /\ SameBut(Settle(x, "risky", "catch_all", 50), x, "risky", "catch_all")
      /\ SameBut(Settle(v, "invalid", "mailbox_not_found", 5), v, "invalid", "mailbox_not_found")
      /\ SameBut(Settle(v, "risky", "role_account", 55), v, "risky", "role_account")
      /\ SameBut(Settle(v, "valid", "ok", 95), v, "valid", "ok")
  BY <1>1, <1>2, SettledRest
<1> QED BY <1>1, <1>3, <1>4 DEF SameBut

\* What the engine says of a cell is a verdict on that cell.
LEMMA ValidateCell ==
  ASSUME NEW c \in Cell, NEW answer \in MxAnswer \cup {"skipped"}
  PROVE  Validate(c, answer) \in Verdict /\ Validate(c, answer).cell = c
<1>1. CASE SettledCheaply(c)
  <2>1. Validate(c, answer) = Cheap(c)
    BY <1>1 DEF Validate
  <2> QED BY <2>1, CheapVerdict
<1>2. CASE ~SettledCheaply(c)
  BY <1>2, ValidateShape
<1> QED BY <1>1, <1>2

\* What a function makes of a finite set is finite.
LEMMA ImageFinite ==
  ASSUME NEW S, IsFiniteSet(S), NEW f, DOMAIN f = S, f = [x \in S |-> f[x]]
  PROVE  IsFiniteSet({f[x] : x \in S})
<1> DEFINE T == {f[x] : x \in S}
<1>1. f \in Surjection(S, T)
  BY DEF Surjection
<1> HIDE DEF T
<1>2. IsFiniteSet(T)
  BY <1>1, FS_Surjection
<1> QED BY <1>2 DEF T

\* Days are whole numbers, whatever the year.
LEMMA MonthStartTyped == \A month \in Int : MonthStart(month) \in Int
<1> SUFFICES ASSUME NEW month \in Int PROVE MonthStart(month) \in Int
  OBVIOUS
<1> DEFINE y == month \div 12
           m == (month % 12) + 1
           leap == IF m > 2 /\ Leap(y) THEN 1 ELSE 0
           past == y - 1
<1>1. y \in Int /\ m \in 1..12 /\ leap \in Int /\ past \in Int
  OBVIOUS
<1>2. DaysBefore[m] \in Int
  BY <1>1 DEF DaysBefore
<1>3. past \div 4 \in Int /\ past \div 100 \in Int /\ past \div 400 \in Int
  BY <1>1
<1>4. MonthStart(month) = 365 * past + past \div 4 - past \div 100 + past \div 400
                          + DaysBefore[m] + leap + 1
  BY DEF MonthStart
<1> HIDE DEF y, m, leap, past
<1> QED BY <1>1, <1>2, <1>3, <1>4

LEMMA TodayTyped ==
  ASSUME NEW date, \E c \in Cases : date = c.today
  PROVE  date \in [month: Nat, day: 1..31] /\ Ordinal(date) \in Int
<1>1. date \in [month: Nat, day: 1..31]
  BY FileRunAssumption
<1>2. MonthStart(date.month) \in Int
  BY <1>1, MonthStartTyped
<1> QED BY <1>1, <1>2 DEF Ordinal

\* What the table holds: records of cells that are not blank, whose layer is
\* the one their sub-status names.
Fileable(r) == r \in AddressRecord /\ r.cell # Blank /\ r.settledAt = SettledLayer(r.sub, r.smtpRan)

LEMMA VerdictIsFiled ==
  ASSUME NEW v \in Verdict, v.cell # Blank, NEW name \in {"earlier", "this"}, NEW l \in ListType,
         NEW day \in Int
  PROVE  Fileable(FromVerdict(v, name, l, day))
<1> DEFINE r == FromVerdict(v, name, l, day)
           ran == v.smtp # None
           layer == SettledLayer(v.sub, v.smtp # None)
<1>1. /\ v.cell \in Cell /\ v.domain \in Domain \cup {None} /\ v.status \in Status
      /\ v.sub \in SubStatus /\ v.score \in 0..100 /\ v.typo \in BOOLEAN /\ v.class \in Classes
      /\ v.catchAll \in BOOLEAN /\ v.mx \in BOOLEAN /\ v.dns \in MxAnswer \cup {"skipped", None}
      /\ v.smtp \in ProbeAnswer \cup {"smtp_probe_not_enabled", None}
  BY DEF Verdict
<1>2. layer \in Layer /\ ran \in BOOLEAN
  BY DEF SettledLayer, Layer
<1>3. r = [cell |-> v.cell, domain |-> v.domain, status |-> v.status, sub |-> v.sub,
           score |-> v.score, typo |-> v.typo, class |-> v.class, catchAll |-> v.catchAll,
           mx |-> v.mx, dns |-> v.dns, smtp |-> v.smtp, smtpRan |-> ran,
           settledAt |-> layer, job |-> name, listType |-> l, day |-> day]
  BY DEF FromVerdict
<1>4. r.settledAt = layer /\ layer = SettledLayer(r.sub, r.smtpRan) /\ r.cell # Blank
  BY <1>3
<1> HIDE DEF ran, layer
<1>5. r \in AddressRecord
  BY <1>1, <1>2, <1>3 DEF AddressRecord
<1> QED BY <1>4, <1>5 DEF Fileable

\* A row an earlier job left is of its cell, and of that job.
LEMMA EarlierRowCell ==
  ASSUME NEW c \in Cases, today = c.today, NEW e \in c.earlier
  PROVE  /\ EarlierRow(e).cell = e.cell /\ e.cell # Blank /\ EarlierRow(e).job = "earlier"
         /\ Fileable(EarlierRow(e))
<1>1. /\ e.cell \in Cell /\ e.cell # Blank /\ e.answer \in MxAnswer \cup {"skipped"}
      /\ e.said \in ProbeAnswer \cup {None} /\ e.listType \in ListType /\ e.age \in Nat
  BY FileRunAssumption
<1> DEFINE v == Validate(e.cell, e.answer)
           u == IF e.said \in Conclusive THEN ApplyProbeOutcome(v, e.said) ELSE v
           w == IF e.said = None \/ v.status \in {"invalid", "disposable"} THEN v
                ELSE [u EXCEPT !.smtp = e.said]
<1>2. v \in Verdict /\ v.cell = e.cell
  BY <1>1, ValidateCell
<1>3. EarlierRow(e) = FromVerdict(w, "earlier", e.listType, Ordinal(today) - e.age)
  BY DEF EarlierRow
<1> HIDE DEF v
<1>4. u \in Verdict /\ u.cell = e.cell
  BY <1>2, AppliedCell
<1> HIDE DEF u
<1>5. w.cell = e.cell /\ w \in Verdict
  <2>1. CASE e.said = None \/ v.status \in {"invalid", "disposable"}
    BY <1>2, <2>1
  <2>2. CASE ~(e.said = None \/ v.status \in {"invalid", "disposable"})
    <3>1. e.said \in ProbeAnswer /\ w = [u EXCEPT !.smtp = e.said]
      BY <1>1, <2>2
    <3> QED BY <1>4, <3>1 DEF Verdict
  <2> QED BY <2>1, <2>2
<1> HIDE DEF w
<1>6. EarlierRow(e).cell = w.cell /\ EarlierRow(e).job = "earlier"
  BY <1>3 DEF FromVerdict
<1>7. Fileable(EarlierRow(e))
  <2>1. Ordinal(today) - e.age \in Int
    <3>1. Ordinal(today) \in Int
      BY TodayTyped
    <3> QED BY <1>1, <3>1
  <2>2. "earlier" \in {"earlier", "this"}
    OBVIOUS
  <2> QED BY <1>1, <1>3, <1>5, <2>1, <2>2, VerdictIsFiled
<1> QED BY <1>1, <1>5, <1>6, <1>7

LEMMA EarlierRowsFinite ==
  ASSUME NEW c \in Cases
  PROVE  IsFiniteSet({EarlierRow(e) : e \in c.earlier})
<1> DEFINE f == [e \in c.earlier |-> EarlierRow(e)]
<1>1. DOMAIN f = c.earlier /\ f = [e \in c.earlier |-> f[e]] /\ IsFiniteSet(c.earlier)
  BY FileRunAssumption
<1>2. {f[e] : e \in c.earlier} = {EarlierRow(e) : e \in c.earlier}
  OBVIOUS
<1> HIDE DEF f
<1> QED BY <1>1, <1>2, ImageFinite

\* The rows of a table are filed under their cells; an upsert of such rows keeps
\* it so.
Filed(T) == IsFiniteSet(DOMAIN T) /\ \A e \in DOMAIN T : Fileable(T[e]) /\ T[e].cell = e

LEMMA UpsertFiles ==
  ASSUME NEW T, Filed(T), NEW rows, IsFiniteSet(rows), \A r \in rows : Fileable(r)
  PROVE  /\ Filed(Upsert(T, rows)) /\ DOMAIN T \subseteq DOMAIN Upsert(T, rows)
         /\ \A r \in rows : r.cell \in DOMAIN Upsert(T, rows)
         /\ \A e \in DOMAIN T : (\A r \in rows : r.cell # e) => Upsert(T, rows)[e] = T[e]
         /\ \A r \in rows : (\A q \in rows : q.cell = r.cell => q = r)
                                => Upsert(T, rows)[r.cell] = r
         /\ \A e \in DOMAIN Upsert(T, rows) :
               \/ \E r \in rows : r.cell = e /\ Upsert(T, rows)[e] = r
               \/ e \in DOMAIN T /\ Upsert(T, rows)[e] = T[e]
<1> DEFINE D == DOMAIN T \cup {r.cell : r \in rows}
           U == Upsert(T, rows)
<1>1. /\ DOMAIN U = D
      /\ \A e \in D : U[e] = IF \E r \in rows : r.cell = e THEN CHOOSE r \in rows : r.cell = e
                             ELSE T[e]
  BY DEF Upsert
<1> HIDE DEF U
<1>2. ASSUME NEW r \in rows PROVE U[r.cell] \in rows /\ U[r.cell].cell = r.cell /\ r.cell \in D
  <2>1. r.cell \in D
    OBVIOUS
  <2>2. U[r.cell] = CHOOSE q \in rows : q.cell = r.cell
    BY <1>1, <2>1
  <2> QED BY <2>1, <2>2
<1>3. ASSUME NEW e \in DOMAIN T, \A r \in rows : r.cell # e PROVE U[e] = T[e]
  BY <1>1, <1>3
<1>4. Filed(U)
  <2> DEFINE cells == {r.cell : r \in rows}
             cellOf == [r \in rows |-> r.cell]
  <2>1. {cellOf[r] : r \in rows} = cells
    OBVIOUS
  <2>2. IsFiniteSet(cells)
    <3>1. DOMAIN cellOf = rows /\ cellOf = [r \in rows |-> cellOf[r]]
      OBVIOUS
    <3> HIDE DEF cellOf, cells
    <3> QED BY <2>1, <3>1, ImageFinite
  <2>3. IsFiniteSet(D)
    BY <2>2, FS_Union DEF Filed
  <2>4. \A e \in D : Fileable(U[e]) /\ U[e].cell = e
    BY <1>1, <1>2, <1>3 DEF Filed
  <2> QED BY <1>1, <2>3, <2>4 DEF Filed
<1>5. ASSUME NEW e \in DOMAIN U
      PROVE  \/ \E r \in rows : r.cell = e /\ U[e] = r
             \/ e \in DOMAIN T /\ U[e] = T[e]
  <2>1. CASE \E r \in rows : r.cell = e
    <3>1. U[e] \in rows /\ U[e].cell = e
      BY <1>2, <2>1
    <3> QED BY <3>1
  <2>2. CASE ~\E r \in rows : r.cell = e
    BY <1>1, <2>2
  <2> QED BY <2>1, <2>2
<1> QED BY <1>1, <1>2, <1>3, <1>4, <1>5 DEF U

-----------------------------------------------------------------------------
(* The second invariant: what the variables are, and whose verdict and     *)
(* whose row each of them is.  A check on its way to the mailbox holds a   *)
(* verdict on the cell its key stands for; a verdict has one of the shapes *)
(* above; and once the chunk of a verdict is over, its row is in the table *)
(* as it was recorded, because no other key of the file has its cell.      *)
Frame ==
    /\ \E c \in Cases : file = c.file /\ settings = c.settings /\ today = c.today
    /\ pc \in {"uploaded", "previewed", "created", "resolving", "verifying",
               "assembling", "done"}
    /\ quote \in [total: 0..Len(file), unique: 0..Len(file), blank: 0..Len(file)] \cup {None}
    /\ resolving \subseteq Domain
    /\ job \in JobRow
    /\ output \in [cleaned: SUBSET DOMAIN file, valid: SUBSET DOMAIN file,
                   removed: SUBSET DOMAIN file]

UnderWay(k) ==
    /\ chunk[k].at \in {"start", "asking", "hosts", "askingHosts", "probing", "verified"}
    /\ chunk[k].at = "verified" => k \in DOMAIN verdicts
    /\ IF chunk[k].at \in {"hosts", "askingHosts", "probing"}
       THEN Waiting(chunk[k].v) /\ chunk[k].v.cell = CellOf(k)
       ELSE chunk[k].v = None

Told(k) == /\ \E i \in Firsts : Key(file[i]) = k
           /\ verdicts[k] \in Verdict /\ Shaped(verdicts[k]) /\ verdicts[k].cell = CellOf(k)

Row(k) == FromVerdict(verdicts[k], "this", job.listType, Ordinal(today))

Recorded(k) == verdicts[k].cell \in DOMAIN table /\ table[verdicts[k].cell] = Row(k)

RunInv ==
    /\ Frame
    /\ Cardinality(DOMAIN chunk) <= ChunkSize
    /\ \A k \in DOMAIN chunk : UnderWay(k)
    /\ \A k \in DOMAIN verdicts : Told(k)
    /\ Filed(table)
    /\ pc # "verifying" => DOMAIN chunk \cap DOMAIN verdicts = {}
    /\ \A k \in DOMAIN verdicts \ (DOMAIN chunk \cup {Blank}) : Recorded(k)

\* A run starts with nothing checked, and the rows of earlier jobs.
LEMMA InitRun == Init => RunInv
<1> SUFFICES ASSUME Init PROVE RunInv
  OBVIOUS
<1>1. DOMAIN chunk = {} /\ DOMAIN verdicts = {}
  BY DEF Init
<1>2. Cardinality(DOMAIN chunk) <= ChunkSize
  BY <1>1, FS_EmptySet, FileRunAssumption
<1>3. PICK c \in Cases :
         /\ file = c.file /\ settings = c.settings /\ today = c.today
         /\ table = Upsert(<<>>, {EarlierRow(e) : e \in c.earlier})
         /\ job = [status |-> "none", listType |-> c.listType, counts |-> NoCounts,
                        total |-> 0, processed |-> 0, outputs |-> {}]
  BY DEF Init
<1>4. Filed(table)
  <2> DEFINE rows == {EarlierRow(e) : e \in c.earlier}
  <2>1. \A r \in rows : Fileable(r)
    BY <1>3, EarlierRowCell
  <2>2. Filed(<<>>)
    BY FS_EmptySet DEF Filed
  <2>4. IsFiniteSet(rows)
    BY EarlierRowsFinite
  <2> HIDE DEF rows
  <2>3. Filed(Upsert(<<>>, rows))
    BY <2>1, <2>2, <2>4, UpsertFiles
  <2> QED BY <1>3, <2>3 DEF rows
<1>5. Frame
  <2>1. NoCounts \in Tallies
    BY DEF NoCounts, Tallies
  <2>2. c.listType \in ListType
    BY FileRunAssumption
  <2>3. job \in JobRow
    BY <1>3, <2>1, <2>2 DEF JobRow
  <2>4. output \in [cleaned: SUBSET DOMAIN file, valid: SUBSET DOMAIN file,
                    removed: SUBSET DOMAIN file]
    BY DEF Init
  <2>5. pc = "uploaded" /\ quote = None /\ resolving = {}
    BY DEF Init
  <2> QED BY <1>3, <2>3, <2>4, <2>5 DEF Frame
<1> QED BY <1>1, <1>2, <1>4, <1>5 DEF RunInv

\* The key a check or a verdict goes by is that of its cell.
LEMMA KeyOfCell ==
  ASSUME NEW k, \E i \in Firsts : Key(file[i]) = k
  PROVE  Key(CellOf(k)) = k /\ k \in Keys(file)
<1>1. PICK i \in Firsts : CellOf(k) = file[i] /\ Key(file[i]) = k
  BY DEF CellOf
<1> QED BY <1>1 DEF Firsts, Keys

\* The key of the blank cell is its own.
LEMMA KeyOfBlank == Key(Blank) = Blank
  BY FileRunAssumption, EngineAssumption DEF Key, Parses

\* The steps that leave the checks, the verdicts and the table alone.
LEMMA RunAside ==
  ASSUME RunInv, Frame', UNCHANGED <<file, today, chunk, verdicts, table>>,
         job'.listType = job.listType, pc' # "verifying" => pc # "verifying"
  PROVE  RunInv'
<1>1. (\A k \in DOMAIN chunk : UnderWay(k))'
  BY DEF RunInv, UnderWay, CellOf, Firsts
<1>2. (\A k \in DOMAIN verdicts : Told(k))'
  BY DEF RunInv, Told, CellOf, Firsts
<1>3. Filed(table)'
  BY DEF RunInv, Filed
<1>4. (\A k \in DOMAIN verdicts \ (DOMAIN chunk \cup {Blank}) : Recorded(k))'
  BY DEF RunInv, Recorded, Row
<1> QED BY <1>1, <1>2, <1>3, <1>4 DEF RunInv

\* Ending a check with a verdict of some shape, on its own cell.
LEMMA RunVerified ==
  ASSUME IInv, RunInv, pc = "verifying", NEW k \in DOMAIN chunk, chunk[k].at # "verified",
         NEW v \in Verdict, Shaped(v), v.cell = CellOf(k), Verified(k, v),
         UNCHANGED <<file, settings, today, pc, quote, resolving, table, output>>
  PROVE  RunInv'
<1>1. k \notin DOMAIN verdicts /\ \E i \in Firsts : Key(file[i]) = k
  BY DEF IInv, CheckSound
<1>2. /\ DOMAIN verdicts' = DOMAIN verdicts \cup {k} /\ verdicts'[k] = v
      /\ \A l \in DOMAIN verdicts : verdicts'[l] = verdicts[l]
  BY <1>1 DEF Verified, With
<1>3. /\ DOMAIN chunk' = DOMAIN chunk
      /\ chunk'[k] = [at |-> "verified", v |-> None]
      /\ \A l \in DOMAIN chunk : l # k => chunk'[l] = chunk[l]
  BY DEF Verified
<1>4. job' \in JobRow /\ job'.listType = job.listType
  <2>1. job \in JobRow /\ v.status \in Status
    BY DEF RunInv, Frame, Verdict
  <2>2. job' = [job EXCEPT !.processed = @ + 1, !.counts[v.status] = @ + 1]
    BY DEF Verified
  <2> QED BY <2>1, <2>2, JobCounted
<1>5. Frame'
  BY <1>4 DEF RunInv, Frame
<1>6. ASSUME NEW l \in DOMAIN chunk' PROVE UnderWay(l)'
  <2>1. CASE l = k
    BY <2>1, <1>2, <1>3 DEF UnderWay
  <2>2. CASE l # k
    BY <2>2, <1>2, <1>3 DEF RunInv, UnderWay, CellOf, Firsts
  <2> QED BY <2>1, <2>2
<1>7. ASSUME NEW l \in DOMAIN verdicts' PROVE Told(l)'
  <2>1. CASE l = k
    BY <2>1, <1>1, <1>2 DEF Told, CellOf, Firsts
  <2>2. CASE l \in DOMAIN verdicts
    BY <2>2, <1>2 DEF RunInv, Told, CellOf, Firsts
  <2> QED BY <2>1, <2>2, <1>2
<1>8. Filed(table)'
  BY DEF RunInv, Filed
<1>9. ASSUME NEW l \in (DOMAIN verdicts \ (DOMAIN chunk \cup {Blank}))' PROVE Recorded(l)'
  <2>1. l \in DOMAIN verdicts \ (DOMAIN chunk \cup {Blank}) /\ verdicts'[l] = verdicts[l]
    BY <1>2, <1>3
  <2> QED BY <1>4, <2>1 DEF RunInv, Recorded, Row
<1>10. (Cardinality(DOMAIN chunk) <= ChunkSize)'
  BY <1>3 DEF RunInv
<1> QED BY <1>5, <1>6, <1>7, <1>8, <1>9, <1>10 DEF RunInv

\* Sending a check on.
LEMMA RunAwait ==
  ASSUME IInv, RunInv, pc = "verifying", NEW k \in DOMAIN chunk, NEW at, NEW v, Await(k, at, v),
         at \in {"asking", "hosts", "askingHosts", "probing"},
         IF at = "asking" THEN v = None ELSE Waiting(v) /\ v.cell = CellOf(k),
         UNCHANGED <<file, settings, today, pc, quote, resolving, table, output>>
  PROVE  RunInv'
<1>1. /\ DOMAIN chunk' = DOMAIN chunk /\ UNCHANGED <<verdicts, job>>
      /\ chunk'[k] = [at |-> at, v |-> v]
      /\ \A l \in DOMAIN chunk : l # k => chunk'[l] = chunk[l]
  BY DEF Await
<1>2. Frame'
  BY <1>1 DEF RunInv, Frame
<1>3. ASSUME NEW l \in DOMAIN chunk' PROVE UnderWay(l)'
  <2>1. CASE l = k
    BY <2>1, <1>1 DEF UnderWay, CellOf, Firsts
  <2>2. CASE l # k
    BY <2>2, <1>1 DEF RunInv, UnderWay, CellOf, Firsts
  <2> QED BY <2>1, <2>2
<1>4. (\A l \in DOMAIN verdicts : Told(l))'
  BY <1>1 DEF RunInv, Told, CellOf, Firsts
<1>5. Filed(table)'
  BY DEF RunInv, Filed
<1>6. (\A l \in DOMAIN verdicts \ (DOMAIN chunk \cup {Blank}) : Recorded(l))'
  BY <1>1 DEF RunInv, Recorded, Row
<1>7. (Cardinality(DOMAIN chunk) <= ChunkSize)'
  BY <1>1 DEF RunInv
<1> QED BY <1>2, <1>3, <1>4, <1>5, <1>6, <1>7 DEF RunInv

\* The variables no step of a check touches.
Still == UNCHANGED <<file, settings, today, pc, quote, resolving, table, output>>

\* The engine's verdict, final or on its way to the mailbox.
LEMMA RunConcluded ==
  ASSUME IInv, RunInv, pc = "verifying", Still, NEW k \in DOMAIN chunk,
         chunk[k].at # "verified", ~SettledCheaply(CellOf(k)),
         NEW answer \in MxAnswer \cup {"skipped"}, (answer = "skipped") = ~settings.dns,
         Concluded(k, Validate(CellOf(k), answer))
  PROVE  RunInv'
<1> DEFINE c == CellOf(k)
           v == Validate(c, answer)
<1>1. c \in Cell
  BY CellOfCell
<1>2. v \in Verdict /\ v.cell = c /\ v.dns = answer /\ Before(v)
  BY <1>1, ValidateShape
<1>3. answer = "found" => v.mx
  BY <1>1, ValidateVerdict
<1>4. answer # "found" => ~v.mx
  BY <1>1, ValidateVerdict
<1> HIDE DEF v, c
<1>5. CASE Verified(k, v)
  BY <1>2, <1>5, RunVerified DEF Shaped, Still, c
<1>6. CASE /\ v.status \notin {"invalid", "disposable"}
           /\ ~settings.dns \/ v.mx
           /\ Await(k, IF settings.dns THEN "hosts" ELSE "probing", v)
  <2>1. answer \in {"found", "skipped"}
    BY <1>4, <1>6
  <2>2. Waiting(v)
    BY <1>2, <1>6, <2>1, NoneAssumption DEF Waiting, Before, Unasked, Unreachable
  <2>3. CASE settings.dns
    <3>1. Await(k, "hosts", v)
      BY <1>6, <2>3
    <3> QED BY <3>1, <2>2, <1>2, RunAwait DEF Still, c
  <2>4. CASE ~settings.dns
    <3>1. Await(k, "probing", v)
      BY <1>6, <2>4
    <3> QED BY <3>1, <2>2, <1>2, RunAwait DEF Still, c
  <2> QED BY <2>3, <2>4
<1> QED BY <1>5, <1>6 DEF Concluded, v, c

\* The cheap layers, and the lookup that the cache answers.
LEMMA RunCheck ==
  ASSUME IInv, RunInv, pc = "verifying", Still, NEW k \in DOMAIN chunk, Check(k)
  PROVE  RunInv'
<1> DEFINE c == CellOf(k)
<1>1. c \in Cell /\ chunk[k].at # "verified"
  BY CellOfCell DEF Check
<1>2. ~SettledCheaply(c) => c.domain \in Domain
  BY <1>1, CheapVerdict
<1>3. CASE SettledCheaply(c) /\ Verified(k, Cheap(c))
  <2>1. Cheap(c) \in Verdict /\ Cheap(c).cell = c /\ Before(Cheap(c))
    BY <1>1, <1>3, CheapVerdict, CheapShape
  <2> QED BY <1>1, <1>3, <2>1, RunVerified DEF Shaped, Still
<1>4. CASE ~SettledCheaply(c) /\ ~settings.dns /\ Concluded(k, Validate(c, "skipped"))
  BY <1>1, <1>4, RunConcluded
<1>5. CASE /\ ~SettledCheaply(c) /\ settings.dns /\ cache[c.domain] # None
           /\ Concluded(k, Validate(c, cache[c.domain]))
  <2> DEFINE answer == cache[c.domain]
  <2>1. answer \in MxAnswer
    BY <1>2, <1>5 DEF IInv, CacheHeard
  <2>2. answer # "skipped"
    BY <2>1 DEF MxAnswer
  <2> HIDE DEF answer
  <2> QED BY <1>1, <1>5, <2>1, <2>2, RunConcluded DEF answer
<1>6. CASE Await(k, "asking", None)
  BY <1>6, RunAwait DEF Still
<1> QED BY <1>3, <1>4, <1>5, <1>6 DEF Check

\* The answer of the lookup a check waited for.
LEMMA RunAnswered ==
  ASSUME IInv, RunInv, pc = "verifying", Still, NEW k \in DOMAIN chunk, Answered(k)
  PROVE  RunInv'
<1>1. /\ chunk[k].at = "asking" /\ ~SettledCheaply(CellOf(k)) /\ settings.dns
  BY DEF Answered, IInv, CheckSound
<1>2. PICK reply \in Reply : Concluded(k, Validate(CellOf(k), AnswerOf(reply)))
  BY DEF Answered
<1>3. AnswerOf(reply) \in MxAnswer /\ AnswerOf(reply) # "skipped"
  BY DEF AnswerOf, MxAnswer, Reply
<1> QED BY <1>1, <1>2, <1>3, RunConcluded

\* The hosts to probe, or none.
LEMMA RunHostsAre ==
  ASSUME IInv, RunInv, pc = "verifying", Still, NEW k \in DOMAIN chunk,
         chunk[k].at \in {"hosts", "askingHosts"}, NEW answer, HostsAre(k, answer)
  PROVE  RunInv'
<1> DEFINE v == chunk[k].v
           w == [v EXCEPT !.smtp = "no_mx_hosts"]
<1>1. Waiting(v) /\ v.cell = CellOf(k) /\ chunk[k].at # "verified"
  BY DEF RunInv, UnderWay
<1>2. w \in Verdict /\ w.cell = v.cell /\ Shaped(w)
  BY <1>1, NoHostsShape
<1>3. Await(k, "probing", v) \/ Verified(k, w)
  BY DEF HostsAre
<1> HIDE DEF v, w
<1> QED BY <1>1, <1>2, <1>3, RunAwait, RunVerified DEF Still

\* What the mailbox answers.
LEMMA RunProbed ==
  ASSUME IInv, RunInv, pc = "verifying", Still, NEW k \in DOMAIN chunk, Probed(k)
  PROVE  RunInv'
<1> DEFINE v == chunk[k].v
<1>1. PICK answer \in ProbeAnswer \ {"no_mx_hosts"} : Verified(k, Folded(v, answer))
  BY DEF Probed
<1>2. Waiting(v) /\ v.cell = CellOf(k) /\ chunk[k].at # "verified"
  BY DEF RunInv, UnderWay, Probed
<1> DEFINE w == Folded(v, answer)
<1>3. w \in Verdict /\ w.cell = v.cell /\ Shaped(w)
  BY <1>2, FoldedShape
<1> HIDE DEF v
<1>4. Verified(k, w)
  BY <1>1
<1> HIDE DEF w
<1> QED BY <1>2, <1>3, <1>4, RunVerified DEF Still

\* Every step of a check keeps the second invariant.
LEMMA RunVerify ==
  ASSUME IInv, RunInv, NEW k, Verify(k)
  PROVE  RunInv'
<1>1. k \in DOMAIN chunk /\ pc = "verifying" /\ Still
  BY DEF Verify, Still
<1>2. CASE Hosts(k)
  <2>1. CASE HostsAre(k, cache[CellOf(k).domain])
    BY <1>1, <1>2, <2>1, RunHostsAre DEF Hosts
  <2>2. CASE Await(k, "askingHosts", chunk[k].v)
    <3>1. Waiting(chunk[k].v) /\ chunk[k].v.cell = CellOf(k)
      BY <1>1, <1>2 DEF Hosts, RunInv, UnderWay
    <3> QED BY <1>1, <2>2, <3>1, RunAwait DEF Still
  <2> QED BY <1>2, <2>1, <2>2 DEF Hosts
<1>3. CASE HostsAnswered(k)
  <2>1. PICK reply \in Reply : HostsAre(k, AnswerOf(reply))
    BY <1>3 DEF HostsAnswered
  <2> QED BY <1>1, <1>3, <2>1, RunHostsAre DEF HostsAnswered
<1> QED BY <1>1, <1>2, <1>3, RunCheck, RunAnswered, RunProbed DEF Verify

\* A new chunk is of keys with no verdict yet.  With the rows of the one
\* before it in the table, every verdict there is has its row.
LEMMA RunChunk ==
  ASSUME IInv, RunInv, chunk' = NextChunk, Frame', UNCHANGED <<file, today, verdicts, job>>,
         Filed(table'), \A k \in DOMAIN verdicts \ {Blank} : Recorded(k)'
  PROVE  RunInv'
<1>1. file \in Seq(Cell)
  BY DEF IInv, Given
<1>2. /\ DOMAIN chunk' \cap DOMAIN verdicts = {}
      /\ Cardinality(DOMAIN chunk') <= ChunkSize
      /\ \A k \in DOMAIN chunk' : chunk'[k] = [at |-> "start", v |-> None]
  BY <1>1, ChunkFits
<1>3. (\A k \in DOMAIN chunk : UnderWay(k))'
  BY <1>2 DEF UnderWay
<1>4. (\A k \in DOMAIN verdicts : Told(k))'
  BY DEF RunInv, Told, CellOf, Firsts
<1>5. (\A k \in DOMAIN verdicts \ (DOMAIN chunk \cup {Blank}) : Recorded(k))'
  OBVIOUS
<1>6. Filed(table)'
  BY DEF Filed
<1> QED BY <1>2, <1>3, <1>4, <1>5, <1>6 DEF RunInv

LEMMA RunBeginVerify ==
  ASSUME IInv, RunInv, BeginVerify
  PROVE  RunInv'
<1>1. /\ chunk' = NextChunk /\ UNCHANGED <<file, today, verdicts, job, table>>
      /\ pc = "resolving"
  BY DEF BeginVerify
<1>2. Frame'
  BY DEF BeginVerify, RunInv, Frame
<1>3. Filed(table')
  BY <1>1 DEF RunInv
<1>4. \A k \in DOMAIN verdicts \ {Blank} : Recorded(k)'
  <2>1. \A k \in DOMAIN verdicts \ {Blank} : Recorded(k)
    BY <1>1 DEF RunInv
  <2> QED BY <1>1, <2>1 DEF Recorded, Row
<1> QED BY <1>1, <1>2, <1>3, <1>4, RunChunk

\* The rows of a chunk land without touching those of another.
\* The rows of a chunk that is over can be filed.
LEMMA ChunkIsFiled ==
  ASSUME IInv, RunInv, DOMAIN chunk \subseteq DOMAIN verdicts
  PROVE  IsFiniteSet(RowsOf(DOMAIN chunk)) /\ \A r \in RowsOf(DOMAIN chunk) : Fileable(r)
<1> DEFINE K == DOMAIN chunk \ {Blank}
           f == [k \in K |-> Row(k)]
<1>1. RowsOf(DOMAIN chunk) = {f[k] : k \in K}
  BY DEF RowsOf, Row
<1>2. \A k \in DOMAIN verdicts : /\ verdicts[k] \in Verdict /\ verdicts[k].cell = CellOf(k)
                                 /\ Key(CellOf(k)) = k /\ k \in Keys(file)
  BY KeyOfCell DEF RunInv, Told
<1>3. IsFiniteSet(K)
  <2>1. file \in Seq(Cell)
    BY DEF IInv, Given
  <2>2. IsFiniteSet(Keys(file))
    BY <2>1, KeysAreFewer DEF Keys
  <2>3. K \subseteq Keys(file)
    BY <1>2
  <2> QED BY <2>2, <2>3, FS_Subset
<1>4. ASSUME NEW k \in K PROVE Fileable(Row(k))
  <2>1. verdicts[k] \in Verdict /\ verdicts[k].cell # Blank
    BY <1>2, KeyOfBlank
  <2>2. job.listType \in ListType
    BY DEF RunInv, Frame, JobRow
  <2>3. Ordinal(today) \in Int
    <3>1. \E c \in Cases : today = c.today
      BY DEF RunInv, Frame
    <3> QED BY <3>1, TodayTyped
  <2>4. "this" \in {"earlier", "this"}
    OBVIOUS
  <2> QED BY <2>1, <2>2, <2>3, <2>4, VerdictIsFiled DEF Row
<1>5. DOMAIN f = K /\ f = [k \in K |-> f[k]] /\ \A k \in K : Fileable(f[k])
  BY <1>4
<1> HIDE DEF f, K
<1>6. IsFiniteSet({f[k] : k \in K})
  BY <1>3, <1>5, ImageFinite
<1> QED BY <1>1, <1>5, <1>6

LEMMA RunRecord ==
  ASSUME IInv, RunInv, Record
  PROVE  RunInv'
<1> DEFINE rows == RowsOf(DOMAIN chunk)
<1>1. /\ table' = Upsert(table, rows) /\ chunk' = NextChunk
      /\ UNCHANGED <<file, today, verdicts, job>>
      /\ DOMAIN chunk \subseteq DOMAIN verdicts
  BY DEF Record, RunInv, UnderWay
<1>2. Frame'
  <2>1. pc' \in {"verifying", "assembling"}
    BY DEF Record
  <2> QED BY <2>1 DEF Record, RunInv, Frame
<1>3. \A k \in DOMAIN verdicts :
          verdicts[k].cell = CellOf(k) /\ Key(CellOf(k)) = k
  BY KeyOfCell DEF RunInv, Told
<1>4. rows = {Row(k) : k \in DOMAIN chunk \ {Blank}}
  BY DEF RowsOf, Row
<1>5. \A k \in DOMAIN verdicts : Row(k).cell = CellOf(k)
  BY <1>3 DEF Row, FromVerdict
<1> HIDE DEF rows
<1>6. IsFiniteSet(rows) /\ \A r \in rows : Fileable(r)
  BY <1>1, ChunkIsFiled DEF rows
<1>7. /\ Filed(table') /\ DOMAIN table \subseteq DOMAIN table'
      /\ \A r \in rows : r.cell \in DOMAIN table'
      /\ \A e \in DOMAIN table : (\A r \in rows : r.cell # e) => table'[e] = table[e]
      /\ \A r \in rows : (\A q \in rows : q.cell = r.cell => q = r) => table'[r.cell] = r
  <2>1. Filed(table)
    BY DEF RunInv
  <2> QED BY <1>1, <1>6, <2>1, UpsertFiles
<1>8. ASSUME NEW k \in DOMAIN verdicts \ {Blank} PROVE Recorded(k)'
  <2>1. CellOf(k) \in DOMAIN table' /\ table'[CellOf(k)] = Row(k)
    <3>1. CASE k \in DOMAIN chunk
      <4>1. Row(k) \in rows /\ Row(k).cell = CellOf(k)
        BY <1>4, <1>5, <3>1
      <4>2. \A q \in rows : q.cell = Row(k).cell => q = Row(k)
        BY <1>1, <1>3, <1>4, <1>5, <4>1
      <4> QED BY <1>7, <4>1, <4>2
    <3>2. CASE k \notin DOMAIN chunk
      <4>1. Recorded(k)
        BY <3>2 DEF RunInv
      <4>2. CellOf(k) \in DOMAIN table /\ table[CellOf(k)] = Row(k)
        BY <1>3, <4>1 DEF Recorded
      <4>3. \A r \in rows : r.cell # CellOf(k)
        BY <1>1, <1>3, <1>4, <1>5, <3>2
      <4> QED BY <1>7, <4>2, <4>3
    <3> QED BY <3>1, <3>2
  <2> QED BY <1>1, <1>3, <2>1 DEF Recorded, Row
<1> QED BY <1>1, <1>2, <1>7, <1>8, RunChunk

\* Every step of a run does.
LEMMA StepRun == IInv /\ RunInv /\ [Next]_vars => RunInv'
<1> SUFFICES ASSUME IInv, RunInv, [Next]_vars PROVE RunInv'
  OBVIOUS
<1>1. Frame /\ file \in Seq(Cell) /\ job \in JobRow
  BY DEF RunInv, Frame, IInv, Given
<1>2. CASE Preview
  <2>1. PreviewStats(file) \in [total: 0..Len(file), unique: 0..Len(file), blank: 0..Len(file)]
    BY <1>1, QuoteTyped
  <2>2. Frame'
    BY <1>1, <1>2, <2>1 DEF Preview, Frame
  <2> QED BY <1>2, <2>2, RunAside DEF Preview
<1>3. CASE Start
  <2>1. job' \in JobRow /\ job'.listType = job.listType
    BY <1>1, <1>3 DEF Start, JobRow
  <2>2. Frame'
    BY <1>1, <1>3, <2>1 DEF Start, Frame
  <2> QED BY <1>3, <2>1, <2>2, RunAside DEF Start
<1>4. CASE Split
  <2> DEFINE unique == Cardinality(Firsts)
             doubles == Len(file) - unique
             counts == [job.counts EXCEPT !.total_rows = Len(file), !.unique_emails = unique,
                                          !.duplicates = doubles]
  <2>1. unique \in Int /\ doubles \in Int /\ Len(file) \in Int
    <3>1. Firsts \in SUBSET DOMAIN file
      BY DEF Firsts
    <3>2. unique \in 0..Len(file)
      BY <1>1, <3>1, RowsAreFinite
    <3> HIDE DEF unique
    <3> QED BY <1>1, <3>2
  <2>2. job' = [job EXCEPT !.status = "processing", !.total = unique, !.counts = counts]
    BY <1>1, <1>4 DEF Split, JobRow
  <2>3. \A i \in DOMAIN file : Parses(file[i]) => file[i].domain \in Domain
    BY <1>1 DEF Parses, Address
  <2>4. resolving' \subseteq Domain
    BY <1>4, <2>3 DEF Split, Firsts
  <2> HIDE DEF unique, doubles
  <2>5. counts \in Tallies
    BY <1>1, <2>1 DEF JobRow, Tallies
  <2> HIDE DEF counts
  <2>6. job' \in JobRow /\ job'.listType = job.listType
    BY <1>1, <2>1, <2>2, <2>5 DEF JobRow
  <2>7. Frame'
    BY <1>1, <1>4, <2>4, <2>6 DEF Split, Frame
  <2> QED BY <1>4, <2>6, <2>7, RunAside DEF Split
<1>5. CASE BeginVerify
  BY <1>5, RunBeginVerify
<1>6. CASE Record
  BY <1>6, RunRecord
<1>7. CASE Assemble
  <2>1. DOMAIN output = Segment
    BY <1>1 DEF Frame, Segment
  <2>2. job' \in JobRow /\ job'.listType = job.listType
    BY <1>1, <1>7, <2>1 DEF Assemble, JobRow
  <2>3. output' \in [cleaned: SUBSET DOMAIN file, valid: SUBSET DOMAIN file,
                     removed: SUBSET DOMAIN file]
    BY <1>7 DEF Assemble
  <2>4. Frame'
    BY <1>1, <1>7, <2>2, <2>3 DEF Assemble, Frame
  <2> QED BY <1>7, <2>2, <2>4, RunAside DEF Assemble
<1>8. ASSUME NEW d \in Domain, Resolve(d) PROVE RunInv'
  <2>1. Frame'
    BY <1>1, <1>8 DEF Resolve, Frame
  <2> QED BY <1>8, <2>1, RunAside DEF Resolve
<1>9. ASSUME NEW d \in Domain, Expire(d) \/ OtherRequest(d) PROVE RunInv'
  <2>1. UNCHANGED <<file, settings, today, pc, quote, resolving, chunk, verdicts, job, table,
                    output>>
    BY <1>9 DEF Expire, OtherRequest
  <2>2. Frame'
    BY <1>1, <2>1 DEF Frame
  <2> QED BY <2>1, <2>2, RunAside
<1>10. ASSUME NEW k \in DOMAIN chunk, Verify(k) PROVE RunInv'
  BY <1>10, RunVerify
<1>11. CASE UNCHANGED vars
  <2>1. Frame'
    BY <1>1, <1>11 DEF vars, Frame
  <2> QED BY <1>11, <2>1, RunAside DEF vars
<1> QED BY <1>2, <1>3, <1>4, <1>5, <1>6, <1>7, <1>8, <1>9, <1>10, <1>11 DEF Next

\* Both invariants hold in every run.
LEMMA RunInvariant == Spec => [](IInv /\ RunInv)
<1>1. Init => IInv /\ RunInv
  BY InitInv, InitRun
<1>2. IInv /\ RunInv /\ [Next]_vars => (IInv /\ RunInv)'
  BY StepInv, StepRun
<1> QED BY <1>1, <1>2, PTL DEF Spec

(***************************************************************************)
(* Safety: every variable keeps its type for every file; a check that may  *)
(* still reach the mailbox holds a verdict, no other check does, and the   *)
(* checks under way never outnumber a chunk.                               *)
(***************************************************************************)
THEOREM TypeCorrect == Spec => []TypeOK
<1>1. IInv /\ RunInv => TypeOK
  <2> SUFFICES ASSUME IInv, RunInv PROVE TypeOK
    OBVIOUS
  <2>1. DOMAIN chunk \subseteq Keys(file)
    BY KeyOfCell DEF IInv, CheckSound
  <2>2. DOMAIN verdicts \subseteq Keys(file) /\ \A k \in DOMAIN verdicts : verdicts[k] \in Verdict
    BY KeyOfCell DEF RunInv, Told
  <2>3. ASSUME NEW k \in DOMAIN chunk
        PROVE  /\ chunk[k].at \in {"start", "asking", "hosts", "askingHosts", "probing", "verified"}
               /\ chunk[k].v \in IF chunk[k].at \in {"hosts", "askingHosts", "probing"}
                                 THEN Verdict ELSE {None}
    BY DEF RunInv, UnderWay, Waiting
  <2>4. job.status \in {"none", "pending", "processing", "completed"} /\ job.outputs \subseteq Segment
    BY DEF RunInv, Frame, JobRow
  <2>5. \A segment \in Segment : output[segment] \subseteq DOMAIN file
    BY DEF RunInv, Frame, Segment
  <2>6. cache \in [Domain -> MxAnswer \cup {None}]
    BY DEF IInv, CacheHeard
  <2>7. \A e \in DOMAIN table : table[e] \in AddressRecord /\ table[e].cell = e /\ e # Blank
    BY DEF RunInv, Filed, Fileable
  <2> QED BY <2>1, <2>2, <2>3, <2>4, <2>5, <2>6, <2>7 DEF RunInv, Frame, TypeOK
<1> QED BY <1>1, RunInvariant, PTL

\* The row a verdict left is shown as the verdict was.
LEMMA RowShowsVerdict ==
  ASSUME NEW v \in Verdict, NEW j, NEW l, NEW day
  PROVE  LET row == FromVerdict(v, j, l, day)
         IN  /\ AddressRow(row).trace = BuildTrace(v)
             /\ AddressRow(row).subtitle = Subtitle(v.status, v.sub)
             /\ row.settledAt = SettledLayer(v.sub, v.smtp # None)
<1> DEFINE row == FromVerdict(v, j, l, day)
<1>1. /\ row.sub = v.sub /\ row.status = v.status /\ row.typo = v.typo /\ row.class = v.class
      /\ row.catchAll = v.catchAll /\ row.mx = v.mx /\ row.dns = v.dns /\ row.smtp = v.smtp
      /\ row.settledAt = SettledLayer(v.sub, v.smtp # None)
  BY DEF FromVerdict
<1> HIDE DEF row
<1>2. DnsRow(row) = DnsRow(v) /\ ClassRow(row) = ClassRow(v) /\ ProbeRow(row) = ProbeRow(v)
  BY <1>1 DEF DnsRow, ClassRow, ProbeRow
<1>3. BuildTrace(row) = BuildTrace(v)
  BY <1>1, <1>2 DEF BuildTrace
<1>4. /\ AddressRow(row).trace = BuildTrace(row)
      /\ AddressRow(row).subtitle = Subtitle(row.status, row.sub)
  BY DEF AddressRow, TraceFromRow
<1> QED BY <1>1, <1>3, <1>4 DEF row

(***************************************************************************)
(* Safety: whatever the file, the lookups and the probes, the trace shows  *)
(* a finding of no layer that did not run, blames the layer the verdict is *)
(* attributed to and none after it, and is shown the same of the row that  *)
(* the verdict left in the read-model.                                     *)
(***************************************************************************)
THEOREM TraceHonest == Spec => []TraceIsHonest
<1>1. IInv /\ RunInv => TraceIsHonest
  <2> SUFFICES ASSUME IInv, RunInv PROVE TraceIsHonest
    OBVIOUS
  <2>1. \A k \in DOMAIN verdicts : verdicts[k] \in Verdict /\ HonestOf(verdicts[k])
    BY ShapeIsHonest DEF RunInv, Told
  <2>2. ASSUME NEW k \in DOMAIN verdicts, pc = "done", k # Blank
        PROVE  LET v == verdicts[k]
               IN  /\ AddressRow(table[v.cell]).trace = BuildTrace(v)
                   /\ AddressRow(table[v.cell]).subtitle = Subtitle(v.status, v.sub)
                   /\ table[v.cell].settledAt = SettledLayer(v.sub, v.smtp # None)
    <3>1. Recorded(k)
      BY <2>2 DEF RunInv
    <3>2. table[verdicts[k].cell] = FromVerdict(verdicts[k], "this", job.listType, Ordinal(today))
      BY <3>1 DEF Recorded, Row
    <3> QED BY <2>1, <3>2, RowShowsVerdict
  <2> QED BY <2>1, <2>2 DEF HonestOf, TraceIsHonest
<1> QED BY <1>1, RunInvariant, PTL

-----------------------------------------------------------------------------
(* Sums.  MapThenSumSet folds a set one element at a time; h holds the     *)
(* sums of f over the subsets of S, as that fold takes them.               *)
Taken(s) == CHOOSE x \in s : TRUE

Adds(h, S, f) == h = [s \in SUBSET S |-> IF s = {} THEN 0
                                         ELSE f[Taken(s)] + h[s \ {Taken(s)}]]

LEMMA AddsStep ==
  ASSUME NEW S, NEW f, NEW h, Adds(h, S, f)
  PROVE  /\ h[{}] = 0
         /\ \A s \in SUBSET S : s # {} => /\ Taken(s) \in s /\ s \ {Taken(s)} \in SUBSET S
                                          /\ h[s] = f[Taken(s)] + h[s \ {Taken(s)}]
<1>1. \A s \in SUBSET S : h[s] = IF s = {} THEN 0 ELSE f[Taken(s)] + h[s \ {Taken(s)}]
  BY DEF Adds
<1>2. \A s : s # {} => Taken(s) \in s
  BY DEF Taken
<1> QED BY <1>1, <1>2

\* Of the subsets of a finite set with some property, one has no smaller one.
LEMMA LeastSubset ==
  ASSUME NEW S, IsFiniteSet(S), NEW Wrong \in SUBSET (SUBSET S), Wrong # {}
  PROVE  \E m \in Wrong : \A s \in SUBSET m : s # m => s \notin Wrong
<1>1. Wrong \in SUBSET FiniteSubsetsOf(S)
  BY FS_Subset DEF FiniteSubsetsOf
<1>2. IsWellFoundedOn(StrictSubsetOrdering(S), FiniteSubsetsOf(S))
  BY FS_StrictSubsetOrderingWellFounded
<1>3. PICK m \in Wrong : \A s \in Wrong : <<s, m>> \notin StrictSubsetOrdering(S)
  BY <1>1, <1>2, WFMin
<1>4. \A s \in SUBSET m : s # m => s \notin Wrong
  BY <1>3 DEF StrictSubsetOrdering
<1> QED BY <1>4

\* Two such functions agree where both sum the same numbers, and sum to an integer.
LEMMA SumsAgree ==
  ASSUME NEW S, IsFiniteSet(S), NEW f, \A x \in S : f[x] \in Int,
         NEW T, IsFiniteSet(T), NEW g, NEW D \in SUBSET S, D \subseteq T,
         \A x \in D : g[x] = f[x],
         NEW h, Adds(h, S, f), NEW j, Adds(j, T, g)
  PROVE  \A s \in SUBSET D : h[s] = j[s] /\ h[s] \in Int
<1> DEFINE Wrong == {s \in SUBSET D : ~(h[s] = j[s] /\ h[s] \in Int)}
<1>1. CASE Wrong # {}
  <2>1. IsFiniteSet(D)
    BY FS_Subset
  <2>2. PICK m \in Wrong : \A s \in SUBSET m : s # m => s \notin Wrong
    <3>1. Wrong \in SUBSET (SUBSET D)
      OBVIOUS
    <3> HIDE DEF Wrong
    <3> QED BY <1>1, <2>1, <3>1, LeastSubset
  <2>3. m \in SUBSET S /\ m \in SUBSET T /\ m \in SUBSET D
    OBVIOUS
  <2>4. m # {}
    <3>1. h[{}] = 0 /\ j[{}] = 0
      BY AddsStep
    <3>2. ~(h[m] = j[m] /\ h[m] \in Int)
      OBVIOUS
    <3> QED BY <3>1, <3>2
  <2> DEFINE x == Taken(m)
             r == m \ {x}
  <2>5. /\ x \in m /\ h[m] = f[x] + h[r] /\ j[m] = g[x] + j[r]
    BY <2>3, <2>4, AddsStep
  <2>6. r \in SUBSET m /\ r # m /\ r \in SUBSET D
    BY <2>3, <2>5
  <2>7. h[r] = j[r] /\ h[r] \in Int
    BY <2>2, <2>6
  <2>8. f[x] = g[x] /\ f[x] \in Int
    BY <2>3, <2>5
  <2> HIDE DEF x, r
  <2>9. h[m] = j[m] /\ h[m] \in Int
    BY <2>5, <2>7, <2>8
  <2> QED BY <2>9
<1> QED BY <1>1

\* There is one for every finite set: built on the smaller ones.
LEMMA SumsExist ==
  ASSUME NEW S, IsFiniteSet(S), NEW f, \A x \in S : f[x] \in Int
  PROVE  \E h : Adds(h, S, f)
<1> DEFINE Wrong == {s \in SUBSET S : ~\E h : Adds(h, s, f)}
<1>1. CASE Wrong # {}
  <2>1. PICK m \in Wrong : \A s \in SUBSET m : s # m => s \notin Wrong
    <3>1. Wrong \in SUBSET (SUBSET S)
      OBVIOUS
    <3> HIDE DEF Wrong
    <3> QED BY <1>1, <3>1, LeastSubset
  <2> DEFINE On(s) == CHOOSE h : Adds(h, s, f)
             total(s) == IF s = {} THEN 0 ELSE f[Taken(s)] + On(s \ {Taken(s)})[s \ {Taken(s)}]
             h == [s \in SUBSET m |-> total(s)]
  <2>2. m \in SUBSET S /\ ~\E g : Adds(g, m, f)
    OBVIOUS
  <2>3. ASSUME NEW s \in SUBSET m, s # m PROVE Adds(On(s), s, f)
    <3>1. \E g : Adds(g, s, f)
      BY <2>1, <2>2, <2>3
    <3> QED BY <3>1
  <2>4. \A s \in SUBSET m : s # {} => Taken(s) \in s /\ s \ {Taken(s)} \in SUBSET m
                                      /\ s \ {Taken(s)} # m
    BY DEF Taken
  <2> HIDE DEF On, Wrong
  <2>5. ASSUME NEW s \in SUBSET m, s # m PROVE total(s) = On(s)[s]
    <3>1. CASE s = {}
      BY <2>3, <2>5, <3>1, AddsStep
    <3>2. CASE s # {}
      <4> DEFINE r == s \ {Taken(s)}
      <4>1. /\ r \in SUBSET m /\ r # m /\ r \in SUBSET s /\ r \in SUBSET S
            /\ On(s)[s] = f[Taken(s)] + On(s)[r]
        BY <2>2, <2>3, <2>4, <2>5, <3>2, AddsStep
      <4>2. IsFiniteSet(r) /\ IsFiniteSet(s) /\ s \in SUBSET S
        BY <2>2, <4>1, FS_Subset
      <4>3. Adds(On(r), r, f) /\ Adds(On(s), s, f)
        BY <2>3, <2>5, <4>1
      <4>4. (\A x \in s : f[x] \in Int) /\ r \subseteq r /\ r \in SUBSET r
        BY <4>2
      <4> HIDE DEF r
      <4>5. On(s)[r] = On(r)[r]
        BY <4>1, <4>2, <4>3, <4>4, SumsAgree
      <4>6. total(s) = f[Taken(s)] + On(r)[r]
        BY <3>2 DEF r
      <4> QED BY <4>1, <4>5, <4>6
    <3> QED BY <3>1, <3>2
  <2> HIDE DEF total
  <2>6. ASSUME NEW s \in SUBSET m, s # {}
        PROVE  total(s) = f[Taken(s)] + h[s \ {Taken(s)}]
    <3> DEFINE r == s \ {Taken(s)}
    <3>1. r \in SUBSET m /\ r # m
      BY <2>4, <2>6
    <3>2. total(s) = f[Taken(s)] + On(r)[r]
      BY <2>6 DEF total
    <3>3. h[r] = total(r)
      BY <3>1
    <3>4. total(r) = On(r)[r]
      BY <2>5, <3>1
    <3> QED BY <3>2, <3>3, <3>4
  <2>7. total({}) = 0
    BY DEF total
  <2>8. \A s \in SUBSET m : total(s) = IF s = {} THEN 0 ELSE f[Taken(s)] + h[s \ {Taken(s)}]
    BY <2>6, <2>7
  <2>9. Adds(h, m, f)
    BY <2>8 DEF Adds
  <2> QED BY <2>2, <2>9
<1>2. S \in SUBSET S
  OBVIOUS
<1> QED BY <1>1, <1>2

\* The sum can be taken in any order.
LEMMA SumsAnyOrder ==
  ASSUME NEW S, IsFiniteSet(S), NEW f, \A x \in S : f[x] \in Int, NEW h, Adds(h, S, f)
  PROVE  /\ h[{}] = 0 /\ \A s \in SUBSET S : h[s] \in Int
         /\ \A s \in SUBSET S : \A x \in s : h[s] = f[x] + h[s \ {x}]
<1>1. h[{}] = 0
  BY AddsStep
<1>2. \A s \in SUBSET S : h[s] \in Int
  <2>1. S \in SUBSET S /\ S \subseteq S /\ \A x \in S : f[x] = f[x]
    OBVIOUS
  <2> QED BY <2>1, SumsAgree
<1> DEFINE Wrong == {s \in SUBSET S : \E x \in s : h[s] # f[x] + h[s \ {x}]}
<1>3. CASE Wrong # {}
  <2>1. PICK m \in Wrong : \A s \in SUBSET m : s # m => s \notin Wrong
    <3>1. Wrong \in SUBSET (SUBSET S)
      OBVIOUS
    <3> HIDE DEF Wrong
    <3> QED BY <1>3, <3>1, LeastSubset
  <2>2. PICK x \in m : h[m] # f[x] + h[m \ {x}]
    OBVIOUS
  <2>3. m \in SUBSET S
    OBVIOUS
  <2> DEFINE t == Taken(m)
             a == m \ {t}
             b == m \ {x}
             c == (m \ {x}) \ {t}
  <2>4. t \in m /\ h[m] = f[t] + h[a]
    BY <2>2, <2>3, AddsStep
  <2>5. t # x
    BY <2>2, <2>4
  <2>6. a \notin Wrong /\ b \notin Wrong /\ a \in SUBSET S /\ b \in SUBSET S /\ c \in SUBSET S
        /\ x \in a /\ t \in b /\ a \ {x} = c /\ b \ {t} = c
    BY <2>1, <2>3, <2>4, <2>5
  <2>7. h[a] = f[x] + h[a \ {x}] /\ h[b] = f[t] + h[b \ {t}]
    BY <2>6
  <2>8. h[a] = f[x] + h[c] /\ h[b] = f[t] + h[c]
    BY <2>6, <2>7
  <2>9. h[c] \in Int /\ f[x] \in Int /\ f[t] \in Int
    BY <1>2, <2>3, <2>4, <2>6
  <2>10. h[m] # f[x] + h[b]
    BY <2>2
  <2> HIDE DEF t, a, b, c
  <2> QED BY <2>4, <2>8, <2>9, <2>10
<1> QED BY <1>1, <1>2, <1>3

\* The sum of a function over a set, as the models write it.
SumOver(f, S) == MapThenSumSet(LAMBDA x : f[x], S)

\* That the numbers may be taken in any order.
AnyOrder(h, S, f) ==
    /\ h[{}] = 0
    /\ \A s \in SUBSET S : h[s] \in Int /\ \A x \in s : h[s] = f[x] + h[s \ {x}]

Numbers(f, S) == IsFiniteSet(S) /\ \A x \in S : f[x] \in Int

LEMMA SumIs ==
  ASSUME NEW S, NEW f, Numbers(f, S)
  PROVE  \E h : Adds(h, S, f) /\ AnyOrder(h, S, f) /\ SumOver(f, S) = h[S]
<1>1. \E h : Adds(h, S, f)
  BY SumsExist DEF Numbers
<1>2. \E h : Adds(h, S, f) /\ SumOver(f, S) = h[S]
  BY <1>1 DEF SumOver, MapThenSumSet, MapThenFoldSet, Adds, Taken
<1>3. PICK h : Adds(h, S, f) /\ SumOver(f, S) = h[S]
  BY <1>2
<1>4. AnyOrder(h, S, f)
  BY <1>3, SumsAnyOrder DEF Numbers, AnyOrder
<1> QED BY <1>3, <1>4

\* One status, or the two that are undeliverable.
LEMMA SumOfOne ==
  ASSUME NEW f, NEW x, f[x] \in Int
  PROVE  SumOver(f, {x}) = f[x]
<1>1. Numbers(f, {x})
  BY FS_Singleton DEF Numbers
<1>2. PICK h : AnyOrder(h, {x}, f) /\ SumOver(f, {x}) = h[{x}]
  BY <1>1, SumIs
<1>3. h[{}] = 0 /\ h[{x}] = f[x] + h[{x} \ {x}]
  BY <1>2 DEF AnyOrder
<1>4. {x} \ {x} = {}
  OBVIOUS
<1> QED BY <1>2, <1>3, <1>4

LEMMA SumOfTwo ==
  ASSUME NEW f, NEW x, NEW y, x # y, f[x] \in Int, f[y] \in Int
  PROVE  SumOver(f, {x, y}) = f[x] + f[y]
<1> DEFINE S == {x, y}
<1>1. Numbers(f, S)
  <2>1. IsFiniteSet({x}) /\ S = {x} \cup {y}
    BY FS_Singleton
  <2>2. IsFiniteSet(S)
    BY <2>1, FS_AddElement
  <2> QED BY <2>2 DEF Numbers
<1>2. PICK h : AnyOrder(h, S, f) /\ SumOver(f, S) = h[S]
  BY <1>1, SumIs
<1>4. S \ {x} = {y} /\ {y} \ {y} = {} /\ x \in S /\ {y} \in SUBSET S /\ S \in SUBSET S
  OBVIOUS
<1>5. h[S] = f[x] + h[{y}] /\ h[{y}] = f[y] + h[{}] /\ h[{}] = 0
  BY <1>2, <1>4 DEF AnyOrder
<1> QED BY <1>2, <1>5

\* The five statuses, and the four verdicts of which some may not occur.
LEMMA StatusFinite == IsFiniteSet(Status)
<1>1. Status = ((({"valid"} \cup {"invalid"}) \cup {"risky"}) \cup {"unknown"}) \cup {"disposable"}
  BY DEF Status
<1>2. IsFiniteSet({"valid"})
  BY FS_Singleton
<1> QED BY <1>1, <1>2, FS_AddElement

LEMMA SumOfStatuses ==
  ASSUME NEW f, \A s \in Status : f[s] \in Int
  PROVE  SumOver(f, Status) = Counted(f)
<1>1. PICK h : AnyOrder(h, Status, f) /\ SumOver(f, Status) = h[Status]
  <2>1. Numbers(f, Status)
    BY StatusFinite DEF Numbers
  <2> QED BY <2>1, SumIs
<1> DEFINE A == {"valid", "invalid", "risky", "unknown"}
           B == {"valid", "invalid", "risky"}
           C == {"valid", "invalid"}
           D == {"valid"}
<1>3. /\ A \in SUBSET Status /\ B \in SUBSET Status /\ C \in SUBSET Status /\ D \in SUBSET Status
      /\ Status \ {"disposable"} = A /\ A \ {"unknown"} = B /\ B \ {"risky"} = C
      /\ C \ {"invalid"} = D /\ D \ {"valid"} = {} /\ Status \in SUBSET Status
      /\ "disposable" \in Status /\ "unknown" \in A /\ "risky" \in B /\ "invalid" \in C /\ "valid" \in D
  BY DEF Status
<1> HIDE DEF A, B, C, D
<1>2. \A s \in SUBSET Status : \A z \in s : h[s] = f[z] + h[s \ {z}]
  BY <1>1 DEF AnyOrder
<1>4. h[Status] = f["disposable"] + h[A]
  BY <1>2, <1>3
<1>5. h[A] = f["unknown"] + h[B] /\ h[B] = f["risky"] + h[C]
  BY <1>2, <1>3
<1>6. h[C] = f["invalid"] + h[D] /\ h[D] = f["valid"] + h[{}]
  BY <1>2, <1>3
<1>8. h[{}] = 0
  BY <1>1 DEF AnyOrder
<1>7. /\ f["valid"] \in Int /\ f["invalid"] \in Int /\ f["risky"] \in Int
      /\ f["unknown"] \in Int /\ f["disposable"] \in Int
  BY DEF Status
<1> QED BY <1>1, <1>4, <1>5, <1>6, <1>7, <1>8 DEF Counted

LEMMA VerdictsFinite == IsFiniteSet(PrimaryVerdict)
<1>1. PrimaryVerdict = (({"deliverable"} \cup {"risky"}) \cup {"unknown"}) \cup {"undeliverable"}
  BY DEF PrimaryVerdict
<1>2. IsFiniteSet({"deliverable"})
  BY FS_Singleton
<1> QED BY <1>1, <1>2, FS_AddElement

Whole(totals) == totals["deliverable"] + totals["risky"] + totals["unknown"] + totals["undeliverable"]

\* What is nought adds nothing.
LEMMA SumSkips ==
  ASSUME NEW S, NEW f, Numbers(f, S), NEW D \in SUBSET S, \A x \in S \ D : f[x] = 0
  PROVE  SumOver(f, D) = SumOver(f, S)
<1>1. PICK h : Adds(h, S, f) /\ AnyOrder(h, S, f) /\ SumOver(f, S) = h[S]
  BY SumIs
<1>2. Numbers(f, D)
  BY FS_Subset DEF Numbers
<1>3. PICK j : Adds(j, D, f) /\ AnyOrder(j, D, f) /\ SumOver(f, D) = j[D]
  BY <1>2, SumIs
<1>4. h[D] = j[D]
  <2>1. D \subseteq D /\ D \in SUBSET D /\ \A x \in D : f[x] = f[x]
    OBVIOUS
  <2>2. (\A x \in S : f[x] \in Int) /\ IsFiniteSet(S) /\ IsFiniteSet(D)
    BY <1>2 DEF Numbers
  <2>3. \A s \in SUBSET D : h[s] = j[s] /\ h[s] \in Int
    <3>1. Adds(h, S, f) /\ Adds(j, D, f)
      BY <1>1, <1>3
    <3> QED BY <2>1, <2>2, <3>1, SumsAgree
  <2> QED BY <2>1, <2>3
<1> DEFINE Wrong == {s \in SUBSET S : D \subseteq s /\ h[s] # h[D]}
<1>5. CASE Wrong # {}
  <2>1. PICK m \in Wrong : \A s \in SUBSET m : s # m => s \notin Wrong
    <3>1. Wrong \in SUBSET (SUBSET S) /\ IsFiniteSet(S)
      BY DEF Numbers
    <3> HIDE DEF Wrong
    <3> QED BY <1>5, <3>1, LeastSubset
  <2>2. m \in SUBSET S /\ D \subseteq m /\ h[m] # h[D]
    OBVIOUS
  <2>3. PICK x \in m : x \notin D
    BY <2>2
  <2>4. h[m] = f[x] + h[m \ {x}] /\ h[m \ {x}] \in Int
    <3>1. m \ {x} \in SUBSET S
      BY <2>2
    <3> QED BY <1>1, <2>2, <3>1 DEF AnyOrder
  <2>5. f[x] = 0
    BY <2>2, <2>3
  <2>6. m \ {x} \notin Wrong
    BY <2>1, <2>3
  <2>7. h[m \ {x}] = h[D]
    BY <2>2, <2>3, <2>6
  <2> HIDE DEF Wrong
  <2> QED BY <2>2, <2>4, <2>5, <2>7
<1>6. S \in SUBSET S /\ D \subseteq S
  OBVIOUS
<1> QED BY <1>1, <1>3, <1>4, <1>5, <1>6

LEMMA SumOfVerdicts ==
  ASSUME NEW f, \A v \in PrimaryVerdict : f[v] \in Int
  PROVE  SumOver(f, PrimaryVerdict) = Whole(f)
<1>1. PICK h : AnyOrder(h, PrimaryVerdict, f) /\ SumOver(f, PrimaryVerdict) = h[PrimaryVerdict]
  <2>1. Numbers(f, PrimaryVerdict)
    BY VerdictsFinite DEF Numbers
  <2> QED BY <2>1, SumIs
<1> DEFINE A == {"deliverable", "risky", "unknown"}
           B == {"deliverable", "risky"}
           C == {"deliverable"}
           P == PrimaryVerdict
<1>2. /\ A \in SUBSET P /\ B \in SUBSET P /\ C \in SUBSET P /\ P \in SUBSET P
      /\ P \ {"undeliverable"} = A /\ A \ {"unknown"} = B /\ B \ {"risky"} = C
      /\ C \ {"deliverable"} = {}
      /\ "undeliverable" \in P /\ "unknown" \in A /\ "risky" \in B /\ "deliverable" \in C
  BY DEF PrimaryVerdict
<1>3. /\ f["deliverable"] \in Int /\ f["risky"] \in Int /\ f["unknown"] \in Int
      /\ f["undeliverable"] \in Int
  BY DEF PrimaryVerdict
<1>4. h[{}] = 0 /\ \A s \in SUBSET P : \A z \in s : h[s] = f[z] + h[s \ {z}]
  BY <1>1 DEF AnyOrder
<1> HIDE DEF A, B, C, P
<1>5. h[P] = f["undeliverable"] + h[A] /\ h[A] = f["unknown"] + h[B]
  BY <1>2, <1>4
<1>6. h[B] = f["risky"] + h[C] /\ h[C] = f["deliverable"] + h[{}]
  BY <1>2, <1>4
<1> QED BY <1>1, <1>3, <1>4, <1>5, <1>6 DEF Whole, P

-----------------------------------------------------------------------------
(* How many.  A map onto a set that tells its arguments apart counts it,   *)
(* and a key has one first row.                                            *)
LEMMA AsMany ==
  ASSUME NEW A, IsFiniteSet(A), NEW B, NEW f \in Surjection(A, B),
         \A x, y \in A : f[x] = f[y] => x = y
  PROVE  IsFiniteSet(B) /\ Cardinality(B) = Cardinality(A)
<1>1. f \in Injection(A, B)
  BY DEF Surjection, Injection, IsInjective
<1> QED BY <1>1, FS_Surjection

\* No two first rows have one key.
LEMMA FirstsApart ==
  ASSUME file \in Seq(Cell)
  PROVE  /\ Firsts \subseteq DOMAIN file
         /\ \A i, j \in Firsts : Key(file[i]) = Key(file[j]) => i = j
<1>1. Firsts \subseteq DOMAIN file
  BY DEF Firsts
<1>2. DOMAIN file \subseteq Nat \ {0}
  OBVIOUS
<1>3. ASSUME NEW i \in Firsts, NEW j \in Firsts, i < j PROVE Key(file[i]) # Key(file[j])
  <2>1. i \in 1..(j - 1)
    BY <1>1, <1>2, <1>3
  <2> QED BY <2>1 DEF Firsts, First
<1>4. ASSUME NEW i \in Firsts, NEW j \in Firsts, Key(file[i]) = Key(file[j]) PROVE i = j
  <2>1. i \in Nat /\ j \in Nat
    BY <1>1, <1>2
  <2>2. ~(i < j) /\ ~(j < i)
    BY <1>3, <1>4
  <2> QED BY <2>1, <2>2
<1> QED BY <1>1, <1>4

\* Every key of the file has a first row.
LEMMA FirstsStand ==
  ASSUME file \in Seq(Cell)
  PROVE  \A k \in Keys(file) : \E i \in Firsts : Key(file[i]) = k
<1> SUFFICES ASSUME NEW k \in Keys(file) PROVE \E i \in Firsts : Key(file[i]) = k
  OBVIOUS
<1> DEFINE R == {i \in DOMAIN file : Key(file[i]) = k}
           less == {s \in Nat \X Nat : s[1] < s[2]}
<1>1. R # {} /\ R \in SUBSET Nat
  BY DEF Keys
<1>2. IsWellFoundedOn(less, Nat)
  BY NatLessThanWellFounded DEF OpToRel
<1>3. PICK i \in R : \A j \in R : <<j, i>> \notin less
  <2> HIDE DEF R, less
  <2> QED BY <1>1, <1>2, WFMin
<1>4. i \in DOMAIN file /\ Key(file[i]) = k /\ i \in Nat \ {0} /\ i <= Len(file)
  OBVIOUS
<1>5. ASSUME NEW j \in 1..(i - 1) PROVE Key(file[j]) # Key(file[i])
  <2>1. j \in Nat /\ j < i /\ j \in DOMAIN file
    BY <1>4
  <2>2. <<j, i>> \in less
    BY <1>4, <2>1
  <2>3. j \notin R
    BY <1>3, <2>2
  <2> QED BY <1>4, <2>1, <2>3
<1>6. First(file, i)
  BY <1>5 DEF First
<1> QED BY <1>4, <1>6 DEF Firsts

\* The keys of some of the first rows are as many as those rows.
LEMMA KeysAsMany ==
  ASSUME file \in Seq(Cell), NEW A \in SUBSET Firsts,
         NEW K, \A i \in A : Key(file[i]) \in K, \A k \in K : \E i \in A : Key(file[i]) = k
  PROVE  IsFiniteSet(A) /\ IsFiniteSet(K) /\ Cardinality(K) = Cardinality(A)
<1> DEFINE f == [i \in A |-> Key(file[i])]
<1>1. f \in Surjection(A, K)
  BY DEF Surjection
<1>2. \A x, y \in A : f[x] = f[y] => x = y
  BY FirstsApart
<1>3. IsFiniteSet(A)
  BY RowsAreFinite, FirstsApart
<1> HIDE DEF f
<1> QED BY <1>1, <1>2, <1>3, AsMany

\* The unique addresses are the keys of the file.
LEMMA UniqueAreKeys ==
  ASSUME file \in Seq(Cell)
  PROVE  /\ IsFiniteSet(Keys(file)) /\ Cardinality(Keys(file)) = Cardinality(Firsts)
         /\ Cardinality(Firsts) \in 0..Len(file)
<1>1. \A i \in Firsts : Key(file[i]) \in Keys(file)
  BY FirstsApart DEF Keys
<1>2. IsFiniteSet(Keys(file)) /\ Cardinality(Keys(file)) = Cardinality(Firsts)
  BY <1>1, FirstsStand, KeysAsMany
<1>3. Cardinality(Firsts) \in 0..Len(file)
  BY FirstsApart, RowsAreFinite
<1> QED BY <1>2, <1>3

-----------------------------------------------------------------------------
(* The third invariant: the books.  The tally of a status counts its       *)
(* verdicts and the progress counts them all; where the wizard is decides  *)
(* the status of the job and what of the file has been counted; and the    *)
(* rows of this job are those of keys with a verdict.                      *)
Of(status) == {k \in DOMAIN verdicts : verdicts[k].status = status}

Tallied ==
    /\ \A s \in Status : job.counts[s] = Cardinality(Of(s))
    /\ job.processed = Counted(job.counts) /\ job.processed = Cardinality(DOMAIN verdicts)

StatusAt(at) == IF at \in {"uploaded", "previewed"} THEN "none"
                ELSE IF at = "created" THEN "pending"
                ELSE IF at = "done" THEN "completed" ELSE "processing"

FileCounted ==
    /\ job.total = Cardinality(Firsts)
    /\ job.counts.total_rows = Len(file)
    /\ job.counts.unique_emails = Cardinality(Firsts)
    /\ job.counts.duplicates = Len(file) - Cardinality(Firsts)

ThreeFiles ==
    /\ output.cleaned = DOMAIN file
    /\ output.valid = {i \in DOMAIN file : ~Removed(i)}
    /\ output.removed = {i \in DOMAIN file : Removed(i)}

Staged ==
    /\ pc # "uploaded" => quote = PreviewStats(file)
    /\ job.status = StatusAt(pc)
    /\ pc \notin {"uploaded", "previewed", "created"} => FileCounted
    /\ pc \in {"assembling", "done"} => DOMAIN verdicts = Keys(file)
    /\ pc = "done" => job.outputs = Segment /\ ThreeFiles

Gained == \A e \in DOMAIN table : table[e].job = "this" =>
              \E k \in DOMAIN verdicts \ {Blank} : e = CellOf(k)

BookInv == Tallied /\ Staged /\ Gained

\* One more verdict is one more of its status.
LEMMA OneMoreVerdict ==
  ASSUME IsFiniteSet(DOMAIN verdicts), NEW k, k \notin DOMAIN verdicts, NEW v,
         verdicts' = With(verdicts, k, v)
  PROVE  /\ IsFiniteSet(DOMAIN verdicts')
         /\ Cardinality(DOMAIN verdicts') = Cardinality(DOMAIN verdicts) + 1
         /\ \A s \in Status : Cardinality(Of(s)') = IF s = v.status THEN Cardinality(Of(s)) + 1
                                                    ELSE Cardinality(Of(s))
<1>1. /\ DOMAIN verdicts' = DOMAIN verdicts \cup {k} /\ verdicts'[k] = v
      /\ \A l \in DOMAIN verdicts : verdicts'[l] = verdicts[l]
  BY DEF With
<1>2. /\ IsFiniteSet(DOMAIN verdicts')
      /\ Cardinality(DOMAIN verdicts') = Cardinality(DOMAIN verdicts) + 1
  BY <1>1, FS_AddElement
<1>3. ASSUME NEW s \in Status
      PROVE  Cardinality(Of(s)') = IF s = v.status THEN Cardinality(Of(s)) + 1
                                   ELSE Cardinality(Of(s))
  <2>1. IsFiniteSet(Of(s)) /\ k \notin Of(s)
    BY FS_Subset DEF Of
  <2>2. Of(s)' = IF s = v.status THEN Of(s) \cup {k} ELSE Of(s)
    BY <1>1 DEF Of
  <2> QED BY <2>1, <2>2, FS_AddElement
<1> QED BY <1>2, <1>3

\* A run starts with nothing verified, counted or recorded.
LEMMA InitBooks == Init => BookInv
<1> SUFFICES ASSUME Init PROVE BookInv
  OBVIOUS
<1>1. DOMAIN verdicts = {} /\ pc = "uploaded"
  BY DEF Init
<1>2. PICK c \in Cases :
         /\ today = c.today
         /\ table = Upsert(<<>>, {EarlierRow(e) : e \in c.earlier})
         /\ job = [status |-> "none", listType |-> c.listType, counts |-> NoCounts,
                        total |-> 0, processed |-> 0, outputs |-> {}]
  BY DEF Init
<1>3. Tallied
  <2>1. \A s \in Status : Of(s) = {}
    BY <1>1 DEF Of
  <2>2. \A s \in Status : job.counts[s] = 0
    BY <1>2 DEF NoCounts, Status
  <2>3. Counted(job.counts) = 0 /\ job.processed = 0
    BY <1>2 DEF NoCounts, Counted
  <2> QED BY <1>1, <2>1, <2>2, <2>3, FS_EmptySet DEF Tallied
<1>4. Staged
  BY <1>1, <1>2 DEF Staged, StatusAt
<1>5. Gained
  <2> DEFINE rows == {EarlierRow(e) : e \in c.earlier}
  <2>1. IsFiniteSet(rows) /\ \A r \in rows : Fileable(r) /\ r.job # "this"
    BY <1>2, EarlierRowCell, EarlierRowsFinite
  <2>2. Filed(<<>>) /\ DOMAIN <<>> = {}
    BY FS_EmptySet DEF Filed
  <2>3. table = Upsert(<<>>, rows)
    BY <1>2
  <2> HIDE DEF rows
  <2>4. \A e \in DOMAIN table : \E r \in rows : table[e] = r
    BY <2>1, <2>2, <2>3, UpsertFiles
  <2> QED BY <2>1, <2>4 DEF Gained
<1> QED BY <1>3, <1>4, <1>5 DEF BookInv

\* The verdicts there are are finitely many: no more than the keys of the file.
LEMMA VerdictsOfKeys ==
  ASSUME IInv, RunInv
  PROVE  /\ file \in Seq(Cell) /\ DOMAIN verdicts \subseteq Keys(file)
         /\ IsFiniteSet(DOMAIN verdicts)
<1>1. file \in Seq(Cell)
  BY DEF IInv, Given
<1>2. DOMAIN verdicts \subseteq Keys(file)
  BY KeyOfCell DEF RunInv, Told
<1>3. IsFiniteSet(Keys(file))
  BY <1>1, UniqueAreKeys
<1> QED BY <1>1, <1>2, <1>3, FS_Subset

\* A check ends with a verdict, its key's first, or leaves the books alone.
LEMMA VerifyEnds ==
  ASSUME IInv, NEW k, Verify(k)
  PROVE  /\ k \in DOMAIN chunk /\ pc = "verifying" /\ Still
         /\ \/ UNCHANGED <<verdicts, job>>
            \/ k \notin DOMAIN verdicts /\ \E v : Verified(k, v)
<1>1. k \in DOMAIN chunk /\ pc = "verifying" /\ Still
  BY DEF Verify, Still
<1>2. UNCHANGED <<verdicts, job>> \/ \E v : Verified(k, v)
  <2>1. CASE Check(k)
    BY <2>1 DEF Check, Concluded, Await
  <2>2. CASE Answered(k)
    BY <2>2 DEF Answered, Concluded, Await
  <2>3. CASE Hosts(k)
    BY <2>3 DEF Hosts, HostsAre, Await
  <2>4. CASE HostsAnswered(k)
    BY <2>4 DEF HostsAnswered, HostsAre, Await
  <2>5. CASE Probed(k)
    BY <2>5 DEF Probed
  <2> QED BY <2>1, <2>2, <2>3, <2>4, <2>5 DEF Verify
<1>3. chunk[k].at # "verified"
  BY DEF Verify, Check, Answered, Hosts, HostsAnswered, Probed
<1>4. k \notin DOMAIN verdicts
  BY <1>1, <1>3 DEF IInv, CheckSound
<1> QED BY <1>1, <1>2, <1>4

\* The steps that verify nothing and record nothing.
LEMMA BookAside ==
  ASSUME BookInv, Staged', UNCHANGED <<file, verdicts, table>>,
         job'.processed = job.processed, Counted(job'.counts) = Counted(job.counts),
         \A s \in Status : job'.counts[s] = job.counts[s]
  PROVE  BookInv'
<1>1. Tallied'
  BY DEF BookInv, Tallied, Of
<1>2. Gained'
  BY DEF BookInv, Gained, CellOf, Firsts
<1> QED BY <1>1, <1>2 DEF BookInv

\* Ending a check adds to one tally and to the progress.
LEMMA BookVerify ==
  ASSUME IInv, RunInv, RunInv', BookInv, NEW k, Verify(k)
  PROVE  BookInv'
<1>1. /\ k \in DOMAIN chunk /\ pc = "verifying"
      /\ UNCHANGED <<file, pc, quote, table, output>>
  BY VerifyEnds DEF Still
<1>2. CASE UNCHANGED <<verdicts, job>>
  <2>1. Staged'
    BY <1>1, <1>2 DEF BookInv, Staged, FileCounted, Firsts
  <2> QED BY <1>1, <1>2, <2>1, BookAside
<1>3. CASE k \notin DOMAIN verdicts /\ \E v : Verified(k, v)
  <2>1. PICK v : Verified(k, v)
    BY <1>3
  <2>2. /\ verdicts' = With(verdicts, k, v)
        /\ job' = [job EXCEPT !.processed = @ + 1, !.counts[v.status] = @ + 1]
    BY <2>1 DEF Verified
  <2>3. IsFiniteSet(DOMAIN verdicts) /\ job \in JobRow /\ job.counts \in Tallies
    BY VerdictsOfKeys DEF RunInv, Frame, JobRow
  <2>4. v.status \in Status
    <3>1. k \in DOMAIN verdicts' /\ verdicts'[k] = v
      BY <2>2 DEF With
    <3>2. v \in Verdict
      BY <3>1 DEF RunInv, Told
    <3> QED BY <3>2 DEF Verdict
  <2> DEFINE after == [job.counts EXCEPT ![v.status] = job.counts[v.status] + 1]
  <2>5. /\ job'.status = job.status /\ job'.total = job.total
        /\ job'.processed = job.processed + 1 /\ job'.counts = after
    BY <2>2, <2>3, <2>4, JobCounted
  <2>6. /\ Counted(after) = Counted(job.counts) + 1
        /\ \A s \in Status : after[s] = IF s = v.status THEN job.counts[s] + 1 ELSE job.counts[s]
        /\ after.total_rows = job.counts.total_rows
        /\ after.unique_emails = job.counts.unique_emails
        /\ after.duplicates = job.counts.duplicates
    BY <2>3, <2>4, OneMore
  <2> HIDE DEF after
  <2>7. Tallied'
    <3>1. /\ Cardinality(DOMAIN verdicts') = Cardinality(DOMAIN verdicts) + 1
          /\ \A s \in Status : Cardinality(Of(s)') = IF s = v.status THEN Cardinality(Of(s)) + 1
                                                     ELSE Cardinality(Of(s))
      BY <1>3, <2>2, <2>3, OneMoreVerdict
    <3>2. \A s \in Status : job'.counts[s] = Cardinality(Of(s)')
      BY <2>5, <2>6, <3>1 DEF BookInv, Tallied
    <3>3. job'.processed = Counted(job'.counts) /\ job'.processed = Cardinality(DOMAIN verdicts')
      BY <2>5, <2>6, <3>1 DEF BookInv, Tallied
    <3> QED BY <3>2, <3>3 DEF Tallied
  <2>8. Staged'
    BY <1>1, <2>5, <2>6 DEF BookInv, Staged, FileCounted, Firsts
  <2>9. Gained'
    <3>1. DOMAIN verdicts \subseteq DOMAIN verdicts'
      BY <2>2 DEF With
    <3> QED BY <1>1, <3>1 DEF BookInv, Gained, CellOf, Firsts
  <2> QED BY <2>7, <2>8, <2>9 DEF BookInv
<1> QED BY <1>2, <1>3, VerifyEnds

\* The rows that land are of keys just verified; when every unique address
\* is counted, every key has its verdict.
LEMMA BookRecord ==
  ASSUME IInv, RunInv, BookInv, Record
  PROVE  BookInv'
<1> DEFINE rows == RowsOf(DOMAIN chunk)
<1>1. /\ pc = "verifying" /\ table' = Upsert(table, rows)
      /\ UNCHANGED <<file, quote, verdicts, job, output>>
      /\ DOMAIN chunk \subseteq DOMAIN verdicts
  BY DEF Record, RunInv, UnderWay
<1>2. pc' = IF job.processed < job.total THEN "verifying" ELSE "assembling"
  BY DEF Record
<1>3. Tallied'
  BY <1>1 DEF BookInv, Tallied, Of
<1>4. Staged'
  <2>1. job.status = "processing" /\ FileCounted /\ quote = PreviewStats(file)
    BY <1>1 DEF BookInv, Staged, StatusAt
  <2>2. pc' = "assembling" => DOMAIN verdicts = Keys(file)
    <3>1. /\ IsFiniteSet(Keys(file)) /\ Cardinality(Keys(file)) = job.total
          /\ DOMAIN verdicts \subseteq Keys(file)
      BY <2>1, VerdictsOfKeys, UniqueAreKeys DEF FileCounted
    <3>2. job.processed = Cardinality(DOMAIN verdicts)
      BY DEF BookInv, Tallied
    <3>3. /\ Cardinality(DOMAIN verdicts) <= Cardinality(Keys(file))
          /\ Cardinality(Keys(file)) = Cardinality(DOMAIN verdicts) => Keys(file) = DOMAIN verdicts
          /\ Cardinality(DOMAIN verdicts) \in Nat /\ Cardinality(Keys(file)) \in Nat
      BY <3>1, FS_Subset, FS_CardinalityType
    <3> QED BY <1>2, <3>1, <3>2, <3>3
  <2> QED BY <1>1, <1>2, <2>1, <2>2 DEF Staged, StatusAt, FileCounted, Firsts
<1>5. Gained'
  <2>1. \A k \in DOMAIN verdicts : verdicts[k].cell = CellOf(k) /\ Key(CellOf(k)) = k
    BY KeyOfCell DEF RunInv, Told
  <2>2. \A r \in rows : \E k \in DOMAIN chunk \ {Blank} : r = Row(k)
    BY DEF RowsOf, Row
  <2>3. \A k \in DOMAIN verdicts : Row(k).cell = CellOf(k)
    BY <2>1 DEF Row, FromVerdict
  <2>4. Filed(table)
    BY DEF RunInv
  <2> HIDE DEF rows
  <2>5. IsFiniteSet(rows) /\ \A r \in rows : Fileable(r)
    BY <1>1, ChunkIsFiled DEF rows
  <2>6. \A e \in DOMAIN table' : \/ \E r \in rows : r.cell = e /\ table'[e] = r
                                 \/ e \in DOMAIN table /\ table'[e] = table[e]
    BY <1>1, <2>4, <2>5, UpsertFiles
  <2>7. ASSUME NEW e \in DOMAIN table', table'[e].job = "this"
        PROVE  \E k \in DOMAIN verdicts \ {Blank} : e = CellOf(k)
    BY <1>1, <2>2, <2>3, <2>6, <2>7 DEF BookInv, Gained
  <2> QED BY <1>1, <2>7 DEF Gained, CellOf, Firsts
<1> QED BY <1>3, <1>4, <1>5 DEF BookInv

\* Every step keeps the books.
LEMMA StepBooks == IInv /\ RunInv /\ RunInv' /\ BookInv /\ [Next]_vars => BookInv'
<1> SUFFICES ASSUME IInv, RunInv, RunInv', BookInv, [Next]_vars PROVE BookInv'
  OBVIOUS
<1>1. Staged /\ file \in Seq(Cell) /\ job \in JobRow
  BY DEF BookInv, RunInv, Frame, IInv, Given
<1>2. CASE Preview
  <2>1. Staged'
    BY <1>1, <1>2 DEF Preview, Staged, StatusAt
  <2> QED BY <1>2, <2>1, BookAside DEF Preview
<1>3. CASE Start
  <2>1. job'.status = "pending" /\ job'.counts = job.counts /\ job'.processed = job.processed
    BY <1>1, <1>3 DEF Start, JobRow
  <2>2. Staged'
    BY <1>1, <1>3, <2>1 DEF Start, Staged, StatusAt
  <2> QED BY <1>3, <2>1, <2>2, BookAside DEF Start
<1>4. CASE Split
  <2> DEFINE unique == Cardinality(Firsts)
             doubles == Len(file) - unique
             counts == [job.counts EXCEPT !.total_rows = Len(file), !.unique_emails = unique,
                                          !.duplicates = doubles]
  <2>1. job' = [job EXCEPT !.status = "processing", !.total = unique, !.counts = counts]
    BY <1>1, <1>4 DEF Split, JobRow
  <2>2. /\ counts.total_rows = Len(file) /\ counts.unique_emails = unique
        /\ counts.duplicates = doubles
        /\ \A s \in Status : counts[s] = job.counts[s]
    BY <1>1 DEF JobRow, Tallies, Status
  <2>3. Counted(counts) = Counted(job.counts)
    BY <2>2 DEF Counted, Status
  <2> HIDE DEF counts
  <2>4. /\ job'.status = "processing" /\ job'.total = unique /\ job'.counts = counts
        /\ job'.processed = job.processed
    BY <1>1, <2>1 DEF JobRow
  <2>5. FileCounted'
    BY <1>4, <2>2, <2>4 DEF FileCounted, Split, Firsts
  <2>6. Staged'
    BY <1>1, <1>4, <2>4, <2>5 DEF Split, Staged, StatusAt
  <2> QED BY <1>4, <2>2, <2>3, <2>4, <2>6, BookAside DEF Split
<1>5. CASE BeginVerify
  <2>1. Staged'
    BY <1>1, <1>5 DEF BeginVerify, Staged, StatusAt, FileCounted, Firsts
  <2> QED BY <1>5, <2>1, BookAside DEF BeginVerify
<1>6. CASE Record
  BY <1>6, BookRecord
<1>7. CASE Assemble
  <2>1. DOMAIN output = Segment
    BY DEF RunInv, Frame, Segment
  <2>2. /\ job'.status = "completed" /\ job'.total = job.total /\ job'.counts = job.counts
        /\ job'.processed = job.processed /\ job'.outputs = Segment
    BY <1>1, <1>7, <2>1 DEF Assemble, JobRow
  <2>3. FileCounted'
    BY <1>1, <1>7, <2>2 DEF Assemble, Staged, FileCounted, Firsts
  <2>4. ThreeFiles'
    BY <1>7 DEF Assemble, ThreeFiles, Removed
  <2>5. Staged'
    BY <1>1, <1>7, <2>2, <2>3, <2>4 DEF Assemble, Staged, StatusAt
  <2> QED BY <1>7, <2>2, <2>5, BookAside DEF Assemble
<1>8. ASSUME UNCHANGED <<file, pc, quote, verdicts, job, table, output>> PROVE BookInv'
  <2>1. Staged'
    BY <1>1, <1>8 DEF Staged, FileCounted, ThreeFiles, Removed, Firsts
  <2> QED BY <1>8, <2>1, BookAside
<1>9. ASSUME NEW d \in Domain, Resolve(d) \/ Expire(d) \/ OtherRequest(d) PROVE BookInv'
  BY <1>8, <1>9 DEF Resolve, Expire, OtherRequest
<1>10. ASSUME NEW k \in DOMAIN chunk, Verify(k) PROVE BookInv'
  BY <1>10, BookVerify
<1>11. CASE UNCHANGED vars
  BY <1>8, <1>11 DEF vars
<1> QED BY <1>2, <1>3, <1>4, <1>5, <1>6, <1>7, <1>9, <1>10, <1>11 DEF Next

\* The three invariants hold in every run.
LEMMA BookInvariant == Spec => [](IInv /\ RunInv /\ BookInv)
<1>1. Init => IInv /\ RunInv /\ BookInv
  BY InitInv, InitRun, InitBooks
<1>2. (IInv /\ RunInv /\ BookInv) /\ [Next]_vars => (IInv /\ RunInv /\ BookInv)'
  BY StepInv, StepRun, StepBooks
<1> QED BY <1>1, <1>2, PTL DEF Spec

-----------------------------------------------------------------------------
(* What the books say on the screens.                                      *)
Under(v) == {k \in DOMAIN verdicts : Primary(verdicts[k].status) = v}

\* A verdict gathers the tallies of its statuses.
LEMMA VerdictGathers ==
  ASSUME NEW counts, \A s \in Status : counts[s] \in Int
  PROVE  LET totals == CountsToVerdicts(counts)
         IN  /\ DOMAIN totals = PrimaryVerdict
             /\ totals["deliverable"] = counts["valid"] /\ totals["risky"] = counts["risky"]
             /\ totals["unknown"] = counts["unknown"]
             /\ totals["undeliverable"] = counts["invalid"] + counts["disposable"]
<1> DEFINE totals == CountsToVerdicts(counts)
           of(v) == {s \in Status : Primary(s) = v}
<1>1. /\ "deliverable" \in PrimaryVerdict /\ "risky" \in PrimaryVerdict
      /\ "unknown" \in PrimaryVerdict /\ "undeliverable" \in PrimaryVerdict
  BY DEF PrimaryVerdict
<1>2. ASSUME NEW v \in PrimaryVerdict PROVE totals[v] = SumOver(counts, of(v))
  BY DEF CountsToVerdicts, SumOver, MapThenSumSet, MapThenFoldSet
<1>3. DOMAIN totals = PrimaryVerdict
  BY DEF CountsToVerdicts
<1>4. /\ of("deliverable") = {"valid"} /\ of("risky") = {"risky"} /\ of("unknown") = {"unknown"}
      /\ of("undeliverable") = {"invalid", "disposable"}
  BY DEF Status, Primary
<1>5. /\ counts["valid"] \in Int /\ counts["risky"] \in Int /\ counts["unknown"] \in Int
      /\ counts["invalid"] \in Int /\ counts["disposable"] \in Int
  BY DEF Status
<1>6. /\ SumOver(counts, {"valid"}) = counts["valid"]
      /\ SumOver(counts, {"risky"}) = counts["risky"]
      /\ SumOver(counts, {"unknown"}) = counts["unknown"]
  BY <1>5, SumOfOne
<1>7. SumOver(counts, {"invalid", "disposable"}) = counts["invalid"] + counts["disposable"]
  BY <1>5, SumOfTwo
<1> HIDE DEF totals, of
<1> QED BY <1>1, <1>2, <1>3, <1>4, <1>6, <1>7 DEF totals

\* The cards count the verdicts.
LEMMA CardsCount ==
  ASSUME IInv, RunInv, BookInv
  PROVE  \A v \in PrimaryVerdict : CountsToVerdicts(job.counts)[v] = Cardinality(Under(v))
<1>1. \A k \in DOMAIN verdicts : verdicts[k].status \in Status
  BY DEF RunInv, Told, Verdict
<1>2. \A s \in Status : IsFiniteSet(Of(s)) /\ Cardinality(Of(s)) \in Nat
  BY VerdictsOfKeys, FS_Subset, FS_CardinalityType DEF Of
<1>3. \A s \in Status : job.counts[s] = Cardinality(Of(s))
  BY DEF BookInv, Tallied
<1>4. /\ Under("deliverable") = Of("valid") /\ Under("risky") = Of("risky")
      /\ Under("unknown") = Of("unknown")
  BY <1>1 DEF Under, Of, Status, Primary
<1>5. Under("undeliverable") = Of("invalid") \cup Of("disposable")
      /\ Of("invalid") \cap Of("disposable") = {}
  BY <1>1 DEF Under, Of, Status, Primary
<1>6. "invalid" \in Status /\ "disposable" \in Status
  BY DEF Status
<1>7. Cardinality(Under("undeliverable")) = Cardinality(Of("invalid")) + Cardinality(Of("disposable"))
  <2>1. /\ IsFiniteSet(Of("invalid")) /\ IsFiniteSet(Of("disposable"))
        /\ Cardinality(Of("invalid")) \in Nat /\ Cardinality(Of("disposable")) \in Nat
    BY <1>2, <1>6
  <2>2. Cardinality(Of("invalid") \cup Of("disposable"))
          = Cardinality(Of("invalid")) + Cardinality(Of("disposable")) - Cardinality({})
    BY <1>5, <2>1, FS_Union
  <2> QED BY <1>5, <2>1, <2>2, FS_EmptySet
<1>8. /\ job.counts["valid"] = Cardinality(Of("valid")) /\ job.counts["risky"] = Cardinality(Of("risky"))
      /\ job.counts["unknown"] = Cardinality(Of("unknown"))
      /\ job.counts["invalid"] = Cardinality(Of("invalid"))
      /\ job.counts["disposable"] = Cardinality(Of("disposable"))
  BY <1>3 DEF Status
<1>9. \A s \in Status : job.counts[s] \in Int
  BY <1>2, <1>3
<1> DEFINE totals == CountsToVerdicts(job.counts)
<1>10. /\ totals["deliverable"] = job.counts["valid"] /\ totals["risky"] = job.counts["risky"]
       /\ totals["unknown"] = job.counts["unknown"]
       /\ totals["undeliverable"] = job.counts["invalid"] + job.counts["disposable"]
  BY <1>9, VerdictGathers
<1> HIDE DEF totals
<1>11. \A v \in PrimaryVerdict : totals[v] = Cardinality(Under(v))
  BY <1>4, <1>7, <1>8, <1>10 DEF PrimaryVerdict
<1> QED BY <1>11 DEF totals

\* The legend of a mix bar leaves out only what is nought.
LEMMA LegendSums ==
  ASSUME NEW totals, DOMAIN totals = PrimaryVerdict,
         \A v \in PrimaryVerdict : totals[v] \in Nat
  PROVE  LET opened == MixBar(totals)
         IN  MapThenSumSet(LAMBDA v : opened[v].count, DOMAIN opened) = Whole(totals)
<1> DEFINE opened == MixBar(totals)
           D == DOMAIN opened
           E(h) == h = [s \in SUBSET D |-> IF s = {} THEN 0
                                          ELSE opened[Taken(s)].count + h[s \ {Taken(s)}]]
<1>1. D = {v \in PrimaryVerdict : totals[v] > 0} /\ \A v \in D : opened[v].count = totals[v]
  BY DEF MixBar
<1>2. Numbers(totals, PrimaryVerdict) /\ Numbers(totals, D)
  BY <1>1, VerdictsFinite, FS_Subset DEF Numbers
<1> HIDE DEF D
<1>3. ASSUME NEW h PROVE E(h) <=> Adds(h, D, totals)
  <2>1. \A s \in SUBSET D : s # {} => opened[Taken(s)].count = totals[Taken(s)]
    BY <1>1 DEF Taken
  <2> HIDE DEF opened
  <2>2. [s \in SUBSET D |-> IF s = {} THEN 0 ELSE opened[Taken(s)].count + h[s \ {Taken(s)}]]
          = [s \in SUBSET D |-> IF s = {} THEN 0 ELSE totals[Taken(s)] + h[s \ {Taken(s)}]]
    BY <2>1
  <2> QED BY <2>2 DEF Adds
<1>4. PICK j : Adds(j, D, totals) /\ AnyOrder(j, D, totals) /\ SumOver(totals, D) = j[D]
  BY <1>2, SumIs
<1>5. \E h : E(h)
  BY <1>3, <1>4
<1> HIDE DEF opened
<1>6. \E h : E(h) /\ MapThenSumSet(LAMBDA v : opened[v].count, D) = h[D]
  BY <1>5 DEF MapThenSumSet, MapThenFoldSet, Taken
<1>7. PICK h : E(h) /\ MapThenSumSet(LAMBDA v : opened[v].count, D) = h[D]
  BY <1>6
<1>8. Adds(h, D, totals)
  BY <1>3, <1>7
<1>9. h[D] = j[D]
  <2>1. D \in SUBSET D /\ D \subseteq D /\ \A x \in D : totals[x] = totals[x]
    OBVIOUS
  <2>2. IsFiniteSet(D) /\ \A x \in D : totals[x] \in Int
    BY <1>2 DEF Numbers
  <2> QED BY <1>4, <1>8, <2>1, <2>2, SumsAgree
<1>10. SumOver(totals, D) = SumOver(totals, PrimaryVerdict)
  BY <1>1, <1>2, SumSkips
<1>11. SumOver(totals, PrimaryVerdict) = Whole(totals)
  BY SumOfVerdicts
<1> QED BY <1>4, <1>7, <1>9, <1>10, <1>11 DEF D, opened

\* Where the wizard is over, the books are closed on every row of the file.
LEMMA RowsAreSplit ==
  ASSUME IInv, RunInv, BookInv, pc = "done"
  PROVE  /\ output.valid \cup output.removed = output.cleaned
         /\ output.valid \cap output.removed = {}
         /\ \A i, j \in output.valid : Key(file[i]) = Key(file[j]) => i = j
         /\ Cardinality(output.cleaned) = job.counts.total_rows
         /\ Cardinality(output.removed)
               = job.counts.duplicates + Cardinality(Under("undeliverable"))
         /\ Cardinality(output.valid) + Cardinality(Under("undeliverable"))
               = job.counts.unique_emails
<1>1. file \in Seq(Cell) /\ ThreeFiles /\ DOMAIN verdicts = Keys(file) /\ FileCounted
  BY DEF IInv, Given, BookInv, Staged
<1>2. DOMAIN file = 1..Len(file) /\ Len(file) \in Nat
  BY <1>1
<1> DEFINE word(i) == verdicts[Key(file[i])].status
           gone == {i \in Firsts : word(i) \in {"invalid", "disposable"}}
           doubles == DOMAIN file \ Firsts
<1>3. \A i \in DOMAIN file : Key(file[i]) \in DOMAIN verdicts /\ word(i) \in Status
  <2>1. \A i \in DOMAIN file : Key(file[i]) \in DOMAIN verdicts
    BY <1>1 DEF Keys
  <2>2. \A k \in DOMAIN verdicts : verdicts[k].status \in Status
    BY DEF RunInv, Told, Verdict
  <2> QED BY <2>1, <2>2
<1>4. /\ output.valid = Firsts \ gone /\ output.removed = doubles \cup gone
      /\ output.cleaned = DOMAIN file /\ Firsts \subseteq DOMAIN file
  BY <1>1 DEF ThreeFiles, Removed, Firsts
<1>6. /\ IsFiniteSet(gone) /\ Cardinality(Under("undeliverable")) = Cardinality(gone)
  <2>1. \A i \in gone : Key(file[i]) \in Under("undeliverable")
    BY <1>3, <1>4 DEF Under, Primary
  <2>2. \A k \in Under("undeliverable") : \E i \in gone : Key(file[i]) = k
    <3>1. \A k \in DOMAIN verdicts : verdicts[k].status \in Status
      BY DEF RunInv, Told, Verdict
    <3>2. \A k \in Under("undeliverable") : verdicts[k].status \in {"invalid", "disposable"}
      BY <3>1 DEF Under, Primary, Status
    <3>3. \A k \in DOMAIN verdicts : \E i \in Firsts : Key(file[i]) = k
      BY <1>1, FirstsStand
    <3> QED BY <3>2, <3>3 DEF Under
  <2>3. gone \in SUBSET Firsts
    OBVIOUS
  <2> HIDE DEF gone
  <2> QED BY <1>1, <2>1, <2>2, <2>3, KeysAsMany
<1>7. Cardinality(output.valid) + Cardinality(Under("undeliverable")) = job.counts.unique_emails
  <2>1. Firsts \cap gone = gone
    OBVIOUS
  <2>2. IsFiniteSet(Firsts) /\ Cardinality(Firsts) \in Nat /\ Cardinality(gone) \in Nat
    <3>1. IsFiniteSet(DOMAIN file)
      BY <1>2, FS_Interval
    <3> QED BY <1>4, <1>6, <3>1, FS_Subset, FS_CardinalityType
  <2> HIDE DEF gone
  <2>3. Cardinality(Firsts \ gone) = Cardinality(Firsts) - Cardinality(gone)
    BY <2>1, <2>2, FS_Difference
  <2>4. job.counts.unique_emails = Cardinality(Firsts)
    BY <1>1 DEF FileCounted
  <2> QED BY <1>4, <1>6, <2>2, <2>3, <2>4
<1>8. IsFiniteSet(DOMAIN file) /\ Cardinality(DOMAIN file) = Len(file)
  <2> DEFINE n == Len(file)
  <2>1. n \in Nat
    BY <1>2
  <2> HIDE DEF n
  <2>2. IsFiniteSet(1..n) /\ Cardinality(1..n) = IF 1 > n THEN 0 ELSE n - 1 + 1
    BY <2>1, FS_Interval
  <2>3. IsFiniteSet(1..n) /\ Cardinality(1..n) = n
    BY <2>1, <2>2
  <2> QED BY <1>2, <2>3 DEF n
<1>9. IsFiniteSet(doubles) /\ Cardinality(doubles) = Len(file) - Cardinality(Firsts)
  <2>1. DOMAIN file \cap Firsts = Firsts
    BY <1>4
  <2> DEFINE R == DOMAIN file
             n == Len(file)
  <2>2. IsFiniteSet(R) /\ Cardinality(R) = n /\ R \cap Firsts = Firsts
    BY <1>8, <2>1
  <2> HIDE DEF R, n
  <2>3. IsFiniteSet(R \ Firsts) /\ Cardinality(R \ Firsts) = n - Cardinality(Firsts)
    BY <2>2, FS_Difference
  <2> QED BY <2>3 DEF R, n
<1>10. Cardinality(doubles \cup gone) = Cardinality(doubles) + Cardinality(gone)
  <2>1. doubles \cap gone = {}
    OBVIOUS
  <2> HIDE DEF doubles, gone
  <2>2. /\ Cardinality(doubles \cup gone) = Cardinality(doubles) + Cardinality(gone) - Cardinality({})
        /\ Cardinality(doubles) \in Nat /\ Cardinality(gone) \in Nat
    BY <1>6, <1>9, <2>1, FS_Union, FS_CardinalityType
  <2> QED BY <2>2, FS_EmptySet
<1>11. \A i, j \in output.valid : Key(file[i]) = Key(file[j]) => i = j
  BY <1>1, <1>4, FirstsApart
<1>12. output.valid \cup output.removed = output.cleaned /\ output.valid \cap output.removed = {}
  BY <1>4
<1>13. Cardinality(output.cleaned) = job.counts.total_rows
  BY <1>1, <1>4, <1>8 DEF FileCounted
<1>14. Cardinality(output.removed) = job.counts.duplicates + Cardinality(Under("undeliverable"))
  BY <1>1, <1>4, <1>6, <1>9, <1>10 DEF FileCounted
<1> QED BY <1>7, <1>11, <1>12, <1>13, <1>14

\* The read-model gains the keys that are no blank, as many as were quoted.
LEMMA TableGains ==
  ASSUME IInv, RunInv, BookInv, pc = "done"
  PROVE  /\ quote.unique = Cardinality({e \in DOMAIN table : table[e].job = "this"})
         /\ quote.total = job.counts.total_rows
         /\ job.total = job.processed /\ job.counts.unique_emails = job.processed
<1> DEFINE K == Keys(file) \ {Blank}
           B == {e \in DOMAIN table : table[e].job = "this"}
           f == [k \in K |-> CellOf(k)]
<1>1. /\ file \in Seq(Cell) /\ DOMAIN verdicts = Keys(file) /\ FileCounted
      /\ quote = PreviewStats(file)
      /\ job.processed = Cardinality(DOMAIN verdicts)
  BY DEF IInv, Given, BookInv, Staged, Tallied
<1>2. IsFiniteSet(Keys(file)) /\ Cardinality(Keys(file)) = Cardinality(Firsts)
  BY <1>1, UniqueAreKeys
<1>3. IsFiniteSet(K)
  BY <1>2, FS_Subset
<1>4. \A k \in Keys(file) : verdicts[k].cell = CellOf(k) /\ Key(CellOf(k)) = k
  BY <1>1, KeyOfCell DEF RunInv, Told
<1>5. ASSUME NEW k \in K PROVE CellOf(k) \in B
  <2>1. Recorded(k)
    BY <1>1 DEF RunInv
  <2>2. Row(k).job = "this"
    BY DEF Row, FromVerdict
  <2> QED BY <1>4, <2>1, <2>2 DEF Recorded
<1>6. ASSUME NEW e \in B PROVE \E k \in K : e = CellOf(k)
  BY <1>1 DEF BookInv, Gained
<1>7. f \in Surjection(K, B) /\ \A x, y \in K : f[x] = f[y] => x = y
  BY <1>4, <1>5, <1>6 DEF Surjection
<1> HIDE DEF f, B, K
<1>8. Cardinality(B) = Cardinality(K)
  BY <1>3, <1>7, AsMany
<1>9. /\ PreviewStats(file).total = Len(file)
      /\ PreviewStats(file).unique = Cardinality(K)
  BY DEF PreviewStats, K
<1>10. quote.total = job.counts.total_rows /\ job.counts.unique_emails = job.processed
       /\ job.total = job.processed /\ quote.unique = Cardinality(K)
  BY <1>1, <1>2, <1>9 DEF FileCounted
<1> QED BY <1>8, <1>10 DEF B

\* The tally, the progress, the cards and the sidebar of a run.
LEMMA BooksOpen ==
  ASSUME IInv, RunInv, BookInv
  PROVE  /\ MapThenSumSet(LAMBDA s : job.counts[s], Status) = Cardinality(DOMAIN verdicts)
         /\ job.processed = Cardinality(DOMAIN verdicts)
         /\ \A s \in Status : job.counts[s] = Cardinality(Of(s))
         /\ \A v \in PrimaryVerdict : ValidateScreen(job).cards[v].count = Cardinality(Under(v))
         /\ job.status # "none" =>
               (Shell(settings, {job}).active = 1) = (ValidateScreen(job).screen = "running")
<1>1. /\ job.processed = Cardinality(DOMAIN verdicts) /\ job.processed = Counted(job.counts)
      /\ \A s \in Status : job.counts[s] = Cardinality(Of(s))
  BY DEF BookInv, Tallied
<1>2. \A s \in Status : job.counts[s] \in Int
  BY DEF RunInv, Frame, JobRow, Tallies, Status
<1>3. SumOver(job.counts, Status) = Cardinality(DOMAIN verdicts)
  BY <1>1, <1>2, SumOfStatuses
<1>4. MapThenSumSet(LAMBDA s : job.counts[s], Status) = Cardinality(DOMAIN verdicts)
  BY <1>3 DEF SumOver
<1>5. \A v \in PrimaryVerdict :
         ValidateScreen(job).cards[v].count = CountsToVerdicts(job.counts)[v]
  BY DEF ValidateScreen
<1>6. \A v \in PrimaryVerdict : ValidateScreen(job).cards[v].count = Cardinality(Under(v))
  BY <1>5, CardsCount
<1>7. ASSUME job.status # "none"
      PROVE  (Shell(settings, {job}).active = 1) = (ValidateScreen(job).screen = "running")
  <2> DEFINE A == {j \in {job} : j.status \in {"pending", "processing"}}
             n == Cardinality(A)
  <2>1. job.status \in {"pending", "processing", "completed"}
    BY <1>7 DEF RunInv, Frame, JobRow
  <2>2. Shell(settings, {job}).active = IF n = 0 THEN None ELSE n
    BY DEF Shell
  <2>3. (ValidateScreen(job).screen = "running") <=> job.status \in {"pending", "processing"}
    BY <2>1 DEF ValidateScreen
  <2>4. CASE job.status \in {"pending", "processing"}
    <3>1. A = {job}
      BY <2>4
    <3>2. n = 1
      BY <3>1, FS_Singleton
    <3> HIDE DEF n, A
    <3>3. Shell(settings, {job}).active = 1
      BY <2>2, <3>2
    <3> QED BY <2>3, <2>4, <3>3
  <2>5. CASE job.status \notin {"pending", "processing"}
    <3>1. A = {}
      BY <2>5
    <3>2. n = 0
      BY <3>1, FS_EmptySet
    <3> HIDE DEF n, A
    <3>3. Shell(settings, {job}).active # 1
      BY <2>2, <3>2, NoneAssumption
    <3> QED BY <2>3, <2>5, <3>3
  <2> QED BY <2>4, <2>5
<1> QED BY <1>1, <1>4, <1>6, <1>7

\* What a finished run announces, and the legend when it is opened.
LEMMA BooksClosed ==
  ASSUME IInv, RunInv, BookInv, pc = "done"
  PROVE  LET announced == ValidateScreen(job).downloads
             opened == HistoryRow(job).mix
         IN  /\ MapThenSumSet(LAMBDA v : opened[v].count, DOMAIN opened)
                   = job.counts.unique_emails
             /\ announced["cleaned"] = job.counts.total_rows
             /\ announced["removed"]
                   = job.counts.duplicates + Cardinality(Under("undeliverable"))
<1> DEFINE totals == CountsToVerdicts(job.counts)
<1>1. /\ job.status = "completed" /\ job.outputs = Segment
      /\ job.processed = Counted(job.counts)
      /\ \A s \in Status : job.counts[s] = Cardinality(Of(s))
  BY DEF BookInv, Staged, Tallied, StatusAt
<1>2. \A s \in Status : job.counts[s] \in Nat
  <2>1. \A s \in Status : IsFiniteSet(Of(s))
    BY VerdictsOfKeys, FS_Subset DEF Of
  <2> QED BY <1>1, <2>1, FS_CardinalityType
<1>3. /\ DOMAIN totals = PrimaryVerdict
      /\ totals["deliverable"] = job.counts["valid"] /\ totals["risky"] = job.counts["risky"]
      /\ totals["unknown"] = job.counts["unknown"]
      /\ totals["undeliverable"] = job.counts["invalid"] + job.counts["disposable"]
  <2>1. \A s \in Status : job.counts[s] \in Int
    BY <1>2
  <2> QED BY <2>1, VerdictGathers
<1>4. \A v \in PrimaryVerdict : totals[v] = Cardinality(Under(v))
  BY CardsCount
<1>5. /\ job.counts["valid"] \in Nat /\ job.counts["risky"] \in Nat
      /\ job.counts["unknown"] \in Nat
      /\ job.counts["invalid"] \in Nat /\ job.counts["disposable"] \in Nat
  BY <1>2 DEF Status
<1>6. HistoryRow(job).mix = MixBar(totals)
  BY DEF HistoryRow
<1>7. ValidateScreen(job).downloads = Downloads(job)
  BY <1>1 DEF ValidateScreen
<1>8. LET rows == [cleaned |-> job.counts.total_rows, valid |-> totals["deliverable"],
                   removed |-> job.counts.duplicates + totals["undeliverable"]]
      IN  Downloads(job) = [segment \in DOMAIN rows \cap job.outputs |-> rows[segment]]
  BY DEF Downloads
<1> HIDE DEF totals
<1>9. /\ Downloads(job)["cleaned"] = job.counts.total_rows
      /\ Downloads(job)["removed"] = job.counts.duplicates + totals["undeliverable"]
  BY <1>1, <1>8 DEF Segment
<1>10. totals["undeliverable"] = Cardinality(Under("undeliverable"))
  BY <1>4 DEF PrimaryVerdict
<1>11. \A v \in PrimaryVerdict : totals[v] \in Nat
  BY <1>3, <1>5 DEF PrimaryVerdict
<1>12. Whole(totals) = job.counts.unique_emails
  <2>1. Whole(totals) = Counted(job.counts)
    BY <1>3, <1>5 DEF Whole, Counted
  <2>2. job.counts.unique_emails = job.processed
    BY TableGains
  <2> QED BY <1>1, <2>1, <2>2
<1> DEFINE opened == MixBar(totals)
<1>13. MapThenSumSet(LAMBDA v : opened[v].count, DOMAIN opened) = Whole(totals)
  BY <1>3, <1>11, LegendSums
<1> QED BY <1>6, <1>7, <1>9, <1>10, <1>12, <1>13

(***************************************************************************)
(* Safety: whatever the file, the lookups and the probes, the tally, the   *)
(* progress and the cards count the verdicts there are; and once the run   *)
(* is over, the three files hold every row where they should, the screen   *)
(* announces the rows of the cleaned and the removed one, the valid one    *)
(* has a row for each key not called undeliverable, and the read-model     *)
(* gained as many addresses as the preview counted (BooksBalance, with     *)
(* what it leaves out).                                                    *)
(***************************************************************************)
THEOREM BooksBalanced == Spec => []BooksBalance
<1>1. IInv /\ RunInv /\ BookInv => BooksBalance
  <2> SUFFICES ASSUME IInv, RunInv, BookInv PROVE BooksBalance
    OBVIOUS
  <2> DEFINE counts == job.counts
             screen == ValidateScreen(job)
             opened == HistoryRow(job).mix
             tally == MapThenSumSet(LAMBDA s : counts[s], Status)
  <2>1. tally = Cardinality(DOMAIN verdicts) /\ job.processed = tally
    BY BooksOpen
  <2>2. \A s \in Status : counts[s] = Cardinality({k \in DOMAIN verdicts : verdicts[k].status = s})
    BY BooksOpen DEF Of
  <2>3. \A v \in PrimaryVerdict :
           screen.cards[v].count
              = Cardinality({k \in DOMAIN verdicts : Primary(verdicts[k].status) = v})
    BY BooksOpen DEF Under
  <2>4. job.status # "none" =>
           (Shell(settings, {job}).active = 1) = (screen.screen = "running")
    BY BooksOpen
  <2>5. ASSUME pc = "done"
        PROVE  /\ output.valid \cup output.removed = output.cleaned
               /\ output.valid \cap output.removed = {}
               /\ \A i, j \in output.valid : Key(file[i]) = Key(file[j]) => i = j
               /\ job.total = job.processed /\ counts.unique_emails = job.processed
               /\ screen.downloads["cleaned"] = Cardinality(output.cleaned)
               /\ screen.downloads["removed"] = Cardinality(output.removed)
               /\ Cardinality(output.valid) + screen.cards["undeliverable"].count
                     = counts.unique_emails
               /\ quote.total = counts.total_rows
               /\ quote.unique = Cardinality({e \in DOMAIN table : table[e].job = "this"})
    <3>1. screen.cards["undeliverable"].count = Cardinality(Under("undeliverable"))
      BY BooksOpen DEF PrimaryVerdict
    <3> HIDE DEF screen
    <3>2. Cardinality(output.valid) + screen.cards["undeliverable"].count = counts.unique_emails
      BY <2>5, <3>1, RowsAreSplit
    <3>3. /\ screen.downloads["cleaned"] = Cardinality(output.cleaned)
          /\ screen.downloads["removed"] = Cardinality(output.removed)
      BY <2>5, RowsAreSplit, BooksClosed DEF screen
    <3> QED BY <2>5, <3>2, <3>3, RowsAreSplit, TableGains
  <2>6. ASSUME pc = "done"
        PROVE  MapThenSumSet(LAMBDA v : opened[v].count, DOMAIN opened) = counts.unique_emails
    BY <2>6, BooksClosed
  <2> QED BY <2>1, <2>2, <2>3, <2>4, <2>5, <2>6 DEF BooksBalance
<1> QED BY <1>1, BookInvariant, PTL

-----------------------------------------------------------------------------
(* Sums over groups.                                                       *)

\* Whatever sums the numbers of a set as the fold does, sums them.
LEMMA SumBy ==
  ASSUME NEW S, NEW f, Numbers(f, S), NEW h, Adds(h, S, f)
  PROVE  h[S] = SumOver(f, S) /\ h[S] \in Int
<1>1. PICK j : Adds(j, S, f) /\ SumOver(f, S) = j[S]
  BY SumIs
<1>2. IsFiniteSet(S) /\ \A x \in S : f[x] \in Int
  BY DEF Numbers
<1>3. S \in SUBSET S /\ S \subseteq S /\ \A x \in S : f[x] = f[x]
  OBVIOUS
<1>4. Adds(h, S, f) /\ Adds(j, S, f)
  BY <1>1
<1>5. \A s \in SUBSET S : h[s] = j[s] /\ h[s] \in Int
  BY <1>2, <1>3, <1>4, SumsAgree
<1> QED BY <1>1, <1>3, <1>5

\* f gives the sizes of the groups g sorts E into, and what falls into those of X.
CountsGroups(f, X, g, E) == \A x \in X : f[x] = Cardinality({e \in E : g[e] = x})
Falling(X, g, E) == {e \in E : g[e] \in X}

\* A sum of the sizes of groups is the size of the groups together.
LEMMA GroupsAddUp ==
  ASSUME NEW E, IsFiniteSet(E), NEW g, NEW X, IsFiniteSet(X), NEW f,
         CountsGroups(f, X, g, E)
  PROVE  Numbers(f, X) /\ SumOver(f, X) = Cardinality(Falling(X, g, E))
<1> DEFINE with(x) == {e \in E : g[e] = x}
           within(s) == Falling(s, g, E)
<1>1. /\ \A x : IsFiniteSet(with(x)) /\ Cardinality(with(x)) \in Nat
      /\ \A s : IsFiniteSet(within(s)) /\ Cardinality(within(s)) \in Nat
  <2>1. \A D \in SUBSET E : IsFiniteSet(D) /\ Cardinality(D) \in Nat
    BY FS_Subset, FS_CardinalityType
  <2> QED BY <2>1 DEF Falling
<1>2. \A x \in X : f[x] = Cardinality(with(x))
  BY DEF CountsGroups
<1>3. Numbers(f, X)
  <2> HIDE DEF with
  <2>1. \A x \in X : f[x] \in Int
    BY <1>1, <1>2
  <2> QED BY <2>1 DEF Numbers
<1>4. PICK h : AnyOrder(h, X, f) /\ SumOver(f, X) = h[X]
  BY <1>3, SumIs
<1> DEFINE Wrong == {s \in SUBSET X : h[s] # Cardinality(within(s))}
<1>5. CASE Wrong # {}
  <2>1. PICK m \in Wrong : \A s \in SUBSET m : s # m => s \notin Wrong
    <3>1. Wrong \in SUBSET (SUBSET X)
      OBVIOUS
    <3> HIDE DEF Wrong
    <3> QED BY <1>5, <3>1, LeastSubset
  <2>2. m \in SUBSET X /\ h[m] # Cardinality(within(m))
    OBVIOUS
  <2>3. m # {}
    <3>1. h[{}] = 0 /\ within({}) = {}
      BY <1>4 DEF AnyOrder, Falling
    <3>2. Cardinality(within({})) = 0
      BY <3>1, FS_EmptySet
    <3> QED BY <2>2, <3>1, <3>2
  <2>4. PICK x \in m : TRUE
    BY <2>3
  <2> DEFINE r == m \ {x}
  <2>5. r \in SUBSET X /\ r \in SUBSET m /\ r # m /\ x \in X
    BY <2>2
  <2>6. h[m] = f[x] + h[r]
    BY <1>4, <2>2 DEF AnyOrder
  <2>7. h[r] = Cardinality(within(r))
    BY <2>1, <2>5
  <2>8. within(m) = with(x) \cup within(r) /\ with(x) \cap within(r) = {}
    BY DEF Falling
  <2> HIDE DEF with, within, Wrong, r
  <2>9. Cardinality(with(x) \cup within(r))
          = Cardinality(with(x)) + Cardinality(within(r)) - Cardinality({})
    BY <1>1, <2>8, FS_Union
  <2>10. Cardinality({}) = 0
    BY FS_EmptySet
  <2> QED BY <1>1, <1>2, <2>2, <2>5, <2>6, <2>7, <2>8, <2>9, <2>10
<1>6. CASE Wrong = {}
  <2>1. X \in SUBSET X
    OBVIOUS
  <2> HIDE DEF within
  <2>2. h[X] = Cardinality(within(X))
    BY <1>6, <2>1
  <2> QED BY <1>3, <1>4, <2>2 DEF within
<1> QED BY <1>5, <1>6

\* Groups that take all there is.
LEMMA GroupsAre ==
  ASSUME NEW E, IsFiniteSet(E), NEW g, NEW X, IsFiniteSet(X), NEW f,
         CountsGroups(f, X, g, E), \A e \in E : g[e] \in X
  PROVE  Numbers(f, X) /\ SumOver(f, X) = Cardinality(E)
<1>1. Falling(X, g, E) = E
  BY DEF Falling
<1> QED BY <1>1, GroupsAddUp

\* The rows of a group with a verdict: those of the statuses it gathers.
Having(T, group, v) == {e \in group : Primary(T[e].status) = v}

\* A mix has, for each verdict, as many as the group has rows with it.
LEMMA MixCounts ==
  ASSUME NEW T, NEW group, IsFiniteSet(group), \A e \in group : T[e].status \in Status
  PROVE  /\ DOMAIN Mix(T, group) = PrimaryVerdict
         /\ \A v \in PrimaryVerdict : Mix(T, group)[v] = Cardinality(Having(T, group, v))
<1>1. DOMAIN Mix(T, group) = PrimaryVerdict
  BY DEF Mix
<1>2. ASSUME NEW v \in PrimaryVerdict
      PROVE  Mix(T, group)[v] = Cardinality(Having(T, group, v))
  <2> DEFINE D == {s \in Status : Primary(s) = v}
             size(s) == Cardinality({e \in group : T[e].status = s})
             f == [s \in D |-> size(s)]
             g == [e \in group |-> T[e].status]
             E(h) == h = [s \in SUBSET D |-> IF s = {} THEN 0
                                            ELSE size(Taken(s)) + h[s \ {Taken(s)}]]
  <2>1. Mix(T, group)[v] = MapThenSumSet(size, D)
    BY DEF Mix
  <2>2. IsFiniteSet(D)
    BY StatusFinite, FS_Subset
  <2>3. CountsGroups(f, D, g, group)
    <3>1. \A s \in D : {e \in group : g[e] = s} = {e \in group : T[e].status = s}
      OBVIOUS
    <3> QED BY <3>1 DEF CountsGroups
  <2>4. Falling(D, g, group) = Having(T, group, v)
    BY DEF Having, Falling
  <2>5. \A s \in D : f[s] = size(s)
    OBVIOUS
  <2> HIDE DEF D, f, g, size
  <2>6. Numbers(f, D) /\ SumOver(f, D) = Cardinality(Having(T, group, v))
    BY <2>2, <2>3, <2>4, GroupsAddUp
  <2>7. ASSUME NEW h PROVE E(h) <=> Adds(h, D, f)
    <3>1. \A s \in SUBSET D : s # {} => size(Taken(s)) = f[Taken(s)]
      BY <2>5 DEF Taken
    <3>2. [s \in SUBSET D |-> IF s = {} THEN 0 ELSE size(Taken(s)) + h[s \ {Taken(s)}]]
            = [s \in SUBSET D |-> IF s = {} THEN 0 ELSE f[Taken(s)] + h[s \ {Taken(s)}]]
      BY <3>1
    <3> QED BY <3>2 DEF Adds
  <2>8. \E h : E(h)
    BY <2>6, <2>7, SumIs
  <2>9. PICK h : E(h) /\ MapThenSumSet(size, D) = h[D]
    BY <2>8 DEF MapThenSumSet, MapThenFoldSet, Taken
  <2> QED BY <2>1, <2>6, <2>7, <2>9, SumBy
<1> QED BY <1>1, <1>2

\* A mix counts each row of its group once.
LEMMA MixIsWhole ==
  ASSUME NEW T, NEW group, IsFiniteSet(group), \A e \in group : T[e].status \in Status
  PROVE  SumOf(Mix(T, group)) = Cardinality(group)
<1> DEFINE mix == Mix(T, group)
           g == [e \in group |-> Primary(T[e].status)]
<1>1. SumOf(mix) = SumOver(mix, DOMAIN mix)
  BY DEF SumOf, SumOver, MapThenSumSet, MapThenFoldSet
<1>2. DOMAIN mix = PrimaryVerdict
      /\ \A v \in PrimaryVerdict : mix[v] = Cardinality(Having(T, group, v))
  BY MixCounts
<1>3. \A e \in group : g[e] \in PrimaryVerdict
  BY DEF Primary, Status, PrimaryVerdict
<1>4. \A v \in PrimaryVerdict : {e \in group : g[e] = v} = Having(T, group, v)
  BY DEF Having
<1> HIDE DEF mix, g
<1>5. CountsGroups(mix, PrimaryVerdict, g, group)
  BY <1>2, <1>4 DEF CountsGroups
<1>6. SumOver(mix, PrimaryVerdict) = Cardinality(group)
  BY <1>3, <1>5, VerdictsFinite, GroupsAre
<1> QED BY <1>1, <1>2, <1>6 DEF mix

-----------------------------------------------------------------------------
(* What the rollups count.                                                 *)
\* The rows of any part of a table are finite, and have a status each.
LEMMA TableGroups ==
  ASSUME NEW T, Filed(T), NEW group \in SUBSET DOMAIN T
  PROVE  /\ IsFiniteSet(group) /\ Cardinality(group) \in Nat
         /\ \A e \in group : T[e].status \in Status
<1>1. IsFiniteSet(group)
  BY FS_Subset DEF Filed
<1>2. \A e \in group : T[e].status \in Status
  BY DEF Filed, Fileable, AddressRecord
<1> QED BY <1>1, <1>2, FS_CardinalityType

\* The rows under a tab.
Listed(T, tab) == {e \in DOMAIN T : tab = AllLists \/ T[e].listType = tab}

\* The totals under a tab count the rows under it, by verdict and together.
LEMMA TotalsCount ==
  ASSUME NEW T, Filed(T), NEW tab
  PROVE  /\ DOMAIN Totals(T, tab) = PrimaryVerdict
         /\ \A v \in PrimaryVerdict : Totals(T, tab)[v] = Cardinality(Having(T, Listed(T, tab), v))
         /\ SumOf(Totals(T, tab)) = Cardinality(Listed(T, tab))
<1>1. Totals(T, tab) = Mix(T, Listed(T, tab))
  BY DEF Totals, Listed
<1>2. Listed(T, tab) \in SUBSET DOMAIN T
  BY DEF Listed
<1>3. IsFiniteSet(Listed(T, tab)) /\ \A e \in Listed(T, tab) : T[e].status \in Status
  BY <1>2, TableGroups
<1> QED BY <1>1, <1>3, MixCounts, MixIsWhole

\* Without a tab all rows are listed; under one, those of its list.
LEMMA AllAreListed ==
  ASSUME NEW T
  PROVE  /\ Listed(T, AllLists) = DOMAIN T
         /\ \A l \in ListType : Listed(T, l) = {e \in DOMAIN T : T[e].listType = l}
BY ListAssumption DEF Listed

\* The rows of a day.
On(T, day) == {e \in DOMAIN T : T[e].day = day}

\* The series by day has the days there are rows of, and counts the rows of each.
LEMMA DaysCount ==
  ASSUME NEW T, Filed(T)
  PROVE  /\ DOMAIN ByDay(T) = {T[e].day : e \in DOMAIN T}
         /\ IsFiniteSet(DOMAIN ByDay(T)) /\ DOMAIN ByDay(T) \subseteq Int
         /\ \A day \in DOMAIN ByDay(T) :
               /\ DOMAIN ByDay(T)[day] = PrimaryVerdict
               /\ \A v \in PrimaryVerdict : ByDay(T)[day][v] = Cardinality(Having(T, On(T, day), v))
               /\ SumOf(ByDay(T)[day]) = Cardinality(On(T, day))
<1> DEFINE days == {T[e].day : e \in DOMAIN T}
           dayOf == [e \in DOMAIN T |-> T[e].day]
<1>1. DOMAIN ByDay(T) = days /\ \A day \in days : ByDay(T)[day] = Mix(T, On(T, day))
  BY DEF ByDay, On
<1>2. IsFiniteSet(days)
  <2>1. {dayOf[e] : e \in DOMAIN T} = days /\ DOMAIN dayOf = DOMAIN T
        /\ dayOf = [e \in DOMAIN T |-> dayOf[e]]
    OBVIOUS
  <2> HIDE DEF dayOf, days
  <2> QED BY <2>1, ImageFinite DEF Filed
<1>3. days \subseteq Int
  BY DEF Filed, Fileable, AddressRecord
<1>4. ASSUME NEW day \in days
      PROVE  /\ DOMAIN ByDay(T)[day] = PrimaryVerdict
             /\ \A v \in PrimaryVerdict : ByDay(T)[day][v] = Cardinality(Having(T, On(T, day), v))
             /\ SumOf(ByDay(T)[day]) = Cardinality(On(T, day))
  <2>1. On(T, day) \in SUBSET DOMAIN T
    BY DEF On
  <2>2. IsFiniteSet(On(T, day)) /\ \A e \in On(T, day) : T[e].status \in Status
    BY <2>1, TableGroups
  <2> QED BY <1>1, <2>2, MixCounts, MixIsWhole
<1> QED BY <1>1, <1>2, <1>3, <1>4

\* The days share out the rows.
LEMMA DaysAgree ==
  ASSUME NEW T, Filed(T)
  PROVE  LET api == AnalyticsApi(T, TopLimit)
         IN  MapThenSumSet(LAMBDA d : SumOf(api.byDay[d]), DOMAIN api.byDay)
                = Cardinality(DOMAIN T)
<1> DEFINE byDay == AnalyticsApi(T, TopLimit).byDay
           D == DOMAIN byDay
           f == [day \in D |-> SumOf(byDay[day])]
           g == [e \in DOMAIN T |-> T[e].day]
           E(h) == h = [s \in SUBSET D |-> IF s = {} THEN 0
                                          ELSE SumOf(byDay[Taken(s)]) + h[s \ {Taken(s)}]]
<1>1. /\ D = {T[e].day : e \in DOMAIN T} /\ IsFiniteSet(D)
      /\ \A day \in D : SumOf(byDay[day]) = Cardinality(On(T, day))
  <2>1. byDay = ByDay(T)
    BY DEF AnalyticsApi
  <2> HIDE DEF byDay
  <2> QED BY <2>1, DaysCount
<1>2. CountsGroups(f, D, g, DOMAIN T)
  <2>1. \A day \in D : {e \in DOMAIN T : g[e] = day} = On(T, day)
    BY DEF On
  <2>2. \A day \in D : f[day] = Cardinality(On(T, day))
    BY <1>1
  <2> QED BY <2>1, <2>2 DEF CountsGroups
<1>3. (\A e \in DOMAIN T : g[e] \in D) /\ \A day \in D : f[day] = SumOf(byDay[day])
  BY <1>1
<1> HIDE DEF f, g, D, byDay
<1>4. Numbers(f, D) /\ SumOver(f, D) = Cardinality(DOMAIN T)
  BY <1>1, <1>2, <1>3, GroupsAre DEF Filed
<1>5. ASSUME NEW h PROVE E(h) <=> Adds(h, D, f)
  <2>1. \A s \in SUBSET D : s # {} => SumOf(byDay[Taken(s)]) = f[Taken(s)]
    BY <1>3 DEF Taken
  <2>2. [s \in SUBSET D |-> IF s = {} THEN 0 ELSE SumOf(byDay[Taken(s)]) + h[s \ {Taken(s)}]]
          = [s \in SUBSET D |-> IF s = {} THEN 0 ELSE f[Taken(s)] + h[s \ {Taken(s)}]]
    BY <2>1
  <2> QED BY <2>2 DEF Adds
<1>6. \E h : E(h)
  BY <1>4, <1>5, SumIs
<1>7. PICK h : E(h) /\ MapThenSumSet(LAMBDA d : SumOf(byDay[d]), D) = h[D]
  BY <1>6 DEF MapThenSumSet, MapThenFoldSet, Taken
<1>8. MapThenSumSet(LAMBDA d : SumOf(byDay[d]), D) = Cardinality(DOMAIN T)
  BY <1>4, <1>5, <1>7, SumBy
<1> QED BY <1>8 DEF D, byDay

\* The tabs share out the rows of each verdict.
LEMMA TabsAgree ==
  ASSUME NEW T, Filed(T), NEW v \in PrimaryVerdict
  PROVE  Totals(T, AllLists)[v] = MapThenSumSet(LAMBDA l : Totals(T, l)[v], ListType)
<1> DEFINE f == [l \in ListType |-> Totals(T, l)[v]]
           g == [e \in DOMAIN T |-> T[e].listType]
           rows == Having(T, DOMAIN T, v)
           E(h) == h = [s \in SUBSET ListType |-> IF s = {} THEN 0
                                       ELSE Totals(T, Taken(s))[v] + h[s \ {Taken(s)}]]
<1>1. Totals(T, AllLists)[v] = Cardinality(rows)
  BY TotalsCount, AllAreListed
<1>2. CountsGroups(f, ListType, g, rows)
  <2>1. ASSUME NEW l \in ListType PROVE f[l] = Cardinality({e \in rows : g[e] = l})
    <3>1. f[l] = Cardinality(Having(T, Listed(T, l), v))
      BY TotalsCount
    <3>2. {e \in rows : g[e] = l} = Having(T, Listed(T, l), v)
      BY AllAreListed DEF Having
    <3> QED BY <3>1, <3>2
  <2> QED BY <2>1 DEF CountsGroups
<1>3. /\ \A e \in rows : g[e] \in ListType
      /\ \A l \in ListType : f[l] = Totals(T, l)[v]
  BY DEF Having, Filed, Fileable, AddressRecord
<1>4. rows \in SUBSET DOMAIN T
  BY DEF Having
<1> HIDE DEF f, g, rows
<1>5. Numbers(f, ListType) /\ SumOver(f, ListType) = Cardinality(rows)
  BY <1>2, <1>3, <1>4, TableGroups, GroupsAre, ListAssumption
<1>6. ASSUME NEW h PROVE E(h) <=> Adds(h, ListType, f)
  <2>1. \A s \in SUBSET ListType : s # {} => Totals(T, Taken(s))[v] = f[Taken(s)]
    BY <1>3 DEF Taken
  <2>2. [s \in SUBSET ListType |-> IF s = {} THEN 0 ELSE Totals(T, Taken(s))[v] + h[s \ {Taken(s)}]]
          = [s \in SUBSET ListType |-> IF s = {} THEN 0 ELSE f[Taken(s)] + h[s \ {Taken(s)}]]
    BY <2>1
  <2> QED BY <2>2 DEF Adds
<1>7. \E h : E(h)
  BY <1>5, <1>6, SumIs
<1>8. PICK h : E(h) /\ MapThenSumSet(LAMBDA l : Totals(T, l)[v], ListType) = h[ListType]
  BY <1>7 DEF MapThenSumSet, MapThenFoldSet, Taken
<1> QED BY <1>1, <1>5, <1>6, <1>8, SumBy

\* The totals, the headline, the days, the layers and the tabs of a table agree.
LEMMA TotalsHold ==
  ASSUME NEW T, Filed(T)
  PROVE  TotalsAgree(T)
<1> DEFINE all == Cardinality(DOMAIN T)
           api == AnalyticsApi(T, TopLimit)
<1>1. /\ api.totals = Totals(T, AllLists) /\ api.byDay = ByDay(T)
      /\ api.settledByLayer = SettledBreakdown(T) /\ api.headline = Headline(T)
  BY DEF AnalyticsApi
<1>2. SumOf(api.totals) = all
  BY <1>1, TotalsCount, AllAreListed
<1>3. api.headline.total = all
  BY <1>1 DEF Headline
<1>4. MapThenSumSet(LAMBDA d : SumOf(api.byDay[d]), DOMAIN api.byDay) = all
  BY DaysAgree
<1>5. ASSUME NEW n \in Layer
      PROVE  api.settledByLayer[n] = Cardinality({e \in DOMAIN T : T[e].settledAt = n})
  <2>1. {e \in DOMAIN T : SettledLayer(T[e].sub, T[e].smtpRan) = n}
          = {e \in DOMAIN T : T[e].settledAt = n}
    BY DEF Filed, Fileable
  <2>2. SettledBreakdown(T)[n] = Cardinality({e \in DOMAIN T : SettledLayer(T[e].sub, T[e].smtpRan) = n})
    BY DEF SettledBreakdown
  <2> QED BY <1>1, <2>1, <2>2
<1>6. ASSUME NEW v \in PrimaryVerdict
      PROVE  api.totals[v] = MapThenSumSet(LAMBDA l : Totals(T, l)[v], ListType)
  BY <1>1, TabsAgree
<1> HIDE DEF api
<1>7. /\ SumOf(api.totals) = all /\ api.headline.total = all
      /\ MapThenSumSet(LAMBDA d : SumOf(api.byDay[d]), DOMAIN api.byDay) = all
      /\ \A n \in Layer :
              api.settledByLayer[n] = Cardinality({e \in DOMAIN T : T[e].settledAt = n})
      /\ \A v \in PrimaryVerdict :
              api.totals[v] = MapThenSumSet(LAMBDA l : Totals(T, l)[v], ListType)
  BY <1>2, <1>3, <1>4, <1>5, <1>6
<1> QED BY <1>7 DEF TotalsAgree, api

-----------------------------------------------------------------------------
(* The busiest domains.                                                    *)
\* The lesser of two numbers.
LEMMA MinOfTwo ==
  ASSUME NEW a \in Int, NEW b \in Int
  PROVE  Min({a, b}) = IF a <= b THEN a ELSE b
<1>1. \E x \in {a, b} : \A y \in {a, b} : x =< y
  OBVIOUS
<1>2. Min({a, b}) \in {a, b} /\ \A y \in {a, b} : Min({a, b}) =< y
  BY <1>1 DEF Min
<1> QED BY <1>2

\* A function has no more values than arguments.
LEMMA FewerImages ==
  ASSUME NEW S, IsFiniteSet(S), NEW f, DOMAIN f = S, f = [x \in S |-> f[x]]
  PROVE  Cardinality({f[x] : x \in S}) <= Cardinality(S)
<1> DEFINE T == {f[x] : x \in S}
<1>1. f \in Surjection(S, T)
  BY DEF Surjection
<1> HIDE DEF T
<1>2. Cardinality(T) <= Cardinality(S)
  BY <1>1, FS_Surjection
<1> QED BY <1>2 DEF T

\* The rows of a domain, and its line in the list.
OfDomain(T, d) == {e \in DOMAIN T : T[e].domain = d}
Line(T, d) == [domain |-> d, count |-> Cardinality(OfDomain(T, d)), mix |-> Mix(T, OfDomain(T, d))]

\* With room for them all, all are among the busiest.
LEMMA BusiestAre ==
  ASSUME NEW T, Filed(T)
  PROVE  \E tops :
            /\ TopDomains(T, TopLimit) = {Line(T, d) : d \in tops \ {None}}
            /\ Cardinality(DOMAIN T) <= TopLimit => tops = {T[e].domain : e \in DOMAIN T}
<1> DEFINE all == {T[e].domain : e \in DOMAIN T}
           n(d) == Cardinality(OfDomain(T, d))
           Top(S) == /\ Cardinality(S) = Min({TopLimit, Cardinality(all)})
                     /\ \A d \in S, other \in all \ S : n(other) <= n(d)
           tops == CHOOSE S \in SUBSET all : Top(S)
           domainOf == [e \in DOMAIN T |-> T[e].domain]
<1>1. TopDomains(T, TopLimit) = {Line(T, d) : d \in tops \ {None}}
  BY DEF TopDomains, Line, OfDomain
<1>2. ASSUME Cardinality(DOMAIN T) <= TopLimit PROVE tops = all
  <2>1. IsFiniteSet(all) /\ Cardinality(all) <= Cardinality(DOMAIN T)
    <3>1. {domainOf[e] : e \in DOMAIN T} = all /\ DOMAIN domainOf = DOMAIN T
          /\ domainOf = [e \in DOMAIN T |-> domainOf[e]] /\ IsFiniteSet(DOMAIN T)
      BY DEF Filed
    <3> HIDE DEF domainOf, all
    <3> QED BY <3>1, ImageFinite, FewerImages
  <2>2. Cardinality(all) \in Nat /\ Cardinality(DOMAIN T) \in Nat /\ TopLimit \in Nat
    BY <2>1, FS_CardinalityType, PagesAssumption DEF Filed
  <2> HIDE DEF all, n
  <2>3. Min({TopLimit, Cardinality(all)}) = Cardinality(all)
    <3>1. Cardinality(all) <= TopLimit
      BY <1>2, <2>1, <2>2
    <3> QED BY <2>2, <3>1, MinOfTwo
  <2>4. Top(all) /\ all \in SUBSET all
    BY <2>3
  <2>5. tops \in SUBSET all /\ Top(tops)
    BY <2>4
  <2> HIDE DEF tops
  <2>6. Cardinality(tops) = Cardinality(all)
    BY <2>3, <2>5
  <2> QED BY <2>1, <2>5, <2>6, FS_Subset
<1> HIDE DEF tops
<1> QED BY <1>1, <1>2

\* The list of the busiest domains agrees with the table.
LEMMA DomainsHold ==
  ASSUME NEW T, Filed(T)
  PROVE  DomainsAgree(T)
<1> DEFINE busiest == AnalyticsApi(T, TopLimit).topDomains
           rows == {e \in DOMAIN T : T[e].domain # None}
<1>1. PICK tops : /\ busiest = {Line(T, d) : d \in tops \ {None}}
                  /\ Cardinality(DOMAIN T) <= TopLimit
                        => tops = {T[e].domain : e \in DOMAIN T}
  <2>1. busiest = TopDomains(T, TopLimit)
    BY DEF AnalyticsApi
  <2> HIDE DEF busiest
  <2> QED BY <2>1, BusiestAre
<1>2. \A d : /\ Line(T, d).domain = d /\ Line(T, d).count = Cardinality(OfDomain(T, d))
             /\ Line(T, d).mix = Mix(T, OfDomain(T, d))
  BY DEF Line
<1>3. ASSUME NEW t \in busiest PROVE SumOf(t.mix) = t.count
  <2>1. PICK d : t = Line(T, d)
    BY <1>1
  <2>2. OfDomain(T, d) \in SUBSET DOMAIN T
    BY DEF OfDomain
  <2>3. SumOf(Mix(T, OfDomain(T, d))) = Cardinality(OfDomain(T, d))
    BY <2>2, TableGroups, MixIsWhole
  <2> QED BY <1>2, <2>1, <2>3
<1>4. ASSUME Cardinality(DOMAIN T) <= TopLimit
      PROVE  MapThenSumSet(LAMBDA t : t.count, busiest) = Cardinality(rows)
  <2> DEFINE D == busiest
             f == [t \in D |-> t.count]
             g == [e \in rows |-> Line(T, T[e].domain)]
             E(h) == h = [s \in SUBSET D |-> IF s = {} THEN 0
                                            ELSE Taken(s).count + h[s \ {Taken(s)}]]
  <2>1. D = {g[e] : e \in rows}
    BY <1>1, <1>4
  <2>2. IsFiniteSet(rows) /\ IsFiniteSet(D)
    <3>1. IsFiniteSet(rows)
      BY TableGroups
    <3>2. DOMAIN g = rows /\ g = [e \in rows |-> g[e]]
      OBVIOUS
    <3> HIDE DEF g, rows, D
    <3> QED BY <2>1, <3>1, <3>2, ImageFinite
  <2>3. CountsGroups(f, D, g, rows)
    <3>1. ASSUME NEW t \in D PROVE f[t] = Cardinality({e \in rows : g[e] = t})
      <4>1. PICK d \in tops \ {None} : t = Line(T, d)
        BY <1>1
      <4>2. f[t] = Cardinality(OfDomain(T, d))
        BY <1>2, <4>1
      <4>3. {e \in rows : g[e] = t} = OfDomain(T, d)
        <5>1. \A e \in rows : g[e] = t <=> T[e].domain = d
          BY <1>2, <4>1
        <5>2. OfDomain(T, d) = {e \in rows : T[e].domain = d}
          BY DEF OfDomain
        <5> HIDE DEF g, rows, f, busiest
        <5> QED BY <5>1, <5>2
      <4> QED BY <4>2, <4>3
    <3> HIDE DEF f, D, g, rows
    <3> QED BY <3>1 DEF CountsGroups
  <2>4. (\A e \in rows : g[e] \in D) /\ \A t \in D : f[t] = t.count
    BY <2>1
  <2> HIDE DEF f, g, rows, busiest
  <2>5. Numbers(f, D) /\ SumOver(f, D) = Cardinality(rows)
    BY <2>2, <2>3, <2>4, GroupsAre
  <2>6. ASSUME NEW h PROVE E(h) <=> Adds(h, D, f)
    <3>1. \A s \in SUBSET D : s # {} => Taken(s).count = f[Taken(s)]
      BY <2>4 DEF Taken
    <3>2. [s \in SUBSET D |-> IF s = {} THEN 0 ELSE Taken(s).count + h[s \ {Taken(s)}]]
            = [s \in SUBSET D |-> IF s = {} THEN 0 ELSE f[Taken(s)] + h[s \ {Taken(s)}]]
      BY <3>1
    <3> QED BY <3>2 DEF Adds
  <2>7. \E h : E(h)
    BY <2>5, <2>6, SumIs
  <2>8. PICK h : E(h) /\ MapThenSumSet(LAMBDA t : t.count, D) = h[D]
    BY <2>7 DEF MapThenSumSet, MapThenFoldSet, Taken
  <2> QED BY <2>5, <2>6, <2>8, SumBy
<1> HIDE DEF busiest
<1>5. /\ \A t \in busiest : SumOf(t.mix) = t.count
      /\ Cardinality(DOMAIN T) <= TopLimit =>
              MapThenSumSet(LAMBDA t : t.count, busiest)
                 = Cardinality({e \in DOMAIN T : T[e].domain # None})
  BY <1>3, <1>4
<1> QED BY <1>5 DEF DomainsAgree, busiest

-----------------------------------------------------------------------------
(* The exports.                                                            *)
Choice(chosen, sub) == [verdicts |-> chosen, listType |-> AllLists, sub |-> sub]

\* What the choices the exports make pick: all, a verdict, a sub-reason.
LEMMA ChoicesAre ==
  ASSUME NEW T
  PROVE  /\ Filtered(T, Choice({}, None)) = DOMAIN T
         /\ \A v : Filtered(T, Choice({v}, None)) = Having(T, DOMAIN T, v)
         /\ \A sub : sub # None => Filtered(T, Choice({}, sub)) = {e \in DOMAIN T : T[e].sub = sub}
BY DEF Filtered, Choice, Having

\* Each card of the exports agrees with its preview and its download.
LEMMA ExportsHold ==
  ASSUME NEW T, Filed(T), NEW preset \in PRESETS
  PROVE  ExportsAgree(T, preset)
<1> DEFINE totals == Totals(T, AllLists)
           n == PresetCounts(T)[preset]
           sub == IF preset = "catchall" THEN "catch_all"
                  ELSE IF preset = "disposable" THEN "disposable" ELSE None
           picked == IF preset = "all" \/ sub # None THEN {} ELSE {preset}
           rows == Filtered(T, Choice(picked, sub))
<1>1. None \notin {"catch_all", "disposable"} /\ None \notin {"catchall", "disposable"}
  BY NoneAssumption, PresetAssumption DEF SubStatus, PresetSub
<1>2. /\ SumOf(totals) = Cardinality(DOMAIN T)
      /\ \A v \in PrimaryVerdict : totals[v] = Cardinality(Having(T, DOMAIN T, v))
  BY TotalsCount, AllAreListed
<1>3. n = Cardinality(rows)
  <2>1. CASE preset = "all"
    <3>1. rows = DOMAIN T /\ n = SumOf(totals)
      BY <2>1, ChoicesAre DEF PresetCounts
    <3> QED BY <1>2, <3>1
  <2>2. CASE preset \in {"deliverable", "risky", "undeliverable"}
    <3>1. rows = Having(T, DOMAIN T, preset)
      BY <2>2, ChoicesAre
    <3>2. n = totals[preset]
      BY <2>2 DEF PresetCounts
    <3> QED BY <1>2, <2>2, <3>1, <3>2 DEF PrimaryVerdict
  <2>3. CASE preset = "catchall"
    <3>1. rows = {e \in DOMAIN T : T[e].sub = "catch_all"}
      BY <1>1, <2>3, ChoicesAre
    <3>2. n = SubReasonCount(T, "catch_all")
      BY <2>3 DEF PresetCounts
    <3> QED BY <3>1, <3>2 DEF SubReasonCount
  <2>4. CASE preset = "disposable"
    <3>1. rows = {e \in DOMAIN T : T[e].sub = "disposable"}
      BY <1>1, <2>4, ChoicesAre
    <3>2. n = SubReasonCount(T, "disposable")
      BY <2>4 DEF PresetCounts
    <3> QED BY <3>1, <3>2 DEF SubReasonCount
  <2> QED BY <2>1, <2>2, <2>3, <2>4 DEF PRESETS
<1>4. ExportPreview(T, preset, {}).count = Cardinality(rows)
  BY DEF ExportPreview, Choice, PresetSub, PRESETS
<1>5. ExportsDownload(T, preset, {}, FALSE, FALSE) = rows
  BY <1>1 DEF ExportsDownload, ExportSlice, Choice, PresetSub, PRESETS
<1> HIDE DEF n, rows
<1> QED BY <1>3, <1>4, <1>5 DEF ExportsAgree, n

-----------------------------------------------------------------------------
(* Pages.  What page n of a listing of so many rows is.                    *)
PageIs(here, n, size, matched) ==
    here.rows = Max({0, Min({size, matched - (n - 1) * size})}) /\ here.matched = matched
    /\ here.pager = Pager(n, size, matched)

\* A number is the larger of two.
LEMMA MaxOfTwo ==
  ASSUME NEW a \in Int, NEW b \in Int
  PROVE  Max({a, b}) = IF a <= b THEN b ELSE a
<1> DEFINE m == IF a <= b THEN b ELSE a
<1>1. m \in {a, b} /\ \A y \in {a, b} : y <= m
  OBVIOUS
<1>2. \A y \in {a, b} : (\A z \in {a, b} : z <= y) => y = m
  BY <1>1
<1> QED BY <1>1, <1>2, Zenon DEF Max

\* Pages that are what they should be meet each other, whatever the number of rows.
LEMMA PagesMeet ==
  ASSUME NEW size \in Nat \ {0}, NEW matched \in Nat, NEW n \in Nat \ {0},
         NEW before, NEW here, NEW there,
         PageIs(here, n, size, matched), PageIs(there, n + 1, size, matched),
         n = 1 \/ (PageIs(before, n - 1, size, matched) /\ before.pager.next)
  PROVE  PageMet(here, there)
<1> DEFINE a == (n - 1) * size
           b == n * size
<1>1. a \in Nat /\ b \in Nat /\ b = a + size
  <2>1. n - 1 \in Nat
    OBVIOUS
  <2> QED BY <2>1
<1>2. n = 1 => a = 0
  OBVIOUS
<1>3. /\ here.rows = Max({0, Min({size, matched - a})}) /\ here.matched = matched
      /\ here.pager = Pager(n, size, matched)
  BY DEF PageIs
<1>4. /\ there.rows = Max({0, Min({size, matched - b})})
      /\ there.pager = Pager(n + 1, size, matched)
  <2>1. n + 1 \in Nat \ {0} /\ (n + 1) - 1 = n
    OBVIOUS
  <2> QED BY <2>1 DEF PageIs
<1>5. /\ here.pager.from = a + 1 /\ here.pager.to = Min({b, matched})
      /\ here.pager.next <=> b < matched
  <2>1. /\ Pager(n, size, matched).from = a + 1
        /\ Pager(n, size, matched).to = Min({b, matched})
    BY DEF Pager
  <2>2. Pager(n, size, matched).next <=> b < matched
    BY DEF Pager
  <2> HIDE DEF a, b
  <2> QED BY <1>3, <2>1, <2>2
<1>6. there.pager.from = b + 1
  <2>1. (n + 1) - 1 = n
    OBVIOUS
  <2> QED BY <1>4, <2>1 DEF Pager
<1>7. n = 1 \/ a < matched
  <2>1. CASE n # 1
    <3>1. before.pager = Pager(n - 1, size, matched) /\ before.pager.next
      BY <2>1 DEF PageIs
    <3>2. Pager(n - 1, size, matched).next <=> a < matched
      BY DEF Pager
    <3> HIDE DEF a
    <3> QED BY <3>1, <3>2
  <2> QED BY <2>1
<1> HIDE DEF a, b
<1>8. /\ Min({size, matched - a}) = IF size <= matched - a THEN size ELSE matched - a
      /\ Min({size, matched - b}) = IF size <= matched - b THEN size ELSE matched - b
      /\ Min({b, matched}) = IF b <= matched THEN b ELSE matched
  BY <1>1, MinOfTwo
<1> DEFINE left == Min({size, matched - a})
           leftThere == Min({size, matched - b})
<1>9. left \in Int /\ leftThere \in Int
  BY <1>1, <1>8
<1>10. Max({0, left}) = (IF 0 <= left THEN left ELSE 0)
       /\ Max({0, leftThere}) = (IF 0 <= leftThere THEN leftThere ELSE 0)
  <2> HIDE DEF left, leftThere
  <2> QED BY <1>9, MaxOfTwo
<1>11. here.rows = IF here.matched = 0 THEN 0
                        ELSE here.pager.to - here.pager.from + 1
  BY <1>1, <1>2, <1>3, <1>5, <1>7, <1>8, <1>10
<1>12. ASSUME here.pager.next
       PROVE  there.pager.from = here.pager.to + 1 /\ there.rows > 0
  BY <1>1, <1>4, <1>5, <1>6, <1>8, <1>10, <1>12
<1>13. ASSUME ~here.pager.next
       PROVE  here.pager.to = here.matched
  BY <1>1, <1>3, <1>5, <1>8, <1>13
<1> QED BY <1>11, <1>12, <1>13 DEF PageMet

\* Following the links of the contacts.
LEMMA ContactsHold ==
  ASSUME NEW T, Filed(T), NEW v \in PrimaryVerdict, NEW size \in Sizes
  PROVE  ContactsMet(T, v, size)
<1> DEFINE rows == Having(T, DOMAIN T, v)
           chosen == ChipToggled({}, v)
           screen(n) == Contacts(T, chosen, n, size)
           matched == Cardinality(rows)
<1>1. size \in Nat \ {0}
  BY PagesAssumption
<1>2. matched \in Nat
  <2>1. rows \in SUBSET DOMAIN T
    BY DEF Having
  <2> HIDE DEF rows
  <2> QED BY <2>1, TableGroups, FS_CardinalityType
<1>3. Totals(T, AllLists)[v] = matched
  BY TotalsCount, AllAreListed
<1>4. Filtered(T, [Everything EXCEPT !.verdicts = chosen]) = rows
  <2>1. chosen = {v}
    BY DEF ChipToggled
  <2>2. [Everything EXCEPT !.verdicts = chosen] = Choice({v}, None)
    BY <2>1 DEF Everything, Choice
  <2> QED BY <2>2, ChoicesAre
<1> HIDE DEF rows
<1>5. \A n : /\ PageIs(screen(n), n, size, matched)
             /\ ListAddresses(T, chosen, n, size).rows = screen(n).rows
  <2> SUFFICES ASSUME NEW n
               PROVE  /\ PageIs(screen(n), n, size, matched)
                      /\ ListAddresses(T, chosen, n, size).rows = screen(n).rows
    OBVIOUS
  <2> DEFINE found == Query(T, [Everything EXCEPT !.verdicts = chosen], size, (n - 1) * size)
  <2>1. /\ found.rows = Max({0, Min({size, matched - (n - 1) * size})})
        /\ found.total = matched
    BY <1>4 DEF Query
  <2>2. ListAddresses(T, chosen, n, size).rows = found.rows
    BY DEF ListAddresses
  <2> HIDE DEF found, matched
  <2>3. /\ screen(n).rows = found.rows /\ screen(n).matched = found.total
        /\ screen(n).pager = Pager(n, size, found.total)
    BY DEF Contacts, found
  <2> QED BY <2>1, <2>2, <2>3 DEF PageIs
<1> HIDE DEF screen, matched
<1>6. ASSUME NEW n \in Linked(screen, Cardinality(DOMAIN T))
      PROVE  /\ PageMet(screen(n), screen(n + 1))
             /\ screen(n).matched = Totals(T, AllLists)[v]
             /\ ListAddresses(T, chosen, n, size).rows = screen(n).rows
  <2>1. n \in Nat \ {0} /\ (n = 1 \/ screen(n - 1).pager.next)
    BY DEF Linked
  <2>2. /\ PageIs(screen(n), n, size, matched) /\ PageIs(screen(n + 1), n + 1, size, matched)
        /\ PageIs(screen(n - 1), n - 1, size, matched)
    BY <1>5
  <2>3. PageMet(screen(n), screen(n + 1))
    BY <1>1, <1>2, <2>1, <2>2, PagesMeet
  <2>4. screen(n).matched = matched
    BY <1>5 DEF PageIs
  <2> QED BY <1>3, <1>5, <2>3, <2>4
<1> QED BY <1>6 DEF ContactsMet, screen

\* Following those of the dashboard.
LEMMA TableHolds ==
  ASSUME NEW T, Filed(T), NEW tab \in ListType \cup {AllLists}
  PROVE  TableMet(T, tab)
<1> DEFINE rows == Listed(T, tab)
           screen(n) == DashboardTable(T, tab, n)
           matched == Cardinality(rows)
<1>1. PAGE \in Nat \ {0}
  BY PagesAssumption
<1>2. matched \in Nat
  <2>1. rows \in SUBSET DOMAIN T
    BY DEF Listed
  <2> HIDE DEF rows
  <2> QED BY <2>1, TableGroups, FS_CardinalityType
<1>3. SumOf(Totals(T, tab)) = matched
  BY TotalsCount
<1>4. Filtered(T, [Everything EXCEPT !.listType = tab]) = rows
  BY DEF Filtered, Everything, Listed
<1> HIDE DEF rows
<1>5. \A n : PageIs(screen(n), n, PAGE, matched)
  <2> SUFFICES ASSUME NEW n PROVE PageIs(screen(n), n, PAGE, matched)
    OBVIOUS
  <2> DEFINE found == Query(T, [Everything EXCEPT !.listType = tab], PAGE, (n - 1) * PAGE)
  <2>1. /\ found.rows = Max({0, Min({PAGE, matched - (n - 1) * PAGE})})
        /\ found.total = matched
    BY <1>4 DEF Query
  <2> HIDE DEF found, matched
  <2>2. /\ screen(n).rows = found.rows /\ screen(n).matched = found.total
        /\ screen(n).pager = Pager(n, PAGE, found.total)
    BY DEF DashboardTable, found
  <2> QED BY <2>1, <2>2 DEF PageIs
<1> HIDE DEF screen, matched
<1>6. ASSUME NEW n \in Linked(screen, Cardinality(DOMAIN T))
      PROVE  PageMet(screen(n), screen(n + 1)) /\ screen(n).matched = SumOf(Totals(T, tab))
  <2>1. n \in Nat \ {0} /\ (n = 1 \/ screen(n - 1).pager.next)
    BY DEF Linked
  <2>2. /\ PageIs(screen(n), n, PAGE, matched) /\ PageIs(screen(n + 1), n + 1, PAGE, matched)
        /\ PageIs(screen(n - 1), n - 1, PAGE, matched)
    BY <1>5
  <2>3. PageMet(screen(n), screen(n + 1))
    BY <1>1, <1>2, <2>1, <2>2, PagesMeet
  <2>4. screen(n).matched = matched
    BY <1>5 DEF PageIs
  <2> QED BY <1>3, <2>3, <2>4
<1> QED BY <1>6 DEF TableMet, screen

-----------------------------------------------------------------------------
(* The calendar, and the buckets of a chart.                               *)

(***************************************************************************)
(* The calendar is the Gregorian one: between the first days of a month    *)
(* and of the next there are as many days as the month has, over leap      *)
(* years, centuries and the turn of a year (MonthStart, for series.py).    *)
(***************************************************************************)
THEOREM MonthsAreGregorian ==
  ASSUME NEW month \in Int
  PROVE  MonthStart(month + 1) - MonthStart(month) = DaysOf(month)
<1> DEFINE y == month \div 12
           k == month % 12
           leap(n) == IF n > 2 /\ Leap(y) THEN 1 ELSE 0
           years(past) == 365 * past + past \div 4 - past \div 100 + past \div 400
<1>1. y \in Int /\ k \in 0..11 /\ month = 12 * y + k
  OBVIOUS
<1>2. \A past \in Int : years(past) \in Int
  OBVIOUS
<1>3. MonthStart(month) = years(y - 1) + DaysBefore[k + 1] + leap(k + 1) + 1
  BY DEF MonthStart
<1>4. DaysOf(month) = IF k + 1 \in {4, 6, 9, 11} THEN 30 ELSE IF k + 1 # 2 THEN 31
                      ELSE IF Leap(y) THEN 29 ELSE 28
  <2>1. Leap(y) <=> y % 400 = 0 \/ (y % 4 = 0 /\ y % 100 # 0)
    BY <1>1 DEF Leap
  <2> QED BY <2>1 DEF DaysOf
<1>5. CASE k < 11
  <2>1. (month + 1) \div 12 = y /\ (month + 1) % 12 = k + 1
    BY <1>1, <1>5
  <2>2. MonthStart(month + 1) = years(y - 1) + DaysBefore[(k + 1) + 1] + leap((k + 1) + 1) + 1
    BY <2>1 DEF MonthStart
  <2>3. /\ DaysBefore[k + 1] \in Int /\ DaysBefore[(k + 1) + 1] \in Int
        /\ DaysBefore[(k + 1) + 1] - DaysBefore[k + 1]
              = IF k + 1 \in {4, 6, 9, 11} THEN 30 ELSE IF k + 1 # 2 THEN 31 ELSE 28
    BY <1>1, <1>5 DEF DaysBefore
  <2>4. /\ leap(k + 1) \in Int /\ leap((k + 1) + 1) \in Int
        /\ leap((k + 1) + 1) - leap(k + 1) = IF k + 1 = 2 /\ Leap(y) THEN 1 ELSE 0
    BY <1>1
  <2>5. years(y - 1) \in Int
    BY <1>1, <1>2
  <2> HIDE DEF y, leap, years
  <2> QED BY <1>1, <1>3, <1>4, <2>2, <2>3, <2>4, <2>5
<1>6. CASE k = 11
  <2>1. (month + 1) \div 12 = y + 1 /\ (month + 1) % 12 = 0
    BY <1>1, <1>6
  <2>2. MonthStart(month + 1) = years((y + 1) - 1) + DaysBefore[0 + 1] + 0 + 1
    BY <2>1 DEF MonthStart
  <2>3. DaysBefore[0 + 1] = 0 /\ DaysBefore[k + 1] = 334
    BY <1>6 DEF DaysBefore
  <2>4. (y + 1) - 1 = y
    BY <1>1
  <2>5. years(y) - years(y - 1) = 365 + leap(k + 1)
    <3> DEFINE one(x) == IF x THEN 1 ELSE 0
    <3>1. y \div 4 = (y - 1) \div 4 + one(y % 4 = 0)
      BY <1>1
    <3>2. y \div 100 = (y - 1) \div 100 + one(y % 100 = 0)
      BY <1>1
    <3>3. y \div 400 = (y - 1) \div 400 + one(y % 400 = 0)
      BY <1>1
    <3>4. (y % 400 = 0 => y % 100 = 0) /\ (y % 100 = 0 => y % 4 = 0)
      BY <1>1
    <3>5. leap(k + 1) = one(y % 4 = 0) - one(y % 100 = 0) + one(y % 400 = 0)
      BY <1>6, <3>4 DEF Leap
    <3>6. (y - 1) \div 4 \in Int /\ (y - 1) \div 100 \in Int /\ (y - 1) \div 400 \in Int
      BY <1>1
    <3>7. /\ one(y % 4 = 0) \in Int /\ one(y % 100 = 0) \in Int /\ one(y % 400 = 0) \in Int
      OBVIOUS
    <3> DEFINE a == (y - 1) \div 4
               b == (y - 1) \div 100
               c == (y - 1) \div 400
    <3> HIDE DEF y, one, leap
    <3>8. years(y - 1) = 365 * (y - 1) + a - b + c
      OBVIOUS
    <3>9. years(y) = 365 * y + (a + one(y % 4 = 0)) - (b + one(y % 100 = 0))
                     + (c + one(y % 400 = 0))
      BY <3>1, <3>2, <3>3
    <3> HIDE DEF a, b, c, years
    <3> QED BY <1>1, <3>5, <3>6, <3>7, <3>8, <3>9 DEF a, b, c
  <2>6. years(y) \in Int /\ years(y - 1) \in Int /\ leap(k + 1) \in Int
    BY <1>1, <1>2
  <2>7. DaysOf(month) = 31
    BY <1>4, <1>6
  <2> HIDE DEF y, k, leap, years
  <2> QED BY <1>3, <2>2, <2>3, <2>4, <2>5, <2>6, <2>7
<1> QED BY <1>1, <1>5, <1>6

\* No month starts before the one it follows.
LEMMA MonthsFollow ==
  ASSUME NEW month \in Int
  PROVE  MonthStart(month) <= MonthStart(month + 1)
<1>1. MonthStart(month) \in Int /\ MonthStart(month + 1) \in Int
  BY MonthStartTyped
<1>2. DaysOf(month) \in Nat
  BY DEF DaysOf
<1> QED BY <1>1, <1>2, MonthsAreGregorian

\* Each bucket ends where the next one begins.
Joined(b) ==
    \A i \in 1..12 : /\ b[i].start \in Int /\ b[i].end \in Int /\ b[i].start <= b[i].end + 1
                     /\ i < 12 => b[i + 1].start = b[i].end + 1

\* Whatever the grain, each bucket of a window ends the day before the next begins.
LEMMA BoundsJoin ==
  ASSUME NEW grain, NEW date \in [month: Nat, day: 1..31], NEW offset \in {0, 1}
  PROVE  Joined(Bounds(grain, date, offset))
<1> DEFINE b == Bounds(grain, date, offset)
           now == Ordinal(date)
<1>1. now \in Int
  <2>1. MonthStart(date.month) \in Int
    BY MonthStartTyped
  <2> QED BY <2>1 DEF Ordinal
<1>2. CASE grain = "Monthly"
  <2> DEFINE first == date.month - 12 * offset - 12
  <2>1. first \in Int
    OBVIOUS
  <2>2. \A i \in 1..12 : /\ b[i].start = MonthStart(first + i)
                         /\ b[i].end = MonthStart(first + i + 1) - 1
    BY <1>2 DEF Bounds, MonthBounds, BUCKETS
  <2> HIDE DEF first, b
  <2>3. ASSUME NEW i \in 1..12
        PROVE  /\ b[i].start \in Int /\ b[i].end \in Int /\ b[i].start <= b[i].end + 1
               /\ i < 12 => b[i + 1].start = b[i].end + 1
    <3>1. first + i \in Int /\ first + i + 1 \in Int /\ first + (i + 1) = first + i + 1
      BY <2>1
    <3>2. /\ MonthStart(first + i) \in Int /\ MonthStart(first + i + 1) \in Int
          /\ MonthStart(first + i) <= MonthStart(first + i + 1)
      BY <3>1, MonthStartTyped, MonthsFollow
    <3>3. i < 12 => b[i + 1].start = MonthStart(first + i + 1)
      BY <2>2, <3>1
    <3> QED BY <2>2, <3>2, <3>3
  <2> QED BY <2>3 DEF Joined, b
<1>3. CASE grain = "Weekly"
  <2> DEFINE last == now - 7 * 12 * offset
             monday == last - Weekday(last)
  <2>1. last \in Int /\ monday \in Int
    BY <1>1 DEF Weekday
  <2>2. \A i \in 1..12 : /\ b[i].start = monday - 7 * (12 - i)
                         /\ b[i].end = monday - 7 * (12 - i) + 6
    BY <1>3 DEF Bounds, WeekBounds, BUCKETS
  <2> HIDE DEF monday, b
  <2> QED BY <2>1, <2>2 DEF Joined, b
<1>4. CASE grain \notin {"Monthly", "Weekly"}
  <2> DEFINE last == now - 12 * offset
  <2>1. last \in Int
    BY <1>1
  <2>2. \A i \in 1..12 : b[i].start = last - (12 - i) /\ b[i].end = last - (12 - i)
    BY <1>4 DEF Bounds, DayBounds, BUCKETS
  <2> HIDE DEF last, b
  <2> QED BY <2>1, <2>2 DEF Joined, b
<1> QED BY <1>2, <1>3, <1>4

\* The window before ends where this one begins, and this one ends with today's bucket.
LEMMA BoundsMeet ==
  ASSUME NEW grain, NEW date \in [month: Nat, day: 1..31],
         date.day <= DaysOf(date.month)
  PROVE  /\ Bounds(grain, date, 1)[12].end + 1 = Bounds(grain, date, 0)[1].start
         /\ Bounds(grain, date, 0)[12].start <= Ordinal(date)
         /\ Ordinal(date) <= Bounds(grain, date, 0)[12].end
<1> DEFINE now == Ordinal(date)
           before == Bounds(grain, date, 1)[12].end
           begin == Bounds(grain, date, 0)[1].start
           from == Bounds(grain, date, 0)[12].start
           to == Bounds(grain, date, 0)[12].end
           m == date.month
<1>1. /\ now \in Int /\ MonthStart(m) \in Int /\ MonthStart(m + 1) \in Int
      /\ now = MonthStart(m) + date.day - 1 /\ m \in Nat /\ date.day \in 1..31
  BY MonthStartTyped DEF Ordinal
<1>2. CASE grain = "Monthly"
  <2>1. /\ before = MonthStart((m - 12 * 1) - 12 + 12 + 1) - 1
        /\ begin = MonthStart((m - 12 * 0) - 12 + 1)
        /\ from = MonthStart((m - 12 * 0) - 12 + 12)
        /\ to = MonthStart((m - 12 * 0) - 12 + 12 + 1) - 1
    BY <1>2 DEF Bounds, MonthBounds, BUCKETS
  <2>2. /\ (m - 12 * 1) - 12 + 12 + 1 = m - 11 /\ (m - 12 * 0) - 12 + 1 = m - 11
        /\ (m - 12 * 0) - 12 + 12 = m /\ (m - 12 * 0) - 12 + 12 + 1 = m + 1 /\ m - 11 \in Int
    BY <1>1
  <2>3. MonthStart(m - 11) \in Int
    BY <2>2, MonthStartTyped
  <2>4. /\ before = MonthStart(m - 11) - 1 /\ begin = MonthStart(m - 11)
        /\ from = MonthStart(m) /\ to = MonthStart(m + 1) - 1
    BY <2>1, <2>2
  <2>5. date.day <= MonthStart(m + 1) - MonthStart(m)
    BY <1>1, MonthsAreGregorian
  <2> HIDE DEF now, before, begin, from, to, m
  <2> QED BY <1>1, <2>3, <2>4, <2>5 DEF now, before, begin, from, to
<1>3. CASE grain = "Weekly"
  <2> DEFINE last == now - 84
  <2>1. /\ before = (now - 7 * 12 * 1) - Weekday(now - 7 * 12 * 1) - 7 * (12 - 12) + 6
        /\ begin = (now - 7 * 12 * 0) - Weekday(now - 7 * 12 * 0) - 7 * (12 - 1)
        /\ from = (now - 7 * 12 * 0) - Weekday(now - 7 * 12 * 0) - 7 * (12 - 12)
        /\ to = (now - 7 * 12 * 0) - Weekday(now - 7 * 12 * 0) - 7 * (12 - 12) + 6
    BY <1>3 DEF Bounds, WeekBounds, BUCKETS
  <2>2. now - 7 * 12 * 1 = last /\ now - 7 * 12 * 0 = now /\ last \in Int
    BY <1>1
  <2> HIDE DEF now
  <2>3. Weekday(last) = Weekday(now) /\ Weekday(now) \in 0..6
    BY <1>1 DEF Weekday
  <2>4. /\ before = last - Weekday(last) + 6 /\ begin = now - Weekday(now) - 77
        /\ from = now - Weekday(now) /\ to = now - Weekday(now) + 6
    <3> HIDE DEF before, begin, from, to, last
    <3> QED BY <1>1, <2>1, <2>2, <2>3
  <2> HIDE DEF before, begin, from, to
  <2> QED BY <1>1, <2>3, <2>4 DEF now, before, begin, from, to
<1>4. CASE grain \notin {"Monthly", "Weekly"}
  <2>1. /\ before = (now - 12 * 1) - (12 - 12) /\ begin = (now - 12 * 0) - (12 - 1)
        /\ from = (now - 12 * 0) - (12 - 12) /\ to = (now - 12 * 0) - (12 - 12)
    BY <1>4 DEF Bounds, DayBounds, BUCKETS
  <2> HIDE DEF now, before, begin, from, to
  <2> QED BY <1>1, <2>1 DEF now, before, begin, from, to
<1> QED BY <1>2, <1>3, <1>4

\* The buckets, the arcs before the last and the days of a week are finitely many.
LEMMA SpansFinite == IsFiniteSet(1..12) /\ IsFiniteSet(1..3) /\ IsFiniteSet(0..6)
<1>1. ASSUME NEW n \in Nat PROVE IsFiniteSet(1..n) /\ IsFiniteSet(0..n)
  BY FS_Interval
<1> DEFINE a == 12
           b == 3
           c == 6
<1>2. a \in Nat /\ b \in Nat /\ c \in Nat
  OBVIOUS
<1> HIDE DEF a, b, c
<1>3. IsFiniteSet(1..a) /\ IsFiniteSet(1..b) /\ IsFiniteSet(0..c)
  BY <1>1, <1>2
<1> QED BY <1>3 DEF a, b, c

\* A day that falls into a bucket.
Holds(bucket, x) == bucket.start <= x /\ x <= bucket.end

\* A day of a window falls into exactly one bucket, and no other day into any.
LEMMA DayHasBucket ==
  ASSUME NEW b, Joined(b), NEW x \in Int
  PROVE  /\ \A i \in 1..12 : Holds(b[i], x) => b[1].start <= x /\ x <= b[12].end
         /\ \A i, j \in 1..12 : Holds(b[i], x) /\ Holds(b[j], x) => i = j
         /\ b[1].start <= x /\ x <= b[12].end => \E i \in 1..12 : Holds(b[i], x)
<1> DEFINE s(i) == b[i].start
           e(i) == b[i].end
<1>1. \A i \in 1..12 : /\ s(i) \in Int /\ e(i) \in Int /\ s(i) <= e(i) + 1
                       /\ i < 12 => s(i + 1) = e(i) + 1
  BY DEF Joined
<1>2. \A i \in 1..12 : Holds(b[i], x) <=> s(i) <= x /\ x <= e(i)
  BY DEF Holds
<1> HIDE DEF s, e
<1>3. /\ s(1) <= s(2) /\ s(2) <= s(3) /\ s(3) <= s(4) /\ s(4) <= s(5) /\ s(5) <= s(6)
      /\ s(6) <= s(7) /\ s(7) <= s(8) /\ s(8) <= s(9) /\ s(9) <= s(10) /\ s(10) <= s(11)
      /\ s(11) <= s(12)
      /\ e(1) = s(2) - 1 /\ e(2) = s(3) - 1 /\ e(3) = s(4) - 1 /\ e(4) = s(5) - 1
      /\ e(5) = s(6) - 1 /\ e(6) = s(7) - 1 /\ e(7) = s(8) - 1 /\ e(8) = s(9) - 1
      /\ e(9) = s(10) - 1 /\ e(10) = s(11) - 1 /\ e(11) = s(12) - 1
      /\ s(12) <= e(12) + 1
  BY <1>1
<1>4. /\ s(1) \in Int /\ s(2) \in Int /\ s(3) \in Int /\ s(4) \in Int /\ s(5) \in Int
      /\ s(6) \in Int /\ s(7) \in Int /\ s(8) \in Int /\ s(9) \in Int /\ s(10) \in Int
      /\ s(11) \in Int /\ s(12) \in Int /\ e(12) \in Int
  BY <1>1
<1>5. \A i \in 1..12 : \/ i = 1 \/ i = 2 \/ i = 3 \/ i = 4 \/ i = 5 \/ i = 6 \/ i = 7
                       \/ i = 8 \/ i = 9 \/ i = 10 \/ i = 11 \/ i = 12
  OBVIOUS
<1>6. \A i \in 1..12 : s(1) <= s(i) /\ e(i) <= e(12)
  BY <1>3, <1>4, <1>5
<1>7. \A i, j \in 1..12 : i < j => e(i) < s(j)
  BY <1>3, <1>4, <1>5
<1>8. ASSUME s(1) <= x, x <= e(12) PROVE \E i \in 1..12 : s(i) <= x /\ x <= e(i)
  <2>1. \/ (s(1) <= x /\ x <= e(1)) \/ (s(2) <= x /\ x <= e(2))
        \/ (s(3) <= x /\ x <= e(3)) \/ (s(4) <= x /\ x <= e(4))
        \/ (s(5) <= x /\ x <= e(5)) \/ (s(6) <= x /\ x <= e(6))
        \/ (s(7) <= x /\ x <= e(7)) \/ (s(8) <= x /\ x <= e(8))
        \/ (s(9) <= x /\ x <= e(9)) \/ (s(10) <= x /\ x <= e(10))
        \/ (s(11) <= x /\ x <= e(11)) \/ (s(12) <= x /\ x <= e(12))
    BY <1>3, <1>4, <1>8
  <2> QED BY <2>1
<1>9. \A i \in 1..12 : Holds(b[i], x) => s(1) <= x /\ x <= e(12)
  BY <1>1, <1>2, <1>6
<1>10. \A i, j \in 1..12 : Holds(b[i], x) /\ Holds(b[j], x) => i = j
  BY <1>1, <1>2, <1>7
<1>11. s(1) <= x /\ x <= e(12) => \E i \in 1..12 : Holds(b[i], x)
  BY <1>2, <1>8
<1> QED BY <1>9, <1>10, <1>11 DEF s, e

\* The rows of the days within bounds.
Within(T, bound) == {e \in DOMAIN T : bound.start <= T[e].day /\ T[e].day <= bound.end}

\* The series by day, summed within bounds, counts the rows of a verdict there.
LEMMA InsideCounts ==
  ASSUME NEW T, Filed(T), NEW bound, NEW v \in PrimaryVerdict
  PROVE  MapThenSumSet(LAMBDA day : ByDay(T)[day][v],
                       {day \in DOMAIN ByDay(T) : bound.start <= day /\ day <= bound.end})
            = Cardinality(Having(T, Within(T, bound), v))
<1> DEFINE byDay == ByDay(T)
           D == {day \in DOMAIN byDay : bound.start <= day /\ day <= bound.end}
           f == [day \in D |-> byDay[day][v]]
           rows == Having(T, Within(T, bound), v)
           g == [e \in rows |-> T[e].day]
           E(h) == h = [s \in SUBSET D |-> IF s = {} THEN 0
                                          ELSE byDay[Taken(s)][v] + h[s \ {Taken(s)}]]
<1>1. /\ DOMAIN byDay = {T[e].day : e \in DOMAIN T} /\ IsFiniteSet(DOMAIN byDay)
      /\ \A day \in DOMAIN byDay : byDay[day][v] = Cardinality(Having(T, On(T, day), v))
  BY DaysCount
<1>2. IsFiniteSet(D) /\ IsFiniteSet(rows)
  <2>1. D \in SUBSET DOMAIN byDay /\ rows \in SUBSET DOMAIN T
    BY DEF Having, Within
  <2> HIDE DEF D, rows, byDay
  <2> QED BY <1>1, <2>1, TableGroups, FS_Subset
<1>3. CountsGroups(f, D, g, rows)
  <2>1. \A day \in D : {e \in rows : g[e] = day} = Having(T, On(T, day), v)
    BY DEF Having, Within, On
  <2>2. \A day \in D : f[day] = Cardinality(Having(T, On(T, day), v))
    BY <1>1
  <2> QED BY <2>1, <2>2 DEF CountsGroups
<1>4. (\A e \in rows : g[e] \in D) /\ \A day \in D : f[day] = byDay[day][v]
  BY <1>1 DEF Having, Within
<1> HIDE DEF f, g, D, rows, byDay
<1>5. Numbers(f, D) /\ SumOver(f, D) = Cardinality(rows)
  BY <1>2, <1>3, <1>4, GroupsAre
<1>6. ASSUME NEW h PROVE E(h) <=> Adds(h, D, f)
  <2>1. \A s \in SUBSET D : s # {} => byDay[Taken(s)][v] = f[Taken(s)]
    BY <1>4 DEF Taken
  <2>2. [s \in SUBSET D |-> IF s = {} THEN 0 ELSE byDay[Taken(s)][v] + h[s \ {Taken(s)}]]
          = [s \in SUBSET D |-> IF s = {} THEN 0 ELSE f[Taken(s)] + h[s \ {Taken(s)}]]
    BY <2>1
  <2> QED BY <2>2 DEF Adds
<1>7. \E h : E(h)
  BY <1>5, <1>6, SumIs
<1>8. PICK h : E(h) /\ MapThenSumSet(LAMBDA day : byDay[day][v], D) = h[D]
  BY <1>7 DEF MapThenSumSet, MapThenFoldSet, Taken
<1>9. MapThenSumSet(LAMBDA day : byDay[day][v], D) = Cardinality(rows)
  BY <1>5, <1>6, <1>8, SumBy
<1> QED BY <1>9 DEF D, rows, byDay

\* A bucket has its bounds, and its volume counts the rows within them.
LEMMA BuildCounts ==
  ASSUME NEW T, Filed(T), NEW grain, NEW date, NEW offset, NEW i \in 1..12
  PROVE  LET bound == Bounds(grain, date, offset)[i]
             bucket == Build(ByDay(T), PrimaryVerdict, grain, date, offset)[i]
         IN  /\ bucket.start = bound.start /\ bucket.end = bound.end
             /\ Volume(bucket) = Cardinality(Within(T, bound))
<1> DEFINE bound == Bounds(grain, date, offset)[i]
           bucket == Build(ByDay(T), PrimaryVerdict, grain, date, offset)[i]
           rows == Within(T, bound)
           totals == bucket.totals
           g == [e \in rows |-> Primary(T[e].status)]
<1>1. /\ bucket.start = bound.start /\ bucket.end = bound.end
      /\ DOMAIN totals = PrimaryVerdict
      /\ \A v \in PrimaryVerdict :
            totals[v] = MapThenSumSet(LAMBDA day : ByDay(T)[day][v],
                         {day \in DOMAIN ByDay(T) : bound.start <= day /\ day <= bound.end})
  BY DEF Build, BUCKETS
<1>2. \A v \in PrimaryVerdict : totals[v] = Cardinality(Having(T, rows, v))
  BY <1>1, InsideCounts
<1>3. Volume(bucket) = SumOver(totals, DOMAIN totals)
  BY DEF Volume, SumOver, MapThenSumSet, MapThenFoldSet
<1>4. rows \in SUBSET DOMAIN T
  BY DEF Within
<1> HIDE DEF rows, totals, bucket, bound
<1>5. IsFiniteSet(rows) /\ \A e \in rows : T[e].status \in Status
  BY <1>4, TableGroups
<1>6. \A e \in rows : g[e] \in PrimaryVerdict
  BY <1>5 DEF Primary, Status, PrimaryVerdict
<1>7. \A v \in PrimaryVerdict : {e \in rows : g[e] = v} = Having(T, rows, v)
  BY DEF Having
<1> HIDE DEF g
<1>8. CountsGroups(totals, PrimaryVerdict, g, rows)
  BY <1>2, <1>7 DEF CountsGroups
<1>9. SumOver(totals, PrimaryVerdict) = Cardinality(rows)
  BY <1>5, <1>6, <1>8, VerdictsFinite, GroupsAre
<1> QED BY <1>1, <1>3, <1>9 DEF bucket, bound, rows

\* The volumes of the buckets add up to the rows of the window.
LEMMA WindowCounts ==
  ASSUME NEW T, Filed(T), NEW grain, NEW date, Joined(Bounds(grain, date, 0))
  PROVE  LET this == Build(ByDay(T), PrimaryVerdict, grain, date, 0)
         IN  MapThenSumSet(LAMBDA i : Volume(this[i]), DOMAIN this)
                = Cardinality({e \in DOMAIN T :
                      this[1].start <= T[e].day /\ T[e].day <= this[12].end})
<1> DEFINE this == Build(ByDay(T), PrimaryVerdict, grain, date, 0)
           b == Bounds(grain, date, 0)
           rows == {e \in DOMAIN T : this[1].start <= T[e].day /\ T[e].day <= this[12].end}
           D == DOMAIN this
           f == [i \in D |-> Volume(this[i])]
           g == [e \in rows |-> CHOOSE i \in 1..12 : Holds(b[i], T[e].day)]
           E(h) == h = [s \in SUBSET D |-> IF s = {} THEN 0
                                          ELSE Volume(this[Taken(s)]) + h[s \ {Taken(s)}]]
<1>1. D = 1..12
  BY DEF Build, BUCKETS
<1>2. \A i \in 1..12 : /\ this[i].start = b[i].start /\ this[i].end = b[i].end
                       /\ Volume(this[i]) = Cardinality(Within(T, b[i]))
  BY BuildCounts
<1> HIDE DEF this, b
<1>3. rows = {e \in DOMAIN T : b[1].start <= T[e].day /\ T[e].day <= b[12].end}
  BY <1>2
<1>4. \A e \in DOMAIN T : T[e].day \in Int
  BY DEF Filed, Fileable, AddressRecord
<1>5. Joined(b)
  BY DEF b
<1>6. \A e \in DOMAIN T :
         /\ \A i \in 1..12 : Holds(b[i], T[e].day) => e \in rows
         /\ \A i, j \in 1..12 : Holds(b[i], T[e].day) /\ Holds(b[j], T[e].day) => i = j
         /\ e \in rows => \E i \in 1..12 : Holds(b[i], T[e].day)
  <2> HIDE DEF rows
  <2> SUFFICES ASSUME NEW e \in DOMAIN T
               PROVE  /\ \A i \in 1..12 : Holds(b[i], T[e].day) => e \in rows
                      /\ \A i, j \in 1..12 : Holds(b[i], T[e].day) /\ Holds(b[j], T[e].day) => i = j
                      /\ e \in rows => \E i \in 1..12 : Holds(b[i], T[e].day)
    OBVIOUS
  <2> DEFINE x == T[e].day
  <2>1. x \in Int /\ (e \in rows <=> b[1].start <= x /\ x <= b[12].end)
    BY <1>3, <1>4
  <2> HIDE DEF x
  <2>2. /\ \A i \in 1..12 : Holds(b[i], x) => b[1].start <= x /\ x <= b[12].end
        /\ \A i, j \in 1..12 : Holds(b[i], x) /\ Holds(b[j], x) => i = j
        /\ b[1].start <= x /\ x <= b[12].end => \E i \in 1..12 : Holds(b[i], x)
    BY <1>5, <2>1, DayHasBucket
  <2> QED BY <2>1, <2>2 DEF x
<1>7. \A e \in rows : g[e] \in 1..12 /\ \A i \in 1..12 : g[e] = i <=> Holds(b[i], T[e].day)
  BY <1>6
<1>8. CountsGroups(f, D, g, rows)
  <2>1. ASSUME NEW i \in D PROVE {e \in rows : g[e] = i} = Within(T, b[i])
    <3>1. Within(T, b[i]) = {e \in DOMAIN T : Holds(b[i], T[e].day)}
      BY DEF Within, Holds
    <3>2. rows \subseteq DOMAIN T
      OBVIOUS
    <3> HIDE DEF g, rows
    <3> QED BY <1>1, <1>6, <1>7, <3>1, <3>2
  <2>2. \A i \in D : f[i] = Cardinality(Within(T, b[i]))
    BY <1>1, <1>2
  <2> HIDE DEF f, D, g, rows
  <2> QED BY <2>1, <2>2 DEF CountsGroups
<1>9. IsFiniteSet(D) /\ IsFiniteSet(rows)
  <2>1. rows \in SUBSET DOMAIN T
    OBVIOUS
  <2>2. IsFiniteSet(1..12)
    BY SpansFinite
  <2> HIDE DEF rows, D
  <2> QED BY <1>1, <2>1, <2>2, TableGroups
<1>10. (\A e \in rows : g[e] \in D) /\ \A i \in D : f[i] = Volume(this[i])
  BY <1>1, <1>7
<1> HIDE DEF f, g, D, rows
<1>11. Numbers(f, D) /\ SumOver(f, D) = Cardinality(rows)
  BY <1>8, <1>9, <1>10, GroupsAre
<1>12. ASSUME NEW h PROVE E(h) <=> Adds(h, D, f)
  <2>1. \A s \in SUBSET D : s # {} => Volume(this[Taken(s)]) = f[Taken(s)]
    BY <1>10 DEF Taken
  <2>2. [s \in SUBSET D |-> IF s = {} THEN 0 ELSE Volume(this[Taken(s)]) + h[s \ {Taken(s)}]]
          = [s \in SUBSET D |-> IF s = {} THEN 0 ELSE f[Taken(s)] + h[s \ {Taken(s)}]]
    BY <2>1
  <2> QED BY <2>2 DEF Adds
<1>13. \E h : E(h)
  BY <1>11, <1>12, SumIs
<1>14. PICK h : E(h) /\ MapThenSumSet(LAMBDA i : Volume(this[i]), D) = h[D]
  BY <1>13 DEF MapThenSumSet, MapThenFoldSet, Taken
<1>15. MapThenSumSet(LAMBDA i : Volume(this[i]), D) = Cardinality(rows)
  BY <1>11, <1>12, <1>14, SumBy
<1> QED BY <1>15 DEF D, rows, this

\* The last arc of the donut ends where the circle does.
LEMMA DonutCloses ==
  ASSUME NEW T, Filed(T)
  PROVE  LET donut == Donut(Totals(T, AllLists))
         IN  donut[4].from + donut[4].count = Cardinality(DOMAIN T)
<1> DEFINE totals == Totals(T, AllLists)
           D == 1..(4 - 1)
           f == [j \in D |-> totals[ORDER[j]]]
           E(h) == h = [s \in SUBSET D |-> IF s = {} THEN 0
                                          ELSE totals[ORDER[Taken(s)]] + h[s \ {Taken(s)}]]
           name == [e \in DOMAIN T |-> Primary(T[e].status)]
           rest == DOMAIN T \ Having(T, DOMAIN T, "undeliverable")
           place == [e \in rest |-> CHOOSE j \in D : ORDER[j] = name[e]]
<1>1. /\ Donut(totals)[4].count = totals["undeliverable"]
      /\ Donut(totals)[4].from = MapThenSumSet(LAMBDA j : totals[ORDER[j]], D)
  BY DEF Donut, ORDER
<1>2. \A v \in PrimaryVerdict : totals[v] = Cardinality(Having(T, DOMAIN T, v))
  BY TotalsCount, AllAreListed
<1>3. \A e \in DOMAIN T : name[e] \in {"deliverable", "risky", "unknown", "undeliverable"}
  BY TableGroups DEF Primary, Status
<1>4. /\ \A e \in rest : name[e] \in {"deliverable", "risky", "unknown"}
      /\ \A e \in DOMAIN T : name[e] # "undeliverable" => e \in rest
  BY <1>3 DEF Having
<1>5. /\ ORDER[1] = "deliverable" /\ ORDER[2] = "risky" /\ ORDER[3] = "unknown"
      /\ D = {1, 2, 3}
  BY DEF ORDER
<1> HIDE DEF totals, D
<1>6. \A e \in rest : place[e] \in D /\ \A j \in D : place[e] = j <=> ORDER[j] = name[e]
  <2>1. \A e \in rest : \E j \in D : ORDER[j] = name[e]
    BY <1>4, <1>5
  <2>2. \A i, j \in D : ORDER[i] = ORDER[j] => i = j
    BY <1>5
  <2> HIDE DEF rest, name
  <2> QED BY <2>1, <2>2
<1>7. CountsGroups(f, D, place, rest)
  <2>1. ASSUME NEW j \in D PROVE {e \in rest : place[e] = j} = Having(T, DOMAIN T, ORDER[j])
    <3>1. Having(T, DOMAIN T, ORDER[j]) = {e \in DOMAIN T : name[e] = ORDER[j]}
      BY DEF Having
    <3>2. ORDER[j] # "undeliverable" /\ rest \subseteq DOMAIN T
      BY <1>5
    <3> HIDE DEF place, rest, name
    <3> QED BY <1>4, <1>6, <3>1, <3>2
  <2>2. \A j \in D : f[j] = Cardinality(Having(T, DOMAIN T, ORDER[j]))
    BY <1>2, <1>5 DEF PrimaryVerdict
  <2> HIDE DEF f, place, rest, name
  <2> QED BY <2>1, <2>2 DEF CountsGroups
<1>8. IsFiniteSet(D) /\ IsFiniteSet(rest)
  <2>1. rest \in SUBSET DOMAIN T
    OBVIOUS
  <2>2. IsFiniteSet(1..3) /\ 1..3 = {1, 2, 3}
    BY SpansFinite
  <2> HIDE DEF rest
  <2> QED BY <1>5, <2>1, <2>2, TableGroups
<1>9. \A j \in D : f[j] = totals[ORDER[j]]
  OBVIOUS
<1> HIDE DEF f, place, rest, name
<1>10. Numbers(f, D) /\ SumOver(f, D) = Cardinality(rest)
  BY <1>6, <1>7, <1>8, GroupsAre
<1>11. ASSUME NEW h PROVE E(h) <=> Adds(h, D, f)
  <2>1. \A s \in SUBSET D : s # {} => totals[ORDER[Taken(s)]] = f[Taken(s)]
    BY <1>9 DEF Taken
  <2>2. [s \in SUBSET D |-> IF s = {} THEN 0 ELSE totals[ORDER[Taken(s)]] + h[s \ {Taken(s)}]]
          = [s \in SUBSET D |-> IF s = {} THEN 0 ELSE f[Taken(s)] + h[s \ {Taken(s)}]]
    BY <2>1
  <2> QED BY <2>2 DEF Adds
<1>12. \E h : E(h)
  BY <1>10, <1>11, SumIs
<1>13. PICK h : E(h) /\ MapThenSumSet(LAMBDA j : totals[ORDER[j]], D) = h[D]
  BY <1>12 DEF MapThenSumSet, MapThenFoldSet, Taken
<1>14. MapThenSumSet(LAMBDA j : totals[ORDER[j]], D) = Cardinality(rest)
  BY <1>10, <1>11, <1>13, SumBy
<1>15. Cardinality(rest) + totals["undeliverable"] = Cardinality(DOMAIN T)
  <2> DEFINE bad == Having(T, DOMAIN T, "undeliverable")
             all == DOMAIN T
  <2>1. /\ bad \in SUBSET all /\ rest = all \ bad /\ totals["undeliverable"] = Cardinality(bad)
        /\ IsFiniteSet(all)
    BY <1>2 DEF Having, rest, PrimaryVerdict, Filed
  <2> HIDE DEF bad, all
  <2>2. IsFiniteSet(bad) /\ IsFiniteSet(rest) /\ bad \cup rest = all /\ bad \cap rest = {}
    BY <1>8, <2>1, FS_Subset
  <2>3. Cardinality(bad \cup rest) = Cardinality(bad) + Cardinality(rest) - Cardinality({})
    BY <2>2, FS_Union
  <2>4. Cardinality({}) = 0 /\ Cardinality(bad) \in Nat /\ Cardinality(rest) \in Nat
    BY <2>2, FS_EmptySet, FS_CardinalityType
  <2> QED BY <2>1, <2>2, <2>3, <2>4 DEF all
<1> QED BY <1>1, <1>14, <1>15 DEF D, totals

\* Each row falls on one day of the week.
LEMMA WeekdaysCount ==
  ASSUME NEW T, Filed(T)
  PROVE  SumOf(WeekdayVolume(ByDay(T))) = Cardinality(DOMAIN T)
<1> DEFINE byDay == ByDay(T)
           volume == WeekdayVolume(byDay)
           g == [e \in DOMAIN T |-> Weekday(T[e].day)]
           days(w) == {day \in DOMAIN byDay : Weekday(day) = w}
           on(w) == {e \in DOMAIN T : g[e] = w}
           size(day) == MapThenSumSet(LAMBDA v : byDay[day][v], DOMAIN byDay[day])
<1>1. /\ DOMAIN byDay = {T[e].day : e \in DOMAIN T}
      /\ IsFiniteSet(DOMAIN byDay) /\ DOMAIN byDay \subseteq Int
      /\ \A day \in DOMAIN byDay : SumOf(byDay[day]) = Cardinality(On(T, day))
  BY DaysCount
<1>2. \A day \in DOMAIN byDay : size(day) = Cardinality(On(T, day))
  BY <1>1 DEF SumOf
<1>3. DOMAIN volume = 0..6 /\ \A w \in 0..6 : volume[w] = MapThenSumSet(size, days(w))
  BY DEF WeekdayVolume
<1>4. \A e \in DOMAIN T : T[e].day \in DOMAIN byDay /\ T[e].day \in Int
  BY <1>1 DEF Filed, Fileable, AddressRecord
<1> HIDE DEF byDay, volume, size
<1>5. ASSUME NEW w \in 0..6 PROVE volume[w] = Cardinality(on(w))
  <2> DEFINE D == days(w)
             rows == on(w)
             f == [day \in D |-> size(day)]
             dayOf == [e \in rows |-> T[e].day]
             E(h) == h = [s \in SUBSET D |-> IF s = {} THEN 0
                                            ELSE size(Taken(s)) + h[s \ {Taken(s)}]]
  <2>1. IsFiniteSet(D) /\ IsFiniteSet(rows)
    <3>1. D \in SUBSET DOMAIN byDay /\ rows \in SUBSET DOMAIN T
      OBVIOUS
    <3> HIDE DEF D, rows
    <3> QED BY <1>1, <3>1, TableGroups, FS_Subset
  <2>2. CountsGroups(f, D, dayOf, rows)
    <3>1. \A day \in D : {e \in rows : dayOf[e] = day} = On(T, day)
      BY <1>4 DEF On
    <3>2. \A day \in D : f[day] = Cardinality(On(T, day))
      BY <1>2
    <3> HIDE DEF f, D, dayOf, rows
    <3> QED BY <3>1, <3>2 DEF CountsGroups
  <2>3. (\A e \in rows : dayOf[e] \in D) /\ \A day \in D : f[day] = size(day)
    BY <1>4
  <2> HIDE DEF f, dayOf, D, rows
  <2>4. Numbers(f, D) /\ SumOver(f, D) = Cardinality(rows)
    BY <2>1, <2>2, <2>3, GroupsAre
  <2>5. ASSUME NEW h PROVE E(h) <=> Adds(h, D, f)
    <3>1. \A s \in SUBSET D : s # {} => size(Taken(s)) = f[Taken(s)]
      BY <2>3 DEF Taken
    <3>2. [s \in SUBSET D |-> IF s = {} THEN 0 ELSE size(Taken(s)) + h[s \ {Taken(s)}]]
            = [s \in SUBSET D |-> IF s = {} THEN 0 ELSE f[Taken(s)] + h[s \ {Taken(s)}]]
      BY <3>1
    <3> QED BY <3>2 DEF Adds
  <2>6. \E h : E(h)
    BY <2>4, <2>5, SumIs
  <2>7. PICK h : E(h) /\ MapThenSumSet(size, D) = h[D]
    BY <2>6 DEF MapThenSumSet, MapThenFoldSet, Taken
  <2>8. MapThenSumSet(size, D) = Cardinality(rows)
    BY <2>4, <2>5, <2>7, SumBy
  <2> QED BY <1>3, <2>8 DEF D, rows
<1>6. SumOf(volume) = SumOver(volume, DOMAIN volume)
  BY DEF SumOf, SumOver, MapThenSumSet, MapThenFoldSet
<1>7. CountsGroups(volume, 0..6, g, DOMAIN T)
  BY <1>5 DEF CountsGroups
<1>8. \A e \in DOMAIN T : g[e] \in 0..6
  BY <1>4 DEF Weekday
<1>9. IsFiniteSet(0..6) /\ IsFiniteSet(DOMAIN T)
  BY SpansFinite DEF Filed
<1> HIDE DEF g
<1>10. SumOver(volume, 0..6) = Cardinality(DOMAIN T)
  BY <1>7, <1>8, <1>9, GroupsAre
<1> QED BY <1>3, <1>6, <1>10 DEF volume, byDay

\* The charts of a calendar day join up, reach it and hold what fell there.
LEMMA ChartsHold ==
  ASSUME NEW T, Filed(T), NEW grain, NEW date \in [month: Nat, day: 1..31],
         date.day <= DaysOf(date.month)
  PROVE  ChartsAgree(T, grain, date)
<1> DEFINE charts == DashboardCharts(T, grain, date)
           this == Build(ByDay(T), PrimaryVerdict, grain, date, 0)
           previous == Build(ByDay(T), PrimaryVerdict, grain, date, 1)
           now == Bounds(grain, date, 0)
           before == Bounds(grain, date, 1)
<1>1. /\ charts.this = this /\ charts.previous = previous
      /\ charts.volume = MapThenSumSet(LAMBDA i : Volume(this[i]), DOMAIN this)
      /\ charts.donut = Donut(Totals(T, AllLists))
  BY DEF DashboardCharts
<1>2. \A i \in 1..12 : this[i].start = now[i].start /\ this[i].end = now[i].end
  BY BuildCounts
<1>3. previous[12].end = before[12].end
  <2>1. 12 \in 1..12
    OBVIOUS
  <2> QED BY <2>1, BuildCounts
<1>4. Joined(now)
  BY BoundsJoin
<1>5. /\ before[12].end + 1 = now[1].start
      /\ now[12].start <= Ordinal(date) /\ Ordinal(date) <= now[12].end
  BY BoundsMeet
<1>6. charts.volume = Cardinality({e \in DOMAIN T :
                 this[1].start <= T[e].day /\ T[e].day <= this[12].end})
  BY <1>1, <1>4, WindowCounts
<1>7. charts.donut[4].from + charts.donut[4].count = Cardinality(DOMAIN T)
  BY <1>1, DonutCloses
<1>8. SumOf(Analytics(T, grain, date).weekdays) = Cardinality(DOMAIN T)
  <2>1. Analytics(T, grain, date).weekdays = WeekdayVolume(ByDay(T))
    BY DEF Analytics
  <2> QED BY <2>1, WeekdaysCount
<1> HIDE DEF charts, this, previous, now, before
<1>9. \A i \in 1..(12 - 1) : this[i + 1].start = this[i].end + 1
  <2>1. \A i \in 1..(12 - 1) : i \in 1..12 /\ i + 1 \in 1..12 /\ i < 12
    OBVIOUS
  <2> QED BY <1>2, <1>4, <2>1 DEF Joined
<1>10. /\ \A i \in 1..(12 - 1) : this[i + 1].start = this[i].end + 1
       /\ previous[12].end + 1 = this[1].start
       /\ this[12].start <= Ordinal(date) /\ Ordinal(date) <= this[12].end
  <2>1. 1 \in 1..12 /\ 12 \in 1..12
    OBVIOUS
  <2> QED BY <1>2, <1>3, <1>5, <1>9, <2>1
<1>11. /\ \A i \in 1..(12 - 1) : charts.this[i + 1].start = charts.this[i].end + 1
       /\ charts.previous[12].end + 1 = charts.this[1].start
       /\ charts.this[12].start <= Ordinal(date) /\ Ordinal(date) <= charts.this[12].end
       /\ charts.volume = Cardinality({e \in DOMAIN T :
                 charts.this[1].start <= T[e].day /\ T[e].day <= charts.this[12].end})
       /\ charts.donut[4].from + charts.donut[4].count = Cardinality(DOMAIN T)
       /\ SumOf(Analytics(T, grain, date).weekdays) = Cardinality(DOMAIN T)
  BY <1>1, <1>6, <1>7, <1>8, <1>10
<1> QED BY <1>11 DEF ChartsAgree, charts, BUCKETS

\* Who has a row is found under the address they typed.
LEMMA LookupsAnswer ==
  ASSUME NEW T, \A e \in DOMAIN T : T[e] \in AddressRecord, NEW e \in DOMAIN T, Parses(e)
  PROVE  Get(T, e) # None
<1>1. e \notin Malformed
  BY FileRunAssumption, EngineAssumption DEF Parses
<1> QED BY <1>1, ListAssumption DEF Get

(***************************************************************************)
(* Safety: once a file is done, the screens agree (ScreensAgree), for      *)
(* every file, every table earlier jobs left, every page size and limit,   *)
(* every list and every day of the calendar: the rollups count the rows    *)
(* once, a card announces what its download holds, the pages linked have   *)
(* the rows their captions speak of and end where the totals say, and the  *)
(* charts hold what fell into the window they show.                        *)
(***************************************************************************)
THEOREM ScreensRight == Spec => []ScreensAgree
<1>1. IInv /\ RunInv => ScreensAgree
  <2> SUFFICES ASSUME IInv, RunInv PROVE ScreensAgree
    OBVIOUS
  <2>1. Filed(table)
    BY DEF RunInv
  <2>2. PICK c \in Cases : today = c.today
    BY DEF RunInv, IInv, Frame
  <2>3. today \in [month: Nat, day: 1..31]
        /\ today.day <= DaysOf(today.month)
    BY <2>2, FileRunAssumption
  <2>4. \A e \in DOMAIN table : table[e] \in AddressRecord
    BY <2>1 DEF Filed, Fileable
  <2>5. TotalsAgree(table) /\ DomainsAgree(table)
    BY <2>1, TotalsHold, DomainsHold
  <2>6. \A preset \in PRESETS : ExportsAgree(table, preset)
    BY <2>1, ExportsHold
  <2>7. /\ \A v \in PrimaryVerdict, size \in Sizes : ContactsMet(table, v, size)
        /\ \A tab \in ListType \cup {AllLists} : TableMet(table, tab)
    BY <2>1, ContactsHold, TableHolds
  <2>8. \A grain \in GRAINS : ChartsAgree(table, grain, today)
    BY <2>1, <2>3, ChartsHold
  <2>9. \A e \in DOMAIN table : Parses(e) => Get(table, e) # None
    BY <2>4, LookupsAnswer
  <2> QED BY <2>5, <2>6, <2>7, <2>8, <2>9 DEF ScreensAgree
<1> QED BY <1>1, RunInvariant, PTL

-----------------------------------------------------------------------------
(* The percentages above them.                                             *)

\* What dividing by a positive number leaves.
LEMMA Divided ==
  ASSUME NEW a \in Nat, NEW d \in Nat \ {0}
  PROVE  /\ a \div d \in Nat
         /\ d * (a \div d) <= a /\ a < d * (a \div d) + d
BY SMTT(30)

\* A product grows with its factor.
LEMMA ProductGrows ==
  ASSUME NEW d \in Nat, NEW n \in Nat, NEW p \in Nat, n <= p
  PROVE  d * n <= d * p
<1> DEFINE j == p - n
<1>1. j \in Nat /\ p = n + j
  OBVIOUS
<1> HIDE DEF j
<1>2. d * p = d * n + d * j
  BY <1>1
<1>3. d * j \in Nat /\ d * n \in Nat
  BY <1>1
<1> DEFINE a == d * n
           b == d * j
<1>4. a \in Nat /\ b \in Nat /\ d * p = a + b
  BY <1>2, <1>3
<1> HIDE DEF a, b
<1>5. a <= a + b
  BY <1>4
<1> QED BY <1>4, <1>5 DEF a

(***************************************************************************)
(* A share of a whole is shown as 0% only if it is nothing and as 100%     *)
(* only if it is everything, whatever the rounding (format.share): the     *)
(* legends of the mix bars claim neither of a part that is there.          *)
(***************************************************************************)
THEOREM SharesClaimNoAbsolute ==
  ASSUME NEW whole \in Nat \ {0}, NEW part \in 0..whole
  PROVE  /\ Share(part, whole) = [sign |-> "=", n |-> 0] <=> part = 0
         /\ Share(part, whole) = [sign |-> "=", n |-> 100] <=> part = whole
<1> DEFINE p == Percent(part, whole)
           d == 2 * whole
           a == 200 * part + whole
           share(sign, n) == [sign |-> sign, n |-> n]
<1>1. /\ a \in Nat /\ d \in Nat \ {0} /\ p = a \div d /\ part \in Nat /\ part <= whole
      /\ whole \in Nat \ {0} /\ a = 200 * part + whole /\ d = 2 * whole
  BY DEF Percent
<1>2. Share(part, whole) = IF part > 0 /\ 100 * part < whole THEN share("<", 1)
                           ELSE IF part < whole /\ 100 * part > 99 * whole THEN share(">", 99)
                           ELSE share("=", p)
  BY DEF Share
<1> HIDE DEF p, a, d
<1>3. p \in Nat /\ d * p <= a /\ a < d * p + d
  BY <1>1, Divided
<1> DEFINE m == d * p
<1>4. m \in Nat /\ (p <= 0 => m = 0) /\ (p >= 1 => d <= m) /\ (p >= 100 => 100 * d <= m)
      /\ (p <= 99 => m <= 99 * d) /\ (p >= 101 => 101 * d <= m)
  <2>1. m \in Nat
    BY <1>1, <1>3
  <2>2. p <= 0 => m = 0
    BY <1>1, <1>3
  <2>3. \A n \in Nat : (n <= p => d * n <= m) /\ (p <= n => m <= d * n)
    BY <1>1, <1>3, ProductGrows
  <2>4. \A n \in Nat : d * n = n * d
    BY <1>1
  <2> HIDE DEF m
  <2>5. (1 <= p => d * 1 <= m) /\ (100 <= p => d * 100 <= m) /\ (101 <= p => d * 101 <= m)
        /\ (p <= 99 => m <= d * 99)
    BY <2>3
  <2> QED BY <1>1, <1>3, <2>1, <2>2, <2>5
<1>5. m <= a /\ a < m + d
  BY <1>3
<1> HIDE DEF m
<1>6. part = 0 => p = 0
  BY <1>1, <1>3, <1>4, <1>5
<1>7. part = whole => p = 100
  BY <1>1, <1>3, <1>4, <1>5
<1>8. 100 * part >= whole => p # 0
  BY <1>1, <1>3, <1>4, <1>5
<1>9. 100 * part <= 99 * whole => p # 100
  BY <1>1, <1>3, <1>4, <1>5
<1>10. \A n, k : share("=", n) = share("=", k) <=> n = k
  <2>1. \A n : share("=", n).n = n
    OBVIOUS
  <2> HIDE DEF share
  <2> QED BY <2>1
<1>11. \A n, k : share("<", n) # share("=", k) /\ share(">", n) # share("=", k)
  <2>1. \A s, n : share(s, n).sign = s
    OBVIOUS
  <2>2. "<" # "=" /\ ">" # "="
    OBVIOUS
  <2> HIDE DEF share
  <2> QED BY <2>1, <2>2
<1> HIDE DEF share
<1>12. Share(part, whole) = share("=", 0) <=> part = 0
  BY <1>1, <1>2, <1>6, <1>8, <1>10, <1>11
<1>13. Share(part, whole) = share("=", 100) <=> part = whole
  BY <1>1, <1>2, <1>7, <1>9, <1>10, <1>11
<1> QED BY <1>12, <1>13 DEF share
=============================================================================
