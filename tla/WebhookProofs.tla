---------------------------- MODULE WebhookProofs ----------------------------
(***************************************************************************)
(* Proofs about Webhook for every number of attempts, outage and duration. *)
(***************************************************************************)
EXTENDS Webhook, NaturalsInduction, WellFoundedInduction, TLAPS

LEMMA AttemptsAre ==
    /\ Attempts \in Nat \ {0}
    /\ Attempts = IF MaxAttempts < 1 THEN 1 ELSE MaxAttempts
<1> DEFINE m == IF MaxAttempts < 1 THEN 1 ELSE MaxAttempts
<1>1. m \in {1, MaxAttempts} /\ \A y \in {1, MaxAttempts} : m >= y
  BY WebhookAssumption
<1>2. \A x \in {1, MaxAttempts} : (\A y \in {1, MaxAttempts} : x >= y) => x = m
  BY WebhookAssumption
<1>3. Attempts = m
  BY <1>1, <1>2 DEF Attempts, Max
<1> QED
  BY <1>3, WebhookAssumption

\* A backoff is never negative.
LEMMA BackoffNat == \A n \in Nat \ {0} : Backoff(n) \in Nat
<1>1. /\ Backoff(1) = 1 /\ Backoff(2) = 2 /\ Backoff(3) = 4
      /\ Backoff(4) = 8 /\ Backoff(5) = 16 /\ Backoff(6) = 32
  BY DEF Backoff
<1>2. \A n \in Nat : n > 6 => Backoff(n) = 60
  BY DEF Backoff
<1>3. \A n \in Nat \ {0} : n \in {1, 2, 3, 4, 5, 6} \/ n > 6
  OBVIOUS
<1> QED
  BY <1>1, <1>2, <1>3

\* The sum of the backoffs in closed form: 2 ^ n - 1 seconds as long as they
\* double, a minute more for each that is capped.
Total(n) == CASE n = 0 -> 0 [] n = 1 -> 1 [] n = 2 -> 3 [] n = 3 -> 7
              [] n = 4 -> 15 [] n = 5 -> 31 [] n > 5 -> 63 + 60 * (n - 6)

LEMMA TotalAdds ==
    /\ Total(0) = 0
    /\ \A n \in Nat : Total(n) \in Nat
    /\ \A n \in Nat \ {0} : Total(n) = Total(n - 1) + Backoff(n)
<1>0. \A n \in Nat : n \in {0, 1, 2, 3, 4, 5, 6} \/ n > 6
  OBVIOUS
<1>1. /\ Total(0) = 0 /\ Total(1) = 1 /\ Total(2) = 3 /\ Total(3) = 7
      /\ Total(4) = 15 /\ Total(5) = 31
  BY DEF Total
<1>2. \A n \in Nat : n > 5 => Total(n) = 63 + 60 * (n - 6)
  BY DEF Total
<1>3. /\ Backoff(1) = 1 /\ Backoff(2) = 2 /\ Backoff(3) = 4
      /\ Backoff(4) = 8 /\ Backoff(5) = 16 /\ Backoff(6) = 32
  BY DEF Backoff
<1>4. \A n \in Nat : n > 6 => Backoff(n) = 60
  BY DEF Backoff
<1>5. \A n \in Nat : Total(n) \in Nat
  BY <1>0, <1>1, <1>2
<1>6. \A n \in {1, 2, 3, 4, 5, 6} : Total(n) = Total(n - 1) + Backoff(n)
  BY <1>1, <1>2, <1>3
<1>7. ASSUME NEW n \in Nat, n > 6
      PROVE  Total(n) = Total(n - 1) + Backoff(n)
  <2>1. Total(n) = 63 + 60 * (n - 6)
    BY <1>2, <1>7
  <2>2. Total(n - 1) = 63 + 60 * ((n - 1) - 6)
    BY <1>2, <1>7
  <2> QED
    BY <2>1, <2>2, <1>4, <1>7
<1> QED
  BY <1>0, <1>1, <1>5, <1>6, <1>7

Less == {s \in Nat \X Nat : s[1] < s[2]}

LEMMA LessIsWellFounded == IsWellFoundedOn(Less, Nat)
  BY NatLessThanWellFounded DEF OpToRel, Less

\* The function Waited exists, and is the closed form: were there an n where it
\* is not, the least of them would not be the first, and the one before it would
\* give it its value.
LEMMA WaitedIs == \A n \in Nat : Waited[n] = Total(n)
<1> DEFINE Sums(f) == f = [n \in Nat |-> IF n = 0 THEN 0 ELSE f[n - 1] + Backoff(n)]
           g == [n \in Nat |-> Total(n)]
<1>1. Sums(g)
  BY TotalAdds
<1>2. Waited = CHOOSE f : Sums(f)
  BY DEF Waited
<1>3. Sums(Waited)
  <2> HIDE DEF Sums, g
  <2> QED
    BY <1>1, <1>2
<1>4. /\ Waited[0] = 0
      /\ \A n \in Nat \ {0} : Waited[n] = Waited[n - 1] + Backoff(n)
  BY <1>3
<1> HIDE DEF Sums
<1> DEFINE Wrong == {n \in Nat : Waited[n] # Total(n)}
<1>5. CASE Wrong # {}
  <2>1. PICK m \in Wrong : \A n \in Wrong : <<n, m>> \notin Less
    <3>1. Wrong \in SUBSET Nat
      OBVIOUS
    <3> HIDE DEF Wrong
    <3> QED
      BY <1>5, <3>1, LessIsWellFounded, WFMin
  <2>2. m \in Nat \ {0} /\ Waited[m] # Total(m)
    BY <1>4, TotalAdds
  <2>3. m - 1 \in Nat /\ m - 1 \notin Wrong
    <3> HIDE DEF Wrong
    <3>1. m - 1 \in Nat /\ m \in Nat /\ m - 1 < m
      BY <2>2
    <3>2. <<m - 1, m>> \in Less
      BY <3>1 DEF Less
    <3> QED
      BY <2>1, <3>1, <3>2
  <2> QED
    BY <1>4, <2>2, <2>3, TotalAdds
<1> QED
  BY <1>5

LEMMA WaitedAdds ==
    /\ Waited[0] = 0
    /\ \A n \in Nat : Waited[n] \in Nat
    /\ \A n \in Nat \ {0} : Waited[n] = Waited[n - 1] + Backoff(n)
  BY WaitedIs, TotalAdds
----------------------------------------------------------------------------
\* The backoffs only add up.
LEMMA WaitedGrows == \A m, n \in Nat : m <= n => Waited[m] <= Waited[n]
<1>1. ASSUME NEW m \in Nat, NEW n \in Nat, m <= n
      PROVE  Total(m) <= Total(n)
  <2>1. \A k \in Nat : k \in {0, 1, 2, 3, 4, 5} \/ k > 5
    OBVIOUS
  <2>2. /\ Total(0) = 0 /\ Total(1) = 1 /\ Total(2) = 3 /\ Total(3) = 7
        /\ Total(4) = 15 /\ Total(5) = 31
    BY DEF Total
  <2>3. \A k \in Nat : k > 5 => Total(k) = 63 + 60 * (k - 6)
    BY DEF Total
  <2> QED
    BY <1>1, <2>1, <2>2, <2>3
<1> QED
  BY <1>1, WaitedIs

\* A delivery that ended after its last attempt is at it, and one that backs off
\* has an attempt left.
Stages ==
    /\ state = "backoff" => attempt < Attempts
    /\ state = "gaveUp" => attempt = Attempts

\* A run has slept through the backoffs of the attempts before this one, and it
\* began no later than that before now.
Elapsed ==
    /\ slept = Waited[attempt - 1]
    /\ state \in {"posting", "backoff"} => now >= began + Waited[attempt - 1]

IInv == TypeOK /\ Stages /\ Elapsed /\ BriefOutageSurvived

LEMMA InitInv == Init => IInv
<1> SUFFICES ASSUME Init
             PROVE  IInv
  OBVIOUS
<1>1. TypeOK
  <2>1. 1 \in 1..Attempts /\ 0 \in 0..MaxDeaths /\ 0 \in Nat
    BY AttemptsAre, WebhookAssumption
  <2> QED
    BY <2>1 DEF Init, TypeOK
<1>2. Stages /\ BriefOutageSurvived
  BY DEF Init, Stages, BriefOutageSurvived
<1>3. Elapsed
  BY WaitedAdds DEF Init, Elapsed
<1> QED
  BY <1>1, <1>2, <1>3 DEF IInv

LEMMA NextInv == IInv /\ [Next]_vars => IInv'
<1> SUFFICES ASSUME IInv, [Next]_vars
             PROVE  IInv'
  OBVIOUS
<1> DEFINE W == Waited[attempt - 1]
<1>0. /\ TypeOK /\ Stages /\ Elapsed /\ BriefOutageSurvived
      /\ attempt \in Nat \ {0} /\ now \in Nat /\ began \in Nat /\ slept \in Nat
      /\ Attempts \in Nat \ {0} /\ upAt \in Nat /\ JobTimeout \in Nat
  BY AttemptsAre, WebhookAssumption DEF IInv, TypeOK
<1>1. /\ W \in Nat
      /\ Waited[attempt] = W + Backoff(attempt)
      /\ Backoff(attempt) \in Nat
  <2>1. attempt - 1 \in Nat /\ (attempt - 1) + 1 = attempt
    BY <1>0
  <2> QED
    BY <1>0, <2>1, WaitedAdds, BackoffNat
<1>p. Posted => now' \in Nat /\ now' >= now
  <2>1. ASSUME NEW d \in Lasts, now' = now + d
        PROVE  now' \in Nat /\ now' >= now
    BY <1>0, <2>1, WebhookAssumption
  <2> QED
    BY <2>1 DEF Posted
<1>2. ASSUME state = "posting", state' \in {"delivered", "refused"}, refusals' \in Nat, Posted,
             UNCHANGED <<upAt, attempt, began, slept, acked, deaths>>
      PROVE  IInv'
  <2>1. TypeOK'
    BY <1>0, <1>2, <1>p DEF TypeOK
  <2>2. Stages' /\ BriefOutageSurvived'
    BY <1>2 DEF Stages, BriefOutageSurvived
  <2>3. Elapsed'
    BY <1>0, <1>2 DEF Elapsed
  <2> QED
    BY <2>1, <2>2, <2>3 DEF IInv
<1>3. CASE Failed
  <2>1. /\ now' \in Nat /\ now' >= now
        /\ state' = IF attempt < Attempts THEN "backoff" ELSE "gaveUp"
        /\ UNCHANGED <<upAt, attempt, refusals, began, slept, acked, deaths>>
    BY <1>3, <1>p DEF Failed, MoreAttempts
  <2>2. now >= began + W /\ slept = W /\ now < upAt
    BY <1>3 DEF Failed, IInv, Elapsed
  <2>3. attempt <= Attempts
    BY <1>0 DEF TypeOK
  <2>4. TypeOK'
    BY <1>0, <2>1 DEF TypeOK
  <2>5. Stages'
    BY <1>0, <2>1, <2>3 DEF Stages
  <2> HIDE DEF W
  <2>6. now' >= began + W /\ upAt > began + W
    BY <1>0, <1>1, <2>1, <2>2
  <2>7. state' = "gaveUp" => attempt - 1 = Attempts - 1
    BY <1>0, <2>1, <2>3
  <2>8. Elapsed'
    BY <2>1, <2>2, <2>6 DEF Elapsed, W
  <2>9. BriefOutageSurvived'
    BY <2>1, <2>6, <2>7 DEF BriefOutageSurvived, W
  <2> QED
    BY <2>4, <2>5, <2>8, <2>9 DEF IInv
<1>4. CASE Wake
  <2>1. /\ state = "backoff" /\ now' = now + Backoff(attempt) /\ attempt' = attempt + 1
        /\ slept' = slept + Backoff(attempt)
        /\ state' = "posting" /\ UNCHANGED <<upAt, refusals, began, acked, deaths>>
    BY <1>4 DEF Wake
  <2>2. attempt < Attempts /\ now >= began + W /\ slept = W
    BY <1>0, <2>1 DEF Stages, Elapsed
  <2>3. TypeOK'
    BY <1>0, <1>1, <2>1, <2>2 DEF TypeOK
  <2>4. Stages' /\ BriefOutageSurvived'
    BY <2>1 DEF Stages, BriefOutageSurvived
  <2>5. attempt' - 1 = attempt
    BY <1>0, <2>1
  <2> HIDE DEF W
  <2>6. now' >= began + Waited[attempt] /\ slept' = Waited[attempt]
    BY <1>0, <1>1, <2>1, <2>2
  <2>7. Elapsed'
    BY <2>1, <2>5, <2>6 DEF Elapsed
  <2> QED
    BY <2>3, <2>4, <2>7 DEF IInv
<1>5. CASE TimesOut
  <2>1. /\ now' = began + JobTimeout /\ state' = "lost" /\ acked' = TRUE
        /\ UNCHANGED <<upAt, attempt, refusals, began, slept, deaths>>
    BY <1>5 DEF TimesOut
  <2>2. now' \in Nat
    BY <1>0, <2>1
  <2>3. TypeOK'
    BY <1>0, <2>1, <2>2 DEF TypeOK
  <2> QED
    BY <1>0, <2>1, <2>3 DEF IInv, Stages, Elapsed, BriefOutageSurvived
<1>6. CASE Acknowledge
  BY <1>6 DEF Acknowledge, IInv, TypeOK, Stages, Elapsed, BriefOutageSurvived
<1>7. CASE ProcessDies
  <2>1. CASE Durable
    <3>1. /\ state' = "posting" /\ attempt' = 1 /\ slept' = 0 /\ began' = now
          /\ deaths' \in 0..MaxDeaths
          /\ UNCHANGED <<now, upAt, refusals, acked>>
      BY <1>0, <1>7, <2>1, WebhookAssumption DEF ProcessDies, TypeOK
    <3>2. TypeOK'
      BY <1>0, <3>1 DEF TypeOK
    <3>3. Stages' /\ BriefOutageSurvived'
      BY <3>1 DEF Stages, BriefOutageSurvived
    <3>4. Elapsed'
      <4>1. attempt' - 1 = 0
        BY <3>1
      <4>2. Waited[attempt' - 1] = 0
        BY <4>1, WaitedAdds
      <4> QED
        BY <1>0, <3>1, <4>2 DEF Elapsed
    <3> QED
      BY <3>2, <3>3, <3>4 DEF IInv
  <2>2. CASE ~Durable
    <3>1. /\ state' = "lost" /\ began' = now /\ deaths' \in 0..MaxDeaths
          /\ UNCHANGED <<now, upAt, attempt, slept, refusals, acked>>
      BY <1>0, <1>7, <2>2, WebhookAssumption DEF ProcessDies, TypeOK
    <3> QED
      BY <1>0, <3>1 DEF IInv, TypeOK, Stages, Elapsed, BriefOutageSurvived
  <2> QED
    BY <2>1, <2>2
<1>8. CASE Accepted
  BY <1>0, <1>2, <1>8 DEF Accepted, TypeOK
<1>9. CASE Refused
  BY <1>0, <1>2, <1>9 DEF Refused, TypeOK
<1>10. CASE UNCHANGED vars
  BY <1>10 DEF vars, IInv, TypeOK, Stages, Elapsed, BriefOutageSurvived
<1> QED
  BY <1>3, <1>4, <1>5, <1>6, <1>7, <1>8, <1>9, <1>10 DEF Next

LEMMA Invariance == Spec => []IInv
  BY InitInv, NextInv, PTL DEF Spec

\* Every state of a delivery is well typed: the loop of deliver is never past its
\* last attempt.
THEOREM TypeCorrect == Spec => []TypeOK
<1>1. IInv => TypeOK
  BY DEF IInv
<1> QED
  BY <1>1, Invariance, PTL

\* deliver gives a receiver up only when it was down for longer than all the
\* backoffs together, counted from the start of the run that gave it up.
THEOREM OutageSurvived == Spec => []BriefOutageSurvived
<1>1. IInv => BriefOutageSurvived
  BY DEF IInv
<1> QED
  BY <1>1, Invariance, PTL

\* However long its POSTs last, one run of deliver sleeps in its slot for no longer
\* than the backoffs between its attempts, and gives up only after all of them.
THEOREM SleepBounded == Spec => []BackoffSpent
<1>1. ASSUME IInv
      PROVE  BackoffSpent
  <2>1. /\ attempt \in Nat \ {0} /\ attempt <= Attempts /\ Attempts \in Nat \ {0}
        /\ slept = Waited[attempt - 1]
    BY <1>1, AttemptsAre DEF IInv, TypeOK, Elapsed
  <2>2. /\ attempt - 1 \in Nat /\ Attempts - 1 \in Nat /\ attempt - 1 <= Attempts - 1
    BY <2>1
  <2>3. Waited[attempt - 1] <= Waited[Attempts - 1]
    BY <2>2, WaitedGrows
  <2>4. state = "gaveUp" => attempt = Attempts
    BY <1>1 DEF IInv, Stages
  <2> QED
    BY <2>1, <2>3, <2>4 DEF BackoffSpent
<1> QED
  BY <1>1, Invariance, PTL
=============================================================================
