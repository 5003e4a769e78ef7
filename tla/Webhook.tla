------------------------------ MODULE Webhook ------------------------------
(***************************************************************************)
(* One callback (webhooks.py): deliver's attempts and backoff, run by an   *)
(* arq task that is run again when its worker dies, or by a task of the    *)
(* API process that is lost with it.  Times are in seconds and move by     *)
(* what a POST or a backoff takes; the signature and payload are left out. *)
(* A receiver that is up answers, however slowly.                          *)
(***************************************************************************)
EXTENDS Integers, FiniteSetsExt

CONSTANTS
    MaxAttempts,   \* EVE_WEBHOOK_MAX_ATTEMPTS
    Lasts,         \* bound: how long one POST may last; httpx limits each of its
                   \* phases, and a receiver that trickles may exceed any sum of them
    Durable,       \* delivered by arq
    JobTimeout,    \* arq's job_timeout
    Outages,       \* how long the receiver may be down
    Refuses,       \* the receiver may answer a 4xx
    MaxDeaths      \* bound: processes that die

ASSUME WebhookAssumption ==
    /\ MaxAttempts \in Nat /\ Lasts \subseteq Nat /\ JobTimeout \in Nat
    /\ Durable \in BOOLEAN /\ Refuses \in BOOLEAN
    /\ Outages \subseteq Nat /\ MaxDeaths \in Nat

VARIABLES
    now,       \* seconds since the callback was scheduled
    upAt,      \* when the receiver comes up
    attempt,   \* the attempt deliver is at
    state,     \* where deliver is
    refusals,  \* history: 4xx answers the receiver gave
    began,     \* when this run of deliver began
    slept,     \* history: the backoffs this run has slept through
    acked,     \* the task that ran deliver is off the queue
    deaths     \* processes that died

vars == <<now, upAt, attempt, state, refusals, began, slept, acked, deaths>>

Init ==
    /\ now = 0
    /\ upAt \in Outages
    /\ attempt = 1
    /\ state = "posting"
    /\ refusals = 0 /\ began = 0 /\ slept = 0 /\ acked = FALSE /\ deaths = 0
----------------------------------------------------------------------------
\* The loop runs at least once.
Attempts == Max({1, MaxAttempts})

\* min(60, 2 ^ (n - 1)): from the seventh attempt on the power is above the cap.
Backoff(n) == IF n <= 6 THEN 2 ^ (n - 1) ELSE 60

\* What the backoffs after the first n attempts come to.
Waited[n \in Nat] == IF n = 0 THEN 0 ELSE Waited[n - 1] + Backoff(n)

\* Mutant: the loop stops one attempt short.
MoreAttemptsShort == attempt + 1 < Attempts

\* Mutant: the loop runs one attempt too many.
MoreAttemptsExtra == attempt <= Attempts

MoreAttempts == attempt < Attempts

\* arq cancels a task, with what it is waiting for, at its job_timeout.
Late(t) == Durable /\ t > began + JobTimeout

\* A POST that is over before the task is.
Posted == \E d \in Lasts : ~Late(now + d) /\ now' = now + d

\* A receiver that is up answers 2xx.
Accepted ==
    /\ state = "posting" /\ now >= upAt
    /\ Posted
    /\ state' = "delivered"
    /\ UNCHANGED <<upAt, attempt, refusals, began, slept, acked, deaths>>

\* A 4xx other than 429: the receiver understood and said no.
Refused ==
    /\ state = "posting" /\ now >= upAt /\ Refuses
    /\ Posted
    /\ refusals' = refusals + 1
    /\ state' = "refused"
    /\ UNCHANGED <<upAt, attempt, began, slept, acked, deaths>>

\* A receiver that is down: a 5xx, a 429 or a transport error, at once, at a
\* timeout or after an answer that trickled in.
Failed ==
    /\ state = "posting" /\ now < upAt
    /\ Posted
    /\ state' = IF MoreAttempts THEN "backoff" ELSE "gaveUp"
    /\ UNCHANGED <<upAt, attempt, refusals, began, slept, acked, deaths>>

\* Mutant: the attempt is not counted when the backoff is over.
WakeUncounted ==
    /\ state = "backoff" /\ ~Late(now + Backoff(attempt))
    /\ now' = now + Backoff(attempt)
    /\ slept' = slept + Backoff(attempt)
    /\ state' = "posting"
    /\ UNCHANGED <<upAt, attempt, refusals, began, acked, deaths>>

Wake ==
    /\ state = "backoff" /\ ~Late(now + Backoff(attempt))
    /\ now' = now + Backoff(attempt)
    /\ slept' = slept + Backoff(attempt)
    /\ attempt' = attempt + 1
    /\ state' = "posting"
    /\ UNCHANGED <<upAt, refusals, began, acked, deaths>>

\* The task is cancelled in a POST or in a backoff: that is no Exception, so
\* deliver does not catch it, and arq does not run the task again.
TimesOut ==
    /\ \/ state = "posting" /\ \E d \in Lasts : Late(now + d)
       \/ state = "backoff" /\ Late(now + Backoff(attempt))
    /\ now' = began + JobTimeout
    /\ state' = "lost" /\ acked' = TRUE
    /\ UNCHANGED <<upAt, attempt, refusals, began, slept, deaths>>

Acknowledge ==
    /\ state \in {"delivered", "refused", "gaveUp"} /\ ~acked
    /\ acked' = TRUE
    /\ UNCHANGED <<now, upAt, attempt, state, refusals, began, slept, deaths>>

\* The process dies, before or after deliver returned: arq runs a task that is
\* still on the queue again, from its first attempt.
ProcessDies ==
    /\ ~acked /\ state # "lost"
    /\ deaths < MaxDeaths
    /\ deaths' = deaths + 1
    /\ IF Durable THEN state' = "posting" /\ attempt' = 1 /\ slept' = 0
                  ELSE state' = "lost" /\ UNCHANGED <<attempt, slept>>
    /\ began' = now
    /\ UNCHANGED <<now, upAt, refusals, acked>>

Next ==
    \/ Accepted \/ Refused \/ Failed \/ Wake \/ TimesOut
    \/ Acknowledge \/ ProcessDies

Spec == Init /\ [][Next]_vars
----------------------------------------------------------------------------
TypeOK ==
    /\ now \in Nat /\ upAt \in Outages
    /\ attempt \in 1..Attempts
    /\ state \in {"posting", "backoff", "delivered", "refused", "gaveUp", "lost"}
    /\ refusals \in Nat /\ began \in Nat /\ slept \in Nat
    /\ acked \in BOOLEAN /\ deaths \in 0..MaxDeaths

\* What deliver does promise of a receiver that is down: it is given up only
\* when it stayed down for longer than the backoffs come to, however quickly each
\* attempt failed and however often the task was started again.  With the
\* default five attempts that is fifteen seconds, and not the ten minutes of
\* webhooks.py:11-12: TenMinutesSurvived.
BriefOutageSurvived ==
    state = "gaveUp" => upAt > began + Waited[Attempts - 1]

\* What a dead receiver costs its slot in sleep: no run of deliver sleeps for
\* longer than the backoffs between its attempts, fifteen seconds by default and
\* over a minute only from seven attempts on, and none gives up before it took them
\* all.  How long its POSTs last is bounded by arq's job_timeout alone.
BackoffSpent ==
    /\ slept <= Waited[Attempts - 1]
    /\ state = "gaveUp" => slept = Waited[Attempts - 1]

\* "A receiver that is down for ten minutes still gets the callback"
\* (webhooks.py:11-12, of a delivery by arq): it is not given up for good.
TenMinutesSurvived ==
    Durable /\ upAt <= 600 => ~(state = "gaveUp" /\ acked)
============================================================================
