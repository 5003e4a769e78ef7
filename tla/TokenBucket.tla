----------------------------- MODULE TokenBucket -----------------------------
(***************************************************************************)
(* The token buckets (kv.py) and their two users: the limiter that a probe *)
(* waits on before it talks to a mail exchanger (smtp_infra/rate_limiter)  *)
(* and the check that refuses an API request over its budget (ratelimit).  *)
(*                                                                         *)
(* A token is Unit units, of which a bucket gains Refill per tick, so that *)
(* a rate need not be whole; arithmetic is exact where the code's is       *)
(* floating point.  A tick is a second.  Shared chooses the Redis script,  *)
(* whose clock is the server's and may be set back, over the dictionary of *)
(* one process, whose clock is monotonic.                                  *)
(***************************************************************************)
EXTENDS Integers, Sequences

CONSTANTS
    Key,        \* bucket keys
    Unit,       \* units in a token
    Refill,     \* units per tick, by key
    Capacity,   \* units, by key
    Prober,     \* tasks that call acquire
    Caller,     \* API clients that call check
    KeyOf,      \* the bucket of each of them
    Patience,   \* the longest sleep of acquire: 5
    Tries,      \* its safety bound: 10 000
    Margin,     \* what is added to an idle bucket's life: 60
    Shared,     \* TRUE: Redis
    MaxBack,    \* bound on how often the server's clock is set back
    MaxTime,    \* bound on the clock
    NoBucket

Client == Prober \cup Caller

ASSUME BucketAssumption ==
    /\ Unit \in Nat \ {0}
    /\ Refill \in [Key -> Nat \ {0}]
    /\ Capacity \in [Key -> Nat] /\ \A k \in Key : Capacity[k] >= Unit
    /\ KeyOf \in [Client -> Key]
    /\ Patience \in Nat \ {0} /\ Tries \in Nat \ {0} /\ Margin \in Nat
    /\ Shared \in BOOLEAN /\ MaxBack \in Nat /\ MaxTime \in Nat
    /\ Prober \cap Caller = {}
    /\ NoBucket \notin [tokens : Int, at : Int]

VARIABLES
    bucket,     \* tokens and the time they were counted, by key
    now,        \* the clock the store reads
    pc,         \* "idle", "trying", "served" or "through", by client
    sleep,      \* what is left of a client's sleep
    tries,      \* calls of the bucket by this acquire that brought no token
    elapsed,    \* history: ticks that have passed, whatever the clock says
    backs,      \* times the clock was set back
    grants,     \* history: when tokens were granted, by key
    beaten      \* history: tokens others were granted since this client arrived

vars == <<bucket, now, pc, sleep, tries, elapsed, backs, grants, beaten>>

CeilDiv(a, b) == (a + b - 1) \div b

Init ==
    /\ bucket = [k \in Key |-> NoBucket]
    /\ now = 0 /\ elapsed = 0 /\ backs = 0
    /\ pc = [c \in Client |-> "idle"]
    /\ sleep = [c \in Client |-> 0]
    /\ tries = [c \in Client |-> 0]
    /\ grants = [k \in Key |-> <<>>]
    /\ beaten = [c \in Client |-> 0]
----------------------------------------------------------------------------
Capped(k, n) == IF n < Capacity[k] THEN n ELSE Capacity[k]

\* Mutant: a clock set back takes tokens away.
LevelRewound(k) ==
    IF bucket[k] = NoBucket THEN Capacity[k]
    ELSE Capped(k, bucket[k].tokens + (now - bucket[k].at) * Refill[k])

\* What the bucket holds now.  A clock set back refills nothing.
Level(k) ==
    IF bucket[k] = NoBucket THEN Capacity[k]
    ELSE Capped(k, bucket[k].tokens
                     + (IF now < bucket[k].at THEN 0 ELSE now - bucket[k].at) * Refill[k])

\* incr_float_window: one token is taken if there is one, and in any case the
\* bucket is brought up to date.
Debit(k) ==
    bucket' = [bucket EXCEPT ![k] =
        [tokens |-> IF Level(k) >= Unit THEN Level(k) - Unit ELSE Level(k), at |-> now]]

\* The ticks until there is a token again: what is missing, at the refill rate.
Wait(k) == CeilDiv(Unit - Level(k), Refill[k])

\* The token goes to c, ahead of whoever else is after one.
Grant(c) ==
    LET k == KeyOf[c] IN
    /\ grants' = [grants EXCEPT ![k] = Append(@, elapsed)]
    /\ beaten' = [d \in Client |->
           IF d = c THEN 0
           ELSE IF KeyOf[d] = k /\ pc[d] = "trying" THEN beaten[d] + 1 ELSE beaten[d]]
    /\ pc' = [pc EXCEPT ![c] = "served"]
    /\ tries' = [tries EXCEPT ![c] = 0]
    /\ UNCHANGED sleep

Refused(c, ticks) ==
    /\ sleep' = [sleep EXCEPT ![c] = ticks]
    /\ tries' = [tries EXCEPT ![c] = @ + 1]
    /\ UNCHANGED <<pc, grants, beaten>>

\* A probe reaches acquire, or a caller sends a request.
Arrive(c) ==
    /\ pc[c] # "trying"
    /\ pc' = [pc EXCEPT ![c] = "trying"]
    /\ UNCHANGED <<bucket, now, sleep, tries, elapsed, backs, grants, beaten>>

\* asyncio.sleep returns no earlier than it was asked to.
Awake(c) == pc[c] = "trying" /\ sleep[c] = 0

\* Mutant: the sleep is a tick, whatever the wait.
AcquireNapping(p) ==
    LET k == KeyOf[p] IN
    /\ Awake(p) /\ tries[p] < Tries
    /\ Debit(k)
    /\ IF Level(k) >= Unit THEN Grant(p) ELSE Refused(p, 1)
    /\ UNCHANGED <<now, elapsed, backs>>

\* acquire: take a token, or sleep until there should be one, at most Patience.
Acquire(p) ==
    LET k == KeyOf[p] IN
    /\ Awake(p) /\ tries[p] < Tries
    /\ Debit(k)
    /\ IF Level(k) >= Unit THEN Grant(p)
       ELSE Refused(p, IF Wait(k) < Patience THEN Wait(k) ELSE Patience)
    /\ UNCHANGED <<now, elapsed, backs>>

\* The loop runs out: acquire returns as it does with a token.
RunOut(p) ==
    /\ Awake(p) /\ tries[p] >= Tries
    /\ pc' = [pc EXCEPT ![p] = "through"]
    /\ tries' = [tries EXCEPT ![p] = 0]
    /\ beaten' = [beaten EXCEPT ![p] = 0]
    /\ UNCHANGED <<bucket, now, sleep, elapsed, backs, grants>>

\* Mutant: Retry-After is the wait rounded down.
CheckRoundedDown(c) ==
    LET k == KeyOf[c] IN
    /\ Awake(c)
    /\ Debit(k)
    /\ IF Level(k) >= Unit THEN Grant(c)
       ELSE Refused(c, (Unit - Level(k)) \div Refill[k])
    /\ UNCHANGED <<now, elapsed, backs>>

\* check: serve the request, or refuse it with a Retry-After of the wait's
\* whole seconds and one more, which the caller respects.
Check(c) ==
    LET k == KeyOf[c] IN
    /\ Awake(c)
    /\ Debit(k)
    /\ IF Level(k) >= Unit THEN Grant(c)
       ELSE Refused(c, (Unit - Level(k)) \div Refill[k] + 1)
    /\ UNCHANGED <<now, elapsed, backs>>

Tick ==
    /\ elapsed < MaxTime
    /\ now' = now + 1 /\ elapsed' = elapsed + 1
    /\ sleep' = [c \in Client |-> IF sleep[c] > 0 THEN sleep[c] - 1 ELSE 0]
    /\ UNCHANGED <<bucket, pc, tries, backs, grants, beaten>>

\* The Redis server's clock is corrected backwards.
SetBack ==
    /\ Shared /\ backs < MaxBack /\ now > 0
    /\ backs' = backs + 1
    /\ now' = now - 1
    /\ UNCHANGED <<bucket, pc, sleep, tries, elapsed, grants, beaten>>

\* Mutant: an idle bucket is dropped after a fixed time.
ExpireSoon(k) ==
    /\ Shared /\ bucket[k] # NoBucket
    /\ now - bucket[k].at >= Margin
    /\ bucket' = [bucket EXCEPT ![k] = NoBucket]
    /\ UNCHANGED <<now, pc, sleep, tries, elapsed, backs, grants, beaten>>

\* EXPIRE: an idle bucket is dropped once it would have been full for a while.
Expire(k) ==
    /\ Shared /\ bucket[k] # NoBucket
    /\ now - bucket[k].at >= CeilDiv(Capacity[k], Refill[k]) + Margin
    /\ bucket' = [bucket EXCEPT ![k] = NoBucket]
    /\ UNCHANGED <<now, pc, sleep, tries, elapsed, backs, grants, beaten>>

Next ==
    \/ \E c \in Client : Arrive(c)
    \/ \E p \in Prober : Acquire(p) \/ RunOut(p)
    \/ \E c \in Caller : Check(c)
    \/ \E k \in Key : Expire(k)
    \/ Tick \/ SetBack

Spec == Init /\ [][Next]_vars
----------------------------------------------------------------------------
Bucket == [tokens : Nat, at : Nat]

TypeOK ==
    /\ bucket \in [Key -> Bucket \cup {NoBucket}]
    /\ now \in Nat /\ elapsed \in Nat /\ backs \in Nat
    /\ pc \in [Client -> {"idle", "trying", "served", "through"}]
    /\ sleep \in [Client -> Nat]
    /\ tries \in [Client -> Nat]
    /\ grants \in [Key -> Seq(Nat)]
    /\ beaten \in [Client -> Nat]

\* No stretch of time, whenever it starts and ends, sees more tokens granted
\* than the capacity and what that much time refills: not after a wait that
\* recorded a fraction, nor across a drop of an idle bucket, nor for a clock
\* that is set back and gains the same second twice.
WithinRate ==
    \A k \in Key : \A i, j \in DOMAIN grants[k] :
        i <= j => (j - i + 1) * Unit <= Capacity[k] + (grants[k][j] - grants[k][i]) * Refill[k]

\* A probe is kept waiting only by other probes: every turn it loses beyond the
\* sleeps one token takes was a token somebody else was granted meanwhile, so
\* the safety bound is out of reach of fewer than that many.
LosesOnlyToOthers ==
    backs = 0 => \A p \in Prober :
        LET k == KeyOf[p] IN
        tries[p] <= (1 + beaten[p]) * CeilDiv(CeilDiv(Unit, Refill[k]), Patience)

\* A caller that does what Retry-After says is served: it is refused a second
\* time only if the budget went to another request of its key, or the clock was
\* set back.
RetryAfterIsEnough ==
    backs = 0 => \A c \in Caller : tries[c] <= 1 + beaten[c]
============================================================================
