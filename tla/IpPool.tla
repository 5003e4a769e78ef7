------------------------------- MODULE IpPool -------------------------------
(***************************************************************************)
(* The pool of egress IPs (ip_pool.py): rotation, cooldown, daily cap of   *)
(* the IPs still warming up, and the roll of the UTC day, which happens    *)
(* when an IP is taken.  acquire and report run under the pool's lock and  *)
(* await nothing inside, so each is one step.  The DNSBL monitor           *)
(* (blacklist.py) cools an IP at any time.                                 *)
(*                                                                         *)
(* IPs are 1..N.  A reputation is in hundredths, a cooldown is the time    *)
(* left, a warm-up stage is its only tested fact (0 or higher).  A pool    *)
(* with no IP (acquire returns None at once) is left out: N is positive.   *)
(***************************************************************************)
EXTENDS Integers

CONSTANTS
    Prober,     \* tasks that hold an IP between acquire and report
    N,          \* number of egress IPs
    Cap,        \* EVE_IP_WARMUP_DAILY_CAP
    Cooldown,   \* cooldown_seconds
    MaxProbes   \* bound: IPs taken in a behaviour

ASSUME PoolAssumption ==
    /\ N \in Nat \ {0}
    /\ Cap \in Nat /\ Cooldown \in Nat /\ MaxProbes \in Nat

VARIABLES
    count,      \* daily_count of each IP
    cool,       \* time left of each IP's cooldown
    rep,        \* reputation of each IP, in hundredths
    warm,       \* warmup_stage > 0
    turn,       \* _i modulo the number of IPs
    newDay,     \* the UTC day turned since the pool last rolled
    held,       \* the IP each prober took: Idle, DefaultRoute or 1..N
    sentToday,  \* history: probes that left each IP in this UTC day
    passed,     \* history: times in a row a healthy IP was not the one taken
    probes      \* IPs taken so far

poolVars == <<count, cool, rep, warm, turn, newDay, held, sentToday, passed, probes>>

IP == 1..N
Idle == -1
DefaultRoute == 0

Init ==
    /\ count = [i \in IP |-> 0]
    /\ cool = [i \in IP |-> 0]
    /\ rep = [i \in IP |-> 100]
    /\ warm = [i \in IP |-> FALSE]
    /\ turn = 0
    /\ newDay = FALSE
    /\ held = [p \in Prober |-> Idle]
    /\ sentToday = [i \in IP |-> 0]
    /\ passed = [i \in IP |-> 0]
    /\ probes = 0
----------------------------------------------------------------------------
\* Mutant: promote_warmup advances the stage and keeps the daily counters.
CountKept(i) == count[i]

\* promote_warmup, run by _roll_day when the day turned.
RolledCount(i) == IF newDay THEN 0 ELSE count[i]
RolledWarm(i)  == warm[i] \/ (newDay /\ rep[i] >= 80)

\* Mutant: the cap is checked with > instead of >=.
HealthyOverCap(i) == cool[i] = 0 /\ (RolledWarm(i) \/ RolledCount(i) <= Cap)

Healthy(i) == cool[i] = 0 /\ (RolledWarm(i) \/ RolledCount(i) < Cap)

\* Mutant: the scan always starts at the first IP.
FromFirst(k) == k

\* The k-th IP the scan looks at.
Scanned(k) == ((turn + k - 1) % N) + 1

FirstHealthy == {k \in 1..N :
    Healthy(Scanned(k)) /\ \A m \in 1..(k - 1) : ~Healthy(Scanned(m))}

Taken(p, ip) ==
    /\ held' = [held EXCEPT ![p] = ip]
    /\ count' = [i \in IP |-> RolledCount(i) + (IF i = ip THEN 1 ELSE 0)]
    /\ warm' = [i \in IP |-> RolledWarm(i)]
    /\ newDay' = FALSE
    /\ sentToday' = [i \in IP |-> sentToday[i] + (IF i = ip THEN 1 ELSE 0)]
    /\ passed' = [i \in IP |-> IF i # ip /\ Healthy(i) THEN passed[i] + 1 ELSE 0]
    /\ probes' = probes + 1
    /\ UNCHANGED <<cool, rep>>

\* acquire: the first healthy IP of the scan, or None.
Acquire(p) ==
    /\ held[p] = Idle
    /\ probes < MaxProbes
    /\ \/ \E k \in FirstHealthy :
            /\ Taken(p, Scanned(k))
            /\ turn' = (turn + k) % N
       \/ /\ \A i \in IP : ~Healthy(i)
          /\ Taken(p, DefaultRoute)
          /\ UNCHANGED turn

\* Mutant: the reputation of an IP is not floored at zero.
ReputationUnfloored(r, event) ==
    CASE event = "block"    -> r - 50
      [] event = "tempfail" -> r - 5
      [] event = "ok"       -> r + 1

\* What report does to the reputation.
Reputation(r, event) ==
    CASE event = "block"    -> IF r > 50 THEN r - 50 ELSE 0
      [] event = "tempfail" -> IF r > 5 THEN r - 5 ELSE 0
      [] event = "ok"       -> IF r < 100 THEN r + 1 ELSE 100

\* report: the default route has no state to update.
Report(p, event) ==
    /\ held[p] # Idle
    /\ held' = [held EXCEPT ![p] = Idle]
    /\ IF held[p] = DefaultRoute
       THEN UNCHANGED <<rep, cool>>
       ELSE /\ rep' = [rep EXCEPT ![held[p]] = Reputation(@, event)]
            /\ cool' = IF event = "block"
                       THEN [cool EXCEPT ![held[p]] = Cooldown]
                       ELSE cool
    /\ UNCHANGED <<count, warm, turn, newDay, sentToday, passed, probes>>

\* BlacklistMonitor.scan_once found the IP on a list.
CoolListed(i) ==
    /\ cool' = [cool EXCEPT ![i] = Cooldown]
    /\ UNCHANGED <<count, rep, warm, turn, newDay, held, sentToday, passed, probes>>

\* The UTC day turns; the pool will notice at the next acquire.
DayTurns ==
    /\ newDay' = TRUE
    /\ sentToday' = [i \in IP |-> 0]
    /\ UNCHANGED <<count, cool, rep, warm, turn, held, passed, probes>>

Tick ==
    /\ \E i \in IP : cool[i] > 0
    /\ cool' = [i \in IP |-> IF cool[i] = 0 THEN 0 ELSE cool[i] - 1]
    /\ UNCHANGED <<count, rep, warm, turn, newDay, held, sentToday, passed, probes>>

Event == {"ok", "tempfail", "block"}

Environment == DayTurns \/ Tick \/ \E i \in IP : CoolListed(i)

Next ==
    \/ \E p \in Prober : Acquire(p) \/ \E event \in Event : Report(p, event)
    \/ Environment

Spec == Init /\ [][Next]_poolVars
----------------------------------------------------------------------------
TypeOK ==
    /\ count \in [IP -> Nat]
    /\ cool \in [IP -> 0..Cooldown]
    /\ rep \in [IP -> 0..100]
    /\ warm \in [IP -> BOOLEAN]
    /\ turn \in 0..(N - 1)
    /\ newDay \in BOOLEAN
    /\ held \in [Prober -> {Idle, DefaultRoute} \cup IP]
    /\ sentToday \in [IP -> Nat]
    /\ passed \in [IP -> Nat]
    /\ probes \in Nat

\* "Caps daily volume for IPs still warming up": an IP in its first stage never
\* sends more than Cap probes in one UTC day, whenever the day turns between
\* two acquires and however many tasks hold it.
WarmupCapHeld == \A i \in IP : ~warm[i] => sentToday[i] <= Cap

\* "Every IP went permanently unavailable after warmup_daily_cap probes and
\* acquire() silently returned None": the default route is used only while
\* every IP is cooling or has really sent its cap this UTC day.
DefaultRouteOnlyWhenExhausted ==
    [][\A p \in Prober :
         held[p] = Idle /\ held'[p] = DefaultRoute
         => \A i \in IP : cool[i] > 0 \/ sentToday[i] >= Cap]_poolVars

\* Rotation: an IP that stays healthy is taken again within N acquires.
NoIpPassedOver == \A i \in IP : passed[i] < N
============================================================================
