---------------------------- MODULE IpPoolProofs ----------------------------
(***************************************************************************)
(* Proofs about IpPool for every number of IPs, cap and cooldown, and      *)
(* every set of tasks.                                                     *)
(***************************************************************************)
EXTENDS IpPool, TLAPS

USE DEF IP, Idle, DefaultRoute

\* Counting modulo N from anywhere in the pool.
LEMMA Wrap ==
    ASSUME NEW n \in 0..(2 * N - 1)
    PROVE  n % N = IF n < N THEN n ELSE n - N
  BY PoolAssumption

\* The scan looks at every IP of the pool, each at one place.
LEMMA ScanRange ==
    ASSUME TypeOK, NEW k \in 1..N
    PROVE  /\ Scanned(k) = IF turn + k <= N THEN turn + k ELSE turn + k - N
           /\ Scanned(k) \in IP
           /\ (turn + k) % N = IF turn + k < N THEN turn + k ELSE turn + k - N
           /\ (turn + k) % N \in 0..(N - 1)
<1>1. turn \in 0..(N - 1) /\ N \in Nat \ {0}
  BY PoolAssumption DEF TypeOK
<1>2. turn + k - 1 \in 0..(2 * N - 1) /\ turn + k \in 0..(2 * N - 1)
  BY <1>1
<1> QED
  BY <1>1, <1>2, Wrap DEF Scanned

\* What the counters have to do with the day: the history of the day is what
\* the pool would count from, also when it has yet to notice a new day.
DayCounted == \A i \in IP : sentToday[i] = RolledCount(i)

CountCapped == \A i \in IP : ~warm[i] => count[i] <= Cap

\* How many IPs the scan looks at before it comes to this one, and the bound
\* on the times the IP can still be passed over.
Distance(i) == IF i > turn THEN i - turn - 1 ELSE i - turn - 1 + N

WaitBounded == \A i \in IP : passed[i] + Distance(i) < N

IInv == TypeOK /\ DayCounted /\ CountCapped /\ WaitBounded

LEMMA InitInv == Init => IInv
<1> SUFFICES ASSUME Init
             PROVE  IInv
  OBVIOUS
<1> USE PoolAssumption DEF Init
<1>1. TypeOK
  <2> HIDE DEF IP, Idle, DefaultRoute
  <2>1. /\ count \in [IP -> Nat] /\ sentToday \in [IP -> Nat] /\ passed \in [IP -> Nat]
        /\ cool \in [IP -> 0..Cooldown] /\ rep \in [IP -> 0..100]
    OBVIOUS
  <2>2. warm \in [IP -> BOOLEAN]
    BY Zenon
  <2>4. held \in [Prober -> {Idle, DefaultRoute} \cup IP]
    <3>1. held = [p \in Prober |-> Idle]
      BY Zenon
    <3>2. Idle \in {Idle, DefaultRoute} \cup IP
      BY Zenon
    <3> QED
      BY <3>1, <3>2
  <2>3. turn \in 0..(N - 1) /\ probes \in Nat
    OBVIOUS
  <2>5. newDay \in BOOLEAN
    BY Zenon
  <2> QED
    BY <2>1, <2>2, <2>3, <2>4, <2>5, Zenon DEF TypeOK
<1>2. DayCounted /\ CountCapped
  BY DEF DayCounted, RolledCount, CountCapped
<1>3. WaitBounded
  BY DEF WaitBounded, Distance
<1> QED
  BY <1>1, <1>2, <1>3 DEF IInv

LEMMA ReputationRange ==
    ASSUME NEW r \in 0..100, NEW event \in Event
    PROVE  Reputation(r, event) \in 0..100
<1>1. CASE event = "block"
  BY <1>1 DEF Reputation
<1>2. CASE event = "tempfail"
  BY <1>2 DEF Reputation
<1>3. CASE event = "ok"
  BY <1>3 DEF Reputation
<1> QED
  BY <1>1, <1>2, <1>3 DEF Event

\* Whatever IP is taken, or none, the types and the counters stay right as
\* long as the IP taken is a healthy one.
LEMMA TakenInv ==
    ASSUME IInv, NEW p \in Prober, NEW ip \in IP \cup {DefaultRoute}, Taken(p, ip),
           ip \in IP => Healthy(ip),
           turn' \in 0..(N - 1)
    PROVE  TypeOK' /\ DayCounted' /\ CountCapped'
<1> USE DEF Taken
<1>0. N \in Nat \ {0} /\ Cap \in Nat /\ TypeOK /\ DayCounted /\ CountCapped
  BY PoolAssumption DEF IInv
<1> HIDE DEF IP
<1>1. \A i \in IP : RolledCount(i) \in Nat /\ RolledWarm(i) \in BOOLEAN
  BY <1>0 DEF TypeOK, RolledCount, RolledWarm
<1>2. count' \in [IP -> Nat]
  BY <1>1
<1>3. warm' \in [IP -> BOOLEAN]
  BY <1>1
<1>4. sentToday' \in [IP -> Nat]
  BY <1>0 DEF TypeOK
<1>5. passed' \in [IP -> Nat]
  BY <1>0 DEF TypeOK
<1>6. held' \in [Prober -> {Idle, DefaultRoute} \cup IP]
  BY <1>0 DEF TypeOK
<1>7. TypeOK'
  <2> HIDE DEF Idle, DefaultRoute
  <2>1. cool' \in [IP -> 0..Cooldown] /\ rep' \in [IP -> 0..100]
    BY <1>0, Zenon DEF TypeOK
  <2>2. newDay' \in BOOLEAN
    BY Zenon
  <2>3. probes' \in Nat
    BY <1>0 DEF TypeOK
  <2> QED
    BY <2>1, <2>2, <2>3, <1>2, <1>3, <1>4, <1>5, <1>6, Zenon DEF TypeOK
<1>8. DayCounted'
  BY <1>0, <1>1 DEF DayCounted, RolledCount, TypeOK
<1>9. ASSUME NEW i \in IP, ~warm'[i]
      PROVE  count'[i] <= Cap
  <2>1. ~RolledWarm(i) /\ ~warm[i]
    BY <1>9 DEF RolledWarm
  <2>2. RolledCount(i) <= Cap
    BY <1>0, <2>1 DEF CountCapped, RolledCount
  <2>3. CASE i = ip
    BY <1>0, <2>1, <2>3, <1>1 DEF Healthy
  <2>4. CASE i # ip
    BY <2>2, <2>4, <1>1
  <2> QED
    BY <2>3, <2>4
<1> QED
  BY <1>7, <1>8, <1>9 DEF CountCapped

\* Taking the k-th IP of the scan brings every IP behind it k places nearer.
LEMMA AcquireInv ==
    ASSUME IInv, NEW p \in Prober, Acquire(p)
    PROVE  IInv'
<1> USE PoolAssumption
<1>1. ASSUME NEW k \in FirstHealthy, Taken(p, Scanned(k)), turn' = (turn + k) % N
      PROVE  IInv'
  <2>1. k \in 1..N /\ Healthy(Scanned(k)) /\ \A m \in 1..(k - 1) : ~Healthy(Scanned(m))
    BY DEF FirstHealthy
  <2>2. Scanned(k) \in IP /\ turn' \in 0..(N - 1)
        /\ turn' = IF turn + k < N THEN turn + k ELSE turn + k - N
    BY <1>1, <2>1, ScanRange DEF IInv
  <2>3. TypeOK' /\ DayCounted' /\ CountCapped'
    BY <1>1, <2>1, <2>2, TakenInv
  <2>4. ASSUME NEW i \in IP
        PROVE  (passed[i] + Distance(i) < N)'
    <3>1. turn \in 0..(N - 1) /\ passed[i] \in Nat /\ passed[i] + Distance(i) < N
      BY DEF IInv, TypeOK, WaitBounded
    <3>2. CASE i = Scanned(k) \/ ~Healthy(i)
      <4>1. passed'[i] = 0
        BY <1>1, <3>2 DEF Taken
      <4> QED
        BY <4>1, <2>2 DEF Distance
    <3>3. CASE i # Scanned(k) /\ Healthy(i)
      <4> DEFINE m == Distance(i) + 1
      <4>1. m \in 1..N
        BY <3>1 DEF Distance
      <4>2. Scanned(m) = i
        BY <4>1, <3>1, ScanRange DEF IInv, Distance
      <4>3. k < m
        BY <4>1, <4>2, <2>1, <3>3
      <4>4. passed'[i] = passed[i] + 1
        BY <1>1, <3>3 DEF Taken
      <4>5. Distance(i)' = Distance(i) - k
        BY <4>3, <2>1, <2>2, <3>1 DEF Distance
      <4> QED
        BY <4>4, <4>5, <2>1, <3>1 DEF Distance
    <3> QED
      BY <3>2, <3>3
  <2> QED
    BY <2>3, <2>4 DEF IInv, WaitBounded
<1>2. ASSUME \A i \in IP : ~Healthy(i), Taken(p, DefaultRoute), UNCHANGED turn
      PROVE  IInv'
  <2>1. turn' \in 0..(N - 1) /\ DefaultRoute \notin IP
    BY <1>2 DEF IInv, TypeOK
  <2>2. TypeOK' /\ DayCounted' /\ CountCapped'
    BY <1>2, <2>1, TakenInv
  <2>3. \A i \in IP : passed'[i] = 0
    BY <1>2 DEF Taken
  <2>4. WaitBounded'
    BY <2>1, <2>3 DEF WaitBounded, Distance
  <2> QED
    BY <2>2, <2>4 DEF IInv
<1> QED
  BY <1>1, <1>2 DEF Acquire

LEMMA ReportInv ==
    ASSUME IInv, NEW p \in Prober, NEW event \in Event, Report(p, event)
    PROVE  IInv'
<1>0. N \in Nat \ {0} /\ Cooldown \in Nat /\ TypeOK
  BY PoolAssumption DEF IInv
<1> HIDE DEF IP
<1>1. held[p] \in {Idle, DefaultRoute} \cup IP /\ held[p] # Idle
  BY <1>0 DEF Report, TypeOK
<1>2. held' \in [Prober -> {Idle, DefaultRoute} \cup IP]
  BY <1>0 DEF Report, TypeOK
<1>3. rep' \in [IP -> 0..100]
  <2>1. rep \in [IP -> 0..100]
    BY <1>0 DEF TypeOK
  <2>2. \A i \in IP : Reputation(rep[i], event) \in 0..100
    BY <2>1, ReputationRange
  <2> QED
    BY <1>1, <2>1, <2>2 DEF Report
<1>4. cool' \in [IP -> 0..Cooldown]
  <2>1. cool \in [IP -> 0..Cooldown] /\ Cooldown \in 0..Cooldown
    BY <1>0 DEF TypeOK
  <2> QED
    BY <1>1, <2>1 DEF Report
<1>5. TypeOK'
  BY <1>0, <1>2, <1>3, <1>4 DEF Report, TypeOK
<1>6. UNCHANGED <<count, warm, turn, newDay, sentToday, passed>>
  BY DEF Report
<1> QED
  BY <1>5, <1>6 DEF IInv, DayCounted, RolledCount, CountCapped, WaitBounded, Distance

LEMMA EnvironmentInv ==
    ASSUME IInv, Environment
    PROVE  IInv'
<1>0. N \in Nat \ {0} /\ Cooldown \in Nat /\ TypeOK
  BY PoolAssumption DEF IInv
<1>1. CASE DayTurns
  <2>1. TypeOK'
    BY <1>0, <1>1 DEF DayTurns, TypeOK
  <2> QED
    BY <1>1, <2>1 DEF DayTurns, IInv, DayCounted, RolledCount, CountCapped, WaitBounded, Distance
<1>2. ASSUME cool' \in [IP -> 0..Cooldown],
             UNCHANGED <<count, rep, warm, turn, newDay, held, sentToday, passed, probes>>
      PROVE  IInv'
  <2>1. TypeOK'
    BY <1>0, <1>2 DEF TypeOK
  <2> QED
    BY <1>2, <2>1 DEF IInv, DayCounted, RolledCount, CountCapped, WaitBounded, Distance
<1> HIDE DEF IP
<1>3. cool \in [IP -> 0..Cooldown]
  BY <1>0 DEF TypeOK
<1>4. CASE Tick
  BY <1>0, <1>2, <1>3, <1>4 DEF Tick
<1>5. ASSUME NEW i \in IP, CoolListed(i)
      PROVE  IInv'
  BY <1>0, <1>2, <1>3, <1>5 DEF CoolListed
<1> QED
  BY <1>1, <1>4, <1>5 DEF Environment

LEMMA NextInv == IInv /\ [Next]_poolVars => IInv'
<1> SUFFICES ASSUME IInv, [Next]_poolVars
             PROVE  IInv'
  OBVIOUS
<1>1. ASSUME NEW p \in Prober, Acquire(p)
      PROVE  IInv'
  BY <1>1, AcquireInv
<1>2. ASSUME NEW p \in Prober, NEW event \in Event, Report(p, event)
      PROVE  IInv'
  BY <1>2, ReportInv
<1>3. CASE Environment
  BY <1>3, EnvironmentInv
<1>4. CASE UNCHANGED poolVars
  BY <1>4 DEF poolVars, IInv, TypeOK, DayCounted, RolledCount, CountCapped, WaitBounded, Distance
<1> QED
  BY <1>1, <1>2, <1>3, <1>4 DEF Next

THEOREM Invariance == Spec => []IInv
  BY InitInv, NextInv, PTL DEF Spec

\* Every reachable state of the pool is well typed, reputations within 0..100.
THEOREM TypeCorrect == Spec => []TypeOK
<1>1. IInv => TypeOK
  BY DEF IInv
<1> QED
  BY <1>1, Invariance, PTL

\* An IP still warming up never exceeds its cap in a UTC day.
THEOREM CapHeld == Spec => []WarmupCapHeld
<1>1. ASSUME IInv, NEW i \in IP, ~warm[i]
      PROVE  sentToday[i] <= Cap
  <2>1. sentToday[i] = RolledCount(i) /\ count[i] <= Cap /\ Cap \in Nat
    BY <1>1, PoolAssumption DEF IInv, DayCounted, CountCapped
  <2> QED
    BY <2>1 DEF RolledCount
<1>2. IInv => WarmupCapHeld
  BY <1>1 DEF WarmupCapHeld
<1> QED
  BY <1>2, Invariance, PTL

\* A healthy IP is taken again within N acquires.
THEOREM Rotation == Spec => []NoIpPassedOver
<1>1. ASSUME IInv, NEW i \in IP
      PROVE  passed[i] < N
  <2>1. /\ N \in Nat \ {0} /\ turn \in 0..(N - 1) /\ passed[i] \in Nat
        /\ passed[i] + Distance(i) < N
    BY <1>1, PoolAssumption DEF IInv, TypeOK, WaitBounded
  <2>2. Distance(i) >= 0
    BY <2>1 DEF Distance
  <2> QED
    BY <2>1, <2>2 DEF Distance
<1>2. IInv => NoIpPassedOver
  BY <1>1 DEF NoIpPassedOver
<1> QED
  BY <1>2, Invariance, PTL

\* The default route is taken only when every IP cools or has sent its cap.
THEOREM LastResort == Spec => DefaultRouteOnlyWhenExhausted
<1> DEFINE Exhausted ==
      \A p \in Prober : held[p] = Idle /\ held'[p] = DefaultRoute
         => \A i \in IP : cool[i] > 0 \/ sentToday[i] >= Cap
<1>1. ASSUME IInv, Next
      PROVE  Exhausted
  <2> SUFFICES ASSUME NEW p \in Prober, held[p] = Idle, held'[p] = DefaultRoute,
                      NEW i \in IP
               PROVE  cool[i] > 0 \/ sentToday[i] >= Cap
    OBVIOUS
  <2> USE PoolAssumption
  <2>1. TypeOK /\ RolledCount(i) = sentToday[i]
    BY <1>1 DEF IInv, DayCounted
  <2>2. ASSUME NEW q \in Prober, Acquire(q)
        PROVE  cool[i] > 0 \/ sentToday[i] >= Cap
    <3>1. ASSUME NEW ip \in IP, Taken(q, ip)
          PROVE  FALSE
      BY <3>1, <2>1 DEF Taken, TypeOK
    <3>2. \A k \in FirstHealthy : Scanned(k) \in IP
      BY <2>1, ScanRange DEF FirstHealthy
    <3>3. ~Healthy(i)
      BY <2>2, <3>1, <3>2 DEF Acquire
    <3> QED
      BY <3>3, <2>1 DEF Healthy, TypeOK
  <2>3. ASSUME NEW q \in Prober, NEW event \in Event, Report(q, event)
        PROVE  FALSE
    BY <2>3, <2>1 DEF Report, TypeOK
  <2>4. CASE Environment
    BY <2>4 DEF Environment, DayTurns, Tick, CoolListed
  <2> QED
    BY <1>1, <2>2, <2>3, <2>4 DEF Next
<1>2. IInv /\ [Next]_poolVars => [Exhausted]_poolVars
  BY <1>1
<1> QED
  BY <1>2, Invariance, PTL DEF Spec, DefaultRouteOnlyWhenExhausted
=============================================================================
