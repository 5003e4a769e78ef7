-------------------------- MODULE SmtpProbeProofs --------------------------
(***************************************************************************)
(* Proofs about SmtpProbe for every set of tasks, domains and receivers.   *)
(***************************************************************************)
EXTENDS SmtpProbe, TLAPS

Types ==
    /\ pc \in [Prober -> {"start", "waiting", "fake", "fakeSent",
                          "real", "realSent", "done"}]
    /\ result \in [Prober -> Outcome \cup {"none", "raised"}]
    /\ catchAll \in [Domain -> {"unset", "yes", "no"}]
    /\ lock \in [Domain -> Prober \cup {Free}]
    /\ fakes \in [Domain -> Nat]
    /\ refused \subseteq Prober

\* A task that asks for a fake recipient holds its domain's lock.
AskerHoldsLock == \A p \in Prober : pc[p] \in {"fake", "fakeSent"} => lock[D(p)] = p

\* It is the first of its domain to ask.
AskerIsFirst == \A p \in Prober : pc[p] = "fake" => fakes[D(p)] = 0

\* A domain that was asked has a verdict or is about to.
AskedIsSettled ==
    \A d \in Domain : catchAll[d] = "unset" /\ fakes[d] # 0 =>
        \E p \in Prober : D(p) = d /\ pc[p] = "fakeSent"

IInv == Types /\ AskerHoldsLock /\ AskerIsFirst /\ AskedIsSettled
        /\ OneFakePerDomain /\ InvalidMeansRejected

LEMMA DomainOf == ASSUME NEW p \in Prober PROVE D(p) \in Domain
  BY ProbeAssumption DEF D

LEMMA InitInv == Init => IInv
<1> SUFFICES ASSUME Init
             PROVE  IInv
  OBVIOUS
<1> USE DEF Init
<1>1. Types
  BY DEF Types
<1>2. AskerHoldsLock /\ AskerIsFirst
  BY DEF AskerHoldsLock, AskerIsFirst
<1>3. AskedIsSettled /\ OneFakePerDomain
  BY DEF AskedIsSettled, OneFakePerDomain
<1>4. InvalidMeansRejected
  BY DEF InvalidMeansRejected
<1> QED
  BY <1>1, <1>2, <1>3, <1>4 DEF IInv

\* A step of one task that moves it between the phases before, between and
\* after its conversations, leaving the domains alone.
LEMMA MoveInv ==
    ASSUME IInv, NEW p \in Prober,
           NEW to \in {"waiting", "real", "realSent", "done"},
           pc[p] \notin {"fake", "fakeSent"},
           pc' = [pc EXCEPT ![p] = to],
           UNCHANGED <<catchAll, lock, fakes>>
    PROVE  AskerHoldsLock' /\ AskerIsFirst' /\ AskedIsSettled' /\ OneFakePerDomain'
<1> USE DEF IInv, Types, D
<1>1. pc \in [Prober -> {"start", "waiting", "fake", "fakeSent",
                         "real", "realSent", "done"}]
  OBVIOUS
<1>2. \A q \in Prober : pc'[q] \in {"fake", "fakeSent"} => pc'[q] = pc[q]
  BY <1>1
<1>3. \A q \in Prober : pc[q] = "fakeSent" => pc'[q] = "fakeSent"
  BY <1>1
<1>4. AskerHoldsLock' /\ AskerIsFirst'
  BY <1>2 DEF AskerHoldsLock, AskerIsFirst
<1>5. AskedIsSettled'
  BY <1>3 DEF AskedIsSettled
<1> QED
  BY <1>4, <1>5 DEF OneFakePerDomain

\* A task that returns keeps the types and the truth of what others returned.
LEMMA ReturnTypes ==
    ASSUME IInv, NEW p \in Prober, NEW outcome \in Outcome \cup {"none", "raised"},
           Return(p, outcome),
           refused \subseteq refused', refused' \subseteq Prober,
           outcome = "invalid" =>
               (p \notin Exists /\ D(p) \notin AcceptAll) \/ p \in refused'
    PROVE  /\ pc' = [pc EXCEPT ![p] = "done"]
           /\ pc' \in [Prober -> {"start", "waiting", "fake", "fakeSent",
                                  "real", "realSent", "done"}]
           /\ result' \in [Prober -> Outcome \cup {"none", "raised"}]
           /\ InvalidMeansRejected'
<1> USE DEF IInv, Types, Return
<1>1. result' \in [Prober -> Outcome \cup {"none", "raised"}]
  OBVIOUS
<1>2. \A q \in Prober : q # p => result'[q] = result[q]
  OBVIOUS
<1>3. result'[p] = outcome
  OBVIOUS
<1>4. InvalidMeansRejected'
  BY <1>2, <1>3 DEF InvalidMeansRejected, D
<1> QED
  BY <1>1, <1>4

LEMMA BeginInv ==
    ASSUME IInv, NEW p \in Prober, Begin(p)
    PROVE  IInv'
<1>1. pc[p] \notin {"fake", "fakeSent"} /\ UNCHANGED <<catchAll, lock, fakes, refused>>
  BY DEF Begin
<1>2. ASSUME NEW outcome \in {"unknown", "catch_all"}, Return(p, outcome)
      PROVE  IInv'
  BY <1>1, <1>2, MoveInv, ReturnTypes DEF IInv, Types, Outcome
<1>3. ASSUME NEW to \in {"waiting", "real"}, pc' = [pc EXCEPT ![p] = to], UNCHANGED result
      PROVE  IInv'
  <2>1. Types' /\ InvalidMeansRejected'
    BY <1>1, <1>3 DEF IInv, Types, InvalidMeansRejected, D
  <2> QED
    BY <1>1, <1>3, <2>1, MoveInv DEF IInv
<1> QED
  BY <1>2, <1>3 DEF Begin

LEMMA TakeLockInv ==
    ASSUME IInv, NEW p \in Prober, TakeLock(p)
    PROVE  IInv'
<1>1. pc[p] = "waiting" /\ lock[D(p)] = Free /\ UNCHANGED <<catchAll, fakes, refused>>
  BY DEF TakeLock
<1>2. ASSUME Return(p, "catch_all"), UNCHANGED lock
      PROVE  IInv'
  BY <1>1, <1>2, MoveInv, ReturnTypes DEF IInv, Types, Outcome
<1>3. ASSUME pc' = [pc EXCEPT ![p] = "real"], UNCHANGED <<result, lock>>
      PROVE  IInv'
  <2>1. Types' /\ InvalidMeansRejected'
    BY <1>1, <1>3 DEF IInv, Types, InvalidMeansRejected, D
  <2> QED
    BY <1>1, <1>3, <2>1, MoveInv DEF IInv
<1>4. ASSUME catchAll[D(p)] = "unset", pc' = [pc EXCEPT ![p] = "fake"],
             lock' = [lock EXCEPT ![D(p)] = p], UNCHANGED result
      PROVE  IInv'
  <2> USE DEF IInv
  <2>1. D(p) \in Domain
    BY DomainOf
  <2>2. \A q \in Prober : D(q) = D(p) => pc[q] \notin {"fake", "fakeSent"}
    BY <1>1, ProbeAssumption DEF AskerHoldsLock
  <2>3. fakes[D(p)] = 0
    BY <1>4, <2>1, <2>2 DEF AskedIsSettled
  <2>4. Types'
    BY <1>1, <1>4, <2>1 DEF Types
  <2>5. ASSUME NEW q \in Prober, pc'[q] \in {"fake", "fakeSent"}
        PROVE  lock'[D(q)] = q /\ (pc'[q] = "fake" => fakes'[D(q)] = 0)
    <3>1. CASE q = p
      BY <1>1, <1>4, <2>1, <2>3, <3>1 DEF Types, D
    <3>2. CASE q # p
      <4>1. pc[q] = pc'[q] /\ D(q) # D(p)
        BY <1>4, <2>2, <2>5, <3>2 DEF Types
      <4> QED
        BY <1>1, <1>4, <2>1, <2>5, <4>1 DEF Types, AskerHoldsLock, AskerIsFirst, D
    <3> QED
      BY <3>1, <3>2
  <2>6. AskedIsSettled'
    <3>1. \A q \in Prober : pc[q] = "fakeSent" => pc'[q] = "fakeSent"
      BY <1>1, <1>4 DEF Types
    <3> QED
      BY <1>1, <3>1 DEF AskedIsSettled, D
  <2>7. OneFakePerDomain' /\ InvalidMeansRejected'
    BY <1>1, <1>4 DEF OneFakePerDomain, InvalidMeansRejected, D
  <2> QED
    BY <2>4, <2>5, <2>6, <2>7 DEF AskerHoldsLock, AskerIsFirst, D
<1> QED
  BY <1>2, <1>3, <1>4 DEF TakeLock

LEMMA ConverseInv ==
    ASSUME IInv, NEW p \in Prober, Converse(p)
    PROVE  IInv'
<1>1. UNCHANGED <<result, catchAll, lock, refused>>
  BY DEF Converse
<1>2. ASSUME pc[p] = "real", pc' = [pc EXCEPT ![p] = "realSent"], UNCHANGED fakes
      PROVE  IInv'
  <2>1. Types' /\ InvalidMeansRejected'
    BY <1>1, <1>2 DEF IInv, Types, InvalidMeansRejected, D
  <2> QED
    BY <1>1, <1>2, <2>1, MoveInv DEF IInv
<1>3. ASSUME pc[p] = "fake", pc' = [pc EXCEPT ![p] = "fakeSent"],
             fakes' = [fakes EXCEPT ![D(p)] = @ + 1]
      PROVE  IInv'
  <2> USE DEF IInv
  <2>1. D(p) \in Domain /\ fakes[D(p)] = 0 /\ lock[D(p)] = p
    BY <1>3, DomainOf DEF AskerIsFirst, AskerHoldsLock
  <2>2. Types' /\ fakes'[D(p)] = 1
    BY <1>1, <1>3, <2>1 DEF Types
  <2>3. ASSUME NEW q \in Prober, pc'[q] \in {"fake", "fakeSent"}
        PROVE  lock'[D(q)] = q /\ (pc'[q] = "fake" => fakes'[D(q)] = 0)
    <3>1. CASE q = p
      BY <1>1, <1>3, <2>1, <3>1 DEF Types, D
    <3>2. CASE q # p
      <4>1. pc[q] = pc'[q] /\ lock[D(q)] = q
        BY <1>3, <2>3, <3>2 DEF Types, AskerHoldsLock
      <4>2. D(q) # D(p)
        BY <2>1, <3>2, <4>1
      <4> QED
        BY <1>1, <1>3, <2>1, <2>3, <4>1, <4>2, DomainOf DEF Types, AskerIsFirst, D
    <3> QED
      BY <3>1, <3>2
  <2>4. AskedIsSettled'
    <3>1. \A q \in Prober : pc[q] = "fakeSent" => pc'[q] = "fakeSent"
      BY <1>3 DEF Types
    <3>2. pc'[p] = "fakeSent" /\ \A d \in Domain : d # D(p) => fakes'[d] = fakes[d]
      BY <1>3 DEF Types
    <3> QED
      BY <1>1, <3>1, <3>2 DEF AskedIsSettled, D
  <2>5. OneFakePerDomain'
    BY <1>3, <2>1, <2>2 DEF OneFakePerDomain, Types
  <2>6. InvalidMeansRejected'
    BY <1>1 DEF InvalidMeansRejected, D
  <2> QED
    BY <2>2, <2>3, <2>4, <2>5, <2>6 DEF AskerHoldsLock, AskerIsFirst, D
<1> QED
  BY <1>2, <1>3 DEF Converse

\* A task that gives up its domain's lock, having asked for a fake recipient or
\* not: if it did, the domain has its verdict.
LEMMA LeaveInv ==
    ASSUME IInv, NEW p \in Prober, NEW to \in {"real", "done"},
           pc[p] \in {"fake", "fakeSent"},
           pc' = [pc EXCEPT ![p] = to],
           lock' = [lock EXCEPT ![D(p)] = Free],
           UNCHANGED fakes,
           \A d \in Domain : d # D(p) => catchAll'[d] = catchAll[d],
           pc[p] = "fake" \/ catchAll'[D(p)] # "unset"
    PROVE  AskerHoldsLock' /\ AskerIsFirst' /\ AskedIsSettled' /\ OneFakePerDomain'
<1> USE DEF IInv
<1>1. D(p) \in Domain /\ lock[D(p)] = p
  BY DomainOf DEF AskerHoldsLock
<1>2. ASSUME NEW q \in Prober, pc'[q] \in {"fake", "fakeSent"}
      PROVE  lock'[D(q)] = q /\ (pc'[q] = "fake" => fakes'[D(q)] = 0)
  <2>1. q # p /\ pc[q] = pc'[q] /\ lock[D(q)] = q
    BY <1>2 DEF Types, AskerHoldsLock
  <2>2. D(q) # D(p)
    BY <1>1, <2>1
  <2> QED
    BY <1>2, <2>1, <2>2, DomainOf DEF Types, AskerIsFirst, D
<1>3. ASSUME NEW d \in Domain, catchAll'[d] = "unset", fakes'[d] # 0
      PROVE  \E q \in Prober : D(q) = d /\ pc'[q] = "fakeSent"
  <2>1. d # D(p)
    BY <1>3 DEF AskerIsFirst
  <2>2. PICK q \in Prober : D(q) = d /\ pc[q] = "fakeSent"
    BY <1>3, <2>1 DEF AskedIsSettled
  <2> QED
    BY <2>1, <2>2 DEF Types
<1> QED
  BY <1>2, <1>3 DEF AskerHoldsLock, AskerIsFirst, AskedIsSettled, OneFakePerDomain, D

LEMMA LimiterRaisesInv ==
    ASSUME IInv, NEW p \in Prober, LimiterRaises(p)
    PROVE  IInv'
<1>1. Return(p, "raised") /\ UNCHANGED <<catchAll, fakes, refused>> /\ pc[p] \in {"fake", "real"}
  BY DEF LimiterRaises
<1>2. /\ pc' = [pc EXCEPT ![p] = "done"]
      /\ result' \in [Prober -> Outcome \cup {"none", "raised"}]
      /\ InvalidMeansRejected'
  BY <1>1, ReturnTypes DEF IInv, Types
<1>3. Types'
  BY <1>1, <1>2, DomainOf DEF LimiterRaises, IInv, Types
<1>4. CASE pc[p] = "fake"
  <2>1. lock' = [lock EXCEPT ![D(p)] = Free]
    BY <1>4 DEF LimiterRaises
  <2> QED
    BY <1>1, <1>2, <1>3, <1>4, <2>1, LeaveInv DEF IInv
<1>5. CASE pc[p] = "real"
  <2>1. UNCHANGED lock
    BY <1>5 DEF LimiterRaises
  <2> QED
    BY <1>1, <1>2, <1>3, <1>5, <2>1, MoveInv DEF IInv
<1> QED
  BY <1>1, <1>4, <1>5

LEMMA FakeAnsweredInv ==
    ASSUME IInv, NEW p \in Prober, NEW r \in Reply, FakeAnswered(p, r)
    PROVE  IInv'
<1>1. /\ pc[p] = "fakeSent" /\ UNCHANGED <<fakes, refused>>
      /\ catchAll' = [catchAll EXCEPT ![D(p)] = IF r = "accept" THEN "yes" ELSE "no"]
      /\ lock' = [lock EXCEPT ![D(p)] = Free]
  BY DEF FakeAnswered
<1>2. D(p) \in Domain /\ catchAll' \in [Domain -> {"unset", "yes", "no"}]
      /\ catchAll'[D(p)] # "unset" /\ \A d \in Domain : d # D(p) => catchAll'[d] = catchAll[d]
  BY <1>1, DomainOf DEF IInv, Types
<1>3. ASSUME Return(p, "catch_all")
      PROVE  IInv'
  <2>1. /\ pc' = [pc EXCEPT ![p] = "done"]
        /\ result' \in [Prober -> Outcome \cup {"none", "raised"}]
        /\ InvalidMeansRejected'
    BY <1>1, <1>3, ReturnTypes DEF Outcome, IInv, Types
  <2>2. Types'
    BY <1>1, <1>2, <2>1 DEF IInv, Types
  <2> QED
    BY <1>1, <1>2, <2>1, <2>2, LeaveInv DEF IInv
<1>4. ASSUME pc' = [pc EXCEPT ![p] = "real"], UNCHANGED result
      PROVE  IInv'
  <2>1. Types' /\ InvalidMeansRejected'
    BY <1>1, <1>2, <1>4 DEF IInv, Types, InvalidMeansRejected, D
  <2> QED
    BY <1>1, <1>2, <1>4, <2>1, LeaveInv DEF IInv
<1> QED
  BY <1>3, <1>4 DEF FakeAnswered

\* Of the replies a server may give for a mailbox, only the reject of one that is not
\* there and the Refusals become invalid.
LEMMA MapTrue ==
    ASSUME NEW p \in Prober, NEW r \in Replies(D(p), p \in Exists), NEW trust \in BOOLEAN
    PROVE  /\ Map(r, trust) \in Outcome
           /\ Map(r, trust) = "invalid" =>
                (p \notin Exists /\ D(p) \notin AcceptAll) \/ r \in Refusal
<1>1. r \in Noise[D(p)] \cup {"accept", "reject"} /\ Noise[D(p)] \subseteq Other
  BY ProbeAssumption, DomainOf DEF Replies
<1>2. r = "reject" => p \notin Exists /\ D(p) \notin AcceptAll
  BY <1>1 DEF Replies, Other, Refusal
<1>3. CASE r = "accept"
  BY <1>3 DEF Map, Outcome
<1>4. CASE r \in Refusal \cup {"reject"}
  BY <1>1, <1>2, <1>4 DEF Map, Outcome, Refusal
<1>5. CASE r \in {"antispam", "policy", "none", "other", "421", "temp"}
  BY <1>5 DEF Map, Outcome, Refusal
<1> QED
  BY <1>1, <1>3, <1>4, <1>5 DEF Other

LEMMA RealAnsweredInv ==
    ASSUME IInv, NEW p \in Prober, NEW r \in Reply, RealAnswered(p, r)
    PROVE  IInv'
<1> DEFINE outcome == Map(r, Strategy[D(p)].trust)
<1>1. pc[p] = "realSent" /\ Return(p, outcome) /\ UNCHANGED <<catchAll, lock, fakes>>
  BY DEF RealAnswered
<1>6. /\ refused \subseteq refused' /\ refused' \subseteq Prober
      /\ r \in Refusal => p \in refused'
  BY DEF RealAnswered, IInv, Types
<1>2. Strategy[D(p)].trust \in BOOLEAN
  BY ProbeAssumption, DomainOf
<1>3. outcome \in Outcome
      /\ (outcome = "invalid" =>
             (p \notin Exists /\ D(p) \notin AcceptAll) \/ p \in refused')
  BY <1>2, <1>6, MapTrue DEF RealAnswered
<1> HIDE DEF outcome
<1>4. /\ pc' = [pc EXCEPT ![p] = "done"]
      /\ result' \in [Prober -> Outcome \cup {"none", "raised"}]
      /\ InvalidMeansRejected'
  BY <1>1, <1>3, <1>6, ReturnTypes
<1>5. Types'
  BY <1>1, <1>4, <1>6 DEF IInv, Types
<1> QED
  BY <1>1, <1>4, <1>5, MoveInv DEF IInv

LEMMA NextInv == IInv /\ [Next]_vars => IInv'
<1> SUFFICES ASSUME IInv, [Next]_vars
             PROVE  IInv'
  OBVIOUS
<1>1. ASSUME NEW p \in Prober, ProbeStep(p)
      PROVE  IInv'
  BY <1>1, BeginInv, TakeLockInv, ConverseInv, FakeAnsweredInv, RealAnsweredInv
     DEF ProbeStep, Answered
<1>2. ASSUME NEW p \in Prober, LimiterRaises(p)
      PROVE  IInv'
  BY <1>2, LimiterRaisesInv
<1>3. CASE UNCHANGED probeVars
  BY <1>3 DEF probeVars, IInv, Types, AskerHoldsLock, AskerIsFirst, AskedIsSettled,
              OneFakePerDomain, InvalidMeansRejected, D
<1> QED
  BY <1>1, <1>2, <1>3 DEF Next, PoolEnvironment, vars

THEOREM Invariance == Spec => []IInv
  BY InitInv, NextInv, PTL DEF Spec

\* However many tasks meet at a domain, its server gets one fake recipient.
THEOREM AskedOnce == Spec => []OneFakePerDomain
<1>1. IInv => OneFakePerDomain
  BY DEF IInv
<1> QED
  BY <1>1, Invariance, PTL

\* Invalid means that the mailbox's own server, one that tells mailboxes apart,
\* rejected it, or that this address's conversation ended in a Refusal: no deferral,
\* block or timeout, and nothing another task heard, makes a mailbox invalid.
THEOREM InvalidRight == Spec => []InvalidMeansRejected
<1>1. IInv => InvalidMeansRejected
  BY DEF IInv
<1> QED
  BY <1>1, Invariance, PTL
----------------------------------------------------------------------------
LEMMA IpEventRange == ASSUME NEW r \in Reply PROVE IpEvent(r) \in Pool!Event
<1>1. CASE r \in {"421", "antispam"}
  BY <1>1 DEF IpEvent, Pool!Event
<1>2. CASE r \in {"greyreject", "temp", "none"}
  BY <1>2 DEF IpEvent, Pool!Event
<1>3. CASE r \in {"accept", "reject", "heloreject", "mailreject", "policy", "other"}
  BY <1>3 DEF IpEvent, Pool!Event
<1> QED
  BY <1>1, <1>2, <1>3 DEF Reply, Truthful, Other, Refusal

\* The probes use the pool as its specification says: what they do to it is
\* acquire, report, and nothing else.
THEOREM UsesPool == Spec => Pool!Spec
<1>1. Init => Pool!Init
  BY DEF Init
<1>2. [Next]_vars => [Pool!Next]_(Pool!poolVars)
  <2> SUFFICES ASSUME [Next]_vars
               PROVE  Pool!Next \/ UNCHANGED Pool!poolVars
    OBVIOUS
  <2>1. ASSUME NEW p \in Prober, Begin(p) \/ TakeLock(p) \/ LimiterRaises(p)
        PROVE  UNCHANGED Pool!poolVars
    BY <2>1 DEF Begin, TakeLock, LimiterRaises, poolVars, Pool!poolVars
  <2>2. ASSUME NEW p \in Prober, Converse(p)
        PROVE  Pool!Next
    BY <2>2 DEF Converse, Pool!Next
  <2>3. ASSUME NEW p \in Prober, NEW r \in Reply, FakeAnswered(p, r) \/ RealAnswered(p, r)
        PROVE  Pool!Next
    BY <2>3, IpEventRange DEF FakeAnswered, RealAnswered, Pool!Next
  <2>4. CASE PoolEnvironment
    BY <2>4 DEF PoolEnvironment, Pool!Next
  <2>5. CASE UNCHANGED vars
    BY <2>5 DEF vars, poolVars, Pool!poolVars
  <2> QED
    BY <2>1, <2>2, <2>3, <2>4, <2>5 DEF Next, ProbeStep, Answered
<1> QED
  BY <1>1, <1>2, PTL DEF Spec, Pool!Spec

\* The pool of IpPoolProofs is the pool of this service, definition by definition.
PoolProofs == INSTANCE IpPoolProofs

LEMMA SamePool ==
    /\ Pool!Init <=> PoolProofs!Init
    /\ Pool!Next <=> PoolProofs!Next
    /\ Pool!poolVars = PoolProofs!poolVars
    /\ Pool!TypeOK <=> PoolProofs!TypeOK
    /\ Pool!WarmupCapHeld <=> PoolProofs!WarmupCapHeld
<1> USE DEF Pool!IP, PoolProofs!IP, Pool!Idle, PoolProofs!Idle,
            Pool!DefaultRoute, PoolProofs!DefaultRoute
<1>1. Pool!Init <=> PoolProofs!Init
  BY DEF Pool!Init, PoolProofs!Init
<1>2. Pool!TypeOK <=> PoolProofs!TypeOK
  BY DEF Pool!TypeOK, PoolProofs!TypeOK
<1>3. Pool!WarmupCapHeld <=> PoolProofs!WarmupCapHeld
  BY DEF Pool!WarmupCapHeld, PoolProofs!WarmupCapHeld
<1>4. Pool!poolVars = PoolProofs!poolVars
  BY DEF Pool!poolVars, PoolProofs!poolVars
<1>5. ASSUME NEW p \in Prober
      PROVE  Pool!Acquire(p) <=> PoolProofs!Acquire(p)
  BY DEF Pool!Acquire, PoolProofs!Acquire, Pool!Taken, PoolProofs!Taken,
         Pool!FirstHealthy, PoolProofs!FirstHealthy, Pool!Healthy, PoolProofs!Healthy,
         Pool!Scanned, PoolProofs!Scanned, Pool!RolledCount, PoolProofs!RolledCount,
         Pool!RolledWarm, PoolProofs!RolledWarm
<1>6. ASSUME NEW p \in Prober, NEW event
      PROVE  Pool!Report(p, event) <=> PoolProofs!Report(p, event)
  BY DEF Pool!Report, PoolProofs!Report, Pool!Reputation, PoolProofs!Reputation
<1>7. Pool!Environment <=> PoolProofs!Environment
  BY DEF Pool!Environment, PoolProofs!Environment, Pool!DayTurns, PoolProofs!DayTurns,
         Pool!Tick, PoolProofs!Tick, Pool!CoolListed, PoolProofs!CoolListed
<1>8. Pool!Next <=> PoolProofs!Next
  BY <1>5, <1>6, <1>7 DEF Pool!Next, PoolProofs!Next, Pool!Event, PoolProofs!Event
<1> QED
  BY <1>1, <1>2, <1>3, <1>4, <1>8

\* What the pool promises on its own holds under the probes that use it.
THEOREM PoolPromises == Spec => [](Pool!TypeOK /\ Pool!WarmupCapHeld)
<1>1. Pool!Spec => PoolProofs!Spec
  <2>1. [Pool!Next]_(Pool!poolVars) => [PoolProofs!Next]_(PoolProofs!poolVars)
    BY SamePool DEF Pool!poolVars, PoolProofs!poolVars
  <2> QED
    BY <2>1, SamePool, PTL DEF Pool!Spec, PoolProofs!Spec
<1>2. PoolProofs!Spec => []PoolProofs!TypeOK /\ []PoolProofs!WarmupCapHeld
  BY PoolHasIps, PoolProofs!TypeCorrect, PoolProofs!CapHeld
     DEF Pool!PoolAssumption, PoolProofs!PoolAssumption
<1> QED
  BY <1>1, <1>2, UsesPool, SamePool, PTL

\* Every reachable state of the probe service is well typed, that of the pool
\* included.
THEOREM TypeCorrect == Spec => []TypeOK
<1>1. IInv /\ Pool!TypeOK => TypeOK
  BY DEF IInv, Types, TypeOK
<1> QED
  BY <1>1, Invariance, PoolPromises, PTL
----------------------------------------------------------------------------
(* A valid verdict: the cached verdict of a domain never changes once it is *)
(* set, so what a task read before it spoke to the server still holds when  *)
(* the server has answered.                                                 *)

\* The domain whose fake recipient is being asked for has no verdict yet.
AskerIsUnsettled ==
    \A p \in Prober : pc[p] \in {"fake", "fakeSent"} => catchAll[D(p)] = "unset"

\* The address itself is asked for only where the fake recipient was refused,
\* or where no fake recipient is asked for.
RealIsSettled ==
    \A p \in Prober : pc[p] \in {"real", "realSent"} /\ Strategy[D(p)].probes
        => catchAll[D(p)] = "no"

VInv == AskerIsUnsettled /\ RealIsSettled /\ ValidMeansExists

\* A verdict is set once.
VerdictKept == \A d \in Domain : catchAll[d] # "unset" => catchAll'[d] = catchAll[d]

LEMMA InitValid == Init => VInv
  BY DEF Init, VInv, AskerIsUnsettled, RealIsSettled, ValidMeansExists

\* A step of task p that keeps the verdicts keeps the invariant if p's own part holds.
LEMMA OwnPart ==
    ASSUME IInv, VInv, NEW p \in Prober, VerdictKept,
           \A q \in Prober \ {p} : pc'[q] = pc[q] /\ result'[q] = result[q],
           \A q \in Prober \ {p} :
               pc[q] \in {"fake", "fakeSent"} => catchAll'[D(q)] = catchAll[D(q)],
           pc'[p] \in {"fake", "fakeSent"} => catchAll'[D(p)] = "unset",
           pc'[p] \in {"real", "realSent"} /\ Strategy[D(p)].probes
             => catchAll'[D(p)] = "no",
           result'[p] = "valid" =>
               IF D(p) \in AcceptAll THEN catchAll'[D(p)] = "no" ELSE p \in Exists
    PROVE  VInv'
<1>1. AskerIsUnsettled'
  BY DEF VInv, AskerIsUnsettled, D
<1>2. RealIsSettled'
  BY DomainOf DEF VInv, RealIsSettled, VerdictKept, D
<1>3. ValidMeansExists'
  BY DomainOf DEF VInv, ValidMeansExists, VerdictKept, D
<1> QED
  BY <1>1, <1>2, <1>3 DEF VInv

\* A task that does not touch the verdicts and does not report valid.
LEMMA QuietPart ==
    ASSUME IInv, VInv, NEW p \in Prober, UNCHANGED catchAll,
           \A q \in Prober \ {p} : pc'[q] = pc[q] /\ result'[q] = result[q],
           result'[p] = result[p] \/ result'[p] # "valid",
           pc'[p] \in {"fake", "fakeSent"} => catchAll[D(p)] = "unset",
           pc'[p] \in {"real", "realSent"} /\ Strategy[D(p)].probes => catchAll[D(p)] = "no"
    PROVE  VInv'
<1>1. result'[p] = "valid" =>
        IF D(p) \in AcceptAll THEN catchAll'[D(p)] = "no" ELSE p \in Exists
  BY DEF VInv, ValidMeansExists
<1> QED
  BY <1>1, OwnPart DEF VerdictKept

\* Begin and TakeLock go on, or return a verdict other than valid.
LEMMA BeginValid ==
    ASSUME IInv, VInv, NEW p \in Prober, Begin(p) \/ TakeLock(p)
    PROVE  VInv'
<1>1. UNCHANGED catchAll
  BY DEF Begin, TakeLock
<1>2. \A q \in Prober \ {p} : pc'[q] = pc[q] /\ result'[q] = result[q]
  BY DEF Begin, TakeLock, Return, IInv, Types
<1>3. \/ pc'[p] \in {"done", "waiting"}
      \/ pc'[p] = "real" /\ (~Strategy[D(p)].probes \/ catchAll[D(p)] = "no")
      \/ pc'[p] = "fake" /\ catchAll[D(p)] = "unset"
  BY DEF Begin, TakeLock, Return, IInv, Types
<1>4. result'[p] = result[p] \/ result'[p] # "valid"
  BY DEF Begin, TakeLock, Return, IInv, Types
<1> QED
  BY <1>1, <1>2, <1>3, <1>4, QuietPart

LEMMA ConverseValid ==
    ASSUME IInv, VInv, NEW p \in Prober, Converse(p)
    PROVE  VInv'
<1>1. UNCHANGED <<catchAll, result>>
  BY DEF Converse
<1>2. \A q \in Prober \ {p} : pc'[q] = pc[q]
  BY DEF Converse, IInv, Types
<1>3. \/ pc'[p] = "fakeSent" /\ catchAll[D(p)] = "unset"
      \/ pc'[p] = "realSent" /\ (Strategy[D(p)].probes => catchAll[D(p)] = "no")
  BY DEF Converse, IInv, Types, VInv, AskerIsUnsettled, RealIsSettled
<1> QED
  BY <1>1, <1>2, <1>3, QuietPart

\* Only the task that holds the domain's lock settles the domain, and the domain was
\* not settled before.
LEMMA FakeAnsweredValid ==
    ASSUME IInv, VInv, NEW p \in Prober, NEW r \in Reply, FakeAnswered(p, r)
    PROVE  VInv'
<1> DEFINE verdict == IF r = "accept" THEN "yes" ELSE "no"
<1>1. /\ pc[p] = "fakeSent" /\ D(p) \in Domain
      /\ catchAll' = [catchAll EXCEPT ![D(p)] = verdict]
  BY DomainOf DEF FakeAnswered
<1>2. catchAll[D(p)] = "unset" /\ lock[D(p)] = p
  BY <1>1 DEF VInv, AskerIsUnsettled, IInv, AskerHoldsLock
<1>3. catchAll'[D(p)] = verdict /\ \A d \in Domain : d # D(p) => catchAll'[d] = catchAll[d]
  BY <1>1 DEF IInv, Types
<1>4. VerdictKept
  BY <1>2, <1>3 DEF VerdictKept
<1>5. ASSUME NEW q \in Prober \ {p}, pc[q] \in {"fake", "fakeSent"}
      PROVE  catchAll'[D(q)] = catchAll[D(q)]
  BY <1>2, <1>3, <1>5, DomainOf DEF IInv, AskerHoldsLock
<1>6. \A q \in Prober \ {p} : pc'[q] = pc[q] /\ result'[q] = result[q]
  BY DEF FakeAnswered, Return, IInv, Types
<1>7. \/ pc'[p] = "done" /\ result'[p] = "catch_all"
      \/ pc'[p] = "real" /\ result'[p] = result[p] /\ r # "accept"
  BY DEF FakeAnswered, Return, IInv, Types
<1>8. result'[p] = "valid" =>
        IF D(p) \in AcceptAll THEN catchAll'[D(p)] = "no" ELSE p \in Exists
  BY <1>1, <1>4, <1>7 DEF VInv, ValidMeansExists, VerdictKept
<1> QED
  BY <1>3, <1>4, <1>5, <1>6, <1>7, <1>8, OwnPart

\* A believed accept: its server was asked for a recipient that cannot exist
\* before, and refused it.
LEMMA RealAnsweredValid ==
    ASSUME IInv, VInv, NEW p \in Prober, NEW r \in Reply, RealAnswered(p, r)
    PROVE  VInv'
<1> DEFINE outcome == Map(r, Strategy[D(p)].trust)
<1>1. /\ pc[p] = "realSent" /\ D(p) \in Domain /\ r \in Replies(D(p), p \in Exists)
      /\ UNCHANGED catchAll
  BY DomainOf DEF RealAnswered
<1>3. \A q \in Prober \ {p} : pc'[q] = pc[q] /\ result'[q] = result[q]
  BY DEF RealAnswered, Return, IInv, Types
<1>4. pc'[p] = "done" /\ result'[p] = outcome
  BY DEF RealAnswered, Return, IInv, Types
<1>2. ASSUME outcome = "valid"
      PROVE  IF D(p) \in AcceptAll THEN catchAll[D(p)] = "no" ELSE p \in Exists
  <2>1. r = "accept" /\ Strategy[D(p)].trust
    BY <1>2 DEF Map, Reply, Truthful, Other, Refusal
  <2>2. Strategy[D(p)].probes
    BY <1>1, <2>1, ProbeAssumption
  <2>3. catchAll[D(p)] = "no"
    BY <1>1, <2>2 DEF VInv, RealIsSettled
  <2>4. D(p) \in AcceptAll \/ p \in Exists
    BY <1>1, <2>1, ProbeAssumption DEF Replies, Other, Refusal
  <2> QED
    BY <2>3, <2>4
<1> HIDE DEF outcome
<1> QED
  BY <1>1, <1>2, <1>3, <1>4, OwnPart DEF VerdictKept

LEMMA LimiterRaisesValid ==
    ASSUME IInv, VInv, NEW p \in Prober, LimiterRaises(p)
    PROVE  VInv'
<1>1. \A q \in Prober \ {p} : pc'[q] = pc[q] /\ result'[q] = result[q]
  BY DEF LimiterRaises, Return, IInv, Types
<1>2. pc'[p] = "done" /\ result'[p] = "raised" /\ UNCHANGED catchAll
  BY DEF LimiterRaises, Return, IInv, Types
<1> QED
  BY <1>1, <1>2, QuietPart

LEMMA NextValid == IInv /\ VInv /\ [Next]_vars => VInv'
<1> SUFFICES ASSUME IInv, VInv, [Next]_vars
             PROVE  VInv'
  OBVIOUS
<1>1. ASSUME NEW p \in Prober, ProbeStep(p)
      PROVE  VInv'
  BY <1>1, BeginValid, ConverseValid, FakeAnsweredValid, RealAnsweredValid
     DEF ProbeStep, Answered
<1>2. ASSUME NEW p \in Prober, LimiterRaises(p)
      PROVE  VInv'
  BY <1>2, LimiterRaisesValid
<1>3. CASE UNCHANGED probeVars
  BY <1>3 DEF probeVars, VInv, AskerIsUnsettled, RealIsSettled, ValidMeansExists, D
<1> QED
  BY <1>1, <1>2, <1>3 DEF Next, PoolEnvironment, vars

\* A probe says valid only of a mailbox that exists on a server that tells mailboxes
\* apart, or of a domain that accepts everyone but refused the fake recipient.
THEOREM ValidRight == Spec => []ValidMeansExists
<1>1. VInv => ValidMeansExists
  BY DEF VInv
<1> QED
  BY <1>1, Invariance, InitValid, NextValid, PTL DEF Spec
=============================================================================
