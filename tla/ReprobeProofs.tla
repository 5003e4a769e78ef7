--------------------------- MODULE ReprobeProofs ---------------------------
(***************************************************************************)
(* Proofs about Reprobe for every set of addresses, jobs and pollers and   *)
(* every retry policy.                                                     *)
(***************************************************************************)
EXTENDS Reprobe, TLAPS

\* next_delay returns -1 exactly when the attempts are used up, and otherwise
\* one of the delays of the policy.
LEMMA NextDelayRange ==
    ASSUME NEW attempt \in Nat
    PROVE  /\ NextDelay(attempt) \in Int
           /\ NextDelay(attempt) < 0 <=> attempt >= MaxAttempts
           /\ attempt < MaxAttempts => NextDelay(attempt) \in Nat
<1> DEFINE i == IF attempt < Len(Delays) THEN attempt + 1 ELSE Len(Delays)
<1>1. MaxAttempts \in Nat /\ Delays \in Seq(Nat) /\ Len(Delays) \in Nat /\ Len(Delays) > 0
  BY PolicyAssumption
<1>2. i \in 1..Len(Delays)
  BY <1>1
<1>3. Delays[i] \in Nat
  BY <1>1, <1>2
<1> QED
  BY <1>1, <1>3 DEF NextDelay

\* A retry that has a delay is within the policy.
LEMMA DelayLeft ==
    ASSUME NEW attempt \in Nat, NextDelay(attempt) >= 0
    PROVE  attempt < MaxAttempts
<1>1. NextDelay(attempt) \in Int /\ ~(NextDelay(attempt) < 0)
  BY NextDelayRange
<1>2. ~(attempt >= MaxAttempts)
  BY <1>1, NextDelayRange
<1> QED
  BY <1>2, PolicyAssumption

\* A lease, or the time that passes, moves a row's due time and nothing else.
LEMMA MovedRow ==
    ASSUME NEW r \in Row, NEW t \in Nat
    PROVE  [r EXCEPT !.due = t] \in Row
  BY DEF Row

\* schedule writes a row of the policy or leaves the table alone.
LEMMA ScheduledRow ==
    ASSUME TypeOK, NEW e \in Email, NEW j \in Job, NEW attempt \in Nat
    PROVE  /\ attempt >= MaxAttempts => Scheduled(e, j, attempt) = reprobes
           /\ attempt < MaxAttempts =>
                /\ Scheduled(e, j, attempt) \in [Email -> Row \cup {NoRow}]
                /\ Scheduled(e, j, attempt)[e] # NoRow
                /\ Scheduled(e, j, attempt)[e].job = j
                /\ Scheduled(e, j, attempt)[e].attempt = attempt
                /\ \A f \in Email \ {e} : Scheduled(e, j, attempt)[f] = reprobes[f]
<1> DEFINE row == [job |-> j, attempt |-> attempt, due |-> NextDelay(attempt)]
<1>1. attempt >= MaxAttempts => Scheduled(e, j, attempt) = reprobes
  BY NextDelayRange DEF Scheduled
<1>2. ASSUME attempt < MaxAttempts
      PROVE  /\ Scheduled(e, j, attempt) = [reprobes EXCEPT ![e] = row]
             /\ row \in Row /\ row # NoRow
  <2>1. NextDelay(attempt) \in Nat /\ ~(NextDelay(attempt) < 0)
    BY <1>2, NextDelayRange, PolicyAssumption
  <2>2. row \in Row
    BY <2>1 DEF Row
  <2> QED
    BY <2>1, <2>2, DistinctAssumption DEF Scheduled
<1>3. reprobes \in [Email -> Row \cup {NoRow}]
  BY DEF TypeOK
<1> QED
  BY <1>1, <1>2, <1>3

\* In every phase in which a poller works on an address it holds a copy of
\* that address's row.
AtWork(p) == pc[p] \in {"answered", "dropped", "read"}

CurIsClaimed ==
    \A p \in Poller : AtWork(p) =>
        cur[p] \in Email /\ claimed[p][cur[p]] # NoClaim

LEMMA TypeInit == Init => TypeOK /\ CurIsClaimed
  BY PolicyAssumption DEF Init, Began, TypeOK, CurIsClaimed, AtWork, NoClaims, Verdict

LEMMA TypeJob ==
    ASSUME TypeOK, CurIsClaimed, NEW j \in Job, JobStep(j) \/ DeleteStep(j)
    PROVE  TypeOK' /\ CurIsClaimed'
<1> USE PolicyAssumption DEF TypeOK, Rewritten
<1>1. ASSUME NEW chunk \in (SUBSET Email) \ {{}}, RecordChunk(j, chunk)
      PROVE  TypeOK' /\ CurIsClaimed'
  <2>1. PICK verdict \in [chunk -> Verdict] :
          /\ addresses' \in {Recorded(j, verdict), addresses}
          /\ pending' = [pending EXCEPT ![j] = {e \in chunk : verdict[e] = "greylisted"}]
    BY <1>1 DEF RecordChunk
  <2>2. addresses' \in [Email -> Address \cup {NoAddress}]
    BY <2>1 DEF Address, Recorded
  <2>3. pending' \in [Job -> SUBSET Email]
    BY <2>1
  <2> QED
    BY <1>1, <2>2, <2>3 DEF RecordChunk, CurIsClaimed, AtWork, pollerVars
<1>2. ASSUME NEW e \in Email, ScheduleOne(j, e)
      PROVE  TypeOK' /\ CurIsClaimed'
  <2>1. reprobes' = Scheduled(e, j, 0)
    BY <1>2 DEF ScheduleOne
  <2>2. 0 \in Nat /\ (0 >= MaxAttempts \/ 0 < MaxAttempts)
    BY PolicyAssumption
  <2>3. reprobes' \in [Email -> Row \cup {NoRow}]
    BY <2>1, <2>2, ScheduledRow
  <2> QED
    BY <1>2, <2>3 DEF ScheduleOne, CurIsClaimed, AtWork, pollerVars
<1>3. CASE FinishJob(j)
  BY <1>3 DEF FinishJob, CurIsClaimed, AtWork, pollerVars
<1>4. CASE DeleteAddresses(j)
  BY <1>4 DEF DeleteAddresses, CurIsClaimed, AtWork, pollerVars
<1>5. CASE DeleteRetries(j)
  BY <1>5 DEF DeleteRetries, CurIsClaimed, AtWork, pollerVars
<1> QED
  BY <1>1, <1>2, <1>3, <1>4, <1>5 DEF JobStep, DeleteStep

LEMMA TypePoller ==
    ASSUME TypeOK, CurIsClaimed, NEW p \in Poller, PollerStep(p)
    PROVE  TypeOK' /\ CurIsClaimed'
<1> USE DEF TypeOK, Rewritten
<1>1. ASSUME NEW batch \in SUBSET Email, SelectDue(p, batch)
      PROVE  TypeOK' /\ CurIsClaimed'
  <2>1. \A e \in batch : [job |-> reprobes[e].job, attempt |-> reprobes[e].attempt] \in Claim
    BY <1>1 DEF SelectDue, Due, Row, Claim
  <2>2. claimed' \in [Poller -> [Email -> Claim \cup {NoClaim}]]
    BY <1>1, <2>1 DEF SelectDue
  <2>3. leaseLeft' \in [Poller -> Nat]
    BY <1>1, PolicyAssumption DEF SelectDue
  <2>4. CurIsClaimed'
    BY <1>1 DEF SelectDue, CurIsClaimed, AtWork
  <2> QED
    BY <1>1, <2>2, <2>3, <2>4 DEF SelectDue, jobVars
<1>2. CASE LeaseRows(p)
  <2>1. \A e \in Email : reprobes[e] # NoRow =>
           [reprobes[e] EXCEPT !.due = leaseLeft[p]] \in Row
    BY MovedRow
  <2>2. reprobes' \in [Email -> Row \cup {NoRow}]
    BY <1>2, <2>1 DEF LeaseRows
  <2>3. CurIsClaimed'
    BY <1>2 DEF LeaseRows, CurIsClaimed, AtWork
  <2> QED
    BY <1>2, <2>2, <2>3 DEF LeaseRows, jobVars
<1>3. ASSUME NEW e \in Email, NEW v \in Verdict, Probe(p, e, v)
      PROVE  TypeOK' /\ CurIsClaimed'
  BY <1>3 DEF Probe, CurIsClaimed, AtWork, jobVars
<1>4. CASE Reschedule(p)
  <2>1. cur[p] \in Email /\ claimed[p][cur[p]] \in Claim
    BY <1>4 DEF Reschedule, CurIsClaimed, AtWork
  <2>2. Attempt(p) \in Nat /\ claimed[p][cur[p]].job \in Job
    BY <2>1 DEF Attempt, Claim
  <2>3. reprobes' \in [Email -> Row \cup {NoRow}]
    BY <1>4, <2>1, <2>2, ScheduledRow, PolicyAssumption DEF Reschedule
  <2>4. CurIsClaimed'
    BY <1>4, <2>1 DEF Reschedule, NextRow, CurIsClaimed, AtWork
  <2> QED
    BY <1>4, <2>1, <2>3, <2>4 DEF Reschedule, NextRow, jobVars, Verdict
<1>5. CASE Drop(p)
  BY <1>5 DEF Drop, CurIsClaimed, AtWork, jobVars
<1>6. CASE ReadAddress(p)
  BY <1>6 DEF ReadAddress, CurIsClaimed, AtWork, jobVars, Address
<1>7. CASE UpdateAddress(p)
  <2>1. cur[p] \in Email /\ claimed[p][cur[p]] \in Claim
    BY <1>7 DEF UpdateAddress, CurIsClaimed, AtWork
  <2>2. [job |-> IF known[p] # NoJob THEN known[p] ELSE claimed[p][cur[p]].job,
         verdict |-> answer[p], by |-> "retry"] \in Address
    BY <2>1 DEF Address, Claim
  <2>3. addresses' \in [Email -> Address \cup {NoAddress}]
    BY <1>7, <2>1, <2>2 DEF UpdateAddress
  <2>4. CurIsClaimed'
    BY <1>7, <2>1 DEF UpdateAddress, NextRow, CurIsClaimed, AtWork
  <2> QED
    BY <1>7, <2>3, <2>4 DEF UpdateAddress, NextRow, jobVars, Verdict
<1>8. CASE EndSweep(p)
  BY <1>8 DEF EndSweep, CurIsClaimed, AtWork, jobVars
<1> QED
  BY <1>1, <1>2, <1>3, <1>4, <1>5, <1>6, <1>7, <1>8 DEF PollerStep

LEMMA TypeFault ==
    ASSUME TypeOK, CurIsClaimed, Fault
    PROVE  TypeOK' /\ CurIsClaimed'
<1> USE PolicyAssumption DEF TypeOK, Rewritten
<1>1. ASSUME NEW j \in Job, ScheduleFails(j)
      PROVE  TypeOK' /\ CurIsClaimed'
  BY <1>1 DEF ScheduleFails, CurIsClaimed, AtWork, pollerVars
<1>2. ASSUME NEW p \in Poller, WriteRaises(p)
      PROVE  TypeOK' /\ CurIsClaimed'
  BY <1>2 DEF WriteRaises, NextRow, CurIsClaimed, AtWork, jobVars, Verdict
<1>3. ASSUME NEW p \in Poller, Crash(p)
      PROVE  TypeOK' /\ CurIsClaimed'
  BY <1>3 DEF Crash, CurIsClaimed, AtWork, jobVars, Verdict, NoClaims
<1>4. ASSUME NEW p \in Poller, NEW e \in Email, ProbeRaises(p, e)
      PROVE  TypeOK' /\ CurIsClaimed'
  BY <1>4 DEF ProbeRaises, CurIsClaimed, AtWork, jobVars
<1> QED
  BY <1>1, <1>2, <1>3, <1>4 DEF Fault

LEMMA TypeTick ==
    ASSUME TypeOK, CurIsClaimed, Tick
    PROVE  TypeOK' /\ CurIsClaimed'
<1>1. \A n \in Nat : Less(n) \in Nat
  BY DEF Less
<1>2. \A e \in Email : reprobes[e] # NoRow =>
         [reprobes[e] EXCEPT !.due = Less(@)] \in Row
  <2>1. ASSUME NEW e \in Email, reprobes[e] # NoRow
        PROVE  [reprobes[e] EXCEPT !.due = Less(reprobes[e].due)] \in Row
    <3>1. reprobes[e] \in Row
      BY <2>1 DEF TypeOK
    <3>2. Less(reprobes[e].due) \in Nat
      BY <1>1, <3>1 DEF Row
    <3> QED
      BY <3>1, <3>2, MovedRow
  <2> QED
    BY <2>1
<1> QED
  BY <1>1, <1>2 DEF TypeOK, Tick, CurIsClaimed, AtWork, jobVars

\* Type correctness of the table, the address rows and the pollers.
THEOREM TypeCorrect == Spec => [](TypeOK /\ CurIsClaimed)
<1>1. TypeOK /\ CurIsClaimed /\ [Next]_vars => TypeOK' /\ CurIsClaimed'
  <2> SUFFICES ASSUME TypeOK, CurIsClaimed, [Next]_vars
               PROVE  TypeOK' /\ CurIsClaimed'
    OBVIOUS
  <2>1. CASE UNCHANGED vars
    BY <2>1 DEF vars, pollerVars, jobVars, TypeOK, CurIsClaimed, AtWork
  <2> QED
    BY <2>1, TypeJob, TypePoller, TypeFault, TypeTick DEF Next
<1> QED
  BY TypeInit, <1>1, PTL DEF Spec
\* A crash or an exception only takes copies away from a poller.
LEMMA ClaimsShrink ==
    ASSUME TypeOK, Fault
    PROVE  \A q \in Poller, e \in Email : claimed'[q][e] \in {claimed[q][e], NoClaim}
<1>1. CASE \E j \in Job : ScheduleFails(j)
  BY <1>1 DEF ScheduleFails, pollerVars
<1>2. CASE \E p \in Poller : WriteRaises(p)
  BY <1>2 DEF WriteRaises, NextRow, TypeOK
<1>3. CASE \E p \in Poller : Crash(p)
  BY <1>3 DEF Crash, NoClaims, TypeOK
<1>4. CASE \E p \in Poller, e \in Email : ProbeRaises(p, e)
  BY <1>4 DEF ProbeRaises, TypeOK
<1> QED
  BY <1>1, <1>2, <1>3, <1>4 DEF Fault
----------------------------------------------------------------------------
\* A pending row is well typed.
LEMMA RowsAreRows ==
    ASSUME TypeOK, NEW e \in Email, reprobes[e] # NoRow
    PROVE  reprobes[e] \in Row /\ reprobes[e].attempt \in Nat
  BY DEF TypeOK, Row

\* A poller's lease keeps the others off a row nobody contests: while it runs
\* the row is not due (LeaseKept), so no other poller selects it (NoneSelects);
\* and two that selected it before either leased it are told (NoneRaces).
NoneRaces ==
    \A p, q \in Poller, e \in Email :
        p # q /\ claimed[p][e] # NoClaim /\ claimed[q][e] # NoClaim
        /\ pc[p] = "leasing" /\ pc[q] = "leasing" => e \in contested

LeaseKept ==
    \A p \in Poller, e \in Email :
        Holds(p, e) /\ leaseLeft[p] > 0 /\ reprobes[e] # NoRow
        /\ reprobes[e].due < leaseLeft[p] => e \in contested

NoneSelects ==
    \A p, q \in Poller, e \in Email :
        p # q /\ Holds(p, e) /\ leaseLeft[p] > 0
        /\ pc[q] = "leasing" /\ claimed[q][e] # NoClaim => e \in contested

LeaseInv == NoneRaces /\ LeaseKept /\ NoneSelects /\ LeaseExcludes

\* A row stays contested as long as a poller holds a copy of it.
LEMMA StaysContested ==
    ASSUME NEW es, Rewritten(es), TypeOK
    PROVE  \A q \in Poller, e \in Email :
               claimed'[q][e] # NoClaim /\ e \in contested \cup es => e \in contested'
  BY DEF Rewritten

\* Steps that give no copy, lease or phase to a poller and leave the rows of
\* the copies that stay.
LEMMA LeaseUntouched ==
    ASSUME TypeOK, LeaseInv,
           \A p \in Poller : leaseLeft'[p] \in {leaseLeft[p], 0},
           \A p \in Poller, e \in Email : claimed'[p][e] # NoClaim =>
               /\ claimed[p][e] # NoClaim
               /\ Holds(p, e)' => Holds(p, e)
               /\ pc'[p] = "leasing" => pc[p] = "leasing"
               /\ e \in contested => e \in contested'
               /\ \/ e \in contested'
                  \/ reprobes'[e] = NoRow
                  \/ reprobes[e] # NoRow /\ reprobes'[e].due = reprobes[e].due
    PROVE  LeaseInv'
<1>1. \A p \in Poller : leaseLeft[p] \in Nat /\ leaseLeft'[p] \in Nat
  BY DEF TypeOK
<1>2. \A p \in Poller : leaseLeft'[p] > 0 => leaseLeft'[p] = leaseLeft[p]
  BY <1>1
<1>3. \A p \in Poller, e \in Email : Holds(p, e)' => claimed'[p][e] # NoClaim
  BY DEF Holds
<1>4. NoneRaces'
  BY DEF LeaseInv, NoneRaces
<1>5. LeaseKept'
  BY <1>2, <1>3 DEF LeaseInv, LeaseKept
<1>6. NoneSelects'
  BY <1>2, <1>3 DEF LeaseInv, NoneSelects
<1>7. LeaseExcludes'
  <2> SUFFICES ASSUME NEW p \in Poller, NEW q \in Poller, p # q, NEW e \in Email,
                      Holds(p, e)', Holds(q, e)', e \notin contested',
                      leaseLeft'[p] # 0, leaseLeft'[q] # 0
               PROVE  FALSE
    BY DEF LeaseExcludes
  <2> QED
    BY <1>3 DEF LeaseInv, LeaseExcludes
<1> QED
  BY <1>4, <1>5, <1>6, <1>7 DEF LeaseInv

LEMMA LeaseJob ==
    ASSUME TypeOK, LeaseInv, NEW j \in Job, JobStep(j) \/ DeleteStep(j)
    PROVE  LeaseInv'
<1>1. UNCHANGED pollerVars
  BY DEF JobStep, DeleteStep, RecordChunk, ScheduleOne, FinishJob, DeleteAddresses,
         DeleteRetries
<1>2. ASSUME NEW e \in Email, ScheduleOne(j, e)
      PROVE  LeaseInv'
  <2>1. 0 \in Nat /\ (0 >= MaxAttempts \/ 0 < MaxAttempts)
    BY PolicyAssumption
  <2>2. \A f \in Email \ {e} : reprobes'[f] = reprobes[f]
    BY <1>2, <2>1, ScheduledRow DEF ScheduleOne
  <2>3. \A q \in Poller, f \in Email :
           claimed'[q][f] # NoClaim /\ f \in contested \cup {e} => f \in contested'
    BY <1>2, StaysContested DEF ScheduleOne
  <2> QED
    BY <1>1, <2>2, <2>3, LeaseUntouched DEF pollerVars, Holds
<1>3. ASSUME ~\E e \in Email : ScheduleOne(j, e)
      PROVE  LeaseInv'
  <2>1. contested' = contested
    BY <1>3 DEF JobStep, DeleteStep, RecordChunk, FinishJob, DeleteAddresses,
                DeleteRetries
  <2>2. \A e \in Email : reprobes'[e] # NoRow => reprobes'[e] = reprobes[e]
    BY <1>3 DEF JobStep, DeleteStep, RecordChunk, FinishJob, DeleteAddresses,
                DeleteRetries, TypeOK
  <2> QED
    BY <1>1, <2>1, <2>2, LeaseUntouched DEF pollerVars, Holds
<1> QED
  BY <1>2, <1>3

\* Only rows that are due are selected, and the lease keeps its rows from that.
LEMMA LeaseSelect ==
    ASSUME TypeOK, LeaseInv, NEW p \in Poller, NEW batch \in SUBSET Email,
           SelectDue(p, batch)
    PROVE  LeaseInv'
<1>1. /\ pc'[p] = "leasing" /\ reprobes' = reprobes
      /\ \A q \in Poller \ {p} : /\ pc'[q] = pc[q] /\ claimed'[q] = claimed[q]
                                 /\ leaseLeft'[q] = leaseLeft[q]
  BY DEF SelectDue, TypeOK
<1>2. \A e \in Email : claimed'[p][e] # NoClaim =>
         e \in batch /\ reprobes[e] # NoRow /\ reprobes[e].due = 0
  BY DEF SelectDue, Due, TypeOK
<1>3. contested \subseteq contested'
  BY DEF SelectDue
<1>4. \A q \in Poller \ {p}, e \in Email :
         pc[q] = "leasing" /\ claimed[q][e] # NoClaim /\ e \in batch => e \in contested'
  BY DEF SelectDue
<1>5. \A q \in Poller, e \in Email : Holds(q, e)' => q # p /\ Holds(q, e)
  BY <1>1 DEF Holds
<1>6. NoneRaces'
  BY <1>1, <1>2, <1>3, <1>4 DEF LeaseInv, NoneRaces
<1>7. LeaseKept'
  BY <1>1, <1>3, <1>5 DEF LeaseInv, LeaseKept
<1>8. NoneSelects'
  <2> SUFFICES ASSUME NEW q \in Poller, NEW r \in Poller, q # r, NEW e \in Email,
                      Holds(q, e)', leaseLeft'[q] > 0,
                      pc'[r] = "leasing", claimed'[r][e] # NoClaim
               PROVE  e \in contested'
    BY DEF NoneSelects
  <2>1. Holds(q, e) /\ leaseLeft[q] > 0 /\ q # p
    BY <1>1, <1>5
  <2>2. CASE r = p
    BY <1>2, <1>3, <2>1, <2>2 DEF LeaseInv, LeaseKept
  <2>3. CASE r # p
    BY <1>1, <1>3, <2>1, <2>3 DEF LeaseInv, NoneSelects
  <2> QED
    BY <2>2, <2>3
<1>9. LeaseExcludes'
  BY <1>1, <1>3, <1>5 DEF LeaseInv, LeaseExcludes
<1> QED
  BY <1>6, <1>7, <1>8, <1>9 DEF LeaseInv

LEMMA LeaseLeases ==
    ASSUME TypeOK, LeaseInv, NEW p \in Poller, LeaseRows(p)
    PROVE  LeaseInv'
<1>1. /\ pc[p] = "leasing" /\ pc'[p] = "sweeping"
      /\ \A q \in Poller \ {p} : pc'[q] = pc[q]
      /\ UNCHANGED <<claimed, leaseLeft, contested>>
  BY DEF LeaseRows, TypeOK
<1>2. \A q \in Poller, e \in Email : Holds(q, e)' =>
         \/ q = p /\ claimed[p][e] # NoClaim
         \/ q # p /\ Holds(q, e)
  BY <1>1 DEF Holds
<1>3. \A e \in Email : claimed[p][e] # NoClaim /\ reprobes'[e] # NoRow =>
         reprobes'[e].due = leaseLeft[p]
  BY RowsAreRows DEF LeaseRows, Row, TypeOK
<1>4. \A e \in Email : claimed[p][e] = NoClaim => reprobes'[e] = reprobes[e]
  BY DEF LeaseRows
<1>5. NoneRaces'
  BY <1>1 DEF LeaseInv, NoneRaces
<1>6. LeaseKept'
  <2> SUFFICES ASSUME NEW q \in Poller, NEW e \in Email, Holds(q, e)',
                      leaseLeft[q] > 0, reprobes'[e] # NoRow,
                      reprobes'[e].due < leaseLeft[q]
               PROVE  e \in contested
    BY <1>1 DEF LeaseKept
  <2>1. CASE claimed[p][e] = NoClaim
    BY <1>2, <1>4, <2>1 DEF LeaseInv, LeaseKept
  <2>2. CASE claimed[p][e] # NoClaim
    <3>1. q # p
      BY <1>3, <2>2 DEF TypeOK
    <3> QED
      BY <1>1, <1>2, <2>2, <3>1 DEF LeaseInv, NoneSelects
  <2> QED
    BY <2>1, <2>2
<1>7. NoneSelects'
  <2> SUFFICES ASSUME NEW q \in Poller, NEW r \in Poller, q # r, NEW e \in Email,
                      Holds(q, e)', leaseLeft[q] > 0,
                      pc'[r] = "leasing", claimed[r][e] # NoClaim
               PROVE  e \in contested
    BY <1>1 DEF NoneSelects
  <2>1. r # p /\ pc[r] = "leasing"
    BY <1>1
  <2>2. CASE q = p
    BY <1>1, <1>2, <2>1, <2>2 DEF LeaseInv, NoneRaces
  <2>3. CASE q # p
    BY <1>2, <2>1, <2>3 DEF LeaseInv, NoneSelects
  <2> QED
    BY <2>2, <2>3
<1>8. LeaseExcludes'
  <2> SUFFICES ASSUME NEW q \in Poller, NEW r \in Poller, q # r, NEW e \in Email,
                      Holds(q, e)', Holds(r, e)', e \notin contested,
                      leaseLeft[q] # 0, leaseLeft[r] # 0
               PROVE  FALSE
    BY <1>1 DEF LeaseExcludes
  <2>1. leaseLeft[q] > 0 /\ leaseLeft[r] > 0
    BY DEF TypeOK
  <2>2. CASE q = p
    BY <1>1, <1>2, <2>1, <2>2 DEF LeaseInv, NoneSelects
  <2>3. CASE r = p
    BY <1>1, <1>2, <2>1, <2>3 DEF LeaseInv, NoneSelects
  <2>4. CASE q # p /\ r # p
    BY <1>2, <2>4 DEF LeaseInv, LeaseExcludes
  <2> QED
    BY <2>2, <2>3, <2>4
<1> QED
  BY <1>5, <1>6, <1>7, <1>8 DEF LeaseInv

LEMMA LeasePoller ==
    ASSUME TypeOK, CurIsClaimed, LeaseInv, NEW p \in Poller, PollerStep(p)
    PROVE  LeaseInv'
<1>1. ASSUME NEW e \in Email, NEW v \in Verdict, Probe(p, e, v)
      PROVE  LeaseInv'
  BY <1>1, LeaseUntouched DEF Probe, Holds, TypeOK
<1>2. CASE Reschedule(p)
  <2>1. cur[p] \in Email /\ claimed[p][cur[p]] \in Claim /\ pc[p] = "answered"
    BY <1>2 DEF Reschedule, CurIsClaimed, AtWork, TypeOK
  <2>2. Attempt(p) \in Nat /\ claimed[p][cur[p]].job \in Job
    BY <2>1 DEF Attempt, Claim
  <2>3. \A e \in Email \ {cur[p]} : reprobes'[e] = reprobes[e]
    BY <1>2, <2>1, <2>2, ScheduledRow, PolicyAssumption DEF Reschedule
  <2>4. \A q \in Poller, e \in Email :
           claimed'[q][e] # NoClaim /\ e \in contested \cup {cur[p]} => e \in contested'
    BY <1>2, StaysContested DEF Reschedule
  <2>5. \A q \in Poller, e \in Email : claimed'[q][e] \in {claimed[q][e], NoClaim}
    BY <1>2 DEF Reschedule, NextRow, TypeOK
  <2>6. /\ pc' = [pc EXCEPT ![p] = "sweeping"] /\ leaseLeft' = leaseLeft
    BY <1>2 DEF Reschedule, NextRow
  <2> QED
    BY <2>1, <2>3, <2>4, <2>5, <2>6, LeaseUntouched DEF Holds, TypeOK
<1>3. CASE Drop(p)
  BY <1>3, LeaseUntouched DEF Drop, Holds, TypeOK
<1>4. CASE ReadAddress(p)
  BY <1>4, LeaseUntouched DEF ReadAddress, Holds, TypeOK
<1>5. CASE UpdateAddress(p)
  <2>1. \A q \in Poller, e \in Email :
           claimed'[q][e] # NoClaim /\ e \in contested \cup {} => e \in contested'
    BY <1>5, StaysContested DEF UpdateAddress
  <2>2. \A q \in Poller, e \in Email : claimed'[q][e] \in {claimed[q][e], NoClaim}
    BY <1>5 DEF UpdateAddress, NextRow, TypeOK
  <2>3. /\ pc' = [pc EXCEPT ![p] = "sweeping"] /\ pc[p] = "read"
        /\ leaseLeft' = leaseLeft /\ reprobes' = reprobes
    BY <1>5 DEF UpdateAddress, NextRow
  <2> QED
    BY <2>1, <2>2, <2>3, LeaseUntouched DEF Holds, TypeOK
<1>6. CASE EndSweep(p)
  BY <1>6, LeaseUntouched DEF EndSweep, Holds, TypeOK
<1> QED
  BY <1>1, <1>2, <1>3, <1>4, <1>5, <1>6, LeaseSelect, LeaseLeases DEF PollerStep

LEMMA LeaseFault ==
    ASSUME TypeOK, LeaseInv, Fault
    PROVE  LeaseInv'
<1>1. \A q \in Poller, e \in Email : claimed'[q][e] \in {claimed[q][e], NoClaim}
  BY ClaimsShrink
<1>2. reprobes' = reprobes /\ \A q \in Poller : leaseLeft'[q] \in {leaseLeft[q], 0}
  BY DEF Fault, ScheduleFails, WriteRaises, Crash, ProbeRaises, pollerVars, TypeOK
<1>3. \A q \in Poller, e \in Email :
         claimed'[q][e] # NoClaim /\ e \in contested => e \in contested'
  <2>1. contested' = contested \/ Rewritten({})
    BY DEF Fault, ScheduleFails, WriteRaises, Crash, ProbeRaises
  <2> QED
    BY <2>1, StaysContested
<1>4. \A q \in Poller : \/ pc'[q] = pc[q]
                        \/ pc'[q] = "idle"
                        \/ pc'[q] = "sweeping" /\ pc[q] \in {"answered", "dropped", "read"}
  BY DEF Fault, ScheduleFails, WriteRaises, NextRow, Crash, ProbeRaises, pollerVars, TypeOK
<1> QED
  BY <1>1, <1>2, <1>3, <1>4, LeaseUntouched DEF Holds

LEMMA LeaseTick ==
    ASSUME TypeOK, LeaseInv, Tick
    PROVE  LeaseInv'
<1>1. UNCHANGED <<pc, claimed, contested>>
  BY DEF Tick
<1>2. \A p \in Poller : leaseLeft'[p] > 0 => leaseLeft'[p] = leaseLeft[p] - 1 /\ leaseLeft[p] > 0
  BY DEF Tick, Less, TypeOK
<1>3. \A e \in Email : reprobes'[e] # NoRow =>
         reprobes[e] # NoRow /\ reprobes'[e].due >= reprobes[e].due - 1
               /\ reprobes'[e].due \in Nat /\ reprobes[e].due \in Nat
  BY RowsAreRows DEF Tick, Less, Row
<1>4. NoneRaces'
  BY <1>1 DEF LeaseInv, NoneRaces
<1>5. LeaseKept'
  BY <1>1, <1>2, <1>3 DEF LeaseInv, LeaseKept, Holds, TypeOK
<1>6. NoneSelects'
  BY <1>1, <1>2 DEF LeaseInv, NoneSelects, Holds
<1>7. LeaseExcludes'
  BY <1>1, <1>2 DEF LeaseInv, LeaseExcludes, Holds, Tick, Less, TypeOK
<1> QED
  BY <1>4, <1>5, <1>6, <1>7 DEF LeaseInv

\* Two pollers work on one address only once a lease has run out or its row was
\* contested, for every lease, policy, and number of pollers, jobs and faults.
THEOREM LeaseHonoured == Spec => []LeaseExcludes
<1>1. Init => LeaseInv
  BY DEF Init, Began, LeaseInv, NoneRaces, LeaseKept, NoneSelects, LeaseExcludes, Holds, NoClaims
<1>2. TypeOK /\ CurIsClaimed /\ LeaseInv /\ [Next]_vars => LeaseInv'
  <2> SUFFICES ASSUME TypeOK, CurIsClaimed, LeaseInv, [Next]_vars
               PROVE  LeaseInv'
    OBVIOUS
  <2>1. CASE UNCHANGED vars
    BY <2>1, LeaseUntouched DEF vars, pollerVars, Holds
  <2> QED
    BY <2>1, LeaseJob, LeasePoller, LeaseFault, LeaseTick DEF Next
<1> QED
  BY TypeCorrect, <1>1, <1>2, PTL DEF Spec, LeaseInv
----------------------------------------------------------------------------
\* As long as nothing died, raised or was deleted, every deferred address keeps
\* a retry, however the pollers and the jobs interleave.  That is inductive once
\* a job is known to have nothing left to queue outside its scheduling phase.
NoneOrphaned == \A e \in Email : Deferred(e) => Awaited(e)

OrphanFree ==
    /\ NoneOrphaned
    /\ \A j \in Job : jobState[j] # "scheduling" => pending[j] = {}

LEMMA OrphanFreeJob ==
    ASSUME MaxAttempts > 0, TypeOK, OrphanFree, faults' = faults,
           NEW j \in Job, JobStep(j)
    PROVE  OrphanFree'
<1> USE DEF OrphanFree, NoneOrphaned, Deferred, Awaited, Retrying
<1>1. ASSUME NEW chunk \in (SUBSET Email) \ {{}}, RecordChunk(j, chunk)
      PROVE  OrphanFree'
  <2>0. faults' # faults + 1
    BY PolicyAssumption DEF TypeOK
  <2>1. PICK verdict \in [chunk -> Verdict] :
          /\ addresses' = Recorded(j, verdict)
          /\ pending' = [pending EXCEPT ![j] = {e \in chunk : verdict[e] = "greylisted"}]
    BY <1>1, <2>0 DEF RecordChunk
  <2>2. \A e \in chunk : Deferred(e)' => e \in pending'[j]
    BY <2>1 DEF TypeOK, Recorded
  <2>3. \A k \in Job : pending[k] \subseteq pending'[k]
    <3>1. pending[j] = {}
      BY <1>1 DEF RecordChunk
    <3> QED
      BY <2>1, <3>1 DEF TypeOK
  <2>4. \A e \in Email \ chunk : addresses'[e] = addresses[e]
    BY <2>1 DEF Recorded
  <2>5. ASSUME NEW e \in Email, Deferred(e)' PROVE Awaited(e)'
    <3>1. CASE e \in chunk
      BY <2>2, <2>5, <3>1
    <3>2. CASE e \notin chunk
      <4>1. Awaited(e)
        BY <2>4, <2>5, <3>2
      <4> QED
        BY <1>1, <2>3, <4>1 DEF RecordChunk, pollerVars
    <3> QED
      BY <3>1, <3>2
  <2>6. \A k \in Job : jobState'[k] # "scheduling" => pending'[k] = {}
    BY <1>1, <2>1 DEF RecordChunk, TypeOK
  <2> QED
    BY <2>5, <2>6
<1>2. ASSUME NEW e \in Email, ScheduleOne(j, e)
      PROVE  OrphanFree'
  <2>1. /\ reprobes' = Scheduled(e, j, 0)
        /\ 0 \in Nat /\ 0 < MaxAttempts
    BY <1>2 DEF ScheduleOne
  <2>2. reprobes'[e] # NoRow /\ \A f \in Email \ {e} : reprobes'[f] = reprobes[f]
    BY <2>1, ScheduledRow
  <2>3. \A k \in Job : pending[k] \ {e} \subseteq pending'[k]
    BY <1>2 DEF ScheduleOne, TypeOK
  <2>4. NoneOrphaned'
    BY <1>2, <2>2, <2>3 DEF ScheduleOne, pollerVars
  <2> QED
    BY <1>2, <2>4 DEF ScheduleOne, TypeOK
<1>3. CASE FinishJob(j)
  BY <1>3 DEF FinishJob, pollerVars, TypeOK
<1> QED
  BY <1>1, <1>2, <1>3 DEF JobStep

\* A step of a poller orphans nothing if it defers no address, takes a row away
\* only from an address it goes on to write, and stops retrying an address
\* only when that is no longer deferred.
LEMMA StillAwaited ==
    ASSUME NoneOrphaned, UNCHANGED pending,
           \A e \in Email : Deferred(e)' => Deferred(e),
           \A e \in Email : reprobes[e] # NoRow => reprobes'[e] # NoRow \/ Retrying(e)',
           \A e \in Email : Retrying(e) => Retrying(e)' \/ ~Deferred(e)'
    PROVE  NoneOrphaned'
  BY DEF NoneOrphaned, Awaited

LEMMA OrphanFreePoller ==
    ASSUME MaxAttempts > 0, TypeOK, CurIsClaimed, OrphanFree,
           NEW p \in Poller, PollerStep(p)
    PROVE  OrphanFree'
<1>1. UNCHANGED jobVars
  BY DEF PollerStep, SelectDue, LeaseRows, Probe, Reschedule, Drop,
         ReadAddress, UpdateAddress, EndSweep
<1>2. SUFFICES NoneOrphaned'
  BY <1>1 DEF OrphanFree, jobVars
<1>3. NoneOrphaned /\ UNCHANGED pending
  BY <1>1 DEF OrphanFree, jobVars
<1>4. ASSUME UNCHANGED addresses PROVE \A e \in Email : Deferred(e)' => Deferred(e)
  BY <1>4 DEF Deferred
<1>5. ASSUME UNCHANGED <<reprobes, addresses>>,
             \A q \in Poller : q # p => pc'[q] = pc[q] /\ cur'[q] = cur[q],
             pc[p] \in {"dropped", "read"} =>
                 pc'[p] \in {"dropped", "read"} /\ cur'[p] = cur[p]
      PROVE  NoneOrphaned'
  <2>1. \A e \in Email : Retrying(e) => Retrying(e)'
    BY <1>5 DEF Retrying
  <2> QED
    BY <1>3, <1>4, <1>5, <2>1, StillAwaited
<1>6. ASSUME NEW batch \in SUBSET Email, SelectDue(p, batch)
      PROVE  NoneOrphaned'
  BY <1>5, <1>6 DEF SelectDue, TypeOK
<1>7. CASE LeaseRows(p)
  <2>1. \A e \in Email : reprobes[e] # NoRow =>
           [reprobes[e] EXCEPT !.due = leaseLeft[p]] \in Row
    BY MovedRow DEF TypeOK
  <2>2. \A e \in Email : reprobes[e] # NoRow => reprobes'[e] # NoRow
    BY <1>7, <2>1, DistinctAssumption DEF LeaseRows
  <2>3. \A e \in Email : Retrying(e) => Retrying(e)'
    BY <1>7 DEF LeaseRows, Retrying, TypeOK
  <2> QED
    BY <1>3, <1>4, <1>7, <2>2, <2>3, StillAwaited DEF LeaseRows
<1>8. ASSUME NEW e \in Email, NEW v \in Verdict, Probe(p, e, v)
      PROVE  NoneOrphaned'
  BY <1>5, <1>8 DEF Probe, TypeOK
<1>9. CASE Reschedule(p)
  <2>1. cur[p] \in Email /\ claimed[p][cur[p]] \in Claim
    BY <1>9 DEF Reschedule, CurIsClaimed, AtWork, TypeOK
  <2>2. Attempt(p) \in Nat /\ claimed[p][cur[p]].job \in Job
    BY <2>1 DEF Attempt, Claim
  <2>3. Attempt(p) < MaxAttempts
    BY <1>9, <2>2, DelayLeft DEF Reschedule, StillDeferred
  <2>4. /\ reprobes'[cur[p]] # NoRow
        /\ \A e \in Email \ {cur[p]} : reprobes'[e] = reprobes[e]
    BY <1>9, <2>1, <2>2, <2>3, ScheduledRow DEF Reschedule
  <2>5. \A e \in Email : Retrying(e) => Retrying(e)'
    BY <1>9 DEF Reschedule, NextRow, Retrying, TypeOK
  <2> QED
    BY <1>3, <1>4, <1>9, <2>4, <2>5, StillAwaited DEF Reschedule
<1>10. CASE Drop(p)
  <2>1. \A e \in Email \ {cur[p]} : reprobes'[e] = reprobes[e]
    BY <1>10 DEF Drop, TypeOK
  <2>2. Retrying(cur[p])'
    BY <1>10 DEF Drop, Retrying, TypeOK
  <2>3. \A e \in Email : Retrying(e) => Retrying(e)'
    BY <1>10 DEF Drop, Retrying, TypeOK
  <2> QED
    BY <1>3, <1>4, <1>10, <2>1, <2>2, <2>3, StillAwaited DEF Drop
<1>11. CASE ReadAddress(p)
  BY <1>5, <1>11 DEF ReadAddress, TypeOK
<1>12. CASE UpdateAddress(p)
  <2>1. cur[p] \in Email
    BY <1>12 DEF UpdateAddress, CurIsClaimed, AtWork
  <2>2. \A e \in Email : e = cur[p] => ~Deferred(e)'
    BY <1>12, <2>1 DEF UpdateAddress, Deferred, TypeOK
  <2>3. \A e \in Email \ {cur[p]} : addresses'[e] = addresses[e]
    BY <1>12 DEF UpdateAddress, TypeOK
  <2>4. \A e \in Email : Deferred(e)' => Deferred(e)
    BY <2>2, <2>3 DEF Deferred
  <2>5. \A e \in Email : e # cur[p] /\ Retrying(e) => Retrying(e)'
    BY <1>12 DEF UpdateAddress, NextRow, Retrying, TypeOK
  <2> QED
    BY <1>3, <1>12, <2>2, <2>4, <2>5, StillAwaited DEF UpdateAddress
<1>13. CASE EndSweep(p)
  BY <1>5, <1>13 DEF EndSweep, TypeOK
<1> QED
  BY <1>6, <1>7, <1>8, <1>9, <1>10, <1>11, <1>12, <1>13 DEF PollerStep

\* An address a job left greylisted is never forgotten: it has a retry in the
\* table, one about to be queued, or one about to write its verdict.
THEOREM NothingOrphaned == MaxAttempts > 0 => (Spec => []NoOrphanedDeferral)
<1> SUFFICES ASSUME MaxAttempts > 0
             PROVE  Spec => []NoOrphanedDeferral
  OBVIOUS
<1> DEFINE Inv == Undisturbed => OrphanFree
<1>1. Init => Inv
  BY DEF Init, Began, OrphanFree, NoneOrphaned, Deferred
<1>2. TypeOK /\ CurIsClaimed /\ Inv /\ [Next]_vars => Inv'
  <2> SUFFICES ASSUME TypeOK, CurIsClaimed, Inv, [Next]_vars, Undisturbed'
               PROVE  OrphanFree'
    OBVIOUS
  <2>1. CASE UNCHANGED vars
    BY <2>1 DEF vars, pollerVars, jobVars, OrphanFree, NoneOrphaned, Undisturbed,
                Deferred, Awaited, Retrying
  <2>2. ASSUME NEW j \in Job, JobStep(j)
        PROVE  OrphanFree'
    <3>0. faults \in Nat
      BY PolicyAssumption DEF TypeOK
    <3>1. faults' = 0 /\ deleted' = deleted
      BY <2>2 DEF JobStep, RecordChunk, ScheduleOne, FinishJob, Undisturbed
    <3>2. faults' \in {faults, faults + 1}
      BY <2>2 DEF JobStep, RecordChunk, ScheduleOne, FinishJob
    <3>3. faults' = faults /\ Undisturbed
      BY <3>0, <3>1, <3>2 DEF Undisturbed
    <3> QED
      BY <2>2, <3>3, OrphanFreeJob
  <2>3. ASSUME NEW j \in Job, DeleteStep(j)
        PROVE  OrphanFree'
    BY <2>3 DEF DeleteStep, DeleteAddresses, DeleteRetries, Undisturbed, TypeOK
  <2>4. ASSUME NEW p \in Poller, PollerStep(p)
        PROVE  OrphanFree'
    <3>1. UNCHANGED <<deleted, faults>>
      BY <2>4 DEF PollerStep, SelectDue, LeaseRows, Probe, Reschedule, Drop,
                  ReadAddress, UpdateAddress, EndSweep, jobVars
    <3>2. OrphanFree
      BY <3>1 DEF Undisturbed
    <3> QED
      BY <2>4, <3>2, OrphanFreePoller
  <2>5. CASE Fault
    BY <2>5, PolicyAssumption
    DEF Fault, ScheduleFails, WriteRaises, Crash, ProbeRaises, Undisturbed, TypeOK
  <2>6. CASE Tick
    <3>1. \A e \in Email : reprobes[e] # NoRow =>
             [reprobes[e] EXCEPT !.due = Less(@)] \in Row
      BY DEF TypeOK, Row, Less
    <3>2. \A e \in Email : reprobes[e] # NoRow => reprobes'[e] # NoRow
      BY <2>6, <3>1, DistinctAssumption DEF Tick
    <3>3. OrphanFree
      BY <2>6 DEF Tick, Undisturbed, jobVars
    <3> QED
      BY <2>6, <3>2, <3>3
      DEF Tick, OrphanFree, NoneOrphaned, Deferred, Awaited, Retrying, jobVars
  <2> QED
    BY <2>1, <2>2, <2>3, <2>4, <2>5, <2>6 DEF Next
<1>3. Inv => NoOrphanedDeferral
  BY DEF OrphanFree, NoneOrphaned, NoOrphanedDeferral
<1> QED
  BY TypeCorrect, <1>1, <1>2, <1>3, PTL DEF Spec
----------------------------------------------------------------------------
\* With one poller nobody else moves a row past the copy it claimed, so the
\* count it writes back is never behind the table.
CopyNotBehind ==
    \A p \in Poller, e \in Email :
        claimed[p][e] # NoClaim /\ reprobes[e] # NoRow
            => reprobes[e].attempt <= claimed[p][e].attempt

LEMMA ClaimsAreClaims ==
    ASSUME TypeOK, NEW p \in Poller, NEW e \in Email, claimed[p][e] # NoClaim
    PROVE  claimed[p][e] \in Claim /\ claimed[p][e].attempt \in Nat
  BY DEF TypeOK, Claim

\* Steps that leave the counts and add no claim.
LEMMA CountsUntouched ==
    ASSUME TypeOK, CopyNotBehind,
           \A e \in Email : reprobes'[e] # NoRow =>
               reprobes[e] # NoRow /\ reprobes'[e].attempt = reprobes[e].attempt,
           \A p \in Poller, e \in Email : claimed'[p][e] \in {claimed[p][e], NoClaim}
    PROVE  CopyNotBehind'
  BY RowsAreRows DEF CopyNotBehind

LEMMA CountsStep ==
    ASSUME NEW p0, Poller = {p0}, TypeOK, CurIsClaimed, CopyNotBehind, [Next]_vars
    PROVE  CopyNotBehind'
<1>1. ASSUME NEW j \in Job, NEW e \in Email, ScheduleOne(j, e)
      PROVE  CopyNotBehind'
  <2>1. /\ reprobes' = Scheduled(e, j, 0) /\ claimed' = claimed
        /\ e \in pending[j] \ pending'[j]
        /\ 0 \in Nat /\ (0 >= MaxAttempts \/ 0 < MaxAttempts)
    BY <1>1, PolicyAssumption DEF ScheduleOne, pollerVars, TypeOK
  <2>2. /\ \A f \in Email \ {e} : reprobes'[f] = reprobes[f]
        /\ reprobes'[e] = reprobes[e] \/ reprobes'[e].attempt = 0
    BY <2>1, ScheduledRow
  <2>3. CopyNotBehind'
    BY <2>1, <2>2, ClaimsAreClaims DEF CopyNotBehind
  <2> QED
    BY <2>3
<1>2. ASSUME NEW j \in Job, JobStep(j) \/ DeleteStep(j),
             ~\E e \in Email : ScheduleOne(j, e)
      PROVE  CopyNotBehind'
  <2>1. \A e \in Email : reprobes'[e] # NoRow => reprobes'[e] = reprobes[e]
    BY <1>2 DEF JobStep, DeleteStep, RecordChunk, FinishJob, DeleteAddresses,
                DeleteRetries, TypeOK
  <2>2. claimed' = claimed
    BY <1>2 DEF JobStep, DeleteStep, RecordChunk, FinishJob, DeleteAddresses,
                DeleteRetries, pollerVars
  <2> QED
    BY <2>1, <2>2, CountsUntouched
<1>3. ASSUME NEW p \in Poller, NEW batch \in SUBSET Email, SelectDue(p, batch)
      PROVE  CopyNotBehind'
  <2>1. \A e \in Email : claimed'[p][e] # NoClaim =>
           claimed'[p][e].attempt = reprobes[e].attempt
    BY <1>3 DEF SelectDue, TypeOK
  <2>2. reprobes' = reprobes
    BY <1>3 DEF SelectDue
  <2> QED
    BY <1>3, <2>1, <2>2, RowsAreRows DEF CopyNotBehind
<1>4. ASSUME NEW p \in Poller, Reschedule(p)
      PROVE  CopyNotBehind'
  <2>1. cur[p] \in Email /\ claimed[p][cur[p]] # NoClaim /\ p = p0
    BY <1>4 DEF Reschedule, CurIsClaimed, AtWork
  <2>2. /\ claimed[p][cur[p]] \in Claim
        /\ claimed[p][cur[p]].job \in Job /\ claimed[p][cur[p]].attempt \in Nat
    BY <2>1, ClaimsAreClaims DEF Claim
  <2>3. Attempt(p) \in Nat /\ Attempt(p) > claimed[p][cur[p]].attempt
    BY <2>2 DEF Attempt
  <2>4. Attempt(p) < MaxAttempts
    BY <1>4, <2>3, DelayLeft DEF Reschedule, StillDeferred
  <2>5. /\ reprobes'[cur[p]].attempt = Attempt(p)
        /\ \A e \in Email \ {cur[p]} : reprobes'[e] = reprobes[e]
    BY <1>4, <2>1, <2>2, <2>3, <2>4, ScheduledRow DEF Reschedule
  <2>6. /\ claimed'[p][cur[p]] = NoClaim
        /\ \A e \in Email \ {cur[p]} : claimed'[p][e] = claimed[p][e]
    BY <1>4, <2>1 DEF Reschedule, NextRow, TypeOK
  <2>7. CopyNotBehind'
    BY <2>1, <2>5, <2>6 DEF CopyNotBehind
  <2> QED
    BY <2>7
<1>5. ASSUME NEW p \in Poller, PollerStep(p), ~Reschedule(p),
             ~\E batch \in SUBSET Email : SelectDue(p, batch)
      PROVE  CopyNotBehind'
  <2>1. \A e \in Email : reprobes'[e] # NoRow =>
           reprobes[e] # NoRow /\ reprobes'[e].attempt = reprobes[e].attempt
    <3>1. CASE LeaseRows(p)
      BY <3>1, RowsAreRows DEF LeaseRows, Row
    <3>2. CASE Drop(p)
      BY <3>2 DEF Drop, TypeOK
    <3> QED
      BY <1>5, <3>1, <3>2 DEF PollerStep, Probe, ReadAddress, UpdateAddress, EndSweep
  <2>2. \A q \in Poller, e \in Email : claimed'[q][e] \in {claimed[q][e], NoClaim}
    BY <1>5 DEF PollerStep, LeaseRows, Probe, Drop, ReadAddress, UpdateAddress,
                NextRow, EndSweep, TypeOK
  <2> QED
    BY <2>1, <2>2, CountsUntouched
<1>6. CASE Fault
  <2>1. reprobes' = reprobes
    BY <1>6 DEF Fault, ScheduleFails, WriteRaises, Crash, ProbeRaises
  <2>2. \A q \in Poller, e \in Email : claimed'[q][e] \in {claimed[q][e], NoClaim}
    BY <1>6, ClaimsShrink
  <2> QED
    BY <2>1, <2>2, CountsUntouched
<1>7. CASE Tick
  <2>1. \A e \in Email : reprobes'[e] # NoRow =>
           reprobes[e] # NoRow /\ reprobes'[e].attempt = reprobes[e].attempt
    BY <1>7, RowsAreRows DEF Tick, Row
  <2> QED
    BY <1>7, <2>1, CountsUntouched DEF Tick
<1>8. CASE UNCHANGED vars
  BY <1>8, CountsUntouched DEF vars, pollerVars
<1> QED
  BY <1>1, <1>2, <1>3, <1>4, <1>5, <1>6, <1>7, <1>8 DEF Next
----------------------------------------------------------------------------
\* The refinement mapping of Schedule, and how the table determines it.
Counts == [e \in Email |-> IF reprobes[e] = NoRow THEN -1 ELSE reprobes[e].attempt]

LEMMA CountsStutter ==
    ASSUME \A e \in Email :
             /\ reprobes'[e] = NoRow <=> reprobes[e] = NoRow
             /\ reprobes[e] # NoRow => reprobes'[e].attempt = reprobes[e].attempt
    PROVE  Counts' = Counts
  BY DEF Counts

LEMMA ScheduleStep ==
    ASSUME NEW p0, Poller = {p0}, TypeOK, CurIsClaimed, CopyNotBehind, [Next]_vars
    PROVE  Schedule!Next \/ Counts' = Counts
<1> USE DEF Counts
<1>1. ASSUME NEW j \in Job, NEW e \in Email, ScheduleOne(j, e)
      PROVE  Schedule!Next \/ Counts' = Counts
  <2>1. reprobes' = Scheduled(e, j, 0) /\ 0 \in Nat
    BY <1>1 DEF ScheduleOne
  <2>2. CASE 0 >= MaxAttempts
    BY <2>1, <2>2, ScheduledRow
  <2>3. CASE 0 < MaxAttempts
    <3>1. \A f \in Email : Counts'[f] = IF f = e THEN 0 ELSE Counts[f]
      BY <2>1, <2>3, ScheduledRow
    <3>2. Schedule!Defer(e)
      BY <2>3, <3>1 DEF Schedule!Defer
    <3> QED
      BY <3>2 DEF Schedule!Next
  <2> QED
    BY <2>2, <2>3, PolicyAssumption
<1>2. ASSUME NEW j \in Job, DeleteRetries(j)
      PROVE  Schedule!Next \/ Counts' = Counts
  <2> DEFINE es == {e \in Email : reprobes[e] # NoRow /\ reprobes[e].job = j}
  <2>1. Counts' = [e \in Email |-> IF e \in es THEN -1 ELSE Counts[e]]
    BY <1>2 DEF DeleteRetries
  <2>2. \A e \in es : Counts[e] # -1
    BY RowsAreRows
  <2>3. es \in SUBSET Email /\ Schedule!Close(es)
    BY <2>1, <2>2 DEF Schedule!Close, Schedule!Closed
  <2> QED
    BY <2>3 DEF Schedule!Next, Schedule!Close
<1>3. ASSUME NEW p \in Poller, Reschedule(p)
      PROVE  Schedule!Next \/ Counts' = Counts
  <2>1. cur[p] \in Email /\ claimed[p][cur[p]] # NoClaim
    BY <1>3 DEF Reschedule, CurIsClaimed, AtWork
  <2>2. /\ claimed[p][cur[p]] \in Claim
        /\ claimed[p][cur[p]].job \in Job /\ claimed[p][cur[p]].attempt \in Nat
    BY <2>1, ClaimsAreClaims DEF Claim
  <2>3. Attempt(p) \in Nat /\ Attempt(p) = claimed[p][cur[p]].attempt + 1
    BY <2>2 DEF Attempt
  <2>4. Attempt(p) < MaxAttempts
    BY <1>3, <2>3, DelayLeft DEF Reschedule, StillDeferred
  <2>5. \A f \in Email : Counts'[f] = IF f = cur[p] THEN Attempt(p) ELSE Counts[f]
    BY <1>3, <2>1, <2>2, <2>3, <2>4, ScheduledRow DEF Reschedule
  <2>6. Attempt(p) > Counts[cur[p]]
    BY <2>1, <2>2, <2>3, RowsAreRows DEF CopyNotBehind
  <2>7. Attempt(p) \in 1..(MaxAttempts - 1)
    BY <2>2, <2>3, <2>4, PolicyAssumption
  <2>8. Schedule!Retry(cur[p])
    BY <2>5, <2>6, <2>7 DEF Schedule!Retry
  <2> QED
    BY <2>1, <2>8 DEF Schedule!Next, Schedule!Retry
<1>4. ASSUME NEW p \in Poller, Drop(p)
      PROVE  Schedule!Next \/ Counts' = Counts
  <2>1. reprobes' = [reprobes EXCEPT ![cur[p]] = NoRow] /\ cur[p] \in Email
    BY <1>4 DEF Drop, CurIsClaimed, AtWork
  <2>2. CASE reprobes[cur[p]] = NoRow
    BY <2>1, <2>2 DEF TypeOK
  <2>3. CASE reprobes[cur[p]] # NoRow
    <3>1. Counts' = [e \in Email |-> IF e \in {cur[p]} THEN -1 ELSE Counts[e]]
      BY <2>1 DEF TypeOK
    <3>2. \A e \in {cur[p]} : Counts[e] # -1
      BY <2>1, <2>3, RowsAreRows
    <3>3. {cur[p]} \in SUBSET Email /\ Schedule!Close({cur[p]})
      BY <2>1, <3>1, <3>2 DEF Schedule!Close, Schedule!Closed
    <3> QED
      BY <3>3 DEF Schedule!Next, Schedule!Close
  <2> QED
    BY <2>2, <2>3
<1>5. CASE Tick \/ \E p \in Poller : LeaseRows(p)
  <2>1. \A e \in Email :
           /\ reprobes'[e] = NoRow <=> reprobes[e] = NoRow
           /\ reprobes[e] # NoRow => reprobes'[e].attempt = reprobes[e].attempt
    <3>1. \A e \in Email, n \in Nat : reprobes[e] # NoRow =>
             [reprobes[e] EXCEPT !.due = n] \in Row
      BY RowsAreRows DEF Row
    <3>2. \A e \in Email : reprobes[e] # NoRow => Less(reprobes[e].due) \in Nat
      BY RowsAreRows DEF Row, Less
    <3>3. CASE Tick
      BY <3>1, <3>2, <3>3, RowsAreRows, DistinctAssumption DEF Tick, Row
    <3>4. CASE \E p \in Poller : LeaseRows(p)
      BY <3>1, <3>4, RowsAreRows, DistinctAssumption DEF LeaseRows, Row, TypeOK
    <3> QED
      BY <1>5, <3>3, <3>4
  <2> QED
    BY <2>1, CountsStutter
<1>6. CASE reprobes' = reprobes
  BY <1>6
<1>7. \/ reprobes' = reprobes
      \/ \E j \in Job : DeleteRetries(j) \/ \E e \in Email : ScheduleOne(j, e)
      \/ \E p \in Poller : LeaseRows(p) \/ Reschedule(p) \/ Drop(p)
      \/ Tick
  BY DEF Next, vars, JobStep, DeleteStep, PollerStep, Fault, RecordChunk, FinishJob,
         DeleteAddresses, SelectDue, Probe, ReadAddress, UpdateAddress, EndSweep,
         ScheduleFails, WriteRaises, Crash, ProbeRaises
<1> QED
  BY <1>1, <1>2, <1>3, <1>4, <1>5, <1>6, <1>7

\* With one process sweeping, the table of pending retries implements the
\* abstract schedule: an address opens at attempt 0, moves only to later
\* attempts of the policy, and closes.
THEOREM RefinesSchedule ==
    ASSUME NEW CONSTANT p0, Poller = {p0}
    PROVE  Spec => Schedule!Spec
<1>1. Init => Schedule!Init /\ CopyNotBehind
  BY DEF Init, Began, CopyNotBehind, NoClaims, Schedule!Init, Schedule!Closed
<1>2. TypeOK /\ CurIsClaimed /\ CopyNotBehind /\ [Next]_vars => CopyNotBehind'
  BY CountsStep
<1>3. TypeOK /\ CurIsClaimed /\ CopyNotBehind /\ [Next]_vars
        => [Schedule!Next]_([e \in Email |->
               IF reprobes[e] = NoRow THEN -1 ELSE reprobes[e].attempt])
  BY ScheduleStep DEF Counts
<1> QED
  BY TypeCorrect, <1>1, <1>2, <1>3, PTL DEF Spec, Schedule!Spec
============================================================================
