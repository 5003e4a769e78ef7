------------------------------ MODULE Reprobe ------------------------------
(***************************************************************************)
(* Deferred re-probes of greylisted addresses: the durable table of        *)
(* pending retries (reprobe.py, ReprobeStore), the pollers that sweep it   *)
(* (run_due_reprobes, _reprobe_one), the jobs that fill it                 *)
(* (pipeline.py, _record_addresses and _schedule_reprobes), the address    *)
(* rows both write, and the deletion of a job (api/jobs.py).               *)
(*                                                                         *)
(* One workspace: every statement carries the workspace in its key, so     *)
(* rows of two workspaces never meet.  An Email is a row key.  Every       *)
(* database transaction is one atomic step, except claim_due, whose SELECT *)
(* takes no row lock and whose UPDATEs repeat no condition but the key: it *)
(* is the two steps SelectDue and LeaseRows.  Time is relative: a row      *)
(* carries the time left until next_attempt_at and Tick lets it pass, so   *)
(* no clock has to be bounded.  Rows that are due are not told apart by    *)
(* how long they have been due, so SelectDue takes any of them first.      *)
(***************************************************************************)
EXTENDS Integers, Sequences, FiniteSets

CONSTANTS
    Email,          \* address keys
    Job,            \* bulk jobs, each verifying one chunk of addresses
    Poller,         \* processes running start_reprobe_runner
    MaxAttempts,    \* EVE_REPROBE_MAX_ATTEMPTS
    Delays,         \* EVE_REPROBE_DELAYS, a sequence
    Lease,          \* lease_seconds of claim_due
    Batch,          \* EVE_REPROBE_BATCH
    Deletable,      \* jobs the user may delete with keep_addresses=false
    Conclusive,     \* the definite verdicts a receiver may give
    MaxFaults,      \* bound: crashes and raised exceptions in a behaviour
    NoEmail, NoJob, NoRow, NoClaim, NoAddress

ASSUME PolicyAssumption ==
    /\ MaxAttempts \in Nat
    /\ Delays \in Seq(Nat) /\ Delays # << >>
    /\ Lease \in Nat /\ Batch \in Nat \ {0} /\ MaxFaults \in Nat
    /\ Deletable \subseteq Job
    /\ Conclusive \subseteq {"valid", "invalid"}

VARIABLES
    reprobes,   \* the reprobes table: the pending retry of each address
    addresses,  \* the addresses table, reduced to attribution and verdict
    pc,         \* where each poller is in its sweep
    claimed,    \* each poller's copies of the rows it selected
    leaseLeft,  \* time left of the lease a poller is about to write, or wrote
    cur,        \* the address a poller is working on
    answer,     \* the verdict its re-probe produced
    known,      \* the job _update_address read from the address row
    jobState,   \* each job: ready, scheduling its retries, done
    pending,    \* addresses a job still has to queue a retry for
    deleted,    \* how far the deletion of each job got
    contested,  \* history: rows a poller holds a copy of, that another poller
                \* selected before it was leased or that was rewritten since
    faults      \* crashes and exceptions so far

pollerVars == <<pc, claimed, leaseLeft, cur, answer, known>>
jobVars    == <<jobState, pending, deleted>>
vars == <<reprobes, addresses, pollerVars, jobVars, contested, faults>>

\* What _verify_email concludes, as far as a retry tells it apart: a definite
\* verdict, a deferral (is_greylisted), or an answer that decides nothing.
Verdict == Conclusive \cup {"greylisted", "unknown"}

Claim   == [job : Job, attempt : Nat]
Row     == [job : Job, attempt : Nat, due : Nat]
\* "by" is history: whether a job or a retry wrote the row last.
Address == [job : Job, verdict : Verdict, by : {"job", "retry"}]

ASSUME DistinctAssumption ==
    /\ NoEmail \notin Email
    /\ NoJob \notin Job
    /\ NoRow \notin Row
    /\ NoClaim \notin Claim
    /\ NoAddress \notin Address
----------------------------------------------------------------------------
\* RetryPolicy.next_delay: -1 once the attempts are used up; the last delay
\* repeats when the list is shorter than the attempts.
NextDelay(attempt) ==
    IF attempt >= MaxAttempts THEN -1
    ELSE Delays[IF attempt < Len(Delays) THEN attempt + 1 ELSE Len(Delays)]

\* ReprobeStore.schedule: replace the row, or write nothing when exhausted.
Scheduled(e, j, attempt) ==
    IF NextDelay(attempt) < 0 THEN reprobes
    ELSE [reprobes EXCEPT ![e] =
             [job |-> j, attempt |-> attempt, due |-> NextDelay(attempt)]]

Due == {e \in Email : reprobes[e] # NoRow /\ reprobes[e].due = 0}

NoClaims == [e \in Email |-> NoClaim]

\* The rows of es were written: those still held by a poller are contested.
Rewritten(es) ==
    contested' = {e \in contested \cup es : \E q \in Poller : claimed'[q][e] # NoClaim}

\* Nothing is queued yet; the jobs of gone are over and were deleted long ago.
Began(gone) ==
    /\ reprobes = [e \in Email |-> NoRow]
    /\ addresses = [e \in Email |-> NoAddress]
    /\ pc = [p \in Poller |-> "idle"]
    /\ claimed = [p \in Poller |-> NoClaims]
    /\ leaseLeft = [p \in Poller |-> 0]
    /\ cur = [p \in Poller |-> NoEmail]
    /\ answer = [p \in Poller |-> "unknown"]
    /\ known = [p \in Poller |-> NoJob]
    /\ jobState = [j \in Job |-> IF j \in gone THEN "done" ELSE "ready"]
    /\ pending = [j \in Job |-> {}]
    /\ deleted = [j \in Job |-> IF j \in gone THEN "yes" ELSE "no"]
    /\ contested = {} /\ faults = 0

Init == Began({})
----------------------------------------------------------------------------
(* Jobs.  run_job verifies a chunk, writes its address rows in one         *)
(* transaction, then queues the deferred ones one transaction each.        *)

Recorded(j, verdict) ==
    [e \in Email |-> IF e \in DOMAIN verdict
                     THEN [job |-> j, verdict |-> verdict[e], by |-> "job"]
                     ELSE addresses[e]]

\* A failure of that transaction is only logged: the retries are queued all
\* the same.
RecordChunk(j, chunk) ==
    /\ jobState[j] = "ready"
    /\ \E verdict \in [chunk -> Verdict] :
         /\ \/ addresses' = Recorded(j, verdict) /\ UNCHANGED faults
            \/ faults < MaxFaults /\ faults' = faults + 1 /\ UNCHANGED addresses
         /\ pending' = [pending EXCEPT ![j] =
                {e \in chunk : verdict[e] = "greylisted"}]
    /\ jobState' = [jobState EXCEPT ![j] = "scheduling"]
    /\ UNCHANGED <<reprobes, pollerVars, deleted, contested>>

ScheduleOne(j, e) ==
    /\ jobState[j] = "scheduling"
    /\ e \in pending[j]
    /\ reprobes' = Scheduled(e, j, 0)
    /\ pending' = [pending EXCEPT ![j] = @ \ {e}]
    /\ UNCHANGED <<addresses, pollerVars, jobState, deleted, faults>>
    /\ Rewritten({e})

\* Mutant: schedule_many returns after its first row.
FinishJobEarly(j) ==
    /\ jobState[j] = "scheduling"
    /\ jobState' = [jobState EXCEPT ![j] = "done"]
    /\ UNCHANGED <<reprobes, addresses, pollerVars, pending, deleted, contested, faults>>

FinishJob(j) ==
    /\ jobState[j] = "scheduling"
    /\ pending[j] = {}
    /\ jobState' = [jobState EXCEPT ![j] = "done"]
    /\ UNCHANGED <<reprobes, addresses, pollerVars, pending, deleted, contested, faults>>

\* An insert raises, or the process running the job dies: schedule_many stops
\* and the rest of the batch is never queued (the error is only logged).
ScheduleFails(j) ==
    /\ faults < MaxFaults
    /\ jobState[j] = "scheduling"
    /\ pending[j] # {}
    /\ pending' = [pending EXCEPT ![j] = {}]
    /\ faults' = faults + 1
    /\ UNCHANGED <<reprobes, addresses, pollerVars, jobState, deleted, contested>>

\* DELETE /jobs/{id}?keep_addresses=false: the address rows of the job, then,
\* in a second transaction, its pending retries.
DeleteAddresses(j) ==
    /\ j \in Deletable
    /\ deleted[j] = "no"
    /\ addresses' = [e \in Email |->
           IF addresses[e] # NoAddress /\ addresses[e].job = j
           THEN NoAddress ELSE addresses[e]]
    /\ deleted' = [deleted EXCEPT ![j] = "addresses"]
    /\ UNCHANGED <<reprobes, pollerVars, jobState, pending, contested, faults>>

DeleteRetries(j) ==
    /\ deleted[j] = "addresses"
    /\ reprobes' = [e \in Email |->
           IF reprobes[e] # NoRow /\ reprobes[e].job = j
           THEN NoRow ELSE reprobes[e]]
    /\ deleted' = [deleted EXCEPT ![j] = "yes"]
    /\ UNCHANGED <<addresses, pollerVars, jobState, pending, contested, faults>>
----------------------------------------------------------------------------
(* Pollers.                                                                *)

\* claim_due, the SELECT: up to Batch due rows.
SelectDue(p, batch) ==
    /\ pc[p] = "idle"
    /\ batch # {} /\ batch \subseteq Due
    /\ \/ Cardinality(batch) = Batch
       \/ Cardinality(batch) < Batch /\ batch = Due
    /\ claimed' = [claimed EXCEPT ![p] = [e \in Email |->
           IF e \in batch
           THEN [job |-> reprobes[e].job, attempt |-> reprobes[e].attempt]
           ELSE NoClaim]]
    /\ leaseLeft' = [leaseLeft EXCEPT ![p] = Lease]
    /\ contested' = contested \cup {e \in batch :
           \E q \in Poller \ {p} : pc[q] = "leasing" /\ claimed[q][e] # NoClaim}
    /\ pc' = [pc EXCEPT ![p] = "leasing"]
    /\ UNCHANGED <<reprobes, addresses, cur, answer, known, jobVars, faults>>

\* Mutant: claim_due takes the rows out of the table instead of leasing them.
ClaimByDelete(p) ==
    /\ pc[p] = "leasing"
    /\ reprobes' = [e \in Email |->
           IF claimed[p][e] # NoClaim THEN NoRow ELSE reprobes[e]]
    /\ pc' = [pc EXCEPT ![p] = "sweeping"]
    /\ UNCHANGED <<addresses, claimed, leaseLeft, cur, answer, known, jobVars,
                   contested, faults>>

\* Mutant: claim_due does not push next_attempt_at.
LeaseNothing(p) ==
    /\ pc[p] = "leasing"
    /\ pc' = [pc EXCEPT ![p] = "sweeping"]
    /\ UNCHANGED <<reprobes, addresses, claimed, leaseLeft, cur, answer, known,
                   jobVars, contested, faults>>

\* claim_due, the UPDATEs: whatever row now has the key gets the lease.
LeaseRows(p) ==
    /\ pc[p] = "leasing"
    /\ reprobes' = [e \in Email |->
           IF claimed[p][e] # NoClaim /\ reprobes[e] # NoRow
           THEN [reprobes[e] EXCEPT !.due = leaseLeft[p]]
           ELSE reprobes[e]]
    /\ pc' = [pc EXCEPT ![p] = "sweeping"]
    /\ UNCHANGED <<addresses, claimed, leaseLeft, cur, answer, known, jobVars,
                   contested, faults>>

\* _reprobe_one up to the end of _verify_email.
Probe(p, e, v) ==
    /\ pc[p] = "sweeping"
    /\ claimed[p][e] # NoClaim
    /\ cur' = [cur EXCEPT ![p] = e]
    /\ answer' = [answer EXCEPT ![p] = v]
    /\ pc' = [pc EXCEPT ![p] = "answered"]
    /\ UNCHANGED <<reprobes, addresses, claimed, leaseLeft, known, jobVars,
                   contested, faults>>

\* Mutant: the retry just made is not counted.
AttemptUncounted(p) == claimed[p][cur[p]].attempt

\* The retry this probe was, counted on the copy the poller claimed.
Attempt(p) == claimed[p][cur[p]].attempt + 1

StillDeferred(p) ==
    answer[p] = "greylisted" /\ NextDelay(Attempt(p)) >= 0

\* The loop in run_due_reprobes moves on to its next row.
NextRow(p) ==
    /\ claimed' = [claimed EXCEPT ![p][cur[p]] = NoClaim]
    /\ pc' = [pc EXCEPT ![p] = "sweeping"]
    /\ cur' = [cur EXCEPT ![p] = NoEmail]
    /\ answer' = [answer EXCEPT ![p] = "unknown"]
    /\ known' = [known EXCEPT ![p] = NoJob]

Reschedule(p) ==
    /\ pc[p] = "answered"
    /\ StillDeferred(p)
    /\ reprobes' = Scheduled(cur[p], claimed[p][cur[p]].job, Attempt(p))
    /\ NextRow(p)
    /\ UNCHANGED <<addresses, leaseLeft, jobVars, faults>>
    /\ Rewritten({cur[p]})

\* Mutant: an exhausted retry is settled without leaving the table.
DropAnswered(p) ==
    /\ pc[p] = "answered"
    /\ ~StillDeferred(p)
    /\ reprobes' = IF answer[p] = "greylisted" THEN reprobes
                   ELSE [reprobes EXCEPT ![cur[p]] = NoRow]
    /\ pc' = [pc EXCEPT ![p] = "dropped"]
    /\ UNCHANGED <<addresses, claimed, leaseLeft, cur, answer, known, jobVars,
                   contested, faults>>

\* The receiver answered, or the attempts ran out: drop the row ...
Drop(p) ==
    /\ pc[p] = "answered"
    /\ ~StillDeferred(p)
    /\ reprobes' = [reprobes EXCEPT ![cur[p]] = NoRow]
    /\ pc' = [pc EXCEPT ![p] = "dropped"]
    /\ UNCHANGED <<addresses, claimed, leaseLeft, cur, answer, known, jobVars,
                   contested, faults>>

\* ... then read the address row ...
ReadAddress(p) ==
    /\ pc[p] = "dropped"
    /\ known' = [known EXCEPT ![p] =
           IF addresses[cur[p]] = NoAddress THEN NoJob
           ELSE addresses[cur[p]].job]
    /\ pc' = [pc EXCEPT ![p] = "read"]
    /\ UNCHANGED <<reprobes, addresses, claimed, leaseLeft, cur, answer, jobVars,
                   contested, faults>>

\* Mutant: a retry whose address row is gone is written back without its job.
UpdateAddressUnattributed(p) ==
    /\ pc[p] = "read"
    /\ addresses' = [addresses EXCEPT ![cur[p]] =
           [job |-> known[p], verdict |-> answer[p], by |-> "retry"]]
    /\ NextRow(p)
    /\ UNCHANGED <<reprobes, leaseLeft, jobVars, faults>>
    /\ Rewritten({})

\* ... and write it back with the new verdict and the job just read.
UpdateAddress(p) ==
    /\ pc[p] = "read"
    /\ addresses' = [addresses EXCEPT ![cur[p]] =
           [job |-> IF known[p] # NoJob THEN known[p]
                    ELSE claimed[p][cur[p]].job,
            verdict |-> answer[p],
            by |-> "retry"]]
    /\ NextRow(p)
    /\ UNCHANGED <<reprobes, leaseLeft, jobVars, faults>>
    /\ Rewritten({})

EndSweep(p) ==
    /\ pc[p] = "sweeping"
    /\ claimed[p] = NoClaims
    /\ pc' = [pc EXCEPT ![p] = "idle"]
    /\ leaseLeft' = [leaseLeft EXCEPT ![p] = 0]
    /\ UNCHANGED <<reprobes, addresses, claimed, cur, answer, known, jobVars,
                   contested, faults>>

\* The probe or a write raises: the row counts as failed, the loop goes on.
ProbeRaises(p, e) ==
    /\ faults < MaxFaults
    /\ pc[p] = "sweeping"
    /\ claimed[p][e] # NoClaim
    /\ claimed' = [claimed EXCEPT ![p][e] = NoClaim]
    /\ faults' = faults + 1
    /\ UNCHANGED <<reprobes, addresses, pc, leaseLeft, cur, answer, known, jobVars>>
    /\ Rewritten({})

WriteRaises(p) ==
    /\ faults < MaxFaults
    /\ pc[p] \in {"answered", "dropped", "read"}
    /\ NextRow(p)
    /\ faults' = faults + 1
    /\ UNCHANGED <<reprobes, addresses, leaseLeft, jobVars>>
    /\ Rewritten({})

\* The poller's process dies; the process that replaces it starts idle.  (A
\* claim_due that raises rolls back and is the same step from "leasing".)
Crash(p) ==
    /\ faults < MaxFaults
    /\ pc[p] # "idle"
    /\ pc' = [pc EXCEPT ![p] = "idle"]
    /\ claimed' = [claimed EXCEPT ![p] = NoClaims]
    /\ leaseLeft' = [leaseLeft EXCEPT ![p] = 0]
    /\ cur' = [cur EXCEPT ![p] = NoEmail]
    /\ answer' = [answer EXCEPT ![p] = "unknown"]
    /\ known' = [known EXCEPT ![p] = NoJob]
    /\ faults' = faults + 1
    /\ UNCHANGED <<reprobes, addresses, jobVars>>
    /\ Rewritten({})
----------------------------------------------------------------------------
Less(n) == IF n = 0 THEN 0 ELSE n - 1

\* One unit of time passes, while some row or lease is waiting for it.
Tick ==
    /\ \/ \E e \in Email : reprobes[e] # NoRow /\ reprobes[e].due > 0
       \/ \E p \in Poller : leaseLeft[p] > 0
    /\ reprobes' = [e \in Email |->
           IF reprobes[e] = NoRow THEN NoRow
           ELSE [reprobes[e] EXCEPT !.due = Less(@)]]
    /\ leaseLeft' = [p \in Poller |-> Less(leaseLeft[p])]
    /\ UNCHANGED <<addresses, pc, claimed, cur, answer, known, jobVars, contested, faults>>

JobStep(j) ==
    \/ \E chunk \in (SUBSET Email) \ {{}} : RecordChunk(j, chunk)
    \/ \E e \in Email : ScheduleOne(j, e)
    \/ FinishJob(j)

DeleteStep(j) == DeleteAddresses(j) \/ DeleteRetries(j)

PollerStep(p) ==
    \/ \E batch \in SUBSET Email : SelectDue(p, batch)
    \/ LeaseRows(p)
    \/ \E e \in Email, v \in Verdict : Probe(p, e, v)
    \/ Reschedule(p)
    \/ Drop(p)
    \/ ReadAddress(p)
    \/ UpdateAddress(p)
    \/ EndSweep(p)

Fault ==
    \/ \E j \in Job : ScheduleFails(j)
    \/ \E p \in Poller : WriteRaises(p) \/ Crash(p)
    \/ \E p \in Poller, e \in Email : ProbeRaises(p, e)

Next ==
    \/ \E j \in Job : JobStep(j) \/ DeleteStep(j)
    \/ \E p \in Poller : PollerStep(p)
    \/ Fault
    \/ Tick

Spec == Init /\ [][Next]_vars

\* _run_forever sweeps for the life of its process and time passes.  Jobs run
\* and finish; nothing forces a fault or a deletion.
Fairness ==
    /\ \A p \in Poller : WF_vars(PollerStep(p))
    /\ \A j \in Job : WF_vars(JobStep(j))
    /\ WF_vars(Tick)

FairSpec == Spec /\ Fairness
----------------------------------------------------------------------------
TypeOK ==
    /\ reprobes \in [Email -> Row \cup {NoRow}]
    /\ addresses \in [Email -> Address \cup {NoAddress}]
    /\ pc \in [Poller -> {"idle", "leasing", "sweeping", "answered", "dropped", "read"}]
    /\ claimed \in [Poller -> [Email -> Claim \cup {NoClaim}]]
    /\ leaseLeft \in [Poller -> Nat]
    /\ cur \in [Poller -> Email \cup {NoEmail}]
    /\ answer \in [Poller -> Verdict]
    /\ known \in [Poller -> Job \cup {NoJob}]
    /\ jobState \in [Job -> {"ready", "scheduling", "done"}]
    /\ pending \in [Job -> SUBSET Email]
    /\ deleted \in [Job -> {"no", "addresses", "yes"}]
    /\ contested \subseteq Email /\ faults \in 0..MaxFaults

Holds(p, e) == claimed[p][e] # NoClaim /\ pc[p] \notin {"idle", "leasing"}

\* "A poller that dies holding rows releases them when the lease expires", and
\* no sooner: two pollers work on one address only if the lease of one has run
\* out, or the row was contested: selected by both before either leased it, or
\* written by somebody else since it was.
LeaseExcludes ==
    \A p, q \in Poller : p # q =>
        \A e \in Email :
            Holds(p, e) /\ Holds(q, e) /\ e \notin contested =>
                leaseLeft[p] = 0 \/ leaseLeft[q] = 0

Retrying(e) == \E p \in Poller : cur[p] = e /\ pc[p] \in {"dropped", "read"}

Awaited(e) ==
    \/ reprobes[e] # NoRow
    \/ \E j \in Job : e \in pending[j]
    \/ Retrying(e)

Deferred(e) ==
    /\ addresses[e] # NoAddress
    /\ addresses[e].verdict = "greylisted"
    /\ addresses[e].by = "job"

Undisturbed == faults = 0 /\ \A j \in Job : deleted[j] = "no"

\* "The address keeps the honest unknown it has now, and the retry updates it
\* later": whatever the pollers and the jobs interleave, an address a job left
\* greylisted has a retry in the table, about to be queued, or about to write
\* its verdict.  (As long as nothing died, raised or was deleted.)
NoOrphanedDeferral ==
    Undisturbed => \A e \in Email : Deferred(e) => Awaited(e)

\* "A process that dies mid-wait loses nothing, because the next process to
\* poll finds the row still due": every pending retry leaves the table, by an
\* answer or by exhaustion, across crashes, raising probes and pollers that
\* overlap, one of which may write an older retry count back.
EveryRetrySettles == \A e \in Email : reprobes[e] # NoRow ~> reprobes[e] = NoRow

\* An address a job left greylisted gets another verdict, from a retry or from
\* another job.  (As long as nothing died, raised or was deleted.)
EveryDeferralSettles ==
    \A e \in Email : Deferred(e) ~> ~Deferred(e) \/ ~Undisturbed

\* With one process sweeping, the table implements the abstract schedule.
Schedule == INSTANCE RetrySchedule WITH
    attempt <- [e \in Email |-> IF reprobes[e] = NoRow THEN -1
                                ELSE reprobes[e].attempt]

ImplementsSchedule == Schedule!FairSpec

\* "Two processes sweeping at once must not re-probe the same address twice."
NoDoubleProbe ==
    \A p, q \in Poller : p # q =>
        \A e \in Email : ~(Holds(p, e) /\ Holds(q, e))

\* "The retries can only improve on that, never worsen it": a retry does not
\* replace a definite verdict by one that decides nothing.
NeverWorsen ==
    [][\A e \in Email :
         /\ addresses[e] # NoAddress /\ addresses[e].verdict \in Conclusive
         /\ addresses'[e] # NoAddress /\ addresses'[e].by = "retry"
         => addresses'[e].verdict \in Conclusive]_vars
============================================================================
