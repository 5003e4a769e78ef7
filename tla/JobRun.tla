------------------------------- MODULE JobRun -------------------------------
(***************************************************************************)
(* One bulk job from the request that creates it to the callback that says *)
(* how it ended: create_job and delete_job (api/jobs.py), the queue        *)
(* (jobs/queue.py, jobs/worker.py and, external, arq's redelivery of a     *)
(* task whose worker died), run_job (jobs/pipeline.py) and the row, the    *)
(* SQL store's, which a save of a deleted job does not bring back.         *)
(*                                                                         *)
(* The file holds the unique addresses 1..Total, the blank cell among them *)
(* if it has one, verified in chunks of Batch.  The tally of verdicts      *)
(* moves with `processed' and is not kept apart from it.  Each run of the  *)
(* task is one try; its output objects have fresh keys, so they are named  *)
(* by the try that wrote them.                                             *)
(***************************************************************************)
EXTENDS Integers, Sequences

CONSTANTS
    Total,      \* unique addresses in the file
    Blank,      \* the one that is a blank cell, if any
    Batch,      \* chunk_size
    Durable,    \* TRUE: arq, which redelivers; FALSE: a task of the API process
    MaxTries,   \* arq's max_tries
    Faults      \* the faults that may happen: see Fault

ASSUME JobAssumption ==
    /\ Total \in Nat /\ Batch \in Nat \ {0}
    /\ Durable \in BOOLEAN
    /\ Blank \subseteq 1..Total
    /\ MaxTries \in Nat \ {0}
    /\ Faults \subseteq {"api", "crash", "timeout", "file", "verify", "save", "endsave",
                      "record", "dispatch", "delete"}

VARIABLES
    row,        \* the job's row
    api,        \* create_job: where the request is
    deletion,   \* delete_job: where the request is
    doomed,     \* the output keys delete_job read: the try that wrote them
    task,       \* the queued task
    tries,      \* times the task was taken up
    pc,         \* where run_job is
    job,        \* the Job object of the run
    at,         \* addresses in the chunks already gathered
    flying,     \* addresses of the chunk whose probe has not returned
    verdicts,   \* addresses the run has a verdict for
    recorded,   \* addresses the job has in the workspace read-model
    objects,    \* output objects in the store: <<try, segment>>
    told,       \* callbacks scheduled: "completed", "failed"
    proved,     \* history: addresses a run had a verdict for before it failed, if it did
    taken,      \* history: objects and addresses delete_job deleted
    happened    \* history: the faults that happened

vars == <<row, api, deletion, doomed, task, tries, pc, job, at, flying,
          verdicts, recorded, objects, told, proved, taken, happened>>

runVars == <<pc, job, at, flying, verdicts>>
requestVars == <<api, deletion, doomed, taken>>
storeVars == <<recorded, objects, told, proved>>

Key == 1..Total
Segments == <<"cleaned", "valid", "removed">>
Terminal == {"completed", "failed"}

\* outputs is the try whose objects the job names, 0 when it names none.
NoJob == [status |-> "absent", processed |-> 0, total |-> 0, outputs |-> 0]

Init ==
    /\ row = NoJob
    /\ api = "new" /\ deletion = "none" /\ doomed = 0
    /\ task = "none" /\ tries = 0
    /\ pc = "idle" /\ job = NoJob
    /\ at = 0 /\ flying = {} /\ verdicts = {}
    /\ recorded = {} /\ objects = {} /\ told = {} /\ proved = {}
    /\ taken = [objects |-> {}, addresses |-> {}]
    /\ happened = {}

\* A fault of this kind may happen, and happens: the API process or the worker
\* dies, arq's time is up, the object store raises, a probe raises, a save of the
\* job raises (endsave: one whose failure nothing records), a write of the
\* read-model raises, the queue raises, a deletion raises.
Fault(kind) == kind \in Faults /\ happened' = happened \cup {kind}
----------------------------------------------------------------------------
\* Where delete_job goes from the objects: keep_addresses is first looked at there.
AfterObjects == {"addresses", "row"}

\* create_job stores the row, then queues the task.
CreateJob ==
    /\ api = "new"
    /\ api' = "created"
    /\ row' = [NoJob EXCEPT !.status = "pending"]
    /\ UNCHANGED <<deletion, doomed, taken, task, tries, runVars, storeVars, happened>>

EnqueueJob ==
    /\ api = "created"
    /\ api' = "enqueued"
    /\ task' = "queued"
    /\ UNCHANGED <<row, deletion, doomed, taken, tries, runVars, storeVars, happened>>

\* The API process dies between the two.
ApiDies ==
    /\ api = "created"
    /\ Fault("api")
    /\ api' = "lost"
    /\ UNCHANGED <<row, deletion, doomed, taken, task, tries, runVars, storeVars>>

\* delete_job reads the job and goes through the objects it names.  A request that
\* raised may be sent again.
DeleteReads ==
    /\ deletion \in {"none", "raised"}
    /\ row.status # "absent"
    /\ doomed' = row.outputs
    /\ deletion' \in IF row.outputs = 0 THEN AfterObjects ELSE {Segments[1]}
    /\ UNCHANGED <<row, api, taken, task, tries, runVars, storeVars, happened>>

\* An object that is not there any more is passed over.
DeleteObject(i) ==
    /\ deletion = Segments[i]
    /\ objects' = objects \ {<<doomed, Segments[i]>>}
    /\ taken' = [taken EXCEPT !.objects = @ \cup {<<doomed, Segments[i]>>}]
    /\ deletion' \in IF i < Len(Segments) THEN {Segments[i + 1]} ELSE AfterObjects
    /\ UNCHANGED <<row, api, doomed, task, tries, runVars, recorded, told, proved, happened>>

\* keep_addresses=false: the addresses the job has in the read-model go too.
DeleteAddresses ==
    /\ deletion = "addresses"
    /\ deletion' = "retries"
    /\ recorded' = {}
    /\ taken' = [taken EXCEPT !.addresses = @ \cup recorded]
    /\ UNCHANGED <<row, api, doomed, task, tries, runVars, objects, told, proved, happened>>

\* And in a transaction of their own its retries, which are in Workspaces.
DeleteRetries ==
    /\ deletion = "retries"
    /\ deletion' = "row"
    /\ UNCHANGED <<row, api, doomed, taken, task, tries, runVars, storeVars, happened>>

DeleteRow ==
    /\ deletion = "row"
    /\ deletion' = "deleted"
    /\ row' = NoJob
    /\ UNCHANGED <<api, doomed, taken, task, tries, runVars, storeVars, happened>>

\* Whichever store raises ends the request; what it deleted stays deleted.
DeleteRaises ==
    /\ deletion \notin {"none", "raised", "deleted"}
    /\ Fault("delete")
    /\ deletion' = "raised"
    /\ UNCHANGED <<row, api, doomed, taken, task, tries, runVars, storeVars>>

Request ==
    \/ CreateJob \/ EnqueueJob
    \/ DeleteReads \/ \E i \in DOMAIN Segments : DeleteObject(i)
    \/ DeleteAddresses \/ DeleteRetries \/ DeleteRow \/ DeleteRaises
----------------------------------------------------------------------------
\* run_job_now: a job deleted before it could run ends the task.
TakeJob ==
    /\ task = "queued"
    /\ tries' = tries + 1
    /\ IF row.status = "absent"
       THEN /\ task' = "done"
            /\ UNCHANGED <<pc, job>>
       ELSE /\ task' = "running"
            /\ pc' = "starting"
            /\ job' = row
    /\ at' = 0 /\ flying' = {} /\ verdicts' = {}
    /\ UNCHANGED <<row, requestVars, storeVars, happened>>

\* Mutant: save writes the row whether or not it is there, as the memory store's does.
SavedBack(j) == row' = j

\* save: an UPDATE, which finds no row of a deleted job to change.
Saved(j) == row' = IF row.status = "absent" THEN row ELSE j

\* The run reaches a save of j: the row takes it and the run goes on, or the
\* database raises and the run ends up where its exception is caught.
SaveStep(from, j, next, caught) ==
    /\ pc = from
    /\ job' = j
    /\ \/ Saved(j) /\ pc' = next /\ UNCHANGED happened
       \/ Fault(IF caught = "failing" THEN "save" ELSE "endsave") /\ pc' = caught /\ UNCHANGED row

\* The first save stands before the try: its failure reaches run_job_now.
StartRun ==
    /\ SaveStep("starting", [job EXCEPT !.status = "processing"], "splitting", "notifying")
    /\ UNCHANGED <<requestVars, task, tries, at, flying, verdicts, storeVars>>

\* The first pass over the file, and the save that opens the resolve phase.
Split ==
    /\ SaveStep("splitting", [job EXCEPT !.total = Total], "verifying", "failing")
    /\ UNCHANGED <<requestVars, task, tries, at, flying, verdicts, storeVars>>

\* A pass over the file, or the object a writer puts, raises.
FileRaises ==
    /\ pc = "splitting" \/ \E i \in DOMAIN Segments : pc = Segments[i]
    /\ Fault("file")
    /\ pc' = "failing"
    /\ UNCHANGED <<row, requestVars, task, tries, job, at, flying, verdicts, storeVars>>

\* Mutant: the last, shorter chunk is dropped.
ChunkWhole == {k \in Key : at < k /\ k <= at + Batch /\ at + Batch <= Total}

\* The addresses of the chunk that starts after the first `at'.
Chunk == {k \in Key : at < k /\ k <= at + Batch}

\* The next chunk's probes start together; after the last, the second pass.
NextChunk ==
    /\ pc = "verifying"
    /\ IF at < Total
       THEN pc' = "gathering" /\ flying' = Chunk
       ELSE pc' = "assembling" /\ UNCHANGED flying
    /\ UNCHANGED <<row, requestVars, task, tries, job, at, verdicts, storeVars, happened>>

\* A probe of the chunk returns.  Once another of its chunk has raised the run
\* no longer waits for it, but it still updates the job object.
VerifyOne(k) ==
    /\ k \in flying
    /\ flying' = flying \ {k}
    /\ verdicts' = verdicts \cup {k}
    /\ proved' = IF pc = "gathering" THEN proved \cup {k} ELSE proved
    /\ job' = [job EXCEPT !.processed = @ + 1]
    /\ UNCHANGED <<row, requestVars, task, tries, pc, at, recorded, objects, told, happened>>

\* A probe raises: gather raises at once.
VerifyRaises(k) ==
    /\ pc = "gathering" /\ k \in flying
    /\ Fault("verify")
    /\ flying' = flying \ {k}
    /\ pc' = "failing"
    /\ UNCHANGED <<row, requestVars, task, tries, job, at, verdicts, storeVars>>

\* The chunk is gathered: stream the progress, then land its verdicts.
SaveChunk ==
    /\ flying = {}
    /\ SaveStep("gathering", job, "recording", "failing")
    /\ UNCHANGED <<requestVars, task, tries, at, flying, verdicts, storeVars>>

\* _record_addresses: best effort, and a blank cell has no address to record.
\* (_schedule_reprobes is in Reprobe.)
RecordChunk ==
    /\ pc = "recording"
    /\ pc' = "verifying"
    /\ at' = at + Batch
    /\ \/ recorded' = recorded \cup ((Chunk \cap verdicts) \ Blank) /\ UNCHANGED happened
       \/ Fault("record") /\ UNCHANGED recorded
    /\ UNCHANGED <<row, requestVars, task, tries, job, flying, verdicts, objects, told, proved>>

BeginAssemble ==
    /\ SaveStep("assembling", job, "cleaned", "failing")
    /\ UNCHANGED <<requestVars, task, tries, at, flying, verdicts, storeVars>>

\* Mutant: the job names its outputs when the first of them is written.
CloseSegmentEarly(i) ==
    /\ pc = Segments[i]
    /\ objects' = objects \cup {<<tries, Segments[i]>>}
    /\ job' = [job EXCEPT !.outputs = tries]
    /\ pc' = "completing"
    /\ UNCHANGED <<row, requestVars, task, tries, at, flying, verdicts, recorded, told, proved, happened>>

\* _assemble closes its three writers in turn, then names the objects.
CloseSegment(i) ==
    /\ pc = Segments[i]
    /\ objects' = objects \cup {<<tries, Segments[i]>>}
    /\ IF i < Len(Segments)
       THEN pc' = Segments[i + 1] /\ UNCHANGED job
       ELSE pc' = "completing" /\ job' = [job EXCEPT !.outputs = tries]
    /\ UNCHANGED <<row, requestVars, task, tries, at, flying, verdicts, recorded, told, proved, happened>>

\* Mutant: the phase's value is put in the status.
CompleteRunAsPhase ==
    /\ SaveStep("completing", [job EXCEPT !.status = "done"], "notifying", "failing")
    /\ UNCHANGED <<requestVars, task, tries, at, flying, verdicts, storeVars>>

\* Mutant: the completed job is not saved before the caller is told.
CompleteRunUnsaved ==
    /\ pc = "completing"
    /\ pc' = "notifying"
    /\ job' = [job EXCEPT !.status = "completed"]
    /\ UNCHANGED <<row, requestVars, task, tries, at, flying, verdicts, storeVars, happened>>

CompleteRun ==
    /\ SaveStep("completing", [job EXCEPT !.status = "completed"], "notifying", "failing")
    /\ UNCHANGED <<requestVars, task, tries, at, flying, verdicts, storeVars>>

\* The handler: whatever was raised, the job is saved as failed.
FailRun ==
    /\ SaveStep("failing", [job EXCEPT !.status = "failed"], "notifying", "notifying")
    /\ UNCHANGED <<requestVars, task, tries, at, flying, verdicts, storeVars>>

\* dispatch_job_webhook, with the outcome the job object shows.  An exception
\* of the queue there ends the task, which arq does not try again.
Notify ==
    /\ pc = "notifying"
    /\ pc' = "acking"
    /\ \/ /\ told' = told \cup {IF job.status = "completed" THEN "completed" ELSE "failed"}
          /\ UNCHANGED happened
       \/ Fault("dispatch") /\ UNCHANGED told
    /\ UNCHANGED <<row, requestVars, task, tries, job, at, flying, verdicts,
                   recorded, objects, proved>>

RunEnds(outcome) ==
    /\ task' = outcome
    /\ pc' = "idle"
    /\ flying' = {}
    /\ UNCHANGED <<row, requestVars, tries, job, at, verdicts, storeVars>>

\* arq marks the task done.
Acknowledge == pc = "acking" /\ RunEnds("done") /\ UNCHANGED happened

\* The process that has the task dies or is stopped: a durable task is queued
\* again until its tries are spent, any other is gone.
WorkerDies ==
    /\ task = "running" \/ (task = "queued" /\ ~Durable)
    /\ Fault("crash")
    /\ RunEnds(IF Durable /\ tries < MaxTries THEN "queued" ELSE "lost")

\* job_timeout: arq cancels the task, run_job catches no cancellation.
TimesOut ==
    /\ Durable /\ task = "running"
    /\ Fault("timeout")
    /\ RunEnds("lost")

RunStep ==
    \/ TakeJob \/ StartRun \/ Split \/ FileRaises \/ NextChunk
    \/ \E k \in Key : VerifyOne(k) \/ VerifyRaises(k)
    \/ SaveChunk \/ RecordChunk \/ BeginAssemble
    \/ \E i \in DOMAIN Segments : CloseSegment(i)
    \/ CompleteRun \/ FailRun \/ Notify \/ Acknowledge

Next == Request \/ RunStep \/ ApiDies \/ WorkerDies \/ TimesOut

Spec == Init /\ [][Next]_vars

\* The event loop runs every task, a probe is bounded by its timeout, a worker
\* is there to take a queued task, and a request goes on to queue it.
FairSpec == Spec /\ WF_vars(RunStep) /\ WF_vars(EnqueueJob)
----------------------------------------------------------------------------
JobRow == [status : {"absent", "pending", "processing", "completed", "failed"},
           processed : Nat, total : {0, Total}, outputs : 0..MaxTries]

TypeOK ==
    /\ row \in JobRow /\ job \in JobRow
    /\ api \in {"new", "created", "enqueued", "lost"}
    /\ deletion \in {"none", "cleaned", "valid", "removed", "addresses", "retries", "row",
                     "deleted", "raised"}
    /\ doomed \in 0..MaxTries
    /\ task \in {"none", "queued", "running", "done", "lost"}
    /\ tries \in 0..MaxTries
    /\ pc \in {"idle", "starting", "splitting", "verifying", "gathering", "recording",
               "assembling", "cleaned", "valid", "removed", "completing", "failing",
               "notifying", "acking"}
    /\ at \in Nat
    /\ flying \subseteq Key /\ verdicts \subseteq Key
    /\ recorded \subseteq Key /\ proved \subseteq Key
    /\ objects \subseteq (1..MaxTries) \X {"cleaned", "valid", "removed"}
    /\ told \subseteq Terminal
    /\ taken \in [objects : SUBSET ((0..MaxTries) \X {"cleaned", "valid", "removed"}),
                  addresses : SUBSET Key]
    /\ happened \subseteq Faults

\* A job that reads as completed is whole: in a first run its progress is the
\* number of addresses, and unless a write of the read-model failed each that is not
\* a blank cell is there, or was until delete_job took it out; a blank cell, which
\* counts as processed, never is.
CompletedIsWhole ==
    row.status = "completed" =>
        /\ tries = 1 => row.processed = Total
        /\ "record" \notin happened => recorded \cup taken.addresses = Key \ Blank

\* download_job never names an object that is not there but for a deletion of it:
\* whatever try wrote the outputs a job names, and whatever fault interrupted a later
\* one, all three segments exist, or a delete_job has deleted that very object and not
\* come to the row (its request goes on, or raised part-way).
OutputsAreThere ==
    row.outputs # 0 => \A i \in DOMAIN Segments :
        <<row.outputs, Segments[i]>> \in objects \cup taken.objects

\* The callback says what the job's row says, for a job that still has one.  (Unless
\* the save of a run's start or of its failure raises, after which the row says less.)
ToldWhatIsRecorded ==
    [][told' # told => \/ row.status = "absent" \/ row.status \in told'
                       \/ "endsave" \in happened]_vars

\* "processed and total count unique addresses, because that is what the user
\* is charged for."
ProcessedWithinTotal == row.processed <= row.total

\* "A job that fails part-way still leaves behind everything it did prove."
ProvedIsLeftBehind == row.status = "failed" => proved \subseteq recorded
----------------------------------------------------------------------------
\* Nothing will end the job or tell its caller as the row says it: the API process died
\* before it was queued, its time or its last try is up, or the database or the queue
\* failed at its end.
Abandoned ==
    api = "lost" \/ task = "lost" \/ happened \cap {"endsave", "dispatch"} # {}

\* What a job is to the caller.  A row that came back would be seen.
Status ==
    IF row.status = "absent" /\ api # "new" THEN "deleted"
    ELSE IF Abandoned THEN "abandoned" ELSE row.status

Lifecycle == INSTANCE JobLifecycle WITH status <- Status, told <- told

ImplementsLifecycle == Lifecycle!FairSpec
============================================================================
