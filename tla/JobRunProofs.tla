---------------------------- MODULE JobRunProofs ----------------------------
(***************************************************************************)
(* Proofs about JobRun for every file, chunk size, number of tries and     *)
(* choice of faults.                                                       *)
(***************************************************************************)
EXTENDS JobRun, FiniteSets, FiniteSetTheorems, TLAPS

LEMMA SegmentsAre ==
    /\ DOMAIN Segments = {1, 2, 3} /\ Len(Segments) = 3
    /\ Segments[1] = "cleaned" /\ Segments[2] = "valid" /\ Segments[3] = "removed"
  BY DEF Segments

\* A task that may still be taken up has a try left, one that runs is a try, and
\* none is there before it is queued.
TriesLeft ==
    /\ api # "enqueued" => task = "none"
    /\ task \in {"none", "queued"} => tries < MaxTries
    /\ task = "running" <=> pc # "idle"
    /\ task = "running" => tries > 0

TypeInv == TypeOK /\ TriesLeft

LEMMA TypeInit == Init => TypeInv
  BY JobAssumption DEF Init, TypeInv, TypeOK, TriesLeft, NoJob, JobRow

\* What every step that saves the job does to the types.
LEMMA SaveTypes ==
  ASSUME TypeInv, NEW from, NEW j \in JobRow, NEW next, NEW caught,
         SaveStep(from, j, next, caught)
  PROVE  /\ row' \in JobRow /\ job' \in JobRow
         /\ pc = from /\ pc' \in {next, caught}
         /\ happened' \subseteq Faults
  BY JobAssumption DEF TypeInv, TypeOK, SaveStep, Saved, Fault

LEMMA TypeNext == TypeInv /\ [Next]_vars => TypeInv'
<1> SUFFICES ASSUME TypeInv, [Next]_vars PROVE TypeInv'
  OBVIOUS
<1> USE JobAssumption DEF TypeInv, TypeOK, TriesLeft
<1>1. CASE Request
  <2> NoJob \in JobRow /\ [NoJob EXCEPT !.status = "pending"] \in JobRow
    BY DEF NoJob, JobRow
  <2>1. CASE CreateJob
    BY <2>1 DEF CreateJob, runVars, storeVars
  <2>2. CASE EnqueueJob
    BY <2>2 DEF EnqueueJob, runVars, storeVars
  <2>3. CASE DeleteReads
    <3>1. doomed' \in 0..MaxTries
      BY <2>3 DEF DeleteReads, JobRow
    <3>2. deletion' \in {"cleaned", "addresses", "row"}
      BY <2>3, SegmentsAre DEF DeleteReads, AfterObjects
    <3> QED  BY <2>3, <3>1, <3>2 DEF DeleteReads, runVars, storeVars
  <2>4. ASSUME NEW i \in DOMAIN Segments, DeleteObject(i) PROVE TypeInv'
    <3> DEFINE o == <<doomed, Segments[i]>>
    <3>1. o \in (0..MaxTries) \X {"cleaned", "valid", "removed"}
      BY SegmentsAre
    <3>2. deletion' \in {"valid", "removed", "addresses", "row"}
      BY <2>4, SegmentsAre DEF DeleteObject, AfterObjects
    <3> HIDE DEF o
    <3>3. objects' \subseteq objects
      BY <2>4 DEF DeleteObject, o
    <3>4. taken' = [taken EXCEPT !.objects = @ \cup {o}]
      BY <2>4 DEF DeleteObject, o
    <3>5. taken' \in [objects : SUBSET ((0..MaxTries) \X {"cleaned", "valid", "removed"}),
                     addresses : SUBSET Key]
      BY <3>1, <3>4
    <3> QED  BY <2>4, <3>2, <3>3, <3>5 DEF DeleteObject, runVars
  <2>5. CASE DeleteAddresses
    <3> taken' \in [objects : SUBSET ((0..MaxTries) \X {"cleaned", "valid", "removed"}),
                   addresses : SUBSET Key]
      BY <2>5 DEF DeleteAddresses
    <3> QED  BY <2>5 DEF DeleteAddresses, runVars
  <2>6. CASE DeleteRetries
    BY <2>6 DEF DeleteRetries, runVars, storeVars
  <2>7. CASE DeleteRow
    BY <2>7 DEF DeleteRow, runVars, storeVars
  <2>8. CASE DeleteRaises
    BY <2>8 DEF DeleteRaises, Fault, runVars, storeVars
  <2> QED  BY <1>1, <2>1, <2>2, <2>3, <2>4, <2>5, <2>6, <2>7, <2>8 DEF Request
<1>2. CASE TakeJob
  BY <1>2 DEF TakeJob, requestVars, storeVars
<1>3. CASE StartRun
  <2> [job EXCEPT !.status = "processing"] \in JobRow
    BY DEF JobRow
  <2> QED  BY <1>3, SaveTypes DEF StartRun, requestVars, storeVars
<1>4. CASE Split
  <2> [job EXCEPT !.total = Total] \in JobRow
    BY DEF JobRow
  <2> QED  BY <1>4, SaveTypes DEF Split, requestVars, storeVars
<1>5. CASE NextChunk
  BY <1>5 DEF NextChunk, Chunk, requestVars, storeVars
<1>6. ASSUME NEW k \in Key, VerifyOne(k) PROVE TypeInv'
  <2> job' \in JobRow
    BY <1>6 DEF VerifyOne, JobRow
  <2> QED  BY <1>6 DEF VerifyOne, requestVars
<1>7. ASSUME NEW k \in Key, VerifyRaises(k) PROVE TypeInv'
  BY <1>7 DEF VerifyRaises, Fault, requestVars, storeVars
<1>8. CASE SaveChunk
  BY <1>8, SaveTypes DEF SaveChunk, requestVars, storeVars
<1>9. CASE RecordChunk
  <2>1. recorded' \subseteq Key
    BY <1>9 DEF RecordChunk
  <2>2. pc' = "verifying" /\ pc = "recording" /\ at' \in Nat
    BY <1>9 DEF RecordChunk
  <2>3. happened' \subseteq Faults
    BY <1>9 DEF RecordChunk, Fault
  <2> QED  BY <1>9, <2>1, <2>2, <2>3 DEF RecordChunk, requestVars
<1>10. CASE BeginAssemble
  BY <1>10, SaveTypes DEF BeginAssemble, requestVars, storeVars
<1>11. ASSUME NEW i \in DOMAIN Segments, CloseSegment(i) PROVE TypeInv'
  <2>1. tries \in 1..MaxTries /\ pc # "idle"
    BY <1>11, SegmentsAre DEF CloseSegment
  <2>2. job' \in JobRow
    BY <1>11, <2>1 DEF CloseSegment, JobRow
  <2>3. /\ pc' \in {"valid", "removed", "completing"}
        /\ objects' \subseteq (1..MaxTries) \X {"cleaned", "valid", "removed"}
    BY <1>11, <2>1, SegmentsAre DEF CloseSegment
  <2> QED  BY <1>11, <2>1, <2>2, <2>3 DEF CloseSegment, requestVars
<1>12. CASE CompleteRun
  <2> [job EXCEPT !.status = "completed"] \in JobRow
    BY DEF JobRow
  <2> QED  BY <1>12, SaveTypes DEF CompleteRun, requestVars, storeVars
<1>13. CASE FailRun
  <2> [job EXCEPT !.status = "failed"] \in JobRow
    BY DEF JobRow
  <2> QED  BY <1>13, SaveTypes DEF FailRun, requestVars, storeVars
<1>14. CASE Notify
  <2> DEFINE e == IF job.status = "completed" THEN "completed" ELSE "failed"
  <2>0. e \in Terminal
    BY DEF Terminal
  <2> HIDE DEF e
  <2>1. told' = told \/ told' = told \cup {e}
    BY <1>14 DEF Notify, e
  <2>2. told' \subseteq Terminal
    BY <2>0, <2>1
  <2>3. happened' \subseteq Faults
    BY <1>14 DEF Notify, Fault
  <2>4. pc' = "acking" /\ task = "running"
    BY <1>14 DEF Notify
  <2> QED  BY <1>14, <2>2, <2>3, <2>4 DEF Notify, requestVars
<1>15. CASE Acknowledge
  BY <1>15 DEF Acknowledge, RunEnds, requestVars, storeVars
<1>16. CASE ApiDies
  BY <1>16 DEF ApiDies, Fault, runVars, storeVars
<1>17. CASE WorkerDies
  <2>1. task' \in {"queued", "lost"} /\ (task' = "queued" => tries < MaxTries)
    BY <1>17 DEF WorkerDies, RunEnds
  <2> QED  BY <1>17, <2>1 DEF WorkerDies, RunEnds, Fault, requestVars, storeVars
<1>18. CASE TimesOut
  BY <1>18 DEF TimesOut, RunEnds, Fault, requestVars, storeVars
<1>19. CASE FileRaises
  BY <1>19, SegmentsAre DEF FileRaises, Fault, requestVars, storeVars
<1>20. CASE UNCHANGED vars
  BY <1>20 DEF vars, runVars, requestVars, storeVars
<1> QED
  BY <1>1, <1>2, <1>3, <1>4, <1>5, <1>6, <1>7, <1>8, <1>9, <1>10, <1>11, <1>12, <1>13,
     <1>14, <1>15, <1>16, <1>17, <1>18, <1>19, <1>20 DEF Next, RunStep

LEMMA TypeInvariant == Spec => []TypeInv
  BY TypeInit, TypeNext, PTL DEF Spec

\* Every state of the specification is well typed: in particular no task is
\* taken up more often than arq allows, and output objects are of a real try.
THEOREM TypeCorrect == Spec => []TypeOK
<1>1. TypeInv => TypeOK
  BY DEF TypeInv
<1> QED  BY <1>1, TypeInvariant, PTL
----------------------------------------------------------------------------
(***************************************************************************)
(* Outputs.  Whatever the row or the job object names was written whole,   *)
(* and only delete_job takes of it.  The strengthening follows the three   *)
(* writers: at each, the segments before it were written.                  *)
(***************************************************************************)
Written == objects \cup taken.objects

Whole(t) == t = 0 \/ \A i \in DOMAIN Segments : <<t, Segments[i]>> \in Written

OutputsInv ==
    /\ Whole(row.outputs)
    /\ Whole(job.outputs)
    /\ pc = "valid" => <<tries, "cleaned">> \in Written
    /\ pc = "removed" => <<tries, "cleaned">> \in Written /\ <<tries, "valid">> \in Written

LEMMA OutputsInit == Init => OutputsInv
  BY DEF Init, OutputsInv, Whole, NoJob

\* A save of a job that names the same outputs, on the way to no writer but the first.
LEMMA SaveOutputs ==
  ASSUME TypeInv, OutputsInv, NEW from, NEW j, j.outputs = job.outputs,
         NEW next, NEW caught,
         next \notin {"valid", "removed"}, caught \notin {"valid", "removed"},
         SaveStep(from, j, next, caught), UNCHANGED <<objects, taken, tries>>
  PROVE  OutputsInv'
  BY DEF OutputsInv, Whole, Written, SaveStep, Saved

LEMMA OutputsNext == TypeInv /\ OutputsInv /\ [Next]_vars => OutputsInv'
<1> SUFFICES ASSUME TypeInv, OutputsInv, [Next]_vars PROVE OutputsInv'
  OBVIOUS
<1>0. row \in JobRow /\ job \in JobRow
  BY DEF TypeInv, TypeOK
<1>1. CASE Request
  <2> USE DEF OutputsInv, Whole, Written, runVars, storeVars
  <2>1. CASE CreateJob
    BY <2>1 DEF CreateJob, NoJob
  <2>2. CASE EnqueueJob
    BY <2>2 DEF EnqueueJob
  <2>3. CASE DeleteReads
    BY <2>3 DEF DeleteReads
  <2>4. ASSUME NEW i \in DOMAIN Segments, DeleteObject(i) PROVE OutputsInv'
    <3>1. taken'.objects = taken.objects \cup {<<doomed, Segments[i]>>}
      BY <2>4 DEF DeleteObject, TypeInv, TypeOK
    <3>2. Written \subseteq Written' /\ UNCHANGED <<row, job, pc, tries>>
      BY <2>4, <3>1 DEF DeleteObject
    <3> HIDE DEF Written
    <3> QED  BY <3>2
  <2>5. CASE DeleteAddresses
    <3>1. taken'.objects = taken.objects
      BY <2>5 DEF DeleteAddresses, TypeInv, TypeOK
    <3> QED  BY <2>5, <3>1 DEF DeleteAddresses
  <2>6. CASE DeleteRetries
    BY <2>6 DEF DeleteRetries
  <2>7. CASE DeleteRow
    BY <2>7 DEF DeleteRow, NoJob
  <2>8. CASE DeleteRaises
    BY <2>8 DEF DeleteRaises
  <2> QED  BY <1>1, <2>1, <2>2, <2>3, <2>4, <2>5, <2>6, <2>7, <2>8 DEF Request
<1>2. CASE TakeJob
  <2>1. pc = "idle" /\ pc' \in {"idle", "starting"}
    BY <1>2 DEF TakeJob, TypeInv, TypeOK, TriesLeft
  <2> QED  BY <1>2, <2>1 DEF TakeJob, OutputsInv, Whole, Written, requestVars, storeVars
<1>3. CASE StartRun
  <2> DEFINE j == [job EXCEPT !.status = "processing"]
  <2>1. j.outputs = job.outputs
    BY <1>0 DEF JobRow
  <2>2. SaveStep("starting", j, "splitting", "notifying") /\ UNCHANGED <<objects, taken, tries>>
    BY <1>3 DEF StartRun, requestVars, storeVars
  <2> HIDE DEF j
  <2> QED  BY <2>1, <2>2, SaveOutputs
<1>4. CASE Split
  <2> DEFINE j == [job EXCEPT !.total = Total]
  <2>1. j.outputs = job.outputs
    BY <1>0 DEF JobRow
  <2>2. SaveStep("splitting", j, "verifying", "failing") /\ UNCHANGED <<objects, taken, tries>>
    BY <1>4 DEF Split, requestVars, storeVars
  <2> HIDE DEF j
  <2> QED  BY <2>1, <2>2, SaveOutputs
<1>5. CASE NextChunk
  BY <1>5 DEF NextChunk, OutputsInv, Whole, Written, requestVars, storeVars
<1>6. ASSUME NEW k \in Key, VerifyOne(k) PROVE OutputsInv'
  <2> job'.outputs = job.outputs
    BY <1>0, <1>6 DEF VerifyOne, JobRow
  <2> QED  BY <1>6 DEF VerifyOne, OutputsInv, Whole, Written, requestVars
<1>7. ASSUME NEW k \in Key, VerifyRaises(k) PROVE OutputsInv'
  BY <1>7 DEF VerifyRaises, OutputsInv, Whole, Written, requestVars, storeVars
<1>8. CASE SaveChunk
  BY <1>8, SaveOutputs DEF SaveChunk, requestVars, storeVars
<1>9. CASE RecordChunk
  BY <1>9 DEF RecordChunk, OutputsInv, Whole, Written, requestVars
<1>10. CASE BeginAssemble
  BY <1>10, SaveOutputs DEF BeginAssemble, requestVars, storeVars
<1>11. ASSUME NEW i \in DOMAIN Segments, CloseSegment(i) PROVE OutputsInv'
  <2>1. Written' = Written \cup {<<tries, Segments[i]>>} /\ pc = Segments[i]
    BY <1>11 DEF CloseSegment, Written, requestVars
  <2>2. Whole(row.outputs)' /\ UNCHANGED <<row, tries>>
    BY <1>11, <2>1 DEF CloseSegment, OutputsInv, Whole
  <2>3. CASE i \in {1, 2}
    <3>1. pc' = Segments[i + 1] /\ UNCHANGED job
      BY <1>11, <2>3, SegmentsAre DEF CloseSegment
    <3>2. Whole(job.outputs)'
      BY <2>1, <3>1 DEF OutputsInv, Whole
    <3> QED  BY <2>1, <2>2, <2>3, <3>1, <3>2, SegmentsAre DEF OutputsInv
  <2>4. CASE i = 3
    <3>1. pc' = "completing" /\ job' = [job EXCEPT !.outputs = tries]
      BY <1>11, <2>4, SegmentsAre DEF CloseSegment
    <3>2. job'.outputs = tries
      BY <1>0, <3>1 DEF JobRow
    <3>3. \A n \in DOMAIN Segments : <<tries, Segments[n]>> \in Written'
      BY <2>1, <2>4, SegmentsAre DEF OutputsInv
    <3> QED  BY <2>2, <3>1, <3>2, <3>3 DEF OutputsInv, Whole
  <2> QED  BY <2>3, <2>4, SegmentsAre
<1>12. CASE CompleteRun
  <2> DEFINE j == [job EXCEPT !.status = "completed"]
  <2>1. j.outputs = job.outputs
    BY <1>0 DEF JobRow
  <2>2. SaveStep("completing", j, "notifying", "failing") /\ UNCHANGED <<objects, taken, tries>>
    BY <1>12 DEF CompleteRun, requestVars, storeVars
  <2> HIDE DEF j
  <2> QED  BY <2>1, <2>2, SaveOutputs
<1>13. CASE FailRun
  <2> DEFINE j == [job EXCEPT !.status = "failed"]
  <2>1. j.outputs = job.outputs
    BY <1>0 DEF JobRow
  <2>2. SaveStep("failing", j, "notifying", "notifying") /\ UNCHANGED <<objects, taken, tries>>
    BY <1>13 DEF FailRun, requestVars, storeVars
  <2> HIDE DEF j
  <2> QED  BY <2>1, <2>2, SaveOutputs
<1>14. CASE Notify
  BY <1>14 DEF Notify, OutputsInv, Whole, Written, requestVars
<1>15. CASE Acknowledge
  BY <1>15 DEF Acknowledge, RunEnds, OutputsInv, Whole, Written, requestVars, storeVars
<1>16. CASE ApiDies
  BY <1>16 DEF ApiDies, OutputsInv, Whole, Written, runVars, storeVars
<1>17. CASE WorkerDies
  BY <1>17 DEF WorkerDies, RunEnds, OutputsInv, Whole, Written, requestVars, storeVars
<1>18. CASE TimesOut
  BY <1>18 DEF TimesOut, RunEnds, OutputsInv, Whole, Written, requestVars, storeVars
<1>19. CASE FileRaises
  BY <1>19 DEF FileRaises, OutputsInv, Whole, Written, requestVars, storeVars
<1>20. CASE UNCHANGED vars
  BY <1>20 DEF vars, runVars, requestVars, storeVars, OutputsInv, Whole, Written
<1> QED
  BY <1>1, <1>2, <1>3, <1>4, <1>5, <1>6, <1>7, <1>8, <1>9, <1>10, <1>11, <1>12, <1>13,
     <1>14, <1>15, <1>16, <1>17, <1>18, <1>19, <1>20 DEF Next, RunStep

\* Whatever crash, timeout, store that raises or redelivery interrupts a run, a row
\* never names an output of which a segment is missing but by delete_job.
THEOREM OutputsExist == Spec => []OutputsAreThere
<1>1. OutputsInv => OutputsAreThere
  BY DEF OutputsInv, OutputsAreThere, Whole, Written
<1> QED  BY <1>1, TypeInvariant, OutputsInit, OutputsNext, PTL DEF Spec
----------------------------------------------------------------------------
(***************************************************************************)
(* The status.  While the save that would show it did not fail, the row,   *)
(* unless it was deleted, shows what the job object shows from the first   *)
(* save to the acknowledgement.                                            *)
(***************************************************************************)
Working == {"splitting", "verifying", "gathering", "recording", "assembling",
            "cleaned", "valid", "removed", "completing", "failing"}

StatusInv ==
    /\ row.status = "absent" <=> api = "new" \/ deletion = "deleted"
    /\ api = "new" => deletion = "none" /\ happened = {}
    /\ pc \in Working =>
           /\ pc # "failing" => job.status = "processing"
           /\ row.status \in {"absent", "processing"}
    /\ pc \in {"notifying", "acking"} /\ "endsave" \notin happened =>
           job.status \in Terminal /\ row.status \in {"absent", job.status}

LEMMA StatusInit == Init => StatusInv
  BY DEF Init, StatusInv, NoJob, Working

LEMMA StatusNext == TypeInv /\ StatusInv /\ [Next]_vars => StatusInv'
<1> SUFFICES ASSUME TypeInv, StatusInv, [Next]_vars PROVE StatusInv'
  OBVIOUS
<1>0. row \in JobRow /\ job \in JobRow
  BY DEF TypeInv, TypeOK
<1>1. CASE Request
  <2> USE DEF StatusInv, Working, Terminal, runVars, storeVars
  <2>1. CASE CreateJob
    <3>1. row'.status = "pending" /\ pc = "idle"
      BY <2>1 DEF CreateJob, NoJob, TypeInv, TriesLeft, TypeOK
    <3> QED  BY <2>1, <3>1 DEF CreateJob
  <2>2. CASE EnqueueJob
    BY <2>2 DEF EnqueueJob
  <2>3. CASE DeleteReads
    BY <2>3, SegmentsAre DEF DeleteReads, AfterObjects
  <2>4. ASSUME NEW i \in DOMAIN Segments, DeleteObject(i) PROVE StatusInv'
    <3>1. deletion \notin {"none", "deleted"} /\ deletion' # "deleted"
      BY <2>4, SegmentsAre DEF DeleteObject, AfterObjects
    <3> QED  BY <2>4, <3>1 DEF DeleteObject
  <2>5. CASE DeleteAddresses \/ DeleteRetries \/ DeleteRaises
    BY <2>5 DEF DeleteAddresses, DeleteRetries, DeleteRaises, Fault
  <2>6. CASE DeleteRow
    <3>1. row'.status = "absent"
      BY <2>6 DEF DeleteRow, NoJob
    <3> QED  BY <2>6, <3>1 DEF DeleteRow
  <2> QED  BY <1>1, <2>1, <2>2, <2>3, <2>4, <2>5, <2>6 DEF Request
<1>2. CASE TakeJob
  <2>1. pc = "idle" /\ pc' \in {"idle", "starting"}
    BY <1>2 DEF TakeJob, TypeInv, TypeOK, TriesLeft
  <2> QED  BY <1>2, <2>1 DEF TakeJob, StatusInv, Working, requestVars, storeVars
<1>3. CASE StartRun
  <2> [job EXCEPT !.status = "processing"].status = "processing"
    BY <1>0 DEF JobRow
  <2> QED  BY <1>3 DEF TypeInv, TriesLeft, TypeOK, StartRun, SaveStep, Saved, Fault, StatusInv,
                    Working,
                       requestVars, storeVars
<1>4. CASE Split
  <2> [job EXCEPT !.total = Total].status = job.status
    BY <1>0 DEF JobRow
  <2> QED  BY <1>4 DEF TypeInv, TriesLeft, TypeOK, Split, SaveStep, Saved, Fault, StatusInv,
                    Working,
                       requestVars, storeVars
<1>5. CASE NextChunk
  BY <1>5 DEF NextChunk, StatusInv, Working, requestVars, storeVars
<1>6. ASSUME NEW k \in Key, VerifyOne(k) PROVE StatusInv'
  <2> job'.status = job.status
    BY <1>0, <1>6 DEF VerifyOne, JobRow
  <2> QED  BY <1>6 DEF VerifyOne, StatusInv, requestVars
<1>7. ASSUME NEW k \in Key, VerifyRaises(k) PROVE StatusInv'
  BY <1>7 DEF TypeInv, TriesLeft, TypeOK, Fault, VerifyRaises, StatusInv, Working, requestVars,
              storeVars
<1>8. CASE SaveChunk
  BY <1>8 DEF TypeInv, TriesLeft, TypeOK, Fault, SaveChunk, SaveStep, Saved, StatusInv, Working,
              requestVars, storeVars
<1>9. CASE RecordChunk
  BY <1>9 DEF TypeInv, TriesLeft, TypeOK, Fault, RecordChunk, StatusInv, Working, requestVars
<1>10. CASE BeginAssemble
  BY <1>10 DEF TypeInv, TriesLeft, TypeOK, Fault, BeginAssemble, SaveStep, Saved, StatusInv,
               Working,
               requestVars, storeVars
<1>11. ASSUME NEW i \in DOMAIN Segments, CloseSegment(i) PROVE StatusInv'
  <2>1. job'.status = job.status
    BY <1>0, <1>11 DEF CloseSegment, JobRow
  <2>2. pc \in Working \ {"failing"} /\ pc' \in Working
    BY <1>11, SegmentsAre DEF CloseSegment, Working
  <2> QED  BY <1>11, <2>1, <2>2 DEF CloseSegment, StatusInv, Working, requestVars
<1>12. CASE CompleteRun
  <2> DEFINE j == [job EXCEPT !.status = "completed"]
  <2>1. j.status = "completed"
    BY <1>0 DEF JobRow
  <2>2. /\ pc = "completing" /\ job' = j /\ UNCHANGED <<api, deletion>>
        /\ \/ pc' = "notifying" /\ row' = IF row.status = "absent" THEN row ELSE j
           \/ pc' = "failing" /\ row' = row
    BY <1>12 DEF CompleteRun, SaveStep, Saved, requestVars
  <2> HIDE DEF j
  <2>3. api # "new"
    BY <2>2 DEF TypeInv, TriesLeft, TypeOK
  <2>4. CASE pc' = "notifying"
    BY <2>1, <2>2, <2>3, <2>4 DEF StatusInv, Working, Terminal
  <2>5. CASE pc' = "failing"
    BY <2>2, <2>3, <2>5 DEF StatusInv, Working
  <2> QED  BY <2>2, <2>4, <2>5
<1>13. CASE FailRun
  <2> [job EXCEPT !.status = "failed"].status = "failed"
    BY <1>0 DEF JobRow
  <2> QED  BY <1>13 DEF TypeInv, TriesLeft, TypeOK, Fault, FailRun, SaveStep, Saved, StatusInv,
                        Working, Terminal, requestVars, storeVars
<1>14. CASE Notify
  BY <1>14 DEF TypeInv, TriesLeft, TypeOK, Fault, Notify, StatusInv, Working, requestVars
<1>15. CASE Acknowledge
  BY <1>15 DEF Acknowledge, RunEnds, StatusInv, Working, requestVars, storeVars
<1>16. CASE ApiDies
  BY <1>16 DEF TypeInv, TriesLeft, TypeOK, Fault, ApiDies, StatusInv, runVars, storeVars
<1>17. CASE WorkerDies
  BY <1>17 DEF TypeInv, TriesLeft, TypeOK, Fault, WorkerDies, RunEnds, StatusInv, Working,
               requestVars, storeVars
<1>18. CASE TimesOut
  BY <1>18 DEF TypeInv, TriesLeft, TypeOK, Fault, TimesOut, RunEnds, StatusInv, Working,
               requestVars, storeVars
<1>19. CASE FileRaises
  BY <1>19, SegmentsAre DEF FileRaises, Fault, StatusInv, Working, TypeInv, TriesLeft,
                            requestVars, storeVars
<1>20. CASE UNCHANGED vars
  BY <1>20 DEF vars, runVars, requestVars, storeVars, StatusInv
<1> QED
  BY <1>1, <1>2, <1>3, <1>4, <1>5, <1>6, <1>7, <1>8, <1>9, <1>10, <1>11, <1>12, <1>13,
     <1>14, <1>15, <1>16, <1>17, <1>18, <1>19, <1>20 DEF Next, RunStep

\* A run whose caller is told has a job that ended, and a row that agrees or is gone.
LEMMA ToldOutcome ==
  ASSUME TypeInv, StatusInv, Notify, "endsave" \notin happened
  PROVE  /\ told' = told \/ told' = told \cup {job.status}
         /\ job.status \in Terminal
         /\ UNCHANGED <<row, deletion>>
         /\ row.status = job.status \/ (row.status = "absent" /\ deletion = "deleted")
<1>1. job.status \in Terminal /\ row.status \in {"absent", job.status}
  BY DEF Notify, StatusInv
<1>2. api = "enqueued"
  BY DEF Notify, TypeInv, TypeOK, TriesLeft
<1>3. told' = told \/ told' = told \cup {job.status}
  BY <1>1 DEF Notify, Terminal
<1> QED  BY <1>1, <1>2, <1>3 DEF StatusInv, Notify, requestVars

\* Only Notify calls back, and it says that a job completed or failed.
LEMMA Calls ==
  ASSUME [Next]_vars
  PROVE  told' = told \/ (Notify /\ \E e \in Terminal : told' = told \cup {e})
<1>1. told' = told \/ Notify
  BY DEF Next, Request, RunStep, CreateJob, EnqueueJob, DeleteReads, DeleteObject,
         DeleteAddresses, DeleteRetries, DeleteRow, DeleteRaises, TakeJob, StartRun, Split,
         FileRaises, NextChunk, VerifyOne, VerifyRaises, SaveChunk, RecordChunk,
         BeginAssemble, CloseSegment, CompleteRun, FailRun, Acknowledge, RunEnds, ApiDies,
         WorkerDies, TimesOut, storeVars, vars
<1>2. ASSUME Notify
      PROVE  told' = told \/ \E e \in Terminal : told' = told \cup {e}
  <2> DEFINE e == IF job.status = "completed" THEN "completed" ELSE "failed"
  <2>1. e \in Terminal
    BY DEF Terminal
  <2> HIDE DEF e
  <2>2. told' = told \/ told' = told \cup {e}
    BY <1>2 DEF Notify, e
  <2> QED  BY <2>1, <2>2
<1> QED  BY <1>1, <1>2

\* What a callback says is what the job's row says, unless the save of a run's start or
\* of its failure raised.
THEOREM TellsTruth == Spec => ToldWhatIsRecorded
<1>1. TypeInv /\ StatusInv /\ [Next]_vars
        => [told' # told => \/ row.status = "absent" \/ row.status \in told'
                            \/ "endsave" \in happened]_vars
  <2> SUFFICES ASSUME TypeInv, StatusInv, [Next]_vars, told' # told,
                      "endsave" \notin happened
               PROVE  row.status = "absent" \/ row.status \in told'
    BY DEF vars
  <2> QED  BY Calls, ToldOutcome
<1> QED  BY <1>1, TypeInvariant, StatusInit, StatusNext, PTL DEF Spec, ToldWhatIsRecorded

\* What the row shows, had nothing given the job up.
Shown == IF deletion = "deleted" THEN "deleted" ELSE row.status

LEMMA StatusIs ==
  ASSUME TypeInv, StatusInv
  PROVE  /\ ~Abandoned => Status = Shown
         /\ row.status = "absent" /\ api # "new" => Status = "deleted"
         /\ row.status # "absent" /\ Abandoned => Status = "abandoned"
         /\ api = "new" => ~Abandoned
         /\ api = "new" \/ Abandoned \/ Status = row.status \/ Status = "deleted"
  BY DEF Status, Shown, StatusInv, Abandoned, TypeInv, TypeOK, TriesLeft

\* A job that was given up stays given up, and nobody is called in the step that does it.
LEMMA GivenUp ==
  ASSUME TypeInv, StatusInv, [Next]_vars
  PROVE  /\ Abandoned => Abandoned'
         /\ ~Abandoned /\ Abandoned' => told' = told
         /\ api # "new" => api' # "new"
<1>1. api # "new" => api' # "new"
  BY DEF Next, Request, RunStep, CreateJob, EnqueueJob, DeleteReads, DeleteObject,
         DeleteAddresses, DeleteRetries, DeleteRow, DeleteRaises, TakeJob, StartRun, Split,
         FileRaises, NextChunk, VerifyOne, VerifyRaises, SaveChunk, RecordChunk,
         BeginAssemble, CloseSegment, CompleteRun, FailRun, Notify, Acknowledge, RunEnds,
         ApiDies, WorkerDies, TimesOut, requestVars, vars
<1>2. api = "lost" => api' = "lost"
  BY DEF Next, Request, RunStep, CreateJob, EnqueueJob, DeleteReads, DeleteObject,
         DeleteAddresses, DeleteRetries, DeleteRow, DeleteRaises, TakeJob, StartRun, Split,
         FileRaises, NextChunk, VerifyOne, VerifyRaises, SaveChunk, RecordChunk,
         BeginAssemble, CloseSegment, CompleteRun, FailRun, Notify, Acknowledge, RunEnds,
         ApiDies, WorkerDies, TimesOut, requestVars, vars
<1>3. task = "lost" => task' = "lost"
  BY DEF TypeInv, TypeOK, TriesLeft,
         Next, Request, RunStep, CreateJob, EnqueueJob, DeleteReads, DeleteObject,
         DeleteAddresses, DeleteRetries, DeleteRow, DeleteRaises, TakeJob, StartRun, Split,
         FileRaises, NextChunk, VerifyOne, VerifyRaises, SaveChunk, RecordChunk, SaveStep,
         BeginAssemble, CloseSegment, CompleteRun, FailRun, Notify, Acknowledge, RunEnds,
         ApiDies, WorkerDies, TimesOut, vars
<1>4. happened \subseteq happened'
  BY DEF Next, Request, RunStep, CreateJob, EnqueueJob, DeleteReads, DeleteObject,
         DeleteAddresses, DeleteRetries, DeleteRow, DeleteRaises, TakeJob, StartRun, Split,
         FileRaises, NextChunk, VerifyOne, VerifyRaises, SaveChunk, RecordChunk, SaveStep,
         BeginAssemble, CloseSegment, CompleteRun, FailRun, Notify, Acknowledge, RunEnds,
         ApiDies, WorkerDies, TimesOut, Fault, vars
<1>5. ASSUME told' # told
      PROVE  UNCHANGED <<api, task, happened>>
  BY <1>5, Calls DEF Notify, requestVars
<1> QED  BY <1>1, <1>2, <1>3, <1>4, <1>5 DEF Abandoned

\* Only delete_job takes the row away, nothing brings it back, and no one is called then.
LEMMA RowGone ==
  ASSUME TypeInv, StatusInv, [Next]_vars, api # "new"
  PROVE  /\ row.status = "absent" => row'.status = "absent"
         /\ row.status # "absent" /\ row'.status = "absent" => told' = told
<1>1. api' # "new" /\ StatusInv'
  BY GivenUp, StatusNext
<1>2. deletion = "deleted" => deletion' = "deleted"
  BY SegmentsAre
     DEF Next, Request, RunStep, CreateJob, EnqueueJob, DeleteReads, DeleteObject,
         DeleteAddresses, DeleteRetries, DeleteRow, DeleteRaises, TakeJob, StartRun, Split,
         FileRaises, NextChunk, VerifyOne, VerifyRaises, SaveChunk, RecordChunk,
         BeginAssemble, CloseSegment, CompleteRun, FailRun, Notify, Acknowledge, RunEnds,
         ApiDies, WorkerDies, TimesOut, requestVars, vars
<1>3. Notify => row' = row
  BY DEF Notify
<1> QED  BY <1>1, <1>2, <1>3, Calls DEF StatusInv

\* A step of a job that was given up, or that gives it up, is one of its lifecycle.
LEMMA AbandonedStep ==
  ASSUME TypeInv, StatusInv, [Next]_vars, Abandoned'
  PROVE  Lifecycle!Next \/ UNCHANGED Lifecycle!vars
<1>1. TypeInv' /\ StatusInv'
  BY TypeNext, StatusNext
<1>2. api # "new" /\ api' # "new"
  <2>1. api' # "new"
    BY <1>1, StatusIs DEF StatusInv, Abandoned, TypeInv, TypeOK, TriesLeft
  <2>2. api = "new" => api' = "new" \/ CreateJob
    BY DEF Next, Request, RunStep, CreateJob, EnqueueJob, DeleteReads, DeleteObject,
         DeleteAddresses, DeleteRetries, DeleteRow, DeleteRaises, TakeJob, StartRun, Split,
         FileRaises, NextChunk, VerifyOne, VerifyRaises, SaveChunk, RecordChunk,
         BeginAssemble, CloseSegment, CompleteRun, FailRun, Notify, Acknowledge, RunEnds,
         ApiDies, WorkerDies, TimesOut, requestVars, vars
  <2>3. ~CreateJob
    BY StatusIs DEF CreateJob, Abandoned
  <2> QED  BY <2>1, <2>2, <2>3
<1>3. told' = told \/ \E e \in Terminal : told' = told \cup {e}
  BY Calls
<1>4. CASE row.status = "absent"
  <2>1. Status = "deleted" /\ Status' = "deleted"
    BY <1>2, <1>4, RowGone DEF Status
  <2> QED  BY <1>3, <2>1
      DEF Lifecycle!Next, Lifecycle!TellAnyway, Lifecycle!vars, Lifecycle!Terminal, Terminal
<1>5. CASE row.status # "absent" /\ row'.status = "absent"
  <2>1. Status' = "deleted" /\ told' = told
    BY <1>2, <1>5, RowGone DEF Status
  <2>2. Status \notin {"absent", "deleted"}
    BY <1>5 DEF Status, TypeInv, TypeOK, JobRow
  <2> QED  BY <2>1, <2>2 DEF Lifecycle!Next, Lifecycle!Delete
<1>6. CASE row.status # "absent" /\ row'.status # "absent"
  <2>1. Status' = "abandoned"
    BY <1>6 DEF Status
  <2>2. CASE Abandoned
    <3>1. Status = "abandoned"
      BY <1>6, <2>2 DEF Status
    <3> QED  BY <1>3, <2>1, <3>1
        DEF Lifecycle!Next, Lifecycle!TellAnyway, Lifecycle!vars, Lifecycle!Terminal, Terminal
  <2>3. CASE ~Abandoned
    <3>1. told' = told
      BY <2>3, GivenUp
    <3>2. Status \notin {"absent", "deleted", "abandoned"}
      BY <1>6, <2>3 DEF Status, TypeInv, TypeOK, JobRow
    <3> QED  BY <2>1, <3>1, <3>2 DEF Lifecycle!Next, Lifecycle!Abandon
  <2> QED  BY <2>2, <2>3
<1> QED  BY <1>4, <1>5, <1>6

\* A step that leaves the status and the callbacks alone is a stutter.
LEMMA Quiet ==
  ASSUME row'.status = row.status, UNCHANGED told,
         Status = Shown, Status' = Shown', deletion' = deletion \/ deletion' # "deleted",
         deletion # "deleted" \/ deletion' = "deleted"
  PROVE  UNCHANGED Lifecycle!vars
  BY DEF Lifecycle!vars, Shown

\* Every step of a job is a step of its lifecycle, whatever faults it meets: in
\* particular a deleted job stays deleted, and no callback is ahead of the row.
THEOREM RefinesLifecycle == Spec => Lifecycle!Spec
<1>1. Init => Lifecycle!Init
  BY DEF Init, NoJob, Status, Abandoned, Lifecycle!Init
<1>2. TypeInv /\ StatusInv /\ [Next]_vars => [Lifecycle!Next]_(Lifecycle!vars)
  <2> SUFFICES ASSUME TypeInv, StatusInv, [Next]_vars, ~Abandoned'
               PROVE  Lifecycle!Next \/ UNCHANGED Lifecycle!vars
    BY AbandonedStep
  <2>00. Status = Shown /\ Status' = Shown'
    <3>1. ~Abandoned /\ TypeInv' /\ StatusInv'
      BY GivenUp, TypeNext, StatusNext
    <3>2. Status = Shown
      BY <3>1, StatusIs
    <3>3. Status' = Shown'
      BY <3>1 DEF Status, Shown, StatusInv, Abandoned, TypeInv, TypeOK, TriesLeft
    <3> QED  BY <3>2, <3>3
  <2>01. "endsave" \notin happened /\ "endsave" \notin happened'
    BY GivenUp DEF Abandoned
  <2>0. row \in JobRow /\ job \in JobRow
    BY DEF TypeInv, TypeOK
  <2>1. CASE CreateJob
    <3>1. row'.status = "pending" /\ row.status = "absent" /\ deletion = "none"
      BY <2>1 DEF CreateJob, NoJob, StatusInv
    <3>2. Lifecycle!Submit
      BY <2>00, <2>1, <3>1 DEF CreateJob, storeVars, Shown, Lifecycle!Submit
    <3> QED  BY <3>2 DEF Lifecycle!Next
  <2>2. CASE EnqueueJob \/ DeleteReads \/ DeleteAddresses \/ DeleteRetries \/ DeleteRaises
    <3>1. row' = row /\ told' = told /\ Status' = Status
      BY <2>00, <2>2, SegmentsAre DEF EnqueueJob, DeleteReads, AfterObjects, DeleteAddresses,
                   DeleteRetries, DeleteRaises, storeVars, Shown
    <3> QED  BY <3>1 DEF Lifecycle!vars
  <2>17. ASSUME NEW i \in DOMAIN Segments, DeleteObject(i) PROVE UNCHANGED Lifecycle!vars
    <3>1. deletion # "deleted" /\ deletion' # "deleted" /\ row' = row /\ told' = told
      BY <2>17, SegmentsAre DEF DeleteObject, AfterObjects
    <3> QED  BY <2>00, <3>1, Quiet
  <2>3. CASE DeleteRow
    <3>1. Status = row.status /\ row.status # "absent" /\ row.status # "deleted"
      BY <2>00, <2>0, <2>3 DEF DeleteRow, StatusInv, Shown, JobRow
    <3>2. Status' = "deleted" /\ told' = told
      BY <2>00, <2>3 DEF DeleteRow, Shown, storeVars
    <3>3. Lifecycle!Delete
      BY <3>1, <3>2 DEF Lifecycle!Delete
    <3> QED  BY <3>3 DEF Lifecycle!Next
  <2>4. CASE StartRun
    <3> DEFINE j == [job EXCEPT !.status = "processing"]
    <3>1. j.status = "processing" /\ told' = told /\ deletion' = deletion
      BY <2>0, <2>4 DEF StartRun, JobRow, storeVars, requestVars
    <3>2. row' = IF row.status = "absent" THEN row ELSE j
      BY <2>01, <2>4 DEF StartRun, SaveStep, Saved, Fault
    <3> HIDE DEF j
    <3>3. CASE row.status \in {"absent", "processing"}
      <4>1. row'.status = row.status
        BY <3>1, <3>2, <3>3
      <4> QED  BY <3>1, <4>1, <2>00, Quiet
    <3>4. CASE row.status \notin {"absent", "processing"}
      <4>1. row.status \in {"pending", "completed", "failed"} /\ deletion # "deleted"
        BY <2>0, <3>4 DEF JobRow, StatusInv
      <4>2. Status = row.status /\ Status' = "processing"
        BY <2>00, <3>1, <3>2, <3>4, <4>1, <2>00 DEF Shown
      <4>3. Lifecycle!Start \/ Lifecycle!Reopen
        BY <3>1, <4>1, <4>2 DEF Lifecycle!Start, Lifecycle!Reopen, Lifecycle!Terminal
      <4> QED  BY <4>3 DEF Lifecycle!Next
    <3> QED  BY <3>3, <3>4
  <2>5. ASSUME NEW j, j.status = "processing", NEW from, NEW next, NEW caught,
               SaveStep(from, j, next, caught), from \in Working,
               UNCHANGED <<deletion, told>>
        PROVE  UNCHANGED Lifecycle!vars
    <3>1. row' = row \/ row' = IF row.status = "absent" THEN row ELSE j
      BY <2>5 DEF SaveStep, Saved, Fault
    <3>2. row'.status = row.status
      BY <2>5, <3>1 DEF SaveStep, StatusInv
    <3> QED  BY <2>5, <3>2, <2>00, Quiet
  <2>6. CASE Split
    <3> DEFINE j == [job EXCEPT !.total = Total]
    <3>1. SaveStep("splitting", j, "verifying", "failing") /\ UNCHANGED <<deletion, told>>
      BY <2>6 DEF Split, requestVars, storeVars
    <3>2. pc = "splitting" /\ "splitting" \in Working
      BY <3>1 DEF SaveStep, Working
    <3>3. j.status = "processing"
      BY <2>0, <3>2 DEF StatusInv, JobRow
    <3> HIDE DEF j
    <3> QED  BY <2>5, <3>1, <3>2, <3>3
  <2>7. CASE SaveChunk
    <3>1. SaveStep("gathering", job, "recording", "failing") /\ UNCHANGED <<deletion, told>>
      BY <2>7 DEF SaveChunk, requestVars, storeVars
    <3>2. "gathering" \in Working /\ job.status = "processing"
      BY <3>1 DEF SaveStep, Working, StatusInv
    <3> QED  BY <2>5, <3>1, <3>2
  <2>8. CASE BeginAssemble
    <3>1. SaveStep("assembling", job, "cleaned", "failing") /\ UNCHANGED <<deletion, told>>
      BY <2>8 DEF BeginAssemble, requestVars, storeVars
    <3>2. "assembling" \in Working /\ job.status = "processing"
      BY <3>1 DEF SaveStep, Working, StatusInv
    <3> QED  BY <2>5, <3>1, <3>2
  <2>9. ASSUME NEW e \in Terminal, NEW from \in Working, NEW next, NEW caught,
               SaveStep(from, [job EXCEPT !.status = e], next, caught),
               UNCHANGED <<deletion, told>>
        PROVE  Lifecycle!Next \/ UNCHANGED Lifecycle!vars
    <3> DEFINE j == [job EXCEPT !.status = e]
    <3>1. j.status = e
      BY <2>0 DEF JobRow
    <3>2. row' = row \/ row' = IF row.status = "absent" THEN row ELSE j
      BY <2>9 DEF SaveStep, Saved, Fault
    <3>3. row.status \in {"absent", "processing"}
      BY <2>9 DEF SaveStep, StatusInv
    <3> HIDE DEF j
    <3>4. CASE row.status = "absent"
      <4>1. row'.status = row.status
        BY <3>2, <3>4
      <4> QED  BY <2>9, <4>1, <2>00, Quiet
    <3>6. CASE row' = row
      BY <2>9, <3>6, <2>00, Quiet
    <3>5. CASE row.status = "processing" /\ row' = j
      <4>1. Status = "processing" /\ Status' = e
        BY <2>00, <2>9, <3>1, <3>2, <3>5 DEF Shown, StatusInv
      <4>2. Lifecycle!End
        BY <2>9, <4>1 DEF Lifecycle!End, Lifecycle!Terminal, Terminal
      <4> QED  BY <4>2 DEF Lifecycle!Next
    <3> QED  BY <3>2, <3>3, <3>4, <3>5, <3>6
  <2>10. CASE CompleteRun
    <3>1. "completed" \in Terminal /\ "completing" \in Working
      BY DEF Terminal, Working
    <3>2. /\ SaveStep("completing", [job EXCEPT !.status = "completed"], "notifying", "failing")
          /\ UNCHANGED <<deletion, told>>
      BY <2>10 DEF CompleteRun, requestVars, storeVars
    <3> QED  BY <2>9, <3>1, <3>2
  <2>11. CASE FailRun
    <3>1. "failed" \in Terminal /\ "failing" \in Working
      BY DEF Terminal, Working
    <3>2. /\ SaveStep("failing", [job EXCEPT !.status = "failed"], "notifying", "notifying")
          /\ UNCHANGED <<deletion, told>>
      BY <2>11 DEF FailRun, requestVars, storeVars
    <3> QED  BY <2>9, <3>1, <3>2
  <2>12. CASE Notify
    <3>1. CASE told' = told
      <4>1. row'.status = row.status /\ UNCHANGED <<deletion, told>>
        BY <2>12, <3>1, <2>01, ToldOutcome
      <4> QED  BY <4>1, <2>00, Quiet
    <3>2. CASE told' = told \cup {job.status} /\ row.status = job.status
      <4>1. Status = job.status /\ Status' = Status
        BY <2>00, <2>12, <3>2, <2>01, ToldOutcome DEF Shown, StatusInv, Terminal
      <4>2. Lifecycle!Tell
        BY <2>12, <3>2, <4>1, <2>01, ToldOutcome DEF Lifecycle!Tell, Lifecycle!Terminal, Terminal
      <4> QED  BY <4>2 DEF Lifecycle!Next
    <3>3. CASE told' = told \cup {job.status} /\ deletion = "deleted"
      <4>1. Status = "deleted" /\ Status' = Status
        BY <2>00, <2>12, <3>3, <2>01, ToldOutcome DEF Shown
      <4>2. Lifecycle!TellAnyway
        BY <2>12, <3>3, <4>1, <2>01, ToldOutcome
           DEF Lifecycle!TellAnyway, Lifecycle!Terminal, Terminal
      <4> QED  BY <4>2 DEF Lifecycle!Next
    <3> QED  BY <2>12, <3>1, <3>2, <3>3, <2>01, ToldOutcome
  <2>13. ASSUME NEW k \in Key, VerifyOne(k) PROVE UNCHANGED Lifecycle!vars
    BY <2>13, <2>00, Quiet DEF VerifyOne, requestVars
  <2>14. ASSUME NEW i \in DOMAIN Segments, CloseSegment(i) PROVE UNCHANGED Lifecycle!vars
    BY <2>14, <2>00, Quiet DEF CloseSegment, requestVars
  <2>15. ASSUME NEW k \in Key, VerifyRaises(k) PROVE UNCHANGED Lifecycle!vars
    BY <2>15, <2>00, Quiet DEF VerifyRaises, requestVars, storeVars
  <2>18. CASE FileRaises
    BY <2>00, <2>18, Quiet DEF FileRaises, requestVars, storeVars
  <2>16. CASE TakeJob \/ NextChunk \/ RecordChunk \/ Acknowledge \/ ApiDies \/ WorkerDies
              \/ TimesOut \/ UNCHANGED vars
    <3>1. row' = row /\ UNCHANGED <<deletion, told>>
      BY <2>16 DEF TakeJob, NextChunk, RecordChunk, Acknowledge, RunEnds, ApiDies,
                   WorkerDies, TimesOut, vars, runVars, requestVars, storeVars
    <3> QED  BY <3>1, <2>00, Quiet
  <2> QED
    BY <2>1, <2>2, <2>3, <2>4, <2>6, <2>7, <2>8, <2>10, <2>11, <2>12, <2>13, <2>14,
       <2>15, <2>16, <2>17, <2>18 DEF Next, Request, RunStep
<1> QED  BY <1>1, <1>2, TypeInvariant, StatusInit, StatusNext, PTL DEF Spec, Lifecycle!Spec
----------------------------------------------------------------------------
(***************************************************************************)
(* A completed job.  The chunks of a run are prefixes of the file: what a  *)
(* run has verdicts for, waits for and has listed is, at each of its       *)
(* steps, the addresses up to the chunk it is at.                          *)
(***************************************************************************)
Upto(n) == {k \in Key : k <= n}

\* The addresses the job put in the read-model, those delete_job took out included.
Listed == recorded \cup taken.addresses

\* The run has been through every chunk.
Assembly == {"assembling", "cleaned", "valid", "removed", "completing"}

ChunkInv ==
    /\ verdicts \cap flying = {}
    /\ pc \in {"starting", "splitting"} => at = 0 /\ flying = {} /\ verdicts = {}
    /\ pc \in {"verifying", "recording"} \cup Assembly => flying = {}
    /\ pc = "verifying" => verdicts = Upto(at)
    /\ pc = "gathering" => verdicts \cup flying = Upto(at + Batch)
    /\ pc = "recording" => verdicts = Upto(at + Batch)
    /\ pc \in Assembly => verdicts = Key /\ Total <= at
    /\ pc \in {"verifying", "gathering", "recording"} \cup Assembly /\ "record" \notin happened
         => Upto(at) \ Blank \subseteq Listed
    /\ Listed \subseteq Key \ Blank

\* In a first run the progress of the job is the number of its verdicts, and the
\* row does not say completed before the run does.
TallyInv ==
    /\ task = "none" => tries = 0
    /\ tries = 0 => row.processed = 0 /\ row.status # "completed"
    /\ tries = 1 /\ pc \in Working \cup {"starting"} =>
           job.processed = Cardinality(verdicts) /\ row.status # "completed"
    /\ pc \in Working \ {"failing"} => job.status = "processing"

LEMMA WholeInit == Init => ChunkInv /\ TallyInv
  BY DEF Init, ChunkInv, TallyInv, NoJob, Assembly, Working, Listed

\* A request leaves the listed addresses as they are, and so does a run that does not
\* write the read-model.
LEMMA ListedKept ==
  ASSUME TypeInv, Request \/ UNCHANGED <<recorded, taken>>
  PROVE  Listed' = Listed
<1>1. CASE DeleteAddresses
  <2>1. taken'.addresses = taken.addresses \cup recorded
    BY <1>1 DEF DeleteAddresses, TypeInv, TypeOK
  <2> QED  BY <1>1, <2>1 DEF DeleteAddresses, Listed
<1>2. ASSUME NEW i \in DOMAIN Segments, DeleteObject(i) PROVE Listed' = Listed
  <2>1. taken'.addresses = taken.addresses
    BY <1>2 DEF DeleteObject, TypeInv, TypeOK
  <2> QED  BY <1>2, <2>1 DEF DeleteObject, Listed
<1> QED
  BY <1>1, <1>2 DEF Request, CreateJob, EnqueueJob, DeleteReads, DeleteRetries, DeleteRow,
                    DeleteRaises, storeVars, Listed

LEMMA ChunkNext == TypeInv /\ ChunkInv /\ [Next]_vars => ChunkInv'
<1> SUFFICES ASSUME TypeInv, ChunkInv, [Next]_vars PROVE ChunkInv'
  OBVIOUS
<1> USE DEF Assembly
<1> HIDE DEF Listed
<1>00. happened \subseteq happened' /\ (Request \/ RecordChunk \/ UNCHANGED <<recorded, taken>>)
  BY DEF Next, RunStep, ApiDies, WorkerDies, TimesOut, RunEnds, TakeJob, StartRun, Split,
         FileRaises, NextChunk, VerifyOne, VerifyRaises, SaveChunk, RecordChunk, BeginAssemble,
         CloseSegment, CompleteRun, FailRun, Notify, Acknowledge, SaveStep, Fault, vars,
         Request, CreateJob, EnqueueJob, DeleteReads, DeleteObject, DeleteAddresses,
         DeleteRetries, DeleteRow, DeleteRaises, storeVars, requestVars
<1>01. (pc = "recording" /\ pc' = "verifying") \/ Listed' = Listed
  BY <1>00, ListedKept DEF RecordChunk
<1>0. /\ at \in Nat /\ Batch \in Nat \ {0} /\ Total \in Nat
      /\ flying \subseteq Key /\ verdicts \subseteq Key /\ recorded \subseteq Key
  BY JobAssumption DEF TypeInv, TypeOK
<1>1. CASE Request
  <2>1. UNCHANGED <<pc, at, flying, verdicts>> /\ happened \subseteq happened'
    BY <1>1 DEF Request, CreateJob, EnqueueJob, DeleteReads, DeleteObject, DeleteAddresses,
                DeleteRetries, DeleteRow, DeleteRaises, Fault, runVars
  <2> QED  BY <1>00, <1>01, <1>1, <2>1, ListedKept DEF ChunkInv
<1>2. CASE TakeJob
  <2>1. pc = "idle" /\ pc' \in {"idle", "starting"}
    BY <1>2 DEF TakeJob, TypeInv, TypeOK, TriesLeft
  <2>2. at' = 0 /\ flying' = {} /\ verdicts' = {}
    BY <1>2 DEF TakeJob
  <2> QED  BY <1>00, <1>01, <2>1, <2>2 DEF ChunkInv
<1>3. CASE StartRun
  BY <1>00, <1>01, <1>3 DEF StartRun, SaveStep, ChunkInv, storeVars
<1>4. CASE Split
  <2>1. Upto(0) = {}
    BY DEF Upto, Key
  <2> QED  BY <1>00, <1>01, <1>4, <2>1 DEF Split, SaveStep, ChunkInv, storeVars
<1>5. CASE NextChunk
  <2>1. CASE at < Total
    <3>1. Upto(at) \cup Chunk = Upto(at + Batch) /\ Upto(at) \cap Chunk = {}
      BY <1>0 DEF Upto, Chunk, Key
    <3> QED  BY <1>00, <1>01, <1>5, <2>1, <3>1 DEF NextChunk, ChunkInv, storeVars
  <2>2. CASE ~(at < Total)
    <3>1. Upto(at) = Key /\ Total <= at
      BY <1>0, <2>2 DEF Upto, Key
    <3> QED  BY <1>00, <1>01, <1>5, <2>2, <3>1 DEF NextChunk, ChunkInv, storeVars
  <2> QED  BY <2>1, <2>2
<1>6. ASSUME NEW k \in Key, VerifyOne(k) PROVE ChunkInv'
  <2>1. k \in flying /\ flying' = flying \ {k} /\ verdicts' = verdicts \cup {k}
    BY <1>6 DEF VerifyOne
  <2>2. verdicts' \cap flying' = {} /\ verdicts' \cup flying' = verdicts \cup flying
    BY <1>00, <1>01, <2>1 DEF ChunkInv
  <2>3. UNCHANGED <<pc, at, recorded>> /\ flying # {}
    BY <1>6, <2>1 DEF VerifyOne
  <2> QED  BY <1>00, <1>01, <2>2, <2>3 DEF ChunkInv
<1>7. ASSUME NEW k \in Key, VerifyRaises(k) PROVE ChunkInv'
  BY <1>00, <1>01, <1>7 DEF VerifyRaises, ChunkInv, storeVars
<1>8. CASE SaveChunk
  BY <1>00, <1>01, <1>8 DEF SaveChunk, SaveStep, ChunkInv, storeVars
<1>9. CASE RecordChunk
  <2>1. /\ pc = "recording" /\ pc' = "verifying" /\ at' = at + Batch
        /\ UNCHANGED <<flying, verdicts, taken>>
    BY <1>9 DEF RecordChunk, requestVars
  <2>2. Upto(at') = Upto(at) \cup Chunk /\ Chunk \subseteq Upto(at')
    BY <1>0, <2>1 DEF Upto, Chunk, Key
  <2>3. /\ "record" \notin happened' => Listed' = Listed \cup ((Chunk \cap verdicts) \ Blank)
        /\ Listed' \subseteq Listed \cup ((Chunk \cap verdicts) \ Blank)
    BY <1>9, <2>1 DEF RecordChunk, Fault, Listed
  <2> HIDE DEF Chunk, Upto
  <2>4. verdicts = Upto(at') /\ flying = {}
    BY <1>00, <1>01, <2>1 DEF ChunkInv
  <2>5. "record" \notin happened' => Upto(at') \ Blank \subseteq Listed'
    BY <1>00, <2>1, <2>2, <2>3, <2>4 DEF ChunkInv
  <2>6. Listed' \subseteq Key \ Blank
    BY <1>00, <1>01, <1>0, <2>3 DEF ChunkInv
  <2> QED  BY <1>00, <1>01, <2>1, <2>4, <2>5, <2>6 DEF ChunkInv
<1>10. CASE BeginAssemble
  BY <1>00, <1>01, <1>10 DEF BeginAssemble, SaveStep, ChunkInv, storeVars
<1>11. ASSUME NEW i \in DOMAIN Segments, CloseSegment(i) PROVE ChunkInv'
  <2>1. pc \in Assembly /\ pc' \in Assembly \ {"assembling"}
    BY <1>11, SegmentsAre DEF CloseSegment
  <2>2. UNCHANGED <<at, flying, verdicts, recorded>>
    BY <1>11 DEF CloseSegment
  <2> QED  BY <1>00, <1>01, <2>1, <2>2 DEF ChunkInv
<1>12. CASE CompleteRun \/ FailRun
  BY <1>00, <1>01, <1>12 DEF CompleteRun, FailRun, SaveStep, ChunkInv, storeVars
<1>13. CASE Notify
  BY <1>00, <1>01, <1>13 DEF Notify, ChunkInv
<1>14. CASE Acknowledge \/ WorkerDies \/ TimesOut
  BY <1>00, <1>01, <1>14 DEF Acknowledge, WorkerDies, TimesOut, RunEnds, ChunkInv, storeVars
<1>15. CASE ApiDies
  BY <1>00, <1>01, <1>15 DEF ApiDies, ChunkInv, runVars, storeVars
<1>17. CASE FileRaises
  <2>1. pc' = "failing" /\ UNCHANGED <<at, flying, verdicts, recorded, taken>>
    BY <1>17 DEF FileRaises, storeVars, requestVars
  <2> QED  BY <1>00, <1>01, <1>17, <2>1, SegmentsAre DEF ChunkInv
<1>16. CASE UNCHANGED vars
  BY <1>00, <1>01, <1>16 DEF vars, runVars, storeVars, ChunkInv
<1> QED
  BY <1>1, <1>2, <1>3, <1>4, <1>5, <1>6, <1>7, <1>8, <1>9, <1>10, <1>11, <1>12, <1>13,
     <1>14, <1>15, <1>16, <1>17 DEF Next, RunStep

\* The verdicts of a run are finitely many, all addresses are Total.
LEMMA Counting ==
    /\ IsFiniteSet(Key) /\ Cardinality(Key) = Total
    /\ Cardinality({}) = 0
    /\ \A S \in SUBSET Key : \A k \in Key \ S :
           Cardinality(S) \in Nat /\ Cardinality(S \cup {k}) = Cardinality(S) + 1
<1>1. IsFiniteSet(Key) /\ Cardinality(Key) = Total
  BY FS_Interval, JobAssumption DEF Key
<1>2. ASSUME NEW S \in SUBSET Key, NEW k \in Key \ S
      PROVE  Cardinality(S) \in Nat /\ Cardinality(S \cup {k}) = Cardinality(S) + 1
  <2>1. IsFiniteSet(S)
    BY <1>1, FS_Subset
  <2> QED  BY <2>1, FS_AddElement, FS_CardinalityType
<1> QED  BY <1>1, <1>2, FS_EmptySet

\* A save of a run in its first try, of a job that is not completed.
LEMMA SaveTally ==
  ASSUME TypeInv, TallyInv, NEW from \in Working \cup {"starting"}, NEW j,
         NEW next, NEW caught,
         SaveStep(from, j, next, caught), UNCHANGED <<task, tries, verdicts>>,
         j.processed = job.processed, j.status # "completed",
         next \in Working \cup {"notifying"}, caught \in {"failing", "notifying"},
         next \in Working \ {"failing"} => j.status = "processing"
  PROVE  TallyInv'
<1>1. tries # 0 /\ task # "none"
  BY DEF TypeInv, TypeOK, TriesLeft, SaveStep, Working
<1>2. pc = from /\ job' = j /\ (pc' = next \/ pc' = caught)
  BY DEF SaveStep
<1>3. row' = row \/ row' = j
  BY DEF SaveStep, Saved
<1>4. pc' \in Working \ {"failing"} => j.status = "processing"
  BY <1>2 DEF Working
<1> QED  BY <1>1, <1>2, <1>3, <1>4 DEF TallyInv

LEMMA TallyNext == TypeInv /\ ChunkInv /\ TallyInv /\ [Next]_vars => TallyInv'
<1> SUFFICES ASSUME TypeInv, ChunkInv, TallyInv, [Next]_vars PROVE TallyInv'
  OBVIOUS
<1>0. row \in JobRow /\ job \in JobRow
  BY DEF TypeInv, TypeOK
<1>1. CASE Request
  <2>1. row' = row \/ (row'.processed = 0 /\ row'.status # "completed")
    BY <1>1 DEF Request, CreateJob, EnqueueJob, DeleteReads, DeleteObject, DeleteAddresses,
                DeleteRetries, DeleteRow, DeleteRaises, NoJob
  <2>2. UNCHANGED <<tries, pc, job, verdicts>> /\ task' \in {task, "queued"}
    BY <1>1 DEF Request, CreateJob, EnqueueJob, DeleteReads, DeleteObject, DeleteAddresses,
                DeleteRetries, DeleteRow, DeleteRaises, runVars
  <2> QED  BY <2>1, <2>2 DEF TallyInv
<1>2. CASE TakeJob
  <2>1. tries \in Nat /\ pc = "idle" /\ tries' = tries + 1 /\ row' = row /\ task' # "none"
    BY <1>2 DEF TakeJob, TypeInv, TypeOK, TriesLeft
  <2>2. (pc' = "idle" /\ UNCHANGED job) \/ (pc' = "starting" /\ job' = row)
    BY <1>2, <2>1 DEF TakeJob
  <2>3. tries' = 1 => row.processed = 0 /\ row.status # "completed"
    BY <2>1 DEF TallyInv
  <2>4. verdicts' = {} /\ Cardinality({}) = 0
    BY <1>2, Counting DEF TakeJob
  <2> QED  BY <2>1, <2>2, <2>3, <2>4 DEF TallyInv, Working
<1>3. CASE StartRun
  <2> DEFINE j == [job EXCEPT !.status = "processing"]
  <2>1. j.processed = job.processed /\ j.status = "processing"
    BY <1>0 DEF JobRow
  <2>2. /\ SaveStep("starting", j, "splitting", "notifying")
        /\ UNCHANGED <<task, tries, verdicts>>
    BY <1>3 DEF StartRun
  <2>3. "splitting" \in Working
    BY DEF Working
  <2> HIDE DEF j
  <2> QED  BY <2>1, <2>2, <2>3, SaveTally
<1>4. CASE Split
  <2> DEFINE j == [job EXCEPT !.total = Total]
  <2>1. j.processed = job.processed /\ j.status = job.status
    BY <1>0 DEF JobRow
  <2>2. /\ SaveStep("splitting", j, "verifying", "failing")
        /\ UNCHANGED <<task, tries, verdicts>>
    BY <1>4 DEF Split
  <2>3. "splitting" \in Working /\ "verifying" \in Working
    BY DEF Working
  <2>4. job.status = "processing"
    BY <2>2, <2>3 DEF SaveStep, TallyInv
  <2> HIDE DEF j
  <2> QED  BY <2>1, <2>2, <2>3, <2>4, SaveTally
<1>5. CASE SaveChunk \/ BeginAssemble
  <2>1. PICK from \in {"gathering", "assembling"}, next \in {"recording", "cleaned"} :
           /\ SaveStep(from, job, next, "failing")
           /\ UNCHANGED <<task, tries, verdicts>>
    BY <1>5 DEF SaveChunk, BeginAssemble
  <2>2. from \in Working /\ next \in Working
    BY DEF Working
  <2>3. job.status = "processing"
    BY <2>1, <2>2 DEF SaveStep, TallyInv
  <2> QED  BY <2>1, <2>2, <2>3, SaveTally
<1>6. CASE NextChunk
  <2>1. pc \in Working \ {"failing"} /\ pc' \in Working
    BY <1>6 DEF NextChunk, Working
  <2> QED  BY <1>6, <2>1 DEF NextChunk, TallyInv
<1>7. ASSUME NEW k \in Key, VerifyOne(k) PROVE TallyInv'
  <2>1. /\ job'.processed = job.processed + 1 /\ job'.status = job.status
        /\ verdicts' = verdicts \cup {k} /\ UNCHANGED <<row, task, tries, pc>>
    BY <1>0, <1>7 DEF VerifyOne, JobRow
  <2>2. k \notin verdicts /\ verdicts \subseteq Key
    BY <1>7 DEF VerifyOne, ChunkInv, TypeInv, TypeOK
  <2>3. Cardinality(verdicts') = Cardinality(verdicts) + 1
    BY <2>1, <2>2, Counting
  <2> QED  BY <2>1, <2>3 DEF TallyInv
<1>8. ASSUME NEW k \in Key, VerifyRaises(k) PROVE TallyInv'
  <2>1. pc \in Working /\ pc' = "failing"
    BY <1>8 DEF VerifyRaises, Working
  <2> QED  BY <1>8, <2>1 DEF VerifyRaises, TallyInv, Working
<1>9. CASE RecordChunk
  <2>1. pc \in Working \ {"failing"} /\ pc' \in Working
    BY <1>9 DEF RecordChunk, Working
  <2> QED  BY <1>9, <2>1 DEF RecordChunk, TallyInv
<1>10. ASSUME NEW i \in DOMAIN Segments, CloseSegment(i) PROVE TallyInv'
  <2>1. job'.processed = job.processed /\ job'.status = job.status
    BY <1>0, <1>10 DEF CloseSegment, JobRow
  <2>2. pc \in Working \ {"failing"} /\ pc' \in Working
    BY <1>10, SegmentsAre DEF CloseSegment, Working
  <2> QED  BY <1>10, <2>1, <2>2 DEF CloseSegment, TallyInv
<1>11. CASE CompleteRun
  <2> DEFINE j == [job EXCEPT !.status = "completed"]
  <2>1. j.processed = job.processed
    BY <1>0 DEF JobRow
  <2>2. /\ pc = "completing" /\ job' = j /\ UNCHANGED <<task, tries, verdicts>>
        /\ (pc' = "notifying" \/ (pc' = "failing" /\ row' = row))
    BY <1>11 DEF CompleteRun, SaveStep
  <2>3. tries # 0 /\ task # "none"
    BY <2>2 DEF TypeInv, TypeOK, TriesLeft
  <2> HIDE DEF j
  <2> QED  BY <2>1, <2>2, <2>3 DEF TallyInv, Working
<1>12. CASE FailRun
  <2>1. tries # 0 /\ task # "none" /\ pc' = "notifying" /\ UNCHANGED <<tries, task>>
    BY <1>12 DEF FailRun, SaveStep, TypeInv, TypeOK, TriesLeft
  <2> QED  BY <2>1 DEF TallyInv, Working
<1>13. CASE Notify
  BY <1>13 DEF Notify, TallyInv, Working
<1>14. CASE Acknowledge \/ WorkerDies \/ TimesOut
  <2>1. pc' = "idle" /\ task' # "none" /\ UNCHANGED <<row, tries>>
    BY <1>14 DEF Acknowledge, WorkerDies, TimesOut, RunEnds
  <2> QED  BY <2>1 DEF TallyInv, Working
<1>15. CASE ApiDies
  BY <1>15 DEF ApiDies, TallyInv, runVars
<1>17. CASE FileRaises
  <2>1. pc \in Working /\ pc' = "failing"
    BY <1>17, SegmentsAre DEF FileRaises, Working
  <2> QED  BY <1>17, <2>1 DEF FileRaises, TallyInv, Working
<1>16. CASE UNCHANGED vars
  BY <1>16 DEF vars, runVars, TallyInv
<1> QED
  BY <1>1, <1>2, <1>3, <1>4, <1>5, <1>6, <1>7, <1>8, <1>9, <1>10, <1>11, <1>12, <1>13,
     <1>14, <1>15, <1>16, <1>17 DEF Next, RunStep

\* Only CompleteRun makes a row say completed, and it does so of a whole run.
LEMMA WholeNext ==
  TypeInv /\ ChunkInv /\ TallyInv /\ CompletedIsWhole /\ [Next]_vars => CompletedIsWhole'
<1> SUFFICES ASSUME TypeInv, ChunkInv, TallyInv, CompletedIsWhole, [Next]_vars,
                    row'.status = "completed"
             PROVE  (tries' = 1 => row'.processed = Total)
                    /\ ("record" \notin happened' => Listed' = Key \ Blank)
  BY DEF CompletedIsWhole, Listed
<1> HIDE DEF Listed
<1>0. row \in JobRow /\ job \in JobRow
  BY DEF TypeInv, TypeOK
<1>1. /\ Listed \subseteq Listed' /\ Listed' \subseteq Key \ Blank
      /\ happened \subseteq happened'
  <2>1. /\ happened \subseteq happened'
        /\ RecordChunk \/ Request \/ UNCHANGED <<recorded, taken>>
    BY DEF Next, RunStep, ApiDies, WorkerDies, TimesOut, RunEnds, TakeJob, StartRun, Split,
         FileRaises, NextChunk, VerifyOne, VerifyRaises, SaveChunk, RecordChunk, BeginAssemble,
         CloseSegment, CompleteRun, FailRun, Notify, Acknowledge, SaveStep, Fault, vars,
         Request, CreateJob, EnqueueJob, DeleteReads, DeleteObject, DeleteAddresses,
         DeleteRetries, DeleteRow, DeleteRaises, storeVars, requestVars
  <2>2. RecordChunk => Listed \subseteq Listed'
    BY DEF RecordChunk, requestVars, Listed
  <2>3. ChunkInv'
    BY ChunkNext
  <2> QED  BY <2>1, <2>2, <2>3, ListedKept DEF ChunkInv
<1>2. CASE row' = row
  <2>1. tries' = 1 => tries = 1 \/ (tries = 0 /\ TakeJob)
    BY DEF Next, Request, RunStep, CreateJob, EnqueueJob, DeleteReads, DeleteObject,
      DeleteAddresses, DeleteRetries, DeleteRow, DeleteRaises, FileRaises, TakeJob, StartRun,
      Split, NextChunk, VerifyOne, VerifyRaises, SaveChunk,
      RecordChunk, BeginAssemble, CloseSegment, CompleteRun, FailRun, Notify, Acknowledge,
      RunEnds, ApiDies, WorkerDies, TimesOut, vars, TypeInv, TypeOK
  <2>2. tries # 0
    BY <1>2 DEF TallyInv
  <2>3. "record" \notin happened => Listed = Key \ Blank
    BY <1>2 DEF CompletedIsWhole, Listed
  <2>4. "record" \notin happened' => Listed' = Key \ Blank
    BY <1>1, <2>3
  <2> QED  BY <1>2, <2>1, <2>2, <2>4 DEF CompletedIsWhole
<1>3. CASE row' # row
  <2> DEFINE j == [job EXCEPT !.status = "completed"]
  <2>1. CompleteRun
    <3>1. ~Request
      BY <1>3 DEF Request, CreateJob, EnqueueJob, DeleteReads, DeleteObject, DeleteAddresses,
                DeleteRetries, DeleteRow, DeleteRaises, NoJob
    <3>2. ~StartRun /\ ~FailRun
      BY <1>0, <1>3 DEF StartRun, FailRun, SaveStep, Saved, JobRow
    <3>3. ~Split /\ ~SaveChunk /\ ~BeginAssemble
      BY <1>0, <1>3 DEF Split, SaveChunk, BeginAssemble, SaveStep, Saved, JobRow, TallyInv,
                        Working
    <3> QED
      BY <1>3, <3>1, <3>2, <3>3
         DEF Next, RunStep, TakeJob, FileRaises, NextChunk, VerifyOne, VerifyRaises,
             RecordChunk, CloseSegment, Notify, Acknowledge, RunEnds, ApiDies, WorkerDies,
             TimesOut, vars
  <2>2. row' = j /\ pc = "completing" /\ UNCHANGED <<tries, verdicts>>
    BY <1>3, <2>1 DEF CompleteRun, SaveStep, Saved
  <2>3. j.processed = job.processed
    BY <1>0 DEF JobRow
  <2> HIDE DEF j
  <2>4. verdicts = Key /\ Total <= at
        /\ ("record" \notin happened => Upto(at) \ Blank \subseteq Listed)
    BY <2>2 DEF ChunkInv, Assembly
  <2>5. Upto(at) = Key
    BY <2>4, JobAssumption DEF Upto, Key, TypeInv, TypeOK
  <2>6. tries = 1 => job.processed = Cardinality(verdicts)
    BY <2>2 DEF TallyInv, Working
  <2> QED  BY <1>1, <2>2, <2>3, <2>4, <2>5, <2>6, Counting
<1> QED  BY <1>2, <1>3

\* A job whose row says completed is whole, whatever faults its runs met: the progress
\* of a first run is the number of addresses, and, if no write of the read-model failed,
\* each but the blank cell was put there and only delete_job took any of them out.
THEOREM CompletedWhole == Spec => []CompletedIsWhole
<1>1. Init => CompletedIsWhole
  BY DEF Init, CompletedIsWhole, NoJob
<1> QED  BY <1>1, TypeInvariant, WholeInit, ChunkNext, TallyNext, WholeNext, PTL DEF Spec
=============================================================================
