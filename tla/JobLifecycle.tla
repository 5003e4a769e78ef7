---------------------------- MODULE JobLifecycle ----------------------------
(***************************************************************************)
(* What a bulk job promises its caller: it is accepted, runs, ends as      *)
(* completed or failed, and the caller is told how, unless it is deleted   *)
(* or abandoned.  A redelivery may run a job again, never bring back a     *)
(* deleted one, and a callback never says more than the job's own status.  *)
(***************************************************************************)
VARIABLES status, told

vars == <<status, told>>

Terminal == {"completed", "failed"}

Init == status = "absent" /\ told = {}

Submit == status = "absent" /\ status' = "pending" /\ UNCHANGED told

Start == status = "pending" /\ status' = "processing" /\ UNCHANGED told

End == status = "processing" /\ status' \in Terminal /\ UNCHANGED told

\* A task that was not acknowledged is run again.
Reopen == status \in Terminal /\ status' = "processing" /\ UNCHANGED told

Tell == status \in Terminal /\ told' = told \cup {status} /\ UNCHANGED status

Delete == status \notin {"absent", "deleted"} /\ status' = "deleted" /\ UNCHANGED told

\* A process, a time limit or a store gave up on the job for good.
Abandon ==
    /\ status \notin {"absent", "deleted", "abandoned"}
    /\ status' = "abandoned"
    /\ UNCHANGED told

\* A run whose job is deleted or abandoned under it still calls back.
TellAnyway ==
    /\ status \in {"deleted", "abandoned"}
    /\ UNCHANGED status
    /\ \E e \in Terminal : told' = told \cup {e}

Next == Submit \/ Start \/ End \/ Reopen \/ Tell \/ Delete \/ Abandon \/ TellAnyway

Spec == Init /\ [][Next]_vars

FairSpec == Spec /\ WF_vars(Start) /\ WF_vars(End) /\ WF_vars(Tell)
============================================================================
