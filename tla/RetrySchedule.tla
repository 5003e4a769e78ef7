--------------------------- MODULE RetrySchedule ---------------------------
(***************************************************************************)
(* What the table of deferred re-probes promises, whoever sweeps it: a     *)
(* deferral opens an address at attempt 0, each retry moves it to a later  *)
(* attempt below MaxAttempts or closes it, and an open address is always   *)
(* moved on in the end.                                                    *)
(***************************************************************************)
EXTENDS Integers

CONSTANTS Email, MaxAttempts

VARIABLE attempt    \* the retries made for each open address

Closed == -1

Init == attempt = [e \in Email |-> Closed]

Defer(e) ==
    /\ MaxAttempts > 0
    /\ attempt' = [attempt EXCEPT ![e] = 0]

\* A retry still in flight when its address is closed (its job was deleted)
\* reopens it, past its first attempt.
Retry(e) ==
    \E k \in 1..(MaxAttempts - 1) :
        /\ k > attempt[e]
        /\ attempt' = [attempt EXCEPT ![e] = k]

\* Deleting a job closes all its addresses at once.
Close(es) ==
    /\ \A e \in es : attempt[e] # Closed
    /\ attempt' = [e \in Email |-> IF e \in es THEN Closed ELSE attempt[e]]

Next ==
    \/ \E e \in Email : Defer(e) \/ Retry(e)
    \/ \E es \in SUBSET Email : Close(es)

Spec == Init /\ [][Next]_attempt

MoveOn(e) ==
    /\ attempt[e] # Closed
    /\ Retry(e) \/ \E es \in SUBSET Email : e \in es /\ Close(es)

FairSpec == Spec /\ \A e \in Email : WF_attempt(MoveOn(e))
============================================================================
