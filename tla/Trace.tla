-------------------------------- MODULE Trace --------------------------------
(***************************************************************************)
(* The seven layers as a reader is shown them, for a verdict just reached  *)
(* or for the row it left in the read-model (trace.py).                    *)
(***************************************************************************)
EXTENDS Engine

Layer == 1..7
RowState == {"Pass", "Soft", "Fail", "Unknown", "Skipped"}

\* Mutant: a timeout is the mailbox probe's, whether one ran or not.
SettledLayerOfProbe(sub, smtpRan) ==
    IF sub = "invalid_syntax" THEN 1
    ELSE IF sub \in {"no_mx", "dns_error"} THEN 4
    ELSE IF sub = "disposable" \/ (sub = "role_account" /\ ~smtpRan) THEN 5
    ELSE IF sub = "catch_all" THEN 7
    ELSE 6
SettledLayer(sub, smtpRan) ==
    IF sub = "invalid_syntax" THEN 1
    ELSE IF sub \in {"no_mx", "dns_error"} \/ (sub = "timeout" /\ ~smtpRan) THEN 4
    ELSE IF sub = "disposable" \/ (sub = "role_account" /\ ~smtpRan) THEN 5
    ELSE IF sub = "catch_all" THEN 7
    ELSE 6

\* The rows of a list that ends early are filled with skips, as _skip does.
Shown(rows) == [n \in Layer |-> IF n \in DOMAIN rows THEN rows[n] ELSE "Skipped"]

DnsRow(v) == IF v.dns \in {None, "skipped"} THEN "Skipped"
             ELSE IF v.mx THEN "Pass"
             ELSE IF v.sub = "no_mx" THEN "Fail" ELSE "Unknown"

ClassRow(v) == IF v.class.disposable THEN "Fail"
               ELSE IF v.class.role \/ v.class.free THEN "Soft" ELSE "Pass"

ProbeRow(v) == IF v.smtp = None THEN "Skipped"
               ELSE IF v.catchAll THEN "Soft"
               ELSE IF v.smtp = "valid" THEN "Pass"
               ELSE IF v.smtp = "invalid" THEN "Fail" ELSE "Unknown"

BuildTrace(v) ==
    LET typo == IF v.typo THEN "Soft" ELSE "Pass"
        looked == DnsRow(v)
    IN  IF v.sub = "invalid_syntax" THEN Shown(<<"Fail">>)
        ELSE IF looked \in {"Fail", "Unknown"} THEN Shown(<<"Pass", "Pass", typo, looked>>)
        ELSE IF v.class.disposable
             THEN Shown(<<"Pass", "Pass", typo, looked, "Fail">>)
        ELSE <<"Pass", "Pass", typo, looked, ClassRow(v), ProbeRow(v),
               IF v.catchAll THEN "Soft" ELSE "Skipped">>

\* What the line beside the score ring says.
Subtitle(status, sub) ==
    IF status = "valid" THEN "confirmed"
    ELSE IF status = "risky"
         THEN IF sub \in {"catch_all", "role_account"} THEN sub ELSE "at your discretion"
    ELSE IF status = "unknown" THEN "not confirmed"
    ELSE IF status = "disposable" THEN "throwaway" ELSE "will bounce"

(***************************************************************************)
(* One row of the read-model: the verdict, whether the probe ran, and what *)
(* the job said of the list (AddressRecord.from_verdict and as_row).       *)
(***************************************************************************)
FromVerdict(v, job, listType, day) ==
    [cell |-> v.cell, domain |-> v.domain, status |-> v.status, sub |-> v.sub,
     score |-> v.score, typo |-> v.typo, class |-> v.class, catchAll |-> v.catchAll,
     mx |-> v.mx, dns |-> v.dns, smtp |-> v.smtp,
     smtpRan |-> v.smtp # None,
     settledAt |-> SettledLayer(v.sub, v.smtp # None),
     job |-> job, listType |-> listType, day |-> day]

\* trace_from_row: the row still holds what build_trace reads of a verdict.
TraceFromRow(row) == BuildTrace(row)
=============================================================================
