---------------------------- MODULE AddressTable ----------------------------
(***************************************************************************)
(* The read-model of one workspace and the questions asked of it           *)
(* (addresses.py, api/workspace.py).  A table maps the addresses it holds  *)
(* to their rows.  What a search box picks is left out: it narrows         *)
(* _filtered as the list type does.                                        *)
(***************************************************************************)
EXTENDS Trace, FiniteSets, FiniteSetsExt, Sequences

CONSTANT ListType    \* LIST_TYPES

AllLists == "All lists"

\* A row, as from_verdict makes it.
AddressRecord ==
    [cell: Cell, domain: Domain \cup {None}, status: Status, sub: SubStatus, score: 0..100,
     typo: BOOLEAN, class: Classes, catchAll: BOOLEAN, mx: BOOLEAN,
     dns: MxAnswer \cup {"skipped", None},
     smtp: ProbeAnswer \cup {"smtp_probe_not_enabled", None},
     smtpRan: BOOLEAN, settledAt: Layer, job: {"earlier", "this"}, listType: ListType, day: Int]

ASSUME ListAssumption == /\ IsFiniteSet(ListType) /\ AllLists \notin ListType
                         /\ None \notin AddressRecord

\* upsert_many: the rows of one chunk, the last write for an address wins.
Upsert(T, rows) ==
    [e \in DOMAIN T \cup {r.cell : r \in rows} |->
        IF \E r \in rows : r.cell = e THEN CHOOSE r \in rows : r.cell = e ELSE T[e]]

Everything == [verdicts |-> {}, listType |-> AllLists, sub |-> None]

\* _filtered: an empty choice is no choice.
Filtered(T, f) ==
    {e \in DOMAIN T :
        /\ f.verdicts = {} \/ Primary(T[e].status) \in f.verdicts
        /\ f.listType = AllLists \/ T[e].listType = f.listType
        /\ f.sub = None \/ T[e].sub = f.sub}

(***************************************************************************)
(* query: a page has the rows left from its offset on, up to the limit.    *)
(* Which of them, no query settles: ORDER BY names one column, in which    *)
(* rows tie, so equal rows may come in another order each time.            *)
(***************************************************************************)
Query(T, f, limit, offset) ==
    LET matched == Cardinality(Filtered(T, f))
    IN  [rows |-> Max({0, Min({limit, matched - offset})}), total |-> matched]

\* How many rows of a group have each verdict: GROUP BY status, then the fold.
Mix(T, group) ==
    LET having(s) == Cardinality({e \in group : T[e].status = s})
    IN  [v \in PrimaryVerdict |-> MapThenSumSet(having, {s \in Status : Primary(s) = v})]

SumOf(totals) == MapThenSumSet(LAMBDA v : totals[v], DOMAIN totals)

Totals(T, listType) ==
    Mix(T, {e \in DOMAIN T : listType = AllLists \/ T[e].listType = listType})

\* Python's round: halves go to the even neighbour.
Rounded(sum, n) == LET low == sum \div n
                       twice == 2 * (sum % n)
                   IN  IF twice > n \/ (twice = n /\ low % 2 = 1) THEN low + 1 ELSE low

\* A malformed address counts as one more domain: its own is the empty string.
Headline(T) ==
    LET n == Cardinality(DOMAIN T)
    IN  [total |-> n, domains |-> Cardinality({T[e].domain : e \in DOMAIN T}),
         avgScore |-> IF n = 0 THEN None
                      ELSE Rounded(MapThenSumSet(LAMBDA e : T[e].score, DOMAIN T), n)]

ByDay(T) == [day \in {T[e].day : e \in DOMAIN T} |->
                Mix(T, {e \in DOMAIN T : T[e].day = day})]

(***************************************************************************)
(* The busiest domains: the limit is taken before the malformed rows,      *)
(* whose domain is empty, are dropped.                                     *)
(***************************************************************************)
TopDomains(T, limit) ==
    LET on(d) == {e \in DOMAIN T : T[e].domain = d}
        n(d) == Cardinality(on(d))
        all == {T[e].domain : e \in DOMAIN T}
        tops == CHOOSE S \in SUBSET all :
                    /\ Cardinality(S) = Min({limit, Cardinality(all)})
                    /\ \A d \in S, other \in all \ S : n(other) <= n(d)
    IN  {[domain |-> d, count |-> n(d), mix |-> Mix(T, on(d))] : d \in tops \ {None}}

\* Derived on read from the sub status and whether the probe ran.
SettledBreakdown(T) ==
    [layer \in Layer |->
        Cardinality({e \in DOMAIN T : SettledLayer(T[e].sub, T[e].smtpRan) = layer})]

SubReasonCount(T, sub) == Cardinality({e \in DOMAIN T : T[e].sub = sub})

\* get looks an address up in lower case; None is a 404.
Get(T, e) == LET asked == IF e \in Malformed THEN Lower[e] ELSE e
             IN  IF asked \in DOMAIN T THEN T[asked] ELSE None

(***************************************************************************)
(* POST /v1/exports: the presets named by a sub-reason, the verdicts, and  *)
(* what the request leaves out of them.                                    *)
(***************************************************************************)
PresetSub == [catchall |-> "catch_all", disposable |-> "disposable"]

ASSUME PresetAssumption == None \notin DOMAIN PresetSub

ExportSlice(T, req) ==
    {e \in Filtered(T, [verdicts |-> req.verdicts, listType |-> AllLists,
                        sub |-> IF req.preset \in DOMAIN PresetSub
                                THEN PresetSub[req.preset] ELSE None]) :
        /\ req.requireMx => T[e].mx
        /\ req.excludeDisposable => ~T[e].class.disposable}

\* GET /v1/addresses.
ListAddresses(T, verdicts, page, size) ==
    Query(T, [Everything EXCEPT !.verdicts = verdicts], size, (page - 1) * size)

\* GET /v1/analytics: every rollup in one round-trip.
AnalyticsApi(T, limit) ==
    [headline |-> Headline(T), totals |-> Totals(T, AllLists), byDay |-> ByDay(T),
     topDomains |-> TopDomains(T, limit), settledByLayer |-> SettledBreakdown(T)]
=============================================================================
