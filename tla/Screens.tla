------------------------------- MODULE Screens -------------------------------
(***************************************************************************)
(* What the screens of the web application show of the table, the jobs and *)
(* the settings (web/views.py, web/format.py, web/__init__.py).  Colours,  *)
(* wording and geometry are left out: a screen is the numbers on it, the   *)
(* rows under them and the links that lead on.                             *)
(***************************************************************************)
EXTENDS AddressTable, Series

CONSTANTS PAGE,       \* rows of the dashboard's table
          Sizes,      \* page sizes the contacts offer
          TopLimit    \* rows of the domain table

ASSUME PagesAssumption ==
    PAGE \in Nat \ {0} /\ Sizes \subseteq Nat \ {0} /\ TopLimit \in Nat

ORDER == <<"deliverable", "risky", "unknown", "undeliverable">>
PRESETS == {"all", "deliverable", "risky", "undeliverable", "catchall", "disposable"}

\* jsround of a percentage: halves go up.
Percent(part, whole) == (200 * part + whole) \div (2 * whole)

(***************************************************************************)
(* A percentage with no decimals, rounded half up, that claims neither     *)
(* nothing nor everything unless it is so (format.share).                  *)
(***************************************************************************)
Share(part, whole) ==
    IF whole = 0 THEN [sign |-> "none", n |-> 0]
    ELSE IF part > 0 /\ 100 * part < whole THEN [sign |-> "<", n |-> 1]
    ELSE IF part < whole /\ 100 * part > 99 * whole THEN [sign |-> ">", n |-> 99]
    ELSE [sign |-> "=", n |-> Percent(part, whole)]

\* The legend of a mix bar: the verdicts that occur, in display order.
MixBar(totals) ==
    LET n(v) == IF v \in DOMAIN totals THEN totals[v] ELSE 0
        whole == MapThenSumSet(n, PrimaryVerdict)
    IN  [v \in {w \in PrimaryVerdict : n(w) > 0} |-> [count |-> n(v), share |-> Share(n(v), whole)]]

(***************************************************************************)
(* The arcs of a donut, in parts of its circumference: each starts where   *)
(* the one before it ends.                                                 *)
(***************************************************************************)
Donut(totals) ==
    [i \in 1..Len(ORDER) |->
        [count |-> totals[ORDER[i]],
         from |-> MapThenSumSet(LAMBDA j : totals[ORDER[j]], 1..(i - 1))]]

\* The banner reports the most serious condition only.
Shell(switches, jobs) ==
    LET active == Cardinality({j \in jobs : j.status \in {"pending", "processing"}})
    IN  [engine |-> IF switches.dns THEN "Connected" ELSE "Degraded",
         banner |-> IF ~switches.dns THEN "DNS resolution is off"
                    ELSE IF ~switches.smtp THEN "SMTP mailbox probe is off" ELSE "none",
         active |-> IF active = 0 THEN None ELSE active]

\* _counts_to_verdicts: the tally of a job as the four verdicts.
CountsToVerdicts(counts) ==
    [v \in PrimaryVerdict |->
        MapThenSumSet(LAMBDA s : counts[s], {s \in Status : Primary(s) = v})]

\* A row opened: its trace, its subtitle, its label.
AddressRow(row) == [verdict |-> Primary(row.status), sub |-> row.sub, score |-> row.score,
                    subtitle |-> Subtitle(row.status, row.sub), trace |-> TraceFromRow(row)]

\* Mutant: the last page links on when it is full.
PagerEager(page, size, matched) ==
    [from |-> (page - 1) * size + 1, to |-> Min({page * size, matched}),
     prev |-> page > 1, next |-> page * size <= matched]
Pager(page, size, matched) ==
    [from |-> (page - 1) * size + 1, to |-> Min({page * size, matched}),
     prev |-> page > 1, next |-> page * size < matched]

\* The dashboard: the table under the tab in view ...
DashboardTable(T, tab, page) ==
    LET found == Query(T, [Everything EXCEPT !.listType = tab], PAGE, (page - 1) * PAGE)
    IN  [totals |-> Totals(T, tab), rows |-> found.rows, matched |-> found.total,
         pager |-> Pager(page, PAGE, found.total)]

\* ... and the charts above it, which no tab narrows.
DashboardCharts(T, grain, date) ==
    LET byDay == ByDay(T)
        this == Build(byDay, PrimaryVerdict, grain, date, 0)
        previous == Build(byDay, PrimaryVerdict, grain, date, 1)
        volume(b) == MapThenSumSet(LAMBDA i : Volume(b[i]), DOMAIN b)
        bounced(b) == MapThenSumSet(LAMBDA i : b[i].totals["undeliverable"], DOMAIN b)
        last(b) == DeliverableRate(b)[BUCKETS]
        whole(n) == [part |-> n, of |-> 1]
        wsTotals == Totals(T, AllLists)
    IN  [wsTotals |-> wsTotals, this |-> this, previous |-> previous, volume |-> volume(this),
         volumeDelta |-> Delta(whole(volume(this)), whole(volume(previous))),
         rateDelta |-> Delta(last(this), last(previous)),
         bounceDelta |-> Delta(whole(bounced(this)), whole(bounced(previous))),
         noHistory |-> volume(previous) = 0,
         sparse |-> Cardinality({i \in 1..BUCKETS : Volume(this[i]) > 0}) < 2,
         donut |-> Donut(wsTotals), heroMix |-> MixBar(wsTotals),
         avgScore |-> Headline(T).avgScore, empty |-> DOMAIN T = {}]

Contacts(T, verdicts, page, size) ==
    LET found == Query(T, [Everything EXCEPT !.verdicts = verdicts], size, (page - 1) * size)
    IN  [total |-> Headline(T).total, totals |-> Totals(T, AllLists),
         domains |-> Headline(T).domains, rows |-> found.rows, matched |-> found.total,
         pager |-> Pager(page, size, found.total),
         emptyNothing |-> DOMAIN T = {},
         emptyFilters |-> DOMAIN T # {} /\ found.total = 0]

\* The links a chip, a sort or a size leads to all start over at page 1.
ChipToggled(verdicts, v) == IF v \in verdicts THEN verdicts \ {v} ELSE verdicts \cup {v}

Analytics(T, grain, today) ==
    LET buckets == Build(ByDay(T), PrimaryVerdict, grain, today, 0)
    IN  [headline |-> Headline(T), totals |-> Totals(T, AllLists),
         rates |-> DeliverableRate(buckets), weekdays |-> WeekdayVolume(ByDay(T)),
         donut |-> Donut(Totals(T, AllLists)),
         topDomains |-> {[domain |-> t.domain, count |-> t.count,
                          rate |-> Percent(t.mix["deliverable"], t.count),
                          mix |-> MixBar(t.mix)] : t \in TopDomains(T, TopLimit)}]

\* Mutant: the catch-all preset counts every risky address.
PresetCountsByVerdict(T) ==
    LET totals == Totals(T, AllLists)
    IN  [all |-> SumOf(totals), deliverable |-> totals["deliverable"],
         risky |-> totals["risky"], undeliverable |-> totals["undeliverable"],
         catchall |-> totals["risky"], disposable |-> SubReasonCount(T, "disposable")]
\* How many addresses each card of the exports screen announces.
PresetCounts(T) ==
    LET totals == Totals(T, AllLists)
    IN  [all |-> SumOf(totals), deliverable |-> totals["deliverable"],
         risky |-> totals["risky"], undeliverable |-> totals["undeliverable"],
         catchall |-> SubReasonCount(T, "catch_all"),
         disposable |-> SubReasonCount(T, "disposable")]

\* The slice in view.  The toggles of a custom slice change the download only.
ExportPreview(T, preset, chosen) ==
    LET totals == Totals(T, AllLists)
        sub == IF preset \in DOMAIN PresetSub THEN PresetSub[preset] ELSE None
        verdicts == IF preset = "custom" THEN chosen
                    ELSE IF preset = "all" \/ sub # None THEN {} ELSE {preset}
        n == Cardinality(Filtered(T, [verdicts |-> verdicts, listType |-> AllLists, sub |-> sub]))
    IN  [count |-> n,
         mix |-> MixBar(IF sub # None
                        THEN [v \in {IF preset = "catchall" THEN "risky" ELSE "undeliverable"} |-> n]
                        ELSE [v \in IF verdicts = {} THEN PrimaryVerdict ELSE verdicts |-> totals[v]])]

\* POST /exports/download: what a preset asks of the API's export.
ExportsDownload(T, preset, chosen, requireMx, excludeDisposable) ==
    ExportSlice(T, [verdicts |-> IF preset \in {"all", "custom"} THEN chosen
                                 ELSE IF preset \in DOMAIN PresetSub THEN {} ELSE {preset},
                    preset |-> IF preset \in DOMAIN PresetSub THEN preset ELSE None,
                    requireMx |-> requireMx, excludeDisposable |-> excludeDisposable])

\* A job on the history screen, and opened: the cards share out its addresses.
HistoryRow(job) ==
    LET totals == CountsToVerdicts(job.counts)
    IN  [state |-> job.status, running |-> job.status \in {"pending", "processing"},
         rate |-> IF job.status = "failed" \/ job.counts.unique_emails = 0 THEN "none"
                  ELSE Percent(totals["deliverable"], job.counts.unique_emails),
         mix |-> MixBar(totals)]

\* The downloads a finished job offers, each with the rows it announces.
Downloads(job) ==
    LET totals == CountsToVerdicts(job.counts)
        rows == [cleaned |-> job.counts.total_rows,
                 valid |-> totals["deliverable"],
                 removed |-> job.counts.duplicates + totals["undeliverable"]]
    IN  [segment \in DOMAIN rows \cap job.outputs |-> rows[segment]]

\* The cards of a running job: shares of what is verified so far.
ValidateScreen(job) ==
    LET totals == CountsToVerdicts(job.counts)
    IN  [screen |-> IF job.status \in {"completed", "failed"} THEN job.status ELSE "running",
         cards |-> [v \in PrimaryVerdict |-> [count |-> totals[v],
                                              share |-> IF SumOf(totals) = 0 THEN "none"
                                                        ELSE Percent(totals[v], SumOf(totals))]],
         downloads |-> IF job.status = "completed" THEN Downloads(job) ELSE <<>>,
         progress |-> IF job.status = "completed" THEN [part |-> 1, of |-> 1]
                      ELSE IF job.total = 0 THEN [part |-> 0, of |-> 1]
                      ELSE [part |-> job.processed, of |-> job.total]]
=============================================================================
