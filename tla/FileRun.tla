------------------------------- MODULE FileRun -------------------------------
(***************************************************************************)
(* A file from its upload to what is reported of it: the price quoted, the *)
(* split into unique addresses, the lookups of its domains, the checks of  *)
(* its addresses, the rows recorded and the three files assembled          *)
(* (jobs/pipeline.py, jobs/csv_io.py, layers/dns_mx.py, and the read-model *)
(* and screens that show the outcome).                                     *)
(*                                                                         *)
(* The lookups run on worker threads over one cache, which takes no lock   *)
(* across a lookup: entries expire, other requests of the process fill     *)
(* them, and two checks of one domain may both ask and be told different   *)
(* things.  How a run fails, dies or is delivered again is JobRun's; what  *)
(* a deferral queues for later is Reprobe's.                               *)
(***************************************************************************)
EXTENDS Screens, Functions, TLC

CONSTANTS Cases,        \* files and circumstances: see FileRunAssumption
          ChunkSize     \* chunk_size

ASSUME FileRunAssumption ==
    /\ EngineAssumption
    /\ \A c \in Cases :
          /\ c.file \in Seq(Cell)                        \* the e-mail column, row by row
          /\ c.settings \in [dns: BOOLEAN, smtp: BOOLEAN]
          /\ c.today \in [month: Nat, day: 1..31]
          /\ c.today.day <= DaysOf(c.today.month)
          /\ c.listType \in ListType                     \* what the form says of the list
          /\ IsFiniteSet(c.earlier)
          /\ \A e \in c.earlier :                         \* see EarlierRow
                /\ e.cell \in Cell \ {Blank} /\ e.listType \in ListType /\ e.age \in Nat
                /\ e.answer \in MxAnswer \cup {"skipped"}
                /\ e.said \in ProbeAnswer \cup {None}
    /\ ChunkSize \in Nat \ {0}

VARIABLES file, settings, today,
          pc,        \* where the wizard, then run_job, is
          quote,     \* preview_stats, shown before the run
          cache,     \* the domains dns_mx holds an answer for
          resolving, \* domains of the resolve pass not answered yet
          chunk,     \* keys of the chunk being verified, and how far each check is
          verdicts,  \* of the keys verified so far
          job,       \* status, counts, progress and outputs
          table,     \* the read-model
          output,    \* rows of each of the three files
          heard,     \* history: replies that say a domain takes no mail
          said       \* history: what the prober said of a key

vars == <<file, settings, today, pc, quote, cache, resolving, chunk, verdicts, job,
          table, output, heard, said>>

(***************************************************************************)
(* What a resolver may be told: records, of MX or else of A or AAAA; a     *)
(* null MX; neither kind; no MX, with the lookups of A and AAAA lost; a    *)
(* timeout or another error of the MX lookup itself.                       *)
(***************************************************************************)
Reply == {"records", "null_mx", "nothing", "lost", "timeout", "dns_error"}

AnswerOf(reply) == IF reply = "records" THEN "found"
                   ELSE IF reply \in {"nothing", "lost"} THEN "no_mx" ELSE reply

\* What a reply says against the domain, when it does.
Against(reply) == IF reply \in {"null_mx", "nothing"} THEN {"refused"}
                  ELSE IF reply = "lost" THEN {"lost"} ELSE {}

\* What f says, and v of k.
With(f, k, v) == [l \in DOMAIN f \cup {k} |-> IF l = k THEN v ELSE f[l]]

Keys(rows) == {Key(rows[i]) : i \in DOMAIN rows}

\* Row i is the first of its key.
First(rows, i) == \A j \in 1..(i - 1) : Key(rows[j]) # Key(rows[i])

\* The unique addresses: the first row of each key stands for it.
Firsts == {i \in DOMAIN file : First(file, i)}
CellOf(k) == file[CHOOSE i \in Firsts : Key(file[i]) = k]

\* Mutant: the price is for the cells that read differently.
PreviewStatsAsTyped(rows) ==
    [total |-> Len(rows), unique |-> Cardinality({rows[i] : i \in DOMAIN rows} \ {Blank}),
     blank |-> Cardinality({i \in DOMAIN rows : rows[i] = Blank})]
\* preview_stats: a blank cell is counted as a row and not as an address.
PreviewStats(rows) == [total |-> Len(rows), unique |-> Cardinality(Keys(rows) \ {Blank}),
                       blank |-> Cardinality({i \in DOMAIN rows : rows[i] = Blank})]

\* A row of an earlier job: its cell, what it was told, its list and its age.
EarlierRow(e) ==
    LET v == Validate(e.cell, e.answer)
        w == IF e.said = None \/ v.status \in {"invalid", "disposable"} THEN v
             ELSE [IF e.said \in Conclusive THEN ApplyProbeOutcome(v, e.said) ELSE v
                      EXCEPT !.smtp = e.said]
    IN  FromVerdict(w, "earlier", e.listType, Ordinal(today) - e.age)

NoCounts == [total_rows |-> 0, unique_emails |-> 0, duplicates |-> 0, valid |-> 0,
             invalid |-> 0, risky |-> 0, unknown |-> 0, disposable |-> 0]

Init == /\ \E c \in Cases :
              /\ file = c.file /\ settings = c.settings /\ today = c.today
              /\ table = Upsert(<<>>, {EarlierRow(e) : e \in c.earlier})
              /\ job = [status |-> "none", listType |-> c.listType, counts |-> NoCounts,
                        total |-> 0, processed |-> 0, outputs |-> {}]
        /\ pc = "uploaded"
        /\ quote = None
        /\ cache = [d \in Domain |-> None]
        /\ resolving = {}
        /\ chunk = <<>> /\ verdicts = <<>>
        /\ output = [cleaned |-> {}, valid |-> {}, removed |-> {}]
        /\ heard = [d \in Domain |-> {}]
        /\ said = <<>>

\* validate_screen, step 2: what the file holds and what it will cost.
Preview == /\ pc = "uploaded"
           /\ quote' = PreviewStats(file)
           /\ pc' = "previewed"
           /\ UNCHANGED <<file, settings, today, cache, resolving, chunk, verdicts, job,
                          table, output, heard, said>>

\* validate_start: the job is created and its run begins.
Start == /\ pc = "previewed"
         /\ job' = [job EXCEPT !.status = "pending"]
         /\ pc' = "created"
         /\ UNCHANGED <<file, settings, today, quote, cache, resolving, chunk, verdicts,
                        table, output, heard, said>>

Split ==
    LET unique == Cardinality(Firsts)
        domains == {file[i].domain : i \in {j \in Firsts : Parses(file[j])}}
    IN  /\ pc = "created"
        /\ job' = [job EXCEPT !.status = "processing", !.total = unique,
                              !.counts = [@ EXCEPT !.total_rows = Len(file),
                                                   !.unique_emails = unique,
                                                   !.duplicates = Len(file) - unique]]
        /\ resolving' = IF settings.dns THEN domains ELSE {}
        /\ pc' = "resolving"
        /\ UNCHANGED <<file, settings, today, quote, cache, chunk, verdicts, table, output,
                       heard, said>>

\* The end of a lookup that missed the cache: an hour of the answer, whatever it is.
Put(d, reply) ==
    /\ cache' = [cache EXCEPT ![d] = AnswerOf(reply)]
    /\ heard' = [heard EXCEPT ![d] = @ \cup Against(reply)]

\* Bound: the cache moves on its own only where a check is yet to look at it.
Watched(d) == /\ pc = "verifying" /\ settings.dns
              /\ \E k \in DOMAIN chunk : /\ chunk[k].at \in {"start", "hosts"}
                                         /\ Parses(k) /\ CellOf(k).domain = d
                                         /\ ~SettledCheaply(CellOf(k))

Expire(d) == /\ Watched(d) /\ cache[d] # None
             /\ cache' = [cache EXCEPT ![d] = None]
             /\ UNCHANGED <<file, settings, today, pc, quote, resolving, chunk, verdicts, job,
                            table, output, heard, said>>

\* Another request of the process ends a lookup of the domain.
OtherRequest(d) == /\ Watched(d)
                   /\ \E reply \in Reply : Put(d, reply)
                   /\ UNCHANGED <<file, settings, today, pc, quote, resolving, chunk, verdicts,
                                  job, table, output, said>>

\* The resolve pass: one lookup a domain, side by side.
Resolve(d) == /\ pc = "resolving" /\ d \in resolving
              /\ \/ cache[d] # None /\ UNCHANGED <<cache, heard>>
                 \/ cache[d] = None /\ \E reply \in Reply : Put(d, reply)
              /\ resolving' = resolving \ {d}
              /\ UNCHANGED <<file, settings, today, pc, quote, chunk, verdicts, job, table,
                             output, said>>

\* Mutant: the checks of the whole file start together.
NextChunkWhole ==
    [k \in Keys(file) \ DOMAIN verdicts |-> [at |-> "start", v |-> None]]
\* The checks of a chunk start together: the first addresses not verified yet.
NextChunk ==
    LET todo == {i \in Firsts : Key(file[i]) \notin DOMAIN verdicts}
        next == {i \in todo : Cardinality({j \in todo : j < i}) < ChunkSize}
    IN  [k \in {Key(file[i]) : i \in next} |-> [at |-> "start", v |-> None]]

BeginVerify == /\ pc = "resolving" /\ resolving = {}
               /\ pc' = "verifying"
               /\ chunk' = NextChunk
               /\ UNCHANGED <<file, settings, today, quote, cache, resolving, verdicts, job,
                              table, output, heard, said>>

Await(k, at, v) == /\ chunk' = [chunk EXCEPT ![k] = [at |-> at, v |-> v]]
                   /\ UNCHANGED <<verdicts, job>>

\* _verify_one: the verdict of a key is kept and counted.
Verified(k, v) == /\ chunk' = [chunk EXCEPT ![k] = [at |-> "verified", v |-> None]]
                  /\ verdicts' = With(verdicts, k, v)
                  /\ job' = [job EXCEPT !.processed = @ + 1, !.counts[v.status] = @ + 1]

\* Mutant: the probe goes ahead although the domain was not found to take mail.
ConcludedUnguarded(k, v) ==
    IF ~settings.smtp \/ v.status \in {"invalid", "disposable"} THEN Verified(k, v)
    ELSE Await(k, "probing", v)
\* _verify_email once validate has returned: whether there is anything to probe.
Concluded(k, v) ==
    IF \/ ~settings.smtp \/ v.status \in {"invalid", "disposable"}
       \/ settings.dns /\ ~v.mx
    THEN Verified(k, v)
    ELSE Await(k, IF settings.dns THEN "hosts" ELSE "probing", v)

\* The cheap layers, and the lookup when the cache answers it.
Check(k) ==
    LET c == CellOf(k)
    IN  /\ chunk[k].at = "start"
        /\ \/ SettledCheaply(c) /\ Verified(k, Cheap(c))
           \/ ~SettledCheaply(c) /\ ~settings.dns /\ Concluded(k, Validate(c, "skipped"))
           \/ /\ ~SettledCheaply(c) /\ settings.dns /\ cache[c.domain] # None
              /\ Concluded(k, Validate(c, cache[c.domain]))
           \/ /\ ~SettledCheaply(c) /\ settings.dns /\ cache[c.domain] = None
              /\ Await(k, "asking", None)
        /\ UNCHANGED <<cache, heard, said>>

\* The cache had nothing, or nothing any more: the thread asked for itself.
Answered(k) ==
    LET c == CellOf(k)
    IN  /\ chunk[k].at = "asking"
        /\ \E reply \in Reply : /\ Put(c.domain, reply)
                                /\ Concluded(k, Validate(c, AnswerOf(reply)))
        /\ UNCHANGED said

\* Without a host, the prober answers at once that there is none.
HostsAre(k, answer) ==
    IF answer = "found" THEN Await(k, "probing", chunk[k].v) /\ UNCHANGED said
    ELSE /\ Verified(k, [chunk[k].v EXCEPT !.smtp = "no_mx_hosts"])
         /\ said' = With(said, k, "no_mx_hosts")

\* The second lookup of one check, for the hosts to probe.
Hosts(k) == /\ chunk[k].at = "hosts"
            /\ \/ cache[CellOf(k).domain] # None /\ HostsAre(k, cache[CellOf(k).domain])
               \/ cache[CellOf(k).domain] = None /\ Await(k, "askingHosts", chunk[k].v)
                                                 /\ UNCHANGED said
            /\ UNCHANGED <<cache, heard>>

HostsAnswered(k) ==
    /\ chunk[k].at = "askingHosts"
    /\ \E reply \in Reply : Put(CellOf(k).domain, reply) /\ HostsAre(k, AnswerOf(reply))

\* Mutant: a mailbox that deferred the probe is taken to be gone.
FoldedDeferralAsRefusal(v, answer) ==
    LET w == [v EXCEPT !.smtp = answer]
    IN  IF answer \in Conclusive THEN ApplyProbeOutcome(w, answer)
        ELSE IF answer = "greylisted" THEN ApplyProbeOutcome(w, "invalid") ELSE w
\* A deferral only names its reason; other answers that settle nothing change nothing.
Folded(v, answer) ==
    LET w == [v EXCEPT !.smtp = answer]
    IN  IF answer \in Conclusive THEN ApplyProbeOutcome(w, answer)
        ELSE IF answer = "greylisted" THEN [w EXCEPT !.sub = "greylisted"] ELSE w

Probed(k) == /\ chunk[k].at = "probing"
             /\ \E answer \in ProbeAnswer \ {"no_mx_hosts"} :
                    /\ Verified(k, Folded(chunk[k].v, answer))
                    /\ said' = With(said, k, answer)
             /\ UNCHANGED <<cache, heard>>

Verify(k) == /\ pc = "verifying" /\ k \in DOMAIN chunk
             /\ Check(k) \/ Answered(k) \/ Hosts(k) \/ HostsAnswered(k) \/ Probed(k)
             /\ UNCHANGED <<file, settings, today, pc, quote, resolving, table, output>>

\* _record_addresses: a cell with nothing in it leaves no row.
RowsOf(keys) == {FromVerdict(verdicts[k], "this", job.listType, Ordinal(today)) :
                    k \in keys \ {Blank}}

\* The chunk is over: its rows land, and the next one starts.
Record == /\ pc = "verifying"
          /\ \A k \in DOMAIN chunk : chunk[k].at = "verified"
          /\ table' = Upsert(table, RowsOf(DOMAIN chunk))
          /\ chunk' = NextChunk
          /\ pc' = IF job.processed < job.total THEN "verifying" ELSE "assembling"
          /\ UNCHANGED <<file, settings, today, quote, cache, resolving, verdicts, job,
                         output, heard, said>>

\* Mutant: a duplicate goes where its first row went.
RemovedByVerdict(i) == verdicts[Key(file[i])].status \in {"invalid", "disposable"}
\* _assemble: every row is cleaned, and is either valid or removed.
Removed(i) == ~First(file, i) \/ verdicts[Key(file[i])].status \in {"invalid", "disposable"}

Assemble == /\ pc = "assembling"
            /\ output' = [cleaned |-> DOMAIN file,
                          valid |-> {i \in DOMAIN file : ~Removed(i)},
                          removed |-> {i \in DOMAIN file : Removed(i)}]
            /\ job' = [job EXCEPT !.status = "completed", !.outputs = DOMAIN output]
            /\ pc' = "done"
            /\ UNCHANGED <<file, settings, today, quote, cache, resolving, chunk, verdicts,
                           table, heard, said>>

Next == \/ Preview \/ Start \/ Split \/ BeginVerify \/ Record \/ Assemble
        \/ \E d \in Domain : Resolve(d) \/ Expire(d) \/ OtherRequest(d)
        \/ \E k \in DOMAIN chunk : Verify(k)

Spec == Init /\ [][Next]_vars

-----------------------------------------------------------------------------
Segment == {"cleaned", "valid", "removed"}

\* Every variable has its type; in a run, the checks are those of one chunk.
TypeOK ==
    /\ \E c \in Cases : file = c.file /\ settings = c.settings /\ today = c.today
    /\ pc \in {"uploaded", "previewed", "created", "resolving", "verifying",
               "assembling", "done"}
    /\ quote \in [total: 0..Len(file), unique: 0..Len(file), blank: 0..Len(file)] \cup {None}
    /\ cache \in [Domain -> MxAnswer \cup {None}]
    /\ resolving \subseteq Domain
    /\ DOMAIN chunk \subseteq Keys(file) /\ Cardinality(DOMAIN chunk) <= ChunkSize
    /\ \A k \in DOMAIN chunk :
          /\ chunk[k].at \in {"start", "asking", "hosts", "askingHosts", "probing", "verified"}
          /\ chunk[k].v \in IF chunk[k].at \in {"hosts", "askingHosts", "probing"} THEN Verdict
                            ELSE {None}
    /\ DOMAIN verdicts \subseteq Keys(file)
    /\ \A k \in DOMAIN verdicts : verdicts[k] \in Verdict
    /\ job.status \in {"none", "pending", "processing", "completed"}
    /\ job.outputs \subseteq Segment
    /\ \A segment \in Segment : output[segment] \subseteq DOMAIN file
    /\ \A e \in DOMAIN table : table[e] \in AddressRecord /\ table[e].cell = e /\ e # Blank

(***************************************************************************)
(* Safety: the books balance.  While the file is verified, the progress,   *)
(* the tally and the cards of the screen count the verdicts there are, and *)
(* the sidebar counts the job until the screen says it is over.  Once it   *)
(* is done, every row is in exactly one of the valid and removed files,    *)
(* one row of a key at most is sent to; the screen announces as many rows  *)
(* as the cleaned and the removed file have, and the valid file has a row  *)
(* for every card but the undeliverable one; and what the preview counted, *)
(* with a pass of its own, is the rows there were and the addresses the    *)
(* read-model gained.  Two things the screens say are not among these, for *)
(* they do not hold: see QuoteIsCharge and DeliverableOnly.                *)
(***************************************************************************)
BooksBalance ==
    LET counts == job.counts
        tally == MapThenSumSet(LAMBDA s : counts[s], Status)
        screen == ValidateScreen(job)
        opened == HistoryRow(job).mix
    IN  /\ tally = Cardinality(DOMAIN verdicts) /\ job.processed = tally
        /\ \A s \in Status :
              counts[s] = Cardinality({k \in DOMAIN verdicts : verdicts[k].status = s})
        /\ \A v \in PrimaryVerdict :
              screen.cards[v].count
                 = Cardinality({k \in DOMAIN verdicts : Primary(verdicts[k].status) = v})
        /\ job.status # "none" =>
              (Shell(settings, {job}).active = 1) = (screen.screen = "running")
        /\ pc = "done" =>
              /\ output.valid \cup output.removed = output.cleaned
              /\ output.valid \cap output.removed = {}
              /\ \A i, j \in output.valid : Key(file[i]) = Key(file[j]) => i = j
              /\ job.total = job.processed /\ counts.unique_emails = job.processed
              /\ MapThenSumSet(LAMBDA v : opened[v].count, DOMAIN opened) = counts.unique_emails
              /\ screen.downloads["cleaned"] = Cardinality(output.cleaned)
              /\ screen.downloads["removed"] = Cardinality(output.removed)
              /\ Cardinality(output.valid) + screen.cards["undeliverable"].count
                    = counts.unique_emails
              /\ quote.total = counts.total_rows
              /\ quote.unique = Cardinality({e \in DOMAIN table : table[e].job = "this"})

(***************************************************************************)
(* What the wizard says before the run, "you'll be charged for N", of what *)
(* the run counts as the charge, job.total.  The preview leaves the blank  *)
(* cells out and the run verifies one of them, so that a file with a blank *)
(* cell is charged for N + 1: this does not hold (FileRun_quoted.cfg).     *)
(***************************************************************************)
QuoteIsCharge == pc = "done" => quote.unique = job.total

(***************************************************************************)
(* What the finished screen says of the valid file, "Deliverable only" and *)
(* a number of rows.  The file holds the risky and the unknown rows too:   *)
(* this does not hold (FileRun_deliverable.cfg).                           *)
(***************************************************************************)
DeliverableOnly ==
    pc = "done" => Cardinality(output.valid) = ValidateScreen(job).downloads["valid"]

(***************************************************************************)
(* Safety: a verdict rests on what was heard.  Undeliverable takes a cell  *)
(* that does not parse, a throwaway domain, a reply that the domain takes  *)
(* no mail, or a refusal of this mailbox; deliverable takes the receiver's *)
(* word for this mailbox, and that it is a person's, so that none is while *)
(* the banner says the probe is off; and what the receiver said is what    *)
(* the verdict names, whatever lookups expired or disagreed.               *)
(***************************************************************************)
RestsOnEvidence ==
    \A k \in DOMAIN verdicts :
        LET v == verdicts[k]
            word == IF k \in DOMAIN said THEN said[k] ELSE None
        IN  /\ Primary(v.status) = "undeliverable" =>
                  \/ ~Parses(v.cell) \/ v.domain \in Disposable
                  \/ v.sub = "no_mx" /\ word = None /\ heard[v.domain] # {}
                  \/ v.sub = "mailbox_not_found" /\ word = "invalid"
            /\ (v.status = "valid") = (word = "valid" /\ ~v.class.role)
            /\ Shell(settings, {job}).banner = "SMTP mailbox probe is off" => word = None
            /\ (v.sub = "mailbox_not_found") = (word = "invalid")
            /\ (v.sub = "catch_all") = (word = "catch_all")
            /\ (v.sub = "greylisted") = (word = "greylisted")
            /\ word # None => v.mx \/ ~settings.dns

(***************************************************************************)
(* What the screen that explains the verdicts promises: no address is      *)
(* called undeliverable for a lookup that timed out.                       *)
(***************************************************************************)
TimeoutNeverUndeliverable ==
    \A k \in DOMAIN verdicts :
        verdicts[k].sub = "no_mx" => "refused" \in heard[verdicts[k].domain]

\* Layers that had a finding; the engine runs layer 5 before layer 4.
Ran(v) == {1} \cup (IF Parses(v.cell) THEN {2, 3, 5} ELSE {})
              \cup (IF v.dns \notin {None, "skipped"} THEN {4} ELSE {})
              \cup (IF v.smtp # None THEN {6, 7} ELSE {})

(***************************************************************************)
(* Safety: the trace is honest.  Only a layer that ran is shown with a     *)
(* finding; the layer a verdict is attributed to is shown with one, unless *)
(* the mailbox was left unprobed, and none after it is; a bounce is        *)
(* announced beside a failed layer, and a confirmation beside a passed     *)
(* probe; and a row of the read-model is shown as its verdict was.         *)
(***************************************************************************)
TraceIsHonest ==
    \A k \in DOMAIN verdicts :
        LET v == verdicts[k]
            trace == BuildTrace(v)
            settled == SettledLayer(v.sub, v.smtp # None)
            subtitle == Subtitle(v.status, v.sub)
        IN  /\ \A n \in Layer : trace[n] # "Skipped" => n \in Ran(v)
            /\ trace[settled] = "Skipped" => settled = 6 /\ v.sub = "ok" /\ v.smtp = None
            /\ \A n \in Layer : n > settled => trace[n] = "Skipped"
            /\ subtitle \in {"will bounce", "throwaway"} => trace[settled] = "Fail"
            /\ subtitle = "confirmed" => trace[6] = "Pass"
            /\ pc = "done" /\ k # Blank =>
                  /\ AddressRow(table[v.cell]).trace = trace
                  /\ AddressRow(table[v.cell]).subtitle = subtitle
                  /\ table[v.cell].settledAt = settled

\* The totals, the headline, the days, the layers and the tabs count the rows once.
TotalsAgree(T) ==
    LET all == Cardinality(DOMAIN T)
        api == AnalyticsApi(T, TopLimit)
    IN  /\ SumOf(api.totals) = all /\ api.headline.total = all
        /\ MapThenSumSet(LAMBDA d : SumOf(api.byDay[d]), DOMAIN api.byDay) = all
        /\ \A n \in Layer :
              api.settledByLayer[n] = Cardinality({e \in DOMAIN T : T[e].settledAt = n})
        /\ \A v \in PrimaryVerdict :
              api.totals[v] = MapThenSumSet(LAMBDA l : Totals(T, l)[v], ListType)

\* So do the busiest domains, when there is room for them all.
DomainsAgree(T) ==
    LET busiest == AnalyticsApi(T, TopLimit).topDomains
    IN  /\ \A t \in busiest : SumOf(t.mix) = t.count
        /\ Cardinality(DOMAIN T) <= TopLimit =>
              MapThenSumSet(LAMBDA t : t.count, busiest)
                 = Cardinality({e \in DOMAIN T : T[e].domain # None})

\* A card of the exports announces what its preview counts and its download holds.
ExportsAgree(T, preset) ==
    LET n == PresetCounts(T)[preset]
    IN  /\ ExportPreview(T, preset, {}).count = n
        /\ Cardinality(ExportsDownload(T, preset, {}, FALSE, FALSE)) = n

(***************************************************************************)
(* A page has the rows its caption speaks of; it leads on to the one that  *)
(* takes up where it ends and is not empty, or else it reaches the end.    *)
(***************************************************************************)
PageMet(here, there) ==
    /\ here.rows = IF here.matched = 0 THEN 0 ELSE here.pager.to - here.pager.from + 1
    /\ IF here.pager.next THEN there.pager.from = here.pager.to + 1 /\ there.rows > 0
       ELSE here.pager.to = here.matched

\* The pages the links lead to, from the first one on.
Linked(screen(_), most) == {n \in 1..(most + 1) : n = 1 \/ screen(n - 1).pager.next}

\* The pages of the contacts under a chip have as many rows as its verdict.
ContactsMet(T, v, size) ==
    LET chosen == ChipToggled({}, v)
        screen(n) == Contacts(T, chosen, n, size)
    IN  \A n \in Linked(screen, Cardinality(DOMAIN T)) :
            /\ PageMet(screen(n), screen(n + 1))
            /\ screen(n).matched = Totals(T, AllLists)[v]
            /\ ListAddresses(T, chosen, n, size).rows = screen(n).rows

\* The pages of the dashboard under a tab have as many rows as its totals say.
TableMet(T, tab) ==
    LET screen(n) == DashboardTable(T, tab, n)
    IN  \A n \in Linked(screen, Cardinality(DOMAIN T)) :
            PageMet(screen(n), screen(n + 1)) /\ screen(n).matched = SumOf(Totals(T, tab))

\* The buckets of a chart join up, reach today and hold what fell there.
ChartsAgree(T, grain, date) ==
    LET charts == DashboardCharts(T, grain, date)
        this == charts.this
    IN  /\ \A i \in 1..(BUCKETS - 1) : this[i + 1].start = this[i].end + 1
        /\ charts.previous[BUCKETS].end + 1 = this[1].start
        /\ this[BUCKETS].start <= Ordinal(date) /\ Ordinal(date) <= this[BUCKETS].end
        /\ charts.volume = Cardinality({e \in DOMAIN T :
                 this[1].start <= T[e].day /\ T[e].day <= this[BUCKETS].end})
        /\ charts.donut[4].from + charts.donut[4].count = Cardinality(DOMAIN T)
        /\ SumOf(Analytics(T, grain, date).weekdays) = Cardinality(DOMAIN T)

(***************************************************************************)
(* Safety: the screens agree.  The totals, the headline, the days, the     *)
(* layers and the tabs all count the rows once; each card of the exports   *)
(* announces the rows its preview counts and its download holds; the pages *)
(* the links lead to have the rows their captions speak of, each takes up  *)
(* where the one before ends, none is empty and the last reaches the end   *)
(* of as many rows as the totals say (which rows a page has is not settled *)
(* from one query to the next: see Query); the buckets of a chart join up  *)
(* with each other and with the window before, and hold what fell there;   *)
(* the API's pages are as long as the screen's; and whoever has a row can  *)
(* be looked up.                                                           *)
(***************************************************************************)
ScreensAgree ==
    pc = "done" =>
        /\ TotalsAgree(table) /\ DomainsAgree(table)
        /\ \A preset \in PRESETS : ExportsAgree(table, preset)
        /\ \A v \in PrimaryVerdict, size \in Sizes : ContactsMet(table, v, size)
        /\ \A tab \in ListType \cup {AllLists} : TableMet(table, tab)
        /\ \A grain \in GRAINS : ChartsAgree(table, grain, today)
        /\ \A e \in DOMAIN table : Parses(e) => Get(table, e) # None
=============================================================================
