# A TLA+ model of eve, the e-mail verification engine

eve takes an address, or a CSV of them, and says whether mail to it would
arrive: syntax, MX lookup, and a conversation with the receiving server that
stops before DATA.  This directory holds TLA+ modules for the parts of it that
keep state while several tasks, processes or servers act on it, the TLC
configurations that check them, and TLAPS proofs of what matters most about
them.  Paths below are relative to `src/eve/` unless they start otherwise.

## 1. Inventory

| Component | State it keeps | Operations | Talks to |
|---|---|---|---|
| Deferred re-probes (`reprobe.py`, `smtp_infra/greylist.py`) | table `reprobes`: one pending retry per (workspace, address), with attempt and `next_attempt_at` | `schedule`, `schedule_many`, `claim_due`, `drop`, `delete_by_job`; `run_due_reprobes`, `_reprobe_one`, `_update_address`; one runner per process | job run (fills it), address read-model (updates it), engine |
| Mailbox probe (`smtp_infra/service.py`, `prober.py`, `providers.py`, `layers/smtp.py`) | `_catch_all` and `_domain_locks` per domain | `probe`, `_is_catch_all`, `_rcpt`, `_map`, `_ip_event` | IP pool, rate limiter, receiving servers |
| Egress IPs (`smtp_infra/ip_pool.py`, `blacklist.py`) | per IP: reputation, cooldown, daily count, warm-up stage; rotation index; current day | `acquire`, `report`, `_roll_day`, `promote_warmup`; `scan_once` of the DNSBL monitor | mailbox probe |
| Bulk job run (`jobs/pipeline.py`, `queue.py`, `worker.py`, `api/jobs.py`) | the job's row, the task in the queue, the `Job` object of the run, output objects | `create_job`, `delete_job`, `enqueue_job`, `run_job_now`, `run_job`, `_assemble` | store, storage, probe, read-model, re-probes, webhooks |
| Job store (`jobs/store.py`) | `jobs` table or dictionary, numbering per workspace | `create`, `get`, `save`, `delete`, queries | job run, API |
| Webhooks (`webhooks.py`) | nothing but the task | `dispatch_job_webhook`, `deliver` | queue, the user's server |
| Address read-model (`addresses.py`) | table `addresses` | `upsert_many`, `get`, `delete_by_job`, queries | job run, re-probes, web |
| Token buckets (`kv.py`, `smtp_infra/rate_limiter.py`, `ratelimit.py`) | a bucket per key, in memory or in Redis | `incr_float_window`, the limiter's wait loop, the API's check | mailbox probe, API |
| MX resolution (`layers/dns_mx.py`) | TTL cache shared by worker threads | `resolve_mx` | job run, engine, the resolver |
| Engine and verdict (`engine.py`, `verdict.py`, `trace.py`) | none | the layer pipeline, score, fold of a probe's answer, trace | every layer |
| Cheap layers (`layers/syntax.py`, `normalize.py`, `classify.py`, `typo.py`) | none | parse, fold to a mailbox, classify, suggest | engine, the run's deduplication |
| CSV passes (`jobs/csv_io.py`) | none | preview, split, assembly | job run, web |
| Accounts (`auth.py`, `tenancy.py`, `api/security.py`) | users, sessions, keys; the request's workspace | sign-up, first-account adoption, login, expiry, revocation | every handler |
| Web and API screens (`web/`, `api/workspace.py`) | none | dashboard, contacts, analytics, exports, history, the validate wizard, and the lists behind them | read-model, job store |
| API shell, configuration, observability, migrations | none of their own | routing, values, logs, scripts | – |

**How they interact.**  A request creates a job row and queues a task.  The
task (an arq worker, or a task of the API process) reads the file, verifies its
unique addresses in chunks whose probes run together, saves its progress after
each chunk, lands the verdicts in the address read-model and queues a re-probe
for each greylisted one; it then writes three output objects, completes the row
and schedules a callback.  Each probe goes through the rate limiter, a per-domain
catch-all check and the IP pool.  Every API and worker process also runs a
re-probe runner on the same table, while users delete jobs and their addresses.

**What is hard here.**  Several processes sweep one table under a lease that is
taken in two statements; a lease may run out in the middle of a probe; a row is
read in one transaction and written in the next; tasks of one process share a
catch-all cache and an IP pool across awaits; a worker dies and arq delivers its
task again with the old progress in the row; a gathered chunk fails in one probe
while others go on; a job is deleted under its run; the UTC day turns between two
acquires; an MX answer expires or is replaced between two lookups of one check;
a request, the run it started and a retry of that run act for one workspace at
three different times; a shared clock is set back under a token bucket; and the
same rows are counted, folded and grouped again by a dozen screens, which have to
agree.  `PROJECT.json` lists each such place at its line under `hazards`.

**What makes each component correct.**

- Re-probes: a lease keeps other processes off the rows it covers; a deferred
  address is never forgotten; every retry leaves the table, also where a late
  process winds its count back; with one process the count only moves on.
- Probe: one fake recipient per domain; `valid` and `invalid` rest on what the
  mailbox's own conversation ended in; no task waits for ever on a domain's lock.
- IP pool: the warm-up cap holds over any turn of the day; the rotation starves
  no IP; the default route is the last resort.
- Job run: a completed job is whole; an output a row names exists; the job ends
  and its callback agrees with its row; the row of a deleted job stays deleted.
- Webhook: an outage shorter than the backoffs is outlasted; the time a run sleeps
  in its worker's slot is bounded.
- Token buckets: no window grants more than capacity plus refill; a wait is long
  enough; a probe loses its turn only to others.
- MX resolution and engine: a verdict rests on what was heard, whatever expires in
  between; only a mailbox's own word makes it deliverable.  Trace: it shows what ran.
- CSV passes: progress, tallies, cards and the rows of the three files balance, and
  the preview foretells the rows and the addresses the read-model gains.
- Read-model and screens: every rollup counts each row once, an export announces
  what it downloads, and the pages the links lead to take up where the one before
  ends and have the rows their captions speak of.
- Accounts and tenancy: nothing crosses a workspace; a credential acts for whom it
  was issued to; a job deleted with its addresses is named again only by what was
  under way as it went.

## 2. The modules

| Module | Models | State and how it corresponds |
|---|---|---|
| `RetrySchedule` | what the re-probe table promises | the retries made for each open address |
| `Reprobe` | `reprobe.py` and its users | `reprobes`, `addresses`: the two tables. `pc`, `claimed`, `cur`, `answer`, `known`: the locals of one runner. `jobState`, `pending`: the part of `run_job` that records a chunk and queues its deferrals. `deleted`: `delete_job`. `contested` (history): rows that no lease protects |
| `IpPool` | `ip_pool.py`, `blacklist.py` | `count`, `cool`, `rep`, `warm`: the fields of `IpState`. `turn`: `_i` modulo the pool's size. `newDay`: whether `_today` is behind the clock. `held`: the IP between `acquire` and `report` |
| `SmtpProbe` | `service.py`, `prober.py`; composes `IpPool` | `catchAll`, `lock`: `_catch_all` and the domain locks. `pc`: which await a task is at. `refused` (history): whose own conversation ended in a rejection that does not speak for the mailbox. Every conversation is an `Acquire` and a `Report` of the pool |
| `JobLifecycle` | what a job promises its caller | its status, the callbacks |
| `JobRun` | `api/jobs.py`, `queue.py`, `pipeline.py`, the SQL row of `store.py` | `row`: the row. `job`: the run's `Job` object. `pc`: the phase and await of `run_job`. `flying`: the coroutines `gather` waits on. `recorded`, `objects`: the job's rows in the read-model and its output objects. `deletion`: how far `delete_job` got. `task`, `tries`: arq's. `happened`, `taken` (history): the faults met, and what the deletion removed |
| `Webhook` | `deliver` and its task | `attempt`, `state`: the loop. `now`, `began`: seconds, and when this run of it began. `slept` (history): its backoffs so far |
| `Accounts` | `auth.py`, `tenancy.py`, `api/security.py`, the web's account forms | `users`, `sessions`, `keys`: the tables. `req`: the request being handled, the step it is at, and the workspace its context variable is bound to |
| `Workspaces` | what the accounts own: `api/jobs.py`, `jobs/store.py`, `addresses.py`, the run and the retries; extends `Accounts` | `jobs`, `rows`, `due`: the three tables, per workspace. `task`: a job's run. `flight`: a claimed retry. `jobs[j].stray` (history): the addresses something under way may still name a deleted job by |
| `TokenBucket` | `kv.py`, `rate_limiter.py`, `ratelimit.py` | `bucket`: tokens and the time they were counted. `pc`, `sleep`, `tries`: a caller in its wait loop. `now` against `elapsed`: the store's clock against time |
| `Engine` | `engine.py`, `verdict.py`, the cheap layers, `api/main.py`'s check | no state: `Validate`, `ApplyProbeOutcome` and the operators they are made of |
| `Typo` | `layers/typo.py` | no state: the bounded edit distance, row by row, and the scan |
| `Trace` | `trace.py` | no state: which layer a row is attributed to, and what is shown of each |
| `AddressTable` | `addresses.py`, `api/workspace.py` | the table as a function from address to row; every query as an operator on it |
| `Series` | `web/series.py` | no state: the calendar, the buckets of a chart, the rates |
| `Screens` | `web/views.py`, `web/format.py`, the downloads of `web/__init__.py` | no state: what each screen shows and links to, as operators on the table and the job |
| `FileRun` | a file through `validate_start`, `run_job`, `dns_mx.py` and `csv_io.py`; composes `Engine`, `Trace`, `AddressTable`, `Series` and `Screens` | `cache`: `_TTLCache`. `chunk`: the checks under way and which lookup or probe each is at. `verdicts`, `job`, `table`, `output`: what a run makes |
| `IpPoolProofs`, `SmtpProbeProofs`, `ReprobeProofs`, `JobRunProofs`, `WebhookProofs`, `WorkspacesProofs`, `TokenBucketProofs`, `FileRunProofs` | – | theorems about the module each is named for |
| `MCIpPool`, `MCSmtpProbe`, `MCReprobe`, `MCJobRun`, `MCWebhook`, `MCWorkspaces`, `MCTokenBucket`, `MCFileRun` | – | the instances TLC runs; `MCFileRun` also compares the pure algorithms with references |

Conventions.  A step is what the code does without an await, or inside one
transaction; where a transaction reads without locking (`claim_due`) it is split.
Variables marked *history* exist for a property and steer nothing.  Time is kept
as time left (`Reprobe`, `IpPool`) or moves with the steps that take it
(`Webhook`).  Operators marked *Mutant* are plausible bugs in the definition that
follows them: substituting one must break the property `PROJECT.json` pairs it
with, and no specification uses them.

What the models abstract, beyond wording and logs:

- Message texts are the classes `_map` and `_ip_event` tell apart (`Other` in
  `SmtpProbe`): their keyword searches are not modelled word by word.  A rejection
  of HELO, one of MAIL FROM and one in words of greylisting are classes of their
  own (`Refusal`).
- A task of `SmtpProbe` is never cancelled.  One cancelled while it asks for the
  fake recipient leaves its domain without a verdict, and the next asks again.
- `Reprobe` has one workspace: every statement it models carries the workspace
  in its key.  That rows of two workspaces never meet is `Workspaces`' business.  A
  job of it verifies one chunk; a chunk whose rows could not be written, which the
  code only logs, is in it, and its retries are queued all the same.
- `Reprobe` lets a poller take any of the due rows, where the code takes the
  oldest first: every order is included.
- The rate limiter only delays a probe, apart from raising when its store does.
- `JobRun` has the SQL store.  Its `Job` object carries `status`, `processed`,
  `total` and the outputs; the tally of verdicts moves with `processed`.  Of the
  unique addresses `Blank` is the blank cell, which is verified and counted and
  never recorded.
- A probe in `JobRun` is a coroutine that returns or raises; what it does in
  between is `SmtpProbe`, and what a greylisted verdict leads to is `Reprobe`.
- arq is external: it runs a task again when its worker died, up to `max_tries`,
  does not run a cancelled or failed one again, and forgets one that returned.
- An address of `Engine` is its local part, whether it has dots and a tag, and its
  domain.  Which strings parse is the `email-validator` library's decision, so a
  cell that does not is a value of its own; `Malformed` has two that differ in case.
  Two malformed cells that fold to one key (`@gmail.com`, `+x@gmail.com`) are left out.
- `Engine` takes the typo suggestion from a table; `MCFileRun` assumes, and TLC
  evaluates, that the table is what the search of `Typo` finds.
- `FileRun` has the run that goes well, on its own: how a run fails, dies or is
  delivered again is `JobRun`, what it defers is `Reprobe`, whose rows they are is
  `Workspaces`.  Other requests of the process appear as what they do to the cache.
- `TokenBucket` is exact where the code computes in floating point, and a tick is a
  second; a token is `Unit` units, so that a rate may be a fraction.
- `Webhook` lets one POST last any of `Lasts`: the timeout `deliver` gives httpx is
  for each phase of a request (connect, write, each read, pool), so that no multiple
  of it bounds a POST to a receiver that trickles.  arq's `job_timeout` does.
- A page of a list is how many rows it shows.  Which rows they are the code leaves
  open where rows tie: it orders by one column that is not unique
  (`addresses.py:341`), so a tied row may move between two queries.
- Passwords, digests, headers and e-mail confirmation are not in `Accounts`; a
  credential is a token or a key, and presenting it is the whole of the check.

## 3. The runs

Nine runs pass and three exhibit a disagreement between the code and what its own
documentation says of it.

| Run | Instance | Properties |
|---|---|---|
| `reprobe_overlap` | one address, two pollers, two attempts, a lease as short as the first delay; two jobs, or one job and two faults anywhere | `LeaseExcludes`, `NoOrphanedDeferral`, `EveryRetrySettles`, `EveryDeferralSettles` |
| `reprobe_schedule` | two addresses, a job that may be deleted, one poller, batch of one, one fault | `TypeOK`, `ImplementsSchedule` |
| `ip_pool` | two probes, three IPs, cap 1, cooldown 1, four probes | `TypeOK`, `WarmupCapHeld`, `NoIpPassedOver`, `DefaultRouteOnlyWhenExhausted` |
| `probe_tasks` | four tasks on an ordinary, a catch-all and a gateway domain, one IP, receivers whose replies between them cover every way `_map` reads one, a limiter that may raise | `TypeOK`, `OneFakePerDomain`, `ValidMeansExists`, `InvalidMeansRejected`, `EveryProbeReturns` |
| `job` | three unique addresses, one of them the blank cell, in chunks of two; two tries; a deletion; every kind of fault, at any step and any number of times | `TypeOK`, `OutputsAreThere`, `CompletedIsWhole`, `ToldWhatIsRecorded`, `ImplementsLifecycle` |
| `webhook` | five attempts, POSTs of 0, 10 and 40 seconds and of arq's `job_timeout`, outages at and around the edges of the backoff, two deaths | `TypeOK`, `BriefOutageSurvived`, `BackoffSpent` |
| `workspaces` | two accounts, two tokens, a key, two jobs over one address, two requests at a time and four in all | `TypeOK`, `Apart`, `OwnWorkspace`, `SweptStaysSwept`, `NumbersCountUp`, `ActsAsPresented`, `OnlyTheirOwn` |
| `rate_limits` | two probes on one exchanger's bucket and a caller on its own, five seconds, the shared clock set back once | `TypeOK`, `WithinRate`, `LosesOnlyToOthers`, `RetryAfterIsEnough` |
| `file_run` | five domains, the eight cases of `MCCases` (a file, earlier rows, a date, the two switches), chunks of two | `TypeOK`, `BooksBalance`, `RestsOnEvidence`, `TraceIsHonest`, `ScreensAgree` |
| `reprobe_worsen` | one address, two jobs, one poller, one attempt | `NeverWorsen`, violated |
| `webhook_ten_minutes` | as `webhook` | `TenMinutesSurvived`, violated |
| `file_timed_out` | as `file_run` | `TimeoutNeverUndeliverable`, violated |

Seven further configurations can be run by hand; TLC finds each property violated:
`Reprobe_double_probe.cfg` (`NoDoubleProbe`), `SmtpProbe_promoted.cfg`
(`CatchAllNeverValid`), `JobRun_redelivered.cfg` (`ProcessedWithinTotal`),
`JobRun_part_way.cfg` (`ProvedIsLeftBehind`), `Workspaces_dropped.cfg`
(`AddressesDropped`), `FileRun_quoted.cfg` (`QuoteIsCharge`) and
`FileRun_deliverable.cfg` (`DeliverableOnly`).

The pure algorithms are checked by assumptions of `MCFileRun`, which TLC evaluates
at the start of `file_run`: `NearestIsNearest` compares the typo search, with its
bounded distance and early exits, with one that tries every edit, on all words of
up to four characters; `SuggestionsAreFound` ties the table `Engine` uses to that
search; `ShareClaimsNoAbsolute` holds `format.share` to claim 0% or 100% only of
nothing or everything, up to 220 rows; `MonthsAddUp` and `Thursday` hold the
calendar of `Series` to the Gregorian rule until 2101 and to a day whose name is
known.  The shares and the months are proved as well, for every number and year.

**Why these bounds are enough.**  Rows of `reprobes` interact only through the
batch a poller holds, so one address shows every race of two pollers and two jobs
over a row, and two addresses show a batch with one row left over.  Two attempts
give a first, a repeated and an exhausted retry; a lease of one unit runs out
during a sweep, and a second delay longer than the first tells the attempts
apart.  Three IPs are the least for which a scan can wrap, skip an unhealthy IP
and still have a choice; two holders are the least for a report to land after
another's acquire and a roll of the day.  Two tasks on one domain are the least
for the re-check under the lock; the third and fourth are on domains of the other
two kinds.  Three addresses in chunks of two have a full chunk and a short one,
and two probes in flight when one of them raises.  Faults of a job are not counted: each
kind in `Faults` may happen at every step it can, and two tries are the least for a
redelivery that finds what its predecessor left.  In `reprobe_overlap` two pollers
meet either two jobs or two faults (`OverlapInit`), which are enough for a crash in
the middle of a sweep and a raise in the one after it.  The webhook has the code's
own default of five attempts.  `JobRun` and `Webhook` run with arq
(`Durable = TRUE`), whose redeliveries make the harder behaviours; a task of the
API process is lost with it, and the theorems of `JobRunProofs` cover both.

In `workspaces`, two requests at a time are the least for any race of two
handlers, and four in all let each account sign up, make a job and look at or
delete one while runs and retries go on behind them; one address is enough for
two workspaces, or two jobs of one, to meet on a row.  In `rate_limits` a token
takes a refill that does not divide it, so that a bucket holds a fraction; the
first wait is longer than the limiter's longest sleep, the sleep cap is reached,
and the five seconds see a burst, waits, an idle drop and the clock's correction.
The files of `file_run` hold between them a blank, a malformed cell in both cases
of its letters, a dotted and a tagged spelling of one mailbox on two names of one
provider, a mistyped and a throwaway domain, a role, a repeated row, no row at
all, and a read-model with and without rows of earlier jobs (a confirmed, a
deferred, a disposable and a malformed one of several ages); with both switches on
or either off; on a 31st of January and on a leap day.

Bounds that are not in the code: `MaxFaults` (`Reprobe`), `MaxProbes`
(`IpPool`), `MaxDeaths` and `Lasts` (`Webhook`), `MaxRequests` (`Workspaces`), `MaxTime` and
`MaxBack` (`TokenBucket`, where a single caller uses the API's bucket; `RetryAfterHolds` has
any number of them), `Cases` and `Watched` (`FileRun`: an entry of the cache
expires, or is filled by another request, only where a check is yet to look at
it; at other times nobody could tell).  `PAGE`, `Sizes` and `TopLimit` are the
code's page sizes and the length of its list of domains, made small enough that a
second and a last, short page exist; the list of domains is never longer here.  All runs set `CHECK_DEADLOCK FALSE`: each
system stops legitimately once its jobs, probes, requests or callback are done and
the bounds are reached.

**Fairness.**  `Reprobe`: weak fairness of each poller (`_run_forever` sweeps for
the life of its process and swallows what a sweep raises), of each job's step and
of time; never of a fault or a deletion.  `SmtpProbe`: weak fairness of each
task, because a conversation is bounded by `smtp_timeout` and the event loop
serves every task; what competes for a domain lock here is a finite set of tasks,
so no strong fairness is needed.  `JobRun`: weak fairness of the run and of
`enqueue_job` following `create`, which a death of the API process in between
disables; of no fault, request or deletion.  The other specifications state safety only: no doc or code promises that a
request is made or a run started, and `run_job`'s progress is `JobRun`'s.

### What the violated properties show

Each is a short trace of the model that the code can follow, against a sentence
of the repository.

- `reprobe_worsen`: "the retries can only improve on that, never worsen it", but
  `_update_address` writes an inconclusive retry over a definite verdict another
  job recorded since.
- `file_timed_out`: "We will never call a greylisted or timed-out address
  undeliverable" (`web/views.py:1184`), but when a domain has no MX the lookups of A
  and AAAA that time out are passed over (`layers/dns_mx.py:94`), and the domain is
  taken for one without mail, for the hour the answer is cached.
- `webhook_ten_minutes`: "a receiver that is down for ten minutes still gets the
  callback" (`webhooks.py:11`), but five attempts with backoffs of 1, 2, 4 and 8
  seconds are over in fifteen when each is refused at once, and `deliver` then
  returns, so that arq does not run it again.
- `Reprobe_double_probe.cfg`: `claim_due` says it is "leasing them against other
  pollers", but its SELECT takes no lock and its UPDATEs repeat no condition: two
  runners that select before either commits both re-probe the row.
  `NoOrphanedDeferral` and `EveryRetrySettles` still hold under that overlap
  (`reprobe_overlap`).
- `SmtpProbe_promoted.cfg`: "We will never quietly promote a catch-all domain to
  deliverable" (`web/views.py:1175`), but a fake recipient that was only deferred is
  cached as *not catch-all*, and the 250s of that domain then read as valid.
- `JobRun_redelivered.cfg`: "`processed`/`total` count unique addresses"
  (`jobs/models.py:101`), but a redelivered run adds to the progress its predecessor
  saved.
- `JobRun_part_way.cfg`: "a job that fails part-way still leaves behind everything
  it did prove", but a probe that raises discards the verdicts of its chunk.
- `Workspaces_dropped.cfg`: "Pass `keep_addresses=false` to drop those too"
  (`api/jobs.py:87`), but a run of the job that goes on, or a retry that was under way,
  writes rows that name it after the sweep.  `SweptStaysSwept` says that nothing else
  does.
- `FileRun_quoted.cfg`: "you'll be charged for N" (`web/views.py:1044`), N being what
  the preview counts, and the preview leaves blank cells out; the run verifies one of
  them and counts it in `total`, which is the charge (`jobs/pipeline.py:142`).
- `FileRun_deliverable.cfg`: "Deliverable only" (`web/views.py:998`) with the number of
  deliverable rows, but the valid file holds the risky and the unknown rows too
  (`jobs/pipeline.py:368`).

### Other places where code and words differ

Met while modelling, and kept out of the properties, which say what the code does.

- With DNS off the banner says "the last four layers never run"
  (`web/views.py:149`), but with the probe on the mailbox is asked, and an address
  can come out confirmed.  `RestsOnEvidence` has that case: it asks for an MX record
  only where DNS is on.
- A single check that asks for the probe is shown layer 6 as Unknown although the
  prober of `layers/smtp.py` asked nobody; a deliverable one is therefore impossible
  (`SingleCheckNeverConfirms`).
- The trace calls layer 5 "not run" when layer 4 settled the address, although the
  engine classifies before it looks up DNS; and an address left unknown without a
  probe is attributed to layer 6.  `TraceIsHonest` makes room for both.
- `api/workspace.py:75` promises one row per mailbox, but the read-model is keyed by
  the lower-cased address: two spellings of a Gmail mailbox, from two files, are two
  rows.  `api/schemas.py:78` says that `normalized_email` has dots and tags removed.
  `api/schemas.py:252` says rows where the job counts unique addresses.
- A malformed cell is stored as it was typed and looked up in lower case, so one
  with capitals cannot be opened; the last conjunct of `ScreensAgree` is about
  addresses that parse.
- `exports` previews a custom slice without its two filters.
- The price is quoted for the column that was guessed, whichever one is mapped in the
  next step.
- A 5xx to HELO or to MAIL FROM, and one to RCPT in words of greylisting, make an
  address invalid (`smtp_infra/prober.py:57`, `:69`, `service.py:136`), which
  `web/views.py:1184` says of no greylisted address.  `InvalidMeansRejected` names them
  as its one exception.
- The pages of the address list are ordered without a tiebreak
  (`addresses.py:341`): a row that ties with others may be met on two pages, or on none.
- A job started from the web form runs as a task of that process
  (`web/__init__.py:322`): it is not delivered again after a crash, and has no
  callback.
- Two first sign-ups that overlap both adopt the configured workspace; `OwnWorkspace`
  and its theorem say that nothing else makes accounts share one.

## 4. The proofs

The theorems hold for every value of the constants that meets the `ASSUME`s of
the modules, and further assumptions where a theorem states them.

**`IpPoolProofs`** – any number of IPs and probers, any cap and cooldown.
`WarmupCapHeld` is not inductive: the code does not count what an IP sent in the
UTC day but what it sent since the last roll, which may lag behind the clock.
The invariant `IInv` adds `DayCounted` (what was sent today is what the next
acquire will start from), `CountCapped` (a warming IP's counter is within the
cap) and `WaitBounded` (a healthy IP passed over `n` times has at most `N - 1 - n`
IPs before it in the scan).  From it follow `CapHeld`, `Rotation`, and, with the
step it is about, `LastResort`.

**`SmtpProbeProofs`** – any tasks, domains, strategies and pool.  `AskedOnce`
needs to know that a task asking for a fake recipient holds its domain's lock
(`AskerHoldsLock`), is the first to do so (`AskerIsFirst`), and that a domain that
was asked has a verdict or is about to (`AskedIsSettled`).  `InvalidRight` is part of
the same invariant and assumes nothing of the replies: of all of them, `_map` makes
invalid only a truthful rejection and the three of `Refusal` (`MapTrue`), and for
these the task is in `refused`.  `UsesPool` proves that the
composition drives the pool as `IpPool` specifies; `PoolPromises` draws the
conclusion by instantiating `IpPoolProofs` with the variables of the composition
(`PoolHasIps` is the pool's own assumption), and `TypeCorrect` puts the two halves
together.  `ValidRight` needs to know that a task speaks to the real mailbox only
once its domain is cached as no catch-all, or is not probed for one
(`RealIsSettled`), and that what is cached never changes: then what a task read before it spoke to the
server is still so when the server has answered.  `ProbeAssumption` says of the
strategies what the table of `providers.py` shows: none believes an accept without
probing for a catch-all.

**`ReprobeProofs`** – any addresses, jobs, pollers and policy.  `TypeCorrect`
carries `CurIsClaimed`, without which a poller's copy need not exist.
`LeaseHonoured` holds for any number of pollers and faults.  Its invariant is why a
lease excludes: while it runs the row is not due, unless somebody else wrote it
(`LeaseKept`), so nobody else selects it (`NoneSelects`), and two that selected it
before either leased it are told (`NoneRaces`).  `NothingOrphaned` assumes a policy with
at least one attempt, no faults and no deletions, each of which does orphan a
deferral in the code; its invariant adds that a job has nothing left to queue once
it has finished.  `RefinesSchedule` assumes one poller, as overlapping ones do wind a
count back, and follows from `CopyNotBehind`: the copy a poller claimed is never
behind the row, whatever jobs, deletions and crashes did to it meanwhile.

**`JobRunProofs`** – any file size, chunk size, number of tries and faults.
`OutputsExist` follows the three writers: it holds at every crash and every writer
that raises, because the job names its outputs only after the last of them closed and
a new try writes fresh keys; what a deletion took is counted as written (`Written`).
`TellsTruth` has one exception, the save at the start or in the handler of a failure
(`endsave`), which leaves the row `processing` while the callback says `failed`.
`RefinesLifecycle` has any faults and any deletion: a save never brings a deleted row
back, so that `deleted` is final, and a job that nothing will end is `abandoned`.
Their invariant `StatusInv` relates the run's phase, the object's status and the
row's.  `CompletedWhole` rests on the chunks
being prefixes of the file: `ChunkInv` says of every phase that what the run has
verdicts for, waits for and has recorded is the addresses up to the chunk it is at,
so that nothing but the blank cell can be skipped between two chunks or over a
redelivery (`Listed` counts what a deletion took out since), and `TallyInv` that the progress of a first run counts its verdicts.

**`WebhookProofs`** – any number of attempts, durations of a POST, outage and deaths.  The
backoffs double and are then capped, and their sum `Waited` is a recursive function:
`WaitedIs` gives its closed form (2^n - 1 seconds while they double, a minute for
each one after), by way of a least counterexample, since the function exists only
through the equation it satisfies.  The invariant `Elapsed` has a run that is at attempt n having slept through
the backoffs before it, and begun no later than that before now.  From it follow both
what a receiver may count on (`OutageSurvived`) and what the worker may
(`SleepBounded`).  How long the POSTs of a run last is bounded by nothing but arq's
`job_timeout`, and no theorem says otherwise.

**`WorkspacesProofs`** – any accounts, tokens, keys, jobs, addresses and requests.
`Apart` speaks of the tables; its invariant follows every reference back to where
it was read: a request under way carries the workspace of its own account
(`Calls`, with `Creds` and `Placed` for sessions, keys and accounts that are still
being created), a job, its task, a retry and a retry in flight stay in the
workspace of whoever made the job (`Owned`, `Tasks`, `Tables`), and nobody was
shown another's (`Shown`).  `Swept` says of every address that is not a stray of a
job that nothing is left to write it under the job's name (`Bare`): no run, no row, no
retry pending or in flight.  The two transactions of
the deletion are two steps; the first makes a stray of what is under way or still
pending, the second of what is under way then or was written in between.  `Grow` collects
what every step leaves alone or only adds to, so that most conjuncts are kept by
one argument.  From it follow `TypeCorrect`, `WorkspacesApart`, `AccountsApart`,
`DeletedStaysDeleted` and `ActsForItsOwner`, and the action property `OnlyTheirs`.
`NumbersRight` compares a number with the size of a growing set; its invariant
`Numbered` adds that what a request about to number a job has found are jobs of its
own workspace, so that the number it spends, one above the highest of them, is within
the count of the jobs the workspace then has (`HighestIsOne`, `NumberNumbers`).

**`TokenBucketProofs`** – any rate, capacity, clients and clock corrections, either
back end.  `WithinRate` speaks of two past grants; the invariant `Room` says of a
grant and *now* that what was granted since, together with what the bucket could
still grant (`Stock`), fits into capacity and refill.  A grant takes from the stock
what it adds to the window, a tick adds to the stock no more than to the window, a
clock set back and a refused call can only shrink it, and an idle bucket is dropped
no earlier than a full refill (`CeilDivCovers`), so that it comes back with no more
than it had.  `LosesToOthers` and `RetryAfterHolds` are one argument: `TurnInv` gives
a client that keeps losing a number of turns left such that with what the bucket
holds, its sleep and these turns a token is refilled; a tick moves tokens from the
sleep to the bucket, a turn it loses spends one, and a token granted to somebody
else gives it as many turns again as one token takes.

**`FileRunProofs`** – any file, settings, tables of providers, read-model, cache
history, replies of DNS and of mailboxes.  `RestsOnEvidence` needs that the cache
holds an answer against a domain only if one was heard (`CacheHeard`), and
that a check on its way holds a verdict fit to be probed, of a cell of the file, and
of a key that has no verdict yet (`CheckSound`).  The lemmas before it say what the
engine's operators build: which fields each leaves alone, and what each may say
without having asked the mailbox.  `SingleCheckNeverConfirms` follows from them.

A second invariant, `RunInv`, says of every verdict that it has one of the shapes a
verdict can have before and after the mailbox was asked (`Shaped`); the trace of each
shape is honest (`ShapeIsHonest`), and its row is in the table as it was recorded
because no other key of the file has its cell (`Recorded`).  From it follow
`TypeCorrect`, where a chunk never outgrows its size because the rows in it are told
apart by how many come before them, and `TraceHonest`.

The third, `BookInv`, is what is counted where: a tally counts the verdicts of its
status, the state of the wizard decides which totals are in, the rows of this job in
the table are of keys with a verdict.  When as many verdicts are counted as there are
unique addresses, every key has its own (`BookRecord`).  `BooksBalanced` then compares
sums the screens fold out of the tallies with sizes of sets: the cleaned file's rows
are split between the other two (`RowsAreSplit`), the valid one has a row for each key
not called undeliverable, and the read-model gained a row for each key that is not
blank (`TableGains`), which is what the preview counted.  For the sums the module has
a small theory of such sums: that the fold exists (`SumsExist`), that it may be
taken in any order (`SumsAnyOrder`), that noughts may be left out (`SumSkips`), each
by a smallest set for which it would fail (`LeastSubset`).

`ScreensRight` is about any table whose rows are filed under their addresses
(`Filed`, a conjunct of `RunInv`), and takes what the screens compute in three kinds.
A rollup is a sum of the sizes of groups, and `GroupsAddUp` says that such a sum is
the size of the groups together; the totals, days, layers, tabs, domains, arcs,
weekdays and buckets are each an instance of it, for a function that says of a row
which group it is in (`MixCounts`, `DaysCount`, `InsideCounts`, `WindowCounts`).  What
page n shows is arithmetic on the number of rows matched, the size of a page and n
(`PageIs`), and `PagesMeet` has from it that a page reached by the links has the rows
its caption speaks of, that the next takes up where it ends, and that the last ends
with the list: of how many rows, not of which, since ties are left open.  The charts need the calendar to be the Gregorian one: the first days of two months in a row
are as many days apart as the first of them has (`MonthsAreGregorian`, over leap
years and centuries), so that the buckets of a window join up (`BoundsJoin`), and
meet those of the one before it (`BoundsMeet`); then a day of the window falls into
exactly one of its twelve buckets (`DayHasBucket`).  `SharesClaimNoAbsolute` is about
the rounding of the legends: from a percent up to ninety-nine, halves that go up
reach neither end.

**What the constants are assumed to be.**  Besides types: an address is never blank,
nor a malformed cell; lower case is lower case again in lower case; no answer and no
number is `None` (`Engine`); the list types are finitely many, "All lists" is none of
them, and no row and no preset is `None` (`AddressTable`); pages have at least one row
(`Screens`); the rows earlier jobs left are finitely many and rows a job can leave, and
today is a day its month has (`FileRunAssumption`).  TLC evaluates each of these
assumptions in a run.

**Only model-checked**: every liveness property and the fairness part of the two
refinements (the theorems cover initial states and steps; `ENABLED` is out of the
prover's reach); and that the typo search finds the nearest domain
(`NearestIsNearest` of `MCFileRun`), an induction over strings.  Every
safety property a passing run checks is a theorem.

## 5. The plan

What is left:

1. Uploads: the object store's keys, the upload cap and the expiry of presigned
   links, with two uploads of one name.

The composition stays as it is: `JobRun` for how a run fails, `FileRun` for what it
makes, `Workspaces` for whose it is.

## 6. Not modelled, and why

- Configuration, observability and migrations: values, logs, and one-way scripts.
  The values other parts depend on are constants of the models.
- Routing, start-up, request schemas and the documentation pages of the API; the
  markup, colours and wording of the web, and its landing page: no state, and no
  numbers another screen could contradict.
- Object storage beyond the output objects of `JobRun`, and uploads: reads, signed
  links and a size limit, all I/O.
- Parsing of addresses (a library's), sniffing and quoting of CSV, TLS, and DNS and
  SMTP on the wire: their outcomes are inputs of the models, their bytes are not.
- Hashing, password rules and the constant-time comparison of `auth.py`.
- The search box of the address list, and which rows a page of it shows: rows that
  tie may come in another order in the next query, so only their number is modelled.
- Cancellation of a probe's task, and a request that uses a key its owner has just
  revoked next to another account's cookie beyond the four requests of `workspaces`
  (`ActsForItsOwner` proves that case).
- The in-memory job store, whose save brings a deleted job back where the SQL
  store's UPDATE finds no row; the two are alike otherwise.
