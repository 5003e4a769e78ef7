----------------------------- MODULE Workspaces -----------------------------
(***************************************************************************)
(* What the accounts own: the jobs and addresses of their workspaces, as   *)
(* the handlers of the API and the web app read and write them (api/jobs,  *)
(* jobs/store, addresses, web) and as the runs they start write them after *)
(* the request that started them is gone (jobs/queue, jobs/pipeline).      *)
(*                                                                         *)
(* Both tables are scoped twice over: by the context variable the request  *)
(* is bound to, and by the workspace_id a job carries.  What happens       *)
(* inside a run is JobRun's.                                               *)
(***************************************************************************)
EXTENDS Accounts, FiniteSets

CONSTANTS
    Job,        \* job ids
    Address     \* addresses in the files of the jobs

VARIABLES
    jobs,       \* [ws, seq, there] by job, and histories: by, who made it; after, the
                \* jobs it was numbered after; stray, the addresses it may be
                \* named by: all, until it is deleted along with them
    rows,       \* the job that wrote each address, by workspace and address
    task,       \* where the task that runs a job is
    due,        \* the job of each pending retry, by workspace and address
    flight,     \* [job, to]: a retry some poller claimed, and the job it writes for
    shown       \* history: the jobs whose data each account was shown

workVars == <<jobs, rows, task, due, flight, shown>>
vars == <<users, sessions, keys, req, begun, jobs, rows, task, due, flight, shown>>

Account == [ws : Workspace, since : SUBSET Email]
SessionRow == [user : Email, lapsed : BOOLEAN]
KeyRow == [user : Email, ws : Workspace, revoked : BOOLEAN]
JobRow == [ws : Workspace, seq : Nat \ {0}, there : BOOLEAN, by : Email \cup {None},
           after : SUBSET Job, stray : SUBSET Address]
Step == {"signup", "register", "place", "insert", "login", "logout", "create_key",
         "revoke_key", "create", "number", "show", "delete", "delete_all",
         "sweep_rows", "sweep_retries", "drop"}
Call == [step : Step, by : Email \cup {None}, ctx : Workspace,
         with : [cookie : Token \cup {None}, key : Key \cup {None}],
         arg : Email \cup Job \cup Key \cup {None},
         found : Workspace \cup (SUBSET Job) \cup {None}, since : SUBSET Email]
Flight == [job : Job, to : Job \cup {None}]
Table(S) == [Workspace -> [Address -> S \cup {None}]]

\* None stands for the absence of each of these.
ASSUME NoneAssumption ==
    /\ None \notin Account \cup SessionRow \cup KeyRow \cup Call \cup JobRow \cup Flight \cup Job
    /\ None \notin {"queued", "running", "ended"}
    /\ Gone \notin SessionRow

There(j) == jobs[j] # None /\ jobs[j].there
Made == {j \in Job : jobs[j] # None}
NumberedIn(ws) == {j \in Job : There(j) /\ jobs[j].ws = ws}

Init ==
    /\ AccountsInit
    /\ jobs = [j \in Job |-> None]
    /\ rows = [w \in Workspace |-> [a \in Address |-> None]]
    /\ due = rows /\ flight = rows
    /\ task = [j \in Job |-> None]
    /\ shown = {}
----------------------------------------------------------------------------
\* What a request asks for: a path, and what it is about.
Asks ==
    ({"signup", "login"} \X Email)
        \cup ({"delete", "delete_all"} \X Job)
        \cup ({"revoke_key"} \X Key)
        \cup ({"logout", "create_key", "create", "show"} \X {None})

Begin(r) ==
    /\ \E p \in [cookie : Token \cup {None}, key : Key \cup {None}], ask \in Asks :
           Admit(r, p, ask[1], ask[2])
    /\ UNCHANGED workVars

\* Mutant: numbers count up over every workspace.
CountGlobally(r) ==
    /\ At(r, "create")
    /\ req' = [req EXCEPT ![r].step = "number", ![r].found = {j \in Job : There(j)}]
    /\ UNCHANGED <<accountVars, begun, workVars>>

\* create_job: the store reads the highest number of the workspace ...
Count(r) ==
    /\ At(r, "create")
    /\ req' = [req EXCEPT ![r].step = "number", ![r].found = NumberedIn(req[r].ctx)]
    /\ UNCHANGED <<accountVars, begun, workVars>>

HighestOf(J) == IF J = {} THEN 0
                ELSE CHOOSE n \in {jobs[j].seq : j \in J} : \A j \in J : jobs[j].seq <= n

\* ... inserts the job under the next one, in a statement of its own, and the
\* handler starts the run: at once, with the job it has (validate_start), or from
\* its id (enqueue_job).
Number(r) ==
    /\ At(r, "number")
    /\ \E j \in Job, step \in {"queued", "running"} :
        /\ jobs[j] = None
        /\ jobs' = [jobs EXCEPT ![j] =
               [ws |-> req[r].ctx, seq |-> HighestOf(req[r].found) + 1, there |-> TRUE,
                by |-> req[r].by, after |-> req[r].found, stray |-> Address]]
        /\ task' = [task EXCEPT ![j] = step]
    /\ Respond(r)
    /\ UNCHANGED <<accountVars, begun, rows, due, flight, shown>>

\* Mutant: get finds a job by its id alone.
FoundUnscoped(j, ws) == There(j)

\* SqlJobStore.get: a job of another workspace reads as missing.
Found(j, ws) == There(j) /\ jobs[j].ws = ws

\* The screens and lists: every job and address of the context's workspace.
Show(r) ==
    /\ At(r, "show")
    /\ LET ws == req[r].ctx
           js == {j \in Job : Found(j, ws)} \cup ({rows[ws][a] : a \in Address} \ {None})
       IN  shown' = shown \cup {<<req[r].by, j>> : j \in js}
    /\ Respond(r)
    /\ UNCHANGED <<accountVars, begun, jobs, rows, task, due, flight>>

\* delete_job: 404 unless it is one of the workspace's; the addresses go only
\* when the caller says so.
FindForDelete(r) ==
    /\ At(r, "delete") \/ At(r, "delete_all")
    /\ IF ~Found(req[r].arg, req[r].ctx) THEN Respond(r)
       ELSE Goto(r, IF At(r, "delete") THEN "drop" ELSE "sweep_rows")
    /\ UNCHANGED <<accountVars, begun, workVars>>

Without(table, j) == [a \in Address |-> IF table[a] = j THEN None ELSE table[a]]

\* The addresses a job's run or a retry under way may write under its name.
UnderWay(j, ws) ==
    {a \in Address :
        task[j] # "ended" \/ (flight[ws][a] # None /\ j \in {flight[ws][a].job, flight[ws][a].to})}

\* delete_by_job of the addresses: those of the workspace that this job was the
\* last to write.  A retry that is pending may still be claimed before it goes.
SweepRows(r) ==
    /\ At(r, "sweep_rows")
    /\ LET ws == req[r].ctx  j == req[r].arg IN
        /\ rows' = [rows EXCEPT ![ws] = Without(@, j)]
        /\ jobs' = [jobs EXCEPT ![j].stray = UnderWay(j, ws) \cup {a \in Address : due[ws][a] = j}]
    /\ Goto(r, "sweep_retries")
    /\ UNCHANGED <<accountVars, begun, task, due, flight, shown>>

\* Mutant: the pending retries are left for the poller to find.
SweepRetriesNot(r) ==
    /\ At(r, "sweep_retries")
    /\ LET ws == req[r].ctx  j == req[r].arg IN
       jobs' = [jobs EXCEPT ![j].stray = UnderWay(j, ws) \cup {a \in @ : rows[ws][a] = j}]
    /\ Goto(r, "drop")
    /\ UNCHANGED <<accountVars, begun, rows, task, due, flight, shown>>

\* delete_by_job of the retries, in a transaction of its own: what a retry wrote
\* between the two stays.
SweepRetries(r) ==
    /\ At(r, "sweep_retries")
    /\ LET ws == req[r].ctx  j == req[r].arg IN
        /\ due' = [due EXCEPT ![ws] = Without(@, j)]
        /\ jobs' = [jobs EXCEPT ![j].stray = UnderWay(j, ws) \cup {a \in @ : rows[ws][a] = j}]
    /\ Goto(r, "drop")
    /\ UNCHANGED <<accountVars, begun, rows, task, flight, shown>>

\* SqlJobStore.delete, which changes nothing when another request was faster.
Drop(r) ==
    /\ At(r, "drop")
    /\ LET j == req[r].arg IN
       jobs' = IF Found(j, req[r].ctx) THEN [jobs EXCEPT ![j].there = FALSE] ELSE jobs
    /\ Respond(r)
    /\ UNCHANGED <<accountVars, begun, rows, task, due, flight, shown>>
----------------------------------------------------------------------------
\* run_job_now binds the job's workspace and loads the job, if it is still there.
Start(j) ==
    /\ task[j] = "queued"
    /\ task' = [task EXCEPT ![j] = IF Found(j, jobs[j].ws) THEN "running" ELSE "ended"]
    /\ UNCHANGED <<accountVars, req, begun, jobs, rows, due, flight, shown>>

\* An address is recorded under the workspace the job carries, whether or not the
\* job has been deleted meanwhile, and a greylisted one queued for a retry.
Record(j) ==
    /\ task[j] = "running"
    /\ LET ws == jobs[j].ws IN \E a \in Address :
        /\ rows' = [rows EXCEPT ![ws][a] = j]
        /\ due' \in {due, [due EXCEPT ![ws][a] = j]}
    /\ UNCHANGED <<accountVars, req, begun, jobs, task, flight, shown>>

\* The run ends; its saves find no row once the job was deleted.
End(j) ==
    /\ task[j] = "running"
    /\ task' = [task EXCEPT ![j] = "ended"]
    /\ UNCHANGED <<accountVars, req, begun, jobs, rows, due, flight, shown>>

\* A poller claims a retry; its row stays in the table, leased.
Claim(w, a) ==
    /\ due[w][a] # None /\ flight[w][a] = None
    /\ flight' = [flight EXCEPT ![w][a] = [job |-> due[w][a], to |-> None]]
    /\ UNCHANGED <<accountVars, req, begun, jobs, rows, task, due, shown>>

\* Still deferred: the retry is put back, whatever became of its row.
Defer(w, a) ==
    /\ flight[w][a] # None /\ flight[w][a].to = None
    /\ due' = [due EXCEPT ![w][a] = flight[w][a].job]
    /\ flight' = [flight EXCEPT ![w][a] = None]
    /\ UNCHANGED <<accountVars, req, begun, jobs, rows, task, shown>>

\* Settled: the retry is dropped, and _update_address reads whose row it is ...
Settle(w, a) ==
    /\ flight[w][a] # None /\ flight[w][a].to = None
    /\ due' = [due EXCEPT ![w][a] = None]
    /\ LET row == rows[w][a] IN
       flight' = [flight EXCEPT ![w][a].to = IF row = None THEN flight[w][a].job ELSE row]
    /\ UNCHANGED <<accountVars, req, begun, jobs, rows, task, shown>>

\* ... and writes it back, in a transaction of its own.
Update(w, a) ==
    /\ flight[w][a] # None /\ flight[w][a].to # None
    /\ rows' = [rows EXCEPT ![w][a] = flight[w][a].to]
    /\ flight' = [flight EXCEPT ![w][a] = None]
    /\ UNCHANGED <<accountVars, req, begun, jobs, task, due, shown>>

Next ==
    \/ \E r \in Request :
        \/ Begin(r)
        \/ AccountStep(r) /\ UNCHANGED workVars
        \/ Count(r) \/ Number(r) \/ Show(r)
        \/ FindForDelete(r) \/ SweepRows(r) \/ SweepRetries(r) \/ Drop(r)
    \/ \E j \in Job : Start(j) \/ Record(j) \/ End(j)
    \/ \E w \in Workspace, a \in Address :
           Claim(w, a) \/ Defer(w, a) \/ Settle(w, a) \/ Update(w, a)
    \/ Background /\ UNCHANGED workVars

Spec == Init /\ [][Next]_vars
----------------------------------------------------------------------------
\* The workspace an account works in; a caller who is nobody has the configured one.
Home(u) == IF u = None THEN Configured ELSE users[u].ws

TypeOK ==
    /\ users \in [Email -> Account \cup {None}]
    /\ sessions \in [Token -> SessionRow \cup {None, Gone}]
    /\ keys \in [Key -> KeyRow \cup {None}]
    /\ req \in [Request -> Call \cup {None}]
    /\ begun \in Nat
    /\ jobs \in [Job -> JobRow \cup {None}]
    /\ rows \in Table(Job) /\ due \in Table(Job)
    /\ flight \in Table(Flight)
    /\ task \in [Job -> {"queued", "running", "ended", None}]
    /\ shown \subseteq ((Email \cup {None}) \X Job)

\* Nothing crosses from one workspace to another: a job lives where its creator
\* works, an address row and its retry belong to a job of their own workspace, and
\* nobody is shown a job, or an address some job wrote, of a workspace they do not
\* work in, however requests, runs and retries overlap and whatever they bring.
Apart ==
    /\ \A j \in Made : jobs[j].ws = Home(jobs[j].by)
    /\ \A w \in Workspace, a \in Address :
        /\ rows[w][a] # None => jobs[rows[w][a]].ws = w
        /\ due[w][a] # None => jobs[due[w][a]].ws = w
    /\ \A s \in shown : Home(s[1]) = jobs[s[2]].ws

\* An account sees none of what another has, unless the two signups overlapped.
OwnWorkspace ==
    \A d, e \in Registered : d # e /\ users[d].ws = users[e].ws =>
        d \notin users[e].since /\ e \notin users[d].since

\* A job deleted with its addresses comes back only where its run was not over, or
\* a retry of the very address was in flight, as its rows or its retries went, or a
\* retry claimed between the two had written its row again.  Every other address
\* stays without a row and a retry of that job, whatever runs and retries do.
SweptStaysSwept ==
    \A j \in Made : \A a \in Address \ jobs[j].stray : \A w \in Workspace :
        j \notin {rows[w][a], due[w][a]}

\* "Pass keep_addresses=false to drop those too" (api/jobs.py:87-88): once such a
\* deletion is over, no row names the job.  The code does not keep to it where the
\* run or a retry is under way; Workspaces_dropped.cfg shows a trace.
AddressesDropped ==
    \A j \in Made : ~jobs[j].there /\ jobs[j].stray # Address =>
        \A w \in Workspace, a \in Address : rows[w][a] # j

\* A job's number is above that of every job its workspace had when its creation
\* began, so two jobs share one only if their creations overlapped; and no number
\* is spent on another workspace's job.
NumbersCountUp ==
    \A j \in Made :
        /\ \A i \in jobs[j].after : jobs[i].seq < jobs[j].seq
        /\ jobs[j].seq <= Cardinality({i \in Made : jobs[i].ws = jobs[j].ws})

\* A request acts for the account its credential was issued to: when it brings a
\* key, never for that of a cookie it brings as well.
ActsAsPresented ==
    \A r \in Request : req[r] # None /\ req[r].by # None /\ req[r].with.key # None =>
        LET k == req[r].with.key IN keys[k] # None /\ keys[k].user = req[r].by

\* A session that has not expired ends in no other way than its own logout, and a
\* key is revoked by no one but its owner.
OnlyTheirOwn ==
    [][/\ \A t \in Token : Held(t) /\ ~sessions[t].lapsed /\ sessions'[t] = Gone =>
              \E r \in Request : At(r, "logout") /\ req[r].with.cookie = t
       /\ \A k \in Key : keys[k] # None /\ ~keys[k].revoked /\ keys'[k].revoked =>
              \E r \in Request : At(r, "revoke_key") /\ req[r].by = keys[k].user]_vars
============================================================================
