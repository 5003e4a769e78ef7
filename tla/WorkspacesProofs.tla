-------------------------- MODULE WorkspacesProofs --------------------------
(* Nothing crosses a workspace, for any number of accounts, requests, jobs *)
(* and addresses.                                                          *)
EXTENDS Workspaces, Integers, FiniteSetTheorems, WellFoundedInduction, TLAPS

Known(u) == u = None \/ users[u] # None

\* A request carries the workspace of whoever makes it, and what it was sent for.
CallOK(r) ==
    LET c == req[r] IN
    /\ Known(c.by) /\ c.ctx = Home(c.by)
    /\ c.by # None /\ c.with.key # None =>
           keys[c.with.key] # None /\ keys[c.with.key].user = c.by
    /\ c.since \subseteq Registered
    /\ c.step \in {"signup", "register", "place", "insert", "login"} => c.arg \in Email
    /\ c.step = "insert" => /\ c.found \in {c.arg, Configured}
                            /\ c.found = Configured => c.since = {}
    /\ c.step = "number" => c.found \subseteq Made
    /\ c.step = "revoke_key" => c.arg \in Key
    /\ c.step \in {"delete", "delete_all"} => c.arg \in Job
    /\ c.step \in {"sweep_rows", "sweep_retries", "drop"} => c.arg \in Made /\ jobs[c.arg].ws = c.ctx

Calls == \A r \in Request : req[r] # None => CallOK(r)

Creds ==
    /\ \A t \in Token : Held(t) => users[sessions[t].user] # None
    /\ \A k \in Key : keys[k] # None =>
           users[keys[k].user] # None /\ keys[k].ws = users[keys[k].user].ws

Placed == \A e \in Registered :
    /\ users[e].ws \in {e, Configured}
    /\ users[e].ws = Configured => users[e].since = {}

\* There is a highest number.
Bounded == \E n \in Nat : \A j \in Made : jobs[j].seq <= n

Owned == \A j \in Made : Known(jobs[j].by) /\ jobs[j].ws = Home(jobs[j].by)

In(j, w) == j \in Made /\ jobs[j].ws = w

Tables == \A w \in Workspace, a \in Address :
    /\ rows[w][a] # None => In(rows[w][a], w)
    /\ due[w][a] # None => In(due[w][a], w)
    /\ flight[w][a] # None => /\ In(flight[w][a].job, w)
                              /\ flight[w][a].to # None => In(flight[w][a].to, w)

Tasks == \A j \in Job : task[j] # None => j \in Made

Shown == \A s \in shown : Known(s[1]) /\ In(s[2], Home(s[1]))

\* Nothing is left that could write an address under a job's name.
Bare(j, a) ==
    /\ task[j] = "ended"
    /\ \A w \in Workspace :
        /\ rows[w][a] # j /\ due[w][a] # j
        /\ flight[w][a] # None => flight[w][a].job # j /\ flight[w][a].to # j

Swept == \A j \in Made, a \in Address : a \in jobs[j].stray \/ Bare(j, a)

IInv == /\ TypeOK /\ Calls /\ Creds /\ Placed /\ Bounded
        /\ Owned /\ Tables /\ Tasks /\ Shown /\ Swept

LEMMA InitInv == Init => IInv
<1> SUFFICES ASSUME Init PROVE IInv
  OBVIOUS
<1> USE DEF Init, AccountsInit
<1>1. TypeOK
  BY DEF TypeOK, Table
<1>2. Made = {} /\ Registered = {}
  BY DEF Made, Registered
<1>3. Calls /\ Creds /\ Placed
  BY <1>2 DEF Calls, Creds, Placed, Held
<1>4. Bounded /\ Owned /\ Tables /\ Tasks /\ Shown /\ Swept
  BY <1>2 DEF Bounded, Owned, Tables, Tasks, Shown, Swept
<1> QED BY <1>1, <1>3, <1>4 DEF IInv
----------------------------------------------------------------------------
\* Rows are never taken away from the accounts, keys and jobs, and what says whose
\* they are never changes.
Grow ==
    /\ \A e \in Email : users[e] # None => users'[e] = users[e]
    /\ \A k \in Key : keys[k] # None => keys'[k] # None /\ keys'[k].user = keys[k].user
    /\ \A j \in Job : jobs[j] # None =>
           jobs'[j] # None /\ jobs'[j].ws = jobs[j].ws /\ jobs'[j].by = jobs[j].by

LEMMA KeepHome ==
  ASSUME TypeOK, Grow, NEW u \in Email \cup {None}, Known(u)
  PROVE Known(u)' /\ Home(u)' = Home(u)
  BY AccountsAssumption DEF TypeOK, Grow, Known, Home

LEMMA KeepIn ==
  ASSUME Grow, NEW j, NEW w, In(j, w)
  PROVE In(j, w)'
  BY DEF Grow, In, Made

LEMMA KeepMade == ASSUME Grow PROVE Made \subseteq Made' /\ Registered \subseteq Registered'
  BY DEF Grow, Made, Registered

LEMMA KeepCall ==
  ASSUME TypeOK, Grow, NEW r \in Request, req[r] # None, CallOK(r), req'[r] = req[r]
  PROVE CallOK(r)'
<1> DEFINE c == req[r]
<1>1. c \in Call
  BY DEF TypeOK
<1>2. Known(c.by)' /\ Home(c.by)' = Home(c.by)
  <2>1. c.by \in Email \cup {None} /\ Known(c.by)
    BY <1>1 DEF Call, CallOK
  <2> HIDE DEF c
  <2>2. \A u \in Email \cup {None} : Known(u) => Known(u)' /\ Home(u)' = Home(u)
    BY KeepHome
  <2>3. \A u \in Email \cup {None} : Known(u) =>
            (u = None \/ users'[u] # None)
            /\ (IF u = None THEN Configured ELSE users'[u].ws) = Home(u)
    BY <2>2 DEF Known, Home
  <2>4. req'[r].by = c.by
    BY DEF c
  <2> QED BY <2>1, <2>3, <2>4 DEF Known, Home, c
<1> QED BY <1>1, <1>2, KeepMade, KeepIn DEF CallOK, Call, Grow, Known, Home, Made

LEMMA KeepCalls ==
  ASSUME TypeOK, Calls, Grow, NEW r \in Request,
         \A q \in Request \ {r} : req'[q] = req[q],
         req'[r] # None => CallOK(r)'
  PROVE Calls'
<1> SUFFICES ASSUME NEW q \in Request, req'[q] # None PROVE CallOK(q)'
  BY DEF Calls
<1>1. CASE q = r
  BY <1>1
<1>2. CASE q # r
  BY <1>2, KeepCall DEF Calls
<1> QED BY <1>1, <1>2

\* The parts that speak of jobs and addresses survive what only touches accounts.
LEMMA KeepWork ==
  ASSUME IInv, Grow, UNCHANGED workVars
  PROVE Bounded' /\ Owned' /\ Tables' /\ Tasks' /\ Shown' /\ Swept'
<1> USE DEF workVars
<1>1. Bounded' /\ Tasks' /\ Swept' /\ Tables'
  BY DEF IInv, Bounded, Tasks, Swept, Bare, Tables, Made, In
<1>2. Owned'
  <2> SUFFICES ASSUME NEW j \in Job, jobs[j] # None
               PROVE Known(jobs[j].by)' /\ jobs'[j].ws = Home(jobs[j].by)'
    BY DEF Owned, Made
  <2>1. jobs[j].by \in Email \cup {None}
    BY DEF IInv, TypeOK, JobRow
  <2>2. Known(jobs[j].by) /\ jobs[j].ws = Home(jobs[j].by)
    BY DEF IInv, Owned, Made
  <2> QED BY <2>1, <2>2 DEF IInv, TypeOK, Grow, Known, Home
<1>3. Shown'
  <2> SUFFICES ASSUME NEW s \in shown PROVE Known(s[1])' /\ In(s[2], Home(s[1]))'
    BY DEF Shown
  <2>1. s[1] \in Email \cup {None}
    BY DEF IInv, TypeOK
  <2>2. Known(s[1]) /\ In(s[2], Home(s[1]))
    BY DEF IInv, Shown
  <2> QED BY <2>1, <2>2 DEF IInv, TypeOK, Grow, Known, Home, In, Made
<1> QED BY <1>1, <1>2, <1>3

LEMMA KeepAccounts ==
  ASSUME IInv, UNCHANGED accountVars
  PROVE Creds' /\ Placed'
  BY DEF IInv, accountVars, Creds, Placed, Held, Registered

LEMMA GotoCall ==
  ASSUME TypeOK, NEW r \in Request, req[r] # None, NEW s \in Step, Goto(r, s)
  PROVE /\ req' \in [Request -> Call \cup {None}]
        /\ \A q \in Request \ {r} : req'[q] = req[q]
        /\ req'[r] # None /\ req'[r].step = s /\ req'[r].by = req[r].by
        /\ req'[r].ctx = req[r].ctx /\ req'[r].with = req[r].with
        /\ req'[r].arg = req[r].arg /\ req'[r].found = req[r].found
        /\ req'[r].since = req[r].since
<1> DEFINE d == [req[r] EXCEPT !.step = s]
<1>1. req[r] \in Call
  BY DEF TypeOK
<1>2. d \in Call /\ d.step = s /\ d.by = req[r].by /\ d.ctx = req[r].ctx
      /\ d.with = req[r].with /\ d.arg = req[r].arg /\ d.found = req[r].found
      /\ d.since = req[r].since
  BY <1>1 DEF Call
<1>3. req' = [req EXCEPT ![r] = d]
  BY DEF Goto
<1> HIDE DEF d
<1> QED BY <1>2, <1>3, NoneAssumption DEF TypeOK

LEMMA RespondCall ==
  ASSUME TypeOK, NEW r \in Request, Respond(r)
  PROVE /\ req' \in [Request -> Call \cup {None}]
        /\ \A q \in Request \ {r} : req'[q] = req[q]
        /\ req'[r] = None
  BY DEF TypeOK, Respond
----------------------------------------------------------------------------
\* What a credential stands for is an account, in the workspace it has.
LEMMA IdentityKnown ==
  ASSUME TypeOK, Creds, NEW p \in [cookie : Token \cup {None}, key : Key \cup {None}],
         NEW who \in {Identity(p), Nobody}
  PROVE /\ who.user \in Email \cup {None} /\ who.ws \in Workspace
        /\ Known(who.user) /\ who.ws = Home(who.user)
        /\ who.user # None /\ p.key # None =>
               keys[p.key] # None /\ keys[p.key].user = who.user
<1> USE AccountsAssumption
<1>1. CASE who = Nobody
  BY <1>1 DEF Nobody, Known, Home, Workspace
<1>2. CASE who # Nobody /\ p.key # None
  <2>1. p.key \in Key /\ who = KeyCaller(p.key)
    BY <1>2 DEF Identity
  <2>2. keys[p.key] # None /\ who = [user |-> keys[p.key].user, ws |-> keys[p.key].ws]
    BY <1>2, <2>1 DEF KeyCaller
  <2>3. keys[p.key] \in KeyRow
    BY <2>1, <2>2 DEF TypeOK
  <2> QED BY <2>1, <2>2, <2>3 DEF Creds, Known, Home, KeyRow
<1>3. CASE who # Nobody /\ p.key = None
  <2>1. who = SessionCaller(p.cookie) /\ p.cookie \in Token \cup {None}
    BY <1>3 DEF Identity
  <2> DEFINE t == p.cookie
  <2>2. t # None /\ t \in Token /\ Held(t)
        /\ who = [user |-> sessions[t].user, ws |-> users[sessions[t].user].ws]
    BY <1>3, <2>1 DEF SessionCaller
  <2>3. sessions[t] \in SessionRow
    BY <2>2 DEF TypeOK, Held
  <2>4. who.user \in Email /\ users[who.user] # None /\ who.ws = users[who.user].ws
    BY <2>2, <2>3 DEF Creds, SessionRow
  <2>5. who.ws \in Workspace
    BY <2>4 DEF TypeOK, Account
  <2> QED BY <2>4, <2>5, <1>3 DEF Known, Home
<1> QED BY <1>1, <1>2, <1>3

LEMMA BeginKeeps ==
  ASSUME IInv, NEW r \in Request, Begin(r)
  PROVE IInv'
<1> USE DEF IInv
<1>1. PICK p \in [cookie : Token \cup {None}, key : Key \cup {None}], ask \in Asks :
          Admit(r, p, ask[1], ask[2])
  BY DEF Begin
<1>2. PICK who \in {Identity(p), Nobody} :
          req' = [req EXCEPT ![r] = [step |-> ask[1], by |-> who.user, ctx |-> who.ws,
                                     with |-> p, arg |-> ask[2], found |-> None,
                                     since |-> Registered]]
  BY <1>1 DEF Admit
<1> DEFINE c == [step |-> ask[1], by |-> who.user, ctx |-> who.ws, with |-> p,
                 arg |-> ask[2], found |-> None, since |-> Registered]
<1>3. UNCHANGED <<accountVars, workVars>> /\ begun' = begun + 1
  BY <1>1 DEF Admit, Begin
<1>4. /\ who.user \in Email \cup {None} /\ who.ws \in Workspace
      /\ Known(who.user) /\ who.ws = Home(who.user)
      /\ who.user # None /\ p.key # None =>
             keys[p.key] # None /\ keys[p.key].user = who.user
  BY IdentityKnown
<1>5. /\ ask[1] \in {"signup", "login", "delete", "delete_all", "revoke_key", "logout",
                     "create_key", "create", "show"}
      /\ ask[1] \in {"signup", "login"} => ask[2] \in Email
      /\ ask[1] \in {"delete", "delete_all"} => ask[2] \in Job
      /\ ask[1] = "revoke_key" => ask[2] \in Key
      /\ ask[2] \in Email \cup Job \cup Key \cup {None}
  BY DEF Asks
<1>6. c \in Call
  <2>1. Registered \in SUBSET Email
    BY DEF Registered
  <2>2. ask[1] \in Step
    BY <1>5 DEF Step
  <2>3. p \in [cookie : Token \cup {None}, key : Key \cup {None}]
    BY <1>1
  <2> DEFINE F == Workspace \cup (SUBSET Job) \cup {None}
  <2>0. None \in F
    OBVIOUS
  <2> HIDE DEF F
  <2>4. c \in [step : Step, by : Email \cup {None}, ctx : Workspace,
               with : [cookie : Token \cup {None}, key : Key \cup {None}],
               arg : Email \cup Job \cup Key \cup {None}, found : F,
               since : SUBSET Email]
    BY <1>4, <1>5, <2>0, <2>1, <2>2, <2>3
  <2> QED BY <2>4 DEF Call, F
<1>7. req' = [req EXCEPT ![r] = c]
  BY <1>2
<1>8. /\ req' \in [Request -> Call \cup {None}] /\ req'[r] = c
      /\ \A q \in Request \ {r} : req'[q] = req[q]
  <2> HIDE DEF c
  <2> QED BY <1>6, <1>7 DEF TypeOK
<1>9. TypeOK'
  BY <1>3, <1>8 DEF TypeOK, accountVars, workVars
<1>10. Grow
  BY <1>3 DEF Grow, accountVars, workVars
<1>11. CallOK(r)'
  BY <1>3, <1>4, <1>5, <1>8 DEF CallOK, Known, Home, Registered, Made, accountVars, workVars
<1>12. Calls'
  BY <1>8, <1>10, <1>11, KeepCalls
<1> QED BY <1>3, <1>9, <1>10, <1>12, KeepWork, KeepAccounts
----------------------------------------------------------------------------
\* A step that only moves a request on, or answers it.
LEMMA MoveKeeps ==
  ASSUME IInv, NEW r \in Request, req' \in [Request -> Call \cup {None}],
         \A q \in Request \ {r} : req'[q] = req[q],
         req'[r] # None => CallOK(r)',
         UNCHANGED <<accountVars, begun, workVars>>
  PROVE IInv'
<1> USE DEF IInv
<1>1. TypeOK'
  BY DEF TypeOK, accountVars, workVars
<1>2. Grow
  BY DEF Grow, accountVars, workVars
<1>3. Calls'
  BY <1>2, KeepCalls
<1> QED BY <1>1, <1>2, <1>3, KeepWork, KeepAccounts

LEMMA SignupKeeps ==
  ASSUME IInv, NEW r \in Request, Signup(r), UNCHANGED workVars
  PROVE IInv'
<1> USE DEF IInv
<1>1. req[r] # None /\ req[r].step = "signup" /\ UNCHANGED <<accountVars, begun>>
  BY DEF Signup, At
<1>2. CASE Goto(r, "register")
  <2>1. "register" \in Step
    BY DEF Step
  <2>2. CallOK(r)
    BY <1>1 DEF Calls
  <2>3. CallOK(r)'
    BY <1>1, <1>2, <2>1, <2>2, GotoCall
       DEF CallOK, Known, Home, Registered, Made, accountVars
  <2> QED BY <1>1, <1>2, <2>1, <2>3, GotoCall, MoveKeeps
<1>3. CASE Respond(r)
  BY <1>1, <1>3, RespondCall, MoveKeeps
<1> QED BY <1>2, <1>3 DEF Signup

LEMMA RegisterKeeps ==
  ASSUME IInv, NEW r \in Request, Register(r), UNCHANGED workVars
  PROVE IInv'
<1> USE DEF IInv
<1>1. req[r] # None /\ req[r].step = "register" /\ UNCHANGED <<accountVars, begun>>
  BY DEF Register, At
<1>2. CASE Goto(r, "place")
  <2>1. "place" \in Step
    BY DEF Step
  <2>2. CallOK(r)
    BY <1>1 DEF Calls
  <2>3. CallOK(r)'
    BY <1>1, <1>2, <2>1, <2>2, GotoCall
       DEF CallOK, Known, Home, Registered, Made, accountVars
  <2> QED BY <1>1, <1>2, <2>1, <2>3, GotoCall, MoveKeeps
<1>3. CASE Respond(r)
  BY <1>1, <1>3, RespondCall, MoveKeeps
<1> QED BY <1>2, <1>3 DEF Register

\* The configured workspace is handed out only when there is no account yet.
LEMMA PlaceKeeps ==
  ASSUME IInv, NEW r \in Request, Place(r), UNCHANGED workVars
  PROVE IInv'
<1> USE DEF IInv
<1> DEFINE v == IF Registered = {} THEN Configured ELSE req[r].arg
           d == [req[r] EXCEPT !.step = "insert", !.found = v]
<1>1. req[r] # None /\ req[r].step = "place" /\ UNCHANGED <<accountVars, begun>>
      /\ req' = [req EXCEPT ![r] = d]
  BY DEF Place, At
<1>2. req[r] \in Call /\ CallOK(r)
  BY <1>1 DEF TypeOK, Calls
<1>3. req[r].arg \in Email /\ req[r].since \subseteq Registered
  BY <1>1, <1>2 DEF CallOK
<1>4. v \in Workspace /\ v \in {req[r].arg, Configured} /\ (v = Configured => req[r].since = {})
  BY <1>3, AccountsAssumption DEF Workspace
<1>5. /\ d \in Call /\ d.step = "insert" /\ d.found = v /\ d.by = req[r].by
      /\ d.ctx = req[r].ctx /\ d.with = req[r].with /\ d.arg = req[r].arg
      /\ d.since = req[r].since
  <2> HIDE DEF v
  <2> QED BY <1>2, <1>4 DEF Call, Step
<1>6. /\ req' \in [Request -> Call \cup {None}] /\ req'[r] = d
      /\ \A q \in Request \ {r} : req'[q] = req[q]
  <2> HIDE DEF d
  <2> QED BY <1>1, <1>5 DEF TypeOK
<1>7. CallOK(r)'
  <2> HIDE DEF d, v
  <2> QED BY <1>1, <1>2, <1>3, <1>4, <1>5, <1>6
          DEF CallOK, Known, Home, Registered, Made, accountVars, workVars
<1> QED BY <1>1, <1>6, <1>7, MoveKeeps

\* Only the sessions change, and every one that is held is an account's.
LEMMA SessionsKeep ==
  ASSUME IInv, UNCHANGED <<users, keys, workVars>>, begun' \in Nat,
         sessions' \in [Token -> SessionRow \cup {None, Gone}],
         \A t \in Token : Held(t)' => users[sessions'[t].user] # None,
         req' \in [Request -> Call \cup {None}], Calls'
  PROVE IInv'
<1> USE DEF IInv
<1>1. TypeOK'
  BY DEF TypeOK, workVars
<1>2. Grow
  BY DEF Grow, workVars
<1>3. Creds' /\ Placed'
  BY DEF Creds, Placed, Registered
<1> QED BY <1>1, <1>2, <1>3, KeepWork

LEMMA StartSessionHeld ==
  ASSUME TypeOK, Creds, NEW e \in Email, StartSession(e)
  PROVE /\ sessions' \in [Token -> SessionRow \cup {None, Gone}]
        /\ \A t \in Token : Held(t)' =>
               sessions'[t].user = e \/ users[sessions'[t].user] # None
<1>1. PICK x \in Token : sessions' = [sessions EXCEPT ![x] = [user |-> e, lapsed |-> FALSE]]
  BY DEF StartSession
<1>2. [user |-> e, lapsed |-> FALSE] \in SessionRow
  BY DEF SessionRow
<1> QED BY <1>1, <1>2 DEF TypeOK, Creds, Held

LEMMA InsertKeeps ==
  ASSUME IInv, NEW r \in Request, Insert(r), UNCHANGED workVars
  PROVE IInv'
<1> USE DEF IInv
<1>1. req[r] # None /\ req[r].step = "insert" /\ keys' = keys /\ begun' = begun /\ Respond(r)
  BY DEF Insert, At
<1>2. CASE UNCHANGED <<users, sessions>>
  BY <1>1, <1>2, RespondCall, MoveKeeps DEF accountVars
<1>3. CASE users[req[r].arg] = None
  <2> DEFINE e == req[r].arg
             u == [ws |-> req[r].found, since |-> req[r].since]
  <2>1. req[r] \in Call /\ CallOK(r)
    BY <1>1 DEF TypeOK, Calls
  <2>2. e \in Email /\ req[r].found \in {e, Configured}
        /\ (req[r].found = Configured => req[r].since = {}) /\ req[r].since \in SUBSET Email
    BY <1>1, <2>1 DEF CallOK, Call
  <2>3. u \in Account /\ u # None
    <3>1. u \in Account
      BY <2>2 DEF Account, Workspace
    <3> QED BY <3>1, NoneAssumption
  <2>4. users' = [users EXCEPT ![e] = u] /\ StartSession(e)
    BY <1>3 DEF Insert
  <2>5. users' \in [Email -> Account \cup {None}] /\ users'[e] = u
        /\ \A f \in Email \ {e} : users'[f] = users[f]
    <3> HIDE DEF e, u
    <3> QED BY <2>2, <2>3, <2>4 DEF TypeOK
  <2>6. Grow
    <3> HIDE DEF u
    <3> QED BY <1>1, <1>3, <2>5 DEF Grow, workVars
  <2>7. sessions' \in [Token -> SessionRow \cup {None, Gone}]
        /\ \A t \in Token : Held(t)' =>
               sessions'[t].user = e \/ users[sessions'[t].user] # None
    BY <2>2, <2>4, StartSessionHeld
  <2>8. Creds'
    <3>1. \A t \in Token : Held(t)' => sessions'[t].user \in Email
      BY <2>7 DEF Held, SessionRow
    <3>2. \A k \in Key : keys[k] # None => keys[k].user \in Email
      BY DEF TypeOK, KeyRow
    <3> HIDE DEF e, u
    <3> QED BY <1>1, <2>2, <2>3, <2>5, <2>6, <2>7, <3>1, <3>2 DEF Creds, Grow
  <2>9. Placed'
    <3>1. u.ws \in {e, Configured} /\ (u.ws = Configured => u.since = {})
      BY <2>2
    <3> HIDE DEF e, u
    <3> QED BY <2>2, <2>3, <2>5, <3>1 DEF Placed, Registered
  <2>10. TypeOK'
    BY <1>1, <2>5, <2>7, RespondCall DEF TypeOK, workVars
  <2>11. Calls'
    BY <1>1, <2>6, RespondCall, KeepCalls
  <2> QED BY <2>6, <2>8, <2>9, <2>10, <2>11, KeepWork
<1> QED BY <1>2, <1>3 DEF Insert

LEMMA SessionMovesKeep ==
  ASSUME IInv, NEW r \in Request, Login(r) \/ Logout(r), UNCHANGED workVars
  PROVE IInv'
<1> USE DEF IInv
<1>1. req[r] # None /\ UNCHANGED <<users, keys, begun>> /\ Respond(r)
  BY DEF Login, Logout, At
<1>2. sessions' \in [Token -> SessionRow \cup {None, Gone}]
      /\ \A t \in Token : Held(t)' => users[sessions'[t].user] # None
  <2>1. CASE Login(r)
    <3>1. req[r].arg \in Email /\ users[req[r].arg] # None /\ StartSession(req[r].arg)
      BY <2>1 DEF Login, Registered
    <3> QED BY <3>1, StartSessionHeld
  <2>2. CASE Logout(r)
    <3>1. req[r].with.cookie \in Token \cup {None}
      BY <1>1 DEF TypeOK, Call
    <3> QED BY <2>2, <3>1 DEF Logout, TypeOK, Creds, Held
  <2> QED BY <2>1, <2>2
<1>3. Grow
  BY <1>1 DEF Grow, workVars
<1>4. Calls' /\ req' \in [Request -> Call \cup {None}]
  BY <1>1, <1>3, RespondCall, KeepCalls
<1> QED BY <1>1, <1>2, <1>4, SessionsKeep DEF TypeOK

LEMMA BackgroundKeeps ==
  ASSUME IInv, Background, UNCHANGED workVars
  PROVE IInv'
<1> USE DEF IInv
<1>1. UNCHANGED <<users, keys, req, begun>>
  BY DEF Background, Purge, Lapse
<1>2. sessions' \in [Token -> SessionRow \cup {None, Gone}]
      /\ \A t \in Token : Held(t)' => Held(t) /\ sessions'[t].user = sessions[t].user
  <2>1. CASE Purge
    BY <2>1 DEF Purge, TypeOK, Held
  <2>2. ASSUME NEW x \in Token, Lapse(x)
        PROVE sessions' \in [Token -> SessionRow \cup {None, Gone}]
              /\ \A t \in Token : Held(t)' => Held(t) /\ sessions'[t].user = sessions[t].user
    <3> DEFINE d == [sessions[x] EXCEPT !.lapsed = TRUE]
    <3>1. sessions[x] \in SessionRow /\ Held(x)
      BY <2>2 DEF Lapse, Held, TypeOK
    <3>2. d \in SessionRow /\ d.user = sessions[x].user
      BY <3>1 DEF SessionRow
    <3>3. sessions' = [sessions EXCEPT ![x] = d]
      BY <2>2 DEF Lapse
    <3> HIDE DEF d
    <3> QED BY <3>1, <3>2, <3>3 DEF TypeOK, Held
  <2> QED BY <2>1, <2>2 DEF Background
<1>3. Grow /\ \A t \in Token : Held(t)' => users[sessions'[t].user] # None
  BY <1>1, <1>2 DEF Grow, workVars, Creds
<1>4. Calls'
  BY <1>1, <1>3, KeepCall DEF Calls
<1> QED BY <1>1, <1>2, <1>3, <1>4, SessionsKeep DEF TypeOK

\* Only the keys change, and every one is its account's.
LEMMA KeysKeep ==
  ASSUME IInv, NEW r \in Request, Respond(r), UNCHANGED <<users, sessions, begun, workVars>>,
         keys' \in [Key -> KeyRow \cup {None}], Grow,
         \A k \in Key : keys'[k] # None =>
             users[keys'[k].user] # None /\ keys'[k].ws = users[keys'[k].user].ws
  PROVE IInv'
<1> USE DEF IInv
<1>1. TypeOK'
  BY RespondCall DEF TypeOK, workVars
<1>2. Creds' /\ Placed'
  BY DEF Creds, Placed, Registered, Held
<1>3. Calls'
  BY RespondCall, KeepCalls
<1> QED BY <1>1, <1>2, <1>3, KeepWork

LEMMA CreateKeyKeeps ==
  ASSUME IInv, NEW r \in Request, CreateKey(r), UNCHANGED workVars
  PROVE IInv'
<1> USE DEF IInv
<1>1. req[r] # None /\ UNCHANGED <<users, sessions, begun>> /\ Respond(r)
  BY DEF CreateKey, At
<1>2. CASE keys' = keys
  <2>1. Grow
    BY <1>1, <1>2 DEF Grow, workVars
  <2> QED BY <1>1, <1>2, <2>1, KeysKeep DEF Creds, TypeOK
<1>3. ASSUME NEW x \in Key, req[r].by # None, keys[x] = None,
             keys' = [keys EXCEPT ![x] = [user |-> req[r].by, ws |-> users[req[r].by].ws,
                                          revoked |-> FALSE]]
      PROVE IInv'
  <2> DEFINE d == [user |-> req[r].by, ws |-> users[req[r].by].ws, revoked |-> FALSE]
  <2>1. req[r].by \in Email /\ users[req[r].by] # None
    BY <1>1, <1>3 DEF TypeOK, Call, Calls, CallOK, Known
  <2>2. users[req[r].by] \in Account
    BY <2>1 DEF TypeOK
  <2>3. d \in KeyRow /\ d.user = req[r].by /\ d.ws = users[d.user].ws
    BY <2>1, <2>2 DEF KeyRow, Account
  <2>4. keys' = [keys EXCEPT ![x] = d]
    BY <1>3
  <2>5. /\ keys' \in [Key -> KeyRow \cup {None}] /\ keys'[x] = d
        /\ \A k \in Key \ {x} : keys'[k] = keys[k]
    <3> HIDE DEF d
    <3> QED BY <2>3, <2>4 DEF TypeOK
  <2>6. Grow
    <3> HIDE DEF d
    <3> QED BY <1>1, <1>3, <2>5 DEF Grow, workVars
  <2>7. \A k \in Key : keys'[k] # None =>
            users[keys'[k].user] # None /\ keys'[k].ws = users[keys'[k].user].ws
    <3> HIDE DEF d
    <3> QED BY <2>1, <2>3, <2>5 DEF Creds
  <2> QED BY <1>1, <2>5, <2>6, <2>7, KeysKeep
<1> QED BY <1>2, <1>3 DEF CreateKey

LEMMA RevokeKeyKeeps ==
  ASSUME IInv, NEW r \in Request, RevokeKey(r), UNCHANGED workVars
  PROVE IInv'
<1> USE DEF IInv
<1>1. req[r] # None /\ req[r].step = "revoke_key"
      /\ UNCHANGED <<users, sessions, begun>> /\ Respond(r)
  BY DEF RevokeKey, At
<1>2. CASE keys' = keys
  <2>1. Grow
    BY <1>1, <1>2 DEF Grow, workVars
  <2> QED BY <1>1, <1>2, <2>1, KeysKeep DEF Creds, TypeOK
<1>3. CASE keys[req[r].arg] # None /\ keys' = [keys EXCEPT ![req[r].arg].revoked = TRUE]
  <2> DEFINE x == req[r].arg
             d == [keys[x] EXCEPT !.revoked = TRUE]
  <2>1. x \in Key
    BY <1>1 DEF Calls, CallOK
  <2>2. keys[x] \in KeyRow
    BY <1>3, <2>1 DEF TypeOK
  <2>3. d \in KeyRow /\ d.user = keys[x].user /\ d.ws = keys[x].ws /\ d # None
    <3>1. d \in KeyRow /\ d.user = keys[x].user /\ d.ws = keys[x].ws
      BY <2>2 DEF KeyRow
    <3> QED BY <3>1, NoneAssumption
  <2>4. keys' = [keys EXCEPT ![x] = d]
    BY <1>3
  <2>5. /\ keys' \in [Key -> KeyRow \cup {None}] /\ keys'[x] = d
        /\ \A k \in Key \ {x} : keys'[k] = keys[k]
    <3> HIDE DEF d, x
    <3> QED BY <2>1, <2>3, <2>4 DEF TypeOK
  <2>6. Grow
    <3> HIDE DEF d, x
    <3> QED BY <1>1, <2>1, <2>3, <2>5 DEF Grow, workVars
  <2>7. \A k \in Key : keys'[k] # None =>
            users[keys'[k].user] # None /\ keys'[k].ws = users[keys'[k].user].ws
    <3>1. keys[x] # None
      BY <1>3
    <3> HIDE DEF d, x
    <3> QED BY <2>1, <2>3, <2>5, <3>1 DEF Creds
  <2> QED BY <1>1, <2>5, <2>6, <2>7, KeysKeep
<1> QED BY <1>2, <1>3 DEF RevokeKey
----------------------------------------------------------------------------
LEMMA LessThanIsWellFounded == IsWellFoundedOn({s \in Nat \X Nat : s[1] < s[2]}, Nat)
  BY NatLessThanWellFounded DEF OpToRel

LEMMA MaxExists ==
  ASSUME NEW S \in SUBSET Nat, S # {}, NEW B \in Nat, \A n \in S : n <= B
  PROVE \E m \in S : \A n \in S : n <= m
<1> DEFINE T == {B - n : n \in S}
           Rel == {s \in Nat \X Nat : s[1] < s[2]}
<1>1. T \in SUBSET Nat /\ T # {}
  <2>1. \A n \in S : B - n \in Nat
    OBVIOUS
  <2>2. PICK n \in S : TRUE
    OBVIOUS
  <2>3. B - n \in T
    BY <2>2
  <2> QED BY <2>1, <2>3
<1>2. \E x \in T : \A y \in T : ~ (<<y, x>> \in Rel)
  <2> HIDE DEF T
  <2> QED BY <1>1, LessThanIsWellFounded, WFMin
<1>3. PICK x \in T : \A y \in T : ~ (y < x)
  BY <1>1, <1>2
<1>4. PICK m \in S : x = B - m
  BY <1>3
<1>5. \A n \in S : ~ (B - n < x)
  BY <1>3
<1> QED BY <1>4, <1>5

LEMMA HighestNumber ==
  ASSUME TypeOK, Bounded, NEW J \in SUBSET Made
  PROVE HighestOf(J) \in Nat
<1>1. CASE J = {}
  BY <1>1 DEF HighestOf
<1>2. CASE J # {}
  <2> DEFINE S == {jobs[j].seq : j \in J}
  <2>1. \A j \in J : jobs[j].seq \in Nat
    BY DEF TypeOK, Made, JobRow
  <2>2. PICK B \in Nat : \A j \in J : jobs[j].seq <= B
    BY DEF Bounded
  <2>3. S \in SUBSET Nat /\ S # {} /\ \A n \in S : n <= B
    BY <1>2, <2>1, <2>2
  <2>4. \E m \in S : \A n \in S : n <= m
    <3> HIDE DEF S
    <3> QED BY <2>2, <2>3, MaxExists
  <2>5. \E m \in S : \A j \in J : jobs[j].seq <= m
    BY <2>4
  <2>6. HighestOf(J) = CHOOSE m \in S : \A j \in J : jobs[j].seq <= m
    BY <1>2 DEF HighestOf
  <2>7. HighestOf(J) \in S
    <3> HIDE DEF S
    <3> QED BY <2>5, <2>6
  <2> QED BY <2>3, <2>7
<1> QED BY <1>1, <1>2
----------------------------------------------------------------------------
LEMMA CountKeeps ==
  ASSUME IInv, NEW r \in Request, Count(r)
  PROVE IInv'
<1> USE DEF IInv
<1> DEFINE v == NumberedIn(req[r].ctx)
           d == [req[r] EXCEPT !.step = "number", !.found = v]
<1>1. req[r] # None /\ UNCHANGED <<accountVars, begun, workVars>>
      /\ req' = [req EXCEPT ![r] = d]
  BY DEF Count, At
<1>2. req[r] \in Call /\ CallOK(r)
  BY <1>1 DEF TypeOK, Calls
<1>3. v \in SUBSET Job /\ v \subseteq Made
  BY DEF NumberedIn, Made, There
<1>4. /\ d \in Call /\ d.step = "number" /\ d.found = v /\ d.by = req[r].by
      /\ d.ctx = req[r].ctx /\ d.with = req[r].with /\ d.arg = req[r].arg
      /\ d.since = req[r].since
  <2> HIDE DEF v
  <2> QED BY <1>2, <1>3 DEF Call, Step
<1>5. /\ req' \in [Request -> Call \cup {None}] /\ req'[r] = d
      /\ \A q \in Request \ {r} : req'[q] = req[q]
  <2> HIDE DEF d
  <2> QED BY <1>1, <1>4 DEF TypeOK
<1>6. CallOK(r)'
  <2> HIDE DEF d, v
  <2> QED BY <1>1, <1>2, <1>3, <1>4, <1>5
          DEF CallOK, Known, Home, Registered, Made, accountVars, workVars
<1> QED BY <1>1, <1>5, <1>6, MoveKeeps

\* A new job belongs to the workspace of its request, and nothing refers to it yet.
LEMMA NumberKeeps ==
  ASSUME IInv, NEW r \in Request, Number(r)
  PROVE IInv'
<1> USE DEF IInv
<1>1. req[r] # None /\ req[r].step = "number" /\ Respond(r)
      /\ UNCHANGED <<accountVars, begun, rows, due, flight, shown>>
  BY DEF Number, At
<1>2. req[r] \in Call /\ CallOK(r)
  BY <1>1 DEF TypeOK, Calls
<1> DEFINE n == HighestOf(req[r].found) + 1
           d == [ws |-> req[r].ctx, seq |-> n, there |-> TRUE,
                 by |-> req[r].by, after |-> req[r].found, stray |-> Address]
<1>3. PICK x \in Job, step \in {"queued", "running"} :
          jobs[x] = None /\ jobs' = [jobs EXCEPT ![x] = d] /\ task' = [task EXCEPT ![x] = step]
  BY DEF Number
<1>4. req[r].found \in SUBSET Made /\ Made \subseteq Job
  BY <1>1, <1>2 DEF CallOK, Made
<1>5. n \in Nat \ {0}
  BY <1>4, HighestNumber
<1>6. d \in JobRow /\ d.ws = req[r].ctx /\ d.by = req[r].by /\ d.seq = n /\ d.stray = Address
  <2> HIDE DEF n
  <2> QED BY <1>2, <1>4, <1>5 DEF JobRow, Call
<1>7. d # None
  BY <1>6, NoneAssumption
<1>8. /\ jobs' \in [Job -> JobRow \cup {None}] /\ jobs'[x] = d
      /\ \A j \in Job \ {x} : jobs'[j] = jobs[j]
      /\ task' \in [Job -> {"queued", "running", "ended", None}] /\ task'[x] # None
      /\ \A j \in Job \ {x} : task'[j] = task[j]
  <2> HIDE DEF d
  <2>1. step \in {"queued", "running", "ended"} /\ step # None
    BY <1>3, NoneAssumption
  <2> QED BY <1>3, <1>6, <2>1 DEF TypeOK
<1> HIDE DEF d, n
<1>9. TypeOK'
  BY <1>1, <1>8, RespondCall DEF TypeOK, accountVars
<1>10. Grow
  BY <1>1, <1>3, <1>8 DEF Grow, accountVars
<1>11. Made' = Made \cup {x} /\ x \notin Made
  BY <1>3, <1>7, <1>8 DEF Made
<1>12. Bounded'
  <2>1. PICK m \in Nat : \A j \in Made : jobs[j].seq <= m
    BY DEF Bounded
  <2>2. m + n \in Nat /\ n <= m + n /\ m <= m + n
    BY <1>5
  <2>3. \A j \in Made : jobs[j].seq \in Nat
    BY DEF TypeOK, Made, JobRow
  <2>4. \A j \in Made' : jobs'[j].seq <= m + n
    BY <1>4, <1>5, <1>6, <1>8, <1>11, <2>1, <2>2, <2>3
  <2> QED BY <2>2, <2>4 DEF Bounded
<1>13. Owned'
  <2>1. Known(req[r].by) /\ d.ws = Home(req[r].by)
    BY <1>2, <1>6 DEF CallOK
  <2>2. \A j \in Made : Known(jobs[j].by) /\ jobs[j].ws = Home(jobs[j].by)
    BY DEF Owned
  <2>3. users' = users
    BY <1>1 DEF accountVars
  <2> SUFFICES ASSUME NEW j \in Made' PROVE Known(jobs[j].by)' /\ jobs'[j].ws = Home(jobs[j].by)'
    BY DEF Owned
  <2>4. CASE j = x
    BY <2>4, <2>1, <2>3, <1>6, <1>8 DEF Known, Home
  <2>5. CASE j # x
    BY <2>5, <2>2, <2>3, <1>4, <1>8, <1>11 DEF Known, Home
  <2> QED BY <2>4, <2>5
<1>14. Tables'
  BY <1>1, <1>4, <1>8, <1>11 DEF Tables, In
<1>15. Tasks'
  BY <1>8, <1>11 DEF Tasks
<1>16. Shown'
  <2> SUFFICES ASSUME NEW s \in shown PROVE Known(s[1])' /\ In(s[2], Home(s[1]))'
    BY <1>1 DEF Shown
  <2> QED BY <1>1, <1>4, <1>8, <1>11 DEF Shown, Known, Home, In, accountVars
<1>17. Swept'
  <2> SUFFICES ASSUME NEW j \in Made', NEW a \in Address
               PROVE (a \in jobs[j].stray \/ Bare(j, a))'
    BY DEF Swept
  <2>1. CASE j = x
    BY <2>1, <1>6, <1>8
  <2>2. CASE j # x
    <3>1. j \in Made /\ jobs'[j] = jobs[j] /\ task'[j] = task[j]
      BY <2>2, <1>4, <1>8, <1>11
    <3> QED BY <1>1, <3>1 DEF Swept, Bare
  <2> QED BY <2>1, <2>2
<1>18. Calls'
  BY <1>1, <1>10, RespondCall, KeepCalls
<1> QED BY <1>1, <1>9, <1>12, <1>13, <1>14, <1>15, <1>16, <1>17, <1>18, KeepAccounts

\* A request that is answered, after what changed of jobs and addresses only.
LEMMA ShowKeeps ==
  ASSUME IInv, NEW r \in Request, Show(r)
  PROVE IInv'
<1> USE DEF IInv
<1> DEFINE ws == req[r].ctx
           js == {j \in Job : Found(j, ws)} \cup ({rows[ws][a] : a \in Address} \ {None})
<1>1. req[r] # None /\ Respond(r)
      /\ UNCHANGED <<accountVars, begun, jobs, rows, task, due, flight>>
      /\ shown' = shown \cup {<<req[r].by, j>> : j \in js}
  BY DEF Show, At
<1>2. req[r] \in Call /\ CallOK(r)
  BY <1>1 DEF TypeOK, Calls
<1>3. ws \in Workspace /\ req[r].by \in Email \cup {None}
  BY <1>2 DEF Call
<1>4. \A j \in js : In(j, ws)
  <2>1. \A j \in Job : Found(j, ws) => In(j, ws)
    BY DEF Found, There, In, Made
  <2>2. \A a \in Address : rows[ws][a] # None => In(rows[ws][a], ws)
    BY <1>3 DEF Tables
  <2> HIDE DEF ws
  <2> QED BY <2>1, <2>2
<1>5. js \subseteq Job
  BY <1>4 DEF In, Made
<1>6. Known(req[r].by) /\ ws = Home(req[r].by)
  BY <1>2 DEF CallOK
<1> HIDE DEF js, ws
<1>7. TypeOK'
  BY <1>1, <1>3, <1>5, RespondCall DEF TypeOK, accountVars
<1>8. Grow
  BY <1>1 DEF Grow, accountVars
<1>9. Calls'
  BY <1>1, <1>8, RespondCall, KeepCalls
<1>10. Bounded' /\ Tasks' /\ Swept' /\ Tables'
  BY <1>1 DEF Bounded, Tasks, Swept, Bare, Tables, Made, In
<1>11. Owned'
  BY <1>1 DEF Owned, Made, Known, Home, accountVars
<1>12. Shown'
  <2> SUFFICES ASSUME NEW s \in shown' PROVE Known(s[1])' /\ In(s[2], Home(s[1]))'
    BY DEF Shown
  <2>1. Known(s[1]) /\ In(s[2], Home(s[1]))
    <3>1. CASE s \in shown
      BY <3>1 DEF Shown
    <3>2. CASE s \in {<<req[r].by, j>> : j \in js}
      BY <3>2, <1>4, <1>6
    <3> QED BY <3>1, <3>2, <1>1
  <2> QED BY <2>1, <1>1 DEF Known, Home, In, Made, accountVars
<1> QED BY <1>1, <1>7, <1>9, <1>10, <1>11, <1>12, KeepAccounts

LEMMA FindForDeleteKeeps ==
  ASSUME IInv, NEW r \in Request, FindForDelete(r)
  PROVE IInv'
<1> USE DEF IInv
<1>1. req[r] # None /\ req[r].step \in {"delete", "delete_all"}
      /\ UNCHANGED <<accountVars, begun, workVars>>
  BY DEF FindForDelete, At
<1>2. CASE Respond(r)
  BY <1>1, <1>2, RespondCall, MoveKeeps
<1>3. ASSUME NEW s \in {"drop", "sweep_rows"}, Found(req[r].arg, req[r].ctx), Goto(r, s)
      PROVE IInv'
  <2>1. s \in Step
    BY DEF Step
  <2>2. CallOK(r)
    BY <1>1 DEF Calls
  <2>3. req[r].arg \in Made /\ jobs[req[r].arg].ws = req[r].ctx
    BY <1>1, <1>3, <2>2 DEF CallOK, Found, There, Made
  <2>4. CallOK(r)'
    BY <1>1, <1>3, <2>1, <2>2, <2>3, GotoCall
       DEF CallOK, Known, Home, Registered, Made, accountVars, workVars
  <2> QED BY <1>1, <1>3, <2>1, <2>4, GotoCall, MoveKeeps
<1> QED BY <1>2, <1>3 DEF FindForDelete
----------------------------------------------------------------------------
\* A step that leaves alone whose job is whose, and shows nothing.
LEMMA WorkKeeps ==
  ASSUME IInv, TypeOK', Calls', UNCHANGED <<accountVars, shown>>,
         \A j \in Job : /\ jobs'[j] = None <=> jobs[j] = None
                        /\ jobs[j] # None => /\ jobs'[j].ws = jobs[j].ws
                                             /\ jobs'[j].by = jobs[j].by
                                             /\ jobs'[j].seq = jobs[j].seq,
         Tables', Tasks', Swept'
  PROVE IInv'
<1> USE DEF IInv
<1>1. Made' = Made /\ Made \subseteq Job
  BY DEF Made
<1>2. Bounded'
  BY <1>1 DEF Bounded, Made
<1>3. Owned'
  BY <1>1 DEF Owned, Made, Known, Home, accountVars
<1>4. Shown'
  <2> SUFFICES ASSUME NEW s \in shown PROVE Known(s[1])' /\ In(s[2], Home(s[1]))'
    BY DEF Shown
  <2>1. Known(s[1]) /\ In(s[2], Home(s[1]))
    BY DEF Shown
  <2> QED BY <2>1, <1>1 DEF Known, Home, In, Made, accountVars
<1> QED BY <1>2, <1>3, <1>4, KeepAccounts

\* A step of a deletion that takes a job's name out of tables of its workspace, and
\* notes for which addresses it may come back.
LEMMA SweepKeeps ==
  ASSUME IInv, NEW r \in Request, req[r] # None,
         req[r].step \in {"sweep_rows", "sweep_retries"},
         NEW s \in {"sweep_retries", "drop"}, Goto(r, s),
         UNCHANGED <<accountVars, begun, task, flight, shown>>,
         NEW q \in SUBSET Address,
         jobs' = [jobs EXCEPT ![req[r].arg].stray = q],
         rows' \in {rows, [rows EXCEPT ![req[r].ctx] = Without(@, req[r].arg)]},
         due' \in {due, [due EXCEPT ![req[r].ctx] = Without(@, req[r].arg)]},
         UnderWay(req[r].arg, req[r].ctx) \subseteq q,
         \A a \in Address \ q : /\ rows'[req[r].ctx][a] # req[r].arg
                                /\ due'[req[r].ctx][a] # req[r].arg
  PROVE IInv'
<1> USE DEF IInv
<1> DEFINE ws == req[r].ctx
           x == req[r].arg
           d == [jobs[x] EXCEPT !.stray = q]
<1>1. jobs' = [jobs EXCEPT ![x] = d]
  OBVIOUS
<1>2. req[r] \in Call /\ CallOK(r)
  BY DEF TypeOK, Calls
<1>3. x \in Job /\ jobs[x] # None /\ jobs[x].ws = ws /\ ws \in Workspace
  BY <1>2 DEF CallOK, Call, Made
<1>4. jobs[x] \in JobRow
  BY <1>3 DEF TypeOK
<1>5. d \in JobRow /\ d.ws = ws /\ d.by = jobs[x].by /\ d.seq = jobs[x].seq /\ d.stray = q
  BY <1>3, <1>4 DEF JobRow
<1>6. d # None
  BY <1>5, NoneAssumption
<1>7. /\ jobs' \in [Job -> JobRow \cup {None}] /\ jobs'[x] = d
      /\ \A j \in Job \ {x} : jobs'[j] = jobs[j]
  <2> HIDE DEF d, x
  <2> QED BY <1>1, <1>3, <1>5 DEF TypeOK
<1>8. /\ rows' \in Table(Job)
      /\ \A w \in Workspace, a \in Address :
             rows'[w][a] = rows[w][a] \/ (w = ws /\ rows[w][a] = x /\ rows'[w][a] = None)
  <2>1. CASE rows' = rows
    BY <2>1 DEF TypeOK
  <2>2. CASE rows' = [rows EXCEPT ![ws] = Without(@, x)]
    <3> HIDE DEF x, ws
    <3> QED BY <2>2, <1>3 DEF TypeOK, Table, Without
  <2> QED BY <2>1, <2>2
<1>9. /\ due' \in Table(Job)
      /\ \A w \in Workspace, a \in Address :
             due'[w][a] = due[w][a] \/ (w = ws /\ due[w][a] = x /\ due'[w][a] = None)
  <2>1. CASE due' = due
    BY <2>1 DEF TypeOK
  <2>2. CASE due' = [due EXCEPT ![ws] = Without(@, x)]
    <3> HIDE DEF x, ws
    <3> QED BY <2>2, <1>3 DEF TypeOK, Table, Without
  <2> QED BY <2>1, <2>2
<1>10. s \in Step
  BY DEF Step
<1>11. TypeOK'
  BY <1>7, <1>8, <1>9, <1>10, GotoCall DEF TypeOK, accountVars
<1> HIDE DEF d
<1>12. \A j \in Job : /\ jobs'[j] = None <=> jobs[j] = None
                      /\ jobs[j] # None => /\ jobs'[j].ws = jobs[j].ws
                                           /\ jobs'[j].by = jobs[j].by
                                           /\ jobs'[j].seq = jobs[j].seq
  BY <1>3, <1>5, <1>6, <1>7
<1>13. Made' = Made /\ Grow
  BY <1>12 DEF Made, Grow, accountVars
<1>14. CallOK(r)'
  <2>1. /\ req'[r].step = s /\ req'[r].by = req[r].by /\ req'[r].ctx = req[r].ctx
        /\ req'[r].with = req[r].with /\ req'[r].arg = req[r].arg
        /\ req'[r].since = req[r].since
    BY <1>10, GotoCall
  <2>2. req'[r].arg \in Made' /\ jobs'[req'[r].arg].ws = req'[r].ctx
    BY <1>3, <1>12, <1>13, <2>1 DEF Made
  <2>3. s # "signup" /\ s # "register" /\ s # "place" /\ s # "insert" /\ s # "login"
        /\ s # "number" /\ s # "revoke_key" /\ s # "delete" /\ s # "delete_all"
    OBVIOUS
  <2>4. users' = users /\ keys' = keys
    BY DEF accountVars
  <2>5. /\ Known(req[r].by) /\ req[r].ctx = Home(req[r].by)
        /\ req[r].by # None /\ req[r].with.key # None =>
               keys[req[r].with.key] # None /\ keys[req[r].with.key].user = req[r].by
        /\ req[r].since \subseteq Registered
    BY <1>2 DEF CallOK
  <2>6. /\ Known(req[r].by)' /\ req'[r].ctx = Home(req[r].by)'
        /\ req'[r].by # None /\ req'[r].with.key # None =>
               keys'[req'[r].with.key] # None /\ keys'[req'[r].with.key].user = req'[r].by
        /\ req'[r].since \subseteq Registered'
    BY <2>1, <2>4, <2>5 DEF Known, Home, Registered
  <2> QED BY <2>1, <2>2, <2>3, <2>6 DEF CallOK
<1>15. Calls'
  BY <1>10, <1>13, <1>14, GotoCall, KeepCalls
<1>16. /\ UnderWay(x, ws) \subseteq q
       /\ \A a \in Address \ q : rows'[ws][a] # x /\ due'[ws][a] # x
  OBVIOUS
<1> HIDE DEF x, ws
<1>17. Tables'
  BY <1>8, <1>9, <1>12, <1>13 DEF Tables, In, Made
<1>18. Tasks'
  BY <1>13 DEF Tasks
<1>19. Swept'
  <2> SUFFICES ASSUME NEW j \in Made, NEW a \in Address, a \notin jobs'[j].stray
               PROVE Bare(j, a)'
    BY <1>13 DEF Swept
  <2>1. j \in Job /\ j # None
    BY NoneAssumption DEF Made
  <2>2. CASE j # x
    <3>1. Bare(j, a)
      BY <2>1, <2>2, <1>7 DEF Swept
    <3> QED BY <2>1, <3>1, <1>8, <1>9 DEF Bare
  <2>3. CASE j = x
    <3>1. a \notin q
      BY <2>3, <1>5, <1>7
    <3>2. task[x] = "ended" /\ (flight[ws][a] # None => flight[ws][a].job # x /\ flight[ws][a].to # x)
      BY <3>1, <1>16 DEF UnderWay
    <3>3. rows'[ws][a] # x /\ due'[ws][a] # x
      BY <3>1, <1>16
    <3>4. \A w \in Workspace \ {ws} :
            /\ rows[w][a] # x /\ due[w][a] # x
            /\ flight[w][a] # None => flight[w][a].job # x /\ flight[w][a].to # x
      BY <1>3, <2>1, <2>3 DEF Tables, In
    <3>5. \A w \in Workspace \ {ws} : rows'[w][a] # x /\ due'[w][a] # x
      BY <3>4, <1>8, <1>9
    <3> QED BY <2>3, <3>2, <3>3, <3>4, <3>5 DEF Bare
  <2> QED BY <2>2, <2>3
<1> QED BY <1>11, <1>12, <1>15, <1>17, <1>18, <1>19, WorkKeeps

\* The rows go, and whatever could write them again is noted: the retries that are
\* pending included.
LEMMA SweepRowsKeeps ==
  ASSUME IInv, NEW r \in Request, SweepRows(r)
  PROVE IInv'
<1> DEFINE ws == req[r].ctx
           x == req[r].arg
           q == UnderWay(x, ws) \cup {a \in Address : due[ws][a] = x}
<1>1. /\ req[r] # None /\ req[r].step = "sweep_rows" /\ Goto(r, "sweep_retries")
      /\ UNCHANGED <<accountVars, begun, task, due, flight, shown>>
      /\ rows' = [rows EXCEPT ![ws] = Without(@, x)]
      /\ jobs' = [jobs EXCEPT ![x].stray = q]
  BY DEF SweepRows, At
<1>2. q \in SUBSET Address /\ UnderWay(x, ws) \subseteq q
  BY DEF UnderWay
<1>3. ws \in Workspace /\ x # None
  BY <1>1, NoneAssumption DEF IInv, TypeOK, Call, Calls, CallOK, Made
<1>4. \A a \in Address \ q : rows'[ws][a] # x /\ due'[ws][a] # x
  <2>1. \A a \in Address : rows'[ws][a] # x
    <3> HIDE DEF x, ws
    <3> QED BY <1>1, <1>3 DEF IInv, TypeOK, Table, Without
  <2> QED BY <1>1, <2>1
<1> HIDE DEF q
<1> QED BY <1>1, <1>2, <1>4, SweepKeeps

\* The retries go, and what was written again meanwhile is noted as well.
LEMMA SweepRetriesKeeps ==
  ASSUME IInv, NEW r \in Request, SweepRetries(r)
  PROVE IInv'
<1> DEFINE ws == req[r].ctx
           x == req[r].arg
           q == UnderWay(x, ws) \cup {a \in jobs[x].stray : rows[ws][a] = x}
<1>1. /\ req[r] # None /\ req[r].step = "sweep_retries" /\ Goto(r, "drop")
      /\ UNCHANGED <<accountVars, begun, rows, task, flight, shown>>
      /\ due' = [due EXCEPT ![ws] = Without(@, x)]
  BY DEF SweepRetries, At
<1>2. ws \in Workspace /\ x # None /\ x \in Made /\ x \in Job
  BY <1>1, NoneAssumption DEF IInv, TypeOK, Call, Calls, CallOK, Made
<1>3. jobs' = [jobs EXCEPT ![x].stray = q]
  BY DEF SweepRetries
<1>4. q \in SUBSET Address /\ UnderWay(x, ws) \subseteq q
  <2>1. jobs[x] \in JobRow
    BY <1>2 DEF IInv, TypeOK, Made
  <2>2. jobs[x].stray \subseteq Address
    BY <2>1 DEF JobRow
  <2> QED BY <2>2 DEF UnderWay
<1>5. \A a \in Address \ q : rows'[ws][a] # x /\ due'[ws][a] # x
  <2>1. \A a \in Address : due'[ws][a] # x
    <3> HIDE DEF x, ws
    <3> QED BY <1>1, <1>2 DEF IInv, TypeOK, Table, Without
  <2>2. \A a \in Address \ jobs[x].stray : rows[ws][a] # x
    BY <1>2 DEF IInv, Swept, Bare
  <2> QED BY <1>1, <2>1, <2>2
<1> HIDE DEF q
<1> QED BY <1>1, <1>3, <1>4, <1>5, SweepKeeps

LEMMA DropKeeps ==
  ASSUME IInv, NEW r \in Request, Drop(r)
  PROVE IInv'
<1> USE DEF IInv
<1> DEFINE x == req[r].arg
           d == [jobs[x] EXCEPT !.there = FALSE]
<1>1. /\ req[r] # None /\ req[r].step = "drop" /\ Respond(r)
      /\ UNCHANGED <<accountVars, begun, rows, task, due, flight, shown>>
      /\ jobs' \in {jobs, [jobs EXCEPT ![x] = d]}
  BY DEF Drop, At
<1>2. req[r] \in Call /\ CallOK(r)
  BY <1>1 DEF TypeOK, Calls
<1>3. x \in Job /\ jobs[x] # None
  BY <1>1, <1>2 DEF CallOK, Made
<1>4. jobs[x] \in JobRow
  BY <1>3 DEF TypeOK
<1>5. /\ d \in JobRow /\ d.ws = jobs[x].ws /\ d.by = jobs[x].by /\ d.seq = jobs[x].seq
      /\ d.stray = jobs[x].stray
  BY <1>4 DEF JobRow
<1>6. d # None
  BY <1>5, NoneAssumption
<1> HIDE DEF d, x
<1>7. /\ jobs' \in [Job -> JobRow \cup {None}]
      /\ \A j \in Job : /\ jobs'[j] = None <=> jobs[j] = None
                        /\ jobs[j] # None => /\ jobs'[j].ws = jobs[j].ws
                                             /\ jobs'[j].by = jobs[j].by
                                             /\ jobs'[j].seq = jobs[j].seq
                                             /\ jobs'[j].stray = jobs[j].stray
  <2>1. CASE jobs' = jobs
    BY <2>1 DEF TypeOK
  <2>2. CASE jobs' = [jobs EXCEPT ![x] = d]
    BY <2>2, <1>3, <1>5, <1>6 DEF TypeOK
  <2> QED BY <1>1, <2>1, <2>2
<1>8. TypeOK'
  BY <1>1, <1>7, RespondCall DEF TypeOK, accountVars
<1>9. Made' = Made /\ Grow
  BY <1>1, <1>7 DEF Made, Grow, accountVars
<1>10. Calls'
  BY <1>1, <1>9, RespondCall, KeepCalls
<1>11. Tables'
  BY <1>1, <1>7, <1>9 DEF Tables, In, Made
<1>12. Tasks'
  BY <1>1, <1>9 DEF Tasks
<1>13. Swept'
  BY <1>1, <1>7, <1>9 DEF Swept, Bare, Made
<1> QED BY <1>1, <1>7, <1>8, <1>10, <1>11, <1>12, <1>13, WorkKeeps
----------------------------------------------------------------------------
\* The runs and the retries, which know of no request.
RunStep(j) == Start(j) \/ Record(j) \/ End(j)
RetryStep(w, a) == Claim(w, a) \/ Defer(w, a) \/ Settle(w, a) \/ Update(w, a)

\* A step that leaves accounts, requests and jobs alone.
LEMMA TablesKeep ==
  ASSUME IInv, UNCHANGED <<accountVars, req, begun, jobs, shown>>,
         rows' \in Table(Job), due' \in Table(Job), flight' \in Table(Flight),
         task' \in [Job -> {"queued", "running", "ended", None}],
         Tables', Tasks', Swept'
  PROVE IInv'
<1> USE DEF IInv
<1>1. TypeOK'
  BY DEF TypeOK, accountVars
<1>2. Grow
  BY DEF Grow, accountVars
<1>3. Calls'
  BY <1>2, KeepCall DEF Calls
<1> QED BY <1>1, <1>3, WorkKeeps

LEMMA TaskKeeps ==
  ASSUME IInv, NEW x \in Job, NEW s \in {"running", "ended"}, task[x] \in {"queued", "running"},
         task' = [task EXCEPT ![x] = s],
         UNCHANGED <<accountVars, req, begun, jobs, rows, due, flight, shown>>
  PROVE IInv'
<1> USE DEF IInv
<1>1. task' \in [Job -> {"queued", "running", "ended", None}]
  BY DEF TypeOK
<1>2. Tables'
  BY DEF Tables, In, Made
<1>3. x \in Made
  BY NoneAssumption DEF Tasks
<1>4. Tasks'
  BY <1>3 DEF Tasks, TypeOK, Made
<1>5. Swept'
  <2> SUFFICES ASSUME NEW j \in Made, NEW a \in Address, Bare(j, a) PROVE task'[j] = "ended"
    BY DEF Swept, Bare, Made
  <2>1. task[j] = "ended" /\ j \in Job
    BY DEF Bare, Made
  <2> QED BY <2>1 DEF TypeOK
<1> QED BY <1>1, <1>2, <1>4, <1>5, TablesKeep DEF TypeOK

LEMMA RecordKeeps ==
  ASSUME IInv, NEW x \in Job, Record(x)
  PROVE IInv'
<1> USE DEF IInv
<1> DEFINE ws == jobs[x].ws
<1>1. task[x] = "running" /\ UNCHANGED <<accountVars, req, begun, jobs, task, flight, shown>>
  BY DEF Record
<1>2. PICK a \in Address : /\ rows' = [rows EXCEPT ![ws][a] = x]
                           /\ due' \in {due, [due EXCEPT ![ws][a] = x]}
  BY DEF Record
<1>3. x \in Made
  BY <1>1, NoneAssumption DEF Tasks
<1>4. ws \in Workspace /\ In(x, ws) /\ \A b \in Address : b \in jobs[x].stray
  <2>1. jobs[x] \in JobRow
    BY <1>3 DEF TypeOK, Made
  <2> QED BY <1>1, <1>3, <2>1 DEF JobRow, In, Swept, Bare
<1> HIDE DEF ws
<1>5. /\ rows' \in Table(Job)
      /\ \A w \in Workspace, b \in Address : rows'[w][b] # rows[w][b] => w = ws /\ rows'[w][b] = x
  BY <1>2, <1>4 DEF TypeOK, Table
<1>6. /\ due' \in Table(Job)
      /\ \A w \in Workspace, b \in Address : due'[w][b] # due[w][b] => w = ws /\ due'[w][b] = x
  <2>1. CASE due' = due
    BY <2>1 DEF TypeOK
  <2>2. CASE due' = [due EXCEPT ![ws][a] = x]
    BY <2>2, <1>4 DEF TypeOK, Table
  <2> QED BY <1>2, <2>1, <2>2
<1>7. Tables'
  BY <1>1, <1>4, <1>5, <1>6 DEF Tables, In, Made
<1>8. Tasks'
  BY <1>1 DEF Tasks, Made
<1>9. Swept'
  BY <1>1, <1>4, <1>5, <1>6 DEF Swept, Bare, Made
<1> QED BY <1>1, <1>5, <1>6, <1>7, <1>8, <1>9, TablesKeep DEF TypeOK

LEMMA RunKeeps ==
  ASSUME IInv, NEW x \in Job, RunStep(x)
  PROVE IInv'
<1>1. CASE Start(x)
  BY <1>1, TaskKeeps DEF Start
<1>2. CASE Record(x)
  BY <1>2, RecordKeeps
<1>3. CASE End(x)
  BY <1>3, TaskKeeps DEF End
<1> QED BY <1>1, <1>2, <1>3 DEF RunStep

\* A retry's entry is overwritten with a job of the same workspace that was there.
LEMMA RetryKeeps ==
  ASSUME IInv, NEW w \in Workspace, NEW a \in Address,
         UNCHANGED <<accountVars, req, begun, jobs, task, shown>>,
         NEW v \in Job \cup {None}, NEW u \in Job \cup {None}, NEW f \in Flight \cup {None},
         rows' = [rows EXCEPT ![w][a] = v], due' = [due EXCEPT ![w][a] = u],
         flight' = [flight EXCEPT ![w][a] = f],
         \A j \in {v, u} \cup (IF f = None THEN {} ELSE {f.job, f.to}) :
             j # None => In(j, w) /\ a \in jobs[j].stray,
         f # None => f.job # None
  PROVE IInv'
<1> USE DEF IInv
<1>1. /\ rows' \in Table(Job) /\ rows'[w][a] = v
      /\ \A x \in Workspace, b \in Address : <<x, b>> # <<w, a>> => rows'[x][b] = rows[x][b]
  BY DEF TypeOK, Table
<1>2. /\ due' \in Table(Job) /\ due'[w][a] = u
      /\ \A x \in Workspace, b \in Address : <<x, b>> # <<w, a>> => due'[x][b] = due[x][b]
  BY DEF TypeOK, Table
<1>3. /\ flight' \in Table(Flight) /\ flight'[w][a] = f
      /\ \A x \in Workspace, b \in Address : <<x, b>> # <<w, a>> => flight'[x][b] = flight[x][b]
  BY DEF TypeOK, Table
<1>4. Tables'
  <2> SUFFICES ASSUME NEW x \in Workspace, NEW b \in Address
               PROVE /\ rows'[x][b] # None => In(rows'[x][b], x)
                     /\ due'[x][b] # None => In(due'[x][b], x)
                     /\ flight'[x][b] # None =>
                            /\ In(flight'[x][b].job, x)
                            /\ flight'[x][b].to # None => In(flight'[x][b].to, x)
    BY DEF Tables, In, Made
  <2>1. CASE <<x, b>> = <<w, a>>
    BY <2>1, <1>1, <1>2, <1>3
  <2>2. CASE <<x, b>> # <<w, a>>
    BY <2>2, <1>1, <1>2, <1>3 DEF Tables
  <2> QED BY <2>1, <2>2
<1>5. Tasks'
  BY DEF Tasks, Made
<1>6. Swept'
  <2> SUFFICES ASSUME NEW j \in Made, NEW b \in Address, b \notin jobs[j].stray,
                      Bare(j, b), NEW x \in Workspace
               PROVE /\ rows'[x][b] # j /\ due'[x][b] # j
                     /\ flight'[x][b] # None =>
                            flight'[x][b].job # j /\ flight'[x][b].to # j
    BY DEF Swept, Bare, Made
  <2>1. j # None
    BY NoneAssumption DEF Made
  <2>2. CASE <<x, b>> = <<w, a>>
    BY <2>1, <2>2, <1>1, <1>2, <1>3
  <2>3. CASE <<x, b>> # <<w, a>>
    BY <2>3, <1>1, <1>2, <1>3 DEF Bare
  <2> QED BY <2>2, <2>3
<1> QED BY <1>1, <1>2, <1>3, <1>4, <1>5, <1>6, TablesKeep DEF TypeOK

LEMMA RetryStepKeeps ==
  ASSUME IInv, NEW w \in Workspace, NEW a \in Address, RetryStep(w, a)
  PROVE IInv'
<1> USE DEF IInv
<1> DEFINE v == rows[w][a]
           u == due[w][a]
           f == flight[w][a]
<1>1. /\ v \in Job \cup {None} /\ u \in Job \cup {None} /\ f \in Flight \cup {None}
      /\ rows = [rows EXCEPT ![w][a] = v] /\ due = [due EXCEPT ![w][a] = u]
      /\ UNCHANGED <<accountVars, req, begun, jobs, task, shown>>
  <2>1. /\ rows[w] \in [Address -> Job \cup {None}] /\ due[w] \in [Address -> Job \cup {None}]
        /\ flight[w] \in [Address -> Flight \cup {None}]
        /\ rows \in Table(Job) /\ due \in Table(Job)
    BY DEF TypeOK, Table
  <2>2. rows[w] = [rows[w] EXCEPT ![a] = v] /\ due[w] = [due[w] EXCEPT ![a] = u]
    BY <2>1
  <2>3. rows = [rows EXCEPT ![w][a] = v] /\ due = [due EXCEPT ![w][a] = u]
    BY <2>1, <2>2 DEF Table
  <2> QED BY <2>1, <2>3 DEF RetryStep, Claim, Defer, Settle, Update
<1>2. f # None => f.job \in Job /\ f.to \in Job \cup {None} /\ f.job # None
  BY <1>1, NoneAssumption DEF Flight
<1>3. \A j \in {v, u} \cup (IF f = None THEN {} ELSE {f.job, f.to}) :
          j # None => In(j, w) /\ a \in jobs[j].stray
  <2>1. /\ v # None => In(v, w)
        /\ u # None => In(u, w)
        /\ f # None => In(f.job, w) /\ (f.to # None => In(f.to, w))
    BY DEF Tables
  <2>2. \A j \in Made : a \in jobs[j].stray \/
            (v # j /\ u # j /\ (f # None => f.job # j /\ f.to # j))
    BY DEF Swept, Bare
  <2>3. \A j : In(j, w) => j \in Made
    BY DEF In
  <2> HIDE DEF v, u, f
  <2> QED BY <2>1, <2>2, <2>3
<1>4. CASE Claim(w, a)
  <2> DEFINE g == [job |-> u, to |-> None]
  <2>1. u # None /\ UNCHANGED <<rows, due>> /\ flight' = [flight EXCEPT ![w][a] = g]
    BY <1>4 DEF Claim
  <2>2. g \in Flight /\ g.job = u /\ g.to = None
    BY <1>1, <2>1 DEF Flight
  <2> HIDE DEF v, u, f, g
  <2> QED BY <1>1, <1>3, <2>1, <2>2, RetryKeeps
<1>5. CASE Defer(w, a)
  <2>1. f # None /\ UNCHANGED rows /\ due' = [due EXCEPT ![w][a] = f.job]
        /\ flight' = [flight EXCEPT ![w][a] = None]
    BY <1>5 DEF Defer
  <2> HIDE DEF v, u, f
  <2> QED BY <1>1, <1>2, <1>3, <2>1, RetryKeeps
<1>6. CASE Settle(w, a)
  <2> DEFINE to == IF v = None THEN f.job ELSE v
             g == [f EXCEPT !.to = to]
  <2>1. f # None /\ UNCHANGED rows /\ due' = [due EXCEPT ![w][a] = None]
        /\ flight' = [flight EXCEPT ![w][a] = g]
    BY <1>6 DEF Settle
  <2>2. g \in Flight /\ g.job = f.job /\ g.to = to
    <3>1. f \in Flight /\ to \in Job
      BY <1>1, <1>2, <2>1
    <3> HIDE DEF f, to
    <3> QED BY <3>1 DEF Flight
  <2>3. to \in {f.job, v}
    OBVIOUS
  <2> HIDE DEF v, u, f, g, to
  <2>4. \A j \in {v, None} \cup (IF g = None THEN {} ELSE {g.job, g.to}) :
            j # None => In(j, w) /\ a \in jobs[j].stray
    BY <1>2, <1>3, <2>1, <2>2, <2>3
  <2> QED BY <1>1, <1>2, <2>1, <2>2, <2>4, RetryKeeps
<1>7. CASE Update(w, a)
  <2>1. f # None /\ UNCHANGED due /\ rows' = [rows EXCEPT ![w][a] = f.to]
        /\ flight' = [flight EXCEPT ![w][a] = None]
    BY <1>7 DEF Update
  <2> HIDE DEF v, u, f
  <2> QED BY <1>1, <1>2, <1>3, <2>1, RetryKeeps
<1> QED BY <1>4, <1>5, <1>6, <1>7 DEF RetryStep
----------------------------------------------------------------------------
LEMMA NextKeeps == IInv /\ [Next]_vars => IInv'
<1> SUFFICES ASSUME IInv, [Next]_vars PROVE IInv'
  OBVIOUS
<1>1. ASSUME NEW r \in Request, AccountStep(r), UNCHANGED workVars PROVE IInv'
  BY <1>1, SignupKeeps, RegisterKeeps, PlaceKeeps, InsertKeeps, SessionMovesKeep,
     CreateKeyKeeps, RevokeKeyKeeps DEF AccountStep
<1>2. ASSUME NEW r \in Request,
             Begin(r) \/ Count(r) \/ Number(r) \/ Show(r) \/ FindForDelete(r)
                 \/ SweepRows(r) \/ SweepRetries(r) \/ Drop(r)
      PROVE IInv'
  BY <1>2, BeginKeeps, CountKeeps, NumberKeeps, ShowKeeps, FindForDeleteKeeps,
     SweepRowsKeeps, SweepRetriesKeeps, DropKeeps
<1>3. ASSUME NEW j \in Job, Start(j) \/ Record(j) \/ End(j) PROVE IInv'
  BY <1>3, RunKeeps DEF RunStep
<1>4. ASSUME NEW w \in Workspace, NEW a \in Address,
             Claim(w, a) \/ Defer(w, a) \/ Settle(w, a) \/ Update(w, a)
      PROVE IInv'
  BY <1>4, RetryStepKeeps DEF RetryStep
<1>5. CASE Background /\ UNCHANGED workVars
  BY <1>5, BackgroundKeeps
<1>6. CASE UNCHANGED vars
  <2>1. UNCHANGED <<accountVars, req, begun, jobs, rows, task, due, flight, shown>>
    BY <1>6 DEF vars, accountVars
  <2>2. Tables' /\ Tasks' /\ Swept'
    BY <2>1 DEF IInv, Tables, Tasks, Swept, Bare, In, Made
  <2> QED BY <2>1, <2>2, TablesKeep DEF IInv, TypeOK
<1> QED BY <1>1, <1>2, <1>3, <1>4, <1>5, <1>6 DEF Next

LEMMA Invariance == Spec => []IInv
  BY InitInv, NextKeeps, PTL DEF Spec

\* The tables hold what their types say (auth.py, jobs/store.py, addresses.py), in
\* every state and for any number of accounts, requests and jobs.
THEOREM TypeCorrect == Spec => []TypeOK
<1>1. IInv => TypeOK
  BY DEF IInv
<1> QED BY <1>1, Invariance, PTL

\* No job, address row or retry is ever in a workspace its creator does not work in,
\* and nobody is shown one of another workspace: the scoping of the stores by the
\* bound context and the workspace_id of the job agree (tenancy.py, jobs/store.py).
THEOREM WorkspacesApart == Spec => []Apart
<1>1. IInv => Apart
  BY DEF IInv, Apart, Owned, Tables, Shown, In
<1> QED BY <1>1, Invariance, PTL

\* Two accounts share a workspace only when both signed up while there was none
\* (auth.create_user, which counts the accounts and inserts in two statements).
THEOREM AccountsApart == Spec => []OwnWorkspace
<1>1. IInv => OwnWorkspace
  <2> SUFFICES ASSUME IInv, NEW d \in Registered, NEW e \in Registered, d # e,
                      users[d].ws = users[e].ws
               PROVE d \notin users[e].since /\ e \notin users[d].since
    BY DEF OwnWorkspace
  <2>1. users[d].ws \in {d, Configured} /\ users[e].ws \in {e, Configured}
    BY DEF IInv, Placed
  <2>2. users[d].ws = Configured /\ users[e].ws = Configured
    BY <2>1
  <2> QED BY <2>2 DEF IInv, Placed
<1> QED BY <1>1, Invariance, PTL

\* A job deleted with its addresses comes back only at an address that its run, or a
\* retry under way or claimed between the two deletions, was still to write; at any
\* other there is neither a row nor a retry of it again (delete_job, delete_by_job).
THEOREM DeletedStaysDeleted == Spec => []SweptStaysSwept
<1>1. IInv => SweptStaysSwept
  BY DEF IInv, SweptStaysSwept, Swept, Bare
<1> QED BY <1>1, Invariance, PTL

\* A request that brings a key acts for the account the key was issued to, or for
\* nobody: never for that of a cookie sent with it (security.resolve_identity).
THEOREM ActsForItsOwner == Spec => []ActsAsPresented
<1>1. IInv => ActsAsPresented
  <2> SUFFICES ASSUME IInv, NEW r \in Request, req[r] # None, req[r].by # None,
                      req[r].with.key # None
               PROVE keys[req[r].with.key] # None /\ keys[req[r].with.key].user = req[r].by
    BY DEF ActsAsPresented
  <2> QED BY DEF IInv, Calls, CallOK
<1> QED BY <1>1, Invariance, PTL
----------------------------------------------------------------------------
(* The numbers of the jobs.  A request that is about to number a job holds *)
(* jobs of its own workspace, and the number it will spend is one above    *)
(* the highest of them, so no more than the jobs the workspace then has.   *)
InWorkspace(w) == {i \in Made : jobs[i].ws = w}

\* The same after a step.
InNext(w) == {i \in Made' : jobs'[i].ws = w}

Numbered ==
    /\ IsFiniteSet(Made)
    /\ \A j \in Made :
        /\ jobs[j].after \subseteq Made
        /\ \A i \in jobs[j].after : jobs[i].seq < jobs[j].seq
        /\ jobs[j].seq <= Cardinality(InWorkspace(jobs[j].ws))
    /\ \A r \in Request : At(r, "number") => req[r].found \subseteq InWorkspace(req[r].ctx)

\* A step that numbers no job.
NoneNumbered ==
    \A j \in Job : /\ jobs'[j] = None <=> jobs[j] = None
                   /\ jobs[j] # None => /\ jobs'[j].ws = jobs[j].ws
                                        /\ jobs'[j].seq = jobs[j].seq
                                        /\ jobs'[j].after = jobs[j].after

LEMMA NumberedStays ==
  ASSUME IInv, Numbered, NoneNumbered,
         \A q \in Request : At(q, "number")' => req'[q].found \subseteq InWorkspace(req'[q].ctx)
  PROVE Numbered'
<1>1. Made' = Made /\ Made \subseteq Job
  BY DEF Made, NoneNumbered
<1>2. \A w : InNext(w) = InWorkspace(w)
  BY <1>1 DEF InWorkspace, InNext, NoneNumbered, Made
<1>3. ASSUME NEW j \in Made
      PROVE /\ jobs'[j].after \subseteq Made'
            /\ \A i \in jobs'[j].after : jobs'[i].seq < jobs'[j].seq
            /\ jobs'[j].seq <= Cardinality(InNext(jobs'[j].ws))
  <2>1. /\ jobs'[j].after = jobs[j].after /\ jobs'[j].seq = jobs[j].seq
        /\ jobs'[j].ws = jobs[j].ws
    BY <1>1 DEF NoneNumbered, Made
  <2>2. /\ jobs[j].after \subseteq Made
        /\ \A i \in jobs[j].after : jobs[i].seq < jobs[j].seq
        /\ jobs[j].seq <= Cardinality(InWorkspace(jobs[j].ws))
    BY DEF Numbered
  <2>3. \A i \in jobs[j].after : jobs'[i].seq = jobs[i].seq
    BY <1>1, <2>2 DEF NoneNumbered, Made
  <2> QED BY <1>1, <1>2, <2>1, <2>2, <2>3
<1>4. \A q \in Request : At(q, "number")' => req'[q].found \subseteq InNext(req'[q].ctx)
  BY <1>2
<1>5. IsFiniteSet(Made')
  BY <1>1 DEF Numbered
<1> QED BY <1>1, <1>3, <1>4, <1>5 DEF Numbered, At, InWorkspace, InNext

\* The other requests have what they had.
LEMMA RequestNumbers ==
  ASSUME IInv, Numbered, NoneNumbered, NEW r \in Request,
         \A q \in Request \ {r} : req'[q] = req[q],
         At(r, "number")' => req'[r].found \subseteq InWorkspace(req'[r].ctx)
  PROVE Numbered'
<1>1. ASSUME NEW q \in Request, At(q, "number")'
      PROVE req'[q].found \subseteq InWorkspace(req'[q].ctx)
  BY <1>1 DEF Numbered, At
<1> QED BY <1>1, NumberedStays

\* The steps of the accounts, which leave the jobs alone.
LEMMA AccountNumbers ==
  ASSUME IInv, Numbered, NEW r \in Request, AccountStep(r), UNCHANGED workVars
  PROVE Numbered'
<1>1. NoneNumbered /\ TypeOK
  BY DEF NoneNumbered, workVars, IInv
<1>2. ASSUME NEW s \in {"register", "place"}, req[r] # None, Goto(r, s)
      PROVE Numbered'
  <2>1. s \in Step /\ s # "number"
    BY DEF Step
  <2> QED BY <1>1, <1>2, <2>1, GotoCall, RequestNumbers DEF At
<1>3. ASSUME Respond(r)
      PROVE Numbered'
  BY <1>1, <1>3, RespondCall, RequestNumbers DEF At
<1>4. ASSUME Place(r)
      PROVE Numbered'
  <2> DEFINE d == [req[r] EXCEPT !.step = "insert",
                                 !.found = IF Registered = {} THEN Configured ELSE req[r].arg]
  <2>1. req' = [req EXCEPT ![r] = d] /\ req[r] \in Call
    BY <1>1, <1>4 DEF Place, At, TypeOK
  <2>2. d.step = "insert"
    BY <2>1 DEF Call
  <2> HIDE DEF d
  <2>3. req'[r] = d /\ \A q \in Request \ {r} : req'[q] = req[q]
    BY <1>1, <2>1 DEF TypeOK
  <2> QED BY <1>1, <2>2, <2>3, RequestNumbers DEF At
<1> QED
  BY <1>2, <1>3, <1>4
     DEF AccountStep, Signup, Register, Insert, Login, Logout, CreateKey, RevokeKey, At

LEMMA BeginNumbers ==
  ASSUME IInv, Numbered, NEW r \in Request, Begin(r)
  PROVE Numbered'
<1>1. PICK p \in [cookie : Token \cup {None}, key : Key \cup {None}], ask \in Asks :
          Admit(r, p, ask[1], ask[2])
  BY DEF Begin
<1>2. PICK who \in {Identity(p), Nobody} :
          req' = [req EXCEPT ![r] = [step |-> ask[1], by |-> who.user, ctx |-> who.ws,
                                     with |-> p, arg |-> ask[2], found |-> None,
                                     since |-> Registered]]
  BY <1>1 DEF Admit
<1>3. ask[1] # "number"
  BY DEF Asks
<1>4. /\ req'[r].step = ask[1]
      /\ \A q \in Request \ {r} : req'[q] = req[q]
  BY <1>2 DEF IInv, TypeOK
<1>5. NoneNumbered
  BY DEF Begin, workVars, NoneNumbered
<1> QED BY <1>3, <1>4, <1>5, RequestNumbers DEF At

LEMMA CountNumbers ==
  ASSUME IInv, Numbered, NEW r \in Request, Count(r)
  PROVE Numbered'
<1> DEFINE v == NumberedIn(req[r].ctx)
           d == [req[r] EXCEPT !.step = "number", !.found = v]
<1>1. req[r] \in Call /\ req' = [req EXCEPT ![r] = d] /\ NoneNumbered
  BY DEF Count, At, IInv, TypeOK, workVars, NoneNumbered
<1>2. d.found = v /\ d.ctx = req[r].ctx
  BY <1>1 DEF Call
<1>3. v \subseteq InWorkspace(req[r].ctx)
  BY DEF NumberedIn, There, InWorkspace, Made
<1> HIDE DEF d, v
<1>4. req'[r] = d /\ \A q \in Request \ {r} : req'[q] = req[q]
  BY <1>1 DEF IInv, TypeOK
<1> QED BY <1>1, <1>2, <1>3, <1>4, RequestNumbers

\* The highest number is that of one of the jobs, and above none of the others.
LEMMA HighestIsOne ==
  ASSUME TypeOK, Bounded, NEW J \in SUBSET Made
  PROVE /\ J = {} => HighestOf(J) = 0
        /\ J # {} => \E j \in J : HighestOf(J) = jobs[j].seq
        /\ \A j \in J : jobs[j].seq <= HighestOf(J)
<1>1. CASE J = {}
  BY <1>1 DEF HighestOf
<1>2. CASE J # {}
  <2> DEFINE S == {jobs[j].seq : j \in J}
  <2>1. \A j \in J : jobs[j].seq \in Nat
    BY DEF TypeOK, Made, JobRow
  <2>2. PICK B \in Nat : \A j \in J : jobs[j].seq <= B
    BY DEF Bounded
  <2>3. S \in SUBSET Nat /\ S # {} /\ \A n \in S : n <= B
    BY <1>2, <2>1, <2>2
  <2>4. \E m \in S : \A n \in S : n <= m
    <3> HIDE DEF S
    <3> QED BY <2>2, <2>3, MaxExists
  <2>5. \E m \in S : \A j \in J : jobs[j].seq <= m
    BY <2>4
  <2>6. HighestOf(J) = CHOOSE m \in S : \A j \in J : jobs[j].seq <= m
    BY <1>2 DEF HighestOf
  <2>7. HighestOf(J) \in S /\ \A j \in J : jobs[j].seq <= HighestOf(J)
    <3> HIDE DEF S
    <3> QED BY <2>5, <2>6
  <2> QED BY <1>2, <2>7
<1> QED BY <1>1, <1>2

LEMMA NumberNumbers ==
  ASSUME IInv, Numbered, NEW r \in Request, Number(r)
  PROVE Numbered'
<1> USE DEF IInv
<1> DEFINE J == req[r].found
           ws == req[r].ctx
           n == HighestOf(J) + 1
           d == [ws |-> ws, seq |-> n, there |-> TRUE,
                 by |-> req[r].by, after |-> J, stray |-> Address]
           size(w) == Cardinality(InWorkspace(w))
<1>1. At(r, "number") /\ Respond(r)
  BY DEF Number
<1>2. PICK x \in Job : jobs[x] = None /\ jobs' = [jobs EXCEPT ![x] = d]
  BY DEF Number
<1>3. J \subseteq InWorkspace(ws) /\ J \subseteq Made
  BY <1>1 DEF Numbered, InWorkspace
<1>4. /\ HighestOf(J) \in Nat
      /\ J # {} => \E j \in J : HighestOf(J) = jobs[j].seq
      /\ J = {} => HighestOf(J) = 0
      /\ \A j \in J : jobs[j].seq <= HighestOf(J)
  BY <1>3, HighestIsOne, HighestNumber
<1>5. d # None /\ d.ws = ws /\ d.seq = n /\ d.after = J
  <2>1. req[r] \in Call /\ Made \subseteq Job
    BY <1>1 DEF At, TypeOK, Made
  <2>2. n \in Nat \ {0}
    BY <1>4
  <2> HIDE DEF n
  <2>3. d \in JobRow
    BY <1>3, <2>1, <2>2 DEF JobRow, Call
  <2> HIDE DEF d
  <2>4. d # None
    BY <2>3, NoneAssumption
  <2> QED BY <2>4 DEF d
<1> HIDE DEF d
<1>6. jobs'[x] = d /\ \A j \in Job \ {x} : jobs'[j] = jobs[j]
  BY <1>2 DEF TypeOK
<1>7. Made' = Made \cup {x} /\ x \notin Made /\ Made \subseteq Job
  BY <1>2, <1>5, <1>6 DEF Made
<1>8. \A w : InNext(w) = InWorkspace(w) \cup (IF w = ws THEN {x} ELSE {})
  BY <1>5, <1>6, <1>7 DEF InWorkspace, InNext
<1>9. IsFiniteSet(Made) /\ IsFiniteSet(Made')
  BY <1>7, FS_AddElement DEF Numbered
<1>10. \A w : /\ IsFiniteSet(InWorkspace(w)) /\ size(w) \in Nat
              /\ x \notin InWorkspace(w)
  <2> SUFFICES ASSUME NEW w
               PROVE /\ IsFiniteSet(InWorkspace(w)) /\ size(w) \in Nat
                     /\ x \notin InWorkspace(w)
    OBVIOUS
  <2>1. InWorkspace(w) \in SUBSET Made /\ x \notin InWorkspace(w)
    BY <1>7 DEF InWorkspace
  <2>2. IsFiniteSet(InWorkspace(w))
    BY <1>9, <2>1, FS_Subset
  <2> QED BY <2>1, <2>2, FS_CardinalityType
<1>11. \A w : Cardinality(InNext(w)) = size(w) + (IF w = ws THEN 1 ELSE 0)
  <2>1. Cardinality(InWorkspace(ws) \cup {x}) = size(ws) + 1
    BY <1>10, FS_AddElement
  <2>2. InNext(ws) = InWorkspace(ws) \cup {x}
    BY <1>8
  <2>3. \A w : w # ws => InNext(w) = InWorkspace(w)
    BY <1>8
  <2> QED BY <1>10, <2>1, <2>2, <2>3
<1>12. HighestOf(J) <= size(ws)
  <2>1. CASE J = {}
    BY <1>4, <1>10, <2>1
  <2>2. CASE J # {}
    <3>1. PICK j \in J : HighestOf(J) = jobs[j].seq
      BY <1>4, <2>2
    <3>2. j \in Made /\ jobs[j].ws = ws
      BY <1>3 DEF InWorkspace
    <3> QED BY <3>1, <3>2 DEF Numbered
  <2> QED BY <2>1, <2>2
<1> HIDE DEF size, J, ws, n
<1>13. n \in Nat /\ n <= size(ws) + 1 /\ \A j \in J : jobs[j].seq < n
  <2>1. \A j \in J : jobs[j].seq \in Nat
    BY <1>3 DEF TypeOK, Made, JobRow
  <2> QED BY <1>4, <1>10, <1>12, <2>1 DEF n
<1>14. ASSUME NEW j \in Made'
       PROVE /\ jobs'[j].after \subseteq Made'
             /\ \A i \in jobs'[j].after : jobs'[i].seq < jobs'[j].seq
             /\ jobs'[j].seq <= Cardinality(InNext(jobs'[j].ws))
  <2>1. \A i \in Made : jobs'[i] = jobs[i]
    BY <1>6, <1>7
  <2>2. CASE j = x
    <3>1. jobs'[j].after = J /\ jobs'[j].seq = n /\ jobs'[j].ws = ws
      BY <1>5, <1>6, <2>2
    <3>2. Cardinality(InNext(ws)) = size(ws) + 1
      BY <1>11
    <3> QED BY <1>3, <1>7, <1>13, <2>1, <3>1, <3>2
  <2>3. CASE j # x
    <3>1. j \in Made /\ jobs'[j] = jobs[j]
      BY <1>7, <2>1, <2>3
    <3>2. /\ jobs[j].after \subseteq Made
          /\ \A i \in jobs[j].after : jobs[i].seq < jobs[j].seq
          /\ jobs[j].seq <= size(jobs[j].ws)
      BY <3>1 DEF Numbered, size
    <3>3. Cardinality(InNext(jobs[j].ws)) \in {size(jobs[j].ws), size(jobs[j].ws) + 1}
      BY <1>10, <1>11
    <3>4. jobs[j].seq \in Nat /\ size(jobs[j].ws) \in Nat
      BY <1>10, <3>1 DEF TypeOK, Made, JobRow
    <3> QED BY <1>7, <2>1, <3>1, <3>2, <3>3, <3>4
  <2> QED BY <2>2, <2>3
<1>15. ASSUME NEW q \in Request, At(q, "number")'
       PROVE req'[q].found \subseteq InNext(req'[q].ctx)
  <2>1. req'[q] = req[q] /\ At(q, "number")
    BY <1>1, <1>15, RespondCall DEF At
  <2>2. req[q].found \subseteq InWorkspace(req[q].ctx)
    BY <2>1 DEF Numbered
  <2> QED BY <1>8, <2>1, <2>2
<1> QED BY <1>9, <1>14, <1>15 DEF Numbered, At, InWorkspace, InNext

\* What a deletion writes of a job is not its number.
LEMMA DeleteNumbers ==
  ASSUME IInv, Numbered, NEW r \in Request, FindForDelete(r) \/ SweepRows(r) \/ SweepRetries(r) \/ Drop(r)
  PROVE Numbered'
<1>0. TypeOK /\ "drop" \in Step /\ "sweep_rows" \in Step /\ "sweep_retries" \in Step
  BY DEF IInv, Step
<1>1. ASSUME NoneNumbered
      PROVE Numbered'
  <2>1. ASSUME NEW s \in {"drop", "sweep_rows", "sweep_retries"}, req[r] # None, Goto(r, s)
        PROVE Numbered'
    BY <1>0, <1>1, <2>1, GotoCall, RequestNumbers DEF At
  <2>2. ASSUME Respond(r)
        PROVE Numbered'
    BY <1>0, <1>1, <2>2, RespondCall, RequestNumbers DEF At
  <2> QED BY <2>1, <2>2 DEF FindForDelete, SweepRows, SweepRetries, Drop, At
<1>2. CASE FindForDelete(r)
  BY <1>1, <1>2 DEF FindForDelete, workVars, NoneNumbered
<1>3. ASSUME NEW x \in Job, jobs[x] \in JobRow, NEW d \in JobRow,
             d.ws = jobs[x].ws, d.seq = jobs[x].seq, d.after = jobs[x].after,
             jobs' = [jobs EXCEPT ![x] = d]
      PROVE Numbered'
  <2>1. d # None /\ jobs[x] # None
    BY <1>3, NoneAssumption
  <2>2. NoneNumbered
    BY <1>0, <1>3, <2>1 DEF NoneNumbered, TypeOK
  <2> QED BY <1>1, <2>2
<1>4. CASE SweepRows(r) \/ SweepRetries(r) \/ Drop(r)
  <2> DEFINE x == req[r].arg
             ws == req[r].ctx
             p == UnderWay(x, ws) \cup {a \in Address : due[ws][a] = x}
             q == UnderWay(x, ws) \cup {a \in jobs[x].stray : rows[ws][a] = x}
             s1 == [jobs[x] EXCEPT !.stray = p]
             s2 == [jobs[x] EXCEPT !.stray = q]
             t == [jobs[x] EXCEPT !.there = FALSE]
  <2>1. x \in Made
    BY <1>4 DEF SweepRows, SweepRetries, Drop, At, IInv, Calls, CallOK
  <2>2. x \in Job /\ jobs[x] \in JobRow
    BY <1>0, <2>1 DEF Made, TypeOK
  <2>3. \/ jobs' = [jobs EXCEPT ![x] = s1] \/ jobs' = [jobs EXCEPT ![x] = s2]
        \/ jobs' = [jobs EXCEPT ![x] = t] \/ jobs' = jobs
    BY <1>4 DEF SweepRows, SweepRetries, Drop
  <2>4. p \in SUBSET Address /\ q \in SUBSET Address
    <3>1. jobs[x].stray \subseteq Address
      BY <2>2 DEF JobRow
    <3> QED BY <3>1 DEF UnderWay
  <2> HIDE DEF p, q, x
  <2>5. \A s \in {s1, s2, t} : /\ s \in JobRow /\ s.ws = jobs[x].ws
                               /\ s.seq = jobs[x].seq /\ s.after = jobs[x].after
    BY <2>2, <2>4 DEF JobRow
  <2>6. jobs' = jobs => NoneNumbered
    BY DEF NoneNumbered
  <2> HIDE DEF s1, s2, t
  <2> QED BY <1>1, <1>3, <2>2, <2>3, <2>5, <2>6
<1> QED BY <1>2, <1>4

LEMMA NextNumbers == IInv /\ Numbered /\ [Next]_vars => Numbered'
<1> SUFFICES ASSUME IInv, Numbered, [Next]_vars PROVE Numbered'
  OBVIOUS
<1>1. ASSUME NEW r \in Request, AccountStep(r), UNCHANGED workVars PROVE Numbered'
  BY <1>1, AccountNumbers
<1>2. ASSUME NEW r \in Request,
             Begin(r) \/ Count(r) \/ Number(r) \/ FindForDelete(r) \/ SweepRows(r) \/ SweepRetries(r) \/ Drop(r)
      PROVE Numbered'
  BY <1>2, BeginNumbers, CountNumbers, NumberNumbers, DeleteNumbers
<1>3. ASSUME NEW r \in Request, Show(r) PROVE Numbered'
  <2>1. NoneNumbered /\ Respond(r) /\ TypeOK
    BY <1>3 DEF Show, NoneNumbered, IInv
  <2> QED BY <2>1, RespondCall, RequestNumbers DEF At
<1>4. ASSUME UNCHANGED <<req, jobs>> PROVE Numbered'
  <2>1. NoneNumbered
    BY <1>4 DEF NoneNumbered
  <2>2. \A q \in Request : At(q, "number")' => req'[q].found \subseteq InWorkspace(req'[q].ctx)
    BY <1>4 DEF At, Numbered
  <2> QED BY <2>1, <2>2, NumberedStays
<1>5. ASSUME NEW j \in Job, Start(j) \/ Record(j) \/ End(j) PROVE Numbered'
  BY <1>4, <1>5 DEF Start, Record, End
<1>6. ASSUME NEW w \in Workspace, NEW a \in Address,
             Claim(w, a) \/ Defer(w, a) \/ Settle(w, a) \/ Update(w, a)
      PROVE Numbered'
  BY <1>4, <1>6 DEF Claim, Defer, Settle, Update
<1>7. CASE (Background /\ UNCHANGED workVars) \/ UNCHANGED vars
  BY <1>4, <1>7 DEF Background, Purge, Lapse, workVars, vars
<1> QED BY <1>1, <1>2, <1>3, <1>5, <1>6, <1>7 DEF Next

\* A job's number is above those of the jobs its creation saw, and no number is
\* spent on another workspace's job (SqlJobStore.create, which reads the highest
\* number and inserts in two statements).
THEOREM NumbersRight == Spec => []NumbersCountUp
<1>1. Init => Numbered
  <2> SUFFICES ASSUME Init PROVE Numbered
    OBVIOUS
  <2>1. Made = {} /\ \A r \in Request : ~At(r, "number")
    BY DEF Init, AccountsInit, Made, At
  <2> QED BY <2>1, FS_EmptySet DEF Numbered
<1>2. Numbered => NumbersCountUp
  BY DEF Numbered, NumbersCountUp, InWorkspace
<1> QED BY <1>1, <1>2, Invariance, NextNumbers, PTL DEF Spec
----------------------------------------------------------------------------
\* A session that has not expired ends in no other way than the logout of its own
\* cookie, and a key is revoked by no one but its owner (auth.end_session,
\* purge_expired_sessions, revoke_api_key).
THEOREM OnlyTheirs == Spec => OnlyTheirOwn
<1> DEFINE Ended(t) == Held(t) /\ ~sessions[t].lapsed /\ sessions'[t] = Gone
           Revoked(k) == keys[k] # None /\ ~keys[k].revoked /\ keys'[k].revoked
           EndsOwn == \A t \in Token : Ended(t) =>
                          \E r \in Request : At(r, "logout") /\ req[r].with.cookie = t
           RevokesOwn == \A k \in Key : Revoked(k) =>
                          \E r \in Request : At(r, "revoke_key") /\ req[r].by = keys[k].user
<1>1. ASSUME UNCHANGED sessions PROVE EndsOwn
  BY <1>1 DEF Held
<1>2. ASSUME UNCHANGED keys PROVE RevokesOwn
  BY <1>2
<1>3. ASSUME IInv, NEW r \in Request, AccountStep(r) PROVE EndsOwn /\ RevokesOwn
  <2>0. TypeOK
    BY <1>3 DEF IInv
  <2>1. ASSUME NEW e, StartSession(e) PROVE EndsOwn
    <3>1. PICK u \in Token : /\ sessions[u] = None
                             /\ sessions' = [sessions EXCEPT ![u] = [user |-> e, lapsed |-> FALSE]]
      BY <2>1 DEF StartSession
    <3>2. \A t \in Token : Held(t) => sessions'[t] = sessions[t]
      BY <2>0, <3>1 DEF TypeOK, Held
    <3> QED BY <3>2 DEF Held
  <2>2. CASE Signup(r) \/ Register(r) \/ Place(r)
    BY <1>1, <1>2, <2>2 DEF Signup, Register, Place, accountVars
  <2>3. CASE Insert(r) \/ Login(r)
    <3>1. UNCHANGED keys
      BY <2>3 DEF Insert, Login
    <3>2. UNCHANGED sessions \/ StartSession(req[r].arg)
      BY <2>3 DEF Insert, Login
    <3> QED BY <1>1, <1>2, <2>1, <3>1, <3>2
  <2>4. CASE Logout(r)
    <3> DEFINE u == req[r].with.cookie
    <3>1. UNCHANGED keys /\ At(r, "logout")
          /\ (UNCHANGED sessions \/ sessions' = [sessions EXCEPT ![u] = Gone])
      BY <2>4 DEF Logout
    <3>2. CASE sessions' = [sessions EXCEPT ![u] = Gone]
      <4>1. \A t \in Token : t # u => sessions'[t] = sessions[t]
        BY <2>0, <3>2 DEF TypeOK
      <4>2. \A t \in Token : Ended(t) => t = u
        BY <4>1 DEF Held
      <4> QED BY <1>2, <3>1, <4>2
    <3> QED BY <1>1, <1>2, <3>1, <3>2
  <2>5. CASE CreateKey(r)
    <3>1. UNCHANGED sessions
      BY <2>5 DEF CreateKey
    <3>2. CASE req[r].by = None
      BY <1>1, <1>2, <2>5, <3>2 DEF CreateKey
    <3>3. CASE req[r].by # None
      <4>1. PICK k \in Key : /\ keys[k] = None
                             /\ keys' = [keys EXCEPT ![k] =
                                    [user |-> req[r].by, ws |-> users[req[r].by].ws,
                                     revoked |-> FALSE]]
        BY <2>5, <3>3 DEF CreateKey
      <4>2. \A c \in Key : keys[c] # None => keys'[c] = keys[c]
        BY <2>0, <4>1 DEF TypeOK
      <4> QED BY <1>1, <3>1, <4>2
    <3> QED BY <3>2, <3>3
  <2>6. CASE RevokeKey(r)
    <3> DEFINE k == req[r].arg
               d == [keys[k] EXCEPT !.revoked = TRUE]
    <3>1. UNCHANGED sessions /\ At(r, "revoke_key")
          /\ \/ UNCHANGED keys
             \/ keys[k].user = req[r].by /\ keys' = [keys EXCEPT ![k] = d]
      BY <2>6 DEF RevokeKey
    <3>2. CASE keys[k].user = req[r].by /\ keys' = [keys EXCEPT ![k] = d]
      <4> HIDE DEF d, k
      <4>1. \A c \in Key : c # k => keys'[c] = keys[c]
        BY <2>0, <3>2 DEF TypeOK
      <4>2. \A c \in Key : Revoked(c) => c = k
        BY <4>1
      <4> QED BY <1>1, <3>1, <3>2, <4>2
    <3> QED BY <1>1, <1>2, <3>1, <3>2
  <2> QED BY <1>3, <2>2, <2>3, <2>4, <2>5, <2>6 DEF AccountStep
<1>4. ASSUME IInv, Background PROVE EndsOwn /\ RevokesOwn
  <2>0. TypeOK /\ UNCHANGED keys
    BY <1>4 DEF IInv, Background, Purge, Lapse
  <2>1. CASE Purge
    <3>1. \A t \in Token : sessions'[t] =
              IF Held(t) /\ sessions[t].lapsed THEN Gone ELSE sessions[t]
      BY <2>1 DEF Purge
    <3>2. EndsOwn
      BY <3>1 DEF Held
    <3> QED BY <1>2, <2>0, <3>2
  <2>2. ASSUME NEW u \in Token, Lapse(u) PROVE EndsOwn
    <3> DEFINE d == [sessions[u] EXCEPT !.lapsed = TRUE]
    <3>1. sessions' = [sessions EXCEPT ![u] = d] /\ sessions[u] \in SessionRow
      BY <2>0, <2>2 DEF Lapse, Held, TypeOK
    <3>2. d \in SessionRow
      BY <3>1 DEF SessionRow
    <3> HIDE DEF d
    <3>3. \A t \in Token : sessions'[t] = sessions[t] \/ sessions'[t] \in SessionRow
      BY <2>0, <3>1, <3>2 DEF TypeOK
    <3> QED BY <3>3, NoneAssumption DEF Held
  <2> QED BY <1>2, <1>4, <2>0, <2>1, <2>2 DEF Background
<1>5. ASSUME IInv, Next PROVE EndsOwn /\ RevokesOwn
  <2>1. ASSUME UNCHANGED accountVars PROVE EndsOwn /\ RevokesOwn
    BY <1>1, <1>2, <2>1 DEF accountVars
  <2>2. ASSUME NEW r \in Request,
               Begin(r) \/ Count(r) \/ Number(r) \/ Show(r) \/ FindForDelete(r)
                   \/ SweepRows(r) \/ SweepRetries(r) \/ Drop(r)
        PROVE UNCHANGED accountVars
    BY <2>2 DEF Begin, Admit, Count, Number, Show, FindForDelete, SweepRows,
          SweepRetries, Drop
  <2>3. ASSUME NEW j \in Job, Start(j) \/ Record(j) \/ End(j)
        PROVE UNCHANGED accountVars
    BY <2>3 DEF Start, Record, End
  <2>4. ASSUME NEW w \in Workspace, NEW a \in Address,
               Claim(w, a) \/ Defer(w, a) \/ Settle(w, a) \/ Update(w, a)
        PROVE UNCHANGED accountVars
    BY <2>4 DEF Claim, Defer, Settle, Update
  <2> QED BY <1>3, <1>4, <1>5, <2>1, <2>2, <2>3, <2>4 DEF Next
<1>6. IInv /\ [Next]_vars => [EndsOwn /\ RevokesOwn]_vars
  BY <1>5
<1> QED BY <1>6, Invariance, PTL DEF Spec, OnlyTheirOwn
============================================================================
