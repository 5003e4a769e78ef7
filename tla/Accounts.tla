------------------------------ MODULE Accounts ------------------------------
(***************************************************************************)
(* Accounts, sessions and API keys (auth.py), and the middleware that      *)
(* resolves each request to a caller and binds the caller's workspace for  *)
(* as long as the request runs (api/security.py, tenancy.py).              *)
(*                                                                         *)
(* An account is named by its e-mail address, a fresh workspace by the     *)
(* account it was made for.  Passwords and digests are left out: whoever   *)
(* logs in as an account has its password, and a token or key that was     *)
(* never issued stands for every string that is none.                      *)
(***************************************************************************)
EXTENDS Naturals

CONSTANTS
    Email,          \* addresses accounts are made for
    Token,          \* session tokens
    Key,            \* API keys
    Request,        \* requests in flight at a time
    Configured,     \* EVE_WORKSPACE_ID
    RequireAuth,    \* EVE_REQUIRE_AUTH
    OpenSignup,     \* EVE_OPEN_SIGNUP
    MaxRequests,    \* bound on the requests of a behaviour
    None, Gone      \* no row, and a session's row after it was deleted

ASSUME AccountsAssumption ==
    /\ Configured \notin Email
    /\ None \notin Email \cup Token \cup Key \cup {Configured, Gone}
    /\ RequireAuth \in BOOLEAN /\ OpenSignup \in BOOLEAN
    /\ MaxRequests \in Nat

Workspace == Email \cup {Configured}

VARIABLES
    users,      \* [ws, since], by account; since: the accounts that were there
                \* when its signup came in, a history
    sessions,   \* [user, lapsed], by token
    keys,       \* [user, ws, revoked], by key
    req,        \* the requests in flight
    begun       \* requests so far

accountVars == <<users, sessions, keys>>

Registered == {e \in Email : users[e] # None}

AccountsInit ==
    /\ users = [e \in Email |-> None]
    /\ sessions = [t \in Token |-> None]
    /\ keys = [k \in Key |-> None]
    /\ req = [r \in Request |-> None]
    /\ begun = 0

\* A session row that is there.
Held(t) == sessions[t] \notin {None, Gone}
----------------------------------------------------------------------------
Nobody == [user |-> None, ws |-> Configured]

\* user_for_api_key: the key's own workspace wins.
KeyCaller(k) ==
    IF keys[k] # None /\ ~keys[k].revoked
    THEN [user |-> keys[k].user, ws |-> keys[k].ws] ELSE Nobody

\* user_for_session: a session that has expired is refused, purged or not.
SessionCaller(t) ==
    IF t # None /\ Held(t) /\ ~sessions[t].lapsed
    THEN [user |-> sessions[t].user, ws |-> users[sessions[t].user].ws] ELSE Nobody

\* Mutant: a rejected key falls through to the cookie.
IdentityFallingThrough(p) ==
    IF p.key # None /\ KeyCaller(p.key) # Nobody THEN KeyCaller(p.key)
    ELSE SessionCaller(p.cookie)

\* resolve_identity: a key that is presented decides, accepted or not.
Identity(p) == IF p.key # None THEN KeyCaller(p.key) ELSE SessionCaller(p.cookie)

Public == {"signup", "login", "logout"}

\* The middleware: identify the caller (nobody, when the store cannot be read),
\* turn an unknown one away from what is not public, and bind the workspace.
Admit(r, p, step, arg) ==
    /\ req[r] = None /\ begun < MaxRequests
    /\ \E who \in {Identity(p), Nobody} :
        /\ RequireAuth /\ who.user = None => step \in Public
        /\ req' = [req EXCEPT ![r] = [step |-> step, by |-> who.user, ctx |-> who.ws,
                                      with |-> p, arg |-> arg, found |-> None,
                                      since |-> Registered]]
    /\ begun' = begun + 1
    /\ UNCHANGED accountVars

Goto(r, step) == req' = [req EXCEPT ![r].step = step]
Respond(r) == req' = [req EXCEPT ![r] = None]
At(r, step) == req[r] # None /\ req[r].step = step
----------------------------------------------------------------------------
\* start_session: a token nobody was given before.
StartSession(e) == \E t \in Token :
    /\ sessions[t] = None
    /\ sessions' = [sessions EXCEPT ![t] = [user |-> e, lapsed |-> FALSE]]

\* signup_submit counts the accounts, and a closed engine takes only the first.
Signup(r) ==
    /\ At(r, "signup")
    /\ IF OpenSignup \/ Registered = {} THEN Goto(r, "register") ELSE Respond(r)
    /\ UNCHANGED <<accountVars, begun>>

\* create_user refuses an address it finds taken.
Register(r) ==
    /\ At(r, "register")
    /\ IF users[req[r].arg] # None THEN Respond(r) ELSE Goto(r, "place")
    /\ UNCHANGED <<accountVars, begun>>

\* Mutant: every account is placed in the workspace of the request.
PlaceInContext(r) ==
    /\ At(r, "place")
    /\ req' = [req EXCEPT ![r].step = "insert", ![r].found = req[r].ctx]
    /\ UNCHANGED <<accountVars, begun>>

\* Mutant: only the first account is given a workspace.
PlaceNowhere(r) ==
    /\ At(r, "place")
    /\ req' = [req EXCEPT ![r].step = "insert",
                          ![r].found = IF Registered = {} THEN Configured ELSE None]
    /\ UNCHANGED <<accountVars, begun>>

\* create_user counts again: the first account adopts the configured workspace,
\* a later one has a fresh one.
Place(r) ==
    /\ At(r, "place")
    /\ req' = [req EXCEPT ![r].step = "insert",
                          ![r].found = IF Registered = {} THEN Configured ELSE req[r].arg]
    /\ UNCHANGED <<accountVars, begun>>

\* The insert, which the unique address refuses to the slower of two, and the
\* session of the new account.
Insert(r) ==
    /\ At(r, "insert")
    /\ IF users[req[r].arg] # None THEN UNCHANGED <<users, sessions>>
       ELSE /\ users' = [users EXCEPT ![req[r].arg] =
                   [ws |-> req[r].found, since |-> req[r].since]]
            /\ StartSession(req[r].arg)
    /\ Respond(r)
    /\ UNCHANGED <<keys, begun>>

\* login_submit, by somebody who has the account's password.
Login(r) ==
    /\ At(r, "login")
    /\ req[r].arg \in Registered /\ StartSession(req[r].arg)
    /\ Respond(r)
    /\ UNCHANGED <<users, keys, begun>>

\* logout ends the session of the cookie, whoever the middleware says calls.
Logout(r) ==
    /\ At(r, "logout")
    /\ LET t == req[r].with.cookie IN
       sessions' = IF t # None /\ Held(t) THEN [sessions EXCEPT ![t] = Gone] ELSE sessions
    /\ Respond(r)
    /\ UNCHANGED <<users, keys, begun>>

\* create_key: a key for the caller's account and its workspace; without a
\* caller the request is refused.
CreateKey(r) ==
    /\ At(r, "create_key")
    /\ IF req[r].by = None THEN UNCHANGED keys
       ELSE \E k \in Key :
            /\ keys[k] = None
            /\ keys' = [keys EXCEPT ![k] =
                   [user |-> req[r].by, ws |-> users[req[r].by].ws, revoked |-> FALSE]]
    /\ Respond(r)
    /\ UNCHANGED <<users, sessions, begun>>

\* revoke_key: only a key of the caller's own.
RevokeKey(r) ==
    /\ At(r, "revoke_key")
    /\ LET k == req[r].arg IN
       keys' = IF req[r].by # None /\ keys[k] # None /\ keys[k].user = req[r].by
               THEN [keys EXCEPT ![k].revoked = TRUE] ELSE keys
    /\ Respond(r)
    /\ UNCHANGED <<users, sessions, begun>>

\* A session's expires_at passes.
Lapse(t) ==
    /\ Held(t) /\ ~sessions[t].lapsed
    /\ sessions' = [sessions EXCEPT ![t].lapsed = TRUE]
    /\ UNCHANGED <<users, keys, req, begun>>

\* Mutant: the janitor deletes every session it finds.
PurgeAll ==
    /\ \E t \in Token : Held(t)
    /\ sessions' = [t \in Token |-> IF Held(t) THEN Gone ELSE sessions[t]]
    /\ UNCHANGED <<users, keys, req, begun>>

\* The janitor deletes the sessions that have expired.
Purge ==
    /\ \E t \in Token : Held(t) /\ sessions[t].lapsed
    /\ sessions' = [t \in Token |->
           IF Held(t) /\ sessions[t].lapsed THEN Gone ELSE sessions[t]]
    /\ UNCHANGED <<users, keys, req, begun>>

AccountStep(r) ==
    \/ Signup(r) \/ Register(r) \/ Place(r) \/ Insert(r)
    \/ Login(r) \/ Logout(r) \/ CreateKey(r) \/ RevokeKey(r)

Background == Purge \/ \E t \in Token : Lapse(t)
============================================================================
