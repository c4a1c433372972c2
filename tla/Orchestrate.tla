----------------------------- MODULE Orchestrate -----------------------------
(***************************************************************************)
(* The client of OONI's orchestrate service (ooni/orchestrate.cpp and      *)
(* orchestrate_impl.hpp).  The caller registers the probe and then updates *)
(* what the service knows of it, each time with the credentials that the   *)
(* operation before returned.  The service is external: its answer may be  *)
(* an error, and the answer to a login may lack a field.                   *)
(***************************************************************************)
EXTENDS Integers, Sequences

CONSTANTS
  MaxOps,  \* bound: how many operations the caller starts
  MaxTime, \* bound: how far the clock goes
  Lifetime \* for how long the service accepts a token

VARIABLES
  pc,         \* the callback that is awaited
  open,       \* connections held: none, each request closes its own
  calls,      \* how many times cb was called
  failure,    \* the error that it is called with
  op,         \* the operation that runs
  ops,        \* how many the caller started
  now,        \* the clock of the probe
  username,   \* whether auth.username is there
  password,   \* whether auth.password is there
  auth_token, \* auth.auth_token, a position in issued, or 0 when it is empty
  expiry,     \* auth.expiry_time, or -1 when it cannot be parsed
  logged_in,  \* auth.logged_in
  issued,     \* external: when each token of the service expires
  cut         \* history: the answer to the last login had no token, or an empty one

auth == <<username, password, auth_token, expiry, logged_in>>
service == <<issued, cut>>
vars == <<pc, open, calls, failure, op, ops, now, auth, service>>

Init ==
  /\ pc = "start" /\ open = 0 /\ calls = 0 /\ failure = "none"
  /\ op = "none" /\ ops = 0 /\ now = 0
  /\ username = FALSE /\ password = FALSE /\ auth_token = 0 /\ expiry = -1 /\ logged_in = FALSE
  /\ issued = <<>> /\ cut = FALSE

CallBack(err) ==
  /\ pc' = "done" /\ calls' = calls + 1 /\ failure' = err
  /\ UNCHANGED <<open, op, ops, now>>

Goto(next) ==
  /\ pc' = next
  /\ UNCHANGED <<open, calls, failure, op, ops, now>>

\* Mutant: a token is good for as long as there is one.
IsThere == logged_in /\ auth_token # 0

is_valid == logged_in /\ auth_token # 0 /\ expiry # -1 /\ expiry >= now

Forget == username' = FALSE /\ auth_token' = 0 /\ expiry' = -1 /\ logged_in' = FALSE

\* ctx_retrieve_missing_meta_(): the location is looked up unless it is known.
\* A registration starts from fresh credentials, which hold nothing but the password.
Begin ==
  /\ pc = "start"
  /\ pc' \in {"locate", "located"} /\ ops' = ops + 1
  /\ \/ op' = "register" /\ Forget /\ password' \in BOOLEAN
     \/ op' = "update" /\ UNCHANGED auth
  /\ UNCHANGED <<open, calls, failure, now, service>>

LocateFails == pc = "locate" /\ CallBack("location") /\ UNCHANGED <<auth, service>>
Located == pc = "locate" /\ Goto("located") /\ UNCHANGED <<auth, service>>

\* register_probe_(): the metadata lack something.
RegisterRefused ==
  /\ pc = "located" /\ op = "register"
  /\ CallBack("metadata")
  /\ UNCHANGED <<auth, service>>

Register ==
  /\ pc = "located" /\ op = "register"
  /\ Goto("register")
  /\ UNCHANGED <<auth, service>>

RegisterFails ==
  /\ pc = "register"
  /\ CallBack("register")
  /\ UNCHANGED <<auth, service>>

Registered ==
  /\ pc = "register" /\ CallBack("none")
  /\ username' = TRUE
  /\ UNCHANGED <<password, auth_token, expiry, logged_in, service>>

\* maybe_login(): a valid token is used, and there is no login without a user name and a
\* password.
TokenValid ==
  /\ pc = "located" /\ op = "update" /\ is_valid
  /\ Goto("put")
  /\ UNCHANGED <<auth, service>>

NoCredentials ==
  /\ pc = "located" /\ op = "update" /\ ~is_valid /\ ~(username /\ password)
  /\ CallBack("credentials")
  /\ UNCHANGED <<auth, service>>

Login ==
  /\ pc = "located" /\ op = "update" /\ ~is_valid /\ username /\ password
  /\ Goto("login")
  /\ UNCHANGED <<auth, service>>

LoginFails == pc = "login" /\ CallBack("login") /\ UNCHANGED <<auth, service>>

\* The fields of the answer are taken one by one: without a token, the new expiry
\* time stays with the old token.
LoginCut ==
  /\ pc = "login" /\ CallBack("json")
  /\ expiry' \in {-1, now + Lifetime} /\ cut' = TRUE
  /\ UNCHANGED <<username, password, auth_token, logged_in, issued>>

\* An expiry time that cannot be parsed is stored as it is, and so is an empty token: the
\* update is sent with it, and the next one logs in again.
LoggedIn ==
  /\ pc = "login" /\ Goto("put")
  /\ \/ issued' = Append(issued, now + Lifetime) /\ auth_token' = Len(issued') /\ cut' = FALSE
     \/ auth_token' = 0 /\ cut' = TRUE /\ UNCHANGED issued
  /\ expiry' \in {-1, now + Lifetime} /\ logged_in' = TRUE
  /\ UNCHANGED <<username, password>>

\* Mutant: an update that fails returns empty credentials.
PutForgets ==
  /\ pc = "put"
  /\ \E err \in {"none", "put"} :
       /\ CallBack(err)
       /\ IF err = "none" THEN UNCHANGED auth ELSE Forget /\ UNCHANGED password
  /\ UNCHANGED service

\* The answer to the update; the credentials come back with an error too.
Put ==
  /\ pc = "put"
  /\ \E err \in {"none", "put"} : CallBack(err)
  /\ UNCHANGED <<auth, service>>

Tick ==
  /\ pc \in {"locate", "login", "put", "done"} /\ now < MaxTime
  /\ now' = now + 1
  /\ UNCHANGED <<pc, open, calls, failure, op, ops, auth, service>>

\* The caller starts its next operation with the credentials that came back.
Again ==
  /\ pc = "done" /\ ops < MaxOps
  /\ pc' = "start" /\ calls' = 0 /\ failure' = "none"
  /\ UNCHANGED <<open, op, ops, now, auth, service>>

Next ==
  \/ Begin \/ LocateFails \/ Located \/ RegisterRefused \/ Register \/ RegisterFails
  \/ Registered \/ TokenValid \/ NoCredentials \/ Login \/ LoginFails \/ LoginCut \/ LoggedIn
  \/ Put \/ Tick \/ Again

Spec == Init /\ [][Next]_vars

-----------------------------------------------------------------------------
TypeOK ==
  /\ calls \in 0..1 /\ ops \in 0..MaxOps /\ now \in 0..MaxTime
  /\ issued \in Seq(Nat) /\ auth_token \in 0..Len(issued)
  /\ username \in BOOLEAN /\ password \in BOOLEAN /\ logged_in \in BOOLEAN
  /\ cut \in BOOLEAN /\ expiry \in Int

\* An update is sent with a token that the service still accepts, unless the answer to the
\* last login came without its token or with an empty one; and it gives back the user name
\* that it was given, whatever goes wrong, so that the probe need not register again.
SoundStep ==
  /\ pc' = "put" /\ pc # "put" =>
       cut' \/ (auth_token' # 0 /\ issued'[auth_token'] >= now)
  /\ op' = "update" /\ username => username'

CredentialsSound == [][SoundStep]_vars
===============================================================================
