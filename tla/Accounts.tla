------------------------------ MODULE Accounts ------------------------------
(***************************************************************************)
(* Accounts, roles, cookie sessions and the registration gate of           *)
(* visuara-signaling: self-service registration over HTTP and over the     *)
(* WebSocket, login and logout, and the administrator's account operations *)
(* (session.rs, api/auth.rs, api/admin.rs, the account half of db.rs).     *)
(*                                                                         *)
(* Every database call is atomic (one mutex around the connection); a      *)
(* request is a sequence of them, cut into one action per call, and        *)
(* requests interleave.  An HTTP request whose client goes away is dropped *)
(* at the call it awaits: that call still takes effect, the rest does not. *)
(* A database call may also fail; what each caller makes of that is below. *)
(***************************************************************************)
EXTENDS Naturals, FiniteSets

CONSTANTS
  Ids,          \* account ids (AUTOINCREMENT: never used twice)
  Emails,       \* trimmed, non-empty e-mail addresses
  Tokens,       \* session tokens (random: a new one has no row)
  Requests,     \* requests in flight at a time
  None,         \* an absent row
  DbFails,      \* whether a call of the database may fail
  MaxRestarts   \* bound: restarts of the server process

Roles   == {"user", "admin"}
Account == [email : Emails, role : Roles]

ASSUME NoneAssumption == None \notin Ids \cup Emails \cup Tokens \cup Account

ASSUME RestartsAssumption == MaxRestarts \in Nat

ASSUME DbFailsAssumption == DbFails \in BOOLEAN

VARIABLES
  accounts,       \* id -> row of accounts, or None
  used_ids,       \* ids handed out so far
  registration,   \* the registration_enabled setting
  sessions,       \* token -> account id, or None
  req,            \* the step and the locals of each request
  lost,           \* history: what an interruption or an error took away, the
                  \* "gate" a first registration did not close or the "guard"
                  \* of a request against an administrator
  restarts        \* how often the server has restarted

vars == <<accounts, used_ids, registration, sessions, req, lost,
          restarts>>

Steps == {"idle", "count", "create", "close", "start_session", "admin_create",
          "guard_find", "guard_count", "write_role", "delete", "write_reg"}

\* via: over which protocol the request came.  id: the account the request
\* made, found or is about.  next: where guard_last_admin returns to.
RequestState ==
  [step : Steps, via : {"http", "ws"}, email : Emails \cup {None},
   role : Roles, id : Ids \cup {None}, next : {"write_role", "delete"},
   enabled : {"true", "false"}]

Idle == [step |-> "idle", via |-> "http", email |-> None, role |-> "user",
         id |-> None, next |-> "delete", enabled |-> "false"]

Init ==
  /\ accounts = [i \in Ids |-> None]
  /\ used_ids = {}
  /\ registration = "unset"
  /\ sessions = [t \in Tokens |-> None]
  /\ req = [r \in Requests |-> Idle]
  /\ lost = {}
  /\ restarts = 0

-----------------------------------------------------------------------------
(* What the queries return. *)

Existing == {i \in Ids : accounts[i] # None}
Admins   == {i \in Existing : accounts[i].role = "admin"}

EmailTaken(e) == \E i \in Existing : accounts[i].email = e

\* Absent reads as enabled.
registration_enabled == registration # "false"

\* require_admin: the cookie's session joined with its account, whose current
\* role must be admin.
IsAdminCookie(t) == sessions[t] \in Admins

-----------------------------------------------------------------------------
(* Steps of a request. *)

At(r, step)   == req[r].step = step
Done(r)       == req' = [req EXCEPT ![r] = Idle]
Goto(r, step) ==
  IF step = "idle" THEN Done(r) ELSE req' = [req EXCEPT ![r].step = step]

\* After the account exists: HTTP answers with a session, the WebSocket
\* connection is authenticated and needs none.
AfterCreate(r) == IF req[r].via = "http" THEN "start_session" ELSE "idle"

\* api/auth.rs register and the WebSocket's Register: the gate.  The latter
\* takes a setting it cannot read for an open gate (ws.rs:94).
BeginRegister(r, e, via) ==
  /\ At(r, "idle")
  /\ registration_enabled \/ (DbFails /\ via = "ws")
  /\ req' = [req EXCEPT ![r] = [Idle EXCEPT !.step = "count", !.via = via,
                                            !.email = e]]
  /\ UNCHANGED <<accounts, used_ids, registration, sessions, lost, restarts>>

CountAccounts(r) ==
  /\ At(r, "count")
  /\ req' = [req EXCEPT ![r] =
               [@ EXCEPT !.step = "create",
                         !.role = IF Existing = {} THEN "admin" ELSE "user"]]
  /\ UNCHANGED <<accounts, used_ids, registration, sessions, lost, restarts>>

\* INSERT INTO accounts; the UNIQUE email may refuse it.
Insert(r, i, next) ==
  /\ i \notin used_ids
  /\ accounts' = [accounts EXCEPT ![i] = [email |-> req[r].email,
                                          role |-> req[r].role]]
  /\ used_ids' = used_ids \cup {i}
  /\ IF next = "idle"
     THEN Done(r)
     ELSE req' = [req EXCEPT ![r] = [@ EXCEPT !.step = next, !.id = i]]

\* Mutant: the first account does not close the gate.
CreateAccountStaysOpen(r, i) ==
  /\ At(r, "create")
  /\ IF EmailTaken(req[r].email)
     THEN Done(r) /\ UNCHANGED <<accounts, used_ids>>
     ELSE Insert(r, i, AfterCreate(r))
  /\ UNCHANGED <<registration, sessions, lost, restarts>>

CreateAccount(r, i) ==
  /\ At(r, "create")
  /\ IF EmailTaken(req[r].email)
     THEN Done(r) /\ UNCHANGED <<accounts, used_ids>>
     ELSE Insert(r, i, IF req[r].role = "admin" THEN "close" ELSE AfterCreate(r))
  /\ UNCHANGED <<registration, sessions, lost, restarts>>

CloseRegistration(r) ==
  /\ At(r, "close")
  /\ registration' = "false"
  /\ Goto(r, AfterCreate(r))
  /\ UNCHANGED <<accounts, used_ids, sessions, lost, restarts>>

\* login: find_account_by_email with the right password.
BeginLogin(r, i) ==
  /\ At(r, "idle")
  /\ accounts[i] # None
  /\ req' = [req EXCEPT ![r] = [Idle EXCEPT !.step = "start_session", !.id = i]]
  /\ UNCHANGED <<accounts, used_ids, registration, sessions, lost, restarts>>

\* Mutant: the session row is stored without looking at the account.
StartSessionUnchecked(r, t) ==
  /\ At(r, "start_session")
  /\ sessions[t] = None
  /\ sessions' = [sessions EXCEPT ![t] = req[r].id]
  /\ Done(r)
  /\ UNCHANGED <<accounts, used_ids, registration, lost, restarts>>

\* create_session: the foreign key refuses an account deleted meanwhile, and
\* the request then answers with an error and no cookie.
StartSession(r, t) ==
  /\ At(r, "start_session")
  /\ sessions[t] = None
  /\ IF accounts[req[r].id] # None
     THEN sessions' = [sessions EXCEPT ![t] = req[r].id]
     ELSE UNCHANGED sessions
  /\ Done(r)
  /\ UNCHANGED <<accounts, used_ids, registration, lost, restarts>>

logout(t) ==
  /\ sessions[t] # None
  /\ sessions' = [sessions EXCEPT ![t] = None]
  /\ UNCHANGED <<accounts, used_ids, registration, req, lost,
                 restarts>>

-----------------------------------------------------------------------------
(* The administrator's operations: require_admin first. *)

AdminRequest(r, t, state) ==
  /\ At(r, "idle")
  /\ IsAdminCookie(t)
  /\ req' = [req EXCEPT ![r] = state]
  /\ UNCHANGED <<accounts, used_ids, registration, sessions, lost, restarts>>

BeginCreate(r, t, e, role) ==
  AdminRequest(r, t, [Idle EXCEPT !.step = "admin_create", !.email = e,
                                  !.role = role])

AdminCreate(r, i) ==
  /\ At(r, "admin_create")
  /\ IF EmailTaken(req[r].email)
     THEN Done(r) /\ UNCHANGED <<accounts, used_ids>>
     ELSE Insert(r, i, "idle")
  /\ UNCHANGED <<registration, sessions, lost, restarts>>

\* Only a demotion is guarded.
BeginSetRole(r, t, i, role) ==
  AdminRequest(r, t, [Idle EXCEPT !.step = IF role = "admin" THEN "write_role"
                                                             ELSE "guard_find",
                                  !.id = i, !.role = role,
                                  !.next = "write_role"])

BeginDelete(r, t, i) ==
  AdminRequest(r, t, [Idle EXCEPT !.step = "guard_find", !.id = i,
                                  !.next = "delete"])

\* guard_last_admin, its first query: only an admin needs the second.
GuardFind(r) ==
  /\ At(r, "guard_find")
  /\ Goto(r, IF req[r].id \in Admins THEN "guard_count" ELSE req[r].next)
  /\ UNCHANGED <<accounts, used_ids, registration, sessions, lost, restarts>>

\* The first query fails: guard_last_admin returns Ok(()), as for an account
\* that is not there, and the last administrator is not guarded.
GuardFindFails(r) ==
  /\ DbFails
  /\ At(r, "guard_find")
  /\ lost' = IF Admins = {req[r].id} THEN lost \cup {"guard"} ELSE lost
  /\ Goto(r, req[r].next)
  /\ UNCHANGED <<accounts, used_ids, registration, sessions, restarts>>

\* Mutant: the guard lets the last admin go.
GuardCountOffByOne(r) ==
  /\ At(r, "guard_count")
  /\ IF Cardinality(Admins) < 1 THEN Done(r) ELSE Goto(r, req[r].next)
  /\ UNCHANGED <<accounts, used_ids, registration, sessions, lost, restarts>>

\* Its second query, apart from the write that follows.
GuardCount(r) ==
  /\ At(r, "guard_count")
  /\ IF Cardinality(Admins) <= 1 THEN Done(r) ELSE Goto(r, req[r].next)
  /\ UNCHANGED <<accounts, used_ids, registration, sessions, lost, restarts>>

\* Mutant: the UPDATE became an upsert, which makes a row without an e-mail.
WriteRoleUpserts(r) ==
  /\ At(r, "write_role")
  /\ accounts' = [accounts EXCEPT ![req[r].id] = [email |-> req[r].email,
                                                  role |-> req[r].role]]
  /\ Done(r)
  /\ UNCHANGED <<used_ids, registration, sessions, lost, restarts>>

\* UPDATE accounts SET role: without a row it changes nothing.
WriteRole(r) ==
  LET i == req[r].id IN
  /\ At(r, "write_role")
  /\ accounts' = IF accounts[i] = None
                 THEN accounts
                 ELSE [accounts EXCEPT ![i].role = req[r].role]
  /\ Done(r)
  /\ UNCHANGED <<used_ids, registration, sessions, lost, restarts>>

\* One transaction: the sessions of the account (and its devices, see module
\* SignalingServer), then the account.
DeleteAccount(r) ==
  LET i == req[r].id IN
  /\ At(r, "delete")
  /\ sessions' = [t \in Tokens |-> IF sessions[t] = i THEN None
                                                      ELSE sessions[t]]
  /\ accounts' = [accounts EXCEPT ![i] = None]
  /\ Done(r)
  /\ UNCHANGED <<used_ids, registration, lost, restarts>>

BeginSetRegistration(r, t, enabled) ==
  AdminRequest(r, t, [Idle EXCEPT !.step = "write_reg", !.enabled = enabled])

WriteRegistration(r) ==
  /\ At(r, "write_reg")
  /\ registration' = req[r].enabled
  /\ Done(r)
  /\ UNCHANGED <<accounts, used_ids, sessions, lost, restarts>>

-----------------------------------------------------------------------------
(* Interruptions. *)

\* What is lost with the request r.
LostWith(r) == IF At(r, "close") THEN {"gate"} ELSE {}

\* An HTTP client goes away: hyper drops the handler between two calls.
Abandon(r) ==
  /\ req[r].step # "idle"
  /\ req[r].via = "http"
  /\ lost' = lost \cup LostWith(r)
  /\ Done(r)
  /\ UNCHANGED <<accounts, used_ids, registration, sessions, restarts>>

\* Any other database call fails: nothing is written, and the request answers
\* with an error; also the first registration that has stored its account and
\* cannot close the gate (session.rs:82).
CallFails(r) ==
  /\ DbFails
  /\ req[r].step \notin {"idle", "guard_find"}
  /\ lost' = lost \cup LostWith(r)
  /\ Done(r)
  /\ UNCHANGED <<accounts, used_ids, registration, sessions, restarts>>

\* The process stops and starts again: requests are lost, the database and
\* with it every cookie stays.
Restart ==
  /\ restarts < MaxRestarts
  /\ restarts' = restarts + 1
  /\ lost' = lost \cup UNION {LostWith(r) : r \in Requests}
  /\ req' = [r \in Requests |-> Idle]
  /\ UNCHANGED <<accounts, used_ids, registration, sessions>>

-----------------------------------------------------------------------------

\* Bound: ids and tokens are left for the requests that may need one.
IdLeft ==
  Cardinality({r \in Requests : req[r].step \in {"count", "create",
                                                 "admin_create"}})
    < Cardinality(Ids \ used_ids)
TokenLeft ==
  Cardinality({r \in Requests : req[r].step \in {"count", "create", "close",
                                                 "start_session"}})
    < Cardinality({t \in Tokens : sessions[t] = None})

\* No account is left and none can be made, because the gate is closed (the
\* lockout guard_last_admin is there to prevent) or, a bound, because no id is
\* left: every request is refused.
NoAccountPossible ==
  /\ Existing = {}
  /\ ~registration_enabled \/ used_ids = Ids
  /\ \A r \in Requests : At(r, "idle")
  /\ UNCHANGED vars

\* What the server does by itself in a request that was accepted.
ServerStep(r) ==
  \/ CountAccounts(r)
  \/ \E i \in Ids : CreateAccount(r, i) \/ AdminCreate(r, i)
  \/ CloseRegistration(r)
  \/ \E t \in Tokens : StartSession(r, t)
  \/ GuardFind(r) \/ GuardFindFails(r)
  \/ GuardCount(r)
  \/ WriteRole(r)
  \/ DeleteAccount(r)
  \/ WriteRegistration(r)
  \/ CallFails(r)

\* What clients ask for.
ClientStep(r) ==
  \/ /\ IdLeft /\ TokenLeft
     /\ \E e \in Emails, via \in {"http", "ws"} : BeginRegister(r, e, via)
  \/ TokenLeft /\ \E i \in Ids : BeginLogin(r, i)
  \/ \E t \in Tokens :
       \/ /\ IdLeft
          /\ \E e \in Emails, role \in Roles : BeginCreate(r, t, e, role)
       \/ \E i \in Ids, role \in Roles : BeginSetRole(r, t, i, role)
       \/ \E i \in Ids : BeginDelete(r, t, i)
       \/ \E enabled \in {"true", "false"} : BeginSetRegistration(r, t, enabled)
  \/ Abandon(r)

Next ==
  \/ \E r \in Requests : ServerStep(r) \/ ClientStep(r)
  \/ \E t \in Tokens : logout(t)
  \/ Restart
  \/ NoAccountPossible

Spec == Init /\ [][Next]_vars

\* Two requests under guard_last_admin at the same time.
Guarded(r) ==
  \/ At(r, "guard_find") \/ At(r, "guard_count") \/ At(r, "delete")
  \/ At(r, "write_role") /\ req[r].role = "user"

GuardsOverlap == \E r, q \in Requests : r # q /\ Guarded(r) /\ Guarded(q)

\* The behaviours in which no two guarded requests overlap; everything else
\* interleaves as in Spec.
SerialSpec == Init /\ [][Next /\ ~GuardsOverlap']_vars

-----------------------------------------------------------------------------
(* Properties. *)

\* The type invariant.
TypeOK ==
  /\ accounts \in [Ids -> Account \cup {None}]
  /\ used_ids \subseteq Ids
  /\ registration \in {"unset", "true", "false"}
  /\ sessions \in [Tokens -> Ids \cup {None}]
  /\ req \in [Requests -> RequestState]
  /\ lost \subseteq {"gate", "guard"}
  /\ restarts \in 0 .. MaxRestarts

\* As long as there are accounts there is an administrator among them: the
\* first registration makes one (session.rs:78-80) and guard_last_admin
\* (admin.rs:290-293: "Refuses to demote/delete `account_id` if doing so would
\* leave the instance with zero admins") keeps one.  Two guarded requests that
\* overlap break it, and so does one whose first query fails.
AdminExists == Existing # {} => Admins # {}

\* What the guard does keep: one request at a time, an administrator is left
\* unless the query that should have found the last one to be one failed
\* (admin.rs:294-309), whatever else fails or is cut short and however
\* registrations, promotions and creations interleave with it.
LastAdminKept == AdminExists \/ "guard" \in lost

\* Every cookie session belongs to an account that exists, also when the
\* account is deleted while a login or registration of it is under way
\* (db.rs:228-251, auth.rs:65-84).
SessionsHaveAccounts ==
  \A t \in Tokens : sessions[t] # None => accounts[sessions[t]] # None

\* Once an account exists the gate has been decided, or the request that will
\* close it is still running, or that request was cut short between its two
\* statements or failed at the second (session.rs:80-83).
GateDecided ==
  \/ registration # "unset"
  \/ \E r \in Requests : At(r, "close")
  \/ "gate" \in lost
GateClosesAfterFirst == Existing # {} => GateDecided

=============================================================================
