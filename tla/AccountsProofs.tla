--------------------------- MODULE AccountsProofs ---------------------------
(***************************************************************************)
(* Proofs about module Accounts, for any sets of accounts, e-mails, tokens *)
(* and concurrent requests and any number of restarts.                     *)
(***************************************************************************)
EXTENDS Accounts, FiniteSetTheorems, TLAPS

\* What the locals of a request hold at each of its steps.
RequestOK ==
  \A r \in Requests :
    /\ req[r].step \in {"count", "create", "admin_create"} =>
         req[r].email \in Emails
    /\ req[r].step \in {"close", "start_session", "guard_find", "guard_count",
                        "write_role", "delete"} => req[r].id \in Ids

TypeInv == TypeOK /\ RequestOK

\* The actions, one by one: what a step of Next is.
LEMMA NextCases ==
  ASSUME Next
  PROVE  \/ \E r \in Requests :
              \/ CountAccounts(r) \/ CloseRegistration(r) \/ GuardFind(r)
              \/ GuardCount(r) \/ WriteRole(r) \/ DeleteAccount(r)
              \/ WriteRegistration(r) \/ Abandon(r)
              \/ GuardFindFails(r) \/ CallFails(r)
         \/ \E r \in Requests, i \in Ids :
              CreateAccount(r, i) \/ AdminCreate(r, i) \/ BeginLogin(r, i)
         \/ \E r \in Requests, t \in Tokens : StartSession(r, t)
         \/ \E r \in Requests, e \in Emails, via \in {"http", "ws"} :
              BeginRegister(r, e, via)
         \/ \E r \in Requests, t \in Tokens, e \in Emails, role \in Roles :
              BeginCreate(r, t, e, role)
         \/ \E r \in Requests, t \in Tokens, i \in Ids, role \in Roles :
              BeginSetRole(r, t, i, role)
         \/ \E r \in Requests, t \in Tokens, i \in Ids : BeginDelete(r, t, i)
         \/ \E r \in Requests, t \in Tokens, en \in {"true", "false"} :
              BeginSetRegistration(r, t, en)
         \/ \E t \in Tokens : logout(t)
         \/ Restart
         \/ NoAccountPossible
BY Zenon DEF Next, ServerStep, ClientStep

LEMMA TypeInit == Init => TypeInv
<1> SUFFICES ASSUME Init PROVE TypeInv
  OBVIOUS
<1>1. lost \subseteq {"gate", "guard"}
  BY DEF Init
<1>2. restarts \in 0 .. MaxRestarts
  BY RestartsAssumption DEF Init
<1>3. req \in [Requests -> RequestState]
  BY DEF Init, RequestState, Idle, Steps, Roles
<1>4. accounts \in [Ids -> Account \cup {None}]
  BY DEF Init
<1>5. sessions \in [Tokens -> Ids \cup {None}]
  BY DEF Init
<1>6. RequestOK
  BY DEF Init, RequestOK, Idle
<1>7. QED
  BY <1>1, <1>2, <1>3, <1>4, <1>5, <1>6 DEF Init, TypeInv, TypeOK

\* What the two statements of a registration do to the request's locals.
LEMMA LocalsUpdated ==
  ASSUME NEW q \in RequestState, NEW step \in Steps
  PROVE  /\ \A role \in Roles :
              [q EXCEPT !.step = step, !.role = role] \in RequestState
         /\ \A i \in Ids :
              [q EXCEPT !.step = step, !.id = i] \in RequestState
BY DEF RequestState

LEMMA TypeStep == TypeInv /\ [Next]_vars => TypeInv'
<1> SUFFICES ASSUME TypeInv, [Next]_vars PROVE TypeInv'
  OBVIOUS
<1> USE NoneAssumption, RestartsAssumption
    DEF TypeInv, TypeOK, RequestOK, RequestState, Idle, Steps, Roles, Account,
        At, Goto, Done, AfterCreate, Insert
<1>1. ASSUME NEW r \in Requests, NEW e \in Emails, NEW via \in {"http",
            "ws"}, BeginRegister(r, e, via)
     PROVE  TypeInv'
  BY <1>1 DEF BeginRegister
<1>2. ASSUME NEW r \in Requests, CountAccounts(r) PROVE TypeInv'
  <2>1. PICK role \in Roles :
          req' = [req EXCEPT ![r] = [@ EXCEPT !.step = "create", !.role = role]]
    BY <1>2 DEF CountAccounts
  <2>2. UNCHANGED <<accounts, used_ids, registration, sessions, lost, restarts>>
    BY <1>2 DEF CountAccounts
  <2>3. req[r].step = "count"
    BY <1>2 DEF CountAccounts
  <2>4. req' \in [Requests -> RequestState]
    <3> HIDE DEF RequestState
    <3>1. [req[r] EXCEPT !.step = "create", !.role = role] \in RequestState
      BY LocalsUpdated
    <3>2. QED
      BY <2>1, <3>1
  <2>5. RequestOK'
    BY <2>1, <2>3
  <2>6. QED
    BY <2>2, <2>4, <2>5
<1>3. ASSUME NEW r \in Requests, NEW i \in Ids, CreateAccount(r, i)
     PROVE  TypeInv'
  <2>1. CASE EmailTaken(req[r].email)
    BY <1>3, <2>1 DEF CreateAccount
  <2>2. CASE ~EmailTaken(req[r].email)
    <3> DEFINE row == [email |-> req[r].email, role |-> req[r].role]
    <3>1. /\ accounts' = [accounts EXCEPT ![i] = row]
          /\ used_ids' = used_ids \cup {i}
          /\ UNCHANGED <<registration, sessions, lost, restarts>>
      BY <1>3, <2>2 DEF CreateAccount
    <3>2. row \in Account
      BY <1>3 DEF CreateAccount
    <3>3. accounts' \in [Ids -> Account \cup {None}]
      <4> HIDE DEF row
      <4>1. QED
        BY <3>1, <3>2
    <3>4. \/ req' = [req EXCEPT ![r] = Idle]
          \/ \E next \in {"close", "start_session"} :
               req' = [req EXCEPT ![r] = [@ EXCEPT !.step = next, !.id = i]]
      BY <1>3, <2>2 DEF CreateAccount
    <3>5. req' \in [Requests -> RequestState]
      <4>1. Idle \in RequestState
        OBVIOUS
      <4> HIDE DEF RequestState, Idle
      <4>2. \A next \in {"close", "start_session"} :
              [req[r] EXCEPT !.step = next, !.id = i] \in RequestState
        BY LocalsUpdated
      <4>3. QED
        BY <3>4, <4>1, <4>2
    <3>6. RequestOK'
      <4>1. CASE req' = [req EXCEPT ![r] = Idle]
        BY <4>1
      <4>2. ASSUME NEW next \in {"close", "start_session"},
                   req' = [req EXCEPT ![r] = [@ EXCEPT !.step = next, !.id = i]]
            PROVE  RequestOK'
        BY <4>2
      <4>3. QED
        BY <3>4, <4>1, <4>2
    <3>7. QED
      BY <3>1, <3>3, <3>5, <3>6
  <2>3. QED
    BY <2>1, <2>2
<1>4. ASSUME NEW r \in Requests, CloseRegistration(r) PROVE TypeInv'
  BY <1>4 DEF CloseRegistration
<1>5. ASSUME NEW r \in Requests, NEW i \in Ids, BeginLogin(r, i)
     PROVE  TypeInv'
  BY <1>5 DEF BeginLogin
<1>6. ASSUME NEW r \in Requests, NEW t \in Tokens, StartSession(r, t)
     PROVE  TypeInv'
  BY <1>6 DEF StartSession
<1>7. ASSUME NEW t \in Tokens, logout(t) PROVE TypeInv'
  BY <1>7 DEF logout
<1>8. ASSUME NEW r \in Requests, NEW t \in Tokens, NEW e \in Emails, NEW
            role \in Roles, BeginCreate(r, t, e, role)
     PROVE  TypeInv'
  BY <1>8 DEF BeginCreate, AdminRequest
<1>9. ASSUME NEW r \in Requests, NEW i \in Ids, AdminCreate(r, i)
     PROVE  TypeInv'
  BY <1>9 DEF AdminCreate
<1>10. ASSUME NEW r \in Requests, NEW t \in Tokens, NEW i \in Ids, NEW role
            \in Roles, BeginSetRole(r, t, i, role)
     PROVE  TypeInv'
  BY <1>10 DEF BeginSetRole, AdminRequest
<1>11. ASSUME NEW r \in Requests, NEW t \in Tokens, NEW i \in Ids,
            BeginDelete(r, t, i)
     PROVE  TypeInv'
  BY <1>11 DEF BeginDelete, AdminRequest
<1>12. ASSUME NEW r \in Requests, GuardFind(r) PROVE TypeInv'
  BY <1>12 DEF GuardFind
<1>13. ASSUME NEW r \in Requests, GuardCount(r) PROVE TypeInv'
  BY <1>13 DEF GuardCount
<1>14. ASSUME NEW r \in Requests, WriteRole(r) PROVE TypeInv'
  BY <1>14 DEF WriteRole
<1>15. ASSUME NEW r \in Requests, DeleteAccount(r) PROVE TypeInv'
  BY <1>15 DEF DeleteAccount
<1>16. ASSUME NEW r \in Requests, NEW t \in Tokens, NEW en \in {"true",
            "false"}, BeginSetRegistration(r, t, en)
     PROVE  TypeInv'
  BY <1>16 DEF BeginSetRegistration, AdminRequest
<1>17. ASSUME NEW r \in Requests, WriteRegistration(r) PROVE TypeInv'
  BY <1>17 DEF WriteRegistration
<1>18. ASSUME NEW r \in Requests, Abandon(r) PROVE TypeInv'
  BY <1>18 DEF Abandon, LostWith
<1>19. ASSUME Restart PROVE TypeInv'
  <2>1. lost' \subseteq {"gate", "guard"}
    <3>1. \A r \in Requests : LostWith(r) \subseteq {"gate"}
      BY DEF LostWith
    <3>2. UNION {LostWith(r) : r \in Requests} \subseteq {"gate"}
      BY <3>1
    <3>3. QED BY <1>19, <3>2 DEF Restart
  <2>2. QED BY <1>19, <2>1, SMTT(30) DEF Restart
<1>20. ASSUME NoAccountPossible PROVE TypeInv'
  BY <1>20 DEF NoAccountPossible, vars
<1>21. CASE UNCHANGED vars
  BY <1>21 DEF vars
<1>22. ASSUME NEW r \in Requests, GuardFindFails(r) PROVE TypeInv'
  BY <1>22 DEF GuardFindFails
<1>23. ASSUME NEW r \in Requests, CallFails(r) PROVE TypeInv'
  BY <1>23 DEF CallFails, LostWith
<1>24. QED
  BY NextCases, <1>1, <1>2, <1>3, <1>4, <1>5, <1>6, <1>7, <1>8, <1>9,
     <1>10, <1>11, <1>12, <1>13, <1>14, <1>15, <1>16, <1>17, <1>18, <1>19,
     <1>20, <1>21, <1>22, <1>23

\* Accounts, sessions, the gate and the locals of every request have their
\* types, however requests interleave and break off.
THEOREM TypeCorrect == Spec => []TypeOK
<1>1. TypeInv => TypeOK
  BY DEF TypeInv
<1>2. QED
  BY TypeInit, TypeStep, <1>1, PTL DEF Spec

-----------------------------------------------------------------------------
(* Cookie sessions.  SessionsHaveAccounts is inductive over TypeInv: only a *)
(* deletion removes an account, and it removes its sessions with it; only   *)
(* StartSession adds a session, which the foreign key checks.               *)

\* What INSERT INTO accounts stores.
LEMMA NewRow ==
  ASSUME TypeInv, NEW r \in Requests,
         req[r].step \in {"create", "admin_create"}
  PROVE  /\ [email |-> req[r].email, role |-> req[r].role] \in Account
         /\ [email |-> req[r].email, role |-> req[r].role] # None
<1>1. req[r].email \in Emails /\ req[r].role \in Roles
  BY DEF TypeInv, TypeOK, RequestOK, RequestState
<1>2. [email |-> req[r].email, role |-> req[r].role] \in Account
  BY <1>1 DEF Account
<1>3. QED
  BY <1>2, NoneAssumption

LEMMA SessionStep ==
  TypeInv /\ SessionsHaveAccounts /\ [Next]_vars => SessionsHaveAccounts'
<1> SUFFICES ASSUME TypeInv, SessionsHaveAccounts, [Next]_vars
             PROVE  SessionsHaveAccounts'
  OBVIOUS
<1>0. /\ accounts \in [Ids -> Account \cup {None}]
      /\ sessions \in [Tokens -> Ids \cup {None}]
      /\ req \in [Requests -> RequestState]
  BY DEF TypeInv, TypeOK
<1> USE <1>0 DEF SessionsHaveAccounts
<1>1. ASSUME NEW r \in Requests, NEW e \in Emails, NEW via \in {"http",
            "ws"}, BeginRegister(r, e, via)
     PROVE  SessionsHaveAccounts'
  BY <1>1 DEF BeginRegister
<1>2. ASSUME NEW r \in Requests, CountAccounts(r)
     PROVE  SessionsHaveAccounts'
  BY <1>2 DEF CountAccounts
<1>3. ASSUME NEW r \in Requests, NEW i \in Ids, CreateAccount(r, i)
     PROVE  SessionsHaveAccounts'
  <2>1. CASE UNCHANGED accounts
    BY <1>3, <2>1 DEF CreateAccount
  <2>2. CASE accounts' = [accounts EXCEPT ![i] = [email |-> req[r].email,
                                                  role |-> req[r].role]]
    BY <1>3, <2>2, NewRow DEF CreateAccount, At
  <2>3. QED
    BY <1>3, <2>1, <2>2 DEF CreateAccount, Insert
<1>4. ASSUME NEW r \in Requests, CloseRegistration(r)
     PROVE  SessionsHaveAccounts'
  BY <1>4 DEF CloseRegistration
<1>5. ASSUME NEW r \in Requests, NEW i \in Ids, BeginLogin(r, i)
     PROVE  SessionsHaveAccounts'
  BY <1>5 DEF BeginLogin
<1>6. ASSUME NEW r \in Requests, NEW t \in Tokens, StartSession(r, t)
     PROVE  SessionsHaveAccounts'
  <2>1. accounts' = accounts
    BY <1>6 DEF StartSession
  <2>2. CASE accounts[req[r].id] # None
    BY <1>6, <2>1, <2>2 DEF StartSession
  <2>3. CASE accounts[req[r].id] = None
    BY <1>6, <2>1, <2>3 DEF StartSession
  <2>4. QED
    BY <2>2, <2>3
<1>7. ASSUME NEW t \in Tokens, logout(t) PROVE SessionsHaveAccounts'
  BY <1>7 DEF logout
<1>8. ASSUME NEW r \in Requests, NEW t \in Tokens, NEW e \in Emails, NEW
            role \in Roles, BeginCreate(r, t, e, role)
     PROVE  SessionsHaveAccounts'
  BY <1>8 DEF BeginCreate, AdminRequest
<1>9. ASSUME NEW r \in Requests, NEW i \in Ids, AdminCreate(r, i)
     PROVE  SessionsHaveAccounts'
  <2>1. CASE UNCHANGED accounts
    BY <1>9, <2>1 DEF AdminCreate
  <2>2. CASE accounts' = [accounts EXCEPT ![i] = [email |-> req[r].email,
                                                  role |-> req[r].role]]
    BY <1>9, <2>2, NewRow DEF AdminCreate, At
  <2>3. QED
    BY <1>9, <2>1, <2>2 DEF AdminCreate, Insert
<1>10. ASSUME NEW r \in Requests, NEW t \in Tokens, NEW i \in Ids, NEW role
            \in Roles, BeginSetRole(r, t, i, role)
     PROVE  SessionsHaveAccounts'
  BY <1>10 DEF BeginSetRole, AdminRequest
<1>11. ASSUME NEW r \in Requests, NEW t \in Tokens, NEW i \in Ids,
            BeginDelete(r, t, i)
     PROVE  SessionsHaveAccounts'
  BY <1>11 DEF BeginDelete, AdminRequest
<1>12. ASSUME NEW r \in Requests, GuardFind(r) PROVE SessionsHaveAccounts'
  BY <1>12 DEF GuardFind
<1>13. ASSUME NEW r \in Requests, GuardCount(r) PROVE SessionsHaveAccounts'
  BY <1>13 DEF GuardCount
<1>14. ASSUME NEW r \in Requests, WriteRole(r) PROVE SessionsHaveAccounts'
  <2> DEFINE i == req[r].id
  <2>1. sessions' = sessions
    BY <1>14 DEF WriteRole
  <2>2. CASE accounts[i] = None
    BY <1>14, <2>1, <2>2 DEF WriteRole
  <2>3. CASE accounts[i] # None
    <3>1. i \in Ids
      BY <1>14 DEF TypeInv, RequestOK, WriteRole, At
    <3>2. [accounts[i] EXCEPT !.role = req[r].role] \in Account
      BY <2>3, <3>1, <1>0 DEF Account, RequestState
    <3>3. accounts' = [accounts EXCEPT ![i] = [accounts[i] EXCEPT !.role = req[r].role]]
      BY <1>14, <2>3, <3>1 DEF WriteRole
    <3> HIDE DEF i
    <3>4. QED
      BY <2>1, <3>1, <3>2, <3>3, NoneAssumption
  <2>4. QED
    BY <2>2, <2>3
<1>15. ASSUME NEW r \in Requests, DeleteAccount(r)
     PROVE  SessionsHaveAccounts'
  BY <1>15 DEF DeleteAccount
<1>16. ASSUME NEW r \in Requests, NEW t \in Tokens, NEW en \in {"true",
            "false"}, BeginSetRegistration(r, t, en)
     PROVE  SessionsHaveAccounts'
  BY <1>16 DEF BeginSetRegistration, AdminRequest
<1>17. ASSUME NEW r \in Requests, WriteRegistration(r)
     PROVE  SessionsHaveAccounts'
  BY <1>17 DEF WriteRegistration
<1>18. ASSUME NEW r \in Requests, Abandon(r) PROVE SessionsHaveAccounts'
  BY <1>18 DEF Abandon
<1>19. ASSUME Restart PROVE SessionsHaveAccounts'
  BY <1>19 DEF Restart
<1>20. ASSUME NoAccountPossible PROVE SessionsHaveAccounts'
  BY <1>20 DEF NoAccountPossible, vars
<1>21. CASE UNCHANGED vars
  BY <1>21 DEF vars
<1>22. ASSUME NEW r \in Requests, GuardFindFails(r) \/ CallFails(r)
       PROVE  SessionsHaveAccounts'
  BY <1>22 DEF GuardFindFails, CallFails
<1>23. QED
  BY NextCases, <1>1, <1>2, <1>3, <1>4, <1>5, <1>6, <1>7, <1>8, <1>9,
     <1>10, <1>11, <1>12, <1>13, <1>14, <1>15, <1>16, <1>17, <1>18, <1>19,
     <1>20, <1>21, <1>22

\* Every cookie session belongs to an account that exists (db.rs:228-251): a
\* login that races the deletion of its account leaves no session behind.
THEOREM SessionsSafe == Spec => []SessionsHaveAccounts
<1>1. Init => SessionsHaveAccounts
  BY DEF Init, SessionsHaveAccounts
<1>2. QED
  BY TypeInit, TypeStep, SessionStep, <1>1, PTL DEF Spec

-----------------------------------------------------------------------------
(* The registration gate.  That an account exists says nothing of how the   *)
(* gate got decided; what does is which requests can exist before it is: on  *)
(* a fresh database only registrations, and the first that stores a row is  *)
(* an administrator's, which then stands at the statement that closes the   *)
(* gate.  GateDecided itself is stable.                                      *)

Fresh(q) ==
  \/ q.step \in {"idle", "count"}
  \/ q.step = "create" /\ q.role = "admin"

GateInv ==
  /\ Existing # {} => GateDecided
  /\ \A r \in Requests : Fresh(req[r]) \/ GateDecided

LEMMA GateInit == Init => GateInv
BY DEF Init, GateInv, Existing, Fresh, Idle

\* A decided gate stays decided.
LEMMA GateStable ==
  ASSUME TypeInv, Next, GateDecided PROVE GateDecided'
<1> SUFFICES ASSUME ~(registration # "unset")'
             PROVE  GateDecided'
  BY DEF GateDecided
<1> USE DEF GateDecided, At, Done, Goto
<1>0. req \in [Requests -> RequestState]
  BY DEF TypeInv, TypeOK
<1>1. ASSUME NEW r \in Requests, NEW e \in Emails, NEW via \in {"http",
            "ws"}, BeginRegister(r, e, via)
     PROVE  GateDecided'
  BY <1>1, <1>0 DEF BeginRegister
<1>2. ASSUME NEW r \in Requests, CountAccounts(r) PROVE GateDecided'
  BY <1>2, <1>0 DEF CountAccounts
<1>3. ASSUME NEW r \in Requests, NEW i \in Ids, CreateAccount(r, i)
     PROVE  GateDecided'
  BY <1>3, <1>0 DEF CreateAccount, Insert
<1>4. ASSUME NEW r \in Requests, CloseRegistration(r) PROVE GateDecided'
  BY <1>4 DEF CloseRegistration
<1>5. ASSUME NEW r \in Requests, NEW i \in Ids, BeginLogin(r, i)
     PROVE  GateDecided'
  BY <1>5, <1>0 DEF BeginLogin
<1>6. ASSUME NEW r \in Requests, NEW t \in Tokens, StartSession(r, t)
     PROVE  GateDecided'
  BY <1>6, <1>0 DEF StartSession
<1>7. ASSUME NEW t \in Tokens, logout(t) PROVE GateDecided'
  BY <1>7 DEF logout
<1>8. ASSUME NEW r \in Requests, NEW t \in Tokens, NEW e \in Emails, NEW
            role \in Roles, BeginCreate(r, t, e, role)
     PROVE  GateDecided'
  BY <1>8, <1>0 DEF BeginCreate, AdminRequest
<1>9. ASSUME NEW r \in Requests, NEW i \in Ids, AdminCreate(r, i)
     PROVE  GateDecided'
  BY <1>9, <1>0 DEF AdminCreate, Insert
<1>10. ASSUME NEW r \in Requests, NEW t \in Tokens, NEW i \in Ids, NEW role
            \in Roles, BeginSetRole(r, t, i, role)
     PROVE  GateDecided'
  BY <1>10, <1>0 DEF BeginSetRole, AdminRequest
<1>11. ASSUME NEW r \in Requests, NEW t \in Tokens, NEW i \in Ids,
            BeginDelete(r, t, i)
     PROVE  GateDecided'
  BY <1>11, <1>0 DEF BeginDelete, AdminRequest
<1>12. ASSUME NEW r \in Requests, GuardFind(r) PROVE GateDecided'
  BY <1>12, <1>0 DEF GuardFind
<1>13. ASSUME NEW r \in Requests, GuardCount(r) PROVE GateDecided'
  BY <1>13, <1>0 DEF GuardCount
<1>14. ASSUME NEW r \in Requests, WriteRole(r) PROVE GateDecided'
  BY <1>14, <1>0 DEF WriteRole
<1>15. ASSUME NEW r \in Requests, DeleteAccount(r) PROVE GateDecided'
  BY <1>15, <1>0 DEF DeleteAccount
<1>16. ASSUME NEW r \in Requests, NEW t \in Tokens, NEW en \in {"true",
            "false"}, BeginSetRegistration(r, t, en)
     PROVE  GateDecided'
  BY <1>16, <1>0 DEF BeginSetRegistration, AdminRequest
<1>17. ASSUME NEW r \in Requests, WriteRegistration(r) PROVE GateDecided'
  BY <1>17 DEF WriteRegistration, TypeInv, TypeOK, RequestState
<1>18. ASSUME NEW r \in Requests, Abandon(r) \/ CallFails(r)
       PROVE  GateDecided'
  <2>0. /\ lost' = lost \cup LostWith(r)
        /\ req' = [req EXCEPT ![r] = Idle]
        /\ registration = "unset"
    BY <1>18 DEF Abandon, CallFails
  <2>1. CASE "gate" \in lost \/ At(r, "close")
    BY <2>0, <2>1 DEF LostWith
  <2>2. CASE \E q \in Requests : q # r /\ At(q, "close")
    BY <2>0, <1>0, <2>2
  <2>3. QED
    BY <2>0, <2>1, <2>2
<1>19. ASSUME Restart PROVE GateDecided'
  BY <1>19 DEF Restart, LostWith
<1>20. ASSUME NoAccountPossible PROVE GateDecided'
  BY <1>20 DEF NoAccountPossible, vars
<1>21. ASSUME NEW r \in Requests, GuardFindFails(r) PROVE GateDecided'
  BY <1>21, <1>0 DEF GuardFindFails
<1>22. QED
  BY NextCases, <1>1, <1>2, <1>3, <1>4, <1>5, <1>6, <1>7, <1>8, <1>9,
     <1>10, <1>11, <1>12, <1>13, <1>14, <1>15, <1>16, <1>17, <1>18, <1>19,
     <1>20, <1>21

\* Before the gate is decided the only step that adds an account is a first
\* registration's, which decides it.
LEMMA GateStep ==
  TypeInv /\ SessionsHaveAccounts /\ GateInv /\ [Next]_vars => GateInv'
<1> SUFFICES ASSUME TypeInv, SessionsHaveAccounts, GateInv, [Next]_vars
             PROVE  GateInv'
  OBVIOUS
<1>a. CASE UNCHANGED vars
  BY <1>a DEF vars, GateInv, GateDecided, Existing, Fresh, At
<1>b. CASE Next /\ GateDecided
  BY <1>b, GateStable DEF GateInv
<1>c. CASE Next /\ ~GateDecided
  <2>0. /\ req \in [Requests -> RequestState]
        /\ \A i \in Ids : accounts[i] = None
        /\ \A r \in Requests : Fresh(req[r])
        /\ \A t \in Tokens : sessions[t] \in Ids \cup {None}
    BY <1>c DEF TypeInv, TypeOK, GateInv, Existing
  <2>1. \A t \in Tokens : sessions[t] = None
    BY <2>0 DEF SessionsHaveAccounts
  <2>2. \A t \in Tokens : ~IsAdminCookie(t)
    BY <2>1, NoneAssumption DEF IsAdminCookie, Admins, Existing
  <2> SUFFICES ASSUME ~GateDecided' PROVE GateInv'
    BY DEF GateInv
  <2> USE <2>0 DEF GateInv, Existing, Fresh, At, Done, Goto, Idle
  <2>3. ASSUME NEW r \in Requests, NEW e \in Emails, NEW via \in {"http",
            "ws"}, BeginRegister(r, e, via)
     PROVE  GateInv'
    BY <2>3 DEF BeginRegister
  <2>4. ASSUME NEW r \in Requests, CountAccounts(r) PROVE GateInv'
    <3>1. req' = [req EXCEPT ![r] = [@ EXCEPT !.step = "create", !.role = "admin"]]
      BY <2>4 DEF CountAccounts
    <3>2. QED
      BY <3>1, <2>4 DEF CountAccounts, RequestState
  <2>5. ASSUME NEW r \in Requests, NEW i \in Ids, CreateAccount(r, i)
     PROVE  GateInv'
    <3>1. CASE EmailTaken(req[r].email)
      BY <2>5, <3>1 DEF CreateAccount
    <3>2. CASE ~EmailTaken(req[r].email)
      <4>1. req' = [req EXCEPT ![r] = [@ EXCEPT !.step = "close", !.id = i]]
        BY <2>5, <3>2 DEF CreateAccount, Insert
      <4>2. req'[r].step = "close"
        BY <4>1 DEF RequestState
      <4>3. QED
        BY <4>2 DEF GateDecided
    <3>3. QED
      BY <3>1, <3>2
  <2>6. ASSUME NEW r \in Requests, CloseRegistration(r) PROVE GateInv'
    BY <2>6 DEF CloseRegistration
  <2>7. ASSUME NEW r \in Requests, NEW i \in Ids, BeginLogin(r, i)
     PROVE  GateInv'
    BY <2>7 DEF BeginLogin
  <2>8. ASSUME NEW r \in Requests, NEW t \in Tokens, StartSession(r, t)
     PROVE  GateInv'
    BY <2>8 DEF StartSession
  <2>9. ASSUME NEW t \in Tokens, logout(t) PROVE GateInv'
    BY <2>9 DEF logout
  <2>10. ASSUME NEW r \in Requests, NEW t \in Tokens, NEW e \in Emails, NEW
            role \in Roles, BeginCreate(r, t, e, role)
     PROVE  GateInv'
    BY <2>10, <2>2 DEF BeginCreate, AdminRequest
  <2>11. ASSUME NEW r \in Requests, NEW i \in Ids, AdminCreate(r, i)
     PROVE  GateInv'
    BY <2>11 DEF AdminCreate
  <2>12. ASSUME NEW r \in Requests, NEW t \in Tokens, NEW i \in Ids, NEW role
            \in Roles, BeginSetRole(r, t, i, role)
     PROVE  GateInv'
    BY <2>12, <2>2 DEF BeginSetRole, AdminRequest
  <2>13. ASSUME NEW r \in Requests, NEW t \in Tokens, NEW i \in Ids,
            BeginDelete(r, t, i)
     PROVE  GateInv'
    BY <2>13, <2>2 DEF BeginDelete, AdminRequest
  <2>14. ASSUME NEW r \in Requests, GuardFind(r) PROVE GateInv'
    BY <2>14 DEF GuardFind
  <2>15. ASSUME NEW r \in Requests, GuardCount(r) PROVE GateInv'
    BY <2>15 DEF GuardCount
  <2>16. ASSUME NEW r \in Requests, WriteRole(r) PROVE GateInv'
    BY <2>16 DEF WriteRole
  <2>17. ASSUME NEW r \in Requests, DeleteAccount(r) PROVE GateInv'
    BY <2>17 DEF DeleteAccount
  <2>18. ASSUME NEW r \in Requests, NEW t \in Tokens, NEW en \in {"true",
            "false"}, BeginSetRegistration(r, t, en)
     PROVE  GateInv'
    BY <2>18, <2>2 DEF BeginSetRegistration, AdminRequest
  <2>19. ASSUME NEW r \in Requests, WriteRegistration(r) PROVE GateInv'
    BY <2>19 DEF WriteRegistration
  <2>20. ASSUME NEW r \in Requests, Abandon(r) PROVE GateInv'
    BY <2>20 DEF Abandon
  <2>21. ASSUME Restart PROVE GateInv'
    BY <2>21 DEF Restart
  <2>22. ASSUME NoAccountPossible PROVE GateInv'
    BY <2>22 DEF NoAccountPossible, vars
  <2>23. ASSUME NEW r \in Requests, GuardFindFails(r) \/ CallFails(r)
     PROVE  GateInv'
    BY <2>23 DEF GuardFindFails, CallFails
  <2>24. QED
    BY NextCases, <1>c, <2>3, <2>4, <2>5, <2>6, <2>7, <2>8, <2>9, <2>10,
       <2>11, <2>12, <2>13, <2>14, <2>15, <2>16, <2>17, <2>18, <2>19, <2>20,
       <2>21, <2>22, <2>23
<1>d. QED
  BY <1>a, <1>b, <1>c

\* Once an account exists, the gate has been decided, or the first
\* administrator's registration is about to close it, or was cut short before
\* it did, or failed to (session.rs:78-83): however many registrations race on a fresh
\* database, no account slips in beside an open, undecided gate.
THEOREM GateSafe == Spec => []GateClosesAfterFirst
<1>1. Init => SessionsHaveAccounts
  BY DEF Init, SessionsHaveAccounts
<1>2. GateInv => GateClosesAfterFirst
  BY DEF GateInv, GateClosesAfterFirst
<1>3. QED
  BY TypeInit, TypeStep, SessionStep, GateInit, GateStep, <1>1, <1>2, PTL
     DEF Spec

-----------------------------------------------------------------------------
(* The last administrator.  In SerialSpec at most one request is between    *)
(* guard_last_admin's queries and its write, so what the guard found still  *)
(* holds when the write is made: some other account is an administrator.    *)
(* That an account exists, which never ceases, is what makes the other      *)
(* writes harmless: they are made by administrators, or by registrations    *)
(* that counted accounts.  All this is as good as the guard's first query:  *)
(* once one has failed for the last one ("guard" \in lost) nothing is        *)
(* said any more.                                                           *)

\* The guard has let the request pass; only the write is left.
Removing(q) == q.step = "delete" \/ (q.step = "write_role" /\ q.role = "user")

\* A request that was made, or went this far, because accounts exist.
NeedsAccount(q) ==
  \/ q.step \in {"guard_find", "guard_count", "write_role", "delete", "admin_create"}
  \/ q.step = "create" /\ q.role = "user"

AnotherAdmin(i) == \E a \in Admins : a # i

\* Ids are never handed out twice.
IdsUsed == Existing \subseteq used_ids

AdminInv ==
  /\ ~GuardsOverlap
  /\ AdminExists
  /\ \A r \in Requests : NeedsAccount(req[r]) => Existing # {}
  /\ \A r \in Requests : Removing(req[r]) => AnotherAdmin(req[r].id)

LEMMA AdminInit == Init => AdminInv
<1> SUFFICES ASSUME Init PROVE AdminInv
  OBVIOUS
<1>1. \A r \in Requests : req[r].step = "idle"
  BY DEF Init, Idle
<1>2. QED
  BY <1>1 DEF Init, AdminInv, GuardsOverlap, Guarded, At, AdminExists,
              Existing, NeedsAccount, Removing

\* A request moves on and the accounts stay.
LEMMA AdminKept ==
  ASSUME TypeInv, AdminInv, ~GuardsOverlap', UNCHANGED accounts,
         NEW r \in Requests, NEW q \in RequestState, req' = [req EXCEPT ![r] = q],
         NeedsAccount(q) => Existing # {},
         Removing(q) => AnotherAdmin(q.id)
  PROVE  AdminInv'
<1>1. req'[r] = q /\ \A p \in Requests \ {r} : req'[p] = req[p]
  BY DEF TypeInv, TypeOK
<1>2. Existing' = Existing /\ Admins' = Admins
  BY DEF Existing, Admins
<1>3. AdminExists'
  BY <1>2 DEF AdminInv, AdminExists
<1>4. \A p \in Requests : NeedsAccount(req'[p]) => Existing' # {}
  BY <1>1, <1>2 DEF AdminInv
<1>5. \A p \in Requests : Removing(req'[p]) => \E a \in Admins' : a # req'[p].id
  BY <1>1, <1>2 DEF AdminInv, AnotherAdmin
<1>6. QED BY <1>3, <1>4, <1>5 DEF AdminInv, NeedsAccount, Removing, AnotherAdmin

\* Admins stay admins, and there is one: a row is added or promoted.
LEMMA AdminGrows ==
  ASSUME TypeInv, AdminInv, ~GuardsOverlap', Admins \subseteq Admins',
         Admins' # {},
         NEW r \in Requests, NEW q \in RequestState, req' = [req EXCEPT ![r] = q],
         ~Removing(q)
  PROVE  AdminInv'
<1>1. req'[r] = q /\ \A p \in Requests \ {r} : req'[p] = req[p]
  BY DEF TypeInv, TypeOK
<1>2. Existing' # {} /\ AdminExists'
  BY DEF Admins, AdminExists
<1>3. \A p \in Requests : Removing(req'[p]) => \E a \in Admins' : a # req'[p].id
  BY <1>1 DEF AdminInv, AnotherAdmin
<1>4. QED BY <1>2, <1>3 DEF AdminInv, Removing, AnotherAdmin

\* The write the guard let pass: nobody else is past the guard.
LEMMA AdminRemoved ==
  ASSUME TypeInv, AdminInv, ~GuardsOverlap', NEW r \in Requests, Removing(req[r]),
         Admins \ {req[r].id} \subseteq Admins', Done(r)
  PROVE  AdminInv'
<1>1. \A p \in Requests \ {r} : ~Removing(req[p])
  BY DEF AdminInv, GuardsOverlap, Guarded, At, Removing
<1>2. req'[r] = Idle /\ \A p \in Requests \ {r} : req'[p] = req[p]
  BY DEF TypeInv, TypeOK, Done
<1>3. Admins' # {}
  BY DEF AdminInv, AnotherAdmin
<1>4. Existing' # {} /\ AdminExists'
  BY <1>3 DEF Admins, AdminExists
<1>5. \A p \in Requests : ~Removing(req'[p])
  BY <1>1, <1>2 DEF Removing, Idle
<1>6. QED BY <1>4, <1>5 DEF AdminInv, Removing

\* The guard's count: more than one admin means one besides i.
LEMMA CountsAnother ==
  ASSUME NEW i, ~(Cardinality(Admins) <= 1)
  PROVE  AnotherAdmin(i)
<1> SUFFICES ASSUME \A a \in Admins : a = i PROVE Cardinality(Admins) <= 1
  BY DEF AnotherAdmin
<1>1. Admins = {} \/ Admins = {i}
  OBVIOUS
<1>2. Cardinality({}) = 0 /\ Cardinality({i}) = 1
  BY FS_EmptySet, FS_Singleton
<1>3. QED BY <1>1, <1>2

\* INSERT INTO accounts: admins stay, and an admin's row is another.
LEMMA InsertKeeps ==
  ASSUME TypeInv, AdminInv, NEW r \in Requests, NEW i \in Ids,
         req[r].step \in {"create", "admin_create"},
         i \notin used_ids, IdsUsed,
         accounts' = [accounts EXCEPT ![i] = [email |-> req[r].email,
                                              role |-> req[r].role]]
  PROVE  Admins \subseteq Admins' /\ Admins' # {}
<1>1. /\ accounts \in [Ids -> Account \cup {None}] /\ req[r].role \in Roles
      /\ accounts[i] = None
  BY DEF TypeInv, TypeOK, RequestState, IdsUsed, Existing
<1>2. Admins \subseteq Admins'
  BY <1>1 DEF Admins, Existing
<1>3. CASE req[r].role = "admin"
  <2>1. accounts'[i] # None /\ accounts'[i].role = "admin"
    BY <1>1, <1>3, NewRow
  <2>2. QED BY <1>2, <2>1 DEF Admins, Existing
<1>4. CASE req[r].role = "user"
  <2>1. Existing # {}
    BY <1>4 DEF AdminInv, NeedsAccount
  <2>2. Admins # {}
    BY <2>1 DEF AdminInv, AdminExists
  <2>3. QED BY <1>2, <2>2
<1>5. QED BY <1>1, <1>3, <1>4 DEF Roles

LEMMA IdsStep == TypeInv /\ IdsUsed /\ [Next]_vars => IdsUsed'
<1> SUFFICES ASSUME TypeInv, IdsUsed, [Next]_vars PROVE IdsUsed'
  OBVIOUS
<1>0. accounts \in [Ids -> Account \cup {None}]
  BY DEF TypeInv, TypeOK
<1>1. CASE UNCHANGED <<accounts, used_ids>>
  BY <1>1 DEF IdsUsed, Existing
<1>2. ASSUME NEW r \in Requests, NEW i \in Ids, NEW st, Insert(r, i, st)
      PROVE  IdsUsed'
  BY <1>2, <1>0 DEF Insert, IdsUsed, Existing
<1>3. ASSUME NEW r \in Requests, WriteRole(r) PROVE IdsUsed'
  <2>1. req[r].id \in Ids
    BY <1>3 DEF WriteRole, At, TypeInv, RequestOK
  <2>2. QED BY <1>0, <1>3, <2>1 DEF WriteRole, IdsUsed, Existing
<1>4. ASSUME NEW r \in Requests, DeleteAccount(r) PROVE IdsUsed'
  <2>1. req[r].id \in Ids
    BY <1>4 DEF DeleteAccount, At, TypeInv, RequestOK
  <2>2. QED BY <1>0, <1>4, <2>1 DEF DeleteAccount, IdsUsed, Existing
<1>5. CASE Next
  BY <1>1, <1>2, <1>3, <1>4, <1>5, NextCases
     DEF CountAccounts, CloseRegistration, GuardFind, GuardCount,
         WriteRegistration, Abandon, GuardFindFails, CallFails, CreateAccount, AdminCreate, BeginLogin,
         StartSession, BeginRegister, BeginCreate, BeginSetRole, BeginDelete,
         BeginSetRegistration, AdminRequest, logout, Restart,
         NoAccountPossible, vars
<1>6. QED BY <1>1, <1>5 DEF vars

\* A guard that let the last administrator go unexamined stays on record.
LEMMA GuardLost == [Next]_vars /\ "guard" \in lost => "guard" \in lost'
<1> SUFFICES ASSUME Next, "guard" \in lost PROVE "guard" \in lost'
  BY DEF vars
<1>1. QED
  BY NextCases
     DEF CountAccounts, CloseRegistration, GuardFind, GuardFindFails, GuardCount,
         WriteRole, DeleteAccount, WriteRegistration, Abandon, CallFails,
         CreateAccount, AdminCreate, BeginLogin, StartSession, BeginRegister,
         BeginCreate, BeginSetRole, BeginDelete, BeginSetRegistration,
         AdminRequest, logout, Restart, NoAccountPossible, vars

LEMMA AdminStep ==
  TypeInv /\ IdsUsed /\ AdminInv /\ [Next /\ ~GuardsOverlap']_vars
    => AdminInv' \/ "guard" \in lost'
<1> SUFFICES ASSUME TypeInv, IdsUsed, AdminInv, Next, ~GuardsOverlap',
                    "guard" \notin lost'
             PROVE  AdminInv'
  BY DEF vars, AdminInv, GuardsOverlap, Guarded, At, AdminExists, Existing,
         Admins, NeedsAccount, Removing, AnotherAdmin
<1>0. /\ req \in [Requests -> RequestState]
      /\ accounts \in [Ids -> Account \cup {None}]
  BY DEF TypeInv, TypeOK
<1>a. Idle \in RequestState /\ ~NeedsAccount(Idle) /\ ~Removing(Idle)
  BY DEF Idle, RequestState, Steps, Roles, NeedsAccount, Removing
<1>b. ASSUME NEW r \in Requests, UNCHANGED accounts, Done(r) PROVE AdminInv'
  BY <1>b, <1>a, AdminKept DEF Done
\* A step to a place where nothing was promised.
<1>c. ASSUME NEW r \in Requests, NEW st \in Steps \ {"idle"},
             UNCHANGED accounts, Goto(r, st),
             st \in {"guard_count", "write_role", "delete"} => Existing # {},
             st \in {"write_role", "delete"} => AnotherAdmin(req[r].id),
             st \notin {"create", "guard_find", "admin_create"}
      PROVE  AdminInv'
  <2> DEFINE q == [req[r] EXCEPT !.step = st]
  <2>1. q \in RequestState /\ q.step = st /\ q.id = req[r].id
    BY <1>0, <1>c DEF RequestState
  <2>2. req' = [req EXCEPT ![r] = q]
    BY <1>0, <1>c DEF Goto
  <2>3. (NeedsAccount(q) => Existing # {}) /\ (Removing(q) => AnotherAdmin(q.id))
    BY <1>c, <2>1 DEF NeedsAccount, Removing
  <2> HIDE DEF q
  <2>4. QED BY <1>c, <2>1, <2>2, <2>3, AdminKept
\* A request of an administrator.
<1>d. ASSUME NEW r \in Requests, NEW t \in Tokens, NEW q \in RequestState,
             AdminRequest(r, t, q), ~Removing(q)
      PROVE  AdminInv'
  <2>1. Existing # {} /\ UNCHANGED accounts /\ req' = [req EXCEPT ![r] = q]
    BY <1>d DEF AdminRequest, IsAdminCookie, Admins
  <2>2. QED BY <1>d, <2>1, AdminKept
<1>1. ASSUME NEW r \in Requests, NEW e \in Emails, NEW via \in {"http", "ws"},
             BeginRegister(r, e, via)
      PROVE  AdminInv'
  <2> DEFINE q == [Idle EXCEPT !.step = "count", !.via = via, !.email = e]
  <2>1. q \in RequestState /\ ~NeedsAccount(q) /\ ~Removing(q)
    BY DEF Idle, RequestState, Steps, Roles, NeedsAccount, Removing
  <2>2. UNCHANGED accounts /\ req' = [req EXCEPT ![r] = q]
    BY <1>1 DEF BeginRegister
  <2> HIDE DEF q
  <2>3. QED BY <2>1, <2>2, AdminKept
<1>2. ASSUME NEW r \in Requests, CountAccounts(r) PROVE AdminInv'
  <2> DEFINE role == IF Existing = {} THEN "admin" ELSE "user"
             q == [req[r] EXCEPT !.step = "create", !.role = role]
  <2>1. q \in RequestState /\ q.step = "create" /\ q.role = role
    BY <1>0, ZenonT(40) DEF RequestState, Steps, Roles
  <2>2. UNCHANGED accounts /\ req' = [req EXCEPT ![r] = q]
    BY <1>0, <1>2 DEF CountAccounts
  <2>3. (NeedsAccount(q) => Existing # {}) /\ ~Removing(q)
    BY <2>1 DEF NeedsAccount, Removing
  <2> HIDE DEF q
  <2>4. QED BY <2>1, <2>2, <2>3, AdminKept
<1>3. ASSUME NEW r \in Requests, NEW i \in Ids, CreateAccount(r, i) PROVE AdminInv'
  <2>1. CASE EmailTaken(req[r].email)
    BY <1>3, <1>b, <2>1 DEF CreateAccount
  <2>2. CASE ~EmailTaken(req[r].email)
    <3> DEFINE st == IF req[r].role = "admin" THEN "close" ELSE AfterCreate(r)
               q == IF st = "idle" THEN Idle ELSE [req[r] EXCEPT !.step = st, !.id = i]
    <3>1. Insert(r, i, st) /\ st \in {"close", "start_session", "idle"}
      BY <1>3, <2>2 DEF CreateAccount, AfterCreate
    <3>2. q \in RequestState /\ q.step = st
      BY <1>0, <1>a, <3>1 DEF RequestState, Steps, Idle
    <3>3. req' = [req EXCEPT ![r] = q]
      BY <1>0, <3>1 DEF Insert, Done
    <3>4. Admins \subseteq Admins' /\ Admins' # {}
      BY <1>3, <3>1, InsertKeeps DEF CreateAccount, At, Insert
    <3>5. ~Removing(q)
      BY <3>1, <3>2 DEF Removing
    <3> HIDE DEF q
    <3>6. QED BY <3>2, <3>3, <3>4, <3>5, AdminGrows
  <2>3. QED BY <2>1, <2>2
<1>4. ASSUME NEW r \in Requests, CloseRegistration(r) PROVE AdminInv'
  <2>1. CASE AfterCreate(r) = "idle"
    BY <1>4, <1>b, <2>1 DEF CloseRegistration, Goto
  <2>2. CASE AfterCreate(r) = "start_session"
    BY <1>4, <1>c, <2>2 DEF CloseRegistration, Steps
  <2>3. QED BY <2>1, <2>2 DEF AfterCreate
<1>5. ASSUME NEW r \in Requests, NEW i \in Ids, BeginLogin(r, i) PROVE AdminInv'
  <2> DEFINE q == [Idle EXCEPT !.step = "start_session", !.id = i]
  <2>1. q \in RequestState /\ ~NeedsAccount(q) /\ ~Removing(q)
    BY DEF Idle, RequestState, Steps, Roles, NeedsAccount, Removing
  <2>2. UNCHANGED accounts /\ req' = [req EXCEPT ![r] = q]
    BY <1>5 DEF BeginLogin
  <2> HIDE DEF q
  <2>3. QED BY <2>1, <2>2, AdminKept
<1>6. ASSUME NEW r \in Requests, NEW t \in Tokens, StartSession(r, t) PROVE AdminInv'
  BY <1>6, <1>b DEF StartSession
<1>7. ASSUME UNCHANGED <<accounts, req>> PROVE AdminInv'
  BY <1>7 DEF AdminInv, AdminExists, Existing, Admins, NeedsAccount, Removing,
              AnotherAdmin
<1>8. ASSUME NEW r \in Requests, NEW t \in Tokens, NEW e \in Emails,
             NEW role \in Roles, BeginCreate(r, t, e, role)
      PROVE  AdminInv'
  <2> DEFINE q == [Idle EXCEPT !.step = "admin_create", !.email = e, !.role = role]
  <2>1. q \in RequestState /\ ~Removing(q)
    BY DEF Idle, RequestState, Steps, Roles, Removing
  <2>2. AdminRequest(r, t, q)
    BY <1>8 DEF BeginCreate
  <2> HIDE DEF q
  <2>3. QED BY <1>d, <2>1, <2>2
<1>9. ASSUME NEW r \in Requests, NEW i \in Ids, AdminCreate(r, i) PROVE AdminInv'
  <2>1. CASE EmailTaken(req[r].email)
    BY <1>9, <1>b, <2>1 DEF AdminCreate
  <2>2. CASE ~EmailTaken(req[r].email)
    <3>1. Insert(r, i, "idle")
      BY <1>9, <2>2 DEF AdminCreate
    <3>2. Admins \subseteq Admins' /\ Admins' # {}
      BY <1>9, <3>1, InsertKeeps DEF AdminCreate, At, Insert
    <3>3. req' = [req EXCEPT ![r] = Idle]
      BY <3>1 DEF Insert, Done
    <3>4. QED BY <1>a, <3>2, <3>3, AdminGrows
  <2>3. QED BY <2>1, <2>2
<1>10. ASSUME NEW r \in Requests, NEW t \in Tokens, NEW i \in Ids, NEW role \in Roles,
              BeginSetRole(r, t, i, role)
       PROVE  AdminInv'
  <2> DEFINE st == IF role = "admin" THEN "write_role" ELSE "guard_find"
             q == [Idle EXCEPT !.step = st, !.id = i, !.role = role, !.next = "write_role"]
  <2>1. q \in RequestState /\ q.step = st /\ q.role = role
    BY DEF Idle, RequestState, Steps, Roles
  <2>2. AdminRequest(r, t, q) /\ ~Removing(q)
    BY <1>10, <2>1 DEF BeginSetRole, Removing
  <2> HIDE DEF q
  <2>3. QED BY <1>d, <2>1, <2>2
<1>11. ASSUME NEW r \in Requests, NEW t \in Tokens, NEW i \in Ids,
              BeginDelete(r, t, i)
       PROVE  AdminInv'
  <2> DEFINE q == [Idle EXCEPT !.step = "guard_find", !.id = i, !.next = "delete"]
  <2>1. q \in RequestState /\ ~Removing(q)
    BY DEF Idle, RequestState, Steps, Roles, Removing
  <2>2. AdminRequest(r, t, q)
    BY <1>11 DEF BeginDelete
  <2> HIDE DEF q
  <2>3. QED BY <1>d, <2>1, <2>2
\* An account that is not the last administrator's passes.
<1>e. ASSUME NEW r \in Requests, At(r, "guard_find"), Admins # {req[r].id},
             Goto(r, req[r].next), UNCHANGED accounts
      PROVE  AdminInv'
  <2>1. Existing # {} /\ Admins # {} /\ req[r].next \in {"write_role", "delete"}
    BY <1>0, <1>e DEF At, AdminInv, AdminExists, NeedsAccount, RequestState
  <2>2. AnotherAdmin(req[r].id)
    BY <1>e, <2>1 DEF AnotherAdmin
  <2>3. QED BY <1>c, <1>e, <2>1, <2>2 DEF Steps
<1>12. ASSUME NEW r \in Requests, GuardFind(r) \/ GuardFindFails(r) PROVE AdminInv'
  <2>1. CASE GuardFind(r) /\ req[r].id \in Admins
    <3>1. Existing # {}
      BY <2>1 DEF GuardFind, At, AdminInv, NeedsAccount
    <3>2. Goto(r, "guard_count") /\ UNCHANGED accounts
      BY <2>1 DEF GuardFind
    <3>3. QED BY <1>c, <3>1, <3>2 DEF Steps
  <2>2. CASE GuardFind(r) /\ req[r].id \notin Admins
    BY <1>e, <2>2 DEF GuardFind
  <2>3. CASE GuardFindFails(r)
    <3>1. Admins # {req[r].id}
      BY <2>3 DEF GuardFindFails
    <3>2. QED BY <1>e, <2>3, <3>1 DEF GuardFindFails
  <2>4. QED BY <1>12, <2>1, <2>2, <2>3
<1>13. ASSUME NEW r \in Requests, GuardCount(r) PROVE AdminInv'
  <2>1. Existing # {} /\ req[r].next \in {"write_role", "delete"}
    BY <1>0, <1>13 DEF GuardCount, At, AdminInv, NeedsAccount, RequestState
  <2>2. CASE Cardinality(Admins) <= 1
    BY <1>13, <1>b, <2>2 DEF GuardCount
  <2>3. CASE ~(Cardinality(Admins) <= 1)
    <3>1. AnotherAdmin(req[r].id)
      BY <2>3, CountsAnother
    <3>2. Goto(r, req[r].next) /\ UNCHANGED accounts
      BY <1>13, <2>3 DEF GuardCount
    <3>3. QED BY <1>c, <2>1, <3>1, <3>2 DEF Steps
  <2>4. QED BY <2>2, <2>3
<1>14. ASSUME NEW r \in Requests, WriteRole(r) PROVE AdminInv'
  <2> DEFINE i == req[r].id
  <2>1. i \in Ids /\ req[r].role \in Roles /\ req[r].step = "write_role" /\ Done(r)
    BY <1>0, <1>14 DEF WriteRole, At, TypeInv, RequestOK, RequestState
  <2>2. CASE accounts[i] = None
    BY <1>14, <1>b, <2>2 DEF WriteRole
  <2>3. CASE accounts[i] # None
    <3> DEFINE row == [accounts[i] EXCEPT !.role = req[r].role]
    <3>1. row \in Account /\ row.role = req[r].role /\ row # None
      BY <1>0, <2>1, <2>3, NoneAssumption DEF Account
    <3>2. accounts' = [accounts EXCEPT ![i] = row]
      BY <1>0, <1>14, <2>1, <2>3 DEF WriteRole
    <3> HIDE DEF row, i
    <3>3. /\ accounts'[i] = row /\ \A j \in Ids \ {i} : accounts'[j] = accounts[j]
      BY <1>0, <2>1, <3>2
    <3>4. CASE req[r].role = "admin"
      <4>1. Admins \subseteq Admins' /\ i \in Admins'
        BY <2>1, <3>1, <3>3, <3>4 DEF Admins, Existing
      <4>2. QED BY <1>a, <2>1, <4>1, AdminGrows DEF Done
    <3>5. CASE req[r].role = "user"
      <4>1. Admins \ {i} \subseteq Admins' /\ Removing(req[r])
        BY <2>1, <3>3, <3>5 DEF Admins, Existing, Removing
      <4>2. QED BY <2>1, <4>1, AdminRemoved DEF i
    <3>6. QED BY <2>1, <3>4, <3>5 DEF Roles
  <2>4. QED BY <2>2, <2>3
<1>15. ASSUME NEW r \in Requests, DeleteAccount(r) PROVE AdminInv'
  <2>1. /\ Removing(req[r]) /\ Done(r)
        /\ accounts' = [accounts EXCEPT ![req[r].id] = None]
    BY <1>15 DEF DeleteAccount, At, Removing
  <2>2. Admins \ {req[r].id} \subseteq Admins'
    BY <1>0, <2>1 DEF Admins, Existing
  <2>3. QED BY <2>1, <2>2, AdminRemoved
<1>16. ASSUME NEW r \in Requests, NEW t \in Tokens, NEW en \in {"true", "false"},
              BeginSetRegistration(r, t, en)
       PROVE  AdminInv'
  <2> DEFINE q == [Idle EXCEPT !.step = "write_reg", !.enabled = en]
  <2>1. q \in RequestState /\ ~Removing(q)
    BY DEF Idle, RequestState, Steps, Roles, Removing
  <2>2. AdminRequest(r, t, q)
    BY <1>16 DEF BeginSetRegistration
  <2> HIDE DEF q
  <2>3. QED BY <1>d, <2>1, <2>2
<1>17. ASSUME NEW r \in Requests, WriteRegistration(r) \/ Abandon(r) \/ CallFails(r)
       PROVE  AdminInv'
  BY <1>17, <1>b DEF WriteRegistration, Abandon, CallFails
<1>18. ASSUME Restart PROVE AdminInv'
  <2>1. UNCHANGED accounts /\ \A r \in Requests : req'[r] = Idle
    BY <1>18 DEF Restart
  <2>2. QED
    BY <1>a, <2>1 DEF AdminInv, AdminExists, Existing, Admins, NeedsAccount, Removing
<1>19. QED
  BY NextCases, <1>1, <1>2, <1>3, <1>4, <1>5, <1>6, <1>7, <1>8, <1>9, <1>10,
     <1>11, <1>12, <1>13, <1>14, <1>15, <1>16, <1>17, <1>18
     DEF logout, NoAccountPossible, vars

\* As long as accounts exist one of them is an administrator (admin.rs:290-309,
\* session.rs:78-80), for any number of concurrent registrations, promotions,
\* creations, failing calls, interrupted requests and restarts, when no two
\* requests under guard_last_admin overlap and until the first query of a guard
\* fails for the only administrator.
THEOREM AdminRemains == SerialSpec => []LastAdminKept
<1> DEFINE Kept == AdminInv \/ "guard" \in lost
<1>1. TypeInv /\ [Next /\ ~GuardsOverlap']_vars => TypeInv'
  BY TypeStep
<1>2. TypeInv /\ IdsUsed /\ [Next /\ ~GuardsOverlap']_vars => IdsUsed'
  BY IdsStep
<1>3. Init => IdsUsed
  BY DEF Init, IdsUsed, Existing
<1>4. Kept => LastAdminKept
  BY DEF AdminInv, LastAdminKept
<1>5. TypeInv /\ IdsUsed /\ Kept /\ [Next /\ ~GuardsOverlap']_vars => Kept'
  BY AdminStep, GuardLost
<1>6. Init => Kept
  BY AdminInit
<1> HIDE DEF Kept
<1>7. QED
  BY TypeInit, <1>1, <1>2, <1>3, <1>4, <1>5, <1>6, PTL DEF SerialSpec

=============================================================================
