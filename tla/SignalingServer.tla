-------------------------- MODULE SignalingServer --------------------------
(***************************************************************************)
(* The WebSocket signaling server of visuara-signaling: the connections,   *)
(* the devices that are online through them, their one-time passwords, the *)
(* pairing sessions and the relay between the two peers of a session       *)
(* (ws.rs, state.rs), together with the device rows of the database those  *)
(* handlers read and write (db.rs) and the HTTP requests that delete       *)
(* devices and accounts underneath live connections (api/devices.rs,       *)
(* api/admin.rs).                                                          *)
(*                                                                         *)
(* One connection is served by one task that reads a message, runs its     *)
(* handler to the end and reads the next; tasks of different connections   *)
(* and HTTP requests interleave.  A handler is cut into one action per     *)
(* operation on state that other tasks can see: a database call (one       *)
(* mutex-protected statement or transaction each) or a DashMap operation.  *)
(* Local computation, and sends to the task's own outbox, are part of the  *)
(* operation next to them.                                                 *)
(***************************************************************************)

EXTENDS Naturals, FiniteSets

CONSTANTS
  Conns,        \* WebSocket connections (ConnectionId, a fresh UUID each)
  Devices,      \* device ids
  Accounts,     \* account ids (AUTOINCREMENT: never used twice)
  Otps,         \* one-time passwords
  Passwords,    \* unattended passwords
  SessionIds,   \* session ids (a fresh UUID each)
  Workers,      \* HTTP requests that delete a device, in flight at a time
  None,         \* Rust's Option::None, an absent row or map entry
  MaxRestarts   \* bound: restarts of the server process

\* An entry of sessions.  The device and the secret it was opened with are
\* history.
SessionPeers == [a : Conns, b : Conns, dev : Devices,
                 secret : Otps \cup Passwords]

ASSUME NoneAssumption ==
  None \notin Conns \cup Devices \cup Accounts \cup Otps \cup Passwords
                    \cup SessionIds

ASSUME NoSessionAssumption == None \notin SessionPeers

ASSUME SecretsAssumption == Otps \cap Passwords = {}

ASSUME RestartsAssumption == MaxRestarts \in Nat

VARIABLES
  \* The database, which survives a restart.
  account,        \* account row of an id: absent, live or deleted
  owner,          \* devices.account_id, None without a row
  unattended,     \* devices.unattended_password_hash
  issued,         \* device ids that create_device has stored so far
  undeleted,      \* history: devices whose removal did not delete the row
  \* The maps of AppState, lost in a restart.
  connections,    \* the connections with an entry (and an outbox)
  device_online,  \* device id -> connection
  otp,            \* device id -> current one-time password
  sessions,       \* session id -> the two peers (dev and secret: history)
  \* The locals of each handle_socket task.
  pc,             \* where the task is
  conn_state,     \* ConnState: the authenticated account, or None
  my_device_id,   \* the device this connection registered, or None
  req,            \* the locals of the handler in progress
  \* What reaches the client of each connection.
  writable,       \* connections whose send_task still runs
  sent,           \* messages its outbox accepted since it opened
  shown,          \* the OTP of the last DeviceRegistered it was sent
  \* HTTP requests deleting a device, and the bound and history variables.
  http,           \* each worker's step, device and removed connection
  secrets,        \* history: secrets ever valid for a device
  restarts        \* how often the server has restarted

db    == <<account, owner, unattended, issued, undeleted>>
maps  == <<connections, device_online, otp, sessions>>
conn  == <<pc, conn_state, my_device_id, req>>
out   == <<writable, sent, shown>>
vars  == <<db, maps, conn, out, http, secrets, restarts>>

ConnSteps == {"unopened", "read", "go_online", "new_otp", "check_otp",
              "find_host", "open_session", "reply", "store_password",
              "push_password", "rm_online", "rm_otp", "closed"}

HttpSteps == {"idle", "delete_row", "kick_online", "kick_otp", "notify"}

\* The messages the properties tell apart.  The notice of kick_device is
\* Removed, and an SdpOffer, SdpAnswer or IceCandidate passed on by relay is
\* Relayed (from: the sender, history).  Error, AuthOk and AuthError, which
\* answer the sender and change nothing else, are left out: a message refused
\* before it changed anything leaves no step in the model, one refused later
\* ends its handler.
Messages ==
  [type : {"Removed", "UnattendedPasswordUpdated", "IncomingConnection",
           "ConnectionEstablished", "Relayed"},
   sid  : SessionIds \cup {None},
   from : Conns \cup {None}]

Plain(type)       == [type |-> type, sid |-> None, from |-> None]
Pairing(type, s)  == [type |-> type, sid |-> s, from |-> None]
Relayed(s, c)     == [type |-> "Relayed", sid |-> s, from |-> c]

Requests == [dev    : Devices \cup {None},
             secret : Otps \cup Passwords \cup {None},
             host   : Conns \cup {None},
             sid    : SessionIds \cup {None}]

NoRequest == [dev |-> None, secret |-> None, host |-> None, sid |-> None]
Idle      == [step |-> "idle", dev |-> None, host |-> None]

Init ==
  /\ account = [a \in Accounts |-> "absent"]
  /\ owner = [d \in Devices |-> None]
  /\ unattended = [d \in Devices |-> None]
  /\ issued = {}
  /\ undeleted = {}
  /\ connections = {}
  /\ device_online = [d \in Devices |-> None]
  /\ otp = [d \in Devices |-> None]
  /\ sessions = [s \in SessionIds |-> None]
  /\ pc = [c \in Conns |-> "unopened"]
  /\ conn_state = [c \in Conns |-> None]
  /\ my_device_id = [c \in Conns |-> None]
  /\ req = [c \in Conns |-> NoRequest]
  /\ writable = {}
  /\ sent = [c \in Conns |-> {}]
  /\ shown = [c \in Conns |-> None]
  /\ http = [w \in Workers |-> Idle]
  /\ secrets = [d \in Devices |-> {}]
  /\ restarts = 0

-----------------------------------------------------------------------------
(* Steps of a task. *)

Goto(c, step) == pc' = [pc EXCEPT ![c] = step]

\* tx.send to connection c: accepted while c's send_task holds the receiver.
Send(c, m) ==
  sent' = [sent EXCEPT ![c] = IF c \in writable THEN @ \cup {m} ELSE @]

\* A handler that is done: it returned Ok, or Err, which its loop answers with
\* Error; either way the task reads the next message.
Finish(c) ==
  /\ Goto(c, "read")
  /\ req' = [req EXCEPT ![c] = NoRequest]

\* A task in its read loop, about to handle a message that needs a login.
ReadsAuthed(c) == pc[c] = "read" /\ conn_state[c] # None

-----------------------------------------------------------------------------
(* Opening, failing and closing a connection. *)

Open(c) ==
  /\ pc[c] = "unopened"
  /\ Goto(c, "read")
  /\ connections' = connections \cup {c}
  /\ writable' = writable \cup {c}
  /\ UNCHANGED <<db, device_online, otp, sessions, conn_state, my_device_id,
                 req, sent, shown, http, secrets, restarts>>

\* The socket breaks: send_task stops at its next write and drops the
\* receiver, while the reading half may not have noticed yet.
SendTaskBreaks(c) ==
  /\ c \in writable
  /\ pc[c] # "closed"
  /\ writable' = writable \ {c}
  /\ UNCHANGED <<db, maps, conn, sent, shown, http, secrets, restarts>>

\* The read loop ends; the clean-up that follows removes the connection first.
Close(c) ==
  /\ pc[c] = "read"
  /\ connections' = connections \ {c}
  /\ IF my_device_id[c] # None
     THEN Goto(c, "rm_online") /\ UNCHANGED writable
     ELSE Goto(c, "closed") /\ writable' = writable \ {c}
  /\ UNCHANGED <<db, device_online, otp, sessions, conn_state, my_device_id,
                 req, sent, shown, http, secrets, restarts>>

\* Mutant: the clean-up forgets the device_online entry.
RemoveOnlineForgotten(c) ==
  /\ pc[c] = "rm_online"
  /\ Goto(c, "rm_otp")
  /\ UNCHANGED <<db, maps, conn_state, my_device_id, req, out, http, secrets,
                 restarts>>

RemoveOnline(c) ==
  /\ pc[c] = "rm_online"
  /\ device_online' = [device_online EXCEPT ![my_device_id[c]] = None]
  /\ Goto(c, "rm_otp")
  /\ UNCHANGED <<db, connections, otp, sessions, conn_state, my_device_id,
                 req, out, http, secrets, restarts>>

\* Mutant: the clean-up blanks the password where it should remove the entry.
RemoveOtpBlanks(c) ==
  /\ pc[c] = "rm_otp"
  /\ otp' = [otp EXCEPT ![my_device_id[c]] = ""]
  /\ writable' = writable \ {c}
  /\ Goto(c, "closed")
  /\ UNCHANGED <<db, connections, device_online, sessions, conn_state,
                 my_device_id, req, sent, shown, http, secrets, restarts>>

RemoveOtp(c) ==
  /\ pc[c] = "rm_otp"
  /\ otp' = [otp EXCEPT ![my_device_id[c]] = None]
  /\ writable' = writable \ {c}
  /\ Goto(c, "closed")
  /\ UNCHANGED <<db, connections, device_online, sessions, conn_state,
                 my_device_id, req, sent, shown, http, secrets, restarts>>

-----------------------------------------------------------------------------
(* Register and Login. *)

\* A new account row (whose role and gate are module Accounts' concern); the
\* connection is authenticated as it, whether or not AuthOk can be sent.
Register(c, a) ==
  /\ pc[c] = "read"
  /\ account[a] = "absent"
  /\ account' = [account EXCEPT ![a] = "live"]
  /\ conn_state' = [conn_state EXCEPT ![c] = a]
  /\ UNCHANGED <<owner, unattended, issued, undeleted, maps, pc, my_device_id,
                 req, out, http, secrets, restarts>>

\* The account is stored, but the gate cannot be closed (session.rs:82): the
\* client is refused, and the account is there to log in to.
RegisterFails(c, a) ==
  /\ pc[c] = "read"
  /\ account[a] = "absent"
  /\ account' = [account EXCEPT ![a] = "live"]
  /\ UNCHANGED <<owner, unattended, issued, undeleted, maps, conn, out, http,
                 secrets, restarts>>

Login(c, a) ==
  /\ pc[c] = "read"
  /\ account[a] = "live"
  /\ conn_state' = [conn_state EXCEPT ![c] = a]
  /\ UNCHANGED <<db, maps, pc, my_device_id, req, out, http, secrets,
                 restarts>>

-----------------------------------------------------------------------------
(* RegisterDevice. *)

\* The first registration on a connection stores a row under a new id.  The
\* foreign key on accounts(id) refuses it once the account is deleted.
CreateDevice(c, d) ==
  /\ ReadsAuthed(c)
  /\ my_device_id[c] = None
  /\ account[conn_state[c]] = "live"
  /\ d \notin issued
  /\ owner' = [owner EXCEPT ![d] = conn_state[c]]
  /\ issued' = issued \cup {d}
  /\ my_device_id' = [my_device_id EXCEPT ![c] = d]
  /\ Goto(c, "go_online")
  /\ UNCHANGED <<account, unattended, undeleted, maps, conn_state, req, out,
                 http, secrets, restarts>>

\* A later registration on the same connection starts here, with the id the
\* connection already has and no look at the database.
GoOnline(c) ==
  /\ \/ pc[c] = "go_online"
     \/ ReadsAuthed(c) /\ my_device_id[c] # None
  /\ device_online' = [device_online EXCEPT ![my_device_id[c]] = c]
  /\ Goto(c, "new_otp")
  /\ UNCHANGED <<db, connections, otp, sessions, conn_state, my_device_id,
                 req, out, http, secrets, restarts>>

\* Mutant: the first password is kept while the reply shows a new one.
NewOtpNotRotated(c, o) ==
  LET d == my_device_id[c]
      p == IF otp[d] = None THEN o ELSE otp[d] IN
  /\ pc[c] = "new_otp"
  /\ otp' = [otp EXCEPT ![d] = p]
  /\ secrets' = [secrets EXCEPT ![d] = @ \cup {p}]
  /\ shown' = [shown EXCEPT ![c] = IF c \in writable THEN o ELSE @]
  /\ Finish(c)
  /\ UNCHANGED <<db, connections, device_online, sessions, conn_state,
                 my_device_id, writable, sent, http, restarts>>

NewOtp(c, o) ==
  LET d == my_device_id[c] IN
  /\ pc[c] = "new_otp"
  /\ otp' = [otp EXCEPT ![d] = o]
  /\ secrets' = [secrets EXCEPT ![d] = @ \cup {o}]
  /\ shown' = [shown EXCEPT ![c] = IF c \in writable THEN o ELSE @]
  /\ Finish(c)
  /\ UNCHANGED <<db, connections, device_online, sessions, conn_state,
                 my_device_id, writable, sent, http, restarts>>

-----------------------------------------------------------------------------
(* RequestConnection. *)

\* Bound: a request starts only while a session id is left for it.
SessionLeft ==
  Cardinality({c \in Conns : pc[c] \in {"check_otp", "find_host",
                                        "open_session"}})
    < Cardinality({s \in SessionIds : sessions[s] = None})

\* find_device with a one-time password: the password is compared later.
RequestByOtp(c, d, o) ==
  /\ ReadsAuthed(c)
  /\ SessionLeft
  /\ owner[d] # None
  /\ req' = [req EXCEPT ![c] = [NoRequest EXCEPT !.dev = d, !.secret = o]]
  /\ Goto(c, "check_otp")
  /\ UNCHANGED <<db, maps, conn_state, my_device_id, out, http, secrets,
                 restarts>>

\* find_device with the unattended password: the row just read carries the
\* hash, so the comparison is settled by this step.
RequestByPassword(c, d, p) ==
  /\ ReadsAuthed(c)
  /\ SessionLeft
  /\ owner[d] # None
  /\ unattended[d] = p
  /\ req' = [req EXCEPT ![c] = [NoRequest EXCEPT !.dev = d, !.secret = p]]
  /\ Goto(c, "find_host")
  /\ UNCHANGED <<db, maps, conn_state, my_device_id, out, http, secrets,
                 restarts>>

\* Mutant: a device without a one-time password is open to everyone.
CheckOtpAbsent(c) ==
  /\ pc[c] = "check_otp"
  /\ IF otp[req[c].dev] \in {req[c].secret, None}
     THEN Goto(c, "find_host") /\ UNCHANGED req
     ELSE Finish(c)
  /\ UNCHANGED <<db, maps, conn_state, my_device_id, out, http, secrets,
                 restarts>>

CheckOtp(c) ==
  /\ pc[c] = "check_otp"
  /\ IF otp[req[c].dev] = req[c].secret
     THEN Goto(c, "find_host") /\ UNCHANGED req
     ELSE Finish(c)
  /\ UNCHANGED <<db, maps, conn_state, my_device_id, out, http, secrets,
                 restarts>>

FindHost(c) ==
  LET h == device_online[req[c].dev] IN
  /\ pc[c] = "find_host"
  /\ IF h # None
     THEN /\ req' = [req EXCEPT ![c].host = h]
          /\ Goto(c, "open_session")
     ELSE Finish(c)
  /\ UNCHANGED <<db, maps, conn_state, my_device_id, out, http, secrets,
                 restarts>>

\* The new entry of sessions.
PeersOf(c) == [a |-> c, b |-> req[c].host, dev |-> req[c].dev,
               secret |-> req[c].secret]

\* Mutant: the requester is answered although the host could not be told.
OpenSessionUnannounced(c, s) ==
  /\ pc[c] = "open_session"
  /\ sessions[s] = None
  /\ sessions' = [sessions EXCEPT ![s] = PeersOf(c)]
  /\ req' = [req EXCEPT ![c].sid = s]
  /\ Goto(c, "reply")
  /\ UNCHANGED <<sent, db, connections, device_online, otp, conn_state,
                 my_device_id, writable, shown, http, secrets, restarts>>

\* sessions.insert, then the announcement to the host if it is still in
\* connections.  Nobody knows the new id before the announcement, so the two
\* are one step.  An outbox whose send_task is gone refuses the announcement:
\* the handler fails, and the entry of sessions stays.
OpenSession(c, s) ==
  LET h == req[c].host IN
  /\ pc[c] = "open_session"
  /\ sessions[s] = None
  /\ sessions' = [sessions EXCEPT ![s] = PeersOf(c)]
  /\ IF h \in connections \ writable
     THEN Finish(c) /\ UNCHANGED sent
     ELSE /\ req' = [req EXCEPT ![c].sid = s]
          /\ Goto(c, "reply")
          /\ IF h \in connections
             THEN Send(h, Pairing("IncomingConnection", s))
             ELSE UNCHANGED sent
  /\ UNCHANGED <<db, connections, device_online, otp, conn_state,
                 my_device_id, writable, shown, http, secrets, restarts>>

ReplyEstablished(c) ==
  /\ pc[c] = "reply"
  /\ Send(c, Pairing("ConnectionEstablished", req[c].sid))
  /\ Finish(c)
  /\ UNCHANGED <<db, maps, conn_state, my_device_id, writable, shown, http,
                 secrets, restarts>>

-----------------------------------------------------------------------------
(* SdpOffer, SdpAnswer and IceCandidate. *)

\* Mutant: the sender gets its own message back.
OtherIsSelf(peers, me) ==
  IF peers.a = me THEN peers.a ELSE IF peers.b = me THEN peers.a ELSE None

other(peers, me) ==
  IF peers.a = me THEN peers.b ELSE IF peers.b = me THEN peers.a ELSE None

\* A client names only sessions it was told of: ids are random UUIDs.
Knows(c, s) ==
  \/ Pairing("IncomingConnection", s) \in sent[c]
  \/ Pairing("ConnectionEstablished", s) \in sent[c]

\* One step: sessions entries never change, and the entry of connections is
\* held locked during the send.
relay(c, s) ==
  LET o == other(sessions[s], c) IN
  /\ pc[c] = "read"
  /\ Knows(c, s)
  /\ sessions[s] # None
  /\ o # None
  /\ o \in connections
  /\ Send(o, Relayed(s, c))
  /\ UNCHANGED <<db, maps, conn, writable, shown, http, secrets, restarts>>

-----------------------------------------------------------------------------
(* SetUnattendedPassword. *)

\* Mutant: any account may set any device's password.
SetPasswordUnowned(c, d, p) ==
  /\ ReadsAuthed(c)
  /\ owner[d] # None
  /\ req' = [req EXCEPT ![c] = [NoRequest EXCEPT !.dev = d, !.secret = p]]
  /\ Goto(c, "store_password")
  /\ UNCHANGED <<db, maps, conn_state, my_device_id, out, http, secrets,
                 restarts>>

SetUnattendedPassword(c, d, p) ==
  /\ ReadsAuthed(c)
  /\ owner[d] # None
  /\ owner[d] = conn_state[c]
  /\ req' = [req EXCEPT ![c] = [NoRequest EXCEPT !.dev = d, !.secret = p]]
  /\ Goto(c, "store_password")
  /\ UNCHANGED <<db, maps, conn_state, my_device_id, out, http, secrets,
                 restarts>>

\* The UPDATE; without a row it changes nothing and still succeeds.
StorePassword(c) ==
  LET d == req[c].dev IN
  /\ pc[c] = "store_password"
  /\ IF owner[d] # None
     THEN /\ unattended' = [unattended EXCEPT ![d] = req[c].secret]
          /\ secrets' = [secrets EXCEPT ![d] = @ \cup {req[c].secret}]
     ELSE UNCHANGED <<unattended, secrets>>
  /\ Goto(c, "push_password")
  /\ UNCHANGED <<account, owner, issued, undeleted, maps, conn_state,
                 my_device_id, req, out, http, restarts>>

\* The UPDATE fails, and with it the handler: nobody is told.
StorePasswordFails(c) ==
  /\ pc[c] = "store_password"
  /\ Finish(c)
  /\ UNCHANGED <<db, maps, conn_state, my_device_id, out, http, secrets,
                 restarts>>

\* The entry of device_online stays locked while the host's outbox is looked
\* up and used: one step.  The sender gets no reply unless the push fails.
PushPassword(c) ==
  LET h == device_online[req[c].dev] IN
  /\ pc[c] = "push_password"
  /\ IF h \in connections
     THEN Send(h, Plain("UnattendedPasswordUpdated"))
     ELSE UNCHANGED sent
  /\ Finish(c)
  /\ UNCHANGED <<db, maps, conn_state, my_device_id, writable, shown, http,
                 secrets, restarts>>

-----------------------------------------------------------------------------
(* HTTP: deleting a device (by its owner or an administrator). *)

HttpStep(w, step) == http' = [http EXCEPT ![w].step = step]

\* find_device found the row and the caller may delete it.
BeginDelete(w, d) ==
  /\ http[w].step = "idle"
  /\ owner[d] # None
  /\ http' = [http EXCEPT ![w] = [step |-> "delete_row", dev |-> d,
                                  host |-> None]]
  /\ UNCHANGED <<db, maps, conn, out, secrets, restarts>>

DeleteRow(w) ==
  /\ http[w].step = "delete_row"
  /\ owner' = [owner EXCEPT ![http[w].dev] = None]
  /\ unattended' = [unattended EXCEPT ![http[w].dev] = None]
  /\ HttpStep(w, "kick_online")
  /\ UNCHANGED <<account, issued, undeleted, maps, conn, out, secrets,
                 restarts>>

\* The DELETE fails, which the handler ignores: the device keeps its row and
\* is kicked all the same.
DeleteRowFails(w) ==
  /\ http[w].step = "delete_row"
  /\ undeleted' = undeleted \cup {http[w].dev}
  /\ HttpStep(w, "kick_online")
  /\ UNCHANGED <<account, owner, unattended, issued, maps, conn, out, secrets,
                 restarts>>

\* The HTTP client went away while the row was being deleted: the handler's
\* future is dropped at that await and kick_device never runs.
AbandonDelete(w) ==
  /\ http[w].step = "kick_online"
  /\ http' = [http EXCEPT ![w] = Idle]
  /\ UNCHANGED <<db, maps, conn, out, secrets, restarts>>

KickOnline(w) ==
  LET d == http[w].dev IN
  /\ http[w].step = "kick_online"
  /\ http' = [http EXCEPT ![w] = [step |-> "kick_otp", dev |-> d,
                                  host |-> device_online[d]]]
  /\ device_online' = [device_online EXCEPT ![d] = None]
  /\ UNCHANGED <<db, connections, otp, sessions, conn, out, secrets, restarts>>

KickOtp(w) ==
  /\ http[w].step = "kick_otp"
  /\ otp' = [otp EXCEPT ![http[w].dev] = None]
  /\ HttpStep(w, "notify")
  /\ UNCHANGED <<db, connections, device_online, sessions, conn, out, secrets,
                 restarts>>

KickNotify(w) ==
  /\ http[w].step = "notify"
  /\ IF http[w].host \in connections
     THEN Send(http[w].host, Plain("Removed"))
     ELSE UNCHANGED sent
  /\ http' = [http EXCEPT ![w] = Idle]
  /\ UNCHANGED <<db, maps, conn, writable, shown, secrets, restarts>>

\* Deleting an account deletes its device rows in the same transaction.  Its
\* devices are not kicked and its connections stay authenticated.
DeleteAccount(a) ==
  /\ account[a] = "live"
  /\ account' = [account EXCEPT ![a] = "deleted"]
  /\ owner' = [d \in Devices |-> IF owner[d] = a THEN None ELSE owner[d]]
  /\ unattended' = [d \in Devices |->
                      IF owner[d] = a THEN None ELSE unattended[d]]
  /\ UNCHANGED <<issued, undeleted, maps, conn, out, http, secrets, restarts>>

\* The process stops and starts again: every socket is closed, every handler
\* lost, the database kept.
Restart ==
  /\ restarts < MaxRestarts
  /\ restarts' = restarts + 1
  /\ connections' = {}
  /\ device_online' = [d \in Devices |-> None]
  /\ otp' = [d \in Devices |-> None]
  /\ sessions' = [s \in SessionIds |-> None]
  /\ pc' = [c \in Conns |-> IF pc[c] = "unopened" THEN "unopened" ELSE "closed"]
  /\ req' = [c \in Conns |-> NoRequest]
  /\ writable' = {}
  /\ sent' = [c \in Conns |-> {}]
  /\ http' = [w \in Workers |-> Idle]
  /\ UNCHANGED <<db, conn_state, my_device_id, shown, secrets>>

-----------------------------------------------------------------------------

\* Bound: every id of Conns has been used; a server that waits for the next
\* connection is not deadlocked.
NoConnectionLeft ==
  /\ \A c \in Conns : pc[c] = "closed"
  /\ UNCHANGED vars

\* What the server does by itself, once started.
ServerStep(c) ==
  \/ RemoveOnline(c)
  \/ RemoveOtp(c)
  \/ pc[c] = "go_online" /\ GoOnline(c)
  \/ \E o \in Otps : NewOtp(c, o)
  \/ CheckOtp(c)
  \/ FindHost(c)
  \/ \E s \in SessionIds : OpenSession(c, s)
  \/ ReplyEstablished(c)
  \/ StorePassword(c) \/ StorePasswordFails(c)
  \/ PushPassword(c)

\* What happens when a client acts.
ClientStep(c) ==
  \/ Open(c)
  \/ SendTaskBreaks(c)
  \/ Close(c)
  \/ \E a \in Accounts : Register(c, a) \/ RegisterFails(c, a) \/ Login(c, a)
  \/ \E d \in Devices : CreateDevice(c, d)
  \/ pc[c] = "read" /\ GoOnline(c)
  \/ \E d \in Devices, o \in Otps : RequestByOtp(c, d, o)
  \/ \E d \in Devices, p \in Passwords : RequestByPassword(c, d, p)
  \/ \E s \in SessionIds : relay(c, s)
  \/ \E d \in Devices, p \in Passwords : SetUnattendedPassword(c, d, p)

HttpServerStep(w) ==
  \/ DeleteRow(w) \/ DeleteRowFails(w)
  \/ KickOnline(w) \/ KickOtp(w) \/ KickNotify(w)

HttpClientStep(w) ==
  AbandonDelete(w) \/ \E d \in Devices : BeginDelete(w, d)

Next ==
  \/ \E c \in Conns : ServerStep(c) \/ ClientStep(c)
  \/ \E w \in Workers : HttpServerStep(w) \/ HttpClientStep(w)
  \/ \E a \in Accounts : DeleteAccount(a)
  \/ Restart
  \/ NoConnectionLeft

Spec == Init /\ [][Next]_vars

\* A started handler, clean-up or request is run to its end by the runtime;
\* nothing obliges a client to do anything.
Fairness ==
  /\ \A c \in Conns : WF_vars(ServerStep(c))
  /\ \A w \in Workers : WF_vars(HttpServerStep(w))

FairSpec == Spec /\ Fairness

-----------------------------------------------------------------------------
(* Properties. *)

\* The type invariant.
TypeOK ==
  /\ account \in [Accounts -> {"absent", "live", "deleted"}]
  /\ owner \in [Devices -> Accounts \cup {None}]
  /\ unattended \in [Devices -> Passwords \cup {None}]
  /\ issued \subseteq Devices
  /\ undeleted \subseteq Devices
  /\ connections \subseteq Conns
  /\ device_online \in [Devices -> Conns \cup {None}]
  /\ otp \in [Devices -> Otps \cup {None}]
  /\ sessions \in [SessionIds -> SessionPeers \cup {None}]
  /\ pc \in [Conns -> ConnSteps]
  /\ conn_state \in [Conns -> Accounts \cup {None}]
  /\ my_device_id \in [Conns -> Devices \cup {None}]
  /\ req \in [Conns -> Requests]
  /\ writable \subseteq Conns
  /\ sent \in [Conns -> SUBSET Messages]
  /\ shown \in [Conns -> Otps \cup {None}]
  /\ http \in [Workers -> [step : HttpSteps, dev : Devices \cup {None},
                           host : Conns \cup {None}]]
  /\ secrets \in [Devices -> SUBSET (Otps \cup Passwords)]
  /\ restarts \in 0 .. MaxRestarts

\* A device is online only through the connection that registered it, and
\* never through one whose clean-up has passed device_online.remove
\* (ws.rs:76-80): however registrations, kicks and disconnects interleave, no
\* entry outlives its connection.
NoStaleOnline ==
  \A d \in Devices, c \in Conns :
    device_online[d] = c =>
      /\ my_device_id[c] = d
      /\ pc[c] \notin {"unopened", "rm_otp", "closed"}

\* The one-time password the host was last shown is the one the server
\* compares with (ws.rs:146-151, 181-185), as long as the device row exists,
\* the device is online and its connection is between two messages: no
\* clean-up, kick or second registration leaves the host showing a password
\* that another one has replaced.  After a removal that failed to delete the
\* row (devices.rs:42) a host that registered again during the kick may show
\* one while the server has none, and then nobody is let in by it.
ShownOtpWorks ==
  \A c \in Conns :
    LET d == my_device_id[c] IN
    (pc[c] = "read" /\ c \in writable /\ d # None
       /\ owner[d] # None /\ device_online[d] = c)
    => \/ otp[d] = shown[c]
       \/ otp[d] = None /\ d \in undeleted

\* A session pairs an authenticated requester with the connection that
\* registered the requested device, for a secret that was at some time valid
\* for that very device: its one-time password or its unattended password
\* (ws.rs:173-207).  The secret may have been rotated since it was compared.
SessionAuthorised ==
  \A s \in SessionIds :
    sessions[s] # None =>
      /\ conn_state[sessions[s].a] # None
      /\ my_device_id[sessions[s].b] = sessions[s].dev
      /\ sessions[s].secret \in secrets[sessions[s].dev]

\* A requester that was told ConnectionEstablished is paired with a host that
\* was told IncomingConnection, unless the host's connection has left the
\* server in the meantime (ws.rs:199-218): there is no session only one of two
\* live peers knows of.
EstablishedMeansAnnounced ==
  \A c \in Conns, s \in SessionIds :
    Pairing("ConnectionEstablished", s) \in sent[c] =>
      /\ sessions[s] # None
      /\ \/ Pairing("IncomingConnection", s) \in sent[sessions[s].b]
         \/ sessions[s].b \notin connections

\* A relayed message reaches only a peer of its session, and comes from the
\* other peer (ws.rs:292-309, state.rs:44-52).
RelayBetweenPeers ==
  \A c \in Conns, o \in Conns, s \in SessionIds :
    Relayed(s, o) \in sent[c] =>
      /\ sessions[s] # None
      /\ \/ sessions[s].a = o /\ sessions[s].b = c
         \/ sessions[s].a = c /\ sessions[s].b = o

\* The host of a session hears of it before the first relayed message: the
\* offer never overtakes IncomingConnection in the host's outbox
\* (ws.rs:209-218, which announce first and answer the requester second).
AnnouncedBeforeRelayed ==
  \A c \in Conns, o \in Conns, s \in SessionIds :
    (Relayed(s, o) \in sent[c] /\ sessions[s] # None /\ sessions[s].b = c)
    => Pairing("IncomingConnection", s) \in sent[c]

\* The unattended password of a device changes only in a request of the
\* account that owns its row when the UPDATE runs, although the owner was
\* checked in an earlier statement (ws.rs:261-273).
PasswordSetByOwner ==
  [][\A d \in Devices :
       (unattended'[d] # unattended[d] /\ unattended'[d] # None)
       => \E c \in Conns : /\ pc[c] = "store_password"
                           /\ req[c].dev = d
                           /\ conn_state[c] = owner[d]]_vars

\* A connection whose read loop ended (ws.rs:76-80) leaves device_online for
\* good, whatever other tasks do meanwhile.
ClosedGoesOffline ==
  \A c \in Conns :
    (pc[c] = "rm_online") ~> [](\A d \in Devices : device_online[d] # c)

=============================================================================
