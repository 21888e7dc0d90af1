------------------------ MODULE SignalingServerProofs ------------------------
(***************************************************************************)
(* Proofs about module SignalingServer, for any sets of connections,       *)
(* devices, accounts, secrets, session ids and HTTP workers and any number *)
(* of restarts; and, at the end, that the server implements Rendezvous:    *)
(* the initial states correspond, and every step of the server is a step   *)
(* of Rendezvous or leaves its variables alone.                            *)
(***************************************************************************)
EXTENDS SignalingRefinement, TLAPS

\* What the locals of a handler hold at each of its steps.
RequestOK ==
  \A c \in Conns :
    /\ pc[c] = "check_otp" => req[c].secret \in Otps
    /\ pc[c] \in {"find_host", "open_session"} =>
         req[c].secret \in Otps \cup Passwords
    /\ pc[c] \in {"store_password", "push_password"} =>
         req[c].secret \in Passwords
    /\ pc[c] \in {"check_otp", "find_host", "open_session",
                  "store_password", "push_password"} =>
         req[c].dev \in Devices
    /\ pc[c] \in {"open_session", "reply"} => req[c].host \in Conns
    /\ pc[c] = "reply" => req[c].sid \in SessionIds

\* An HTTP request that has begun names a device.
HttpOK ==
  \A w \in Workers : http[w].step # "idle" => http[w].dev \in Devices

TypeInv == TypeOK /\ RequestOK /\ HttpOK

\* The actions, one by one: what a step of Next is.
LEMMA NextCases ==
  ASSUME Next
  PROVE  \/ \E c \in Conns :
              \/ Open(c) \/ SendTaskBreaks(c) \/ Close(c)
              \/ RemoveOnline(c) \/ RemoveOtp(c) \/ GoOnline(c)
              \/ CheckOtp(c) \/ FindHost(c) \/ ReplyEstablished(c)
              \/ StorePassword(c) \/ StorePasswordFails(c) \/ PushPassword(c)
         \/ \E c \in Conns, a \in Accounts :
              Register(c, a) \/ RegisterFails(c, a) \/ Login(c, a)
         \/ \E c \in Conns, d \in Devices : CreateDevice(c, d)
         \/ \E c \in Conns, o \in Otps : NewOtp(c, o)
         \/ \E c \in Conns, d \in Devices, o \in Otps : RequestByOtp(c, d, o)
         \/ \E c \in Conns, d \in Devices, p \in Passwords :
              RequestByPassword(c, d, p) \/ SetUnattendedPassword(c, d, p)
         \/ \E c \in Conns, s \in SessionIds : OpenSession(c, s) \/ relay(c, s)
         \/ \E w \in Workers :
              \/ DeleteRow(w) \/ DeleteRowFails(w) \/ AbandonDelete(w) \/ KickOnline(w)
              \/ KickOtp(w) \/ KickNotify(w)
         \/ \E w \in Workers, d \in Devices : BeginDelete(w, d)
         \/ \E a \in Accounts : DeleteAccount(a)
         \/ Restart
         \/ NoConnectionLeft
BY Zenon DEF Next, ServerStep, ClientStep, HttpServerStep, HttpClientStep

LEMMA TypeInit == Init => TypeInv
BY NoneAssumption, RestartsAssumption, SMTT(30)
   DEF Init, TypeInv, TypeOK, RequestOK, HttpOK, ConnSteps, HttpSteps,
       Requests, NoRequest, Idle, Messages

\* What an outbox accepts is a message.
LEMMA SendTyped ==
  ASSUME sent \in [Conns -> SUBSET Messages], NEW h, NEW m \in Messages, Send(h, m)
  PROVE  sent' \in [Conns -> SUBSET Messages]
BY DEF Send

LEMMA PairingTyped ==
  ASSUME NEW s \in SessionIds
  PROVE  Pairing("IncomingConnection", s) \in Messages
BY DEF Pairing, Messages

LEMMA TypeStep == TypeInv /\ [Next]_vars => TypeInv'
<1> SUFFICES ASSUME TypeInv, [Next]_vars PROVE TypeInv'
  OBVIOUS
<1> USE NoneAssumption, RestartsAssumption
    DEF TypeInv, TypeOK, RequestOK, HttpOK, ConnSteps, HttpSteps, Requests,
        NoRequest, Idle, Messages, SessionPeers, Plain, Pairing, Relayed,
        Goto, Send, Finish, ReadsAuthed, HttpStep, db, maps, conn, out
<1>1. ASSUME NEW c \in Conns, Open(c) PROVE TypeInv'
  BY <1>1 DEF Open
<1>2. ASSUME NEW c \in Conns, SendTaskBreaks(c) PROVE TypeInv'
  BY <1>2 DEF SendTaskBreaks
<1>3. ASSUME NEW c \in Conns, Close(c) PROVE TypeInv'
  BY <1>3 DEF Close
<1>4. ASSUME NEW c \in Conns, RemoveOnline(c) PROVE TypeInv'
  BY <1>4 DEF RemoveOnline
<1>5. ASSUME NEW c \in Conns, RemoveOtp(c) PROVE TypeInv'
  BY <1>5 DEF RemoveOtp
<1>6. ASSUME NEW c \in Conns, GoOnline(c) PROVE TypeInv'
  BY <1>6 DEF GoOnline
<1>7. ASSUME NEW c \in Conns, NEW a \in Accounts, Register(c, a)
     PROVE  TypeInv'
  BY <1>7 DEF Register
<1>8. ASSUME NEW c \in Conns, NEW a \in Accounts,
             Login(c, a) \/ RegisterFails(c, a)
      PROVE  TypeInv'
  BY <1>8, SMTT(30) DEF Login, RegisterFails
<1>9. ASSUME NEW c \in Conns, NEW d \in Devices, CreateDevice(c, d)
     PROVE  TypeInv'
  BY <1>9 DEF CreateDevice
<1>10. ASSUME NEW c \in Conns, NEW o \in Otps, NewOtp(c, o) PROVE TypeInv'
  BY <1>10 DEF NewOtp
<1>11. ASSUME NEW c \in Conns, NEW d \in Devices, NEW o \in Otps, RequestByOtp(c, d, o)
     PROVE  TypeInv'
  BY <1>11 DEF RequestByOtp
<1>12. ASSUME NEW c \in Conns, NEW d \in Devices, NEW p \in Passwords, RequestByPassword(c, d, p)
     PROVE  TypeInv'
  BY <1>12 DEF RequestByPassword
<1>13. ASSUME NEW c \in Conns, CheckOtp(c) PROVE TypeInv'
  <2>1. CASE otp[req[c].dev] = req[c].secret
    BY <1>13, <2>1 DEF CheckOtp
  <2>2. CASE otp[req[c].dev] # req[c].secret
    <3>1. Finish(c) BY <1>13, <2>2 DEF CheckOtp
    <3>2. UNCHANGED <<db, maps, conn_state, my_device_id, out, http, secrets,
                      restarts>>
      BY <1>13 DEF CheckOtp
    <3>3. QED BY <3>1, <3>2
  <2>3. QED BY <2>1, <2>2
<1>14. ASSUME NEW c \in Conns, FindHost(c) PROVE TypeInv'
  <2>1. CASE device_online[req[c].dev] # None
    <3>1. device_online[req[c].dev] \in Conns
      BY <1>14, <2>1 DEF FindHost
    <3>2. /\ req' = [req EXCEPT ![c].host = device_online[req[c].dev]]
          /\ Goto(c, "open_session")
      BY <1>14, <2>1 DEF FindHost
    <3>3. TypeOK'
      BY <1>14, <3>1, <3>2, SMTT(30) DEF FindHost
    <3>4. RequestOK'
      BY <1>14, <3>1, <3>2 DEF FindHost
    <3>5. QED BY <1>14, <3>3, <3>4 DEF FindHost
  <2>2. CASE device_online[req[c].dev] = None
    <3>1. Finish(c) BY <1>14, <2>2 DEF FindHost
    <3>2. QED BY <1>14, <3>1 DEF FindHost
  <2>3. QED BY <2>1, <2>2
<1>15. ASSUME NEW c \in Conns, NEW s \in SessionIds, OpenSession(c, s)
     PROVE  TypeInv'
  <2>1. PeersOf(c) \in SessionPeers
    BY <1>15 DEF OpenSession, PeersOf
  <2>2. CASE req[c].host \in connections \ writable
    <3>1. Finish(c) /\ UNCHANGED sent
      BY <1>15, <2>2 DEF OpenSession
    <3>2. QED BY <1>15, <2>1, <3>1 DEF OpenSession
  <2>3. CASE req[c].host \in connections \cap writable
    <3>1. /\ req' = [req EXCEPT ![c].sid = s]
          /\ Goto(c, "reply")
          /\ Send(req[c].host, Pairing("IncomingConnection", s))
      BY <1>15, <2>3 DEF OpenSession
    <3>2. sent' \in [Conns -> SUBSET Messages]
      <4> HIDE DEF Send, Messages, Pairing
      <4>1. QED BY <3>1, PairingTyped, SendTyped
    <3>3. sessions' \in [SessionIds -> SessionPeers \cup {None}]
      BY <1>15, <2>1 DEF OpenSession
    <3>4. /\ req' \in [Conns -> Requests] /\ pc' \in [Conns -> ConnSteps]
          /\ RequestOK'
      BY <1>15, <3>1 DEF OpenSession
    <3>5. QED BY <1>15, <3>2, <3>3, <3>4 DEF OpenSession
  <2>4. CASE req[c].host \notin connections
    <3>1. /\ req' = [req EXCEPT ![c].sid = s]
          /\ Goto(c, "reply")
          /\ UNCHANGED sent
      BY <1>15, <2>4 DEF OpenSession
    <3>2. QED BY <1>15, <2>1, <3>1 DEF OpenSession
  <2>5. QED BY <2>2, <2>3, <2>4
<1>16. ASSUME NEW c \in Conns, ReplyEstablished(c) PROVE TypeInv'
  BY <1>16 DEF ReplyEstablished
<1>17. ASSUME NEW c \in Conns, NEW s \in SessionIds, relay(c, s)
     PROVE  TypeInv'
  BY <1>17 DEF relay
<1>18. ASSUME NEW c \in Conns, NEW d \in Devices, NEW p \in Passwords, SetUnattendedPassword(c, d, p)
     PROVE  TypeInv'
  BY <1>18 DEF SetUnattendedPassword
<1>19. ASSUME NEW c \in Conns, StorePassword(c) PROVE TypeInv'
  <2>1. req[c].dev \in Devices /\ req[c].secret \in Passwords
    BY <1>19 DEF StorePassword
  <2>2. /\ unattended' \in [Devices -> Passwords \cup {None}]
        /\ secrets' \in [Devices -> SUBSET (Otps \cup Passwords)]
    BY <1>19, <2>1, SMTT(30) DEF StorePassword
  <2>3. QED BY <1>19, <2>2 DEF StorePassword
<1>20. ASSUME NEW c \in Conns,
             PushPassword(c) \/ StorePasswordFails(c)
      PROVE  TypeInv'
  <2>1. CASE PushPassword(c)
    BY <2>1 DEF PushPassword
  <2>2. CASE StorePasswordFails(c)
    BY <2>2 DEF StorePasswordFails
  <2>3. QED BY <1>20, <2>1, <2>2
<1>21. ASSUME NEW w \in Workers, NEW d \in Devices, BeginDelete(w, d)
     PROVE  TypeInv'
  BY <1>21 DEF BeginDelete
<1>22. ASSUME NEW w \in Workers, DeleteRow(w) PROVE TypeInv'
  BY <1>22 DEF DeleteRow
<1>23. ASSUME NEW w \in Workers,
             AbandonDelete(w) \/ DeleteRowFails(w)
      PROVE  TypeInv'
  <2>1. CASE AbandonDelete(w)
    BY <2>1 DEF AbandonDelete
  <2>2. CASE DeleteRowFails(w)
    BY <2>2 DEF DeleteRowFails
  <2>3. QED BY <1>23, <2>1, <2>2
<1>24. ASSUME NEW w \in Workers, KickOnline(w) PROVE TypeInv'
  BY <1>24 DEF KickOnline
<1>25. ASSUME NEW w \in Workers, KickOtp(w) PROVE TypeInv'
  BY <1>25, SMTT(30) DEF KickOtp
<1>26. ASSUME NEW w \in Workers, KickNotify(w) PROVE TypeInv'
  <2>1. sent' \in [Conns -> SUBSET Messages]
    <3>1. Plain("Removed") \in Messages
      OBVIOUS
    <3> HIDE DEF Send, Messages, Plain
    <3>2. QED BY <1>26, <3>1, SendTyped DEF KickNotify
  <2>2. QED BY <1>26, <2>1 DEF KickNotify
<1>27. ASSUME NEW a \in Accounts, DeleteAccount(a) PROVE TypeInv'
  BY <1>27 DEF DeleteAccount
<1>28. ASSUME Restart PROVE TypeInv'
  BY <1>28 DEF Restart
<1>29. ASSUME NoConnectionLeft PROVE TypeInv'
  BY <1>29 DEF NoConnectionLeft, vars
<1>30. CASE UNCHANGED vars
  BY <1>30 DEF vars
<1>31. QED
  BY NextCases, <1>1, <1>2, <1>3, <1>4, <1>5, <1>6, <1>7, <1>8, <1>9,
     <1>10, <1>11, <1>12, <1>13, <1>14, <1>15, <1>16, <1>17, <1>18, <1>19,
     <1>20, <1>21, <1>22, <1>23, <1>24, <1>25, <1>26, <1>27, <1>28, <1>29,
     <1>30

\* The type invariant of the signaling server (ws.rs, state.rs).
THEOREM TypeCorrect == Spec => []TypeOK
<1>1. Spec => []TypeInv
  BY TypeInit, TypeStep, PTL DEF Spec
<1>2. TypeInv => TypeOK
  BY DEF TypeInv
<1>3. QED BY <1>1, <1>2, PTL

-----------------------------------------------------------------------------
(* Which connection a device is online through. *)

\* A task that is about to use my_device_id has one.
DeviceSteps ==
  \A c \in Conns :
    pc[c] \in {"go_online", "new_otp", "rm_online", "rm_otp"} =>
      my_device_id[c] # None

\* A connection that has not been opened has left no trace.
UnopenedIsBlank ==
  \A c \in Conns :
    pc[c] = "unopened" => my_device_id[c] = None /\ c \notin connections

OnlineInv == NoStaleOnline /\ DeviceSteps /\ UnopenedIsBlank

LEMMA OnlineInit == Init => OnlineInv
BY NoneAssumption
   DEF Init, OnlineInv, NoStaleOnline, DeviceSteps, UnopenedIsBlank

LEMMA OnlineStep == TypeInv /\ OnlineInv /\ [Next]_vars => OnlineInv'
<1> SUFFICES ASSUME TypeInv, OnlineInv, [Next]_vars PROVE OnlineInv'
  OBVIOUS
<1> USE NoneAssumption
    DEF TypeInv, TypeOK, RequestOK, HttpOK, OnlineInv, NoStaleOnline,
        DeviceSteps, UnopenedIsBlank, Goto, Finish, ReadsAuthed, db, maps,
        conn, out
<1>1. ASSUME NEW c \in Conns, Open(c) PROVE OnlineInv'
  BY <1>1 DEF Open
<1>2. ASSUME NEW c \in Conns, SendTaskBreaks(c) PROVE OnlineInv'
  BY <1>2 DEF SendTaskBreaks
<1>3. ASSUME NEW c \in Conns, Close(c) PROVE OnlineInv'
  BY <1>3 DEF Close
<1>4. ASSUME NEW c \in Conns, RemoveOnline(c) PROVE OnlineInv'
  BY <1>4 DEF RemoveOnline
<1>5. ASSUME NEW c \in Conns, RemoveOtp(c) PROVE OnlineInv'
  BY <1>5 DEF RemoveOtp
<1>6. ASSUME NEW c \in Conns, GoOnline(c) PROVE OnlineInv'
  BY <1>6 DEF GoOnline
<1>7. ASSUME NEW c \in Conns, NEW a \in Accounts, Register(c, a)
     PROVE  OnlineInv'
  BY <1>7 DEF Register
<1>8. ASSUME NEW c \in Conns, NEW a \in Accounts,
             Login(c, a) \/ RegisterFails(c, a)
      PROVE  OnlineInv'
  BY <1>8 DEF Login, RegisterFails
<1>9. ASSUME NEW c \in Conns, NEW d \in Devices, CreateDevice(c, d)
     PROVE  OnlineInv'
  BY <1>9 DEF CreateDevice
<1>10. ASSUME NEW c \in Conns, NEW o \in Otps, NewOtp(c, o) PROVE OnlineInv'
  BY <1>10 DEF NewOtp
<1>11. ASSUME NEW c \in Conns, NEW d \in Devices, NEW o \in Otps, RequestByOtp(c, d, o)
     PROVE  OnlineInv'
  BY <1>11 DEF RequestByOtp
<1>12. ASSUME NEW c \in Conns, NEW d \in Devices, NEW p \in Passwords, RequestByPassword(c, d, p)
     PROVE  OnlineInv'
  BY <1>12 DEF RequestByPassword
<1>13. ASSUME NEW c \in Conns, CheckOtp(c) PROVE OnlineInv'
  BY <1>13 DEF CheckOtp
<1>14. ASSUME NEW c \in Conns, FindHost(c) PROVE OnlineInv'
  BY <1>14 DEF FindHost
<1>15. ASSUME NEW c \in Conns, NEW s \in SessionIds, OpenSession(c, s)
     PROVE  OnlineInv'
  BY <1>15 DEF OpenSession
<1>16. ASSUME NEW c \in Conns, ReplyEstablished(c) PROVE OnlineInv'
  BY <1>16 DEF ReplyEstablished
<1>17. ASSUME NEW c \in Conns, NEW s \in SessionIds, relay(c, s)
     PROVE  OnlineInv'
  BY <1>17 DEF relay
<1>18. ASSUME NEW c \in Conns, NEW d \in Devices, NEW p \in Passwords, SetUnattendedPassword(c, d, p)
     PROVE  OnlineInv'
  BY <1>18 DEF SetUnattendedPassword
<1>19. ASSUME NEW c \in Conns, StorePassword(c) PROVE OnlineInv'
  BY <1>19 DEF StorePassword
<1>20. ASSUME NEW c \in Conns,
             PushPassword(c) \/ StorePasswordFails(c)
      PROVE  OnlineInv'
  BY <1>20 DEF PushPassword, StorePasswordFails
<1>21. ASSUME NEW w \in Workers, NEW d \in Devices, BeginDelete(w, d)
     PROVE  OnlineInv'
  BY <1>21 DEF BeginDelete
<1>22. ASSUME NEW w \in Workers, DeleteRow(w) PROVE OnlineInv'
  BY <1>22 DEF DeleteRow
<1>23. ASSUME NEW w \in Workers,
             AbandonDelete(w) \/ DeleteRowFails(w)
      PROVE  OnlineInv'
  BY <1>23 DEF AbandonDelete, DeleteRowFails
<1>24. ASSUME NEW w \in Workers, KickOnline(w) PROVE OnlineInv'
  BY <1>24 DEF KickOnline
<1>25. ASSUME NEW w \in Workers, KickOtp(w) PROVE OnlineInv'
  BY <1>25 DEF KickOtp
<1>26. ASSUME NEW w \in Workers, KickNotify(w) PROVE OnlineInv'
  BY <1>26 DEF KickNotify
<1>27. ASSUME NEW a \in Accounts, DeleteAccount(a) PROVE OnlineInv'
  BY <1>27 DEF DeleteAccount
<1>28. ASSUME Restart PROVE OnlineInv'
  BY <1>28 DEF Restart
<1>29. ASSUME NoConnectionLeft PROVE OnlineInv'
  BY <1>29 DEF NoConnectionLeft, vars
<1>30. CASE UNCHANGED vars
  BY <1>30 DEF vars
<1>31. QED
  BY NextCases, <1>1, <1>2, <1>3, <1>4, <1>5, <1>6, <1>7, <1>8, <1>9,
     <1>10, <1>11, <1>12, <1>13, <1>14, <1>15, <1>16, <1>17, <1>18, <1>19,
     <1>20, <1>21, <1>22, <1>23, <1>24, <1>25, <1>26, <1>27, <1>28, <1>29,
     <1>30

\* No device stays online through a connection that is gone: the invariant
\* NoStaleOnline for every number of connections and devices.
THEOREM OnlineSafe == Spec => []NoStaleOnline
<1>1. Spec => [](TypeInv /\ OnlineInv)
  <2>1. Init => TypeInv /\ OnlineInv
    BY TypeInit, OnlineInit
  <2>2. TypeInv /\ OnlineInv /\ [Next]_vars => (TypeInv /\ OnlineInv)'
    BY TypeStep, OnlineStep
  <2>3. QED BY <2>1, <2>2, PTL DEF Spec
<1>2. OnlineInv => NoStaleOnline
  BY DEF OnlineInv
<1>3. QED BY <1>1, <1>2, PTL

-----------------------------------------------------------------------------
(* Which secrets open a session, and with whom. *)

\* The secrets that are valid now were made valid for that device.
ValidSecrets ==
  \A d \in Devices :
    /\ otp[d] # None => otp[d] \in secrets[d]
    /\ unattended[d] # None => unattended[d] \in secrets[d]

\* A request past the comparison holds a secret that was valid for its
\* device, and past device_online.get the connection that registered it.
RequestAuthorised ==
  \A c \in Conns :
    /\ pc[c] \in {"check_otp", "find_host", "open_session"} =>
         conn_state[c] # None
    /\ pc[c] \in {"find_host", "open_session"} =>
         req[c].secret \in secrets[req[c].dev]
    /\ pc[c] = "open_session" => my_device_id[req[c].host] = req[c].dev

AuthInv == ValidSecrets /\ RequestAuthorised /\ SessionAuthorised

LEMMA AuthInit == Init => AuthInv
BY NoneAssumption
   DEF Init, AuthInv, ValidSecrets, RequestAuthorised, SessionAuthorised

LEMMA AuthStep == TypeInv /\ OnlineInv /\ AuthInv /\ [Next]_vars => AuthInv'
<1> SUFFICES ASSUME TypeInv, OnlineInv, AuthInv, [Next]_vars PROVE AuthInv'
  OBVIOUS
<1> USE NoneAssumption
    DEF TypeInv, TypeOK, RequestOK, HttpOK, OnlineInv, NoStaleOnline,
        DeviceSteps, UnopenedIsBlank, AuthInv, ValidSecrets,
        RequestAuthorised, SessionAuthorised, SessionPeers, Requests,
        NoRequest, Goto, Finish, ReadsAuthed, db, maps, conn, out
<1>1. ASSUME NEW c \in Conns, Open(c) PROVE AuthInv'
  BY <1>1 DEF Open
<1>2. ASSUME NEW c \in Conns, SendTaskBreaks(c) PROVE AuthInv'
  BY <1>2 DEF SendTaskBreaks
<1>3. ASSUME NEW c \in Conns, Close(c) PROVE AuthInv'
  BY <1>3 DEF Close
<1>4. ASSUME NEW c \in Conns, RemoveOnline(c) PROVE AuthInv'
  BY <1>4 DEF RemoveOnline
<1>5. ASSUME NEW c \in Conns, RemoveOtp(c) PROVE AuthInv'
  BY <1>5 DEF RemoveOtp
<1>6. ASSUME NEW c \in Conns, GoOnline(c) PROVE AuthInv'
  BY <1>6 DEF GoOnline
<1>7. ASSUME NEW c \in Conns, NEW a \in Accounts, Register(c, a)
     PROVE  AuthInv'
  BY <1>7 DEF Register
<1>8. ASSUME NEW c \in Conns, NEW a \in Accounts,
             Login(c, a) \/ RegisterFails(c, a)
      PROVE  AuthInv'
  BY <1>8 DEF Login, RegisterFails
<1>9. ASSUME NEW c \in Conns, NEW d \in Devices, CreateDevice(c, d)
     PROVE  AuthInv'
  BY <1>9 DEF CreateDevice
<1>10. ASSUME NEW c \in Conns, NEW o \in Otps, NewOtp(c, o) PROVE AuthInv'
  BY <1>10 DEF NewOtp
<1>11. ASSUME NEW c \in Conns, NEW d \in Devices, NEW o \in Otps, RequestByOtp(c, d, o)
     PROVE  AuthInv'
  BY <1>11 DEF RequestByOtp
<1>12. ASSUME NEW c \in Conns, NEW d \in Devices, NEW p \in Passwords, RequestByPassword(c, d, p)
     PROVE  AuthInv'
  BY <1>12 DEF RequestByPassword
<1>13. ASSUME NEW c \in Conns, CheckOtp(c) PROVE AuthInv'
  BY <1>13 DEF CheckOtp
<1>14. ASSUME NEW c \in Conns, FindHost(c) PROVE AuthInv'
  BY <1>14 DEF FindHost
<1>15. ASSUME NEW c \in Conns, NEW s \in SessionIds, OpenSession(c, s)
     PROVE  AuthInv'
  <2>1. ValidSecrets'
    BY <1>15 DEF OpenSession
  <2>2. RequestAuthorised'
    <3>1. \A x \in Conns \ {c} : pc'[x] = pc[x] /\ req'[x] = req[x]
      BY <1>15 DEF OpenSession
    <3>2. pc'[c] \in {"read", "reply"}
      BY <1>15 DEF OpenSession
    <3>3. QED BY <1>15, <3>1, <3>2 DEF OpenSession
  <2>3. SessionAuthorised'
    BY <1>15 DEF OpenSession, PeersOf
  <2>4. QED BY <2>1, <2>2, <2>3
<1>16. ASSUME NEW c \in Conns, ReplyEstablished(c) PROVE AuthInv'
  BY <1>16 DEF ReplyEstablished
<1>17. ASSUME NEW c \in Conns, NEW s \in SessionIds, relay(c, s)
     PROVE  AuthInv'
  BY <1>17 DEF relay
<1>18. ASSUME NEW c \in Conns, NEW d \in Devices, NEW p \in Passwords, SetUnattendedPassword(c, d, p)
     PROVE  AuthInv'
  BY <1>18 DEF SetUnattendedPassword
<1>19. ASSUME NEW c \in Conns, StorePassword(c) PROVE AuthInv'
  <2>1. \A d \in Devices : secrets[d] \subseteq secrets'[d]
    BY <1>19 DEF StorePassword
  <2>2. ValidSecrets'
    BY <1>19 DEF StorePassword
  <2>3. RequestAuthorised'
    BY <1>19, <2>1 DEF StorePassword
  <2>4. SessionAuthorised'
    BY <1>19, <2>1 DEF StorePassword
  <2>5. QED BY <2>2, <2>3, <2>4
<1>20. ASSUME NEW c \in Conns,
             PushPassword(c) \/ StorePasswordFails(c)
      PROVE  AuthInv'
  BY <1>20 DEF PushPassword, StorePasswordFails
<1>21. ASSUME NEW w \in Workers, NEW d \in Devices, BeginDelete(w, d)
     PROVE  AuthInv'
  BY <1>21 DEF BeginDelete
<1>22. ASSUME NEW w \in Workers, DeleteRow(w) PROVE AuthInv'
  BY <1>22 DEF DeleteRow
<1>23. ASSUME NEW w \in Workers,
             AbandonDelete(w) \/ DeleteRowFails(w)
      PROVE  AuthInv'
  BY <1>23 DEF AbandonDelete, DeleteRowFails
<1>24. ASSUME NEW w \in Workers, KickOnline(w) PROVE AuthInv'
  BY <1>24 DEF KickOnline
<1>25. ASSUME NEW w \in Workers, KickOtp(w) PROVE AuthInv'
  BY <1>25 DEF KickOtp
<1>26. ASSUME NEW w \in Workers, KickNotify(w) PROVE AuthInv'
  BY <1>26 DEF KickNotify
<1>27. ASSUME NEW a \in Accounts, DeleteAccount(a) PROVE AuthInv'
  BY <1>27 DEF DeleteAccount
<1>28. ASSUME Restart PROVE AuthInv'
  BY <1>28 DEF Restart
<1>29. ASSUME NoConnectionLeft PROVE AuthInv'
  BY <1>29 DEF NoConnectionLeft, vars
<1>30. CASE UNCHANGED vars
  BY <1>30 DEF vars
<1>31. QED
  BY NextCases, <1>1, <1>2, <1>3, <1>4, <1>5, <1>6, <1>7, <1>8, <1>9,
     <1>10, <1>11, <1>12, <1>13, <1>14, <1>15, <1>16, <1>17, <1>18, <1>19,
     <1>20, <1>21, <1>22, <1>23, <1>24, <1>25, <1>26, <1>27, <1>28, <1>29,
     <1>30

-----------------------------------------------------------------------------
(* What the two peers of a session are told. *)

\* IncomingConnection goes to the host of the session only.
AnnouncedToHost ==
  \A c \in Conns, s \in SessionIds :
    Pairing("IncomingConnection", s) \in sent[c] =>
      sessions[s] # None /\ sessions[s].b = c

\* ConnectionEstablished goes to the requester of the session only.
EstablishedToRequester ==
  \A c \in Conns, s \in SessionIds :
    Pairing("ConnectionEstablished", s) \in sent[c] =>
      sessions[s] # None /\ sessions[s].a = c

\* The host was told before the requester is answered, unless it is gone.
ReplyAfterAnnouncement ==
  \A c \in Conns :
    pc[c] = "reply" =>
      /\ sessions[req[c].sid] # None
      /\ sessions[req[c].sid].a = c
      /\ \/ Pairing("IncomingConnection", req[c].sid)
               \in sent[sessions[req[c].sid].b]
         \/ sessions[req[c].sid].b \notin connections

PairingInv ==
  /\ AnnouncedToHost
  /\ EstablishedToRequester
  /\ ReplyAfterAnnouncement
  /\ EstablishedMeansAnnounced
  /\ RelayBetweenPeers
  /\ AnnouncedBeforeRelayed

LEMMA PairingInit == Init => PairingInv
BY DEF Init, PairingInv, AnnouncedToHost, EstablishedToRequester,
       ReplyAfterAnnouncement, EstablishedMeansAnnounced, RelayBetweenPeers,
       AnnouncedBeforeRelayed

\* The host of a session has been opened: its id never enters connections
\* again once it has left.
LEMMA HostWasOpened ==
  ASSUME TypeInv, OnlineInv, AuthInv, NEW s \in SessionIds,
         sessions[s] # None
  PROVE  sessions[s].b \in Conns /\ pc[sessions[s].b] # "unopened"
BY NoneAssumption
   DEF TypeInv, TypeOK, SessionPeers, OnlineInv, UnopenedIsBlank, AuthInv,
       SessionAuthorised

\* A step that opens no session, tells no peer anything of one, brings no
\* host back and lets no handler reach its reply.
Quiet ==
  /\ sessions' = sessions
  /\ \A s \in SessionIds :
       sessions[s] # None /\ sessions[s].b \in connections' =>
         sessions[s].b \in connections
  /\ \A x \in Conns : pc'[x] = "reply" => pc[x] = "reply" /\ req'[x] = req[x]
  /\ \A x \in Conns, s \in SessionIds :
       /\ Pairing("IncomingConnection", s) \in sent'[x] <=>
            Pairing("IncomingConnection", s) \in sent[x]
       /\ Pairing("ConnectionEstablished", s) \in sent'[x] <=>
            Pairing("ConnectionEstablished", s) \in sent[x]
       /\ \A o \in Conns : Relayed(s, o) \in sent'[x] <=> Relayed(s, o) \in sent[x]

LEMMA QuietPreserves ==
  ASSUME TypeInv, PairingInv, Quiet
  PROVE  PairingInv'
<1> USE DEF Quiet, PairingInv, TypeInv, TypeOK, SessionPeers
<1>1. AnnouncedToHost'
  BY DEF AnnouncedToHost
<1>2. EstablishedToRequester'
  BY DEF EstablishedToRequester
<1>3. ReplyAfterAnnouncement'
  <2> SUFFICES ASSUME NEW c \in Conns, pc'[c] = "reply"
               PROVE  /\ sessions'[req'[c].sid] # None
                      /\ sessions'[req'[c].sid].a = c
                      /\ \/ Pairing("IncomingConnection", req'[c].sid)
                               \in sent'[sessions'[req'[c].sid].b]
                         \/ sessions'[req'[c].sid].b \notin connections'
    BY DEF ReplyAfterAnnouncement
  <2>1. pc[c] = "reply" /\ req'[c] = req[c] /\ req[c].sid \in SessionIds
    BY DEF RequestOK
  <2>2. QED BY <2>1, NoneAssumption DEF ReplyAfterAnnouncement
<1>4. EstablishedMeansAnnounced'
  BY NoneAssumption DEF EstablishedMeansAnnounced
<1>5. RelayBetweenPeers'
  BY DEF RelayBetweenPeers
<1>6. AnnouncedBeforeRelayed'
  BY DEF AnnouncedBeforeRelayed
<1>7. QED BY <1>1, <1>2, <1>3, <1>4, <1>5, <1>6

LEMMA QuietSteps ==
  ASSUME TypeInv, OnlineInv, AuthInv, PairingInv, [Next]_vars
  PROVE  \/ Quiet
         \/ \E c \in Conns, s \in SessionIds : OpenSession(c, s) \/ relay(c, s)
         \/ \E c \in Conns : ReplyEstablished(c)
         \/ Restart
<1> USE NoneAssumption
    DEF TypeInv, TypeOK, RequestOK, Quiet, SessionPeers, Requests, NoRequest,
        Plain, Pairing, Relayed, Goto, Send, Finish, ReadsAuthed, db, maps,
        conn, out
<1>1. ASSUME NEW c \in Conns, Open(c) PROVE Quiet
  BY <1>1, HostWasOpened DEF Open
<1>2. ASSUME NEW c \in Conns, SendTaskBreaks(c) PROVE Quiet
  BY <1>2 DEF SendTaskBreaks
<1>3. ASSUME NEW c \in Conns, Close(c) PROVE Quiet
  BY <1>3 DEF Close
<1>4. ASSUME NEW c \in Conns, RemoveOnline(c) PROVE Quiet
  BY <1>4 DEF RemoveOnline
<1>5. ASSUME NEW c \in Conns, RemoveOtp(c) PROVE Quiet
  BY <1>5 DEF RemoveOtp
<1>6. ASSUME NEW c \in Conns, GoOnline(c) PROVE Quiet
  BY <1>6 DEF GoOnline
<1>7. ASSUME NEW c \in Conns, NEW a \in Accounts, Register(c, a) PROVE Quiet
  BY <1>7 DEF Register
<1>8. ASSUME NEW c \in Conns, NEW a \in Accounts,
             Login(c, a) \/ RegisterFails(c, a)
      PROVE  Quiet
  BY <1>8 DEF Login, RegisterFails
<1>9. ASSUME NEW c \in Conns, NEW d \in Devices, CreateDevice(c, d)
     PROVE  Quiet
  BY <1>9 DEF CreateDevice
<1>10. ASSUME NEW c \in Conns, NEW o \in Otps, NewOtp(c, o) PROVE Quiet
  BY <1>10 DEF NewOtp
<1>11. ASSUME NEW c \in Conns, NEW d \in Devices, NEW o \in Otps, RequestByOtp(c, d, o)
     PROVE  Quiet
  BY <1>11 DEF RequestByOtp
<1>12. ASSUME NEW c \in Conns, NEW d \in Devices, NEW p \in Passwords, RequestByPassword(c, d, p)
     PROVE  Quiet
  BY <1>12 DEF RequestByPassword
<1>13. ASSUME NEW c \in Conns, CheckOtp(c) PROVE Quiet
  BY <1>13 DEF CheckOtp
<1>14. ASSUME NEW c \in Conns, FindHost(c) PROVE Quiet
  BY <1>14 DEF FindHost
<1>15. ASSUME NEW c \in Conns, NEW d \in Devices, NEW p \in Passwords, SetUnattendedPassword(c, d, p)
     PROVE  Quiet
  BY <1>15 DEF SetUnattendedPassword
<1>16. ASSUME NEW c \in Conns, StorePassword(c) PROVE Quiet
  BY <1>16 DEF StorePassword
<1>17. ASSUME NEW c \in Conns,
             PushPassword(c) \/ StorePasswordFails(c)
      PROVE  Quiet
  BY <1>17 DEF PushPassword, StorePasswordFails
<1>18. ASSUME NEW w \in Workers, NEW d \in Devices, BeginDelete(w, d)
     PROVE  Quiet
  BY <1>18 DEF BeginDelete
<1>19. ASSUME NEW w \in Workers, DeleteRow(w) PROVE Quiet
  BY <1>19 DEF DeleteRow
<1>20. ASSUME NEW w \in Workers,
             AbandonDelete(w) \/ DeleteRowFails(w)
      PROVE  Quiet
  BY <1>20 DEF AbandonDelete, DeleteRowFails
<1>21. ASSUME NEW w \in Workers, KickOnline(w) PROVE Quiet
  BY <1>21 DEF KickOnline
<1>22. ASSUME NEW w \in Workers, KickOtp(w) PROVE Quiet
  BY <1>22 DEF KickOtp
<1>23. ASSUME NEW w \in Workers, KickNotify(w) PROVE Quiet
  BY <1>23 DEF KickNotify
<1>24. ASSUME NEW a \in Accounts, DeleteAccount(a) PROVE Quiet
  BY <1>24 DEF DeleteAccount
<1>25. ASSUME NoConnectionLeft PROVE Quiet
  BY <1>25 DEF NoConnectionLeft, vars
<1>26. CASE UNCHANGED vars
  BY <1>26 DEF vars
<1>27. QED
  BY NextCases, <1>1, <1>2, <1>3, <1>4, <1>5, <1>6, <1>7, <1>8, <1>9,
     <1>10, <1>11, <1>12, <1>13, <1>14, <1>15, <1>16, <1>17, <1>18, <1>19,
     <1>20, <1>21, <1>22, <1>23, <1>24, <1>25, <1>26

LEMMA OpenSessionPairing ==
  ASSUME TypeInv, PairingInv, NEW c \in Conns, NEW s \in SessionIds,
         OpenSession(c, s)
  PROVE  PairingInv'
<1> DEFINE h == req[c].host
           In(t) == Pairing("IncomingConnection", t)
           Est(t) == Pairing("ConnectionEstablished", t)
<1>1. /\ h \in Conns
      /\ sessions' = [sessions EXCEPT ![s] = PeersOf(c)]
      /\ sessions[s] = None
      /\ UNCHANGED connections
      /\ PeersOf(c) # None /\ PeersOf(c).a = c /\ PeersOf(c).b = h
  <2>1. PeersOf(c) \in SessionPeers
    BY DEF OpenSession, PeersOf, SessionPeers, TypeInv, RequestOK
  <2>2. QED BY <2>1, NoSessionAssumption
               DEF OpenSession, PeersOf, TypeInv, RequestOK, maps
<1>2. \A x \in Conns, o \in Conns :
        In(s) \notin sent[x] /\ Est(s) \notin sent[x] /\ Relayed(s, o) \notin sent[x]
  BY <1>1 DEF PairingInv, AnnouncedToHost, EstablishedToRequester,
              RelayBetweenPeers
<1>3. \A x \in Conns :
        \/ sent'[x] = sent[x]
        \/ x = h /\ sent'[x] = sent[x] \cup {In(s)}
  <2>1. \/ sent' = sent
        \/ sent' = [sent EXCEPT ![h] = IF h \in writable THEN @ \cup {In(s)} ELSE @]
    BY DEF OpenSession, Send
  <2>2. sent \in [Conns -> SUBSET Messages]
    BY DEF TypeInv, TypeOK
  <2>3. QED BY <1>1, <2>1, <2>2
<1>4. h \in connections /\ pc'[c] = "reply" => In(s) \in sent'[h]
  BY <1>1 DEF OpenSession, Send, Finish, Goto, TypeInv, TypeOK
<1>5. \A x \in Conns \ {c} : pc'[x] = pc[x] /\ req'[x] = req[x]
  BY DEF OpenSession, Goto, Finish, TypeInv, TypeOK
<1>6. pc'[c] = "reply" => req'[c].sid = s
  BY DEF OpenSession, Goto, Finish, TypeInv, TypeOK, Requests
<1>7. \A t \in SessionIds \ {s} : sessions'[t] = sessions[t]
  BY <1>1 DEF TypeInv, TypeOK
<1>8. sessions'[s] = PeersOf(c)
  BY <1>1 DEF TypeInv, TypeOK
<1>9. \A x \in Conns, o \in Conns, t \in SessionIds :
        /\ In(t) \in sent'[x] => In(t) \in sent[x] \/ (t = s /\ x = h)
        /\ Est(t) \in sent'[x] => Est(t) \in sent[x]
        /\ Relayed(t, o) \in sent'[x] => Relayed(t, o) \in sent[x]
  BY <1>3 DEF Pairing, Relayed
<1>10. \A x \in Conns, t \in SessionIds : In(t) \in sent[x] => In(t) \in sent'[x]
  BY <1>3
<1> HIDE DEF h, In, Est
<1>11. AnnouncedToHost'
  BY <1>1, <1>7, <1>8, <1>9 DEF AnnouncedToHost, PairingInv, In, Est
<1>12. EstablishedToRequester'
  BY <1>1, <1>2, <1>7, <1>9 DEF EstablishedToRequester, PairingInv, In, Est
<1>13. ReplyAfterAnnouncement'
  <2> SUFFICES ASSUME NEW x \in Conns, pc'[x] = "reply"
               PROVE  /\ sessions'[req'[x].sid] # None
                      /\ sessions'[req'[x].sid].a = x
                      /\ \/ In(req'[x].sid) \in sent'[sessions'[req'[x].sid].b]
                         \/ sessions'[req'[x].sid].b \notin connections'
    BY DEF ReplyAfterAnnouncement, In
  <2>1. CASE x = c
    BY <2>1, <1>1, <1>4, <1>6, <1>8
  <2>2. CASE x # c
    <3>1. /\ pc[x] = "reply" /\ req'[x] = req[x] /\ req[x].sid \in SessionIds
          /\ sessions[req[x].sid] # None
      BY <2>2, <1>5 DEF PairingInv, ReplyAfterAnnouncement, TypeInv, RequestOK
    <3>2. sessions'[req[x].sid] = sessions[req[x].sid]
      BY <3>1, <1>1, <1>7
    <3>3. sessions[req[x].sid].b \in Conns
      BY <3>1 DEF TypeInv, TypeOK, SessionPeers
    <3>4. QED
      BY <3>1, <3>2, <3>3, <1>1, <1>10
         DEF PairingInv, ReplyAfterAnnouncement, In
  <2>3. QED BY <2>1, <2>2
<1>14. EstablishedMeansAnnounced'
  <2> SUFFICES ASSUME NEW x \in Conns, NEW t \in SessionIds,
                      Est(t) \in sent'[x]
               PROVE  /\ sessions'[t] # None
                      /\ \/ In(t) \in sent'[sessions'[t].b]
                         \/ sessions'[t].b \notin connections'
    BY DEF EstablishedMeansAnnounced, In, Est
  <2>1. Est(t) \in sent[x] /\ t # s
    BY <1>2, <1>9
  <2>2. sessions[t] # None /\ sessions'[t] = sessions[t]
    BY <2>1, <1>7 DEF PairingInv, EstablishedMeansAnnounced, Est
  <2>3. sessions[t].b \in Conns
    BY <2>2 DEF TypeInv, TypeOK, SessionPeers
  <2>4. QED
    BY <2>1, <2>2, <2>3, <1>1, <1>10
       DEF PairingInv, EstablishedMeansAnnounced, In, Est
<1>15. RelayBetweenPeers'
  BY <1>2, <1>7, <1>9 DEF RelayBetweenPeers, PairingInv
<1>16. AnnouncedBeforeRelayed'
  BY <1>2, <1>7, <1>9, <1>10 DEF AnnouncedBeforeRelayed, PairingInv, In
<1>17. QED
  BY <1>11, <1>12, <1>13, <1>14, <1>15, <1>16 DEF PairingInv

LEMMA ReplyPairing ==
  ASSUME TypeInv, PairingInv, NEW c \in Conns, ReplyEstablished(c)
  PROVE  PairingInv'
<1> DEFINE s == req[c].sid
<1>1. /\ s \in SessionIds /\ sessions' = sessions /\ connections' = connections
      /\ sessions[s] # None /\ sessions[s].a = c
      /\ \/ Pairing("IncomingConnection", s) \in sent[sessions[s].b]
         \/ sessions[s].b \notin connections
  BY DEF ReplyEstablished, PairingInv, ReplyAfterAnnouncement, TypeInv,
         RequestOK, maps
<1>2. \A x \in Conns :
        \/ sent'[x] = sent[x]
        \/ /\ x = c
           /\ sent'[x] = sent[x] \cup {Pairing("ConnectionEstablished", s)}
  BY DEF ReplyEstablished, Send, TypeInv, TypeOK
<1>3. \A x \in Conns : pc'[x] = "reply" => pc[x] = "reply" /\ req'[x] = req[x]
  BY DEF ReplyEstablished, Finish, Goto, TypeInv, TypeOK
<1>4. \A x \in Conns, o \in Conns, t \in SessionIds :
        /\ Pairing("IncomingConnection", t) \in sent'[x] <=>
             Pairing("IncomingConnection", t) \in sent[x]
        /\ Relayed(t, o) \in sent'[x] <=> Relayed(t, o) \in sent[x]
        /\ Pairing("ConnectionEstablished", t) \in sent'[x] =>
             \/ Pairing("ConnectionEstablished", t) \in sent[x]
             \/ t = s /\ x = c
  BY <1>2 DEF Pairing, Relayed
<1>5. \A t \in SessionIds : sessions[t] # None => sessions[t].b \in Conns
  BY DEF TypeInv, TypeOK, SessionPeers
<1> HIDE DEF s
<1>6. AnnouncedToHost' /\ RelayBetweenPeers' /\ AnnouncedBeforeRelayed'
  BY <1>1, <1>4 DEF PairingInv, AnnouncedToHost, RelayBetweenPeers,
                    AnnouncedBeforeRelayed
<1>7. EstablishedToRequester' /\ EstablishedMeansAnnounced'
  BY <1>1, <1>4, <1>5 DEF PairingInv, EstablishedToRequester,
                          EstablishedMeansAnnounced
<1>8. ReplyAfterAnnouncement'
  <2> SUFFICES ASSUME NEW x \in Conns, pc'[x] = "reply"
               PROVE  /\ sessions[req'[x].sid] # None
                      /\ sessions[req'[x].sid].a = x
                      /\ \/ Pairing("IncomingConnection", req'[x].sid)
                               \in sent'[sessions[req'[x].sid].b]
                         \/ sessions[req'[x].sid].b \notin connections
    BY <1>1 DEF ReplyAfterAnnouncement
  <2>1. pc[x] = "reply" /\ req'[x] = req[x] /\ req[x].sid \in SessionIds
    BY <1>3 DEF TypeInv, RequestOK
  <2>2. QED BY <2>1, <1>4, <1>5 DEF PairingInv, ReplyAfterAnnouncement
<1>9. QED BY <1>6, <1>7, <1>8 DEF PairingInv

LEMMA RelayPairing ==
  ASSUME TypeInv, PairingInv, NEW c \in Conns, NEW s \in SessionIds,
         relay(c, s)
  PROVE  PairingInv'
<1> DEFINE o == other(sessions[s], c)
<1>1. /\ sessions' = sessions /\ connections' = connections
      /\ pc' = pc /\ req' = req
      /\ sessions[s] # None /\ o \in connections /\ o \in Conns
      /\ Knows(c, s)
  BY DEF relay, TypeInv, TypeOK, maps, conn
<1>2. /\ sessions[s].a \in Conns /\ sessions[s].b \in Conns
      /\ \/ sessions[s].a = c /\ o = sessions[s].b
         \/ sessions[s].b = c /\ o = sessions[s].a
  BY <1>1, NoneAssumption DEF relay, other, TypeInv, TypeOK, SessionPeers
<1>3. \A x \in Conns :
        \/ sent'[x] = sent[x]
        \/ x = o /\ sent'[x] = sent[x] \cup {Relayed(s, c)}
  <2>1. sent' = [sent EXCEPT ![o] = IF o \in writable THEN @ \cup {Relayed(s, c)}
                                                     ELSE @]
    BY DEF relay, Send
  <2> HIDE DEF o
  <2>2. sent \in [Conns -> SUBSET Messages]
    BY DEF TypeInv, TypeOK
  <2>3. QED BY <1>1, <2>1, <2>2
<1>4. \A x \in Conns, y \in Conns, t \in SessionIds :
        /\ Pairing("IncomingConnection", t) \in sent'[x] <=>
             Pairing("IncomingConnection", t) \in sent[x]
        /\ Pairing("ConnectionEstablished", t) \in sent'[x] <=>
             Pairing("ConnectionEstablished", t) \in sent[x]
        /\ Relayed(t, y) \in sent'[x] =>
             Relayed(t, y) \in sent[x] \/ (t = s /\ y = c /\ x = o)
  BY <1>3 DEF Pairing, Relayed
<1>5. \A t \in SessionIds : sessions[t] # None => sessions[t].b \in Conns
  BY DEF TypeInv, TypeOK, SessionPeers
<1>6. o = sessions[s].b => Pairing("IncomingConnection", s) \in sent[o]
  <2>1. CASE Pairing("IncomingConnection", s) \in sent[c]
    <3>1. sessions[s].b = c
      BY <2>1 DEF PairingInv, AnnouncedToHost
    <3>2. QED BY <2>1, <3>1
  <2>2. CASE Pairing("ConnectionEstablished", s) \in sent[c]
    BY <2>2, <1>1 DEF PairingInv, EstablishedMeansAnnounced
  <2>3. QED BY <1>1, <2>1, <2>2 DEF Knows
<1> HIDE DEF o
<1>7. AnnouncedToHost' /\ EstablishedToRequester' /\ EstablishedMeansAnnounced'
  BY <1>1, <1>4, <1>5 DEF PairingInv, AnnouncedToHost, EstablishedToRequester,
                          EstablishedMeansAnnounced
<1>8. RelayBetweenPeers'
  BY <1>1, <1>2, <1>4 DEF PairingInv, RelayBetweenPeers
<1>9. AnnouncedBeforeRelayed'
  BY <1>1, <1>4, <1>6 DEF PairingInv, AnnouncedBeforeRelayed
<1>10. ReplyAfterAnnouncement'
  BY <1>1, <1>4, <1>5 DEF PairingInv, ReplyAfterAnnouncement, TypeInv,
                          RequestOK
<1>11. QED BY <1>7, <1>8, <1>9, <1>10 DEF PairingInv

LEMMA RestartPairing ==
  ASSUME Restart
  PROVE  PairingInv'
BY DEF Restart, PairingInv, AnnouncedToHost, EstablishedToRequester,
       ReplyAfterAnnouncement, EstablishedMeansAnnounced, RelayBetweenPeers,
       AnnouncedBeforeRelayed

LEMMA PairingStep ==
  TypeInv /\ OnlineInv /\ AuthInv /\ PairingInv /\ [Next]_vars => PairingInv'
BY QuietSteps, QuietPreserves, OpenSessionPairing, ReplyPairing,
   RelayPairing, RestartPairing

-----------------------------------------------------------------------------
(* The theorems about pairing. *)

SignalingInv == TypeInv /\ OnlineInv /\ AuthInv /\ PairingInv

LEMMA SignalingInvariant == Spec => []SignalingInv
<1>1. Init => SignalingInv
  BY TypeInit, OnlineInit, AuthInit, PairingInit DEF SignalingInv
<1>2. SignalingInv /\ [Next]_vars => SignalingInv'
  BY TypeStep, OnlineStep, AuthStep, PairingStep DEF SignalingInv
<1>3. QED BY <1>1, <1>2, PTL DEF Spec

\* Every session was opened by an authenticated requester with a secret valid
\* for the device it asked for, and leads to the connection that registered
\* that device (ws.rs:173-207).
THEOREM SessionsAuthorised == Spec => []SessionAuthorised
<1>1. SignalingInv => SessionAuthorised
  BY DEF SignalingInv, AuthInv
<1>2. QED BY <1>1, SignalingInvariant, PTL

\* No requester is told of a session its live host was not told of
\* (ws.rs:209-218).
THEOREM EstablishedSafe == Spec => []EstablishedMeansAnnounced
<1>1. SignalingInv => EstablishedMeansAnnounced
  BY DEF SignalingInv, PairingInv
<1>2. QED BY <1>1, SignalingInvariant, PTL

\* Relayed messages stay between the two peers of their session
\* (ws.rs:292-309).
THEOREM RelaySafe == Spec => []RelayBetweenPeers
<1>1. SignalingInv => RelayBetweenPeers
  BY DEF SignalingInv, PairingInv
<1>2. QED BY <1>1, SignalingInvariant, PTL

\* A host hears of a session before the first message relayed in it.
THEOREM RelayOrdered == Spec => []AnnouncedBeforeRelayed
<1>1. SignalingInv => AnnouncedBeforeRelayed
  BY DEF SignalingInv, PairingInv
<1>2. QED BY <1>1, SignalingInvariant, PTL

-----------------------------------------------------------------------------
(* Device rows, one-time passwords and unattended passwords. *)

\* An id is stored once; every use of one comes after that.
IdsIssuedOnce ==
  /\ \A d \in Devices : owner[d] # None => d \in issued
  /\ \A c \in Conns : my_device_id[c] # None => my_device_id[c] \in issued
  /\ \A c1 \in Conns, c2 \in Conns :
       my_device_id[c1] # None /\ my_device_id[c1] = my_device_id[c2] => c1 = c2
  /\ \A w \in Workers : http[w].step # "idle" => http[w].dev \in issued
  /\ \A c \in Conns : pc[c] = "store_password" => req[c].dev \in issued

\* kick_device runs after the row is gone, for good, unless its deletion failed.
KickAfterDelete ==
  \A w \in Workers :
    http[w].step \in {"kick_online", "kick_otp", "notify"} =>
      owner[http[w].dev] = None \/ http[w].dev \in undeleted

\* The row a password is about to be stored in belongs to the requester, or
\* has been deleted.
StoreByOwner ==
  \A c \in Conns :
    pc[c] = "store_password" =>
      conn_state[c] # None /\ owner[req[c].dev] \in {conn_state[c], None}

\* ShownOtpWorks at every step at which no new password is due.
ShownOtpKept ==
  \A c \in Conns, d \in Devices :
    (/\ my_device_id[c] = d
     /\ pc[c] \notin {"go_online", "new_otp"}
     /\ c \in writable
     /\ owner[d] # None
     /\ device_online[d] = c)
    => otp[d] = shown[c] \/ (otp[d] = None /\ d \in undeleted)

RegistryInv ==
  IdsIssuedOnce /\ KickAfterDelete /\ StoreByOwner /\ ShownOtpKept

LEMMA RegistryInit == Init => RegistryInv
BY NoneAssumption
   DEF Init, RegistryInv, IdsIssuedOnce, KickAfterDelete, StoreByOwner,
       ShownOtpKept, Idle

LEMMA RegistryStep ==
  TypeInv /\ OnlineInv /\ RegistryInv /\ [Next]_vars => RegistryInv'
<1> SUFFICES ASSUME TypeInv, OnlineInv, RegistryInv, [Next]_vars
             PROVE  RegistryInv'
  OBVIOUS
<1> USE NoneAssumption
    DEF TypeInv, TypeOK, RequestOK, HttpOK, OnlineInv, NoStaleOnline,
        DeviceSteps, UnopenedIsBlank, RegistryInv, IdsIssuedOnce,
        KickAfterDelete, StoreByOwner, ShownOtpKept, Requests, NoRequest,
        Idle, Goto, Finish, ReadsAuthed, HttpStep, db, maps, conn, out
<1>1. ASSUME NEW c \in Conns, Open(c) PROVE RegistryInv'
  BY <1>1 DEF Open
<1>2. ASSUME NEW c \in Conns, SendTaskBreaks(c) PROVE RegistryInv'
  BY <1>2 DEF SendTaskBreaks
<1>3. ASSUME NEW c \in Conns, Close(c) PROVE RegistryInv'
  BY <1>3 DEF Close
<1>4. ASSUME NEW c \in Conns, RemoveOnline(c) PROVE RegistryInv'
  BY <1>4 DEF RemoveOnline
<1>5. ASSUME NEW c \in Conns, RemoveOtp(c) PROVE RegistryInv'
  BY <1>5 DEF RemoveOtp
<1>6. ASSUME NEW c \in Conns, GoOnline(c) PROVE RegistryInv'
  BY <1>6 DEF GoOnline
<1>7. ASSUME NEW c \in Conns, NEW a \in Accounts, Register(c, a)
     PROVE  RegistryInv'
  BY <1>7 DEF Register
<1>8. ASSUME NEW c \in Conns, NEW a \in Accounts,
             Login(c, a) \/ RegisterFails(c, a)
      PROVE  RegistryInv'
  BY <1>8 DEF Login, RegisterFails
<1>9. ASSUME NEW c \in Conns, NEW d \in Devices, CreateDevice(c, d)
     PROVE  RegistryInv'
  BY <1>9 DEF CreateDevice
<1>10. ASSUME NEW c \in Conns, NEW o \in Otps, NewOtp(c, o)
     PROVE  RegistryInv'
  BY <1>10 DEF NewOtp
<1>11. ASSUME NEW c \in Conns, NEW d \in Devices, NEW o \in Otps, RequestByOtp(c, d, o)
     PROVE  RegistryInv'
  BY <1>11 DEF RequestByOtp
<1>12. ASSUME NEW c \in Conns, NEW d \in Devices, NEW p \in Passwords, RequestByPassword(c, d, p)
     PROVE  RegistryInv'
  BY <1>12 DEF RequestByPassword
<1>13. ASSUME NEW c \in Conns, CheckOtp(c) PROVE RegistryInv'
  <2>1. \A x \in Conns \ {c} : pc'[x] = pc[x] /\ req'[x] = req[x]
    BY <1>13 DEF CheckOtp
  <2>2. pc[c] = "check_otp" /\ pc'[c] \in {"find_host", "read"}
    BY <1>13 DEF CheckOtp
  <2>3. UNCHANGED <<db, device_online, otp, conn_state, my_device_id,
                    writable, shown, http>>
    BY <1>13 DEF CheckOtp
  <2>4. ShownOtpKept'
    BY <2>1, <2>2, <2>3
  <2>5. IdsIssuedOnce' /\ KickAfterDelete' /\ StoreByOwner'
    BY <2>1, <2>2, <2>3
  <2>6. QED BY <2>4, <2>5
<1>14. ASSUME NEW c \in Conns, FindHost(c) PROVE RegistryInv'
  <2>1. \A x \in Conns \ {c} : pc'[x] = pc[x] /\ req'[x] = req[x]
    BY <1>14 DEF FindHost
  <2>2. pc[c] = "find_host" /\ pc'[c] \in {"open_session", "read"}
    BY <1>14 DEF FindHost
  <2>3. UNCHANGED <<db, device_online, otp, conn_state, my_device_id,
                    writable, shown, http>>
    BY <1>14 DEF FindHost
  <2>4. ShownOtpKept'
    BY <2>1, <2>2, <2>3
  <2>5. IdsIssuedOnce' /\ KickAfterDelete' /\ StoreByOwner'
    BY <2>1, <2>2, <2>3
  <2>6. QED BY <2>4, <2>5
<1>15. ASSUME NEW c \in Conns, NEW s \in SessionIds, OpenSession(c, s)
     PROVE  RegistryInv'
  <2>1. \A x \in Conns \ {c} : pc'[x] = pc[x] /\ req'[x] = req[x]
    BY <1>15 DEF OpenSession
  <2>2. pc[c] = "open_session" /\ pc'[c] \in {"reply", "read"}
    BY <1>15 DEF OpenSession
  <2>3. UNCHANGED <<db, device_online, otp, conn_state, my_device_id,
                    writable, shown, http>>
    BY <1>15 DEF OpenSession
  <2>4. ShownOtpKept'
    BY <2>1, <2>2, <2>3
  <2>5. IdsIssuedOnce' /\ KickAfterDelete' /\ StoreByOwner'
    BY <2>1, <2>2, <2>3
  <2>6. QED BY <2>4, <2>5
<1>16. ASSUME NEW c \in Conns, ReplyEstablished(c) PROVE RegistryInv'
  BY <1>16 DEF ReplyEstablished
<1>17. ASSUME NEW c \in Conns, NEW s \in SessionIds, relay(c, s)
     PROVE  RegistryInv'
  BY <1>17 DEF relay
<1>18. ASSUME NEW c \in Conns, NEW d \in Devices, NEW p \in Passwords, SetUnattendedPassword(c, d, p)
     PROVE  RegistryInv'
  BY <1>18 DEF SetUnattendedPassword
<1>19. ASSUME NEW c \in Conns, StorePassword(c) PROVE RegistryInv'
  BY <1>19 DEF StorePassword
<1>20. ASSUME NEW c \in Conns,
             PushPassword(c) \/ StorePasswordFails(c)
      PROVE  RegistryInv'
  <2>1. CASE PushPassword(c)
    BY <2>1 DEF PushPassword
  <2>2. CASE StorePasswordFails(c)
    BY <2>2 DEF StorePasswordFails
  <2>3. QED BY <1>20, <2>1, <2>2
<1>21. ASSUME NEW w \in Workers, NEW d \in Devices, BeginDelete(w, d)
     PROVE  RegistryInv'
  BY <1>21 DEF BeginDelete
<1>22. ASSUME NEW w \in Workers, DeleteRow(w) PROVE RegistryInv'
  BY <1>22 DEF DeleteRow
<1>23. ASSUME NEW w \in Workers,
             AbandonDelete(w) \/ DeleteRowFails(w)
      PROVE  RegistryInv'
  <2>1. CASE AbandonDelete(w)
    BY <2>1 DEF AbandonDelete
  <2>2. CASE DeleteRowFails(w)
    BY <2>2 DEF DeleteRowFails
  <2>3. QED BY <1>23, <2>1, <2>2
<1>24. ASSUME NEW w \in Workers, KickOnline(w) PROVE RegistryInv'
  BY <1>24 DEF KickOnline
<1>25. ASSUME NEW w \in Workers, KickOtp(w) PROVE RegistryInv'
  BY <1>25 DEF KickOtp
<1>26. ASSUME NEW w \in Workers, KickNotify(w) PROVE RegistryInv'
  BY <1>26 DEF KickNotify
<1>27. ASSUME NEW a \in Accounts, DeleteAccount(a) PROVE RegistryInv'
  BY <1>27 DEF DeleteAccount
<1>28. ASSUME Restart PROVE RegistryInv'
  BY <1>28 DEF Restart
<1>29. ASSUME NoConnectionLeft PROVE RegistryInv'
  BY <1>29 DEF NoConnectionLeft, vars
<1>30. CASE UNCHANGED vars
  BY <1>30 DEF vars
<1>31. QED
  BY NextCases, <1>1, <1>2, <1>3, <1>4, <1>5, <1>6, <1>7, <1>8, <1>9,
     <1>10, <1>11, <1>12, <1>13, <1>14, <1>15, <1>16, <1>17, <1>18, <1>19,
     <1>20, <1>21, <1>22, <1>23, <1>24, <1>25, <1>26, <1>27, <1>28, <1>29,
     <1>30

LEMMA RegistryInvariant == Spec => [](TypeInv /\ OnlineInv /\ RegistryInv)
<1>1. Init => TypeInv /\ OnlineInv /\ RegistryInv
  BY TypeInit, OnlineInit, RegistryInit
<1>2. TypeInv /\ OnlineInv /\ RegistryInv /\ [Next]_vars
        => (TypeInv /\ OnlineInv /\ RegistryInv)'
  BY TypeStep, OnlineStep, RegistryStep
<1>3. QED BY <1>1, <1>2, PTL DEF Spec

\* The one-time password a registered host shows is the one the server
\* accepts (ws.rs:146-151, 181-185); after a removal that failed to delete the
\* row (devices.rs:42) the server may have none, and never has another.
THEOREM ShownOtpSafe == Spec => []ShownOtpWorks
<1>1. TypeInv /\ OnlineInv /\ RegistryInv => ShownOtpWorks
  BY NoneAssumption
     DEF TypeInv, TypeOK, RegistryInv, ShownOtpKept, ShownOtpWorks
<1>2. QED BY <1>1, RegistryInvariant, PTL

\* Only the owner of a device row ever changes its unattended password
\* (ws.rs:261-273).
THEOREM PasswordSafe == Spec => PasswordSetByOwner
<1> DEFINE A == \A d \in Devices :
                  (unattended'[d] # unattended[d] /\ unattended'[d] # None)
                  => \E c \in Conns : /\ pc[c] = "store_password"
                                      /\ req[c].dev = d
                                      /\ conn_state[c] = owner[d]
<1>1. TypeInv /\ OnlineInv /\ RegistryInv /\ [Next]_vars => [A]_vars
  <2> SUFFICES ASSUME TypeInv, RegistryInv, Next PROVE A
    OBVIOUS
  <2> USE DEF TypeInv, TypeOK
  <2>1. CASE unattended' = unattended
    BY <2>1
  <2>2. ASSUME NEW c \in Conns, StorePassword(c) PROVE A
    BY <2>2 DEF StorePassword, RegistryInv, StoreByOwner, RequestOK
  <2>3. ASSUME NEW w \in Workers, DeleteRow(w) PROVE A
    BY <2>3 DEF DeleteRow, HttpOK
  <2>4. ASSUME NEW a \in Accounts, DeleteAccount(a) PROVE A
    BY <2>4 DEF DeleteAccount
  <2> HIDE DEF A
  <2>5. QED
    BY NextCases, <2>1, <2>2, <2>3, <2>4
       DEF Open, SendTaskBreaks, Close, RemoveOnline, RemoveOtp, GoOnline,
           CheckOtp, FindHost, ReplyEstablished, PushPassword, Register,
           RegisterFails, StorePasswordFails, DeleteRowFails, Finish,
           Login, CreateDevice, NewOtp, RequestByOtp, RequestByPassword,
           SetUnattendedPassword, OpenSession, relay, AbandonDelete,
           KickOnline, KickOtp, KickNotify, BeginDelete, Restart,
           NoConnectionLeft, vars, db
<1>2. QED
  BY <1>1, RegistryInvariant, PTL DEF Spec, PasswordSetByOwner

-----------------------------------------------------------------------------
(* A task that reads or runs a handler is in the map of connections. *)

\* Only the clean-up after the read loop removes the entry (ws.rs:74-75), so
\* a peer that is heard has not left.
RunningIsConnected ==
  \A c \in Conns :
    pc[c] \notin {"unopened", "rm_online", "rm_otp", "closed"} =>
      c \in connections

LEMMA RunningInit == Init => RunningIsConnected
BY DEF Init, RunningIsConnected

LEMMA RunningStep ==
  ASSUME TypeInv, RunningIsConnected, [Next]_vars
  PROVE  RunningIsConnected'
<1> USE DEF TypeInv, TypeOK, RunningIsConnected, Goto, Finish,
            ReadsAuthed, db, maps, conn, out
<1>1. ASSUME NEW c \in Conns, Open(c) \/ Close(c) PROVE RunningIsConnected'
  BY <1>1 DEF Open, Close
<1>2. ASSUME NEW c \in Conns,
             SendTaskBreaks(c) \/ RemoveOnline(c) \/ RemoveOtp(c) \/ GoOnline(c)
      PROVE  RunningIsConnected'
  BY <1>2 DEF SendTaskBreaks, RemoveOnline, RemoveOtp, GoOnline
<1>3. ASSUME NEW c \in Conns, NEW a \in Accounts,
             Register(c, a) \/ RegisterFails(c, a) \/ Login(c, a)
      PROVE  RunningIsConnected'
  BY <1>3 DEF Register, RegisterFails, Login
<1>4. ASSUME NEW c \in Conns, NEW d \in Devices, CreateDevice(c, d)
      PROVE  RunningIsConnected'
  BY <1>4 DEF CreateDevice
<1>5. ASSUME NEW c \in Conns, NEW o \in Otps, NewOtp(c, o)
      PROVE  RunningIsConnected'
  BY <1>5 DEF NewOtp
<1>6. ASSUME NEW c \in Conns, NEW d \in Devices, NEW o \in Otps,
             RequestByOtp(c, d, o)
      PROVE  RunningIsConnected'
  BY <1>6 DEF RequestByOtp
<1>7. ASSUME NEW c \in Conns, NEW d \in Devices, NEW p \in Passwords,
             RequestByPassword(c, d, p) \/ SetUnattendedPassword(c, d, p)
      PROVE  RunningIsConnected'
  BY <1>7 DEF RequestByPassword, SetUnattendedPassword
<1>8. ASSUME NEW c \in Conns, CheckOtp(c) \/ FindHost(c)
      PROVE  RunningIsConnected'
  BY <1>8 DEF CheckOtp, FindHost
<1>9. ASSUME NEW c \in Conns, NEW s \in SessionIds, OpenSession(c, s)
      PROVE  RunningIsConnected'
  BY <1>9 DEF OpenSession
<1>10. ASSUME NEW c \in Conns, NEW s \in SessionIds, relay(c, s)
      PROVE  RunningIsConnected'
  BY <1>10 DEF relay
<1>11. ASSUME NEW c \in Conns,
              \/ ReplyEstablished(c) \/ StorePassword(c) \/ StorePasswordFails(c)
              \/ PushPassword(c)
      PROVE  RunningIsConnected'
  BY <1>11 DEF ReplyEstablished, StorePassword, StorePasswordFails, PushPassword
<1>12. ASSUME NEW w \in Workers,
              \/ DeleteRow(w) \/ DeleteRowFails(w) \/ AbandonDelete(w) \/ KickOnline(w)
              \/ KickOtp(w) \/ KickNotify(w)
      PROVE  RunningIsConnected'
  BY <1>12 DEF DeleteRow, DeleteRowFails, AbandonDelete, KickOnline, KickOtp,
                 KickNotify
<1>13. ASSUME NEW w \in Workers, NEW d \in Devices, BeginDelete(w, d)
      PROVE  RunningIsConnected'
  BY <1>13 DEF BeginDelete
<1>14. ASSUME NEW a \in Accounts, DeleteAccount(a) PROVE RunningIsConnected'
  BY <1>14 DEF DeleteAccount
<1>15. ASSUME Restart PROVE RunningIsConnected'
  BY <1>15 DEF Restart
<1>16. CASE NoConnectionLeft \/ UNCHANGED vars
  BY <1>16 DEF NoConnectionLeft, vars
<1>17. QED
  BY NextCases, <1>1, <1>2, <1>3, <1>4, <1>5, <1>6, <1>7, <1>8, <1>9, <1>10,
     <1>11, <1>12, <1>13, <1>14, <1>15, <1>16

-----------------------------------------------------------------------------
(* Steps that tell no peer anything: what Rendezvous sees of them. *)

LEMMA QuietIsSilent ==
  ASSUME TypeInv, Quiet
  PROVE  sessions' = sessions /\ Told' = Told /\ Heard' = Heard
<1>1. \A s \in SessionIds : {c \in Conns : Knows(c, s)'} = {c \in Conns : Knows(c, s)}
  BY DEF Quiet, Knows
<1>2. \A s \in SessionIds :
        {p \in Conns \X Conns : Relayed(s, p[1]) \in sent'[p[2]]}
          = {p \in Conns \X Conns : Relayed(s, p[1]) \in sent[p[2]]}
  BY DEF Quiet
<1>3. Told' = Told
  BY <1>1 DEF Told
<1>4. Heard' = Heard
  BY <1>2 DEF Heard, Relayed
<1>5. QED BY <1>3, <1>4 DEF Quiet

\* A new secret, a connection that leaves, or nothing.
LEMMA OtherSteps ==
  ASSUME TypeInv, OnlineInv, RunningIsConnected, [Next]_vars, Quiet
  PROVE  \/ secrets' = secrets /\ Gone' = Gone
         \/ /\ Gone' = Gone
            /\ \E d \in Devices, x \in Otps \cup Passwords :
                 secrets' = [secrets EXCEPT ![d] = @ \cup {x}]
         \/ secrets' = secrets /\ \E c \in Conns : Gone' = Gone \cup {c}
         \/ \E c \in Conns, s \in SessionIds : OpenSession(c, s) \/ relay(c, s)
         \/ \E c \in Conns : ReplyEstablished(c)
         \/ Restart
<1> DEFINE Silent == secrets' = secrets /\ Gone' = Gone
           Issues == /\ Gone' = Gone
                     /\ \E d \in Devices, x \in Otps \cup Passwords :
                          secrets' = [secrets EXCEPT ![d] = @ \cup {x}]
           Leaves == secrets' = secrets /\ \E c \in Conns : Gone' = Gone \cup {c}
<1> USE NoneAssumption
    DEF TypeInv, TypeOK, RequestOK, OnlineInv, UnopenedIsBlank,
        RunningIsConnected, Gone, Goto, Finish, ReadsAuthed, db, maps, conn, out
<1>1. ASSUME NEW c \in Conns, Open(c) PROVE Silent
  BY <1>1 DEF Open
<1>2. ASSUME NEW c \in Conns, Close(c) PROVE Leaves
  <2>1. Gone' = Gone \cup {c}
    BY <1>2 DEF Close
  <2>2. QED BY <1>2, <2>1 DEF Close
<1>3. ASSUME NEW c \in Conns,
             SendTaskBreaks(c) \/ RemoveOnline(c) \/ RemoveOtp(c) \/ GoOnline(c)
      PROVE  Silent
  BY <1>3 DEF SendTaskBreaks, RemoveOnline, RemoveOtp, GoOnline
<1>4. ASSUME NEW c \in Conns, NEW a \in Accounts,
             Register(c, a) \/ RegisterFails(c, a) \/ Login(c, a)
      PROVE  Silent
  BY <1>4 DEF Register, RegisterFails, Login
<1>5. ASSUME NEW c \in Conns, NEW d \in Devices, CreateDevice(c, d)
      PROVE  Silent
  BY <1>5 DEF CreateDevice
<1>6. ASSUME NEW c \in Conns, NEW o \in Otps, NewOtp(c, o) PROVE Issues
  <2>1. my_device_id[c] \in Devices
    BY <1>6 DEF NewOtp, DeviceSteps
  <2>2. Gone' = Gone
    BY <1>6 DEF NewOtp
  <2>3. QED BY <1>6, <2>1, <2>2 DEF NewOtp
<1>7. ASSUME NEW c \in Conns, NEW d \in Devices, NEW o \in Otps,
             RequestByOtp(c, d, o)
      PROVE  Silent
  BY <1>7 DEF RequestByOtp
<1>8. ASSUME NEW c \in Conns, NEW d \in Devices, NEW p \in Passwords,
             RequestByPassword(c, d, p) \/ SetUnattendedPassword(c, d, p)
      PROVE  Silent
  BY <1>8 DEF RequestByPassword, SetUnattendedPassword
<1>9. ASSUME NEW c \in Conns,
             \/ CheckOtp(c) \/ FindHost(c) \/ PushPassword(c)
             \/ StorePasswordFails(c)
      PROVE  Silent
  BY <1>9 DEF CheckOtp, FindHost, PushPassword, StorePasswordFails
<1>10. ASSUME NEW c \in Conns, StorePassword(c) PROVE Issues \/ Silent
  <2>1. req[c].dev \in Devices /\ req[c].secret \in Passwords
    BY <1>10 DEF StorePassword
  <2>2. Gone' = Gone
    BY <1>10 DEF StorePassword
  <2>3. QED BY <1>10, <2>1, <2>2 DEF StorePassword
<1>11. ASSUME NEW w \in Workers,
              \/ DeleteRow(w) \/ DeleteRowFails(w) \/ AbandonDelete(w) \/ KickOnline(w)
              \/ KickOtp(w) \/ KickNotify(w)
       PROVE  Silent
  BY <1>11 DEF DeleteRow, DeleteRowFails, AbandonDelete, KickOnline, KickOtp,
                 KickNotify
<1>12. ASSUME NEW w \in Workers, NEW d \in Devices, BeginDelete(w, d)
       PROVE  Silent
  BY <1>12 DEF BeginDelete
<1>13. ASSUME NEW a \in Accounts, DeleteAccount(a) PROVE Silent
  BY <1>13 DEF DeleteAccount
<1>14. ASSUME NoConnectionLeft \/ UNCHANGED vars PROVE Silent
  BY <1>14 DEF NoConnectionLeft, vars
<1> HIDE DEF Silent, Issues, Leaves
<1>15. \/ Silent \/ Issues \/ Leaves
       \/ \E c \in Conns, s \in SessionIds : OpenSession(c, s) \/ relay(c, s)
       \/ \E c \in Conns : ReplyEstablished(c)
       \/ Restart
  BY NextCases, <1>1, <1>2, <1>3, <1>4, <1>5, <1>6, <1>7, <1>8, <1>9, <1>10,
     <1>11, <1>12, <1>13, <1>14
<1>16. QED BY <1>15 DEF Silent, Issues, Leaves

-----------------------------------------------------------------------------
(* The steps that tell a peer something, and the loss of every session. *)

LEMMA OpenSessionIsMeet ==
  ASSUME TypeInv, AuthInv, PairingInv, NEW c \in Conns, NEW s \in SessionIds,
         OpenSession(c, s)
  PROVE  R!Meet(s, PeersOf(c)) /\ PeersOf(c) \in R!Meetings
<1> DEFINE h == req[c].host
<1>1. /\ h \in Conns /\ req[c].dev \in Devices
      /\ req[c].secret \in secrets[req[c].dev]
      /\ req[c].secret \in Otps \cup Passwords
  BY DEF OpenSession, TypeInv, RequestOK, AuthInv, RequestAuthorised
<1>2. /\ sessions[s] = None
      /\ sessions' = [sessions EXCEPT ![s] = PeersOf(c)]
      /\ UNCHANGED <<secrets, connections>>
  BY DEF OpenSession
<1>3. /\ PeersOf(c).a = c /\ PeersOf(c).b = h /\ PeersOf(c).dev = req[c].dev
      /\ PeersOf(c).secret = req[c].secret
      /\ PeersOf(c) \in R!Meetings
  BY <1>1 DEF PeersOf, R!Meetings
<1>4. /\ sent \in [Conns -> SUBSET Messages]
      /\ \/ sent' = sent
         \/ /\ h \in connections
            /\ sent' = [sent EXCEPT ![h] = @ \cup {Pairing("IncomingConnection", s)}]
  BY <1>1 DEF OpenSession, Send, TypeInv, TypeOK
<1>5. Gone' = Gone
  BY <1>2 DEF Gone, OpenSession, Goto, Finish, TypeInv, TypeOK
<1>6. h \in connections => h \notin Gone
  BY DEF Gone
<1>7. \A x \in Conns : ~ Knows(x, s)
  BY <1>2 DEF Knows, PairingInv, AnnouncedToHost, EstablishedToRequester
<1> HIDE DEF h
<1>8. Heard' = Heard
  <2>1. \A x \in Conns, y \in Conns, t \in SessionIds :
          Relayed(t, y) \in sent'[x] <=> Relayed(t, y) \in sent[x]
    BY <1>1, <1>4 DEF Relayed, Pairing
  <2>2. \A t \in SessionIds :
          {p \in Conns \X Conns : Relayed(t, p[1]) \in sent'[p[2]]}
            = {p \in Conns \X Conns : Relayed(t, p[1]) \in sent[p[2]]}
    BY <2>1
  <2>3. QED BY <2>2 DEF Heard, Relayed
<1>9. \/ Told' = Told
      \/ Told' = [Told EXCEPT ![s] = {h}] /\ h \in connections
  <2>1. CASE sent' = sent
    BY <2>1 DEF Told, Knows
  <2>2. CASE /\ h \in connections
             /\ sent' = [sent EXCEPT ![h] = @ \cup {Pairing("IncomingConnection", s)}]
    <3>1. \A x \in Conns, t \in SessionIds :
            Knows(x, t)' <=> Knows(x, t) \/ (x = h /\ t = s)
      BY <1>1, <1>4, <2>2 DEF Knows, Pairing
    <3>2. {x \in Conns : Knows(x, s)'} = {h}
      BY <1>1, <1>7, <3>1
    <3>3. \A t \in SessionIds \ {s} :
            {x \in Conns : Knows(x, t)'} = {x \in Conns : Knows(x, t)}
      BY <3>1
    <3>4. QED BY <2>2, <3>2, <3>3 DEF Told
  <2>3. QED BY <1>4, <2>1, <2>2
<1>10. QED
  BY <1>1, <1>2, <1>3, <1>5, <1>6, <1>8, <1>9 DEF R!Meet

LEMMA ReplyIsTellRequester ==
  ASSUME TypeInv, OnlineInv, AuthInv, PairingInv, NEW c \in Conns,
         ReplyEstablished(c)
  PROVE  R!TellRequester(req[c].sid) \/ UNCHANGED R!vars
<1> DEFINE s == req[c].sid
<1>1. /\ s \in SessionIds /\ sessions' = sessions /\ connections' = connections
      /\ secrets' = secrets
      /\ sessions[s] # None /\ sessions[s].a = c
      /\ \/ Pairing("IncomingConnection", s) \in sent[sessions[s].b]
         \/ sessions[s].b \notin connections
  BY DEF ReplyEstablished, PairingInv, ReplyAfterAnnouncement, TypeInv,
         RequestOK, maps
<1>2. sessions[s].b \in Conns /\ pc[sessions[s].b] # "unopened"
  BY <1>1, HostWasOpened
<1>3. /\ sent \in [Conns -> SUBSET Messages]
      /\ \/ sent' = sent
         \/ sent' = [sent EXCEPT ![c] = @ \cup {Pairing("ConnectionEstablished", s)}]
  BY DEF ReplyEstablished, Send, TypeInv, TypeOK
<1>4. Gone' = Gone
  BY <1>1 DEF Gone, ReplyEstablished, Goto, Finish, TypeInv, TypeOK
<1> HIDE DEF s
<1>5. sessions[s].b \in Told[s] \cup Gone
  BY <1>1, <1>2 DEF Told, Knows, Gone
<1>6. CASE sent' = sent
  <2>1. Told' = Told /\ Heard' = Heard
    BY <1>6 DEF Told, Knows, Heard
  <2>2. QED BY <1>1, <1>4, <2>1 DEF R!vars
<1>7. CASE sent' = [sent EXCEPT ![c] = @ \cup {Pairing("ConnectionEstablished", s)}]
  <2>1. \A x \in Conns, y \in Conns, t \in SessionIds :
          /\ Relayed(t, y) \in sent'[x] <=> Relayed(t, y) \in sent[x]
          /\ Knows(x, t)' <=> Knows(x, t) \/ (x = c /\ t = s)
    BY <1>3, <1>7 DEF Knows, Relayed, Pairing
  <2>2. \A t \in SessionIds :
          {p \in Conns \X Conns : Relayed(t, p[1]) \in sent'[p[2]]}
            = {p \in Conns \X Conns : Relayed(t, p[1]) \in sent[p[2]]}
    BY <2>1
  <2>3. Heard' = Heard
    BY <2>2 DEF Heard, Relayed
  <2>4. \A t \in SessionIds :
          {x \in Conns : Knows(x, t)'}
            = {x \in Conns : Knows(x, t)} \cup (IF t = s THEN {c} ELSE {})
    BY <2>1
  <2>5. Told' = [Told EXCEPT ![s] = @ \cup {c}]
    BY <1>1, <2>4, ZenonT(40) DEF Told
  <2>6. R!TellRequester(s)
    BY <1>1, <1>4, <1>5, <2>3, <2>5 DEF R!TellRequester
  <2>7. QED BY <2>6 DEF s
<1>8. QED BY <1>3, <1>6, <1>7

LEMMA RelayIsSpeak ==
  ASSUME TypeInv, PairingInv, RunningIsConnected, NEW c \in Conns,
         NEW s \in SessionIds, relay(c, s)
  PROVE  \/ \E o \in Conns : R!Speak(s, c, o)
         \/ UNCHANGED R!vars
<1> DEFINE o == other(sessions[s], c)
<1>1. /\ UNCHANGED <<sessions, connections, secrets, pc>>
      /\ sessions[s] # None /\ o \in connections /\ o \in Conns
      /\ Knows(c, s) /\ c \in connections
  BY DEF relay, RunningIsConnected, TypeInv, TypeOK, maps, conn
<1>2. \/ sessions[s].a = c /\ o = sessions[s].b
      \/ sessions[s].b = c /\ o = sessions[s].a
  BY <1>1, NoneAssumption DEF relay, other
<1>3. /\ sent \in [Conns -> SUBSET Messages]
      /\ \/ sent' = sent
         \/ sent' = [sent EXCEPT ![o] = @ \cup {Relayed(s, c)}]
  BY DEF relay, Send, TypeInv, TypeOK
<1>4. o = sessions[s].b => Knows(o, s)
  BY <1>1 DEF Knows, PairingInv, AnnouncedToHost, EstablishedMeansAnnounced
<1>5. Gone' = Gone /\ {c, o} \cap Gone = {}
  BY <1>1 DEF Gone
<1> HIDE DEF o
<1>6. CASE sent' = sent
  <2>1. Told' = Told /\ Heard' = Heard
    BY <1>6 DEF Told, Knows, Heard
  <2>2. QED BY <1>1, <1>5, <2>1 DEF R!vars
<1>7. CASE sent' = [sent EXCEPT ![o] = @ \cup {Relayed(s, c)}]
  <2>1. \A x \in Conns, y \in Conns, t \in SessionIds :
          /\ Relayed(t, y) \in sent'[x] <=>
               Relayed(t, y) \in sent[x] \/ (t = s /\ y = c /\ x = o)
          /\ Knows(x, t)' <=> Knows(x, t)
    BY <1>1, <1>3, <1>7 DEF Knows, Relayed, Pairing
  <2>2. \A t \in SessionIds :
          {x \in Conns : Knows(x, t)'} = {x \in Conns : Knows(x, t)}
    BY <2>1
  <2>3. Told' = Told
    BY <2>2 DEF Told
  <2>4. \A t \in SessionIds :
          {p \in Conns \X Conns : Relayed(t, p[1]) \in sent'[p[2]]}
            = {p \in Conns \X Conns : Relayed(t, p[1]) \in sent[p[2]]}
                \cup (IF t = s THEN {<<c, o>>} ELSE {})
    BY <1>1, <2>1
  <2>5. Heard' = [Heard EXCEPT ![s] = @ \cup {<<c, o>>}]
    BY <2>4 DEF Heard, Relayed
  <2>6. c \in Told[s] /\ (o = sessions[s].b => o \in Told[s])
    BY <1>1, <1>4 DEF Told
  <2>7. R!Speak(s, c, o)
    BY <1>1, <1>2, <1>5, <2>3, <2>5, <2>6 DEF R!Speak
  <2>8. QED BY <1>1, <2>7
<1>8. QED BY <1>3, <1>6, <1>7

LEMMA RestartIsForget ==
  ASSUME TypeInv, Restart
  PROVE  R!Forget
<1>1. \A s \in SessionIds, x \in Conns, y \in Conns :
        ~ Knows(x, s)' /\ Relayed(s, y) \notin sent'[x]
  BY DEF Restart, Knows
<1>2. Told' = [s \in SessionIds |-> {}]
  BY <1>1 DEF Told
<1>3. \A s \in SessionIds :
        {p \in Conns \X Conns : Relayed(s, p[1]) \in sent'[p[2]]} = {}
  BY <1>1
<1>4. Heard' = [s \in SessionIds |-> {}]
  BY <1>3 DEF Heard, Relayed
<1>5. Gone \subseteq Gone' /\ Gone' \subseteq Conns
  BY DEF Gone, Restart, TypeInv, TypeOK
<1>6. QED BY <1>2, <1>4, <1>5 DEF R!Forget, Restart

-----------------------------------------------------------------------------

LEMMA RefinementInit == Init => R!Init
<1> SUFFICES ASSUME Init PROVE R!Init
  OBVIOUS
<1>1. Told = [s \in SessionIds |-> {}]
  BY DEF Told, Knows, Init
<1>2. \A s \in SessionIds :
        {p \in Conns \X Conns : Relayed(s, p[1]) \in sent[p[2]]} = {}
  BY DEF Init
<1>3. Heard = [s \in SessionIds |-> {}]
  BY <1>2 DEF Heard, Relayed
<1>4. Gone = {}
  BY DEF Gone, Init
<1>5. QED BY <1>1, <1>3, <1>4 DEF R!Init, Init

LEMMA RefinementStep ==
  ASSUME SignalingInv, RunningIsConnected, [Next]_vars
  PROVE  [R!Next]_(R!vars)
<1> USE DEF SignalingInv
<1>1. ASSUME NEW c \in Conns, NEW s \in SessionIds, OpenSession(c, s)
      PROVE  R!Next
  BY <1>1, OpenSessionIsMeet DEF R!Next
<1>2. ASSUME NEW c \in Conns, NEW s \in SessionIds, relay(c, s)
      PROVE  R!Next \/ UNCHANGED R!vars
  BY <1>2, RelayIsSpeak DEF R!Next, R!Speak
<1>3. ASSUME NEW c \in Conns, ReplyEstablished(c)
      PROVE  R!Next \/ UNCHANGED R!vars
  <2>1. req[c].sid \in SessionIds
    BY <1>3 DEF ReplyEstablished, TypeInv, RequestOK
  <2>2. QED BY <1>3, <2>1, ReplyIsTellRequester DEF R!Next
<1>4. ASSUME Restart PROVE R!Next
  BY <1>4, RestartIsForget DEF R!Next
<1>5. CASE Quiet
  <2>1. sessions' = sessions /\ Told' = Told /\ Heard' = Heard
    BY <1>5, QuietIsSilent
  <2>2. CASE secrets' = secrets /\ Gone' = Gone
    BY <2>1, <2>2 DEF R!vars
  <2>3. ASSUME Gone' = Gone, NEW d \in Devices, NEW x \in Otps \cup Passwords,
               secrets' = [secrets EXCEPT ![d] = @ \cup {x}]
        PROVE  R!Next
    BY <2>1, <2>3 DEF R!Next, R!Issue
  <2>4. ASSUME secrets' = secrets, NEW c \in Conns, Gone' = Gone \cup {c}
        PROVE  R!Next \/ UNCHANGED R!vars
    BY <2>1, <2>4 DEF R!Next, R!Leave, R!vars
  <2>5. QED
    BY <1>5, OtherSteps, <2>2, <2>3, <2>4, <1>1, <1>2, <1>3, <1>4
<1>6. QED BY QuietSteps, <1>1, <1>2, <1>3, <1>4, <1>5

\* The signaling server implements Rendezvous: whatever its tasks, its
\* clients and the HTTP requests do, sessions are made for valid secrets, the
\* host is told first and only the two peers hear each other (ws.rs:173-218,
\* 292-309).
THEOREM Implements == Spec => ImplementsRendezvous
<1>1. Init => SignalingInv /\ RunningIsConnected
  BY TypeInit, OnlineInit, AuthInit, PairingInit, RunningInit
     DEF SignalingInv
<1>2. SignalingInv /\ RunningIsConnected /\ [Next]_vars
      => (SignalingInv /\ RunningIsConnected)'
  BY TypeStep, OnlineStep, AuthStep, PairingStep, RunningStep
     DEF SignalingInv
<1>3. SignalingInv /\ RunningIsConnected /\ [Next]_vars => [R!Next]_(R!vars)
  BY RefinementStep
<1>4. QED
  BY <1>1, <1>2, <1>3, RefinementInit, PTL
     DEF Spec, ImplementsRendezvous, R!Spec

=============================================================================
