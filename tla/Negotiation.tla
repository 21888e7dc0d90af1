---------------------------- MODULE Negotiation ----------------------------
(***************************************************************************)
(* How a controller and a host set up a peer connection through the        *)
(* signaling server: visuara-client's host loop (host.rs) and connect      *)
(* (controller.rs), with the server's part of the exchange (ws.rs) as the  *)
(* channel between them.                                                   *)
(*                                                                         *)
(* Each client has one WebSocket: what it sends is handled by the server   *)
(* in order (up), what the server sends it arrives in order (down), and    *)
(* nothing is ordered across clients.  Both programs read one message at a *)
(* time, and what a message means depends on where the program waits.  A   *)
(* controller asks for one session, which is named after it here.          *)
(***************************************************************************)
EXTENDS Naturals, Sequences

CONSTANTS
  Controllers,  \* runs of connect, one session each
  Host,         \* the host
  None,         \* no session
  MaxIce        \* bound: ICE candidates a side sends

Peers == Controllers \cup {Host}

ASSUME PeersAssumption == Host \notin Controllers /\ None \notin Peers

ASSUME IceAssumption == MaxIce \in Nat

VARIABLES
  hpc,       \* where the host's loop waits
  serving,   \* the session handle_one_connection was called for
  cpc,       \* where each controller's connect waits
  ice,       \* how many candidates a side has sent
  up,        \* messages a client has sent and the server has not handled
  down,      \* messages the server has sent and the client has not read
  open       \* clients whose connection the server still holds

vars == <<hpc, serving, cpc, ice, up, down, open>>

\* A message names its type and, from "IncomingConnection" on, its session.
Msg(type, k) == [type |-> type, sid |-> k]

HostSteps == {"wait_incoming", "wait_turn", "wait_offer", "stream",
              "bad_candidate", "gone"}
CtlSteps  == {"start", "wait_turn", "wait_established", "make_offer",
              "wait_answer", "connected", "bad_candidate", "gone"}

Init ==
  /\ hpc = "wait_incoming"
  /\ serving = None
  /\ cpc = [k \in Controllers |-> "start"]
  /\ ice = [x \in Peers |-> 0]
  /\ up = [x \in Peers |-> << >>]
  /\ down = [x \in Peers |-> << >>]
  /\ open = Peers

-----------------------------------------------------------------------------
(* The clients' halves of a socket. *)

Send(x, m) == up' = [up EXCEPT ![x] = Append(@, m)]

\* recv: the next message of x, taken off the socket.
Receives(x) == down[x] # << >>
Next1(x)    == Head(down[x])
Take(x)     == down' = [down EXCEPT ![x] = Tail(@)]

-----------------------------------------------------------------------------
(* The controller: connect. *)

CtlRequestTurn(k) ==
  /\ cpc[k] = "start"
  /\ Send(k, Msg("RequestTurnCredentials", None))
  /\ cpc' = [cpc EXCEPT ![k] = "wait_turn"]
  /\ UNCHANGED <<hpc, serving, ice, down, open>>

\* Whatever arrives counts as the reply; only TurnCredentials are used.
CtlRequestConnection(k) ==
  /\ cpc[k] = "wait_turn"
  /\ Receives(k)
  /\ Take(k)
  /\ Send(k, Msg("RequestConnection", None))
  /\ cpc' = [cpc EXCEPT ![k] = "wait_established"]
  /\ UNCHANGED <<hpc, serving, ice, open>>

\* Anything but ConnectionEstablished ends connect, which drops the socket.
CtlEstablished(k) ==
  /\ cpc[k] = "wait_established"
  /\ Receives(k)
  /\ Take(k)
  /\ cpc' = [cpc EXCEPT ![k] =
               IF Next1(k).type = "ConnectionEstablished" THEN "make_offer"
                                                          ELSE "gone"]
  /\ UNCHANGED <<hpc, serving, ice, up, open>>

CtlOffer(k) ==
  /\ cpc[k] = "make_offer"
  /\ Send(k, Msg("SdpOffer", k))
  /\ cpc' = [cpc EXCEPT ![k] = "wait_answer"]
  /\ UNCHANGED <<hpc, serving, ice, down, open>>

\* A candidate that comes before the answer is refused by the peer connection,
\* which has no remote description yet: connect fails.  Other messages and
\* those of other sessions are skipped.
CtlAwaitAnswer(k) ==
  /\ cpc[k] = "wait_answer"
  /\ Receives(k)
  /\ Take(k)
  /\ cpc' = [cpc EXCEPT ![k] =
               CASE Next1(k) = Msg("SdpAnswer", k) -> "connected"
                 [] Next1(k) = Msg("IceCandidate", k) -> "bad_candidate"
                 [] OTHER -> "wait_answer"]
  /\ UNCHANGED <<hpc, serving, ice, up, open>>

\* Mutant: candidates are sent as soon as they are found.
CtlSendIceEarly(k) ==
  /\ cpc[k] \in {"make_offer", "wait_answer", "connected"}
  /\ ice[k] < MaxIce
  /\ ice' = [ice EXCEPT ![k] = @ + 1]
  /\ Send(k, Msg("IceCandidate", k))
  /\ UNCHANGED <<hpc, serving, cpc, down, open>>

\* Candidates found earlier wait in candidate_rx until the answer is in.
CtlSendIce(k) ==
  /\ cpc[k] = "connected"
  /\ ice[k] < MaxIce
  /\ ice' = [ice EXCEPT ![k] = @ + 1]
  /\ Send(k, Msg("IceCandidate", k))
  /\ UNCHANGED <<hpc, serving, cpc, down, open>>

CtlConnected(k) ==
  /\ cpc[k] = "connected"
  /\ Receives(k)
  /\ Take(k)
  /\ UNCHANGED <<hpc, serving, cpc, ice, up, open>>

\* The user closes the window, or the program or its network fails.
CtlLeaves(k) ==
  /\ cpc[k] # "gone"
  /\ cpc' = [cpc EXCEPT ![k] = "gone"]
  /\ UNCHANGED <<hpc, serving, ice, up, down, open>>

-----------------------------------------------------------------------------
(* The host: serve_connections and handle_one_connection. *)

\* serve_connections skips everything but IncomingConnection.
HostIncoming ==
  /\ hpc = "wait_incoming"
  /\ Receives(Host)
  /\ Take(Host)
  /\ IF Next1(Host).type = "IncomingConnection"
     THEN /\ serving' = Next1(Host).sid
          /\ Send(Host, Msg("RequestTurnCredentials", None))
          /\ hpc' = "wait_turn"
     ELSE UNCHANGED <<serving, up, hpc>>
  /\ UNCHANGED <<cpc, ice, open>>

\* One message is read as the reply, whatever it is; an offer that comes
\* first is lost.
HostTurn ==
  /\ hpc = "wait_turn"
  /\ Receives(Host)
  /\ Take(Host)
  /\ hpc' = "wait_offer"
  /\ UNCHANGED <<serving, cpc, ice, up, open>>

\* Mutant: an offer of any session is answered for the session served.
HostAwaitAnyOffer ==
  /\ hpc = "wait_offer"
  /\ Receives(Host)
  /\ Take(Host)
  /\ IF Next1(Host).type = "SdpOffer"
     THEN /\ Send(Host, Msg("SdpAnswer", Next1(Host).sid))
          /\ hpc' = "stream"
     ELSE UNCHANGED <<hpc, up>>
  /\ UNCHANGED <<serving, cpc, ice, open>>

\* Mutant: the host reads past the offer.
HostAwaitOfferDropped ==
  /\ hpc = "wait_offer"
  /\ Receives(Host)
  /\ Take(Host)
  /\ UNCHANGED <<serving, hpc, cpc, ice, up, open>>

\* The offer of the session is answered; a candidate of it that comes first
\* is refused and ends the host's loop; everything else is skipped.
HostAwaitOffer ==
  /\ hpc = "wait_offer"
  /\ Receives(Host)
  /\ Take(Host)
  /\ CASE Next1(Host) = Msg("SdpOffer", serving) ->
            /\ Send(Host, Msg("SdpAnswer", serving))
            /\ hpc' = "stream"
       [] Next1(Host) = Msg("IceCandidate", serving) ->
            /\ hpc' = "bad_candidate"
            /\ UNCHANGED up
       [] OTHER -> UNCHANGED <<hpc, up>>
  /\ UNCHANGED <<serving, cpc, ice, open>>

\* The select loop, which nothing leaves: the host's own candidates ...
HostSendIce ==
  /\ hpc = "stream"
  /\ ice[Host] < MaxIce
  /\ ice' = [ice EXCEPT ![Host] = @ + 1]
  /\ Send(Host, Msg("IceCandidate", serving))
  /\ UNCHANGED <<hpc, serving, cpc, down, open>>

\* ... and the messages of the server, all skipped but the candidates of the
\* session.
HostStream ==
  /\ hpc = "stream"
  /\ Receives(Host)
  /\ Take(Host)
  /\ UNCHANGED <<hpc, serving, cpc, ice, up, open>>

HostLeaves ==
  /\ hpc # "gone"
  /\ hpc' = "gone"
  /\ UNCHANGED <<serving, cpc, ice, up, down, open>>

-----------------------------------------------------------------------------
(* The server, which handles one message of one connection at a time. *)

Gone(x) == IF x = Host THEN hpc = "gone" ELSE cpc[x] = "gone"

\* The other peer of session k.
other(k, x) == IF x = Host THEN k ELSE Host

Deliver(x, m) == [down EXCEPT ![x] = Append(@, m)]

\* RequestTurnCredentials is answered; RequestConnection announces the session
\* to the host, then answers the requester, or refuses while the device is
\* offline; the rest is relayed, or refused once the other peer is gone.
Handle(x, m) ==
  CASE m.type = "RequestTurnCredentials" ->
         Deliver(x, Msg("TurnCredentials", None))
    [] m.type = "RequestConnection" ->
         IF Host \in open
         THEN [down EXCEPT ![Host] = Append(@, Msg("IncomingConnection", x)),
                           ![x] = Append(@, Msg("ConnectionEstablished", x))]
         ELSE Deliver(x, Msg("Error", None))
    [] OTHER ->
         IF other(m.sid, x) \in open
         THEN Deliver(other(m.sid, x), m)
         ELSE Deliver(x, Msg("Error", None))

ServerHandle(x) ==
  /\ x \in open
  /\ up[x] # << >>
  /\ up' = [up EXCEPT ![x] = Tail(@)]
  /\ down' = Handle(x, Head(up[x]))
  /\ UNCHANGED <<hpc, serving, cpc, ice, open>>

\* The server notices that a client is gone, at once or after reading what it
\* had sent.
ServerDrop(x) ==
  /\ x \in open
  /\ Gone(x)
  /\ open' = open \ {x}
  /\ up' = [up EXCEPT ![x] = << >>]
  /\ UNCHANGED <<hpc, serving, cpc, ice, down>>

-----------------------------------------------------------------------------

CtlStep(k) ==
  \/ CtlRequestTurn(k)
  \/ CtlRequestConnection(k)
  \/ CtlEstablished(k)
  \/ CtlOffer(k)
  \/ CtlAwaitAnswer(k)
  \/ CtlSendIce(k)
  \/ CtlConnected(k)

HostStep ==
  \/ HostIncoming
  \/ HostTurn
  \/ HostAwaitOffer
  \/ HostSendIce
  \/ HostStream

\* Everyone has left.
AllGone == (\A x \in Peers : Gone(x) /\ x \notin open) /\ UNCHANGED vars

Next ==
  \/ \E k \in Controllers : CtlStep(k) \/ CtlLeaves(k)
  \/ HostStep
  \/ HostLeaves
  \/ \E x \in Peers : ServerHandle(x) \/ ServerDrop(x)
  \/ AllGone

Spec == Init /\ [][Next]_vars

\* Programs that run take their next step, and the server handles what it has
\* received and notices what has left; nobody has to leave.
FairSpec ==
  /\ Spec
  /\ \A k \in Controllers : WF_vars(CtlStep(k))
  /\ WF_vars(HostStep)
  /\ \A x \in Peers : WF_vars(ServerHandle(x)) /\ WF_vars(ServerDrop(x))

-----------------------------------------------------------------------------
(* Properties. *)

\* What clients send, and what the server sends to its clients.
RelayTypes  == {"SdpOffer", "SdpAnswer", "IceCandidate"}
ClientTypes == RelayTypes \cup {"RequestTurnCredentials", "RequestConnection"}
ServerTypes == RelayTypes \cup {"TurnCredentials", "IncomingConnection",
                                "ConnectionEstablished", "Error"}

Messages(types) == [type : types, sid : Controllers \cup {None}]

\* The type invariant.
TypeOK ==
  /\ hpc \in HostSteps
  /\ serving \in Controllers \cup {None}
  /\ cpc \in [Controllers -> CtlSteps]
  /\ ice \in [Peers -> 0 .. MaxIce]
  /\ up \in [Peers -> Seq(Messages(ClientTypes))]
  /\ down \in [Peers -> Seq(Messages(ServerTypes))]
  /\ open \subseteq Peers

\* Neither side is ever handed a candidate before the description it belongs
\* to (host.rs:234-237 and controller.rs:160-163 would then fail): each holds
\* its candidates back until the answer is through, and the relay keeps order.
CandidatesAfterDescription ==
  /\ hpc # "bad_candidate"
  /\ \A k \in Controllers : cpc[k] # "bad_candidate"

\* A controller is connected only to a host that answered its own offer and
\* serves its session, so never two at a time (host.rs:231-247,
\* controller.rs:157-168).
ConnectedIsServed ==
  \A k \in Controllers :
    cpc[k] = "connected" => serving = k /\ hpc \in {"stream", "gone"}

Queued(q, m) == \E i \in DOMAIN q : q[i] = m

\* An offer that has not reached the host yet when the host starts to wait for
\* it is answered, and the controller gets the answer, unless one of the two
\* leaves (host.rs:230-247, controller.rs:157-168).
OfferIsAnswered ==
  \A k \in Controllers :
    (/\ hpc = "wait_offer" /\ serving = k
     /\ \/ cpc[k] \in {"wait_established", "make_offer"}
        \/ Queued(up[k], Msg("SdpOffer", k))
        \/ Queued(down[Host], Msg("SdpOffer", k)))
    ~> (cpc[k] \in {"connected", "gone"} \/ hpc = "gone")

\* What host.rs:230 says of the host: "Wait for the controller's SDP offer for
\* this session, answer it.": a controller that waits for the answer of the
\* session the host serves gets it, unless one of the two leaves.
AwaitedAnswerComes ==
  \A k \in Controllers :
    (cpc[k] = "wait_answer" /\ serving = k)
    ~> (cpc[k] \in {"connected", "gone"} \/ hpc = "gone")

=============================================================================
