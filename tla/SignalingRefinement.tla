------------------------ MODULE SignalingRefinement ------------------------
(***************************************************************************)
(* The signaling server implements the promise of module Rendezvous.       *)
(***************************************************************************)
EXTENDS SignalingServer

\* The parties whose outbox was given IncomingConnection or
\* ConnectionEstablished, and the pairs between which a message was relayed.
Told  == [s \in SessionIds |-> {c \in Conns : Knows(c, s)}]
Heard == [s \in SessionIds |->
            {p \in Conns \X Conns : Relayed(s, p[1]) \in sent[p[2]]}]

\* Connections that were opened and have left the map of connections.
Gone == {c \in Conns : pc[c] # "unopened"} \ connections

R == INSTANCE Rendezvous
       WITH Parties <- Conns, Secrets <- Otps \cup Passwords,
            Ids <- SessionIds, valid <- secrets, meeting <- sessions,
            told <- Told, heard <- Heard, gone <- Gone

\* Every step of the server's tasks is a step of Rendezvous, or none: under
\* whatever interleaving of requests, disconnects and broken sockets, ids are
\* made for valid secrets only (ws.rs:173-207), the host is told before the
\* requester (ws.rs:209-218), and messages pass between the two peers that
\* know of the session (ws.rs:292-309).
ImplementsRendezvous == R!Spec

=============================================================================
