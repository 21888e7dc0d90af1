----------------------------- MODULE Rendezvous -----------------------------
(***************************************************************************)
(* What the signaling server promises its clients, without its handlers,   *)
(* maps and outboxes: two parties meet under an id, for a secret that was  *)
(* valid for the device asked for; the host hears of the meeting first,    *)
(* the requester second; and what one of them says under that id reaches   *)
(* the other, and nobody else.                                             *)
(***************************************************************************)
EXTENDS Naturals

CONSTANTS Parties, Devices, Secrets, Ids, None

Meetings == [a : Parties, b : Parties, dev : Devices, secret : Secrets]

VARIABLES
  valid,    \* device -> the secrets that were ever valid for it
  meeting,  \* id -> requester a and host b, or None
  told,     \* id -> the parties that were told of the meeting
  heard,    \* id -> <<speaker, listener>>: who has heard whom under it
  gone      \* the parties that have left

vars == <<valid, meeting, told, heard, gone>>

Init ==
  /\ valid = [d \in Devices |-> {}]
  /\ meeting = [i \in Ids |-> None]
  /\ told = [i \in Ids |-> {}]
  /\ heard = [i \in Ids |-> {}]
  /\ gone = {}

Issue(d, x) ==
  /\ valid' = [valid EXCEPT ![d] = @ \cup {x}]
  /\ UNCHANGED <<meeting, told, heard, gone>>

\* The host is told at once, if it can be told at all.
Meet(i, m) ==
  /\ meeting[i] = None
  /\ m.secret \in valid[m.dev]
  /\ meeting' = [meeting EXCEPT ![i] = m]
  /\ told' \in {told, [told EXCEPT ![i] = {m.b}]}
  /\ m.b \in gone => told' = told
  /\ UNCHANGED <<valid, heard, gone>>

\* The requester is told of a meeting its host knows of, or has left.
TellRequester(i) ==
  /\ meeting[i] # None
  /\ meeting[i].b \in told[i] \cup gone
  /\ told' = [told EXCEPT ![i] = @ \cup {meeting[i].a}]
  /\ UNCHANGED <<valid, meeting, heard, gone>>

\* A host hears nothing under an id it was not told of.
Speak(i, p, q) ==
  /\ meeting[i] # None
  /\ \/ p = meeting[i].a /\ q = meeting[i].b /\ q \in told[i]
     \/ p = meeting[i].b /\ q = meeting[i].a
  /\ p \in told[i]
  /\ {p, q} \cap gone = {}
  /\ heard' = [heard EXCEPT ![i] = @ \cup {<<p, q>>}]
  /\ UNCHANGED <<valid, meeting, told, gone>>

Leave(p) ==
  /\ p \notin gone
  /\ gone' = gone \cup {p}
  /\ UNCHANGED <<valid, meeting, told, heard>>

\* Everybody leaves, and no meeting is remembered.
Forget ==
  /\ meeting' = [i \in Ids |-> None]
  /\ told' = [i \in Ids |-> {}]
  /\ heard' = [i \in Ids |-> {}]
  /\ gone \subseteq gone' /\ gone' \subseteq Parties
  /\ UNCHANGED valid

Next ==
  \/ \E d \in Devices, x \in Secrets : Issue(d, x)
  \/ \E i \in Ids, m \in Meetings : Meet(i, m)
  \/ \E i \in Ids : TellRequester(i)
  \/ \E i \in Ids : \E p \in told[i], q \in Parties : Speak(i, p, q)
  \/ \E p \in Parties : Leave(p)
  \/ Forget

Spec == Init /\ [][Next]_vars

=============================================================================
