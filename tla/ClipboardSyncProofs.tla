------------------------- MODULE ClipboardSyncProofs -------------------------
(***************************************************************************)
(* Proofs about module ClipboardSync, for any texts and any number of      *)
(* copies and of clipboards that cannot be written.                        *)
(***************************************************************************)
EXTENDS ClipboardSync, SequenceTheorems, TLAPS

-----------------------------------------------------------------------------
(* Sides and queues. *)

LEMMA PeerOf ==
  ASSUME NEW s \in Sides
  PROVE  peer(s) \in Sides /\ peer(s) # s /\ Sides = {s, peer(s)}
<1>1. \E o \in Sides : o # s
  BY DEF Sides
<1>2. peer(s) \in Sides /\ peer(s) # s
  BY <1>1 DEF peer
<1>3. QED BY <1>2 DEF Sides

LEMMA SeqMonotone ==
  ASSUME NEW S, NEW T, S \subseteq T, NEW q \in Seq(S)
  PROVE  q \in Seq(T)
OBVIOUS

\* A queue without its i-th element.
LEMMA RemoveOne ==
  ASSUME NEW S, NEW q \in Seq(S), NEW i \in DOMAIN q
  PROVE  /\ q[i] \in S
         /\ SubSeq(q, 1, i - 1) \o SubSeq(q, i + 1, Len(q)) \in Seq(S)
         /\ \A x : q = << x >> =>
              /\ q[i] = x
              /\ SubSeq(q, 1, i - 1) \o SubSeq(q, i + 1, Len(q)) = << >>
<1>1. Len(q) \in Nat /\ i \in 1 .. Len(q) /\ q[i] \in S
  BY LenProperties, ElementOfSeq
<1>2. SubSeq(q, 1, i - 1) \in Seq(S) /\ SubSeq(q, i + 1, Len(q)) \in Seq(S)
  BY <1>1, SubSeqProperties
<1>3. SubSeq(q, 1, i - 1) \o SubSeq(q, i + 1, Len(q)) \in Seq(S)
  BY <1>2, ConcatProperties
<1>4. ASSUME NEW x, q = << x >>
      PROVE  q[i] = x /\ SubSeq(q, 1, i - 1) \o SubSeq(q, i + 1, Len(q)) = << >>
  <2>1. Len(q) = 1 /\ i = 1 /\ q[1] = x
    BY <1>1, <1>4
  <2>2. SubSeq(q, 1, i - 1) = << >> /\ SubSeq(q, i + 1, Len(q)) = << >>
    BY <2>1, SubSeqProperties
  <2>3. QED BY <2>1, <2>2
<1>5. QED BY <1>1, <1>3, <1>4

LEMMA OneInQueue ==
  ASSUME NEW x
  PROVE  /\ Append(<< >>, x) = << x >> /\ Head(<< x >>) = x /\ Tail(<< x >>) = << >>
         /\ << x >> # << >>
OBVIOUS

-----------------------------------------------------------------------------
(* The inductive invariants. *)

\* What a side may report: what its user copied, what its clipboard held at the
\* start, and what stayed there when an update could not be written.
Own(s) == copied[s] \cup {initial[s]} \cup left[s]

\* A text the thread has not seen is the side's own, and so is what it reports.
EchoInv ==
  \A s \in Sides :
    /\ clip[s] = last_seen[s] \/ clip[s] \in Own(s)
    /\ spawned[s] \in Seq(Own(s))
    /\ wire[s] \in Seq(Own(s))

Written == \A s \in Sides : left[s] = {}

\* Copies were made one at a time over an open channel, and were written.
Calm == ~early /\ ~contended /\ Written

\* Both sides have seen the same text.
Same ==
  /\ Quiet /\ clip["host"] = clip["controller"]
  /\ \A s \in Sides : last_seen[s] = clip[s]

\* The text copied at s is on its way to the other side, which has what it
\* had before: about to be polled, spawned, sent, or received.
OnItsWay(s) ==
  LET o == peer(s) IN
  /\ Open /\ \A z \in Sides : at[z] \in {"drain", "poll"}
  /\ clip[s] \in Texts
  /\ last_seen[o] = clip[o]
  /\ inbox[s] = << >> /\ spawned[o] = << >> /\ wire[o] = << >>
  /\ \/ /\ last_seen[s] # clip[s]
        /\ spawned[s] = << >> /\ wire[s] = << >> /\ inbox[o] = << >>
     \/ /\ last_seen[s] = clip[s]
        /\ \/ spawned[s] = << clip[s] >> /\ wire[s] = << >> /\ inbox[o] = << >>
           \/ spawned[s] = << >> /\ wire[s] = << clip[s] >> /\ inbox[o] = << >>
           \/ spawned[s] = << >> /\ wire[s] = << >> /\ inbox[o] = << clip[s] >>

SyncInv == Calm => Same \/ \E s \in Sides : OnItsWay(s)

Inv == TypeOK /\ EchoInv /\ SyncInv

LEMMA InvInit == Init => Inv
<1> SUFFICES ASSUME Init PROVE Inv
  OBVIOUS
<1>1. << >> \in Seq(Texts) /\ \A S : << >> \in Seq(S)
  OBVIOUS
<1>2. TypeOK
  <2>1. copies \in 0 .. MaxCopies
    BY BoundsAssumption DEF Init
  <2>2. early \in BOOLEAN /\ contended \in BOOLEAN
    BY DEF Init
  <2>3. /\ at \in [Sides -> {"start", "drain", "poll", "dead"}]
        /\ dc \in [Sides -> {"connecting", "open"}]
        /\ copied \in [Sides -> SUBSET Texts]
        /\ clip \in [Sides -> Texts \cup {None}]
        /\ last_seen \in [Sides -> Texts \cup {None}]
        /\ left \in [Sides -> SUBSET (Texts \cup {None})]
    BY DEF Init
  <2>4. /\ inbox \in [Sides -> Seq(Texts)] /\ spawned \in [Sides -> Seq(Texts)]
        /\ wire \in [Sides -> Seq(Texts)]
    BY <1>1 DEF Init
  <2>5. initial \in [Sides -> Texts \cup {None}]
    BY DEF Init
  <2>6. QED BY <2>1, <2>2, <2>3, <2>4, <2>5 DEF TypeOK
<1>3. EchoInv
  BY <1>1 DEF Init, EchoInv, Own
<1>4. Calm => Same
  <2>1. \A s \in Sides : inbox[s] = << >> /\ spawned[s] = << >> /\ wire[s] = << >>
                         /\ last_seen[s] = None
    BY DEF Init
  <2>2. ~early => \A s \in Sides : clip[s] = None
    BY DEF Init
  <2>3. QED BY <2>1, <2>2 DEF Calm, Same, Quiet, Sides
<1>5. QED BY <1>2, <1>3, <1>4 DEF Inv, SyncInv

-----------------------------------------------------------------------------
(* The steps. *)

LEMMA NextCases ==
  ASSUME Next
  PROVE  \/ \E s \in Sides :
              \/ \E x \in Texts : Copy(s, x)
              \/ ChannelOpens(s)
              \/ \E i \in DOMAIN spawned[s] : SendChange(s, i)
              \/ Deliver(s) \/ Start(s) \/ ApplyRemote(s) \/ ApplyRemoteFails(s)
              \/ DrainDone(s) \/ Poll(s)
         \/ UNCHANGED vars
BY Zenon DEF Next, SendStep, ThreadStep, NoThread

LEMMA TypeStep ==
  ASSUME TypeOK, Next
  PROVE  TypeOK'
<1> USE DEF history
<1>a. \A S : << >> \in Seq(S)
  OBVIOUS
<1>1. ASSUME NEW s \in Sides, NEW x \in Texts, Copy(s, x) PROVE TypeOK'
  <2>1. copies + 1 \in 0 .. MaxCopies
    BY <1>1, BoundsAssumption DEF Copy, TypeOK
  <2>2. early' \in BOOLEAN /\ contended' \in BOOLEAN
    BY <1>1 DEF Copy
  <2>3. copied' \in [Sides -> SUBSET Texts]
    BY <1>1 DEF Copy, TypeOK
  <2>4. QED BY <1>1, <2>1, <2>2, <2>3 DEF Copy, TypeOK
<1>2. ASSUME NEW s \in Sides, ChannelOpens(s) PROVE TypeOK'
  BY <1>2 DEF ChannelOpens, TypeOK
<1>3. ASSUME NEW s \in Sides, NEW i, SendChange(s, i) PROVE TypeOK'
  <2>1. i \in DOMAIN spawned[s] /\ spawned[s] \in Seq(Texts) /\ wire[s] \in Seq(Texts)
    BY <1>3 DEF SendChange, TypeOK
  <2>2. /\ spawned[s][i] \in Texts
        /\ SubSeq(spawned[s], 1, i - 1) \o SubSeq(spawned[s], i + 1, Len(spawned[s]))
             \in Seq(Texts)
    BY <2>1, RemoveOne
  <2>3. Append(wire[s], spawned[s][i]) \in Seq(Texts)
    BY <2>1, <2>2, AppendProperties
  <2>4. QED BY <1>3, <2>2, <2>3 DEF SendChange, TypeOK
<1>4. ASSUME NEW s \in Sides, Deliver(s) PROVE TypeOK'
  <2>1. peer(s) \in Sides /\ wire[peer(s)] \in Seq(Texts) /\ wire[peer(s)] # << >>
    BY <1>4, PeerOf DEF Deliver, TypeOK
  <2>2. Head(wire[peer(s)]) \in Texts /\ Tail(wire[peer(s)]) \in Seq(Texts)
    BY <2>1, HeadTailProperties
  <2>3. Append(inbox[s], Head(wire[peer(s)])) \in Seq(Texts)
    BY <2>2, AppendProperties DEF TypeOK
  <2>4. QED BY <1>4, <2>1, <2>2, <2>3 DEF Deliver, apply_remote_update, TypeOK
<1>5. ASSUME NEW s \in Sides, Start(s) PROVE TypeOK'
  <2>1. at' \in [Sides -> {"start", "drain", "poll", "dead"}]
    BY <1>5 DEF Start, Goto, TypeOK
  <2>2. inbox' \in [Sides -> Seq(Texts)]
    <3>1. << >> \in Seq(Texts) /\ inbox \in [Sides -> Seq(Texts)]
      BY <1>a DEF TypeOK
    <3>2. inbox' = inbox \/ inbox' = [inbox EXCEPT ![s] = << >>]
      BY <1>5 DEF Start
    <3>3. QED BY <3>1, <3>2
  <2>3. QED BY <1>5, <2>1, <2>2 DEF Start, TypeOK
<1>6. ASSUME NEW s \in Sides, ApplyRemote(s) \/ ApplyRemoteFails(s) PROVE TypeOK'
  <2>1. inbox[s] \in Seq(Texts) /\ inbox[s] # << >>
    BY <1>6 DEF ApplyRemote, ApplyRemoteFails, TypeOK
  <2>2. Head(inbox[s]) \in Texts /\ Tail(inbox[s]) \in Seq(Texts)
    BY <2>1, HeadTailProperties
  <2>3. left[s] \cup {clip[s]} \in SUBSET (Texts \cup {None})
    BY DEF TypeOK
  <2>4. CASE ApplyRemote(s)
    BY <2>2, <2>4 DEF ApplyRemote, TypeOK
  <2>5. CASE ApplyRemoteFails(s)
    <3>1. left' \in [Sides -> SUBSET (Texts \cup {None})]
      <4>1. left' = [left EXCEPT ![s] = left[s] \cup {clip[s]}]
        BY <2>5, Zenon DEF ApplyRemoteFails
      <4>2. left \in [Sides -> SUBSET (Texts \cup {None})]
        BY DEF TypeOK
      <4>3. QED BY <2>3, <4>1, <4>2, Zenon
    <3>2. QED BY <2>2, <2>5, <3>1 DEF ApplyRemoteFails, TypeOK
  <2>6. QED BY <1>6, <2>4, <2>5
<1>7. ASSUME NEW s \in Sides, DrainDone(s) PROVE TypeOK'
  BY <1>7 DEF DrainDone, Goto, TypeOK
<1>8. ASSUME NEW s \in Sides, Poll(s) PROVE TypeOK'
  <2>1. CASE clip[s] # None /\ clip[s] # last_seen[s]
    <3>1. Append(spawned[s], clip[s]) \in Seq(Texts)
      BY <2>1, AppendProperties DEF TypeOK
    <3>2. spawned' \in [Sides -> Seq(Texts)]
      BY <1>8, <2>1, <3>1 DEF Poll, TypeOK
    <3>3. /\ at' \in [Sides -> {"start", "drain", "poll", "dead"}]
          /\ last_seen' \in [Sides -> Texts \cup {None}]
      BY <1>8, <2>1 DEF Poll, Goto, TypeOK
    <3>4. QED BY <1>8, <3>2, <3>3 DEF Poll, TypeOK
  <2>2. CASE ~(clip[s] # None /\ clip[s] # last_seen[s])
    BY <1>8, <2>2 DEF Poll, Goto, TypeOK
  <2>3. QED BY <2>1, <2>2
<1>9. CASE UNCHANGED vars
  BY <1>9 DEF vars, TypeOK
<1>10. QED
  BY <1>1, <1>2, <1>3, <1>4, <1>5, <1>6, <1>7, <1>8, <1>9, NextCases

\* What failed writes left is only added to.
LEMMA LeftGrows ==
  ASSUME TypeOK, Next
  PROVE  /\ \A z \in Sides : left[z] \subseteq left'[z]
         /\ \A s \in Sides : ApplyRemoteFails(s) => clip[s] \in left'[s]
<1>1. ASSUME NEW s \in Sides, ApplyRemoteFails(s)
      PROVE  /\ \A z \in Sides : left[z] \subseteq left'[z]
             /\ clip[s] \in left'[s]
  BY <1>1 DEF ApplyRemoteFails, TypeOK
<1>2. CASE UNCHANGED left
  BY <1>1, <1>2
<1>3. QED
  BY <1>1, <1>2, NextCases
     DEF Copy, ChannelOpens, SendChange, Deliver, Start, ApplyRemote,
         DrainDone, Poll, history, vars

LEMMA EchoStep ==
  ASSUME TypeOK, EchoInv, Next
  PROVE  EchoInv'
<1> USE DEF history
<1>b. \A z \in Sides :
        /\ clip[z] = last_seen[z] \/ clip[z] \in Own(z)
        /\ spawned[z] \in Seq(Own(z)) /\ wire[z] \in Seq(Own(z))
  BY DEF EchoInv
<1>c. \A z \in Sides : Own(z) \subseteq Own(z)'
  <2>0. \A z \in Sides : left[z] \subseteq left'[z]
    BY LeftGrows
  <2>1. CASE UNCHANGED <<copied, initial>>
    BY <2>0, <2>1 DEF Own
  <2>2. ASSUME NEW s \in Sides, NEW x \in Texts, Copy(s, x)
        PROVE  \A z \in Sides : Own(z) \subseteq Own(z)'
    BY <2>0, <2>2 DEF Own, Copy, TypeOK
  <2>3. QED
    BY <2>1, <2>2, NextCases
       DEF ChannelOpens, SendChange, Deliver, Start, ApplyRemote,
           ApplyRemoteFails, DrainDone, Poll, vars
<1>d. \A z \in Sides : spawned[z] \in Seq(Own(z)') /\ wire[z] \in Seq(Own(z)')
  BY <1>b, <1>c, SeqMonotone
<1> DEFINE Goal(z) == /\ clip'[z] = last_seen'[z] \/ clip'[z] \in Own(z)'
                      /\ spawned'[z] \in Seq(Own(z)') /\ wire'[z] \in Seq(Own(z)')
<1>1. ASSUME NEW s \in Sides, NEW x \in Texts, Copy(s, x), NEW z \in Sides PROVE Goal(z)
  BY <1>1, <1>b, <1>c, <1>d DEF Copy, Own, TypeOK
<1>2. ASSUME NEW s \in Sides, NEW z \in Sides,
             ChannelOpens(s) \/ Start(s) \/ DrainDone(s)
      PROVE  Goal(z)
  BY <1>2, <1>b, <1>c, <1>d DEF ChannelOpens, Start, DrainDone
<1>3. ASSUME NEW s \in Sides, NEW i, SendChange(s, i), NEW z \in Sides PROVE Goal(z)
  <2>1. i \in DOMAIN spawned[s]
    BY <1>3 DEF SendChange
  <2>2. /\ spawned[s][i] \in Own(s)'
        /\ SubSeq(spawned[s], 1, i - 1) \o SubSeq(spawned[s], i + 1, Len(spawned[s]))
             \in Seq(Own(s)')
    BY <1>d, <2>1, RemoveOne
  <2>3. Append(wire[s], spawned[s][i]) \in Seq(Own(s)')
    BY <1>d, <2>2, AppendProperties
  <2>4. QED BY <1>3, <1>b, <1>c, <1>d, <2>2, <2>3 DEF SendChange, TypeOK
<1>4. ASSUME NEW s \in Sides, Deliver(s), NEW z \in Sides PROVE Goal(z)
  <2>1. peer(s) \in Sides /\ wire[peer(s)] # << >>
    BY <1>4, PeerOf DEF Deliver
  <2>2. Tail(wire[peer(s)]) \in Seq(Own(peer(s))')
    BY <1>d, <2>1, HeadTailProperties
  <2>3. QED BY <1>4, <1>b, <1>c, <1>d, <2>1, <2>2 DEF Deliver, TypeOK
<1>5. ASSUME NEW s \in Sides, ApplyRemote(s), NEW z \in Sides PROVE Goal(z)
  BY <1>5, <1>b, <1>c, <1>d DEF ApplyRemote, TypeOK
<1>6. ASSUME NEW s \in Sides, ApplyRemoteFails(s), NEW z \in Sides PROVE Goal(z)
  <2>1. clip[s] \in Own(s)'
    BY <1>6, LeftGrows DEF Own
  <2>2. QED BY <1>6, <1>b, <1>c, <1>d, <2>1 DEF ApplyRemoteFails, TypeOK
<1>7. ASSUME NEW s \in Sides, Poll(s), NEW z \in Sides PROVE Goal(z)
  <2>1. CASE clip[s] # None /\ clip[s] # last_seen[s]
    <3>1. Append(spawned[s], clip[s]) \in Seq(Own(s)')
      BY <1>b, <1>c, <1>d, <2>1, AppendProperties
    <3>2. QED BY <1>7, <1>b, <1>c, <1>d, <2>1, <3>1 DEF Poll, TypeOK
  <2>2. CASE ~(clip[s] # None /\ clip[s] # last_seen[s])
    BY <1>7, <1>b, <1>c, <1>d, <2>2 DEF Poll
  <2>3. QED BY <2>1, <2>2
<1>8. ASSUME UNCHANGED vars, NEW z \in Sides PROVE Goal(z)
  BY <1>8, <1>b, <1>c, <1>d DEF vars
<1> HIDE DEF Goal
<1>9. \A z \in Sides : Goal(z)
  BY <1>1, <1>2, <1>3, <1>4, <1>5, <1>6, <1>7, <1>8, NextCases
<1>10. QED BY <1>9 DEF Goal, EchoInv

\* Copies stay apart and written only while nothing is under way.
LEMMA CalmBefore ==
  ASSUME TypeOK, Next, Calm'
  PROVE  /\ Calm
         /\ \A s \in Sides : ~ApplyRemoteFails(s)
         /\ \A s \in Sides, x \in Texts : Copy(s, x) => Settled
<1>1. Written /\ Written'
  BY LeftGrows DEF Calm, Written
<1>2. ~early /\ ~contended
  <2>1. ASSUME NEW s \in Sides, NEW x \in Texts, Copy(s, x) PROVE ~early /\ ~contended
    BY <2>1 DEF Copy, Calm
  <2>2. CASE UNCHANGED <<early, contended>>
    BY <2>2 DEF Calm
  <2>3. QED
    BY <2>1, <2>2, NextCases
       DEF ChannelOpens, SendChange, Deliver, Start, ApplyRemote,
           ApplyRemoteFails, DrainDone, Poll, history, vars
<1>3. \A s \in Sides : ~ApplyRemoteFails(s)
  BY <1>1, LeftGrows DEF Written
<1>4. \A s \in Sides, x \in Texts : Copy(s, x) => Settled
  BY DEF Copy, Calm
<1>5. QED BY <1>1, <1>2, <1>3, <1>4 DEF Calm

\* From a state in which both sides have the same text.
LEMMA SameStep ==
  ASSUME TypeOK, Next, Calm', Same
  PROVE  Same' \/ \E s \in Sides : OnItsWay(s)'
<1> USE DEF history
<1>a. /\ \A s \in Sides : /\ inbox[s] = << >> /\ spawned[s] = << >> /\ wire[s] = << >>
                          /\ last_seen[s] = clip[s]
      /\ \A s, z \in Sides : clip[s] = clip[z]
  BY DEF Same, Quiet, Sides
\* Nothing but the threads' places and the channel's ends moves.
<1>b. ASSUME UNCHANGED <<clip, last_seen, spawned, wire>>,
             \A s \in Sides : inbox'[s] = << >>
      PROVE  Same'
  BY <1>a, <1>b DEF Same, Quiet
<1>1. ASSUME NEW s \in Sides, NEW x \in Texts, Copy(s, x)
      PROVE  Same' \/ OnItsWay(s)'
  <2>1. Settled /\ peer(s) \in Sides /\ peer(s) # s /\ Sides = {s, peer(s)}
    BY <1>1, CalmBefore, PeerOf
  <2>2. clip'[s] = x /\ clip'[peer(s)] = clip[peer(s)]
        /\ UNCHANGED <<at, last_seen, inbox, spawned, dc, wire>>
    BY <1>1, <2>1 DEF Copy, TypeOK
  <2>3. CASE x = last_seen[s]
    <3>1. \A z \in Sides : clip'[z] = clip[z]
      BY <1>a, <2>1, <2>2, <2>3
    <3>2. QED BY <1>a, <2>2, <3>1 DEF Same, Quiet, Sides
  <2>4. CASE x # last_seen[s]
    <3>1. peer(s)' = peer(s)
      BY DEF peer
    <3>2. Open' /\ \A z \in Sides : at'[z] \in {"drain", "poll"}
      BY <2>1, <2>2 DEF Settled, Open
    <3>3. QED BY <1>a, <2>1, <2>2, <2>4, <3>1, <3>2 DEF OnItsWay
  <2>5. QED BY <2>3, <2>4
<1>2. ASSUME NEW s \in Sides, ChannelOpens(s) \/ DrainDone(s) PROVE Same'
  BY <1>2, <1>a, <1>b DEF ChannelOpens, DrainDone
<1>3. ASSUME NEW s \in Sides, NEW i, SendChange(s, i) PROVE FALSE
  BY <1>3, <1>a DEF SendChange
<1>4. ASSUME NEW s \in Sides, Deliver(s) PROVE FALSE
  BY <1>4, <1>a, PeerOf DEF Deliver
<1>5. ASSUME NEW s \in Sides, Start(s) PROVE Same'
  BY <1>5, <1>a, <1>b DEF Start, TypeOK
<1>6. ASSUME NEW s \in Sides, ApplyRemote(s) PROVE FALSE
  BY <1>6, <1>a DEF ApplyRemote
<1>7. ASSUME NEW s \in Sides, Poll(s) PROVE Same'
  BY <1>7, <1>a, <1>b DEF Poll
<1>8. CASE UNCHANGED vars
  BY <1>8, <1>a, <1>b DEF vars
<1>9. QED
  BY <1>1, <1>2, <1>3, <1>4, <1>5, <1>6, <1>7, <1>8, NextCases, CalmBefore

\* From a state in which a text is on its way from s.
LEMMA OnItsWayStep ==
  ASSUME TypeOK, Next, Calm', NEW s \in Sides, OnItsWay(s)
  PROVE  Same' \/ OnItsWay(s)'
<1> USE DEF history
<1> DEFINE o == peer(s)
<1>a. o \in Sides /\ o # s /\ Sides = {s, o} /\ peer(o) = s
  BY PeerOf
<1>b. o' = o
  BY DEF peer
<1>c. /\ Open /\ \A z \in Sides : at[z] \in {"drain", "poll"}
      /\ clip[s] \in Texts /\ clip[s] # None
      /\ last_seen[o] = clip[o]
      /\ inbox[s] = << >> /\ spawned[o] = << >> /\ wire[o] = << >>
  BY TextsAssumption DEF OnItsWay
<1> DEFINE Polled  == /\ last_seen[s] # clip[s]
                      /\ spawned[s] = << >> /\ wire[s] = << >> /\ inbox[o] = << >>
           Spawned == spawned[s] = << clip[s] >> /\ wire[s] = << >> /\ inbox[o] = << >>
           Sent    == spawned[s] = << >> /\ wire[s] = << clip[s] >> /\ inbox[o] = << >>
           Got     == spawned[s] = << >> /\ wire[s] = << >> /\ inbox[o] = << clip[s] >>
<1>d. Polled \/ (last_seen[s] = clip[s] /\ (Spawned \/ Sent \/ Got))
  BY DEF OnItsWay
<1>e. \A x : /\ << x >> # << >> /\ Append(<< >>, x) = << x >>
             /\ Head(<< x >>) = x /\ Tail(<< x >>) = << >>
  BY OneInQueue
<1>f. TypeOK /\ Sides = {s, o}
  BY <1>a
<1> HIDE DEF o
\* Nothing but the threads' places moves.
<1>g. ASSUME UNCHANGED <<clip, last_seen, inbox, spawned, dc, wire>>,
             \A z \in Sides : at'[z] \in {"drain", "poll"}
      PROVE  OnItsWay(s)'
  BY <1>g, <1>b, <1>c, <1>d DEF OnItsWay, Open, o
<1>1. ASSUME NEW z \in Sides, NEW x \in Texts, Copy(z, x) PROVE FALSE
  <2>1. Settled
    BY <1>1, CalmBefore
  <2>2. QED BY <1>a, <1>d, <1>e, <2>1 DEF Settled, Quiet
<1>2. ASSUME NEW z \in Sides, ChannelOpens(z) \/ Start(z) PROVE FALSE
  BY <1>2, <1>c DEF ChannelOpens, Start, Open
<1>3. ASSUME NEW z \in Sides, NEW i, SendChange(z, i) PROVE OnItsWay(s)'
  <2>1. i \in DOMAIN spawned[z] /\ z = s
    BY <1>3, <1>a, <1>c DEF SendChange
  <2>2. spawned[s] \in Seq(Texts) /\ spawned[s] = << clip[s] >> /\ last_seen[s] = clip[s]
        /\ wire[s] = << >> /\ inbox[o] = << >>
    BY <1>d, <2>1 DEF TypeOK
  <2>3. /\ spawned[s][i] = clip[s]
        /\ SubSeq(spawned[s], 1, i - 1) \o SubSeq(spawned[s], i + 1, Len(spawned[s])) = << >>
    BY <2>1, <2>2, RemoveOne
  <2>4. /\ spawned' = [spawned EXCEPT ![s] = << >>]
        /\ wire' = [wire EXCEPT ![s] = << clip[s] >>]
        /\ UNCHANGED <<at, clip, last_seen, inbox, dc>>
    BY <1>3, <1>c, <1>e, <2>1, <2>2, <2>3 DEF SendChange, Open
  <2>5. /\ spawned'[s] = << >> /\ spawned'[o] = << >>
        /\ wire'[s] = << clip[s] >> /\ wire'[o] = << >>
    BY <1>a, <1>c, <2>4 DEF TypeOK
  <2>6. QED BY <1>b, <1>c, <2>2, <2>4, <2>5 DEF OnItsWay, Open, o
<1>4. ASSUME NEW z \in Sides, Deliver(z) PROVE OnItsWay(s)'
  <2>1. z = o /\ wire[s] # << >>
    BY <1>4, <1>a, <1>c DEF Deliver, o
  <2>2. last_seen[s] = clip[s] /\ Sent
    BY <1>d, <1>e, <2>1
  <2>3. /\ wire' = [wire EXCEPT ![s] = << >>]
        /\ inbox' = [inbox EXCEPT ![o] = << clip[s] >>]
        /\ UNCHANGED <<at, clip, last_seen, spawned, dc>>
    <3>1. at[o] # "dead" /\ peer(o) = s
      BY <1>a, <1>c
    <3>2. wire' = [wire EXCEPT ![s] = Tail(wire[s])]
          /\ UNCHANGED <<at, clip, last_seen, spawned, dc>>
      BY <1>4, <2>1, <3>1 DEF Deliver
    <3>3. inbox' = [inbox EXCEPT ![o] = Append(inbox[o], Head(wire[s]))]
      BY <1>4, <2>1, <3>1 DEF Deliver, apply_remote_update
    <3>4. QED BY <1>e, <2>2, <3>2, <3>3
  <2>4. /\ wire'[s] = << >> /\ wire'[o] = << >>
        /\ inbox'[s] = << >> /\ inbox'[o] = << clip[s] >>
    BY <1>a, <1>c, <2>3 DEF TypeOK
  <2>5. QED BY <1>b, <1>c, <2>2, <2>3, <2>4 DEF OnItsWay, Open, o
<1>5. ASSUME NEW z \in Sides, ApplyRemote(z) PROVE Same'
  <2>1. z = o /\ inbox[o] # << >>
    BY <1>5, <1>a, <1>c DEF ApplyRemote
  <2>2. last_seen[s] = clip[s] /\ Got
    BY <1>d, <1>e, <2>1
  <2>3. /\ inbox' = [inbox EXCEPT ![o] = << >>]
        /\ clip' = [clip EXCEPT ![o] = clip[s]]
        /\ last_seen' = [last_seen EXCEPT ![o] = clip[s]]
        /\ UNCHANGED <<spawned, wire>>
    BY <1>5, <1>e, <2>1, <2>2 DEF ApplyRemote
  <2>4. /\ inbox'[s] = << >> /\ inbox'[o] = << >>
        /\ clip'[s] = clip[s] /\ clip'[o] = clip[s]
        /\ last_seen'[s] = clip[s] /\ last_seen'[o] = clip[s]
    BY <1>a, <1>c, <2>2, <2>3 DEF TypeOK
  <2>5. \A y \in Sides : /\ inbox'[y] = << >> /\ spawned'[y] = << >> /\ wire'[y] = << >>
                         /\ clip'[y] = clip[s] /\ last_seen'[y] = clip[s]
    BY <1>a, <1>c, <2>2, <2>3, <2>4
  <2>6. QED BY <2>5 DEF Same, Quiet, Sides
<1>6. ASSUME NEW z \in Sides, DrainDone(z) PROVE OnItsWay(s)'
  BY <1>6, <1>c, <1>g DEF DrainDone, Goto, TypeOK
<1>7. ASSUME NEW z \in Sides, Poll(z) PROVE OnItsWay(s)'
  <2>1. \A y \in Sides : at'[y] \in {"drain", "poll"}
    BY <1>7, <1>c DEF Poll, Goto, TypeOK
  <2>2. CASE clip[z] = last_seen[z]
    BY <1>7, <1>g, <2>1, <2>2 DEF Poll
  <2>3. CASE clip[z] # last_seen[z]
    <3>1. z = s /\ Polled
      BY <1>a, <1>c, <1>d, <2>3
    <3>2. /\ last_seen' = [last_seen EXCEPT ![s] = clip[s]]
          /\ spawned' = [spawned EXCEPT ![s] = << clip[s] >>]
          /\ UNCHANGED <<clip, inbox, dc, wire>>
      BY <1>7, <1>c, <1>e, <2>3, <3>1 DEF Poll
    <3>3. /\ last_seen'[s] = clip[s] /\ last_seen'[o] = last_seen[o]
          /\ spawned'[s] = << clip[s] >> /\ spawned'[o] = spawned[o]
      BY <1>a, <3>2 DEF TypeOK
    <3>4. QED BY <1>b, <1>c, <2>1, <3>1, <3>2, <3>3 DEF OnItsWay, Open, o
  <2>4. QED BY <2>2, <2>3
<1>8. CASE UNCHANGED vars
  BY <1>8, <1>c, <1>g DEF vars
<1>9. QED
  BY <1>1, <1>2, <1>3, <1>4, <1>5, <1>6, <1>7, <1>8, NextCases, CalmBefore

LEMMA InvStep == Inv /\ [Next]_vars => Inv'
<1> SUFFICES ASSUME Inv, [Next]_vars PROVE Inv'
  OBVIOUS
<1>1. CASE Next
  <2>1. TypeOK' /\ EchoInv'
    BY <1>1, TypeStep, EchoStep DEF Inv
  <2>2. SyncInv'
    <3> SUFFICES ASSUME Calm' PROVE Same' \/ \E s \in Sides : OnItsWay(s)'
      BY DEF SyncInv
    <3>1. Same \/ \E s \in Sides : OnItsWay(s)
      BY <1>1, CalmBefore DEF Inv, SyncInv
    <3>2. QED BY <1>1, <3>1, SameStep, OnItsWayStep DEF Inv
  <2>3. QED BY <2>1, <2>2 DEF Inv
<1>2. CASE UNCHANGED vars
  <2>1. TypeOK'
    BY <1>2 DEF vars, Inv, TypeOK
  <2>2. EchoInv'
    BY <1>2 DEF vars, Inv, EchoInv, Own
  <2>3. SyncInv'
    BY <1>2 DEF vars, Inv, SyncInv, Calm, Written, Same, Quiet, OnItsWay, Open
  <2>4. QED BY <2>1, <2>2, <2>3 DEF Inv
<1>3. QED BY <1>1, <1>2

LEMMA InvImplies == Inv => NoEcho /\ UncontendedSyncs
<1> SUFFICES ASSUME Inv PROVE NoEcho /\ UncontendedSyncs
  OBVIOUS
<1>1. \A S : \A q \in Seq(S) : Range(q) \subseteq S
  BY RangeOfSeq
<1>2. NoEcho
  BY <1>1 DEF Inv, EchoInv, Own, NoEcho
<1>3. ASSUME Settled, Calm PROVE Same
  <2>1. \A s \in Sides : ~OnItsWay(s)
    <3> SUFFICES ASSUME NEW s \in Sides, OnItsWay(s) PROVE FALSE
      OBVIOUS
    <3>1. \A x : << x >> # << >>
      BY OneInQueue
    <3>2. peer(s) \in Sides
      BY PeerOf
    <3>3. QED BY <1>3, <3>1, <3>2 DEF Settled, Quiet, OnItsWay
  <2>2. QED BY <1>3, <2>1 DEF Inv, SyncInv
<1>4. UncontendedSyncs
  BY <1>3 DEF UncontendedSyncs, Calm, Written, Same
<1>5. QED BY <1>2, <1>4

\* Every variable keeps its type.
THEOREM TypeCorrect == Spec => []TypeOK
BY InvInit, InvStep, PTL DEF Spec, Inv

\* The baseline stops the echo (clipboard_sync.rs:5-7): what a side sends its
\* user copied, its clipboard held at the start, or stayed there when a write
\* failed, however often that happens and whatever crosses on the channel.
THEOREM NothingEchoed == Spec => []NoEcho
BY InvInit, InvStep, InvImplies, PTL DEF Spec

\* Copies that do not overlap reach the other clipboard (clipboard_sync.rs:51-62).
THEOREM UncontendedCopiesSync == Spec => []UncontendedSyncs
BY InvInit, InvStep, InvImplies, PTL DEF Spec

=============================================================================
