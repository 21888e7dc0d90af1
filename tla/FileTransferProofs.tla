------------------------- MODULE FileTransferProofs -------------------------
(***************************************************************************)
(* Proofs about module FileTransfer, for any number of files of any size,  *)
(* any names and any number of failing file operations.                    *)
(*                                                                         *)
(* The messages of a transfer are numbered by rank: the offer, the chunks, *)
(* the completion.  What is on the channel of one transfer is a run of     *)
(* ranks without gaps, in order; the receiver's position says where the    *)
(* run begins.  The files follow from that, as long as transfers do not    *)
(* share a path.                                                           *)
(***************************************************************************)
EXTENDS FileTransfer, FiniteSetTheorems, SequenceTheorems,
        WellFoundedInduction, TLAPS

-----------------------------------------------------------------------------
(* The messages under way. *)

Rank(m) ==
  IF m.type = "Offer" THEN 0
  ELSE IF m.type = "Chunk" THEN m.seq ELSE file[m.id].size + 1

\* How many messages a task has sent.
Sent(t) ==
  IF pc[t] = "chunks" THEN next[t]
  ELSE IF pc[t] = "sent" THEN file[t].size + 2 ELSE 0

Places == 1 .. Len(channel)

\* The message of t with rank r is under way.
UnderWay(t, r) ==
  \E i \in Places : channel[i].id = t /\ Rank(channel[i]) = r

\* A task sends its messages in order and knows its file.
SenderOK ==
  \A t \in Tasks :
    /\ pc[t] # "idle" => file[t] # None
    /\ pc[t] \in {"idle", "offer"} => next[t] = 1
    /\ pc[t] \in {"chunks", "sent"} => dc # "connecting"
    /\ file[t] # None => next[t] <= file[t].size + 1

ChannelOK ==
  /\ dc # "open" => channel = << >>
  /\ \A i \in Places :
       /\ pc[channel[i].id] \in {"chunks", "sent"}
       /\ Rank(channel[i]) < Sent(channel[i].id)
       /\ channel[i].type = "Chunk" =>
            channel[i].seq \in 1 .. file[channel[i].id].size

InOrder ==
  \A i, j \in Places :
    i < j /\ channel[i].id = channel[j].id =>
      Rank(channel[i]) < Rank(channel[j])

\* Nothing is missing between a message under way and the last one sent.
NoGaps ==
  \A i \in Places, r \in Nat :
    Rank(channel[i]) < r /\ r < Sent(channel[i].id) =>
      UnderWay(channel[i].id, r)

-----------------------------------------------------------------------------
(* The receiver. *)

\* The rank the receiver of t waits for.
Expected(t) == IF in_progress[t] # None THEN in_progress[t].pos + 1 ELSE 0

Finished == {r[1] : r \in received}

\* What comes has not been handled, and nothing comes after the completion.
Ahead ==
  \A i \in Places :
    /\ channel[i].id \notin Finished
    /\ Expected(channel[i].id) <= Rank(channel[i])

\* Nothing is expected beyond what was sent and the message after it; what is
\* expected and was sent is under way.
Covered ==
  \A t \in Tasks :
    dc = "open" =>
      /\ Expected(t) <= Sent(t)
      /\ t \notin failed \cup Finished /\ Expected(t) < Sent(t) =>
           UnderWay(t, Expected(t))

\* An opened transfer was offered, has a file and is not finished.
OpenedOK ==
  \A t \in Tasks :
    /\ in_progress[t] # None =>
         /\ t \notin Finished /\ files[in_progress[t].path] # None
         /\ dc # "connecting" /\ pc[t] \in {"chunks", "sent", "error"}
    /\ t \in Finished => dc # "connecting" /\ pc[t] = "sent"

TransferInv ==
  /\ TypeOK /\ SenderOK /\ ChannelOK /\ InOrder /\ NoGaps
  /\ Ahead /\ Covered /\ OpenedOK

-----------------------------------------------------------------------------
(* The files. *)

\* The path of a transfer, while it is in progress and when it is finished.
PathOf(t, p) ==
  \/ in_progress[t] # None /\ in_progress[t].path = p
  \/ <<t, p>> \in received

\* A path is of one transfer, a transfer has one path, and what is neither the
\* path of a transfer nor there from the beginning does not exist.
PathsApart ==
  /\ \A t, u \in Tasks, p \in Paths : PathOf(t, p) /\ PathOf(u, p) => t = u
  /\ \A t \in Tasks, p, q \in Paths : PathOf(t, p) /\ PathOf(t, q) => p = q
  /\ \A p \in Paths :
       files[p] # None => p \in Existing \/ \E t \in Tasks : PathOf(t, p)
  /\ \A t \in Tasks, p \in Paths : PathOf(t, p) => files[p] # None

Whole(t, n) == [i \in 1 .. n |-> <<t, i>>]

\* The handle stands at the end of what was written, and what was written are
\* the chunks so far.
WrittenSoFar ==
  \A t \in Tasks :
    in_progress[t] # None =>
      LET e == in_progress[t] IN
      /\ Len(files[e.path]) = e.pos
      /\ t \notin failed => files[e.path] = Whole(t, e.pos)

FileInv == PathsApart /\ WrittenSoFar /\ ReceivedIsWhole

-----------------------------------------------------------------------------
(* Facts about the messages under way. *)

LEMMA SeqFacts ==
  ASSUME TypeOK
  PROVE  /\ Len(channel) \in Nat
         /\ \A i \in Places :
              /\ channel[i].id \in Tasks
              /\ channel[i].type \in {"Offer", "Chunk", "Complete"}
              /\ channel[i].seq \in 0 .. MaxChunks
<1>1. Len(channel) \in Nat
  BY LenProperties DEF TypeOK
<1>2. \A i \in Places :
        channel[i] \in [type : {"Offer", "Chunk", "Complete"}, id : Tasks,
                        seq : 0 .. MaxChunks]
  BY ElementOfSeq DEF TypeOK, Places
<1>3. QED BY <1>1, <1>2

LEMMA NotNone ==
  ASSUME NEW x \in [path : Paths, pos : Nat] \cup Seq(Pieces)
  PROVE  x # None
BY NoneAssumption

LEMMA SentFacts ==
  ASSUME TypeOK, SenderOK, NEW t \in Tasks
  PROVE  /\ Sent(t) \in Nat
         /\ pc[t] # "idle" =>
              file[t] \in [name : Names, size : 0 .. MaxChunks]
         /\ Sent(t) > 0 => /\ pc[t] \in {"chunks", "sent"}
                           /\ file[t].size \in 0 .. MaxChunks
                           /\ Sent(t) <= file[t].size + 2
                           /\ pc[t] = "chunks" => Sent(t) = next[t]
<1>1. /\ pc[t] # "idle" =>
           file[t] \in [name : Names, size : 0 .. MaxChunks]
      /\ next[t] \in 1 .. MaxChunks + 1
      /\ pc[t] # "idle" => next[t] <= file[t].size + 1
  BY DEF TypeOK, SenderOK
<1>2. CASE pc[t] \in {"chunks", "sent"}
  <2>1. file[t].size \in 0 .. MaxChunks
    BY <1>1, <1>2
  <2>2. QED BY <1>1, <1>2, <2>1, FilesAssumption DEF Sent
<1>3. CASE pc[t] \notin {"chunks", "sent"}
  BY <1>1, <1>3 DEF Sent
<1>4. QED BY <1>2, <1>3

\* What a message under way says about its task.
LEMMA RankFacts ==
  ASSUME TypeOK, SenderOK, ChannelOK, NEW i \in Places
  PROVE  LET t == channel[i].id
             r == Rank(channel[i])
         IN  /\ t \in Tasks /\ pc[t] \in {"chunks", "sent"}
             /\ r \in Nat /\ Sent(t) \in Nat /\ r < Sent(t) /\ dc = "open"
             /\ file[t] \in [name : Names, size : 0 .. MaxChunks]
             /\ r <= file[t].size + 1
             /\ channel[i].type = "Offer" => r = 0
             /\ channel[i].type = "Chunk" =>
                  r = channel[i].seq /\ r \in 1 .. file[t].size
             /\ channel[i].type = "Complete" => r = file[t].size + 1
<1> DEFINE t == channel[i].id
           r == Rank(channel[i])
<1>1. /\ t \in Tasks /\ channel[i].type \in {"Offer", "Chunk", "Complete"}
      /\ channel[i].seq \in 0 .. MaxChunks
  BY SeqFacts
<1>2. /\ r < Sent(t)
      /\ channel[i].type = "Chunk" => channel[i].seq \in 1 .. file[t].size
  BY DEF ChannelOK
<1>3. dc = "open"
  <2>1. Len(<< >>) = 0
    OBVIOUS
  <2>2. QED BY <2>1 DEF ChannelOK, Places
<1>4. /\ Sent(t) \in Nat
      /\ Sent(t) > 0 => /\ pc[t] \in {"chunks", "sent"}
                        /\ file[t].size \in 0 .. MaxChunks
      /\ pc[t] # "idle" => file[t] \in [name : Names, size : 0 .. MaxChunks]
  BY <1>1, SentFacts
<1>5. pc[t] \in {"chunks", "sent"} /\ file[t].size \in 0 .. MaxChunks
  BY <1>4 DEF ChannelOK
<1>6. QED
  BY <1>1, <1>2, <1>3, <1>4, <1>5, FilesAssumption DEF Rank

-----------------------------------------------------------------------------
(* How the messages under way change. *)

\* Nothing is sent or handled.
LEMMA SameChannel ==
  ASSUME TransferInv,
         UNCHANGED <<dc, channel, in_progress, received, failed>>,
         \A t \in Tasks :
           /\ Sent(t)' = Sent(t)
           /\ pc[t] \in {"chunks", "sent"} =>
                pc'[t] = pc[t] /\ file'[t] = file[t]
  PROVE  /\ ChannelOK' /\ InOrder' /\ NoGaps' /\ Ahead' /\ Covered'
<1> USE DEF TransferInv
<1>1. Places' = Places
  BY DEF Places
<1>2. \A i \in Places : /\ channel[i].id \in Tasks
                        /\ pc[channel[i].id] \in {"chunks", "sent"}
  BY RankFacts
<1>3. \A i \in Places : Rank(channel[i])' = Rank(channel[i])
  BY <1>2 DEF Rank
<1>4. \A t \in Tasks, r \in Nat : UnderWay(t, r)' <=> UnderWay(t, r)
  BY <1>1, <1>3 DEF UnderWay
<1>5. \A i \in Places : Sent(channel[i].id)' = Sent(channel[i].id)
  BY <1>2
<1>6. \A t \in Tasks : Expected(t)' = Expected(t) /\ Expected(t) \in Nat
  BY FilesAssumption DEF Expected, TypeOK
<1>7. ChannelOK'
  BY <1>1, <1>2, <1>3, <1>5 DEF ChannelOK
<1>8. InOrder'
  BY <1>1, <1>3 DEF InOrder
<1>9. NoGaps'
  BY <1>1, <1>2, <1>3, <1>4, <1>5 DEF NoGaps
<1>10. Ahead'
  BY <1>1, <1>2, <1>3, <1>6 DEF Ahead, Finished
<1>11. Covered'
  BY <1>4, <1>6 DEF Covered, Finished
<1>12. QED BY <1>7, <1>8, <1>9, <1>10, <1>11

\* A task sends its next message.
LEMMA Sends ==
  ASSUME TransferInv, NEW t \in Tasks, dc = "open", dc' = dc,
         NEW m \in [type : {"Offer", "Chunk", "Complete"}, id : {t},
                    seq : 0 .. MaxChunks],
         channel' = Append(channel, m), file' = file, Rank(m) = Sent(t),
         m.type = "Chunk" => m.seq \in 1 .. file[t].size,
         \A u \in Tasks :
           /\ Sent(u)' = IF u = t THEN Sent(u) + 1 ELSE Sent(u)
           /\ IF u = t THEN pc'[u] \in {"chunks", "sent"} ELSE pc'[u] = pc[u],
         in_progress' = in_progress, received' = received, failed' = failed,
         t \notin Finished
  PROVE  /\ ChannelOK' /\ InOrder' /\ NoGaps' /\ Ahead' /\ Covered'
<1> USE DEF TransferInv
<1>1. /\ Len(channel) \in Nat /\ Len(channel') = Len(channel) + 1
      /\ channel'[Len(channel) + 1] = m
      /\ \A i \in 1 .. Len(channel) : channel'[i] = channel[i]
  BY AppendProperties, LenProperties DEF TypeOK
<1>2. PICK n \in Nat : n = Len(channel) + 1
  BY <1>1
<1>3. /\ Places' = Places \cup {n} /\ n \notin Places
      /\ \A i \in Places : i \in Nat /\ i < n
      /\ channel'[n] = m /\ \A i \in Places : channel'[i] = channel[i]
  BY <1>1, <1>2 DEF Places
<1>4. \A i \in Places :
        /\ channel[i].id \in Tasks /\ pc[channel[i].id] \in {"chunks", "sent"}
        /\ Rank(channel[i]) \in Nat /\ Sent(channel[i].id) \in Nat
        /\ Rank(channel[i]) < Sent(channel[i].id)
  BY RankFacts
<1>5. /\ \A i \in Places : Rank(channel[i])' = Rank(channel[i])
      /\ \A i \in Places' : i = n => Rank(channel[i])' = Sent(t)
      /\ channel'[n].id = t /\ Sent(t) \in Nat
  BY <1>3, SentFacts DEF Rank
<1>6. PICK s \in Nat : s = Sent(t)
  BY <1>5
<1>7. /\ \A u \in Tasks, r \in Nat : UnderWay(u, r) => UnderWay(u, r)'
      /\ UnderWay(t, s)'
  <2>1. ASSUME NEW u \in Tasks, NEW r \in Nat, UnderWay(u, r)
        PROVE  UnderWay(u, r)'
    <3>1. PICK i \in Places : channel[i].id = u /\ Rank(channel[i]) = r
      BY <2>1 DEF UnderWay
    <3>2. i \in Places' /\ channel'[i].id = u /\ Rank(channel[i])' = r
      BY <1>3, <1>5, <3>1
    <3>3. QED BY <3>2 DEF UnderWay
  <2>2. n \in Places' /\ channel'[n].id = t /\ Rank(channel[n])' = s
    BY <1>3, <1>5, <1>6
  <2>3. QED BY <2>1, <2>2 DEF UnderWay
<1>8. \A u \in Tasks : Expected(u)' = Expected(u) /\ Expected(u) \in Nat
  BY FilesAssumption DEF Expected, TypeOK
<1>9. ChannelOK'
  <2>1. ASSUME NEW i \in Places'
        PROVE  /\ pc'[channel'[i].id] \in {"chunks", "sent"}
               /\ Rank(channel[i])' < Sent(channel[i].id)'
               /\ channel'[i].type = "Chunk" =>
                    channel'[i].seq \in 1 .. file'[channel'[i].id].size
    <3>1. CASE i = n
      <4>1. Sent(channel[i].id)' = Sent(t) + 1
        BY <1>5, <3>1
      <4>2. Rank(channel[i])' = Sent(t)
        BY <1>5, <3>1
      <4>3. Rank(channel[i])' < Sent(channel[i].id)'
        BY <1>6, <4>1, <4>2
      <4>4. /\ channel'[i] = m /\ channel'[i].id = t
            /\ pc'[t] \in {"chunks", "sent"}
        BY <1>3, <1>5, <3>1
      <4>5. QED BY <4>3, <4>4
    <3>2. CASE i \in Places
      <4>1. PICK u \in Tasks : u = channel[i].id /\ u = channel'[i].id
        BY <1>3, <1>4, <3>2
      <4>2. PICK k \in Nat : k = Rank(channel[i])
        BY <1>4, <3>2
      <4>3. k < Sent(u) /\ Sent(u) \in Nat /\ pc[u] \in {"chunks", "sent"}
        BY <1>4, <3>2, <4>1, <4>2
      <4>4. k < Sent(u)' /\ pc'[u] \in {"chunks", "sent"}
        BY <4>3
      <4>5. Rank(channel[i])' = k
        BY <1>5, <3>2, <4>2
      <4>6. QED BY <1>3, <3>2, <4>1, <4>4, <4>5 DEF ChannelOK
    <3>3. QED BY <1>3, <3>1, <3>2
  <2>2. QED BY <2>1 DEF ChannelOK
<1>10. InOrder'
  <2> SUFFICES ASSUME NEW i \in Places', NEW j \in Places', i < j,
                      channel'[i].id = channel'[j].id
               PROVE  Rank(channel[i])' < Rank(channel[j])'
    BY DEF InOrder
  <2>1. i \in Places
    BY <1>3
  <2>2. CASE j = n
    <3>1. Rank(channel[j])' = Sent(t) /\ channel[i].id = t
      BY <1>3, <1>5, <2>1, <2>2
    <3>2. QED BY <1>4, <1>5, <2>1, <3>1
  <2>3. CASE j \in Places
    <3>1. Rank(channel[i]) < Rank(channel[j])
      BY <1>3, <2>1, <2>3 DEF InOrder
    <3>2. QED BY <1>5, <2>1, <2>3, <3>1
  <2>4. QED BY <1>3, <2>2, <2>3
<1>11. NoGaps'
  <2> SUFFICES ASSUME NEW i \in Places', NEW r \in Nat,
                      Rank(channel[i])' < r, r < Sent(channel[i].id)'
               PROVE  UnderWay(channel[i].id, r)'
    BY DEF NoGaps
  <2>1. CASE i = n
    <3>1. Rank(channel[i])' = Sent(t) /\ Sent(channel[i].id)' = Sent(t) + 1
      BY <1>5, <2>1
    <3>2. QED BY <1>5, <3>1
  <2>2. CASE i \in Places
    <3>1. PICK u \in Tasks : u = channel[i].id /\ u = channel'[i].id
      BY <1>3, <1>4, <2>2
    <3>2. r < Sent(u)'
      BY <3>1
    <3>3. CASE r < Sent(u)
      <4>1. UnderWay(u, r)
        BY <1>5, <2>2, <3>1, <3>3 DEF NoGaps
      <4>2. UnderWay(u, r)'
        BY <1>7, <4>1
      <4>3. QED BY <3>1, <4>2
    <3>4. CASE u = t /\ r = s
      BY <1>7, <3>1, <3>4
    <3>5. Sent(u) \in Nat /\ Sent(u)' = IF u = t THEN s + 1 ELSE Sent(u)
      BY <1>6, SentFacts
    <3>6. PICK w \in Nat : w = Sent(u)
      BY <3>5
    <3>7. r < w \/ (u = t /\ r = s)
      BY <1>6, <3>2, <3>5, <3>6
    <3>8. QED BY <3>3, <3>4, <3>6, <3>7
  <2>3. QED BY <1>3, <2>1, <2>2
<1>12. Ahead'
  <2> SUFFICES ASSUME NEW i \in Places'
               PROVE  /\ channel'[i].id \notin Finished'
                      /\ Expected(channel[i].id)' <= Rank(channel[i])'
    BY DEF Ahead
  <2>1. Finished' = Finished
    BY DEF Finished
  <2>2. CASE i = n
    <3>1. /\ Expected(channel[i].id)' = Expected(t)
          /\ Rank(channel[i])' = Sent(t)
      BY <1>5, <1>8, <2>2
    <3>2. Expected(t) <= Sent(t)
      BY DEF Covered
    <3>3. QED BY <1>5, <1>8, <2>1, <2>2, <3>1, <3>2
  <2>3. CASE i \in Places
    <3>1. Expected(channel[i].id)' = Expected(channel[i].id)
      BY <1>3, <1>4, <1>8, <2>3
    <3>2. QED BY <1>3, <1>5, <2>1, <2>3, <3>1 DEF Ahead
  <2>4. QED BY <1>3, <2>2, <2>3
<1>13. Covered'
  <2> SUFFICES ASSUME NEW u \in Tasks
               PROVE  /\ Expected(u)' <= Sent(u)'
                      /\ (/\ u \notin failed' \cup Finished'
                          /\ Expected(u)' < Sent(u)')
                         => UnderWay(u, Expected(u))'
    BY DEF Covered
  <2>1. PICK e \in Nat : e = Expected(u) /\ e = Expected(u)'
    BY <1>8
  <2>2. Sent(u) \in Nat /\ (Sent(u)' = Sent(u) \/ (u = t /\ Sent(u)' = s + 1))
    BY <1>6, SentFacts
  <2>3. /\ e <= Sent(u)
        /\ u \notin failed \cup Finished /\ e < Sent(u) => UnderWay(u, e)
    BY <2>1 DEF Covered
  <2>4. UnderWay(u, e)' <=> UnderWay(u, Expected(u))'
    BY <2>1
  <2>5. u \notin failed \cup Finished /\ e < Sent(u)' => UnderWay(u, e)'
    BY <1>6, <1>7, <2>2, <2>3
  <2>6. QED BY <1>6, <2>1, <2>2, <2>3, <2>4, <2>5 DEF Finished
<1>14. QED BY <1>9, <1>10, <1>11, <1>12, <1>13

\* What is handled next is what its transfer waits for, unless an operation of
\* the transfer failed.
LEMMA HeadExpected ==
  ASSUME TransferInv, channel # << >>
  PROVE  /\ 1 \in Places /\ channel[1] = Head(channel)
         /\ Id \in Tasks \ Finished /\ Expected(Id) \in Nat
         /\ Expected(Id) <= Rank(channel[1])
         /\ Id \notin failed => Expected(Id) = Rank(channel[1])
<1> USE DEF TransferInv
<1>1. /\ Len(channel) \in Nat /\ Len(channel) # 0 /\ channel[1] = Head(channel)
  BY EmptySeq, HeadTailProperties DEF TypeOK
<1>2. 1 \in Places /\ Id = channel[1].id
  BY <1>1 DEF Places, Id
<1>3. /\ Id \in Tasks /\ dc = "open"
      /\ Rank(channel[1]) \in Nat /\ Sent(Id) \in Nat
      /\ Rank(channel[1]) < Sent(Id)
  BY <1>2, RankFacts
<1>4. Id \notin Finished /\ Expected(Id) <= Rank(channel[1])
  BY <1>2 DEF Ahead
<1>5. Expected(Id) \in Nat
  BY <1>3, FilesAssumption DEF Expected, TypeOK
<1>6. ASSUME Id \notin failed PROVE Expected(Id) = Rank(channel[1])
  <2>1. UnderWay(Id, Expected(Id))
    BY <1>3, <1>4, <1>5, <1>6 DEF Covered
  <2>2. PICK j \in Places :
          channel[j].id = Id /\ Rank(channel[j]) = Expected(Id)
    BY <2>1 DEF UnderWay
  <2>3. CASE j = 1
    BY <2>2, <2>3
  <2>4. CASE 1 < j
    BY <1>2, <1>3, <1>4, <1>5, <2>2, <2>4 DEF InOrder
  <2>5. QED BY <1>1, <2>3, <2>4 DEF Places
<1>7. QED BY <1>1, <1>2, <1>3, <1>4, <1>5, <1>6

\* The receiver handles a message of t, after which t waits for the next one, is
\* finished or has failed.
LEMMA Handles ==
  ASSUME TransferInv, channel # << >>, channel' = Tail(channel),
         UNCHANGED <<sender, dc>>, NEW t \in Tasks, t = Id,
         failed \subseteq failed', Finished \subseteq Finished',
         \A u \in Finished' : u \in Finished
                              \/ (u = t /\ Head(channel).type = "Complete"),
         \A u \in Tasks : u # t => in_progress'[u] = in_progress[u],
         \A u \in Tasks : u = t =>
           /\ Expected(u)' \in Nat /\ Expected(u)' <= Rank(channel[1]) + 1
           /\ u \notin failed' \cup Finished' =>
                Expected(u)' = Rank(channel[1]) + 1
  PROVE  /\ SenderOK' /\ ChannelOK' /\ InOrder' /\ NoGaps' /\ Ahead' /\ Covered'
<1> USE DEF TransferInv
<1>1. /\ Len(channel) \in Nat /\ Len(channel') = Len(channel) - 1
      /\ \A i \in 1 .. Len(channel) - 1 : channel'[i] = channel[i + 1]
  BY HeadTailProperties, LenProperties DEF TypeOK
<1>2. /\ \A i \in Places' : /\ i \in Nat /\ i + 1 \in Places /\ 1 < i + 1
                            /\ channel'[i] = channel[i + 1]
      /\ \A j \in Places : j # 1 => j - 1 \in Places' /\ j = (j - 1) + 1
  BY <1>1 DEF Places
<1>3. 1 \in Places /\ channel[1].id = t /\ channel[1] = Head(channel)
  BY HeadExpected DEF Id
<1>4. /\ pc' = pc /\ file' = file /\ next' = next /\ dc' = dc
      /\ \A u \in Tasks : Sent(u)' = Sent(u) /\ Sent(u) \in Nat
  BY SentFacts DEF sender, Sent
<1>5. \A i \in Places' :
        /\ channel'[i].id \in Tasks /\ channel'[i].id = channel[i + 1].id
        /\ Rank(channel[i])' = Rank(channel[i + 1])
        /\ Rank(channel[i + 1]) \in Nat
  BY <1>2, <1>4, RankFacts DEF Rank
<1>6. ASSUME NEW u \in Tasks, NEW r \in Nat, UnderWay(u, r),
             u # t \/ r # Rank(channel[1])
      PROVE  UnderWay(u, r)'
  <2>1. PICK j \in Places : channel[j].id = u /\ Rank(channel[j]) = r
    BY <1>6 DEF UnderWay
  <2>2. j # 1
    BY <1>3, <1>6, <2>1
  <2>3. PICK i \in Places' : j = i + 1
    BY <1>2, <2>1, <2>2
  <2>4. channel'[i].id = u /\ Rank(channel[i])' = r
    BY <1>5, <2>1, <2>3
  <2>5. QED BY <2>4 DEF UnderWay
<1>7. SenderOK'
  BY <1>4 DEF SenderOK
<1>8. ChannelOK'
  <2>1. dc # "open" => channel' = << >>
    BY <1>3, RankFacts
  <2>2. ASSUME NEW i \in Places'
        PROVE  /\ pc'[channel'[i].id] \in {"chunks", "sent"}
               /\ Rank(channel[i])' < Sent(channel[i].id)'
               /\ channel'[i].type = "Chunk" =>
                    channel'[i].seq \in 1 .. file'[channel'[i].id].size
    <3>1. PICK j \in Places : j = i + 1 /\ channel'[i] = channel[j]
      BY <1>2
    <3>2. Rank(channel[i])' = Rank(channel[j])
      BY <1>5, <3>1
    <3>3. Sent(channel[i].id)' = Sent(channel[j].id)
      BY <1>4, <1>5, <3>1
    <3>4. QED BY <1>4, <3>1, <3>2, <3>3 DEF ChannelOK
  <2>3. QED BY <1>4, <2>1, <2>2 DEF ChannelOK
<1>9. InOrder'
  <2> SUFFICES ASSUME NEW i \in Places', NEW j \in Places', i < j,
                      channel'[i].id = channel'[j].id
               PROVE  Rank(channel[i])' < Rank(channel[j])'
    BY DEF InOrder
  <2>1. PICK k \in Places : k = i + 1 /\ channel[k] = channel'[i]
    BY <1>2
  <2>2. PICK l \in Places : l = j + 1 /\ channel[l] = channel'[j]
    BY <1>2
  <2>3. k < l
    BY <1>2, <2>1, <2>2
  <2>4. Rank(channel[k]) < Rank(channel[l])
    BY <2>1, <2>2, <2>3 DEF InOrder
  <2>5. QED BY <1>5, <2>1, <2>2, <2>4
<1>10. NoGaps'
  <2> SUFFICES ASSUME NEW i \in Places', NEW r \in Nat,
                      Rank(channel[i])' < r, r < Sent(channel[i].id)'
               PROVE  UnderWay(channel[i].id, r)'
    BY DEF NoGaps
  <2>1. PICK j \in Places : /\ j = i + 1 /\ 1 < j
                            /\ channel'[i].id = channel[j].id
    BY <1>2
  <2>2. PICK u \in Tasks : u = channel[j].id
    BY <1>5, <2>1
  <2>3. Rank(channel[j]) < r /\ Rank(channel[j]) \in Nat
    BY <1>5, <2>1
  <2>4. r < Sent(u)
    BY <1>4, <2>1, <2>2
  <2>5. UnderWay(u, r)
    BY <2>2, <2>3, <2>4 DEF NoGaps
  <2>6. u # t \/ r # Rank(channel[1])
    <3>1. u = t => Rank(channel[1]) < Rank(channel[j])
      BY <1>3, <2>1, <2>2 DEF InOrder
    <3>2. Rank(channel[1]) \in Nat
      BY <1>3, RankFacts
    <3>3. QED BY <2>3, <3>1, <3>2
  <2>7. UnderWay(u, r)'
    BY <1>6, <2>5, <2>6
  <2>8. QED BY <2>1, <2>2, <2>7
<1>11. Ahead'
  <2> SUFFICES ASSUME NEW i \in Places'
               PROVE  /\ channel'[i].id \notin Finished'
                      /\ Expected(channel[i].id)' <= Rank(channel[i])'
    BY DEF Ahead
  <2>1. PICK j \in Places : /\ j = i + 1 /\ 1 < j
                            /\ channel'[i].id = channel[j].id
    BY <1>2
  <2>2. PICK u \in Tasks : u = channel[j].id /\ u = channel'[i].id
    BY <1>5, <2>1
  <2>3. PICK k \in Nat : k = Rank(channel[j]) /\ k = Rank(channel[i])'
    BY <1>5, <2>1
  <2>4. /\ u \notin Finished /\ Expected(u) <= k
    BY <2>1, <2>2, <2>3 DEF Ahead
  <2>5. CASE u # t
    <3>1. Expected(u)' = Expected(u)
      BY <2>5 DEF Expected
    <3>2. Expected(channel[i].id)' = Expected(u)'
      BY <2>2
    <3>3. QED BY <2>2, <2>3, <2>4, <2>5, <3>1, <3>2
  <2>6. CASE u = t
    <3>1. PICK h \in Nat : h = Rank(channel[1])
      BY <1>3, RankFacts
    <3>2. h < k
      BY <1>3, <2>1, <2>2, <2>3, <2>6, <3>1 DEF InOrder
    <3>3. Head(channel).type # "Complete"
      <4>1. k <= file[t].size + 1 /\ file[t].size \in 0 .. MaxChunks
        <5>1. channel[j].id = t
          BY <2>2, <2>6
        <5>2. QED BY <2>1, <2>3, <5>1, RankFacts
      <4>2. channel[1].type = "Complete" => h = file[t].size + 1
        BY <1>3, <3>1, RankFacts
      <4>3. QED BY <1>3, <3>2, <4>1, <4>2, FilesAssumption
    <3>4. Expected(u)' <= k
      <4>1. Expected(u)' \in Nat /\ Expected(u)' <= h + 1
        BY <2>6, <3>1
      <4>2. QED BY <3>2, <4>1
    <3>5. Expected(channel[i].id)' <= k
      BY <2>2, <3>4
    <3>6. QED BY <2>2, <2>3, <2>4, <2>6, <3>3, <3>5
  <2>7. QED BY <2>5, <2>6
<1>12. Covered'
  <2> SUFFICES ASSUME NEW u \in Tasks
               PROVE  /\ Expected(u)' <= Sent(u)'
                      /\ (/\ u \notin failed' \cup Finished'
                          /\ Expected(u)' < Sent(u)')
                         => UnderWay(u, Expected(u))'
    BY DEF Covered
  <2>0. dc = "open"
    BY <1>3, RankFacts
  <2>1. CASE u # t
    <3>1. PICK e \in Nat : e = Expected(u) /\ e = Expected(u)'
      BY <2>1, FilesAssumption, SMTT(30) DEF Expected, TypeOK
    <3>2. /\ e <= Sent(u)
          /\ u \notin failed \cup Finished /\ e < Sent(u) => UnderWay(u, e)
      BY <2>0, <3>1 DEF Covered
    <3>3. UnderWay(u, e) => UnderWay(u, e)'
      BY <1>6, <2>1
    <3>4. UnderWay(u, Expected(u))' <=> UnderWay(u, e)'
      BY <3>1
    <3>5. QED BY <1>4, <3>1, <3>2, <3>3, <3>4
  <2>2. CASE u = t
    <3>1. PICK h \in Nat : h = Rank(channel[1])
      BY <1>3, RankFacts
    <3>2. h < Sent(u) /\ Sent(u) \in Nat /\ Sent(u)' = Sent(u)
      BY <1>3, <1>4, <2>2, <3>1, RankFacts
    <3>3. PICK e \in Nat : e = Expected(u)'
      BY <2>2
    <3>4. e <= h + 1 /\ (u \notin failed' \cup Finished' => e = h + 1)
      BY <2>2, <3>1, <3>3
    <3>5. ASSUME e = h + 1, e < Sent(u) PROVE UnderWay(u, e)'
      <4>1. UnderWay(u, e)
        BY <1>3, <2>2, <3>1, <3>2, <3>5 DEF NoGaps
      <4>2. QED BY <1>6, <3>1, <3>5, <4>1
    <3>6. UnderWay(u, Expected(u))' <=> UnderWay(u, e)'
      BY <3>3
    <3>7. QED BY <3>2, <3>3, <3>4, <3>5, <3>6
  <2>3. QED BY <2>1, <2>2
<1>13. QED BY <1>7, <1>8, <1>9, <1>10, <1>11, <1>12

\* The channel is closed or was not opened.
LEMMA EmptyChannel ==
  ASSUME channel' = << >>, dc' # "open"
  PROVE  /\ ChannelOK' /\ InOrder' /\ NoGaps' /\ Ahead' /\ Covered'
<1>1. Len(<< >>) = 0
  OBVIOUS
<1>2. Places' = {}
  BY <1>1 DEF Places
<1>3. QED BY <1>2 DEF ChannelOK, InOrder, NoGaps, Ahead, Covered

-----------------------------------------------------------------------------
(* The first part of the invariant. *)

LEMMA TransferInit == Init => TransferInv
<1> SUFFICES ASSUME Init PROVE TransferInv
  OBVIOUS
<1> USE DEF Init
<1>1. /\ pc \in [Tasks -> {"idle", "offer", "chunks", "sent", "error"}]
      /\ file \in [Tasks -> [name : Names, size : 0 .. MaxChunks] \cup {None}]
      /\ next \in [Tasks -> 1 .. MaxChunks + 1]
      /\ in_progress \in [Tasks -> [path : Paths, pos : 0 .. MaxChunks]
                                     \cup {None}]
  BY FilesAssumption
<1>2. files \in [Paths -> Seq(Pieces) \cup {None}]
  <2>1. <<User>> \in Seq(Pieces)
    BY DEF Pieces
  <2>2. QED BY <2>1
<1>3. TypeOK
  BY <1>1, <1>2, FilesAssumption DEF TypeOK
<1>4. Len(<< >>) = 0
  OBVIOUS
<1>5. Places = {} /\ Finished = {}
  BY <1>4 DEF Places, Finished
<1>6. ChannelOK /\ InOrder /\ NoGaps /\ Ahead /\ Covered
  BY <1>5 DEF ChannelOK, InOrder, NoGaps, Ahead, Covered
<1>7. SenderOK /\ OpenedOK
  BY <1>5 DEF SenderOK, OpenedOK
<1>8. QED BY <1>3, <1>6, <1>7 DEF TransferInv

LEMMA DropStep ==
  ASSUME TransferInv, NEW t \in Tasks, NEW n \in Names,
         NEW k \in 0 .. MaxChunks, Drop(t, n, k)
  PROVE  TransferInv'
<1> USE DEF TransferInv, Drop
<1>1. /\ pc'[t] = "offer" /\ file'[t] = [name |-> n, size |-> k]
      /\ \A u \in Tasks : u # t => pc'[u] = pc[u] /\ file'[u] = file[u]
      /\ next' = next /\ file'[t] # None /\ next[t] = 1
  BY NoneAssumption, FilesAssumption DEF TypeOK, SenderOK
<1>2. TypeOK'
  BY DEF TypeOK, receiver
<1>3. SenderOK'
  BY <1>1, FilesAssumption DEF SenderOK
<1>4. ASSUME NEW u \in Tasks
      PROVE  /\ Sent(u)' = Sent(u)
             /\ pc[u] \in {"chunks", "sent"} =>
                  pc'[u] = pc[u] /\ file'[u] = file[u]
  BY <1>1 DEF Sent
<1>5. ChannelOK' /\ InOrder' /\ NoGaps' /\ Ahead' /\ Covered'
  BY <1>4, SameChannel DEF receiver
<1>6. OpenedOK'
  BY <1>1 DEF OpenedOK, Finished, receiver
<1>7. QED BY <1>2, <1>3, <1>5, <1>6

\* A task at work sends m, which is what comes next, or ends with an error.
LEMMA SendStep ==
  ASSUME TransferInv, NEW t \in Tasks, pc[t] \in {"offer", "chunks"},
         NEW m \in [type : {"Offer", "Chunk", "Complete"}, id : {t},
                    seq : 0 .. MaxChunks],
         NEW step \in {"chunks", "sent"}, Send(t, m, step),
         Rank(m) = Sent(t),
         m.type = "Chunk" => m.seq \in 1 .. file[t].size,
         next' \in [Tasks -> 1 .. MaxChunks + 1],
         \A u \in Tasks : u # t => next'[u] = next[u],
         next'[t] <= file[t].size + 1,
         (IF step = "chunks" THEN next'[t] ELSE file[t].size + 2) = Sent(t) + 1
  PROVE  TransferInv'
<1> USE DEF TransferInv
<1>1. /\ dc' = dc /\ file' = file
      /\ UNCHANGED <<in_progress, files, received, failed, failures>>
      /\ Finished' = Finished
  BY DEF Send, receiver, Finished
<1>2. /\ \A u \in Tasks : u # t => pc'[u] = pc[u]
      /\ pc'[t] = IF dc = "open" THEN step ELSE "error"
      /\ pc' \in [Tasks -> {"idle", "offer", "chunks", "sent", "error"}]
  BY DEF Send, TypeOK
<1>3. file[t] # None /\ t \notin Finished
  BY DEF SenderOK, OpenedOK
<1>4. TypeOK'
  <2>1. channel' \in Seq([type : {"Offer", "Chunk", "Complete"}, id : Tasks,
                          seq : 0 .. MaxChunks])
    <3>1. m \in [type : {"Offer", "Chunk", "Complete"}, id : Tasks,
                 seq : 0 .. MaxChunks]
      OBVIOUS
    <3>2. Append(channel, m)
            \in Seq([type : {"Offer", "Chunk", "Complete"}, id : Tasks,
                     seq : 0 .. MaxChunks])
      BY <3>1, AppendProperties DEF TypeOK
    <3>3. QED BY <3>2 DEF Send, TypeOK
  <2>2. QED BY <1>1, <1>2, <2>1 DEF TypeOK
<1>5. SenderOK'
  BY <1>1, <1>2, <1>3 DEF SenderOK
<1>6. ChannelOK' /\ InOrder' /\ NoGaps' /\ Ahead' /\ Covered'
  <2>1. CASE dc # "open"
    BY <1>1, <2>1, EmptyChannel DEF Send, ChannelOK
  <2>2. CASE dc = "open"
    <3>1. \A u \in Tasks :
            /\ Sent(u)' = IF u = t THEN Sent(u) + 1 ELSE Sent(u)
            /\ IF u = t THEN pc'[u] \in {"chunks", "sent"} ELSE pc'[u] = pc[u]
      <4>1. \A u \in Tasks : u # t => Sent(u)' = Sent(u)
        BY <1>1, <1>2 DEF Sent
      <4>2. \A u \in Tasks : u = t => Sent(u)' = Sent(t) + 1
        BY <1>1, <1>2, <2>2 DEF Sent
      <4>3. QED BY <1>2, <2>2, <4>1, <4>2
    <3>2. QED BY <1>1, <1>3, <2>2, <3>1, Sends DEF Send
  <2>3. QED BY <2>1, <2>2
<1>7. OpenedOK'
  BY <1>1, <1>2, <1>3 DEF OpenedOK
<1>8. QED BY <1>4, <1>5, <1>6, <1>7

LEMMA SenderSteps ==
  ASSUME TransferInv, NEW t \in Tasks, SenderStep(t)
  PROVE  TransferInv'
<1>1. /\ TypeOK /\ SenderOK /\ next \in [Tasks -> 1 .. MaxChunks + 1]
      /\ MaxChunks \in Nat
  BY FilesAssumption DEF TransferInv, TypeOK
<1>2. pc[t] # "idle" => /\ file[t] \in [name : Names, size : 0 .. MaxChunks]
                        /\ next[t] <= file[t].size + 1
  BY <1>1, SentFacts DEF SenderOK
<1>3. CASE SendOffer(t)
  <2> DEFINE m == Msg("Offer", t, 0)
  <2>1. m \in [type : {"Offer", "Chunk", "Complete"}, id : {t},
               seq : 0 .. MaxChunks]
    BY <1>1 DEF Msg
  <2>2. Rank(m) = Sent(t) /\ m.type # "Chunk" /\ Sent(t) = 0
    BY <1>3 DEF Rank, Sent, SendOffer, Msg
  <2>3. pc[t] = "offer" /\ next[t] = 1
    BY <1>1, <1>3 DEF SendOffer, SenderOK
  <2> HIDE DEF m
  <2>4. Send(t, m, "chunks") /\ next' = next
    BY <1>3 DEF SendOffer, m
  <2>5. QED BY <1>1, <1>2, <2>1, <2>2, <2>3, <2>4, SendStep
<1>4. CASE SendChunk(t)
  <2> DEFINE m == Msg("Chunk", t, next[t])
  <2>0. /\ pc[t] = "chunks" /\ next[t] <= file[t].size
        /\ next' = [next EXCEPT ![t] = next[t] + 1]
        /\ file[t].size \in 0 .. MaxChunks /\ next[t] \in 1 .. MaxChunks + 1
    BY <1>1, <1>2, <1>4 DEF SendChunk
  <2>1. m \in [type : {"Offer", "Chunk", "Complete"}, id : {t},
               seq : 0 .. MaxChunks]
    BY <1>1, <2>0 DEF Msg
  <2>2. Rank(m) = Sent(t) /\ m.seq \in 1 .. file[t].size /\ Sent(t) = next[t]
    BY <1>1, <2>0 DEF Rank, Sent, Msg
  <2> HIDE DEF m
  <2>3. Send(t, m, "chunks")
    BY <1>4 DEF SendChunk, m
  <2>4. /\ next' \in [Tasks -> 1 .. MaxChunks + 1] /\ next'[t] = next[t] + 1
        /\ \A u \in Tasks : u # t => next'[u] = next[u]
    BY <1>1, <2>0
  <2>5. QED BY <1>1, <2>0, <2>1, <2>2, <2>3, <2>4, SendStep
<1>5. CASE SendComplete(t)
  <2> DEFINE m == Msg("Complete", t, 0)
  <2>0. /\ pc[t] = "chunks" /\ next[t] = file[t].size + 1
        /\ file[t].size \in 0 .. MaxChunks
    BY <1>1, <1>2, <1>5 DEF SendComplete
  <2>1. m \in [type : {"Offer", "Chunk", "Complete"}, id : {t},
               seq : 0 .. MaxChunks]
    BY <1>1 DEF Msg
  <2>2. Rank(m) = Sent(t) /\ m.type # "Chunk" /\ Sent(t) = file[t].size + 1
    BY <2>0 DEF Rank, Sent, Msg
  <2> HIDE DEF m
  <2>3. Send(t, m, "sent") /\ next' = next
    BY <1>5 DEF SendComplete, m
  <2>4. QED BY <1>1, <2>0, <2>1, <2>2, <2>3, SendStep
<1>6. QED BY <1>3, <1>4, <1>5 DEF SenderStep

LEMMA ChannelSteps ==
  ASSUME TransferInv, ChannelOpens \/ ChannelCloses
  PROVE  TransferInv'
<1> USE DEF TransferInv
<1>1. CASE ChannelOpens
  <2>1. /\ UNCHANGED <<pc, file, next, channel, in_progress, files, received,
                       failed, failures>>
        /\ dc = "connecting" /\ dc' = "open"
    BY <1>1 DEF ChannelOpens, sender, receiver, ChannelOK
  <2>2. Len(<< >>) = 0
    OBVIOUS
  <2>3. channel = << >>
    BY <2>1 DEF ChannelOK
  <2>4. Places' = {}
    BY <2>1, <2>2, <2>3 DEF Places
  <2>5. \A t \in Tasks : Expected(t)' = 0 /\ Sent(t)' = 0
    BY <2>1 DEF Expected, Sent, SenderOK, OpenedOK
  <2>6. ChannelOK' /\ InOrder' /\ NoGaps' /\ Ahead' /\ Covered'
    BY <2>1, <2>4, <2>5 DEF ChannelOK, InOrder, NoGaps, Ahead, Covered
  <2>7. TypeOK' /\ SenderOK' /\ OpenedOK'
    BY <2>1 DEF TypeOK, SenderOK, OpenedOK, Finished
  <2>8. QED BY <2>6, <2>7
<1>2. CASE ChannelCloses
  <2>1. /\ UNCHANGED <<pc, file, next, in_progress, files, received, failed,
                       failures>>
        /\ dc' = "closed" /\ channel' = << >>
    BY <1>2 DEF ChannelCloses, sender, receiver
  <2>2. TypeOK' /\ SenderOK' /\ OpenedOK'
    BY <2>1 DEF TypeOK, SenderOK, OpenedOK, Finished
  <2>3. QED BY <2>1, <2>2, EmptyChannel
<1>3. QED BY <1>1, <1>2

-----------------------------------------------------------------------------
(* What unique_destination_path finds and a write leaves. *)

\* The path is the first free candidate, and free if any is.
LEMMA UniquePath ==
  ASSUME TypeOK, NEW n \in Names
  PROVE  /\ unique_destination_path(n) \in Paths
         /\ (\E i \in DOMAIN Candidates[n] : files[Candidates[n][i]] = None)
            => files[unique_destination_path(n)] = None
<1> DEFINE c == Candidates[n]
           free == {i \in DOMAIN c : files[c[i]] = None}
           least == CHOOSE i \in free : \A j \in free : i <= j
<1>1. /\ c \in Seq(Paths) /\ c # << >> /\ DOMAIN c = 1 .. Len(c)
      /\ Len(c) \in Nat
  BY CandidatesAssumption, LenProperties
<1>2. unique_destination_path(n) = IF free = {} THEN Head(c) ELSE c[least]
  BY DEF unique_destination_path
<1>3. Head(c) \in Paths
  BY <1>1, HeadTailProperties
<1>4. ASSUME free # {} PROVE least \in free
  <2>1. IsWellFoundedOn(OpToRel(<, Nat), Nat)
    BY NatLessThanWellFounded
  <2>2. free \in SUBSET Nat
    BY <1>1
  <2>3. \E x \in free : \A y \in free : ~ (<<y, x>> \in OpToRel(<, Nat))
    BY <1>4, <2>1, <2>2, WFMin
  <2>4. \E x \in free : \A y \in free : ~ (y < x)
    BY <2>2, <2>3 DEF OpToRel
  <2>5. \E x \in free : \A y \in free : x <= y
    BY <2>2, <2>4
  <2>6. QED BY <2>5
<1>5. CASE free = {}
  BY <1>2, <1>3, <1>5
<1>6. CASE free # {}
  <2>1. least \in free
    BY <1>4, <1>6
  <2>2. c[least] \in Paths /\ files[c[least]] = None
    BY <1>1, <2>1, ElementOfSeq
  <2>3. QED BY <1>2, <1>6, <2>2
<1>7. QED BY <1>5, <1>6

LEMMA Written ==
  ASSUME NEW S, NEW c \in Seq(S), NEW pos \in Nat, NEW x \in S, Hole \in S
  PROVE  WriteAt(c, pos, x) \in Seq(S)
<1> DEFINE n == IF Len(c) > pos THEN Len(c) ELSE pos + 1
<1>1. Len(c) \in Nat /\ \A i \in 1 .. Len(c) : c[i] \in S
  BY LenProperties, ElementOfSeq
<1>2. n \in Nat
  BY <1>1
<1>3. WriteAt(c, pos, x) = [i \in 1 .. n |-> IF i = pos + 1 THEN x
                              ELSE IF i <= Len(c) THEN c[i] ELSE Hole]
  BY DEF WriteAt
<1> HIDE DEF n
<1>4. \A i \in 1 .. n : (IF i = pos + 1 THEN x
                         ELSE IF i <= Len(c) THEN c[i] ELSE Hole) \in S
  BY <1>1, <1>2
<1>5. QED BY <1>2, <1>3, <1>4

\* A write at the end adds its piece and keeps what is there.
LEMMA WrittenAtEnd ==
  ASSUME NEW c \in Seq(Pieces), NEW x \in Pieces, NEW pos, pos = Len(c)
  PROVE  /\ WriteAt(c, pos, x) \in Seq(Pieces)
         /\ Len(WriteAt(c, pos, x)) = pos + 1
         /\ SubSeq(WriteAt(c, pos, x), 1, pos) = c
<1> DEFINE w == WriteAt(c, pos, x)
<1>1. pos \in Nat /\ \A i \in 1 .. pos : c[i] \in Pieces
  BY LenProperties, ElementOfSeq
<1>2. w = [i \in 1 .. pos + 1 |-> IF i = pos + 1 THEN x ELSE c[i]]
  BY DEF WriteAt
<1>3. \A i \in 1 .. pos + 1 : (IF i = pos + 1 THEN x ELSE c[i]) \in Pieces
  BY <1>1
<1> HIDE DEF w
<1>4. w \in Seq(Pieces) /\ Len(w) = pos + 1
  <2>1. w \in Seq(Pieces)
    BY <1>2, <1>3
  <2>2. DOMAIN w = 1 .. pos + 1
    BY <1>2
  <2>3. QED BY <2>1, <2>2, LenProperties
<1>5. SubSeq(w, 1, pos) = c
  <2>1. \A i \in 1 .. pos : w[i] = c[i] /\ w[i] \in Pieces
    BY <1>1, <1>2
  <2>2. /\ SubSeq(w, 1, pos) \in Seq(Pieces)
        /\ Len(SubSeq(w, 1, pos)) = pos
        /\ \A i \in 1 .. pos : SubSeq(w, 1, pos)[i] = w[i]
    BY <2>1, SubSeqProperties
  <2>3. QED BY <2>1, <2>2, SeqEqual
<1>6. QED BY <1>4, <1>5 DEF w

\* The next chunk makes the chunks so far one more.
LEMMA WrittenNext ==
  ASSUME NEW t, NEW k \in Nat, NEW c, c = Whole(t, k), Len(c) = k
  PROVE  WriteAt(c, k, <<t, k + 1>>) = Whole(t, k + 1)
<1>1. WriteAt(c, k, <<t, k + 1>>)
        = [i \in 1 .. k + 1 |-> IF i = k + 1 THEN <<t, k + 1>> ELSE c[i]]
  BY DEF WriteAt
<1>2. \A i \in 1 .. k : c[i] = <<t, i>>
  BY DEF Whole
<1>3. \A i \in 1 .. k + 1 :
        (IF i = k + 1 THEN <<t, k + 1>> ELSE c[i]) = <<t, i>>
  <2> SUFFICES ASSUME NEW i \in 1 .. k + 1
               PROVE  (IF i = k + 1 THEN <<t, k + 1>> ELSE c[i]) = <<t, i>>
    OBVIOUS
  <2>1. CASE i = k + 1
    BY <2>1
  <2>2. CASE i \in 1 .. k
    BY <1>2, <2>2
  <2>3. QED BY <2>1, <2>2
<1>4. QED BY <1>1, <1>3 DEF Whole

-----------------------------------------------------------------------------
(* The receiver's steps. *)

\* What every handler of a message starts from.
LEMMA HeadFacts ==
  ASSUME TransferInv, channel # << >>, NEW t, t = Id
  PROVE  LET m == Head(channel) IN
         /\ t \in Tasks \ Finished /\ dc = "open"
         /\ pc[t] \in {"chunks", "sent"}
         /\ file[t] \in [name : Names, size : 0 .. MaxChunks]
         /\ m.type = "Offer" => Rank(channel[1]) = 0
         /\ m.type = "Chunk" => /\ Rank(channel[1]) = m.seq
                                /\ m.seq \in 1 .. file[t].size
         /\ m.type = "Complete" => /\ Rank(channel[1]) = file[t].size + 1
                                   /\ pc[t] = "sent"
         /\ in_progress[t] # None =>
              /\ in_progress[t] \in [path : Paths, pos : 0 .. MaxChunks]
              /\ in_progress[t].pos + 1 <= Rank(channel[1])
              /\ files[in_progress[t].path] \in Seq(Pieces)
              /\ t \notin failed =>
                   in_progress[t].pos + 1 = Rank(channel[1])
         /\ in_progress[t] = None /\ t \notin failed =>
              Rank(channel[1]) = 0
<1>1. /\ 1 \in Places /\ channel[1] = Head(channel)
      /\ t \in Tasks \ Finished /\ Expected(t) \in Nat
      /\ Expected(t) <= Rank(channel[1])
      /\ t \notin failed => Expected(t) = Rank(channel[1])
  BY HeadExpected
<1>2. /\ pc[t] \in {"chunks", "sent"} /\ dc = "open"
      /\ Sent(t) \in Nat /\ Rank(channel[1]) < Sent(t)
      /\ file[t] \in [name : Names, size : 0 .. MaxChunks]
      /\ channel[1].type = "Offer" => Rank(channel[1]) = 0
      /\ channel[1].type = "Chunk" =>
           /\ Rank(channel[1]) = channel[1].seq
           /\ channel[1].seq \in 1 .. file[t].size
      /\ channel[1].type = "Complete" => Rank(channel[1]) = file[t].size + 1
  <2>1. t = channel[1].id
    BY <1>1 DEF Id
  <2>2. QED BY <1>1, <2>1, RankFacts DEF TransferInv
<1>3. channel[1].type = "Complete" => pc[t] = "sent"
  <2>1. pc[t] = "chunks" => Sent(t) <= file[t].size + 1
    BY <1>1, <1>2, NoneAssumption DEF Sent, TransferInv, SenderOK
  <2>2. QED BY <1>2, <2>1, FilesAssumption
<1>4. in_progress[t] # None =>
        /\ in_progress[t] \in [path : Paths, pos : 0 .. MaxChunks]
        /\ files[in_progress[t].path] \in Seq(Pieces)
  BY <1>1 DEF TransferInv, TypeOK, OpenedOK
<1>5. QED BY <1>1, <1>2, <1>3, <1>4 DEF Expected

\* The state that every handler leaves alone.
LEMMA TakenFacts ==
  ASSUME TransferInv, channel # << >>, Taken
  PROVE  /\ channel' = Tail(channel) /\ UNCHANGED <<sender, dc>>
         /\ UNCHANGED <<pc, file, next>>
         /\ channel' \in Seq([type : {"Offer", "Chunk", "Complete"}, id : Tasks,
                              seq : 0 .. MaxChunks])
  BY HeadTailProperties DEF Taken, sender, TransferInv, TypeOK

LEMMA HandleOfferStep ==
  ASSUME TransferInv, HandleOffer \/ HandleOfferFails
  PROVE  TransferInv'
<1>1. PICK t : t = Id
  OBVIOUS
<1>2. channel # << >> /\ Head(channel).type = "Offer" /\ Taken
  BY DEF HandleOffer, HandleOfferFails, Takes
<1>3. /\ t \in Tasks \ Finished /\ dc = "open" /\ pc[t] \in {"chunks", "sent"}
      /\ file[t].name \in Names /\ Rank(channel[1]) = 0 /\ in_progress[t] = None
  BY <1>1, <1>2, HeadFacts
<1>4. /\ channel' = Tail(channel) /\ UNCHANGED <<sender, dc>>
      /\ UNCHANGED <<pc, file, next>>
      /\ channel' \in Seq([type : {"Offer", "Chunk", "Complete"}, id : Tasks,
                           seq : 0 .. MaxChunks])
  BY <1>2, TakenFacts
<1>5. CASE HandleOffer
  <2>1. PICK p \in Paths : p = unique_destination_path(file[t].name)
    BY <1>3, UniquePath DEF TransferInv
  <2>2. /\ files' = [files EXCEPT ![p] = << >>]
        /\ in_progress' = [in_progress EXCEPT ![t] = [path |-> p, pos |-> 0]]
        /\ UNCHANGED <<received, failed, failures>>
    BY <1>1, <1>5, <2>1 DEF HandleOffer
  <2>3. /\ [path |-> p, pos |-> 0] \in [path : Paths, pos : 0 .. MaxChunks]
        /\ [path |-> p, pos |-> 0] # None /\ << >> \in Seq(Pieces)
        /\ << >> # None
    <3>1. [path |-> p, pos |-> 0] \in [path : Paths, pos : Nat]
      OBVIOUS
    <3>2. << >> \in Seq(Pieces)
      OBVIOUS
    <3>3. [path |-> p, pos |-> 0] # None /\ << >> # None
      BY <3>1, <3>2, NotNone
    <3>4. [path |-> p, pos |-> 0] \in [path : Paths, pos : 0 .. MaxChunks]
      BY FilesAssumption
    <3>5. QED BY <3>2, <3>3, <3>4
  <2>4. TypeOK'
    BY <1>4, <2>2, <2>3 DEF TransferInv, TypeOK
  <2>5. /\ \A u \in Tasks : u # t => in_progress'[u] = in_progress[u]
        /\ \A u \in Tasks : u = t => in_progress'[u] = [path |-> p, pos |-> 0]
        /\ \A q \in Paths : files'[q] = IF q = p THEN << >> ELSE files[q]
    BY <2>2 DEF TransferInv, TypeOK
  <2>6. \A u \in Tasks : u = t => Expected(u)' = 1
    BY <2>3, <2>5 DEF Expected
  <2>7. Finished' = Finished
    BY <2>2 DEF Finished
  <2>8. SenderOK' /\ ChannelOK' /\ InOrder' /\ NoGaps' /\ Ahead' /\ Covered'
    BY <1>1, <1>2, <1>3, <1>4, <2>2, <2>5, <2>6, <2>7, Handles
  <2>9. OpenedOK'
    <3>1. \A u \in Tasks :
            in_progress[u] # None => in_progress[u].path \in Paths
      BY DEF TransferInv, TypeOK
    <3>2. QED BY <1>3, <1>4, <2>3, <2>5, <2>7, <3>1 DEF TransferInv, OpenedOK
  <2>10. QED BY <2>4, <2>8, <2>9 DEF TransferInv
<1>6. CASE HandleOfferFails
  <2>1. /\ UNCHANGED <<in_progress, files, received>>
        /\ failed' = failed \cup {t} /\ failures' \in 0 .. MaxFailures
    BY <1>1, <1>6, FilesAssumption
       DEF HandleOfferFails, OperationFails, TransferInv, TypeOK
  <2>2. TypeOK'
    BY <1>3, <1>4, <2>1 DEF TransferInv, TypeOK
  <2>3. \A u \in Tasks : u = t => Expected(u)' = 0
    BY <1>3, <2>1 DEF Expected
  <2>4. Finished' = Finished
    BY <2>1 DEF Finished
  <2>5. SenderOK' /\ ChannelOK' /\ InOrder' /\ NoGaps' /\ Ahead' /\ Covered'
    BY <1>1, <1>2, <1>3, <1>4, <2>1, <2>3, <2>4, Handles
  <2>6. OpenedOK'
    BY <1>4, <2>1, <2>4 DEF TransferInv, OpenedOK
  <2>7. QED BY <2>2, <2>5, <2>6 DEF TransferInv
<1>7. QED BY <1>5, <1>6

\* What the handlers of a chunk of t do: write a piece or nothing, and fail or
\* not.
LEMMA ChunkCases ==
  ASSUME TransferInv, HandleChunk \/ HandleChunkFails, NEW t, t = Id
  PROVE  /\ channel # << >> /\ Head(channel).type = "Chunk" /\ Taken
         /\ UNCHANGED received
         /\ \/ UNCHANGED <<failed, failures>>
            \/ failed' = failed \cup {t} /\ failures' \in 0 .. MaxFailures
         /\ \/ UNCHANGED <<files, in_progress>> /\ t \in failed'
            \/ /\ in_progress[t] # None
               /\ \E x \in Pieces :
                    /\ x = <<t, Head(channel).seq>> \/ t \in failed'
                    /\ Write(x)
<1>1. /\ channel # << >> /\ Head(channel).type = "Chunk" /\ Taken
      /\ UNCHANGED received
  BY DEF HandleChunk, HandleChunkFails, Takes
<1>2. /\ t \in Tasks /\ file[t].size \in 0 .. MaxChunks
      /\ Head(channel).seq \in 1 .. file[t].size
      /\ in_progress[t] = None => t \in failed
  BY <1>1, HeadFacts
<1>3. <<t, Head(channel).seq>> \in Pieces /\ Partial \in Pieces
  BY <1>2, FilesAssumption DEF Pieces
<1>4. CASE HandleChunk
  <2>1. /\ UNCHANGED <<failed, failures>>
        /\ IF in_progress[t] # None THEN Write(<<t, Head(channel).seq>>)
                                    ELSE UNCHANGED <<files, in_progress>>
    BY <1>4 DEF HandleChunk
  <2>2. QED BY <1>1, <1>2, <1>3, <2>1
<1>5. CASE HandleChunkFails
  <2>1. /\ in_progress[t] # None
        /\ failed' = failed \cup {t} /\ failures' \in 0 .. MaxFailures
        /\ Write(Partial) \/ UNCHANGED <<files, in_progress>>
    BY <1>5, FilesAssumption
       DEF HandleChunkFails, OperationFails, TransferInv, TypeOK
  <2>2. QED BY <1>1, <1>3, <2>1
<1>6. QED BY <1>4, <1>5

LEMMA HandleChunkStep ==
  ASSUME TransferInv, HandleChunk \/ HandleChunkFails
  PROVE  TransferInv'
<1>1. PICK t : t = Id
  OBVIOUS
<1>2. /\ channel # << >> /\ Head(channel).type = "Chunk" /\ Taken
      /\ UNCHANGED received
      /\ failed \subseteq failed' /\ failed' \subseteq failed \cup {t}
      /\ failures' \in 0 .. MaxFailures
      /\ \/ UNCHANGED <<files, in_progress>> /\ t \in failed'
         \/ in_progress[t] # None /\ \E x \in Pieces : Write(x)
  BY <1>1, ChunkCases DEF TransferInv, TypeOK
<1>3. /\ t \in Tasks \ Finished /\ dc = "open" /\ pc[t] \in {"chunks", "sent"}
      /\ Rank(channel[1]) \in 1 .. MaxChunks
      /\ in_progress[t] # None =>
           /\ in_progress[t] \in [path : Paths, pos : 0 .. MaxChunks]
           /\ in_progress[t].pos + 1 <= Rank(channel[1])
           /\ files[in_progress[t].path] \in Seq(Pieces)
           /\ t \notin failed => in_progress[t].pos + 1 = Rank(channel[1])
      /\ MaxChunks \in Nat
  <2>1. /\ file[t].size \in 0 .. MaxChunks
        /\ Rank(channel[1]) \in 1 .. file[t].size
    BY <1>1, <1>2, HeadFacts
  <2>2. QED BY <1>1, <1>2, <2>1, HeadFacts, FilesAssumption
<1>4. /\ channel' = Tail(channel) /\ UNCHANGED <<sender, dc>>
      /\ UNCHANGED <<pc, file, next>>
      /\ channel' \in Seq([type : {"Offer", "Chunk", "Complete"}, id : Tasks,
                           seq : 0 .. MaxChunks])
  BY <1>2, TakenFacts
<1>5. Finished' = Finished
  BY <1>2 DEF Finished
<1>6. failed' \subseteq Tasks
  BY <1>2, <1>3 DEF TransferInv, TypeOK
<1>7. CASE UNCHANGED <<files, in_progress>> /\ t \in failed'
  <2>1. TypeOK'
    BY <1>2, <1>4, <1>6, <1>7 DEF TransferInv, TypeOK
  <2>2. \A u \in Tasks : u = t =>
          Expected(u)' \in Nat /\ Expected(u)' <= Rank(channel[1]) + 1
    BY <1>3, <1>7 DEF Expected
  <2>3. SenderOK' /\ ChannelOK' /\ InOrder' /\ NoGaps' /\ Ahead' /\ Covered'
    BY <1>1, <1>2, <1>3, <1>4, <1>5, <1>7, <2>2, Handles
  <2>4. OpenedOK'
    BY <1>4, <1>5, <1>7 DEF TransferInv, OpenedOK
  <2>5. QED BY <2>1, <2>3, <2>4 DEF TransferInv
<1>8. ASSUME in_progress[t] # None, NEW x \in Pieces, Write(x)
      PROVE  TransferInv'
  <2>1. PICK p \in Paths, k \in 0 .. MaxChunks :
          in_progress[t] = [path |-> p, pos |-> k]
    BY <1>3, <1>8
  <2>2. PICK w \in Seq(Pieces) : w = WriteAt(files[p], k, x)
    BY <1>3, <1>8, <2>1, Written DEF Pieces
  <2>3. PICK e \in [path : Paths, pos : 0 .. MaxChunks] :
          e = [path |-> p, pos |-> k + 1] /\ e.path = p /\ e.pos = k + 1
    <3>1. k + 1 \in 0 .. MaxChunks
      BY <1>3, <1>8, <2>1
    <3> DEFINE r == [path |-> p, pos |-> k + 1]
    <3>2. /\ r \in [path : Paths, pos : 0 .. MaxChunks]
          /\ r.path = p /\ r.pos = k + 1
      BY <3>1
    <3>3. r = [path |-> p, pos |-> k + 1]
      OBVIOUS
    <3> HIDE DEF r
    <3>4. QED BY <3>2, <3>3
  <2>4. /\ files' = [files EXCEPT ![p] = w]
        /\ in_progress' = [in_progress EXCEPT ![t] = e]
    <3>1. e = [in_progress[t] EXCEPT !.pos = @ + 1]
      BY <2>1, <2>3
    <3>2. /\ files' = [files EXCEPT ![in_progress[t].path] =
                         WriteAt(@, in_progress[t].pos, x)]
          /\ in_progress' = [in_progress EXCEPT ![t].pos = @ + 1]
      BY <1>1, <1>8 DEF Write
    <3>3. in_progress' = [in_progress EXCEPT ![t] = e]
      BY <3>1, <3>2
    <3>4. files' = [files EXCEPT ![p] = w]
      BY <2>1, <2>2, <3>2
    <3>5. QED BY <3>3, <3>4
  <2>5. e # None /\ w # None
    <3>1. e \in [path : Paths, pos : Nat]
      OBVIOUS
    <3>2. QED BY <3>1, NotNone
  <2>6. TypeOK'
    BY <1>2, <1>4, <1>6, <2>4 DEF TransferInv, TypeOK
  <2>7. /\ \A u \in Tasks : u # t => in_progress'[u] = in_progress[u]
        /\ \A u \in Tasks : u = t => in_progress'[u] = e
        /\ \A q \in Paths : files'[q] = IF q = p THEN w ELSE files[q]
    BY <2>4 DEF TransferInv, TypeOK
  <2>8. \A u \in Tasks : u = t => Expected(u)' = k + 2
    BY <2>3, <2>5, <2>7 DEF Expected
  <2>9. \A u \in Tasks : u = t =>
          /\ Expected(u)' \in Nat /\ Expected(u)' <= Rank(channel[1]) + 1
          /\ u \notin failed' \cup Finished' =>
               Expected(u)' = Rank(channel[1]) + 1
    BY <1>2, <1>3, <1>8, <2>1, <2>8
  <2>10. SenderOK' /\ ChannelOK' /\ InOrder' /\ NoGaps' /\ Ahead' /\ Covered'
    BY <1>1, <1>2, <1>3, <1>4, <1>5, <2>7, <2>9, Handles
  <2>11. OpenedOK'
    <3>1. \A u \in Tasks :
            in_progress[u] # None => in_progress[u].path \in Paths
      BY DEF TransferInv, TypeOK
    <3>2. QED
      BY <1>3, <1>4, <1>5, <2>3, <2>5, <2>7, <3>1 DEF TransferInv, OpenedOK
  <2>12. QED BY <2>6, <2>10, <2>11 DEF TransferInv
<1>9. QED BY <1>2, <1>7, <1>8

LEMMA HandleCompleteStep ==
  ASSUME TransferInv, HandleComplete
  PROVE  TransferInv'
<1>1. PICK t : t = Id
  OBVIOUS
<1>2. /\ channel # << >> /\ Head(channel).type = "Complete" /\ Taken
      /\ UNCHANGED <<files, failed, failures>>
  BY DEF HandleComplete, Takes
<1>3. /\ t \in Tasks \ Finished /\ dc = "open" /\ pc[t] = "sent"
      /\ Rank(channel[1]) \in Nat \ {0}
      /\ in_progress[t] # None => in_progress[t].path \in Paths
      /\ in_progress[t] = None => t \in failed
  <2>1. file[t].size \in 0 .. MaxChunks /\ Rank(channel[1]) = file[t].size + 1
    BY <1>1, <1>2, HeadFacts
  <2>2. Rank(channel[1]) \in Nat \ {0}
    BY <2>1, FilesAssumption
  <2>3. QED BY <1>1, <1>2, <2>2, HeadFacts
<1>4. /\ channel' = Tail(channel) /\ UNCHANGED <<sender, dc>>
      /\ UNCHANGED <<pc, file, next>>
      /\ channel' \in Seq([type : {"Offer", "Chunk", "Complete"}, id : Tasks,
                           seq : 0 .. MaxChunks])
  BY <1>2, TakenFacts
<1>5. CASE in_progress[t] = None
  <2>1. UNCHANGED <<received, in_progress>> /\ t \in failed'
    BY <1>1, <1>2, <1>3, <1>5 DEF HandleComplete
  <2>2. TypeOK'
    BY <1>2, <1>4, <2>1 DEF TransferInv, TypeOK
  <2>3. Finished' = Finished
    BY <2>1 DEF Finished
  <2>4. \A u \in Tasks : u = t => Expected(u)' = 0
    BY <1>5, <2>1 DEF Expected
  <2>5. SenderOK' /\ ChannelOK' /\ InOrder' /\ NoGaps' /\ Ahead' /\ Covered'
    BY <1>1, <1>2, <1>3, <1>4, <2>1, <2>3, <2>4, Handles
  <2>6. OpenedOK'
    BY <1>2, <1>4, <2>1, <2>3 DEF TransferInv, OpenedOK
  <2>7. QED BY <2>2, <2>5, <2>6 DEF TransferInv
<1>6. CASE in_progress[t] # None
  <2>1. PICK p \in Paths : p = in_progress[t].path
    BY <1>3, <1>6
  <2>2. /\ received' = received \cup {<<t, p>>}
        /\ in_progress' = [in_progress EXCEPT ![t] = None]
    BY <1>1, <1>6, <2>1 DEF HandleComplete
  <2>3. TypeOK'
    BY <1>2, <1>3, <1>4, <2>2 DEF TransferInv, TypeOK
  <2>4. Finished' = Finished \cup {t}
    <3>1. <<t, p>>[1] = t
      OBVIOUS
    <3>2. QED BY <2>2, <3>1 DEF Finished
  <2>5. /\ \A u \in Tasks : u # t => in_progress'[u] = in_progress[u]
        /\ \A u \in Tasks : u = t => in_progress'[u] = None
    BY <2>2 DEF TransferInv, TypeOK
  <2>6. \A u \in Tasks : u = t => Expected(u)' = 0
    BY <2>5 DEF Expected
  <2>7. SenderOK' /\ ChannelOK' /\ InOrder' /\ NoGaps' /\ Ahead' /\ Covered'
    BY <1>1, <1>2, <1>3, <1>4, <2>4, <2>5, <2>6, Handles
  <2>8. OpenedOK'
    BY <1>2, <1>3, <1>4, <2>4, <2>5 DEF TransferInv, OpenedOK
  <2>9. QED BY <2>3, <2>7, <2>8 DEF TransferInv
<1>7. QED BY <1>5, <1>6

LEMMA TransferStep ==
  ASSUME TransferInv, [Next]_vars
  PROVE  TransferInv'
<1>1. CASE UNCHANGED vars
  <2>1. UNCHANGED <<pc, file, next, dc, channel, in_progress, files, received,
                    failed, failures>>
    BY <1>1 DEF vars, sender, receiver
  <2>2. \A t \in Tasks : Sent(t)' = Sent(t)
    BY <2>1 DEF Sent
  <2>3. ChannelOK' /\ InOrder' /\ NoGaps' /\ Ahead' /\ Covered'
    BY <2>1, <2>2, SameChannel
  <2>4. TypeOK' /\ SenderOK' /\ OpenedOK'
    BY <2>1 DEF TransferInv, TypeOK, SenderOK, OpenedOK, Finished
  <2>5. QED BY <2>3, <2>4 DEF TransferInv
<1>2. CASE ReceiverStep
  BY <1>2, HandleOfferStep, HandleChunkStep, HandleCompleteStep DEF ReceiverStep
<1>3. QED
  BY <1>1, <1>2, DropStep, SenderSteps, ChannelSteps DEF Next, NothingLeft

\* All state of the sending tasks, the channel and the receiver keeps its type
\* (file_transfer.rs:22-107): in particular no handle stands beyond the last
\* chunk of its file.
THEOREM TypeCorrect == Spec => []TypeOK
<1>1. Init => TransferInv
  BY TransferInit
<1>2. TransferInv /\ [Next]_vars => TransferInv'
  BY TransferStep
<1>3. TransferInv => TypeOK
  BY DEF TransferInv
<1>4. QED BY <1>1, <1>2, <1>3, PTL DEF Spec

-----------------------------------------------------------------------------
(* The second part: as long as candidates do not run out. *)

\* A name whose transfer has no path yet has a free candidate: fewer paths are
\* taken than there are transfers.
LEMMA FreePath ==
  ASSUME EnoughCandidates, TransferInv, PathsApart, NEW n \in Names,
         NEW t \in Tasks, \A p \in Paths : ~ PathOf(t, p)
  PROVE  files[unique_destination_path(n)] = None
<1> DEFINE S == {p \in Paths : \E u \in Tasks : PathOf(u, p)}
           O == Tasks \ {t}
           owner == [p \in S |-> CHOOSE u \in Tasks : PathOf(u, p)]
<1>1. \A p \in S : owner[p] \in O /\ PathOf(owner[p], p)
  OBVIOUS
<1>2. owner \in [S -> O]
  BY <1>1
<1>3. \A p, q \in S : owner[p] = owner[q] => p = q
  BY <1>1 DEF PathsApart
<1>4. owner \in Injection(S, O)
  BY <1>2, <1>3 DEF Injection, IsInjective
<1>5. /\ IsFiniteSet(O) /\ Cardinality(O) = Cardinality(Tasks) - 1
      /\ Cardinality(Tasks) \in Nat
  BY FS_RemoveElement, FS_CardinalityType DEF EnoughCandidates
<1> HIDE DEF owner, O
<1>6. IsFiniteSet(S) /\ Cardinality(S) <= Cardinality(O)
  BY <1>4, <1>5, FS_Injection
<1>7. Cardinality(S) < Cardinality(Tasks)
  BY <1>5, <1>6, FS_CardinalityType
<1>8. PICK i \in DOMAIN Candidates[n] : Candidates[n][i] \notin Existing \cup S
  BY <1>6, <1>7 DEF EnoughCandidates
<1>9. Candidates[n][i] \in Paths
  BY CandidatesAssumption, LenProperties, ElementOfSeq
<1>10. files[Candidates[n][i]] = None
  BY <1>8, <1>9 DEF PathsApart
<1>11. QED BY <1>10, UniquePath DEF TransferInv

\* What a step may do to the files.
FilesAlone ==
  /\ UNCHANGED <<files, in_progress, received>> /\ failed \subseteq failed'
  /\ \A t \in Finished : file'[t] = file[t]

Opens(t, p) ==
  /\ files[p] = None /\ \A q \in Paths : ~ PathOf(t, q)
  /\ files' = [files EXCEPT ![p] = << >>]
  /\ in_progress' = [in_progress EXCEPT ![t] = [path |-> p, pos |-> 0]]
  /\ UNCHANGED <<received, failed, file>>

Extends(t, p, k, x) ==
  /\ in_progress[t] = [path |-> p, pos |-> k]
  /\ files' = [files EXCEPT ![p] = WriteAt(files[p], k, x)]
  /\ in_progress' = [in_progress EXCEPT ![t] = [path |-> p, pos |-> k + 1]]
  /\ UNCHANGED <<received, file>> /\ failed \subseteq failed'
  /\ t \notin failed' => x = <<t, k + 1>>

Finishes(t, p, k) ==
  /\ in_progress[t] = [path |-> p, pos |-> k]
  /\ in_progress' = [in_progress EXCEPT ![t] = None]
  /\ received' = received \cup {<<t, p>>}
  /\ t \notin failed => k = file[t].size
  /\ UNCHANGED <<files, failed, file>>

LEMMA FilesChange ==
  ASSUME EnoughCandidates, TransferInv, PathsApart, [Next]_vars
  PROVE  \/ FilesAlone
         \/ \E t \in Tasks, p \in Paths : Opens(t, p)
         \/ \E t \in Tasks, p \in Paths, k \in 0 .. MaxChunks, x \in Pieces :
              Extends(t, p, k, x)
         \/ \E t \in Tasks, p \in Paths, k \in 0 .. MaxChunks :
              Finishes(t, p, k)
<1>1. ASSUME NEW t \in Tasks, NEW n \in Names, NEW k \in 0 .. MaxChunks,
             Drop(t, n, k)
      PROVE  FilesAlone
  <2>1. t \notin Finished
    BY <1>1 DEF Drop, TransferInv, OpenedOK
  <2>2. \A u \in Finished : u \in Tasks
    BY DEF Finished, TransferInv, TypeOK
  <2>3. QED
    BY <1>1, <2>1, <2>2 DEF Drop, FilesAlone, receiver, TransferInv, TypeOK
<1>2. ASSUME NEW t \in Tasks, SenderStep(t) PROVE FilesAlone
  BY <1>2 DEF SenderStep, SendOffer, SendChunk, SendComplete, Send, FilesAlone,
              receiver
<1>3. CASE ChannelOpens \/ ChannelCloses \/ UNCHANGED vars
  BY <1>3 DEF ChannelOpens, ChannelCloses, FilesAlone, sender, receiver, vars
<1>4. CASE HandleOffer
  <2>1. PICK t : t = Id
    OBVIOUS
  <2>2. channel # << >> /\ Head(channel).type = "Offer" /\ Taken
    BY <1>4 DEF HandleOffer, Takes
  <2>3. /\ t \in Tasks \ Finished /\ file[t].name \in Names
        /\ in_progress[t] = None
    BY <2>1, <2>2, HeadFacts
  <2>4. \A q \in Paths : ~ PathOf(t, q)
    <3>1. \A q : <<t, q>>[1] = t
      OBVIOUS
    <3>2. QED BY <2>3, <3>1 DEF PathOf, Finished
  <2>5. PICK p \in Paths : p = unique_destination_path(file[t].name)
    BY <2>3, UniquePath DEF TransferInv
  <2>6. files[p] = None
    BY <2>3, <2>4, <2>5, FreePath
  <2>7. Opens(t, p)
    BY <1>4, <2>1, <2>2, <2>4, <2>5, <2>6, TakenFacts DEF Opens, HandleOffer
  <2>8. QED BY <2>3, <2>7
<1>5. CASE HandleOfferFails
  <2>1. channel # << >> /\ Taken
    BY <1>5 DEF HandleOfferFails, Takes
  <2>2. QED
    BY <1>5, <2>1, TakenFacts DEF HandleOfferFails, OperationFails, FilesAlone
<1>6. CASE HandleChunk \/ HandleChunkFails
  <2>1. PICK t : t = Id
    OBVIOUS
  <2>2. /\ channel # << >> /\ Head(channel).type = "Chunk" /\ Taken
        /\ UNCHANGED received /\ failed \subseteq failed'
        /\ \/ UNCHANGED <<files, in_progress>>
           \/ /\ in_progress[t] # None
              /\ \E x \in Pieces :
                   /\ x = <<t, Head(channel).seq>> \/ t \in failed'
                   /\ Write(x)
    BY <1>6, <2>1, ChunkCases
  <2>3. UNCHANGED file
    BY <2>2, TakenFacts
  <2>4. CASE UNCHANGED <<files, in_progress>>
    BY <2>2, <2>3, <2>4 DEF FilesAlone
  <2>5. ASSUME in_progress[t] # None, NEW x \in Pieces,
               x = <<t, Head(channel).seq>> \/ t \in failed', Write(x)
        PROVE  \E p \in Paths, k \in 0 .. MaxChunks : Extends(t, p, k, x)
    <3>1. PICK p \in Paths, k \in 0 .. MaxChunks :
            in_progress[t] = [path |-> p, pos |-> k]
      BY <2>1, <2>2, <2>5, HeadFacts
    <3>2. t \notin failed => k + 1 = Head(channel).seq
      BY <2>1, <2>2, <2>5, <3>1, HeadFacts
    <3>3. [in_progress[t] EXCEPT !.pos = @ + 1] = [path |-> p, pos |-> k + 1]
      BY <3>1
    <3>4. /\ files' = [files EXCEPT ![in_progress[t].path] =
                         WriteAt(@, in_progress[t].pos, x)]
          /\ in_progress' = [in_progress EXCEPT ![t].pos = @ + 1]
      BY <2>1, <2>5 DEF Write
    <3>5. in_progress' = [in_progress EXCEPT ![t] = [path |-> p, pos |-> k + 1]]
      BY <3>3, <3>4
    <3>6. files' = [files EXCEPT ![p] = WriteAt(files[p], k, x)]
      BY <3>1, <3>4
    <3>7. t \notin failed' => x = <<t, k + 1>>
      BY <2>2, <2>5, <3>2
    <3>8. QED BY <2>2, <2>3, <3>1, <3>5, <3>6, <3>7 DEF Extends
  <2>6. t \in Tasks
    BY <2>1, <2>2, HeadFacts
  <2>7. QED BY <2>2, <2>4, <2>5, <2>6
<1>7. CASE HandleComplete
  <2>1. PICK t : t = Id
    OBVIOUS
  <2>2. channel # << >> /\ Head(channel).type = "Complete" /\ Taken
    BY <1>7 DEF HandleComplete, Takes
  <2>3. UNCHANGED <<file, files, failed>> /\ t \in Tasks
    BY <1>7, <2>1, <2>2, TakenFacts, HeadFacts DEF HandleComplete
  <2>4. CASE in_progress[t] = None
    BY <1>7, <2>1, <2>3, <2>4 DEF HandleComplete, FilesAlone
  <2>5. CASE in_progress[t] # None
    <3>1. PICK p \in Paths, k \in 0 .. MaxChunks :
            in_progress[t] = [path |-> p, pos |-> k]
      BY <2>1, <2>2, <2>5, HeadFacts
    <3>2. /\ t \notin failed => k + 1 = file[t].size + 1
          /\ file[t].size \in 0 .. MaxChunks
      BY <2>1, <2>2, <2>5, <3>1, HeadFacts
    <3>3. t \notin failed => k = file[t].size
      BY <3>2, FilesAssumption
    <3>4. /\ received' = received \cup {<<t, p>>}
          /\ in_progress' = [in_progress EXCEPT ![t] = None]
      BY <1>7, <2>1, <2>5, <3>1 DEF HandleComplete
    <3>5. QED BY <2>3, <3>1, <3>3, <3>4 DEF Finishes
  <2>6. QED BY <2>4, <2>5
<1>8. QED
  BY <1>1, <1>2, <1>3, <1>4, <1>5, <1>6, <1>7
     DEF Next, ReceiverStep, NothingLeft

-----------------------------------------------------------------------------

LEMMA FileInit == Init => FileInv
<1> SUFFICES ASSUME Init PROVE FileInv
  OBVIOUS
<1>1. \A t \in Tasks, p \in Paths : ~ PathOf(t, p)
  BY DEF Init, PathOf
<1>2. QED
  BY <1>1 DEF Init, FileInv, PathsApart, WrittenSoFar, ReceivedIsWhole

\* A report of a received file.
LEMMA Reports ==
  ASSUME TypeOK, NEW r \in received
  PROVE  /\ r[1] \in Tasks /\ r[2] \in Paths
         /\ PathOf(r[1], r[2]) /\ r[1] \in Finished
<1>1. r \in Tasks \X Paths
  BY DEF TypeOK
<1>2. r[1] \in Tasks /\ r[2] \in Paths /\ r = <<r[1], r[2]>>
  BY <1>1
<1>3. <<r[1], r[2]>> \in received
  BY <1>2
<1>4. QED BY <1>2, <1>3 DEF PathOf, Finished

LEMMA FileStepAlone ==
  ASSUME TypeOK, FileInv, FilesAlone
  PROVE  FileInv'
<1>1. \A t \in Tasks, p \in Paths : PathOf(t, p)' <=> PathOf(t, p)
  BY DEF PathOf, FilesAlone
<1>2. PathsApart'
  BY <1>1 DEF PathsApart, FileInv, FilesAlone
<1>3. WrittenSoFar'
  BY DEF WrittenSoFar, FileInv, FilesAlone
<1>4. ReceivedIsWhole'
  <2> SUFFICES ASSUME NEW r \in received, r[1] \notin failed'
               PROVE  files'[r[2]]
                        = [i \in 1 .. file'[r[1]].size |-> <<r[1], i>>]
    BY DEF ReceivedIsWhole, FilesAlone
  <2>1. file'[r[1]] = file[r[1]] /\ r[1] \notin failed /\ files' = files
    BY Reports DEF FilesAlone
  <2>2. QED BY <2>1 DEF ReceivedIsWhole, FileInv
<1>5. QED BY <1>2, <1>3, <1>4 DEF FileInv

LEMMA FileStepOpens ==
  ASSUME TransferInv, FileInv, NEW t \in Tasks, NEW p \in Paths, Opens(t, p)
  PROVE  FileInv'
<1> DEFINE e == [path |-> p, pos |-> 0]
<1>1. e # None /\ << >> # None /\ e.path = p /\ e.pos = 0
  <2>1. e \in [path : Paths, pos : Nat]
    OBVIOUS
  <2>2. << >> \in Seq(Pieces)
    OBVIOUS
  <2>3. QED BY <2>1, <2>2, NotNone
<1>2. in_progress' = [in_progress EXCEPT ![t] = e]
  BY DEF Opens
<1> HIDE DEF e
<1>3. /\ \A u \in Tasks : in_progress'[u] = IF u = t THEN e ELSE in_progress[u]
      /\ \A q \in Paths : files'[q] = IF q = p THEN << >> ELSE files[q]
      /\ UNCHANGED <<received, failed, file>>
      /\ files[p] = None /\ in_progress[t] = None
      /\ \A q \in Paths : ~ PathOf(t, q)
  <2>1. in_progress[t] = None
    BY DEF Opens, PathOf, TransferInv, TypeOK
  <2>2. QED BY <1>2, <2>1 DEF Opens, TransferInv, TypeOK
<1>4. \A u \in Tasks, q \in Paths :
        PathOf(u, q)' <=> PathOf(u, q) \/ (u = t /\ q = p)
  BY <1>1, <1>3 DEF PathOf
<1>5. \A u \in Tasks : ~ PathOf(u, p)
  BY <1>3 DEF FileInv, PathsApart
<1>6. PathsApart'
  <2>1. \A u, v \in Tasks, q \in Paths : PathOf(u, q)' /\ PathOf(v, q)' => u = v
    BY <1>4, <1>5 DEF FileInv, PathsApart
  <2>2. \A u \in Tasks, q, r \in Paths : PathOf(u, q)' /\ PathOf(u, r)' => q = r
    BY <1>3, <1>4 DEF FileInv, PathsApart
  <2>3. \A q \in Paths :
          files'[q] # None => q \in Existing \/ \E u \in Tasks : PathOf(u, q)'
    BY <1>3, <1>4 DEF FileInv, PathsApart
  <2>4. \A u \in Tasks, q \in Paths : PathOf(u, q)' => files'[q] # None
    BY <1>1, <1>3, <1>4 DEF FileInv, PathsApart
  <2>5. QED BY <2>1, <2>2, <2>3, <2>4 DEF PathsApart
<1>7. WrittenSoFar'
  <2> SUFFICES ASSUME NEW u \in Tasks, in_progress'[u] # None
               PROVE  /\ Len(files'[in_progress'[u].path]) = in_progress'[u].pos
                      /\ u \notin failed' =>
                           files'[in_progress'[u].path]
                             = Whole(u, in_progress'[u].pos)
    BY DEF WrittenSoFar, Whole
  <2>1. CASE u = t
    <3>1. Len(<< >>) = 0
      OBVIOUS
    <3>2. << >> = Whole(t, 0)
      BY DEF Whole
    <3>3. QED BY <1>1, <1>3, <2>1, <3>1, <3>2
  <2>2. CASE u # t
    <3>1. in_progress'[u] = in_progress[u] /\ in_progress[u].path \in Paths
      BY <1>3, <2>2 DEF TransferInv, TypeOK
    <3>2. in_progress[u].path # p
      BY <1>5, <3>1 DEF PathOf
    <3>3. QED BY <1>3, <3>1, <3>2 DEF WrittenSoFar, FileInv
  <2>3. QED BY <2>1, <2>2
<1>8. ReceivedIsWhole'
  <2>1. \A r \in received : r[2] \in Paths /\ r[2] # p
    BY <1>5, Reports DEF TransferInv
  <2>2. QED BY <1>3, <2>1 DEF ReceivedIsWhole, FileInv
<1>9. QED BY <1>6, <1>7, <1>8 DEF FileInv

\* The file of a transfer in progress, before and after a write.
LEMMA ExtendFacts ==
  ASSUME TransferInv, FileInv, NEW t \in Tasks, NEW p \in Paths,
         NEW k \in 0 .. MaxChunks, NEW x \in Pieces, Extends(t, p, k, x)
  PROVE  /\ in_progress[t] # None /\ in_progress[t].path = p
         /\ Len(files[p]) = k
         /\ files'[p] \in Seq(Pieces) /\ Len(files'[p]) = k + 1
         /\ SubSeq(files'[p], 1, k) = files[p]
         /\ t \notin failed' => files'[p] = Whole(t, k + 1)
         /\ \A q \in Paths : q # p => files'[q] = files[q]
<1>1. /\ in_progress[t] # None /\ in_progress[t].path = p
      /\ in_progress[t].pos = k
  <2>1. [path |-> p, pos |-> k] \in [path : Paths, pos : Nat]
    OBVIOUS
  <2>2. QED BY <2>1, NotNone DEF Extends
<1>2. /\ files[p] \in Seq(Pieces) /\ Len(files[p]) = k
      /\ t \notin failed => files[p] = Whole(t, k)
  BY <1>1 DEF FileInv, WrittenSoFar, TransferInv, OpenedOK, TypeOK
<1>3. /\ files'[p] = WriteAt(files[p], k, x)
      /\ \A q \in Paths : q # p => files'[q] = files[q]
  BY DEF Extends, TransferInv, TypeOK
<1>4. /\ WriteAt(files[p], k, x) \in Seq(Pieces)
      /\ Len(WriteAt(files[p], k, x)) = k + 1
      /\ SubSeq(WriteAt(files[p], k, x), 1, k) = files[p]
      /\ files[p] = Whole(t, k) /\ x = <<t, k + 1>> =>
           WriteAt(files[p], k, x) = Whole(t, k + 1)
  <2>1. k \in Nat
    BY FilesAssumption
  <2>2. PICK c \in Seq(Pieces) : c = files[p] /\ Len(c) = k
    BY <1>2
  <2>3. /\ WriteAt(c, k, x) \in Seq(Pieces)
        /\ Len(WriteAt(c, k, x)) = k + 1
        /\ SubSeq(WriteAt(c, k, x), 1, k) = c
    BY <2>2, WrittenAtEnd
  <2>4. c = Whole(t, k) /\ x = <<t, k + 1>> =>
          WriteAt(c, k, x) = Whole(t, k + 1)
    BY <2>1, <2>2, WrittenNext
  <2>5. QED BY <2>2, <2>3, <2>4
<1>5. QED BY <1>1, <1>2, <1>3, <1>4 DEF Extends

LEMMA FileStepExtends ==
  ASSUME TransferInv, FileInv, NEW t \in Tasks, NEW p \in Paths,
         NEW k \in 0 .. MaxChunks, NEW x \in Pieces, Extends(t, p, k, x)
  PROVE  FileInv'
<1> DEFINE e == [path |-> p, pos |-> k + 1]
<1>1. e # None /\ e.path = p /\ e.pos = k + 1
  <2>1. e \in [path : Paths, pos : Nat]
    OBVIOUS
  <2>2. QED BY <2>1, NotNone
<1>2. in_progress' = [in_progress EXCEPT ![t] = e]
  BY DEF Extends
<1> HIDE DEF e
<1>3. /\ \A u \in Tasks : in_progress'[u] = IF u = t THEN e ELSE in_progress[u]
      /\ UNCHANGED <<received, file>> /\ failed \subseteq failed'
  BY <1>2 DEF Extends, TransferInv, TypeOK
<1>4. /\ in_progress[t] # None /\ in_progress[t].path = p
      /\ Len(files'[p]) = k + 1 /\ files'[p] # None
      /\ t \notin failed' => files'[p] = Whole(t, k + 1)
      /\ \A q \in Paths : q # p => files'[q] = files[q]
  BY ExtendFacts, NotNone
<1>5. \A u \in Tasks, q \in Paths : PathOf(u, q)' <=> PathOf(u, q)
  BY <1>1, <1>3, <1>4 DEF PathOf
<1>6. PathOf(t, p)
  BY <1>4 DEF PathOf
<1>7. PathsApart'
  <2>1. \A q \in Paths : files'[q] # None <=> files[q] # None
    BY <1>4, <1>6 DEF FileInv, PathsApart
  <2>2. QED BY <1>5, <2>1 DEF FileInv, PathsApart
<1>8. WrittenSoFar'
  <2> SUFFICES ASSUME NEW u \in Tasks, in_progress'[u] # None
               PROVE  /\ Len(files'[in_progress'[u].path]) = in_progress'[u].pos
                      /\ u \notin failed' =>
                           files'[in_progress'[u].path]
                             = Whole(u, in_progress'[u].pos)
    BY DEF WrittenSoFar, Whole
  <2>1. CASE u = t
    BY <1>1, <1>3, <1>4, <2>1
  <2>2. CASE u # t
    <3>1. in_progress'[u] = in_progress[u] /\ in_progress[u].path \in Paths
      BY <1>3, <2>2 DEF TransferInv, TypeOK
    <3>2. in_progress[u].path # p
      BY <1>6, <2>2, <3>1 DEF PathOf, FileInv, PathsApart
    <3>3. QED BY <1>3, <1>4, <3>1, <3>2 DEF WrittenSoFar, FileInv
  <2>3. QED BY <2>1, <2>2
<1>9. ReceivedIsWhole'
  <2>1. \A r \in received : r[2] \in Paths /\ r[2] # p
    <3> SUFFICES ASSUME NEW r \in received, r[2] = p PROVE FALSE
      BY Reports DEF TransferInv
    <3>1. r[1] = t /\ r[1] \in Finished
      BY <1>6, Reports DEF FileInv, PathsApart, TransferInv
    <3>2. QED BY <1>4, <3>1 DEF TransferInv, OpenedOK
  <2>2. QED BY <1>3, <1>4, <2>1 DEF ReceivedIsWhole, FileInv
<1>10. QED BY <1>7, <1>8, <1>9 DEF FileInv

LEMMA FileStepFinishes ==
  ASSUME TransferInv, FileInv, NEW t \in Tasks, NEW p \in Paths,
         NEW k \in 0 .. MaxChunks, Finishes(t, p, k)
  PROVE  FileInv'
<1>1. /\ in_progress[t] # None /\ in_progress[t].path = p
      /\ in_progress[t].pos = k
  <2>1. [path |-> p, pos |-> k] \in [path : Paths, pos : Nat]
    OBVIOUS
  <2>2. QED BY <2>1, NotNone DEF Finishes
<1>2. /\ \A u \in Tasks :
           in_progress'[u] = IF u = t THEN None ELSE in_progress[u]
      /\ received' = received \cup {<<t, p>>}
      /\ UNCHANGED <<files, failed, file>>
  BY DEF Finishes, TransferInv, TypeOK
<1>3. \A u \in Tasks, q \in Paths : PathOf(u, q)' <=> PathOf(u, q)
  BY <1>1, <1>2 DEF PathOf
<1>4. PathsApart'
  BY <1>2, <1>3 DEF FileInv, PathsApart
<1>5. WrittenSoFar'
  BY <1>2 DEF FileInv, WrittenSoFar
<1>6. t \notin failed => files[p] = Whole(t, file[t].size)
  BY <1>1 DEF FileInv, WrittenSoFar, Finishes
<1>7. ReceivedIsWhole'
  <2> SUFFICES ASSUME NEW r \in received', r[1] \notin failed
               PROVE  files[r[2]] = [i \in 1 .. file[r[1]].size |-> <<r[1], i>>]
    BY <1>2 DEF ReceivedIsWhole
  <2>1. CASE r \in received
    BY <2>1 DEF FileInv, ReceivedIsWhole
  <2>2. CASE r = <<t, p>>
    <3>1. r[1] = t /\ r[2] = p
      BY <2>2
    <3>2. QED BY <1>6, <3>1 DEF Whole
  <2>3. QED BY <1>2, <2>1, <2>2
<1>8. QED BY <1>4, <1>5, <1>7 DEF FileInv

LEMMA FileStep ==
  ASSUME EnoughCandidates, TransferInv, FileInv, [Next]_vars
  PROVE  FileInv'
<1>1. TypeOK /\ PathsApart
  BY DEF TransferInv, FileInv
<1>2. QED
  BY <1>1, FilesChange, FileStepAlone, FileStepOpens, FileStepExtends,
     FileStepFinishes

\* As long as no name runs out of candidates, a file reported as received holds
\* exactly the chunks of the dropped file, each once and in order, however many
\* transfers of whatever sizes share the channel and whatever fails on the host
\* for others (file_transfer.rs:22-54, 74-97).
THEOREM ReceivedWhole ==
  ASSUME EnoughCandidates
  PROVE  Spec => []ReceivedIsWhole
<1>1. Init => TransferInv /\ FileInv
  BY TransferInit, FileInit
<1>2. TransferInv /\ FileInv /\ [Next]_vars => (TransferInv /\ FileInv)'
  BY TransferStep, FileStep
<1>3. FileInv => ReceivedIsWhole
  BY DEF FileInv
<1>4. QED BY <1>1, <1>2, <1>3, PTL DEF Spec

\* As long as no name runs out of candidates, no step of the receiver changes
\* what a path holds, other than adding to it for the transfer in progress
\* there (file_transfer.rs:74-97, 110-131).
THEOREM NothingClobbered ==
  ASSUME EnoughCandidates
  PROVE  Spec => NoClobber
<1>1. Init => TransferInv /\ FileInv
  BY TransferInit, FileInit
<1>2. TransferInv /\ FileInv /\ [Next]_vars => (TransferInv /\ FileInv)'
  BY TransferStep, FileStep
<1> DEFINE Added(p) ==
      /\ \E t \in Tasks : in_progress[t] # None /\ in_progress[t].path = p
      /\ Len(files'[p]) > Len(files[p])
      /\ SubSeq(files'[p], 1, Len(files[p])) = files[p]
<1>3. ASSUME TransferInv, FileInv, [Next]_vars
      PROVE  [\A p \in Paths : files[p] # None /\ files'[p] # files[p]
                                 => Added(p)]_vars
  <2> SUFFICES ASSUME NEW q \in Paths, files[q] # None, files'[q] # files[q]
               PROVE  Added(q)
    OBVIOUS
  <2>1. ~ FilesAlone
    BY DEF FilesAlone
  <2>2. ASSUME NEW t \in Tasks, NEW p \in Paths, Opens(t, p) PROVE FALSE
    BY <1>3, <2>2 DEF Opens, TransferInv, TypeOK
  <2>3. ASSUME NEW t \in Tasks, NEW p \in Paths, NEW k \in 0 .. MaxChunks,
               NEW x \in Pieces, Extends(t, p, k, x)
        PROVE  Added(q)
    <3>1. /\ in_progress[t] # None /\ in_progress[t].path = p
          /\ Len(files[p]) = k /\ Len(files'[p]) = k + 1
          /\ SubSeq(files'[p], 1, k) = files[p]
          /\ q # p => files'[q] = files[q]
      BY <1>3, <2>3, ExtendFacts
    <3>2. QED BY <3>1
  <2>4. ASSUME NEW t \in Tasks, NEW p \in Paths, NEW k \in 0 .. MaxChunks,
               Finishes(t, p, k)
        PROVE  FALSE
    BY <2>4 DEF Finishes
  <2>5. PathsApart
    BY <1>3 DEF FileInv
  <2>6. QED BY <1>3, <2>1, <2>2, <2>3, <2>4, <2>5, FilesChange
<1>4. QED BY <1>1, <1>2, <1>3, PTL DEF Spec, NoClobber

=============================================================================
