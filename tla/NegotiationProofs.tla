-------------------------- MODULE NegotiationProofs --------------------------
(***************************************************************************)
(* Proofs about module Negotiation, for any number of controllers and      *)
(* candidates.                                                             *)
(***************************************************************************)
EXTENDS Negotiation, SequenceTheorems, TLAPS

-----------------------------------------------------------------------------
(* Queues. *)

LEMMA SeqMonotone ==
  ASSUME NEW S, NEW T, S \subseteq T, NEW q \in Seq(S)
  PROVE  q \in Seq(T)
OBVIOUS

\* Every m of the queue q has a p before it.
Before(p, m, q) == \A i \in 1 .. Len(q) : q[i] = m => \E j \in 1 .. i - 1 : q[j] = p

LEMMA AppendKeeps ==
  ASSUME NEW S, NEW q \in Seq(S), NEW e \in S, NEW p, NEW m
  PROVE  /\ Append(q, e) \in Seq(S)
         /\ Queued(q, p) => Queued(Append(q, e), p)
         /\ Queued(Append(q, e), e)
         /\ Before(p, m, q) /\ e # m => Before(p, m, Append(q, e))
         /\ Before(p, m, q) /\ Queued(q, p) => Before(p, m, Append(q, e))
<1>1. /\ Append(q, e) \in Seq(S) /\ Len(q) \in Nat
      /\ Len(Append(q, e)) = Len(q) + 1 /\ Append(q, e)[Len(q) + 1] = e
      /\ \A i \in 1 .. Len(q) : Append(q, e)[i] = q[i]
  BY AppendProperties
<1>2. DOMAIN q = 1 .. Len(q) /\ DOMAIN Append(q, e) = 1 .. Len(q) + 1
  BY <1>1, LenProperties
<1>3. Queued(q, p) => Queued(Append(q, e), p)
  BY <1>1, <1>2 DEF Queued
<1>4. Queued(Append(q, e), e)
  BY <1>1, <1>2 DEF Queued
<1>5. ASSUME Before(p, m, q), e # m \/ Queued(q, p)
      PROVE  Before(p, m, Append(q, e))
  <2> SUFFICES ASSUME NEW i \in 1 .. Len(q) + 1, Append(q, e)[i] = m
               PROVE  \E j \in 1 .. i - 1 : Append(q, e)[j] = p
    BY <1>1 DEF Before
  <2>1. CASE i = Len(q) + 1
    BY <1>1, <1>2, <1>5, <2>1 DEF Queued
  <2>2. CASE i \in 1 .. Len(q)
    BY <1>1, <1>5, <2>2 DEF Before
  <2>3. QED BY <1>1, <2>1, <2>2
<1>6. QED BY <1>1, <1>3, <1>4, <1>5

LEMMA TailKeeps ==
  ASSUME NEW S, NEW q \in Seq(S), q # << >>, NEW p, NEW m
  PROVE  /\ Head(q) \in S /\ Tail(q) \in Seq(S)
         /\ Queued(q, p) /\ Head(q) # p => Queued(Tail(q), p)
         /\ Before(p, m, q) /\ Head(q) # p => Before(p, m, Tail(q))
         /\ Before(p, m, q) => Head(q) # m
<1>1. /\ Head(q) \in S /\ Tail(q) \in Seq(S) /\ Head(q) = q[1]
      /\ Len(q) \in Nat \ {0} /\ Len(Tail(q)) = Len(q) - 1
      /\ \A i \in 1 .. Len(q) - 1 : Tail(q)[i] = q[i + 1]
  BY HeadTailProperties, EmptySeq
<1>2. DOMAIN q = 1 .. Len(q) /\ DOMAIN Tail(q) = 1 .. Len(q) - 1
  BY <1>1, LenProperties
<1>3. ASSUME Queued(q, p), Head(q) # p PROVE Queued(Tail(q), p)
  <2>1. PICK i \in 1 .. Len(q) : q[i] = p
    BY <1>2, <1>3 DEF Queued
  <2>2. i - 1 \in 1 .. Len(q) - 1 /\ Tail(q)[i - 1] = q[i]
    BY <1>1, <1>3, <2>1
  <2>3. QED BY <1>2, <2>1, <2>2 DEF Queued
<1>4. ASSUME Before(p, m, q), Head(q) # p PROVE Before(p, m, Tail(q))
  <2> SUFFICES ASSUME NEW i \in 1 .. Len(q) - 1, Tail(q)[i] = m
               PROVE  \E j \in 1 .. i - 1 : Tail(q)[j] = p
    BY <1>1 DEF Before
  <2>1. i + 1 \in 1 .. Len(q) /\ q[i + 1] = m
    BY <1>1
  <2>2. PICK j \in 1 .. i : q[j] = p
    BY <1>4, <2>1 DEF Before
  <2>3. j - 1 \in 1 .. i - 1 /\ Tail(q)[j - 1] = q[j]
    BY <1>1, <1>4, <2>2
  <2>4. QED BY <2>2, <2>3
<1>5. Before(p, m, q) => Head(q) # m
  BY <1>1 DEF Before
<1>6. QED BY <1>1, <1>3, <1>4, <1>5

LEMMA EmptyKeeps ==
  ASSUME NEW p, NEW m, NEW S
  PROVE  Before(p, m, << >>) /\ << >> \in Seq(S)
BY DEF Before

-----------------------------------------------------------------------------
(* What can be under way. *)

\* Where a controller is once it has sent its offer, and once it has the
\* answer, if it is still there.
Offered   == {"wait_answer", "connected", "gone"}
Connected == {"connected", "gone"}

\* The host has answered the offer of controller k, or has left.
Answered(k) ==
  /\ k \in Controllers /\ serving = k
  /\ hpc \in {"stream", "gone"} /\ cpc[k] \in Offered

\* What a client has sent: the host its answer and candidates of the session it
\* has answered; a controller its offer, and candidates once it has the answer.
UpSet(x) ==
  {m \in Messages(ClientTypes) :
     IF x = Host
     THEN \/ m.type = "RequestTurnCredentials"
          \/ m.type \in {"SdpAnswer", "IceCandidate"} /\ Answered(m.sid)
     ELSE \/ m.type \in {"RequestTurnCredentials", "RequestConnection"}
          \/ m.type = "SdpOffer" /\ m.sid = x /\ cpc[x] \in Offered
          \/ /\ m.type = "IceCandidate" /\ m.sid = x
             /\ cpc[x] \in Connected /\ Answered(x)}

\* What the server has sent to a client.
DownSet(x) ==
  {m \in Messages(ServerTypes) :
     IF x = Host
     THEN \/ m.type \in {"TurnCredentials", "Error"}
          \/ m.type = "IncomingConnection" /\ m.sid \in Controllers
          \/ m.type = "SdpOffer" /\ m.sid \in Controllers /\ cpc[m.sid] \in Offered
          \/ m.type = "IceCandidate" /\ Answered(m.sid)
     ELSE \/ m.type \in {"TurnCredentials", "ConnectionEstablished", "Error"}
          \/ m.type \in {"SdpAnswer", "IceCandidate"} /\ m.sid = x /\ Answered(x)}

Answer(k) == Msg("SdpAnswer", k)
Ice(k)    == Msg("IceCandidate", k)

\* The answer is before the host's candidates, on the way to the server and
\* from it, until the controller has it.
AnswerFirst(k) ==
  \/ cpc[k] \in Connected
  \/ /\ Before(Answer(k), Ice(k), down[k])
     /\ Before(Answer(k), Ice(k), up[Host]) \/ Queued(down[k], Answer(k))

\* The answer the host has sent is under way, or has arrived.
AnswerUnderWay(k) ==
  \/ cpc[k] \in Connected
  \/ Queued(up[Host], Answer(k))
  \/ Queued(down[k], Answer(k))

Steps ==
  /\ hpc \in HostSteps \ {"bad_candidate"}
  /\ serving \in Controllers \cup {None}
  /\ cpc \in [Controllers -> CtlSteps \ {"bad_candidate"}]
  /\ ice \in [Peers -> 0 .. MaxIce]
  /\ open \subseteq Peers

UpQueues ==
  /\ up = [x \in Peers |-> up[x]]
  /\ \A x \in Peers : up[x] \in Seq(UpSet(x))

DownQueues ==
  /\ down = [x \in Peers |-> down[x]]
  /\ \A x \in Peers : down[x] \in Seq(DownSet(x))

Queues == UpQueues /\ DownQueues

Exchange ==
  /\ \A k \in Controllers :
       /\ AnswerFirst(k)
       /\ cpc[k] = "connected" => Answered(k)
  /\ hpc = "stream" => Answered(serving) /\ AnswerUnderWay(serving)
  /\ \A x \in Peers \ open : Gone(x)

Inv == Steps /\ Queues /\ Exchange

LEMMA InvInit == Init => Inv
<1> SUFFICES ASSUME Init PROVE Inv
  OBVIOUS
<1>1. Steps
  BY IceAssumption DEF Init, Steps, HostSteps, CtlSteps
<1>2. Queues
  BY EmptyKeeps DEF Init, Queues, UpQueues, DownQueues
<1>3. Exchange
  BY EmptyKeeps, PeersAssumption DEF Init, Exchange, AnswerFirst, Peers
<1>4. QED BY <1>1, <1>2, <1>3 DEF Inv

\* The invariant has the types and the two properties.
LEMMA InvImplies == Inv => TypeOK /\ CandidatesAfterDescription /\ ConnectedIsServed
<1> SUFFICES ASSUME Inv PROVE TypeOK /\ CandidatesAfterDescription /\ ConnectedIsServed
  OBVIOUS
<1>1. /\ up \in [Peers -> Seq(Messages(ClientTypes))]
      /\ down \in [Peers -> Seq(Messages(ServerTypes))]
  <2>1. \A x \in Peers : /\ UpSet(x) \subseteq Messages(ClientTypes)
                         /\ DownSet(x) \subseteq Messages(ServerTypes)
    BY DEF UpSet, DownSet
  <2>2. \A x \in Peers : /\ up[x] \in Seq(Messages(ClientTypes))
                         /\ down[x] \in Seq(Messages(ServerTypes))
    BY <2>1, SeqMonotone DEF Inv, Queues, UpQueues, DownQueues
  <2>3. QED BY <2>2 DEF Inv, Queues, UpQueues, DownQueues
<1>2. TypeOK
  BY <1>1 DEF Inv, Steps, TypeOK
<1>3. CandidatesAfterDescription
  BY DEF Inv, Steps, CandidatesAfterDescription
<1>4. ConnectedIsServed
  BY DEF Inv, Exchange, Answered, ConnectedIsServed
<1>5. QED BY <1>2, <1>3, <1>4

-----------------------------------------------------------------------------
(* What a step does to the queues. *)

\* No step takes anyone back.
Grows ==
  \A k \in Controllers :
    /\ cpc[k] \in Offered => cpc'[k] \in Offered
    /\ cpc[k] \in Connected => cpc'[k] \in Connected
    /\ Answered(k) => Answered(k)'

LEMMA SetsGrow ==
  ASSUME Grows
  PROVE  \A x \in Peers : UpSet(x) \subseteq UpSet(x)' /\ DownSet(x) \subseteq DownSet(x)'
<1>1. \A k : Answered(k) => k \in Controllers
  BY DEF Answered
<1>2. ASSUME NEW x \in Peers, NEW m \in UpSet(x) PROVE m \in UpSet(x)'
  <2>1. CASE x = Host
    BY <1>1, <1>2, <2>1 DEF Grows, UpSet
  <2>2. CASE x # Host
    BY <1>1, <1>2, <2>2 DEF Grows, UpSet, Peers
  <2>3. QED BY <2>1, <2>2
<1>3. ASSUME NEW x \in Peers, NEW m \in DownSet(x) PROVE m \in DownSet(x)'
  <2>1. CASE x = Host
    BY <1>1, <1>3, <2>1 DEF Grows, DownSet
  <2>2. CASE x # Host
    BY <1>1, <1>3, <2>2 DEF Grows, DownSet, Peers
  <2>3. QED BY <2>1, <2>2
<1>4. QED BY <1>2, <1>3

LEMMA UpSame ==
  ASSUME UpQueues, Grows, UNCHANGED up
  PROVE  UpQueues'
BY SetsGrow, SeqMonotone DEF UpQueues

LEMMA UpSend ==
  ASSUME UpQueues, Grows, NEW x \in Peers, NEW m \in UpSet(x)', Send(x, m)
  PROVE  UpQueues'
<1>1. \A y \in Peers : up[y] \in Seq(UpSet(y)')
  BY SetsGrow, SeqMonotone DEF UpQueues
<1>2. Append(up[x], m) \in Seq(UpSet(x)')
  BY <1>1, AppendProperties
<1>3. QED BY <1>1, <1>2 DEF UpQueues, Send

LEMMA UpTail ==
  ASSUME UpQueues, Grows, NEW x \in Peers, up[x] # << >>,
         up' = [up EXCEPT ![x] = Tail(@)]
  PROVE  UpQueues' /\ Head(up[x]) \in UpSet(x)
<1>1. \A y \in Peers : up[y] \in Seq(UpSet(y)')
  BY SetsGrow, SeqMonotone DEF UpQueues
<1>2. Tail(up[x]) \in Seq(UpSet(x)')
  BY <1>1, HeadTailProperties
<1>3. Head(up[x]) \in UpSet(x)
  BY HeadTailProperties DEF UpQueues
<1>4. QED BY <1>1, <1>2, <1>3 DEF UpQueues

LEMMA UpEmpty ==
  ASSUME UpQueues, Grows, NEW x \in Peers, up' = [up EXCEPT ![x] = << >>]
  PROVE  UpQueues'
<1>1. \A y \in Peers : up[y] \in Seq(UpSet(y)')
  BY SetsGrow, SeqMonotone DEF UpQueues
<1>2. << >> \in Seq(UpSet(x)')
  BY EmptyKeeps
<1>3. QED BY <1>1, <1>2 DEF UpQueues

LEMMA DownSame ==
  ASSUME DownQueues, Grows, UNCHANGED down
  PROVE  DownQueues'
BY SetsGrow, SeqMonotone DEF DownQueues

LEMMA DownTake ==
  ASSUME DownQueues, Grows, NEW x \in Peers, Receives(x), Take(x)
  PROVE  DownQueues'
<1>1. \A y \in Peers : down[y] \in Seq(DownSet(y)')
  BY SetsGrow, SeqMonotone DEF DownQueues
<1>2. Tail(down[x]) \in Seq(DownSet(x)')
  BY <1>1, HeadTailProperties DEF Receives
<1>3. QED BY <1>1, <1>2 DEF DownQueues, Take

LEMMA TakesOne ==
  ASSUME DownQueues, NEW x \in Peers, Receives(x)
  PROVE  Next1(x) \in DownSet(x)
BY HeadTailProperties DEF DownQueues, Receives, Next1

LEMMA DownGrows ==
  ASSUME DownQueues, Grows, down' = [x \in Peers |-> down'[x]],
         \A x \in Peers : \/ down'[x] = down[x]
                          \/ \E m \in DownSet(x)' : down'[x] = Append(down[x], m)
  PROVE  DownQueues'
<1>1. \A x \in Peers : down[x] \in Seq(DownSet(x)')
  BY SetsGrow, SeqMonotone DEF DownQueues
<1>2. ASSUME NEW x \in Peers PROVE down'[x] \in Seq(DownSet(x)')
  <2>1. CASE down'[x] = down[x]
    BY <1>1, <2>1
  <2>2. ASSUME NEW m \in DownSet(x)', down'[x] = Append(down[x], m)
        PROVE  down'[x] \in Seq(DownSet(x)')
    BY <1>1, <2>2, AppendProperties
  <2>3. QED BY <2>1, <2>2
<1>3. QED BY <1>2 DEF DownQueues

\* What the steps of Exchange come down to.
LEMMA ExchangeKept ==
  ASSUME Inv, Grows,
         \A k \in Controllers : AnswerFirst(k)',
         \A k \in Controllers :
           cpc'[k] = "connected" => cpc[k] = "connected" \/ Answered(k),
         hpc' = "stream" => /\ hpc = "stream" /\ serving' = serving
                            /\ AnswerUnderWay(serving)',
         \A x \in Peers \ open' : x \notin open \/ Gone(x),
         \A x \in Peers : Gone(x) => Gone(x)'
  PROVE  Exchange'
<1>1. \A k \in Controllers : cpc'[k] = "connected" => Answered(k)'
  BY DEF Inv, Exchange, Grows
<1>2. hpc' = "stream" => Answered(serving)' /\ AnswerUnderWay(serving)'
  BY DEF Inv, Exchange, Grows, Answered
<1>3. \A x \in Peers \ open' : Gone(x)'
  BY DEF Inv, Exchange
<1>4. QED BY <1>1, <1>2, <1>3 DEF Exchange

\* Nothing happens on the way of the answer to k.
LEMMA OrderSame ==
  ASSUME NEW k \in Controllers, AnswerFirst(k), Grows,
         down'[k] = down[k], up'[Host] = up[Host]
  PROVE  AnswerFirst(k)' /\ (AnswerUnderWay(k) => AnswerUnderWay(k)')
BY DEF AnswerFirst, AnswerUnderWay, Answer, Ice, Grows

\* Controller k reads a message.
LEMMA OrderTake ==
  ASSUME Inv, NEW k \in Controllers, Grows, Receives(k),
         down'[k] = Tail(down[k]), up'[Host] = up[Host],
         Next1(k) # Answer(k) \/ cpc'[k] \in Connected
  PROVE  AnswerFirst(k)' /\ (AnswerUnderWay(k) => AnswerUnderWay(k)')
<1>1. CASE cpc'[k] \in Connected
  BY <1>1 DEF AnswerFirst, AnswerUnderWay
<1>2. CASE Next1(k) # Answer(k) /\ cpc'[k] \notin Connected
  <2>1. down[k] \in Seq(DownSet(k)) /\ down[k] # << >>
    BY DEF Inv, Queues, DownQueues, Peers, Receives
  <2>2. /\ Queued(down[k], Answer(k)) => Queued(down'[k], Answer(k))
        /\ Before(Answer(k), Ice(k), down[k]) => Before(Answer(k), Ice(k), down'[k])
    BY <1>2, <2>1, TailKeeps DEF Next1
  <2>3. cpc[k] \notin Connected /\ AnswerFirst(k)
    BY <1>2 DEF Grows, Inv, Exchange
  <2>4. Answer(k)' = Answer(k) /\ Ice(k)' = Ice(k)
    BY DEF Answer, Ice, Msg
  <2>5. QED BY <2>2, <2>3, <2>4 DEF AnswerFirst, AnswerUnderWay
<1>3. QED BY <1>1, <1>2

\* The host sends a message.
LEMMA OrderSend ==
  ASSUME Inv, NEW k \in Controllers, Grows, NEW m \in UpSet(Host)',
         down'[k] = down[k], up'[Host] = Append(up[Host], m),
         m # Ice(k) \/ AnswerUnderWay(k)
  PROVE  /\ AnswerFirst(k)' /\ (AnswerUnderWay(k) => AnswerUnderWay(k)')
         /\ m = Answer(k) => AnswerUnderWay(k)'
<1>1. up[Host] \in Seq(UpSet(Host)')
  BY SetsGrow, SeqMonotone DEF Inv, Queues, UpQueues, Peers
<1>2. /\ Queued(up[Host], Answer(k)) => Queued(up'[Host], Answer(k))
      /\ Queued(up'[Host], m)
      /\ (/\ Before(Answer(k), Ice(k), up[Host])
          /\ m # Ice(k) \/ Queued(up[Host], Answer(k)))
         => Before(Answer(k), Ice(k), up'[Host])
  BY <1>1, AppendKeeps
<1>3. AnswerFirst(k)
  BY DEF Inv, Exchange
<1>4. Answer(k)' = Answer(k) /\ Ice(k)' = Ice(k)
  BY DEF Answer, Ice, Msg
<1>5. AnswerFirst(k)'
  BY <1>2, <1>3, <1>4 DEF AnswerFirst, AnswerUnderWay, Grows
<1>6. (AnswerUnderWay(k) => AnswerUnderWay(k)') /\ (m = Answer(k) => AnswerUnderWay(k)')
  BY <1>2, <1>4 DEF AnswerUnderWay, Grows
<1>7. QED BY <1>5, <1>6

-----------------------------------------------------------------------------
(* The actions. *)

LEMMA NextCases ==
  ASSUME Next
  PROVE  \/ \E k \in Controllers :
              \/ CtlRequestTurn(k) \/ CtlRequestConnection(k)
              \/ CtlEstablished(k) \/ CtlOffer(k) \/ CtlAwaitAnswer(k)
              \/ CtlSendIce(k) \/ CtlConnected(k) \/ CtlLeaves(k)
         \/ HostIncoming \/ HostTurn \/ HostAwaitOffer \/ HostSendIce
         \/ HostStream \/ HostLeaves
         \/ \E x \in Peers : ServerHandle(x) \/ ServerDrop(x)
         \/ UNCHANGED vars
BY Zenon DEF Next, CtlStep, HostStep, AllGone

\* Controller k moves on; its queues apart nothing is touched.
LEMMA CtlMoves ==
  ASSUME Inv, NEW k \in Controllers, NEW st \in CtlSteps \ {"bad_candidate"},
         cpc' = [cpc EXCEPT ![k] = st], UNCHANGED <<hpc, serving, open>>,
         ice' \in [Peers -> 0 .. MaxIce],
         cpc[k] \in Offered => st \in Offered,
         cpc[k] \in Connected => st \in Connected,
         cpc[k] = "gone" => st = "gone",
         st = "connected" => cpc[k] = "connected" \/ Answered(k),
         \A y \in Peers \ {k} : up'[y] = up[y] /\ down'[y] = down[y]
  PROVE  /\ Grows /\ Steps'
         /\ (/\ AnswerFirst(k)'
             /\ AnswerUnderWay(k) => AnswerUnderWay(k)') => Exchange'
<1>1. /\ cpc \in [Controllers -> CtlSteps \ {"bad_candidate"}]
      /\ k # Host /\ k \in Peers
  BY PeersAssumption DEF Inv, Steps, Peers
<1>2. cpc'[k] = st /\ \A j \in Controllers \ {k} : cpc'[j] = cpc[j]
  BY <1>1
<1>3. Grows
  BY <1>2 DEF Grows, Answered
<1>4. Steps'
  BY <1>1 DEF Inv, Steps
<1>5. ASSUME AnswerFirst(k)', AnswerUnderWay(k) => AnswerUnderWay(k)'
      PROVE  Exchange'
  <2>1. \A j \in Controllers \ {k} :
          /\ AnswerFirst(j)' /\ (AnswerUnderWay(j) => AnswerUnderWay(j)')
    BY <1>1, <1>3, OrderSame DEF Peers, Inv, Exchange
  <2>2. hpc = "stream" => serving \in Controllers /\ AnswerUnderWay(serving)
    BY DEF Inv, Exchange, Answered
  <2>3. hpc' = "stream" => AnswerUnderWay(serving)'
    <3>1. AnswerUnderWay(serving)' <=> \/ cpc'[serving] \in Connected
                                       \/ Queued(up'[Host], Answer(serving))
                                       \/ Queued(down'[serving], Answer(serving))
      BY DEF AnswerUnderWay, Answer, Msg
    <3>2. \A j \in Controllers : AnswerUnderWay(j)' <=>
                                       \/ cpc'[j] \in Connected
                                       \/ Queued(up'[Host], Answer(j))
                                       \/ Queued(down'[j], Answer(j))
      BY DEF AnswerUnderWay, Answer, Msg
    <3>3. QED BY <1>5, <2>1, <2>2, <3>1, <3>2
  <2>4. \A x \in Peers : Gone(x) => Gone(x)'
    BY <1>2 DEF Gone, Peers
  <2>5. \A x \in Peers \ open' : x \notin open
    OBVIOUS
  <2>6. \A j \in Controllers :
          cpc'[j] = "connected" => cpc[j] = "connected" \/ Answered(j)
    BY <1>2
  <2>7. QED BY <1>3, <1>5, <2>1, <2>3, <2>4, <2>5, <2>6, ExchangeKept
<1>6. QED BY <1>3, <1>4, <1>5

\* A message of k, sent when it has moved on.
LEMMA CtlSends ==
  ASSUME Inv, NEW k \in Controllers, NEW st \in CtlSteps \ {"bad_candidate"},
         cpc' = [cpc EXCEPT ![k] = st], UNCHANGED <<hpc, serving, open, down>>,
         ice' \in [Peers -> 0 .. MaxIce],
         cpc[k] \in Offered => st \in Offered,
         cpc[k] \in Connected => st \in Connected,
         cpc[k] = "gone" => st = "gone",
         st = "connected" => cpc[k] = "connected",
         NEW m \in UpSet(k)', Send(k, m)
  PROVE  Inv'
<1>1. k # Host /\ k \in Peers /\ Host \in Peers
  BY PeersAssumption DEF Peers
<1>2. \A y \in Peers \ {k} : up'[y] = up[y] /\ down'[y] = down[y]
  BY DEF Send, Inv, Queues, UpQueues
<1>3. /\ Grows /\ Steps'
      /\ (/\ AnswerFirst(k)'
          /\ AnswerUnderWay(k) => AnswerUnderWay(k)') => Exchange'
  BY <1>2, CtlMoves
<1>4. AnswerFirst(k)' /\ (AnswerUnderWay(k) => AnswerUnderWay(k)')
  BY <1>1, <1>2, <1>3, OrderSame DEF Inv, Exchange
<1>5. UpQueues' /\ DownQueues'
  BY <1>1, <1>3, UpSend, DownSame DEF Inv, Queues
<1>6. QED BY <1>3, <1>4, <1>5 DEF Inv, Queues

\* Controller k reads a message, and may send one.
LEMMA CtlTakes ==
  ASSUME Inv, NEW k \in Controllers, NEW st \in CtlSteps \ {"bad_candidate"},
         cpc' = [cpc EXCEPT ![k] = st], UNCHANGED <<hpc, serving, open, ice>>,
         cpc[k] \in Offered => st \in Offered,
         cpc[k] \in Connected => st \in Connected,
         cpc[k] = "gone" => st = "gone",
         st = "connected" => cpc[k] = "connected" \/ Answered(k),
         Receives(k), Take(k),
         Next1(k) # Answer(k) \/ st \in Connected,
         UNCHANGED up \/ \E m \in UpSet(k)' : Send(k, m)
  PROVE  Inv'
<1>1. k # Host /\ k \in Peers /\ Host \in Peers
  BY PeersAssumption DEF Peers
<1>2. /\ \A y \in Peers \ {k} : up'[y] = up[y] /\ down'[y] = down[y]
      /\ down'[k] = Tail(down[k])
  BY <1>1 DEF Send, Take, Inv, Queues, UpQueues, DownQueues
<1>3. /\ Grows /\ Steps'
      /\ (/\ AnswerFirst(k)'
          /\ AnswerUnderWay(k) => AnswerUnderWay(k)') => Exchange'
  <2>1. ice' \in [Peers -> 0 .. MaxIce]
    BY DEF Inv, Steps
  <2>2. QED BY <1>2, <2>1, CtlMoves
<1>4. AnswerFirst(k)' /\ (AnswerUnderWay(k) => AnswerUnderWay(k)')
  <2>1. cpc'[k] = st /\ up'[Host] = up[Host]
    BY <1>1, <1>2 DEF Inv, Steps
  <2>2. QED BY <1>2, <1>3, <2>1, OrderTake
<1>5. UpQueues'
  BY <1>1, <1>3, UpSend, UpSame DEF Inv, Queues
<1>6. DownQueues'
  BY <1>1, <1>3, DownTake DEF Inv, Queues
<1>7. QED BY <1>3, <1>4, <1>5, <1>6 DEF Inv, Queues

\* What a controller reads before its answer is not the answer unless it has
\* sent its offer, and never a candidate.
LEMMA CtlReads ==
  ASSUME Inv, NEW k \in Controllers, Receives(k)
  PROVE  /\ Next1(k) = Answer(k) => Answered(k) /\ cpc[k] \in Offered
         /\ Next1(k) = Ice(k) => cpc[k] \in Connected
<1>1. Next1(k) \in DownSet(k) /\ k # Host /\ k \in Peers
  BY TakesOne, PeersAssumption DEF Inv, Queues, Peers
<1>2. Next1(k) = Answer(k) => Answered(k) /\ cpc[k] \in Offered
  BY <1>1 DEF DownSet, Answer, Msg, Answered
<1>3. ASSUME cpc[k] \notin Connected PROVE Next1(k) # Ice(k)
  <2>1. Before(Answer(k), Ice(k), down[k])
    BY <1>3 DEF Inv, Exchange, AnswerFirst
  <2>2. down[k] \in Seq(DownSet(k)) /\ down[k] # << >>
    BY <1>1 DEF Inv, Queues, DownQueues, Receives
  <2>3. QED BY <2>1, <2>2, TailKeeps DEF Next1
<1>4. QED BY <1>2, <1>3

\* Messages a controller may send.
LEMMA CtlMessages ==
  ASSUME NEW k \in Controllers
  PROVE  /\ Msg("RequestTurnCredentials", None) \in UpSet(k)'
         /\ Msg("RequestConnection", None) \in UpSet(k)'
         /\ cpc'[k] \in Offered => Msg("SdpOffer", k) \in UpSet(k)'
         /\ cpc'[k] \in Connected /\ Answered(k)' => Msg("IceCandidate", k) \in UpSet(k)'
<1>1. k # Host
  BY PeersAssumption
<1>2. QED BY <1>1 DEF UpSet, Msg, Messages, ClientTypes, RelayTypes

LEMMA CtlActions ==
  ASSUME Inv, NEW k \in Controllers,
         \/ CtlRequestTurn(k) \/ CtlRequestConnection(k) \/ CtlEstablished(k)
         \/ CtlOffer(k) \/ CtlAwaitAnswer(k) \/ CtlSendIce(k)
         \/ CtlConnected(k) \/ CtlLeaves(k)
  PROVE  Inv'
<1>a. /\ cpc \in [Controllers -> CtlSteps \ {"bad_candidate"}]
      /\ ice \in [Peers -> 0 .. MaxIce]
  BY DEF Inv, Steps
<1> USE DEF CtlSteps, Offered, Connected
<1>1. CASE CtlRequestTurn(k)
  BY <1>1, <1>a, CtlSends, CtlMessages DEF CtlRequestTurn
<1>2. CASE CtlRequestConnection(k)
  <2>1. Next1(k) # Answer(k)
    BY <1>2, CtlReads DEF CtlRequestConnection
  <2>2. QED BY <1>2, <1>a, <2>1, CtlTakes, CtlMessages DEF CtlRequestConnection
<1>3. CASE CtlEstablished(k)
  <2>1. Next1(k) # Answer(k)
    BY <1>3, CtlReads DEF CtlEstablished
  <2> DEFINE st == IF Next1(k).type = "ConnectionEstablished"
                   THEN "make_offer" ELSE "gone"
  <2>2. cpc' = [cpc EXCEPT ![k] = st] /\ st \in {"make_offer", "gone"}
    BY <1>3 DEF CtlEstablished
  <2> HIDE DEF st
  <2>3. QED BY <1>3, <1>a, <2>1, <2>2, CtlTakes DEF CtlEstablished
<1>4. CASE CtlOffer(k)
  <2>1. cpc'[k] = "wait_answer"
    BY <1>4, <1>a DEF CtlOffer
  <2>2. QED BY <1>4, <1>a, <2>1, CtlSends, CtlMessages DEF CtlOffer
<1>5. CASE CtlAwaitAnswer(k)
  <2>1. cpc[k] = "wait_answer" /\ Receives(k) /\ Take(k) /\ Next1(k) # Ice(k)
    BY <1>5, CtlReads DEF CtlAwaitAnswer
  <2>2. CASE Next1(k) = Answer(k)
    <3>1. Answered(k)
      BY <2>1, <2>2, CtlReads
    <3>2. cpc' = [cpc EXCEPT ![k] = "connected"]
      <4>1. Next1(k) # Msg("IceCandidate", k)
        BY <2>1 DEF Ice
      <4>2. QED BY <1>5, <2>2, <4>1 DEF CtlAwaitAnswer, Answer
    <3>3. QED BY <1>5, <1>a, <2>1, <3>1, <3>2, CtlTakes DEF CtlAwaitAnswer
  <2>3. CASE Next1(k) # Answer(k)
    <3>1. cpc' = [cpc EXCEPT ![k] = "wait_answer"]
      BY <1>5, <2>1, <2>3 DEF CtlAwaitAnswer, Answer, Ice
    <3>2. QED BY <1>5, <1>a, <2>1, <2>3, <3>1, CtlTakes DEF CtlAwaitAnswer
  <2>4. QED BY <2>2, <2>3
<1>6. CASE CtlSendIce(k)
  <2>1. ice' \in [Peers -> 0 .. MaxIce]
    <3>1. k \in Peers /\ ice[k] + 1 \in 0 .. MaxIce
      BY <1>6, <1>a, IceAssumption DEF CtlSendIce, Peers
    <3>2. QED BY <1>6, <1>a, <3>1 DEF CtlSendIce
  <2>2. cpc[k] = "connected" /\ cpc' = cpc /\ cpc = [cpc EXCEPT ![k] = "connected"]
    BY <1>6, <1>a DEF CtlSendIce
  <2>3. Answered(k)'
    BY <1>6, <2>2 DEF Inv, Exchange, Answered, CtlSendIce
  <2>4. QED BY <1>6, <2>1, <2>2, <2>3, CtlSends, CtlMessages DEF CtlSendIce
<1>7. CASE CtlConnected(k)
  <2>1. cpc[k] = "connected" /\ cpc' = cpc /\ cpc = [cpc EXCEPT ![k] = "connected"]
    BY <1>7, <1>a DEF CtlConnected
  <2>2. QED BY <1>7, <2>1, CtlTakes DEF CtlConnected
<1>8. CASE CtlLeaves(k)
  <2>1. /\ cpc' = [cpc EXCEPT ![k] = "gone"]
        /\ UNCHANGED <<hpc, serving, open, ice, up, down>>
    BY <1>8 DEF CtlLeaves
  <2>2. /\ Grows /\ Steps'
        /\ (/\ AnswerFirst(k)'
            /\ AnswerUnderWay(k) => AnswerUnderWay(k)') => Exchange'
    BY <1>a, <2>1, CtlMoves
  <2>3. AnswerFirst(k)' /\ (AnswerUnderWay(k) => AnswerUnderWay(k)')
    BY <2>1, <2>2, OrderSame DEF Inv, Exchange
  <2>4. QED BY <2>1, <2>2, <2>3, UpSame, DownSame DEF Inv, Queues
<1>9. QED
  BY <1>1, <1>2, <1>3, <1>4, <1>5, <1>6, <1>7, <1>8

\* The host moves on; what it has answered stays answered.
LEMMA HostMoves ==
  ASSUME Inv, hpc' \in HostSteps \ {"bad_candidate"},
         serving' \in Controllers \cup {None}, UNCHANGED <<cpc, open>>,
         ice' \in [Peers -> 0 .. MaxIce],
         hpc \in {"stream", "gone"} =>
           hpc' \in {hpc, "gone"} /\ serving' = serving
  PROVE  Grows /\ Steps' /\ \A x \in Peers : Gone(x) => Gone(x)'
<1>1. Grows
  BY DEF Grows, Answered
<1>2. Steps'
  BY DEF Inv, Steps
<1>3. \A x \in Peers : Gone(x) => Gone(x)'
  BY DEF Gone
<1>4. QED BY <1>1, <1>2, <1>3

LEMMA HostExchange ==
  ASSUME Inv, Grows, UNCHANGED <<cpc, open>>,
         \A x \in Peers : Gone(x) => Gone(x)',
         \A k \in Controllers : AnswerFirst(k)',
         hpc' = "stream" => Answered(serving)' /\ AnswerUnderWay(serving)'
  PROVE  Exchange'
<1>1. \A k \in Controllers : cpc'[k] = "connected" => Answered(k)'
  BY DEF Inv, Exchange, Grows
<1>2. \A x \in Peers \ open' : Gone(x)'
  BY DEF Inv, Exchange
<1>3. QED BY <1>1, <1>2 DEF Exchange

\* The primes of AnswerUnderWay(serving), where serving does not change.
LEMMA SameServed ==
  ASSUME Inv, Grows, hpc = "stream", UNCHANGED serving,
         \A k \in Controllers : AnswerUnderWay(k) => AnswerUnderWay(k)'
  PROVE  Answered(serving)' /\ AnswerUnderWay(serving)'
<1>1. serving \in Controllers /\ Answered(serving) /\ AnswerUnderWay(serving)
  BY DEF Inv, Exchange, Answered
<1>2. AnswerUnderWay(serving)' <=> \/ cpc'[serving] \in Connected
                                   \/ Queued(up'[Host], Answer(serving))
                                   \/ Queued(down'[serving], Answer(serving))
  BY DEF AnswerUnderWay, Answer, Msg
<1>3. \A j \in Controllers : AnswerUnderWay(j)' <=>
                                   \/ cpc'[j] \in Connected
                                   \/ Queued(up'[Host], Answer(j))
                                   \/ Queued(down'[j], Answer(j))
  BY DEF AnswerUnderWay, Answer, Msg
<1>4. Answered(serving)' <=> /\ serving \in Controllers
                             /\ hpc' \in {"stream", "gone"}
                             /\ cpc'[serving] \in Offered
  BY DEF Answered
<1>5. \A j \in Controllers : Answered(j)' <=> /\ serving = j
                                               /\ hpc' \in {"stream", "gone"}
                                               /\ cpc'[j] \in Offered
  BY DEF Answered
<1>6. AnswerUnderWay(serving)'
  BY <1>1, <1>2, <1>3
<1>7. Answered(serving)'
  BY <1>1, <1>4, <1>5 DEF Grows
<1>8. QED BY <1>6, <1>7

\* Reading a message, or leaving: nothing happens on the way of an answer.
LEMMA HostReads ==
  ASSUME Inv, hpc' \in HostSteps \ {"bad_candidate"}, UNCHANGED <<cpc, open, up, ice>>,
         serving' \in Controllers \cup {None},
         hpc \in {"stream", "gone"} => hpc' \in {hpc, "gone"} /\ serving' = serving,
         hpc' = "stream" => hpc = "stream",
         UNCHANGED down \/ (Receives(Host) /\ Take(Host))
  PROVE  Inv'
<1>1. Host \in Peers /\ Host \notin Controllers /\ Controllers \subseteq Peers
  BY PeersAssumption DEF Peers
<1>2. \A k \in Controllers : down'[k] = down[k]
  BY <1>1 DEF Take, Inv, Queues, DownQueues
<1>3. Grows /\ Steps' /\ \A x \in Peers : Gone(x) => Gone(x)'
  <2>1. ice' \in [Peers -> 0 .. MaxIce]
    BY DEF Inv, Steps
  <2>2. QED BY <2>1, HostMoves
<1>4. \A k \in Controllers :
        AnswerFirst(k)' /\ (AnswerUnderWay(k) => AnswerUnderWay(k)')
  BY <1>2, <1>3, OrderSame DEF Inv, Exchange
<1>5. hpc' = "stream" => Answered(serving)' /\ AnswerUnderWay(serving)'
  BY <1>3, <1>4, SameServed
<1>6. Exchange'
  BY <1>3, <1>4, <1>5, HostExchange
<1>7. UpQueues' /\ DownQueues'
  BY <1>1, <1>3, UpSame, DownSame, DownTake DEF Inv, Queues
<1>8. QED BY <1>3, <1>6, <1>7 DEF Inv, Queues

\* Sending a message, after reading one or not.
LEMMA HostSends ==
  ASSUME Inv, hpc' \in HostSteps \ {"bad_candidate"}, UNCHANGED <<cpc, open>>,
         serving' \in Controllers \cup {None}, ice' \in [Peers -> 0 .. MaxIce],
         hpc \in {"stream", "gone"} => hpc' \in {hpc, "gone"} /\ serving' = serving,
         UNCHANGED down \/ (Receives(Host) /\ Take(Host)),
         NEW m \in UpSet(Host)', Send(Host, m),
         \A k \in Controllers : m # Ice(k) \/ AnswerUnderWay(k),
         hpc' = "stream" =>
           \/ hpc = "stream"
           \/ /\ serving \in Controllers /\ UNCHANGED serving
              /\ cpc[serving] \in Offered /\ m = Answer(serving)
  PROVE  Inv'
<1>1. Host \in Peers /\ Host \notin Controllers /\ Controllers \subseteq Peers
  BY PeersAssumption DEF Peers
<1>2. /\ \A k \in Controllers : down'[k] = down[k]
      /\ up'[Host] = Append(up[Host], m)
  BY <1>1 DEF Take, Send, Inv, Queues, UpQueues, DownQueues
<1>3. Grows /\ Steps' /\ \A x \in Peers : Gone(x) => Gone(x)'
  BY HostMoves
<1>4. \A k \in Controllers :
        /\ AnswerFirst(k)' /\ (AnswerUnderWay(k) => AnswerUnderWay(k)')
        /\ m = Answer(k) => AnswerUnderWay(k)'
  BY <1>2, <1>3, OrderSend
<1>5. ASSUME hpc' = "stream" PROVE Answered(serving)' /\ AnswerUnderWay(serving)'
  <2>1. CASE hpc = "stream"
    BY <1>3, <1>4, <2>1, SameServed
  <2>2. CASE hpc # "stream"
    <3>1. /\ serving \in Controllers /\ serving' = serving
          /\ cpc[serving] \in Offered /\ m = Answer(serving)
      BY <1>5, <2>2
    <3>2. Answered(serving)'
      BY <1>5, <3>1 DEF Answered
    <3>3. \A j \in Controllers : AnswerUnderWay(j)' <=>
                                       \/ cpc'[j] \in Connected
                                       \/ Queued(up'[Host], Answer(j))
                                       \/ Queued(down'[j], Answer(j))
      BY DEF AnswerUnderWay, Answer, Msg
    <3>4. AnswerUnderWay(serving)' <=> \/ cpc'[serving] \in Connected
                                       \/ Queued(up'[Host], Answer(serving))
                                       \/ Queued(down'[serving], Answer(serving))
      BY <3>1 DEF AnswerUnderWay, Answer, Msg
    <3>5. QED BY <1>4, <3>1, <3>2, <3>3, <3>4
  <2>3. QED BY <2>1, <2>2
<1>6. Exchange'
  BY <1>3, <1>4, <1>5, HostExchange
<1>7. UpQueues' /\ DownQueues'
  BY <1>1, <1>3, UpSend, DownSame, DownTake DEF Inv, Queues
<1>8. QED BY <1>3, <1>6, <1>7 DEF Inv, Queues

LEMMA HostActions ==
  ASSUME Inv,
         \/ HostIncoming \/ HostTurn \/ HostAwaitOffer \/ HostSendIce
         \/ HostStream \/ HostLeaves
  PROVE  Inv'
<1>a. /\ hpc \in HostSteps \ {"bad_candidate"} /\ serving \in Controllers \cup {None}
      /\ ice \in [Peers -> 0 .. MaxIce] /\ Host \in Peers
  BY DEF Inv, Steps, Peers
<1>b. Receives(Host) => Next1(Host) \in DownSet(Host)
  BY <1>a, TakesOne DEF Inv, Queues
<1>c. /\ Msg("RequestTurnCredentials", None) \in UpSet(Host)'
      /\ \A k \in Controllers : Msg("RequestTurnCredentials", None) # Ice(k)
  BY DEF UpSet, Msg, Messages, ClientTypes, RelayTypes, Ice
<1>d. \A k \in Controllers :
        Answered(k)' => Answer(k) \in UpSet(Host)' /\ Ice(k) \in UpSet(Host)'
  BY DEF UpSet, Msg, Messages, ClientTypes, RelayTypes, Ice, Answer
<1>1. CASE HostIncoming
  <2>1. CASE Next1(Host).type = "IncomingConnection"
    <3>1. Next1(Host).sid \in Controllers
      BY <1>1, <1>b, <2>1 DEF DownSet, HostIncoming
    <3>2. hpc = "wait_incoming" /\ hpc' = "wait_turn"
      BY <1>1, <2>1 DEF HostIncoming
    <3>3. QED BY <1>1, <1>a, <1>c, <2>1, <3>1, <3>2, HostSends DEF HostIncoming, HostSteps
  <2>2. CASE Next1(Host).type # "IncomingConnection"
    BY <1>1, <1>a, <2>2, HostReads DEF HostIncoming, HostSteps
  <2>3. QED BY <2>1, <2>2
<1>2. CASE HostTurn
  BY <1>2, <1>a, HostReads DEF HostTurn, HostSteps
<1>3. CASE HostAwaitOffer
  <2>1. /\ hpc = "wait_offer" /\ Receives(Host) /\ Take(Host)
        /\ UNCHANGED <<serving, cpc, ice, open>>
        /\ Next1(Host) \in DownSet(Host)
    BY <1>3, <1>b DEF HostAwaitOffer
  <2>2. Next1(Host) # Msg("IceCandidate", serving)
    BY <2>1 DEF DownSet, Msg, Answered
  <2>3. CASE Next1(Host) = Msg("SdpOffer", serving)
    <3>1. serving \in Controllers /\ cpc[serving] \in Offered
      BY <2>1, <2>3 DEF DownSet, Msg
    <3>2. Send(Host, Answer(serving)) /\ hpc' = "stream"
      BY <1>3, <2>2, <2>3 DEF HostAwaitOffer, Answer
    <3>3. Answered(serving)' /\ \A k \in Controllers : Answer(serving) # Ice(k)
      BY <2>1, <3>1, <3>2 DEF Answered, Answer, Ice, Msg
    <3>4. Answer(serving) \in UpSet(Host)'
      BY <2>1, <3>1, <3>2, <1>d DEF Answered
    <3>5. QED BY <1>a, <2>1, <3>1, <3>2, <3>3, <3>4, HostSends DEF HostSteps
  <2>4. CASE Next1(Host) # Msg("SdpOffer", serving)
    <3>1. UNCHANGED <<hpc, up>>
      BY <1>3, <2>2, <2>4 DEF HostAwaitOffer
    <3>2. QED BY <1>a, <2>1, <3>1, HostReads
  <2>5. QED BY <2>3, <2>4
<1>4. CASE HostSendIce
  <2>1. ice' \in [Peers -> 0 .. MaxIce]
    <3>1. ice[Host] + 1 \in 0 .. MaxIce
      BY <1>4, <1>a, IceAssumption DEF HostSendIce
    <3>2. QED BY <1>4, <1>a, <3>1 DEF HostSendIce
  <2>2. /\ hpc = "stream" /\ UNCHANGED <<hpc, serving, cpc, down, open>>
        /\ Send(Host, Ice(serving))
    BY <1>4 DEF HostSendIce, Ice
  <2>3. Answered(serving) /\ AnswerUnderWay(serving) /\ serving \in Controllers
    BY <2>2 DEF Inv, Exchange, Answered
  <2>4. Ice(serving) \in UpSet(Host)'
    BY <2>2, <2>3, <1>d DEF Answered
  <2>5. \A k \in Controllers : Ice(serving) = Ice(k) => k = serving
    BY DEF Ice, Msg
  <2>6. \A k \in Controllers : Ice(serving) # Ice(k) \/ AnswerUnderWay(k)
    BY <2>3, <2>5
  <2>7. /\ hpc' \in HostSteps \ {"bad_candidate"}
        /\ serving' \in Controllers \cup {None}
    BY <1>a, <2>2
  <2>8. QED BY <2>1, <2>2, <2>4, <2>6, <2>7, HostSends
<1>5. CASE HostStream
  BY <1>5, <1>a, HostReads DEF HostStream
<1>6. CASE HostLeaves
  <2>1. hpc' = "gone" /\ UNCHANGED <<serving, cpc, ice, up, down, open>>
    BY <1>6 DEF HostLeaves
  <2>2. /\ hpc' \in HostSteps \ {"bad_candidate"} /\ hpc' # "stream"
        /\ serving' \in Controllers \cup {None}
    BY <1>a, <2>1 DEF HostSteps
  <2>3. QED BY <2>1, <2>2, HostReads
<1>7. QED BY <1>1, <1>2, <1>3, <1>4, <1>5, <1>6

\* The server moves nobody on; it only lets go of clients that have left.
LEMMA ServerMoves ==
  ASSUME Inv, UNCHANGED <<hpc, serving, cpc, ice>>, open' \subseteq open,
         \A x \in open \ open' : Gone(x)
  PROVE  /\ Grows /\ Steps'
         /\ (\A k \in Controllers :
               /\ AnswerFirst(k)'
               /\ hpc = "stream" /\ AnswerUnderWay(k) => AnswerUnderWay(k)')
            => Exchange'
<1>1. Grows
  BY DEF Grows, Answered
<1>2. Steps'
  BY DEF Inv, Steps
<1>3. ASSUME \A k \in Controllers :
               /\ AnswerFirst(k)'
               /\ hpc = "stream" /\ AnswerUnderWay(k) => AnswerUnderWay(k)'
      PROVE  Exchange'
  <2>1. hpc' = "stream" => Answered(serving)' /\ AnswerUnderWay(serving)'
    BY <1>1, <1>3, SameServed
  <2>2. \A x \in Peers : Gone(x) => Gone(x)'
    BY DEF Gone
  <2>3. \A x \in Peers \ open' : x \notin open \/ Gone(x)
    OBVIOUS
  <2>4. QED BY <1>1, <1>3, <2>1, <2>2, <2>3, ExchangeKept
<1>4. QED BY <1>1, <1>2, <1>3

LEMMA OrderAppend ==
  ASSUME Inv, NEW k \in Controllers, Grows, NEW m \in DownSet(k)',
         down'[k] = Append(down[k], m)
  PROVE  /\ Queued(down[k], Answer(k)) => Queued(down'[k], Answer(k))
         /\ Queued(down'[k], m)
         /\ (/\ Before(Answer(k), Ice(k), down[k])
             /\ m # Ice(k) \/ Queued(down[k], Answer(k)))
            => Before(Answer(k), Ice(k), down'[k])
<1>1. down[k] \in Seq(DownSet(k)')
  BY SetsGrow, SeqMonotone DEF Inv, Queues, DownQueues, Peers
<1>2. /\ Queued(down[k], Answer(k)) => Queued(Append(down[k], m), Answer(k))
      /\ Queued(Append(down[k], m), m)
      /\ Before(Answer(k), Ice(k), down[k]) /\ m # Ice(k) =>
           Before(Answer(k), Ice(k), Append(down[k], m))
      /\ Before(Answer(k), Ice(k), down[k]) /\ Queued(down[k], Answer(k)) =>
           Before(Answer(k), Ice(k), Append(down[k], m))
  BY <1>1, AppendKeeps, Zenon
<1>3. QED BY <1>2

\* The server answers controller k itself.
LEMMA OrderReply ==
  ASSUME Inv, NEW k \in Controllers, Grows, NEW m \in DownSet(k)',
         m # Ice(k), down'[k] = Append(down[k], m), up'[Host] = up[Host]
  PROVE  AnswerFirst(k)' /\ (AnswerUnderWay(k) => AnswerUnderWay(k)')
<1>1. /\ Queued(down[k], Answer(k)) => Queued(down'[k], Answer(k))
      /\ Before(Answer(k), Ice(k), down[k]) => Before(Answer(k), Ice(k), down'[k])
  BY OrderAppend
<1>2. AnswerFirst(k)
  BY DEF Inv, Exchange
<1>3. Answer(k)' = Answer(k) /\ Ice(k)' = Ice(k)
  BY DEF Answer, Ice, Msg
<1>4. QED BY <1>1, <1>2, <1>3 DEF AnswerFirst, AnswerUnderWay, Grows

\* The server handles a message of the host, which it may relay to k.
LEMMA OrderRelay ==
  ASSUME Inv, NEW k \in Controllers, Grows, up[Host] # << >>,
         up'[Host] = Tail(up[Host]),
         \/ /\ Head(up[Host]) \in DownSet(k)'
            /\ down'[k] = Append(down[k], Head(up[Host]))
         \/ down'[k] = down[k] /\ (Head(up[Host]) # Answer(k) \/ cpc[k] \in Connected)
  PROVE  AnswerFirst(k)' /\ (AnswerUnderWay(k) => AnswerUnderWay(k)')
<1> DEFINE m == Head(up[Host])
<1>1. up[Host] \in Seq(UpSet(Host))
  BY DEF Inv, Queues, UpQueues, Peers
<1>2. /\ Queued(up[Host], Answer(k)) /\ m # Answer(k) => Queued(up'[Host], Answer(k))
      /\ Before(Answer(k), Ice(k), up[Host]) /\ m # Answer(k)
           => Before(Answer(k), Ice(k), up'[Host])
      /\ Before(Answer(k), Ice(k), up[Host]) => m # Ice(k)
  BY <1>1, TailKeeps
<1>3. AnswerFirst(k)
  BY DEF Inv, Exchange
<1>4. Answer(k)' = Answer(k) /\ Ice(k)' = Ice(k)
  BY DEF Answer, Ice, Msg
<1>5. CASE cpc[k] \in Connected
  BY <1>5 DEF AnswerFirst, AnswerUnderWay, Grows
<1>6. CASE cpc[k] \notin Connected /\ down'[k] = down[k] /\ m # Answer(k)
  BY <1>2, <1>3, <1>4, <1>6 DEF AnswerFirst, AnswerUnderWay, Grows
<1>7. CASE cpc[k] \notin Connected /\ down'[k] = Append(down[k], m) /\ m \in DownSet(k)'
  <2>1. /\ Queued(down[k], Answer(k)) => Queued(down'[k], Answer(k))
        /\ Queued(down'[k], m)
        /\ (/\ Before(Answer(k), Ice(k), down[k])
            /\ m # Ice(k) \/ Queued(down[k], Answer(k)))
           => Before(Answer(k), Ice(k), down'[k])
    BY <1>7, OrderAppend
  <2>2. QED BY <1>2, <1>3, <1>4, <1>7, <2>1 DEF AnswerFirst, AnswerUnderWay
<1>8. QED BY <1>5, <1>6, <1>7

LEMMA ServerDropKeeps ==
  ASSUME Inv, NEW x \in Peers, ServerDrop(x)
  PROVE  Inv'
<1>1. /\ Gone(x) /\ open' \subseteq open /\ open \ open' \subseteq {x}
      /\ UNCHANGED <<hpc, serving, cpc, ice, down>>
      /\ up' = [up EXCEPT ![x] = << >>]
  BY DEF ServerDrop
<1>2. /\ Grows /\ Steps'
      /\ (\A k \in Controllers :
            /\ AnswerFirst(k)'
            /\ hpc = "stream" /\ AnswerUnderWay(k) => AnswerUnderWay(k)')
         => Exchange'
  BY <1>1, ServerMoves
<1>3. ASSUME NEW k \in Controllers
      PROVE  AnswerFirst(k)' /\ (hpc = "stream" /\ AnswerUnderWay(k) => AnswerUnderWay(k)')
  <2>1. CASE x # Host
    <3>1. up'[Host] = up[Host]
      BY <1>1, <2>1 DEF Inv, Queues, UpQueues, Peers
    <3>2. QED BY <1>1, <1>2, <3>1, OrderSame DEF Inv, Exchange
  <2>2. CASE x = Host
    <3>1. hpc = "gone" /\ up'[Host] = << >>
      BY <1>1, <2>2 DEF Gone, Inv, Queues, UpQueues
    <3>2. Before(Answer(k), Ice(k), up'[Host]) /\ AnswerFirst(k)
      BY <3>1, EmptyKeeps DEF Inv, Exchange
    <3>3. Answer(k)' = Answer(k) /\ Ice(k)' = Ice(k)
      BY DEF Answer, Ice, Msg
    <3>4. QED BY <1>1, <3>1, <3>2, <3>3 DEF AnswerFirst
  <2>3. QED BY <2>1, <2>2
<1>4. UpQueues' /\ DownQueues'
  BY <1>1, <1>2, UpEmpty, DownSame DEF Inv, Queues
<1>5. QED BY <1>2, <1>3, <1>4 DEF Inv, Queues

\* What the server says of its own accord.
LEMMA ServerMessages ==
  ASSUME NEW x \in Peers
  PROVE  /\ Msg("TurnCredentials", None) \in DownSet(x)'
         /\ Msg("Error", None) \in DownSet(x)'
         /\ x \in Controllers =>
              /\ Msg("IncomingConnection", x) \in DownSet(Host)'
              /\ Msg("ConnectionEstablished", x) \in DownSet(x)'
         /\ \A k \in Controllers :
              Ice(k) \notin {Msg("TurnCredentials", None), Msg("Error", None),
                             Msg("ConnectionEstablished", x)}
<1>1. /\ Msg("TurnCredentials", None) \in DownSet(x)'
      /\ Msg("Error", None) \in DownSet(x)'
  BY DEF DownSet, Msg, Messages, ServerTypes, RelayTypes
<1>2. x \in Controllers => /\ Msg("IncomingConnection", x) \in DownSet(Host)'
                           /\ Msg("ConnectionEstablished", x) \in DownSet(x)'
  BY PeersAssumption DEF DownSet, Msg, Messages, ServerTypes, RelayTypes
<1>3. \A k \in Controllers :
        Ice(k) \notin {Msg("TurnCredentials", None), Msg("Error", None),
                       Msg("ConnectionEstablished", x)}
  BY DEF Ice, Msg
<1>4. QED BY <1>1, <1>2, <1>3

\* A message of a controller: its queue apart, queues get at most one more.
LEMMA ServerHandleController ==
  ASSUME Inv, NEW x \in Controllers, ServerHandle(x)
  PROVE  Inv'
<1> DEFINE m == Head(up[x])
<1>1. /\ x \in Peers /\ x # Host /\ Host \in Peers /\ Controllers \subseteq Peers
      /\ up[x] # << >> /\ UNCHANGED <<hpc, serving, cpc, ice, open>>
      /\ up' = [up EXCEPT ![x] = Tail(@)]
  BY PeersAssumption DEF ServerHandle, Peers
<1>2. /\ Grows /\ Steps'
      /\ (\A k \in Controllers :
            /\ AnswerFirst(k)'
            /\ hpc = "stream" /\ AnswerUnderWay(k) => AnswerUnderWay(k)')
         => Exchange'
  BY <1>1, ServerMoves
<1>3. UpQueues' /\ m \in UpSet(x) /\ down' = Handle(x, m)
  BY <1>1, <1>2, UpTail DEF Inv, Queues, ServerHandle
<1>4. m \in DownSet(Host)' \/ m.type \in {"RequestTurnCredentials", "RequestConnection"}
  BY <1>1, <1>2, <1>3 DEF UpSet, DownSet, Messages, ClientTypes, ServerTypes, RelayTypes, Grows
<1>5. /\ down = [y \in Peers |-> down[y]]
      /\ down' = [y \in Peers |-> down'[y]]
      /\ \A y \in Peers \ {x, Host} : down'[y] = down[y]
      /\ down'[Host] = down[Host] \/ \E e \in DownSet(Host)' : down'[Host] = Append(down[Host], e)
      /\ \/ down'[x] = down[x]
         \/ \E e \in DownSet(x)' : e # Ice(x) /\ down'[x] = Append(down[x], e)
  <2>1. down = [y \in Peers |-> down[y]]
    BY DEF Inv, Queues, DownQueues
  <2> HIDE DEF m
  <2>2. CASE m.type = "RequestTurnCredentials"
    <3>1. down' = [down EXCEPT ![x] = Append(@, Msg("TurnCredentials", None))]
      BY <1>3, <2>2 DEF Handle, Deliver
    <3>2. QED BY <1>1, <2>1, <3>1, ServerMessages
  <2>3. CASE m.type = "RequestConnection"
    <3>1. CASE Host \in open
      <4>1. down' = [down EXCEPT ![Host] = Append(@, Msg("IncomingConnection", x)),
                                 ![x] = Append(@, Msg("ConnectionEstablished", x))]
        BY <1>3, <2>3, <3>1 DEF Handle
      <4>2. QED BY <1>1, <2>1, <4>1, ServerMessages
    <3>2. CASE Host \notin open
      <4>1. down' = [down EXCEPT ![x] = Append(@, Msg("Error", None))]
        BY <1>3, <2>3, <3>2 DEF Handle, Deliver
      <4>2. QED BY <1>1, <2>1, <4>1, ServerMessages
    <3>3. QED BY <3>1, <3>2
  <2>4. CASE m.type \notin {"RequestTurnCredentials", "RequestConnection"}
    <3>1. other(m.sid, x) = Host
      BY <1>1 DEF other
    <3>2. CASE Host \in open
      <4>1. down' = [down EXCEPT ![Host] = Append(@, m)]
        BY <1>3, <2>4, <3>1, <3>2 DEF Handle, Deliver
      <4>2. QED BY <1>1, <1>4, <2>1, <2>4, <4>1
    <3>3. CASE Host \notin open
      <4>1. down' = [down EXCEPT ![x] = Append(@, Msg("Error", None))]
        BY <1>3, <2>4, <3>1, <3>3 DEF Handle, Deliver
      <4>2. QED BY <1>1, <2>1, <4>1, ServerMessages
    <3>4. QED BY <3>2, <3>3
  <2>5. QED BY <2>2, <2>3, <2>4
<1>6. DownQueues'
  <2>1. \A y \in Peers : \/ down'[y] = down[y]
                         \/ \E e \in DownSet(y)' : down'[y] = Append(down[y], e)
    BY <1>5
  <2>2. QED BY <1>2, <1>5, <2>1, DownGrows DEF Inv, Queues
<1>7. up'[Host] = up[Host]
  BY <1>1 DEF Inv, Queues, UpQueues
<1>8. ASSUME NEW k \in Controllers
      PROVE  AnswerFirst(k)' /\ (AnswerUnderWay(k) => AnswerUnderWay(k)')
  <2>1. CASE down'[k] = down[k]
    BY <1>2, <1>7, <2>1, OrderSame DEF Inv, Exchange
  <2>2. CASE down'[k] # down[k]
    <3>1. k = x
      BY <1>1, <1>5, <2>2, PeersAssumption
    <3>2. PICK e \in DownSet(x)' : e # Ice(x) /\ down'[x] = Append(down[x], e)
      BY <1>5, <2>2, <3>1
    <3>3. QED BY <1>2, <1>7, <3>1, <3>2, OrderReply
  <2>3. QED BY <2>1, <2>2
<1>9. QED BY <1>2, <1>3, <1>6, <1>8 DEF Inv, Queues

\* A message of the host: a reply to it, or its answer or a candidate relayed
\* to the controller it serves.
LEMMA ServerHandleHost ==
  ASSUME Inv, ServerHandle(Host)
  PROVE  Inv'
<1> DEFINE m == Head(up[Host])
<1>1. /\ Host \in Peers /\ Host \notin Controllers /\ Controllers \subseteq Peers
      /\ up[Host] # << >> /\ UNCHANGED <<hpc, serving, cpc, ice, open>>
      /\ up' = [up EXCEPT ![Host] = Tail(@)]
  BY PeersAssumption DEF ServerHandle, Peers
<1>2. /\ Grows /\ Steps'
      /\ (\A k \in Controllers :
            /\ AnswerFirst(k)'
            /\ hpc = "stream" /\ AnswerUnderWay(k) => AnswerUnderWay(k)')
         => Exchange'
  BY <1>1, ServerMoves
<1>3. UpQueues' /\ m \in UpSet(Host) /\ down' = Handle(Host, m)
  BY <1>1, <1>2, UpTail DEF Inv, Queues, ServerHandle
<1>4. up'[Host] = Tail(up[Host]) /\ down = [y \in Peers |-> down[y]]
  BY <1>1 DEF Inv, Queues, UpQueues, DownQueues
<1> DEFINE Reply == \E e \in DownSet(Host)' : down' = [down EXCEPT ![Host] = Append(@, e)]
<1>5. ASSUME Reply, \A k \in Controllers : m = Answer(k) => cpc[k] \in Connected
      PROVE  Inv'
  <2>1. PICK e \in DownSet(Host)' : down' = [down EXCEPT ![Host] = Append(@, e)]
    BY <1>5
  <2>2. /\ down' = [y \in Peers |-> down'[y]]
        /\ \A y \in Peers \ {Host} : down'[y] = down[y]
        /\ down'[Host] = Append(down[Host], e)
    BY <1>1, <1>4, <2>1
  <2>3. DownQueues'
    <3>1. \A y \in Peers : \/ down'[y] = down[y]
                           \/ \E f \in DownSet(y)' : down'[y] = Append(down[y], f)
      BY <2>2
    <3>2. QED BY <1>2, <2>2, <3>1, DownGrows DEF Inv, Queues
  <2>4. \A k \in Controllers : AnswerFirst(k)' /\ (AnswerUnderWay(k) => AnswerUnderWay(k)')
    BY <1>1, <1>2, <1>4, <1>5, <2>2, OrderRelay
  <2>5. QED BY <1>2, <1>3, <2>3, <2>4 DEF Inv, Queues
<1>6. CASE m.type = "RequestTurnCredentials"
  <2>1. down' = [down EXCEPT ![Host] = Append(@, Msg("TurnCredentials", None))]
    BY <1>3, <1>6 DEF Handle, Deliver
  <2>2. \A k \in Controllers : m # Answer(k)
    BY <1>6 DEF Answer, Msg
  <2>3. Reply
    BY <1>1, <2>1, ServerMessages
  <2>4. QED BY <1>5, <2>2, <2>3
<1>7. CASE m.type # "RequestTurnCredentials"
  <2>1. m.type \in {"SdpAnswer", "IceCandidate"} /\ Answered(m.sid) /\ m.sid \in Controllers
    BY <1>3, <1>7 DEF UpSet, Answered
  <2>2. other(m.sid, Host) = m.sid
    BY DEF other
  <2>3. CASE m.sid \in open
    <3>1. PICK j \in Controllers : j = m.sid
      BY <2>1
    <3>2. down' = [down EXCEPT ![j] = Append(@, m)]
      BY <1>3, <1>7, <2>1, <2>2, <2>3, <3>1 DEF Handle, Deliver
    <3>3. m \in DownSet(j)'
      <4>1. Answered(j)'
        BY <1>2, <2>1, <3>1 DEF Grows
      <4>2. m \in Messages(ServerTypes) /\ j # Host
        BY <1>1, <1>3, <2>1 DEF UpSet, Messages, ClientTypes, ServerTypes, RelayTypes
      <4> HIDE DEF m
      <4>3. QED BY <2>1, <3>1, <4>1, <4>2 DEF DownSet
    <3>4. j \in Peers /\ \A k \in Controllers : m = Answer(k) => k = j
      BY <1>1, <3>1 DEF Answer, Msg
    <3> HIDE DEF m
    <3>5. /\ down' = [y \in Peers |-> down'[y]]
          /\ \A y \in Peers \ {j} : down'[y] = down[y]
          /\ down'[j] = Append(down[j], m)
      BY <1>4, <3>2, <3>4
    <3>6. DownQueues'
      <4>1. \A y \in Peers : \/ down'[y] = down[y]
                             \/ \E f \in DownSet(y)' : down'[y] = Append(down[y], f)
        BY <3>3, <3>5
      <4>2. QED BY <1>2, <3>5, <4>1, DownGrows DEF Inv, Queues
    <3>7. \A k \in Controllers :
            \/ m \in DownSet(k)' /\ down'[k] = Append(down[k], m)
            \/ down'[k] = down[k] /\ (m # Answer(k) \/ cpc[k] \in Connected)
      BY <1>1, <3>3, <3>4, <3>5
    <3>8. \A k \in Controllers : AnswerFirst(k)' /\ (AnswerUnderWay(k) => AnswerUnderWay(k)')
      BY <1>1, <1>2, <1>4, <3>7, OrderRelay DEF m
    <3>9. QED BY <1>2, <1>3, <3>6, <3>8 DEF Inv, Queues
  <2>4. CASE m.sid \notin open
    <3>1. down' = [down EXCEPT ![Host] = Append(@, Msg("Error", None))]
      BY <1>3, <1>7, <2>1, <2>2, <2>4 DEF Handle, Deliver
    <3>2. \A k \in Controllers : m = Answer(k) => k = m.sid
      BY DEF Answer, Msg
    <3>3. cpc[m.sid] = "gone"
      BY <1>1, <2>1, <2>4 DEF Inv, Exchange, Gone
    <3>4. Reply
      BY <1>1, <3>1, ServerMessages
    <3>5. QED BY <1>5, <3>2, <3>3, <3>4 DEF Connected
  <2>5. QED BY <2>3, <2>4
<1>8. QED BY <1>6, <1>7

LEMMA InvStep == Inv /\ [Next]_vars => Inv'
<1> SUFFICES ASSUME Inv, [Next]_vars PROVE Inv'
  OBVIOUS
<1>1. CASE UNCHANGED vars
  <2>1. Grows
    BY <1>1 DEF vars, Grows, Answered
  <2>2. UpQueues' /\ DownQueues'
    BY <1>1, <2>1, UpSame, DownSame DEF vars, Inv, Queues
  <2>3. Steps' /\ open' \subseteq open
    BY <1>1 DEF vars, Inv, Steps
  <2>4. \A k \in Controllers : AnswerFirst(k)' /\ (AnswerUnderWay(k) => AnswerUnderWay(k)')
    BY <1>1, <2>1, OrderSame DEF vars, Inv, Exchange
  <2>5. QED BY <1>1, <2>2, <2>3, <2>4, ServerMoves DEF vars, Inv, Queues
<1>2. ASSUME NEW x \in Peers, ServerHandle(x) \/ ServerDrop(x) PROVE Inv'
  BY <1>2, ServerHandleController, ServerHandleHost, ServerDropKeeps DEF Peers
<1>3. QED BY <1>1, <1>2, NextCases, CtlActions, HostActions

\* The type invariant holds for any number of controllers and candidates
\* (host.rs and controller.rs: what a side can have sent and read where).
THEOREM TypeCorrect == Spec => []TypeOK
BY InvInit, InvStep, InvImplies, PTL DEF Spec

\* No client is handed a candidate before the description it belongs to
\* (host.rs:234-237, controller.rs:160-163): the host sends candidates only
\* behind its answer, and neither the sockets nor the relay reorder them.
THEOREM CandidatesFollow == Spec => []CandidatesAfterDescription
BY InvInit, InvStep, InvImplies, PTL DEF Spec

\* A connected controller is the one the host answered and serves
\* (host.rs:231-247, controller.rs:157-168), however many ask at once.
THEOREM ConnectedAreServed == Spec => []ConnectedIsServed
BY InvInit, InvStep, InvImplies, PTL DEF Spec

=============================================================================
