---------------------------- MODULE SessionProofs ----------------------------
(***************************************************************************)
(* Proofs about what passes between the two ends of a session: the input   *)
(* of the controller (module RemoteInput), for any screens and any number  *)
(* of acts, and the picture of the host (module ScreenSharing), for any    *)
(* monitors, any capacity of the frame queue and any number of selections  *)
(* and unplugged monitors.                                                 *)
(***************************************************************************)
EXTENDS RemoteInput, ScreenSharing, SequenceTheorems, WellFoundedInduction, TLAPS

-----------------------------------------------------------------------------
(* Events under way. *)

\* Of the events of R among the first n of c the last is one of G; if there is
\* none, the host is as it should be.
LastIn(c, n, R, G, ok) ==
  \/ \E i \in 1 .. n : c[i] \in G /\ \A j \in i + 1 .. n : c[j] \notin R
  \/ ok /\ \A i \in 1 .. n : c[i] \notin R

\* The same for a set of tasks and the channel they send on.
LastOf(S, c, R, G, ok) ==
  \/ \E t \in S : t.event \in G /\ \A u \in S : Older(t, u) => u.event \notin R
  \/ (\A t \in S : t.event \notin R) /\ LastIn(c, Len(c), R, G, ok)

LEMMA LastInAppend ==
  ASSUME NEW E, NEW c \in Seq(E), NEW e \in E, NEW n \in 0 .. Len(c),
         NEW R, NEW G, NEW ok, LastIn(c, n, R, G, ok)
  PROVE  LastIn(Append(c, e), n, R, G, ok)
<1>1. Len(c) \in Nat /\ \A i \in 1 .. n : Append(c, e)[i] = c[i]
  BY AppendProperties
<1>2. QED BY <1>1 DEF LastIn

LEMMA LastInGrows ==
  ASSUME NEW E, NEW c \in Seq(E), NEW e \in E,
         NEW R, NEW G, NEW ok, LastIn(c, Len(c), R, G, ok) \/ e \in G,
         e \in G \/ e \notin R
  PROVE  LastIn(Append(c, e), Len(Append(c, e)), R, G, ok)
<1> DEFINE d == Append(c, e)
<1>1. /\ Len(c) \in Nat /\ Len(d) = Len(c) + 1 /\ d[Len(d)] = e
      /\ \A i \in 1 .. Len(c) : d[i] = c[i]
  BY AppendProperties
<1> HIDE DEF d
<1>2. CASE e \in G
  <2>1. Len(d) \in 1 .. Len(d) /\ \A j \in Len(d) + 1 .. Len(d) : d[j] \notin R
    BY <1>1
  <2>2. QED BY <1>1, <1>2, <2>1 DEF LastIn, d
<1>3. CASE e \notin R /\ LastIn(c, Len(c), R, G, ok)
  BY <1>1, <1>3 DEF LastIn, d
<1>4. QED BY <1>2, <1>3

LEMMA LastInTail ==
  ASSUME NEW E, NEW c \in Seq(E), c # << >>, NEW n \in 1 .. Len(c),
         NEW R, NEW G, NEW ok, NEW now, LastIn(c, n, R, G, ok),
         Head(c) \in G => now, Head(c) \notin R => (ok => now)
  PROVE  LastIn(Tail(c), n - 1, R, G, now)
<1>1. /\ Len(c) \in Nat /\ Head(c) = c[1] /\ Len(Tail(c)) = Len(c) - 1
      /\ \A i \in 1 .. n - 1 : Tail(c)[i] = c[i + 1]
  BY HeadTailProperties
<1>2. CASE ok /\ \A i \in 1 .. n : c[i] \notin R
  <2>1. now /\ \A i \in 1 .. n - 1 : Tail(c)[i] \notin R
    BY <1>1, <1>2
  <2>2. QED BY <2>1 DEF LastIn
<1>3. ASSUME NEW i \in 1 .. n, c[i] \in G, \A j \in i + 1 .. n : c[j] \notin R
      PROVE  LastIn(Tail(c), n - 1, R, G, now)
  <2>1. CASE i = 1
    <3>1. now /\ \A k \in 1 .. n - 1 : Tail(c)[k] \notin R
      BY <1>1, <1>3, <2>1
    <3>2. QED BY <3>1 DEF LastIn
  <2>2. CASE i # 1
    <3>1. i - 1 \in 1 .. n - 1 /\ Tail(c)[i - 1] \in G
      BY <1>1, <1>3, <2>2
    <3>2. \A j \in (i - 1) + 1 .. n - 1 : Tail(c)[j] \notin R
      BY <1>1, <1>3, <2>2
    <3>3. QED BY <3>1, <3>2 DEF LastIn
  <2>3. QED BY <2>1, <2>2
<1>4. QED BY <1>2, <1>3 DEF LastIn

LEMMA LastOfWeakened ==
  ASSUME NEW S, NEW c, NEW R, NEW G, NEW H, NEW ok, NEW now,
         LastOf(S, c, R, G, ok), G \subseteq H, ok => now
  PROVE  LastOf(S, c, R, H, now)
BY DEF LastOf, LastIn

\* A task that is older than the others sends its event.
LEMMA LastOfSent ==
  ASSUME NEW E, NEW c \in Seq(E), NEW S, NEW t \in S, t.event \in E,
         \A u \in S \ {t} : Older(t, u),
         NEW R, NEW G, G \subseteq R, NEW ok, LastOf(S, c, R, G, ok)
  PROVE  LastOf(S \ {t}, Append(c, t.event), R, G, ok)
<1>1. CASE (\A u \in S : u.event \notin R) /\ LastIn(c, Len(c), R, G, ok)
  BY <1>1, LastInGrows DEF LastOf
<1>2. ASSUME NEW w \in S, w.event \in G, \A u \in S : Older(w, u) => u.event \notin R
      PROVE  LastOf(S \ {t}, Append(c, t.event), R, G, ok)
  <2>1. CASE w = t
    <3>1. \A u \in S \ {t} : u.event \notin R
      BY <1>2, <2>1
    <3>2. LastIn(Append(c, t.event), Len(Append(c, t.event)), R, G, ok)
      BY <1>2, <2>1, LastInGrows
    <3>3. QED BY <3>1, <3>2 DEF LastOf
  <2>2. CASE w # t
    BY <1>2, <2>2 DEF LastOf
  <2>3. QED BY <2>1, <2>2
<1>3. QED BY <1>1, <1>2 DEF LastOf

\* The host handles the first event on the channel.
LEMMA LastOfHandled ==
  ASSUME NEW E, NEW c \in Seq(E), c # << >>, NEW S,
         NEW R, NEW G, NEW ok, NEW now, LastOf(S, c, R, G, ok),
         Head(c) \in G => now, Head(c) \notin R => (ok => now)
  PROVE  LastOf(S, Tail(c), R, G, now)
<1>1. CASE (\A u \in S : u.event \notin R) /\ LastIn(c, Len(c), R, G, ok)
  <2>1. Len(c) \in 1 .. Len(c) /\ Len(Tail(c)) = Len(c) - 1
    BY HeadTailProperties, EmptySeq, LenProperties
  <2>2. LastIn(Tail(c), Len(c) - 1, R, G, now)
    BY <1>1, <2>1, LastInTail
  <2>3. QED BY <1>1, <2>1, <2>2 DEF LastOf
<1>2. QED BY <1>1 DEF LastOf

\* A task that is older than the others is gone, and nothing is on the channel.
LEMMA LastOfDropped ==
  ASSUME NEW S, NEW t \in S, \A u \in S \ {t} : Older(t, u),
         NEW R, NEW G, NEW ok, NEW now, LastOf(S, << >>, R, G, ok),
         t.event \in G => now, t.event \notin R => (ok => now)
  PROVE  LastOf(S \ {t}, << >>, R, G, now)
<1>1. Len(<< >>) = 0
  OBVIOUS
<1>2. CASE (\A u \in S : u.event \notin R) /\ LastIn(<< >>, Len(<< >>), R, G, ok)
  BY <1>1, <1>2 DEF LastOf, LastIn
<1>3. ASSUME NEW w \in S, w.event \in G, \A u \in S : Older(w, u) => u.event \notin R
      PROVE  LastOf(S \ {t}, << >>, R, G, now)
  <2>1. CASE w = t
    BY <1>1, <1>3, <2>1 DEF LastOf, LastIn
  <2>2. CASE w # t
    BY <1>3, <2>2 DEF LastOf
  <2>3. QED BY <2>1, <2>2
<1>4. QED BY <1>2, <1>3 DEF LastOf

\* Tasks are spawned, none of which matters.
LEMMA LastOfOthers ==
  ASSUME NEW S, NEW c, NEW N, \A s \in S, n \in N : ~ Older(n, s),
         NEW R, NEW G, NEW ok, LastOf(S, c, R, G, ok),
         \A n \in N : n.event \notin R
  PROVE  LastOf(S \cup N, c, R, G, ok)
BY DEF LastOf

\* Tasks are spawned, the last of which is as it should be.
LEMMA LastOfNew ==
  ASSUME NEW S, NEW c, NEW N, \A s \in S, n \in N : ~ Older(n, s),
         NEW R, NEW G, NEW ok,
         NEW n \in N, n.event \in G, \A u \in N : Older(n, u) => u.event \notin R
  PROVE  LastOf(S \cup N, c, R, G, ok)
BY DEF LastOf

-----------------------------------------------------------------------------
(* Types. *)

\* Tasks are told apart by their ids.
IdsApart == \A t, u \in tasks : t.id = u.id => t = u

\* The second event of an act is the text of a key.
SecondIsText ==
  \A t \in tasks : t.id[2] = 2 => t.event.kind = "text" /\ t.event.arg \in Printable

Numbered(e) == e.kind = "text" => e.arg \in (1 .. entered) \cup Printable

\* Texts under way were entered.
EnteredOnly ==
  /\ \A t \in tasks : Numbered(t.event)
  /\ \A i \in DOMAIN channel : Numbered(channel[i])

Counted == entered <= acts /\ turned.times <= acts

\* Nothing reaches the host before the channel opens.
Unreached ==
  link = "connecting" => host_pointer = None /\ host_held = {} /\ typed = << >>

TypeInv ==
  /\ TypeOK /\ IdsApart /\ SecondIsText /\ EnteredOnly /\ Counted
  /\ Unreached

Task(i, e) == [id |-> <<acts, i>>, event |-> e]

\* An act of the user spawns the tasks of N and leaves the rest alone.
Spawns(N) ==
  /\ acts < MaxActs /\ acts' = acts + 1 /\ tasks' = tasks \cup N
  /\ \/ N = {}
     \/ \E e \in InputEvents : N = {Task(1, e)}
     \/ \E e \in InputEvents, k \in Printable :
          N = {Task(1, e), Task(2, [kind |-> "text", arg |-> k])}
  /\ UNCHANGED <<channel, link, desktop, unheard, overtaken, failed>>

LEMMA SendsOne ==
  ASSUME NEW e, SendInputs(<<e>>)
  PROVE  /\ acts < MaxActs /\ acts' = acts + 1
         /\ tasks' = tasks \cup {Task(1, e)}
<1>1. Len(<<e>>) = 1 /\ <<e>>[1] = e
  OBVIOUS
<1>2. {[id |-> <<acts, i>>, event |-> <<e>>[i]] : i \in 1 .. Len(<<e>>)} = {Task(1, e)}
  BY <1>1 DEF Task
<1>3. QED BY <1>2 DEF SendInputs, Act

LEMMA SendsTwo ==
  ASSUME NEW e, NEW f, SendInputs(<<e>> \o <<f>>)
  PROVE  /\ acts < MaxActs /\ acts' = acts + 1
         /\ tasks' = tasks \cup {Task(1, e), Task(2, f)}
<1> DEFINE es == <<e>> \o <<f>>
<1>1. <<e>> \in Seq({e, f}) /\ <<f>> \in Seq({e, f}) /\ Len(<<e>>) = 1 /\ Len(<<f>>) = 1
  OBVIOUS
<1>2. Len(es) = 2 /\ es[1] = e /\ es[2] = f
  BY <1>1, ConcatProperties
<1> HIDE DEF es
<1>3. {[id |-> <<acts, i>>, event |-> es[i]] : i \in 1 .. Len(es)}
        = {Task(1, e), Task(2, f)}
  BY <1>2 DEF Task
<1>4. QED BY <1>3 DEF SendInputs, Act, es

\* A point of the picture is one of the monitor, or one past its last column.
LEMMA InMonitor ==
  ASSUME NEW p \in 0 .. Width, NEW m \in Monitors
  PROVE  /\ remote_coords(p, m) \in 0 .. m.width
         /\ Pointed(p, m) \in 0 .. m.width - 1
         /\ Hits(remote_coords(p, m), Pointed(p, m))
<1> DEFINE w == m.width
           x == remote_coords(p, m)
           Column(y) == /\ y * Width <= p * w
                        /\ y = w - 1 \/ p * w < (y + 1) * Width
<1>1. w \in Nat \ {0} /\ Width \in Nat \ {0} /\ p \in Nat /\ p <= Width
  BY InputAssumption
<1> HIDE DEF w
<1>2. p * w \in Nat /\ p * w <= Width * w
  BY <1>1
<1>3. x \in Nat /\ x * Width <= p * w /\ p * w < (x + 1) * Width
  BY <1>1, <1>2 DEF remote_coords, w
<1> HIDE DEF x
<1>4. x <= w
  <2>1. x * Width <= w * Width
    BY <1>1, <1>2, <1>3
  <2>2. QED BY <1>1, <1>3, <2>1
<1>5. CASE x < w
  <2>1. x \in 0 .. w - 1 /\ Column(x)
    BY <1>1, <1>3, <1>5
  <2>2. ASSUME NEW y \in 0 .. w - 1, Column(y) PROVE y = x
    <3>1. CASE y < x
      <4>1. (y + 1) * Width <= x * Width
        BY <1>1, <1>3, <3>1
      <4>2. QED BY <1>1, <1>2, <1>3, <2>2, <3>1, <4>1, <1>5
    <3>2. CASE x < y
      <4>1. (x + 1) * Width <= y * Width
        BY <1>1, <1>3, <3>2
      <4>2. QED BY <1>1, <1>2, <1>3, <2>2, <3>2, <4>1
    <3>3. QED BY <1>3, <3>1, <3>2
  <2>3. Pointed(p, m) = CHOOSE y \in 0 .. w - 1 : Column(y)
    BY DEF Pointed, w
  <2>4. Pointed(p, m) = x
    <3> HIDE DEF Column
    <3>1. QED BY <2>1, <2>2, <2>3
  <2>5. QED BY <1>1, <1>3, <1>5, <2>4 DEF Hits, w, x
<1>6. CASE x = w
  <2>1. p * w = w * Width
    BY <1>1, <1>2, <1>3, <1>6
  <2>2. w - 1 \in 0 .. w - 1 /\ Column(w - 1)
    BY <1>1, <2>1
  <2>3. ASSUME NEW y \in 0 .. w - 1, Column(y) PROVE y = w - 1
    <3>1. (y + 1) * Width <= w * Width
      BY <1>1
    <3>2. QED BY <1>1, <1>2, <2>1, <2>3, <3>1
  <2>4. Pointed(p, m) = CHOOSE y \in 0 .. w - 1 : Column(y)
    BY DEF Pointed, w
  <2>5. Pointed(p, m) = w - 1
    <3> HIDE DEF Column
    <3>1. QED BY <2>2, <2>3, <2>4
  <2>6. QED BY <1>1, <1>6, <2>5 DEF Hits, w, x
<1>7. QED BY <1>1, <1>3, <1>4, <1>5, <1>6

-----------------------------------------------------------------------------
(* What the user does. *)

Move(x)     == [kind |-> "move", arg |-> x]
Press(x, a) == [kind |-> "press", arg |-> x, aim |-> a]
Release(x)  == [kind |-> "release", arg |-> x]
Text(c)     == [kind |-> "text", arg |-> c]
Wheel(n)    == [kind |-> "scroll", arg |-> n]

Unsent ==
  /\ Spawns({})
  /\ fresh' => fresh /\ UNCHANGED <<pointer, shown>>
  /\ held \cup missed \subseteq held' \cup missed'
  /\ UNCHANGED <<entered, turned>>

SentMove(p) ==
  /\ Spawns({Task(1, Move(remote_coords(p, shown)))})
  /\ shown \in Monitors /\ p \in 0 .. Width
  /\ pointer' = p /\ fresh' = TRUE
  /\ UNCHANGED <<shown, held, missed, entered, turned>>

SentPress(x, a) ==
  /\ Spawns({Task(1, Press(x, a))})
     \/ \E k \in Printable : Spawns({Task(1, Press(x, a)), Task(2, Text(k))})
  /\ x \in Things
  /\ \/ a = None
     \/ fresh /\ shown \in Monitors /\ pointer \in 0 .. Width /\ a = Pointed(pointer, shown)
  /\ held' = held \cup {x} /\ missed' = missed \ {x}
  /\ UNCHANGED <<shown, pointer, fresh, entered, turned>>

SentRelease(x) ==
  /\ Spawns({Task(1, Release(x))})
  /\ x \in Things
  /\ held' = held \ {x} /\ missed' = missed
  /\ UNCHANGED <<shown, pointer, fresh, entered, turned>>

SentText ==
  /\ entered' = entered + 1
  /\ Spawns({Task(1, Text(entered'))})
  /\ UNCHANGED <<window, missed, fresh, turned>>

SentScroll(d) ==
  /\ Spawns({Task(1, Wheel(as_i32(-d)))})
  /\ d \in Int
  /\ turned' = [halves |-> turned.halves + d, times |-> turned.times + 1]
  /\ UNCHANGED <<window, missed, fresh, entered>>

LEMMA Events ==
  /\ \A x \in Coordinates : Move(x) \in InputEvents
  /\ \A x \in Things, a \in Coordinates \cup {None} : Press(x, a) \in InputEvents
  /\ \A x \in Things : Release(x) \in InputEvents
  /\ \A c \in 1 .. MaxActs \cup Printable : Text(c) \in InputEvents
  /\ \A n \in Int : Wheel(n) \in InputEvents
BY DEF InputEvents, Move, Press, Release, Text, Wheel

LEMMA EventKinds ==
  ASSUME NEW e \in InputEvents
  PROVE  \/ \E x \in Coordinates : e = Move(x)
         \/ \E x \in Things, a \in Coordinates \cup {None} : e = Press(x, a)
         \/ \E x \in Things : e = Release(x)
         \/ \E c \in 1 .. MaxActs \cup Printable : e = Text(c)
         \/ \E n \in Int : e = Wheel(n)
BY DEF InputEvents, Move, Press, Release, Text, Wheel

LEMMA Columns ==
  ASSUME NEW m \in Monitors, NEW x \in 0 .. m.width
  PROVE  x \in Coordinates
BY DEF Coordinates

LEMMA AsInt ==
  ASSUME NEW d \in Int
  PROVE  as_i32(-d) \in Int /\ 2 * as_i32(-d) + d \in -1 .. 1
BY DEF as_i32

LEMMA Moving ==
  ASSUME TypeInv, NEW p \in {Outside} \cup 0 .. Width, MovePointer(p)
  PROVE  Unsent \/ SentMove(p)
<1>1. CASE Capturing /\ contains(p)
  <2>1. shown \in Monitors /\ p \in 0 .. Width
    BY <1>1 DEF TypeInv, TypeOK, Capturing, contains
  <2> DEFINE e == Move(remote_coords(p, shown))
  <2>2. e \in InputEvents
    <3>1. remote_coords(p, shown) \in 0 .. shown.width
      BY <2>1, InMonitor
    <3>2. QED BY <2>1, <3>1, Columns, Events
  <2>3. SendInputs(<<e>>)
    BY <1>1 DEF MovePointer, Move
  <2> HIDE DEF e
  <2>4. Spawns({Task(1, e)})
    BY <2>2, <2>3, SendsOne DEF Spawns, MovePointer
  <2>5. QED BY <1>1, <2>1, <2>4 DEF SentMove, MovePointer, e
<1>2. CASE ~ (Capturing /\ contains(p))
  BY <1>2 DEF MovePointer, NoInput, Act, Unsent, Spawns
<1>3. QED BY <1>1, <1>2

LEMMA PressingButton ==
  ASSUME TypeInv, NEW b \in Buttons, PressButton(b)
  PROVE  Unsent \/ \E a : SentPress(b, a)
<1>1. CASE Capturing /\ contains(pointer)
  <2>1. shown \in Monitors /\ pointer \in 0 .. Width /\ b \in Things
    BY <1>1 DEF TypeInv, TypeOK, Capturing, contains, Things
  <2> DEFINE e == Press(b, Aim)
  <2>2. Aim = None \/ (fresh /\ Aim = Pointed(pointer, shown))
    BY DEF Aim
  <2>3. e \in InputEvents
    <3>1. Pointed(pointer, shown) \in 0 .. shown.width
      <4>1. shown.width \in Nat
        BY <2>1, InputAssumption
      <4>2. QED BY <2>1, <4>1, InMonitor
    <3>2. Aim \in Coordinates \cup {None}
      BY <2>1, <2>2, <3>1, Columns
    <3>3. QED BY <2>1, <3>2, Events
  <2>4. SendInputs(<<e>>)
    BY <1>1 DEF PressButton, Press
  <2> HIDE DEF e
  <2>5. Spawns({Task(1, e)})
    BY <2>3, <2>4, SendsOne DEF Spawns, PressButton
  <2>6. SentPress(b, Aim)
    BY <1>1, <2>1, <2>2, <2>5 DEF SentPress, PressButton, e
  <2>7. QED BY <2>6
<1>2. CASE ~ (Capturing /\ contains(pointer))
  BY <1>2 DEF PressButton, NoInput, Act, Unsent, Spawns
<1>3. QED BY <1>1, <1>2

LEMMA PressingKey ==
  ASSUME TypeInv, NEW k \in Keys, PressKey(k)
  PROVE  Unsent \/ \E a : SentPress(k, a)
<1>1. CASE Capturing
  <2> DEFINE e == Press(k, None)
  <2>1. k \in Things /\ e \in InputEvents
    BY Events DEF Things
  <2>2. CASE k \in Printable
    <3>1. SendInputs(<<e>> \o <<Text(k)>>)
      BY <1>1, <2>2 DEF PressKey, Press, Text
    <3> HIDE DEF e
    <3>2. Spawns({Task(1, e), Task(2, Text(k))})
      BY <2>1, <2>2, <3>1, SendsTwo DEF Spawns, PressKey, Text
    <3>3. QED BY <1>1, <2>1, <2>2, <3>2 DEF SentPress, PressKey, e
  <2>3. CASE k \notin Printable
    <3>1. SendInputs(<<e>> \o << >>)
      BY <1>1, <2>3 DEF PressKey, Press
    <3>2. <<e>> \o << >> = <<e>>
      <4> HIDE DEF e
      <4>1. <<e>> \in Seq({e})
        OBVIOUS
      <4>2. QED BY <4>1, ConcatEmptySeq
    <3> HIDE DEF e
    <3>3. Spawns({Task(1, e)})
      BY <2>1, <3>1, <3>2, SendsOne DEF Spawns, PressKey
    <3>4. QED BY <1>1, <2>1, <3>3 DEF SentPress, PressKey, e
  <2>4. QED BY <2>2, <2>3
<1>2. CASE ~ Capturing
  BY <1>2 DEF PressKey, NoInput, Act, Unsent, Spawns
<1>3. QED BY <1>1, <1>2

LEMMA Releasing ==
  ASSUME TypeInv, NEW x \in Things,
         (x \in Buttons /\ ReleaseButton(x)) \/ (x \in Keys /\ ReleaseKey(x))
  PROVE  Unsent \/ SentRelease(x)
<1> DEFINE e == Release(x)
<1>1. e \in InputEvents
  BY Events
<1>2. CASE SendInputs(<<e>>) /\ UNCHANGED missed
  <2> HIDE DEF e
  <2>1. Spawns({Task(1, e)})
    BY <1>1, <1>2, SendsOne DEF Spawns, ReleaseButton, ReleaseKey
  <2>2. QED BY <1>2, <2>1 DEF SentRelease, ReleaseButton, ReleaseKey, e
<1>3. CASE NoInput /\ missed' = missed \cup {x}
  BY <1>3 DEF ReleaseButton, ReleaseKey, NoInput, Act, Unsent, Spawns
<1>4. QED BY <1>2, <1>3 DEF ReleaseButton, ReleaseKey, Release

LEMMA UserActs ==
  ASSUME TypeInv, User
  PROVE  \/ Unsent
         \/ \E p : SentMove(p)
         \/ \E x, a : SentPress(x, a)
         \/ \E x : SentRelease(x)
         \/ SentText
         \/ \E d : SentScroll(d)
<1>1. CASE SwitchPanel
  BY <1>1 DEF SwitchPanel, Act, Unsent, Spawns
<1>2. CASE TypeText
  <2>1. acts < MaxActs
    BY <1>2 DEF TypeText, SendInputs, Act
  <2>2. Text(entered') \in InputEvents
    BY <1>2, <2>1, Events, InputAssumption
    DEF TypeText, TypeInv, TypeOK, Counted
  <2>3. SendInputs(<<Text(entered')>>)
    BY <1>2 DEF TypeText, Text
  <2>4. Spawns({Task(1, Text(entered'))})
    BY <1>2, <2>2, <2>3, SendsOne DEF Spawns, TypeText
  <2>5. QED BY <1>2, <2>4 DEF SentText, TypeText
<1>3. ASSUME NEW d \in Deltas, Scroll(d) PROVE SentScroll(d)
  <2>1. d \in Int
    BY InputAssumption
  <2>2. Wheel(as_i32(-d)) \in InputEvents
    BY <2>1, AsInt, Events
  <2>3. SendInputs(<<Wheel(as_i32(-d))>>)
    BY <1>3 DEF Scroll, Wheel
  <2>4. Spawns({Task(1, Wheel(as_i32(-d)))})
    BY <1>3, <2>2, <2>3, SendsOne DEF Spawns, Scroll
  <2>5. QED BY <1>3, <2>1, <2>4 DEF SentScroll, Scroll
<1>4. ASSUME NEW p, PictureMoves(p) PROVE Unsent
  BY <1>4 DEF PictureMoves, Act, Unsent, Spawns
<1>5. QED BY <1>1, <1>2, <1>3, <1>4, Moving, PressingButton, PressingKey, Releasing
          DEF User, Things

-----------------------------------------------------------------------------
(* Type correctness. *)

WindowOK ==
  /\ panel \in BOOLEAN /\ shown \in Monitors \cup {None}
  /\ pointer \in {Outside} \cup 0 .. Width /\ held \subseteq Things
  /\ fresh \in BOOLEAN /\ missed \subseteq Things

LEMMA WindowStep ==
  ASSUME TypeInv, User \/ \E m \in Monitors : FrameArrives(m)
  PROVE  WindowOK'
<1>0. WindowOK
  BY DEF TypeInv, TypeOK, WindowOK
<1>1. CASE SwitchPanel \/ TypeText \/ \E d \in Deltas : Scroll(d)
  BY <1>0, <1>1 DEF SwitchPanel, TypeText, Scroll, WindowOK, window
<1>2. CASE \E p \in {Outside} \cup 0 .. Width : MovePointer(p) \/ PictureMoves(p)
  BY <1>0, <1>2 DEF MovePointer, PictureMoves, WindowOK
<1>3. CASE \E b \in Buttons : PressButton(b) \/ ReleaseButton(b)
  BY <1>0, <1>3 DEF PressButton, ReleaseButton, WindowOK, Things
<1>4. CASE \E k \in Keys : PressKey(k) \/ ReleaseKey(k)
  BY <1>0, <1>4 DEF PressKey, ReleaseKey, WindowOK, Things
<1>5. CASE \E m \in Monitors : FrameArrives(m)
  BY <1>0, <1>5 DEF FrameArrives, WindowOK
<1>6. QED BY <1>1, <1>2, <1>3, <1>4, <1>5 DEF User

TaskOK(n) == n \in [id : (0 .. acts - 1) \X {1, 2}, event : InputEvents]

\* What is spawned is later than what was.
LEMMA Spawned ==
  ASSUME TypeInv, NEW N, Spawns(N)
  PROVE  /\ acts \in Nat /\ acts' \in 0 .. MaxActs
         /\ \A n \in N : TaskOK(n)' /\ n.id[1] = acts
         /\ \A n, l \in N : n.id = l.id => n = l
         /\ \A n \in N : n.id[2] = 2 =>
              n.event.kind = "text" /\ n.event.arg \in Printable
         /\ \A s \in tasks : TaskOK(s)' /\ s.id[1] < acts
         /\ \A s \in tasks, n \in N : Older(s, n) /\ ~ Older(n, s) /\ s.id # n.id
<1>1. acts \in Nat /\ MaxActs \in Nat /\ acts' = acts + 1 /\ acts' \in 0 .. MaxActs
  BY InputAssumption DEF TypeInv, TypeOK, Spawns
<1>2. \A e \in InputEvents, i \in {1, 2} :
        /\ Task(i, e) \in [id : (0 .. acts' - 1) \X {1, 2}, event : InputEvents]
        /\ Task(i, e).id = <<acts, i>> /\ Task(i, e).id[1] = acts
        /\ Task(i, e).id[2] = i /\ Task(i, e).event = e
  BY <1>1 DEF Task
<1>3. \A k \in Printable : LET e == [kind |-> "text", arg |-> k] IN
        e \in InputEvents /\ e.kind = "text" /\ e.arg = k
  BY DEF InputEvents
<1>4. /\ \A n \in N : TaskOK(n)' /\ n.id[1] = acts
      /\ \A n, l \in N : n.id = l.id => n = l
      /\ \A n \in N : n.id[2] = 2 =>
           n.event.kind = "text" /\ n.event.arg \in Printable
  <2>1. CASE N = {}
    BY <2>1
  <2>2. ASSUME NEW e \in InputEvents, N = {Task(1, e)} PROVE <1>4
    BY <1>2, <2>2 DEF TaskOK
  <2>3. ASSUME NEW e \in InputEvents, NEW k \in Printable,
               N = {Task(1, e), Task(2, [kind |-> "text", arg |-> k])}
        PROVE  <1>4
    <3> DEFINE f == [kind |-> "text", arg |-> k]
    <3>1. f \in InputEvents /\ f.kind = "text" /\ f.arg = k
      BY <1>3
    <3> HIDE DEF f
    <3>2. \A n \in N : n = Task(1, e) \/ n = Task(2, f)
      BY <2>3 DEF f
    <3>3. Task(1, e).id[2] = 1 /\ Task(2, f).id[2] = 2
      BY <1>2, <3>1
    <3>4. QED BY <1>2, <3>1, <3>2, <3>3 DEF TaskOK
  <2>4. QED BY <2>1, <2>2, <2>3 DEF Spawns
<1>5. \A s \in tasks : TaskOK(s)' /\ s.id[1] \in Nat /\ s.id[1] < acts
  BY <1>1 DEF TypeInv, TypeOK, TaskOK
<1>6. \A s \in tasks, n \in N : Older(s, n) /\ ~ Older(n, s) /\ s.id # n.id
  BY <1>1, <1>4, <1>5 DEF Older
<1>7. QED BY <1>1, <1>4, <1>5, <1>6

\* Two tasks are sent in the order of their ids, or one overtakes the other.
LEMMA Ordered ==
  ASSUME TypeInv, NEW t \in tasks, NEW u \in tasks, t # u
  PROVE  Older(t, u) \/ Older(u, t)
<1>1. t.id # u.id
  BY DEF TypeInv, IdsApart
<1>2. t.id \in (0 .. acts - 1) \X {1, 2} /\ u.id \in (0 .. acts - 1) \X {1, 2}
  BY DEF TypeInv, TypeOK
<1>3. acts \in Nat
  BY DEF TypeInv, TypeOK
<1>4. QED BY <1>1, <1>2, <1>3 DEF Older

LEMMA TypeInit == Init => TypeInv
<1> SUFFICES ASSUME Init PROVE TypeInv
  OBVIOUS
<1>1. \A S : << >> \in Seq(S)
  OBVIOUS
<1>2. TypeOK
  <2>1. 0 \in 0 .. MaxActs /\ Outside \in {Outside} \cup 0 .. Width
    BY InputAssumption
  <2>2. turned \in [halves : Int, times : 0 .. MaxActs]
    BY <2>1 DEF Init
  <2>3. typed = << >> /\ channel = << >> /\ tasks = {} /\ click.aim = None
    BY DEF Init, NoClick
  <2>4. unheard \in [char : 0 .. MaxActs, lines : Int, move : BOOLEAN]
    BY <2>1 DEF Init
  <2>5. QED BY <1>1, <2>1, <2>2, <2>3, <2>4 DEF Init, TypeOK
<1>3. IdsApart /\ SecondIsText /\ EnteredOnly /\ Counted /\ Unreached
  BY DEF Init, IdsApart, SecondIsText, EnteredOnly, Counted, Unreached
<1>4. QED BY <1>2, <1>3 DEF TypeInv

\* An act of the user that spawns tasks keeps the types.
LEMMA SpawnTypes ==
  ASSUME TypeInv, NEW N, Spawns(N), WindowOK',
         entered' \in entered .. acts', \A n \in N : Numbered(n.event)',
         turned' \in [halves : Int, times : 0 .. acts']
  PROVE  TypeInv'
<1>1. /\ acts \in Nat /\ acts' \in 0 .. MaxActs /\ MaxActs \in Nat
      /\ tasks' = tasks \cup N /\ entered \in Nat /\ entered' \in Nat /\ entered <= entered'
  BY Spawned, InputAssumption DEF TypeInv, TypeOK, Spawns
<1>2. (1 .. entered) \cup Printable \subseteq (1 .. entered') \cup Printable
  BY <1>1
<1>3. typed' \in Seq((1 .. entered') \cup Printable)
  BY <1>2, SeqMonotonic DEF TypeInv, TypeOK, Spawns, desktop
<1>4. tasks' \subseteq [id : (0 .. acts' - 1) \X {1, 2}, event : InputEvents]
  BY <1>1, Spawned DEF TaskOK
<1>5. entered' \in 0 .. MaxActs /\ turned' \in [halves : Int, times : 0 .. MaxActs]
  BY <1>1
<1>6. TypeOK'
  BY <1>1, <1>3, <1>4, <1>5 DEF TypeInv, TypeOK, WindowOK, Spawns, desktop
<1>7. IdsApart' /\ SecondIsText'
  BY <1>1, Spawned DEF TypeInv, IdsApart, SecondIsText
<1>8. EnteredOnly'
  BY <1>1, <1>2 DEF TypeInv, EnteredOnly, Numbered, Spawns
<1>9. Counted' /\ Unreached'
  BY <1>1 DEF Counted, TypeInv, Unreached, Spawns, desktop
<1>10. QED BY <1>6, <1>7, <1>8, <1>9 DEF TypeInv

LEMMA UserTypes ==
  ASSUME TypeInv, User
  PROVE  TypeInv'
<1>1. WindowOK'
  BY WindowStep
<1>2. /\ acts \in Nat /\ entered \in Nat /\ entered <= acts
      /\ turned \in [halves : Int, times : Nat] /\ turned.times <= acts
  BY InputAssumption DEF TypeInv, TypeOK, Counted
<1>3. ASSUME NEW N, Spawns(N), UNCHANGED <<entered, turned>>,
             \A n \in N : Numbered(n.event)
      PROVE  TypeInv'
  <2>1. acts' = acts + 1
    BY <1>3 DEF Spawns
  <2>2. entered' \in entered .. acts' /\ turned' \in [halves : Int, times : 0 .. acts']
    BY <1>2, <1>3, <2>1
  <2>3. \A n \in N : Numbered(n.event)'
    BY <1>3 DEF Numbered
  <2>4. QED BY <1>1, <1>3, <2>2, <2>3, SpawnTypes
<1>4. CASE Unsent
  BY <1>3, <1>4 DEF Unsent
<1>5. ASSUME NEW p, SentMove(p) PROVE TypeInv'
  BY <1>3, <1>5 DEF SentMove, Task, Move, Numbered
<1>6. ASSUME NEW x, NEW a, SentPress(x, a) PROVE TypeInv'
  <2>1. CASE Spawns({Task(1, Press(x, a))})
    BY <1>3, <1>6, <2>1 DEF SentPress, Task, Press, Numbered
  <2>2. ASSUME NEW k \in Printable, Spawns({Task(1, Press(x, a)), Task(2, Text(k))})
        PROVE  TypeInv'
    BY <1>3, <1>6, <2>2 DEF SentPress, Task, Press, Text, Numbered
  <2>3. QED BY <1>6, <2>1, <2>2 DEF SentPress
<1>7. ASSUME NEW x, SentRelease(x) PROVE TypeInv'
  BY <1>3, <1>7 DEF SentRelease, Task, Release, Numbered
<1>8. CASE SentText
  <2>1. entered' = entered + 1 /\ acts' = acts + 1
    BY <1>8 DEF SentText, Spawns
  <2>2. /\ entered' \in entered .. acts'
        /\ turned' \in [halves : Int, times : 0 .. acts']
    BY <1>2, <1>8, <2>1 DEF SentText
  <2>3. \A n \in {Task(1, Text(entered'))} : Numbered(n.event)'
    BY <1>2, <2>1 DEF Task, Text, Numbered
  <2>4. QED BY <1>1, <1>8, <2>2, <2>3, SpawnTypes DEF SentText
<1>9. ASSUME NEW d, SentScroll(d) PROVE TypeInv'
  <2>1. acts' = acts + 1
    BY <1>9 DEF SentScroll, Spawns
  <2>2. /\ entered' \in entered .. acts'
        /\ turned' \in [halves : Int, times : 0 .. acts']
    BY <1>2, <1>9, <2>1 DEF SentScroll
  <2>3. \A n \in {Task(1, Wheel(as_i32(-d)))} : Numbered(n.event)'
    BY DEF Task, Wheel, Numbered
  <2>4. QED BY <1>1, <1>9, <2>2, <2>3, SpawnTypes DEF SentScroll
<1>10. QED BY <1>4, <1>5, <1>6, <1>7, <1>8, <1>9, UserActs

\* What applying an event leaves on the desktop.
LEMMA Applied ==
  ASSUME TypeInv, NEW e \in InputEvents, apply(e)
  PROVE  \/ \E x \in Coordinates :
              /\ e = Move(x) /\ host_pointer' = x
              /\ UNCHANGED <<host_held, typed, scrolled, click>>
         \/ \E x \in Things, a \in Coordinates \cup {None} :
              /\ e = Press(x, a) /\ host_held' = host_held \cup {x}
              /\ typed' = IF x \in Printable THEN Append(typed, x) ELSE typed
              /\ click' = IF x \in Buttons THEN [aim |-> a, at |-> host_pointer] ELSE click
              /\ UNCHANGED <<host_pointer, scrolled>>
         \/ \E x \in Things :
              /\ e = Release(x) /\ host_held' = host_held \ {x}
              /\ UNCHANGED <<host_pointer, typed, scrolled, click>>
         \/ \E c \in 1 .. MaxActs \cup Printable :
              /\ e = Text(c) /\ typed' = Append(typed, c)
              /\ UNCHANGED <<host_pointer, host_held, scrolled, click>>
         \/ \E n \in Int :
              /\ e = Wheel(n) /\ scrolled' = scrolled + n
              /\ UNCHANGED <<host_pointer, host_held, typed, click>>
<1>1. ASSUME NEW x \in Coordinates, e = Move(x)
      PROVE  host_pointer' = x /\ UNCHANGED <<host_held, typed, scrolled, click>>
  BY <1>1 DEF apply, Move
<1>2. ASSUME NEW x \in Things, NEW a \in Coordinates \cup {None}, e = Press(x, a)
      PROVE  /\ host_held' = host_held \cup {x}
             /\ typed' = IF x \in Printable THEN Append(typed, x) ELSE typed
             /\ click' = IF x \in Buttons THEN [aim |-> a, at |-> host_pointer] ELSE click
             /\ UNCHANGED <<host_pointer, scrolled>>
  BY <1>2 DEF apply, Press
<1>3. ASSUME NEW x \in Things, e = Release(x)
      PROVE  /\ host_held' = host_held \ {x}
             /\ UNCHANGED <<host_pointer, typed, scrolled, click>>
  BY <1>3 DEF apply, Release
<1>4. ASSUME NEW c \in 1 .. MaxActs \cup Printable, e = Text(c)
      PROVE  /\ typed' = Append(typed, c)
             /\ UNCHANGED <<host_pointer, host_held, scrolled, click>>
  BY <1>4 DEF apply, Text
<1>5. ASSUME NEW n \in Int, e = Wheel(n)
      PROVE  /\ scrolled' = scrolled + n
             /\ UNCHANGED <<host_pointer, host_held, typed, click>>
  BY <1>5 DEF apply, Wheel
<1>6. QED BY <1>1, <1>2, <1>3, <1>4, <1>5, EventKinds

LEMMA HandleTypes ==
  ASSUME TypeInv, HandleInput
  PROVE  TypeInv'
<1> DEFINE e == Head(channel)
<1>1. /\ channel \in Seq(InputEvents) /\ e \in InputEvents
      /\ channel' \in Seq(InputEvents) /\ Numbered(e)
      /\ \A i \in DOMAIN channel' : channel'[i] = channel[i + 1] /\ i + 1 \in DOMAIN channel
  <2>1. channel \in Seq(InputEvents) /\ channel # << >> /\ channel' = Tail(channel)
    BY DEF TypeInv, TypeOK, HandleInput
  <2>2. /\ Len(channel) \in Nat /\ Len(channel) > 0 /\ e = channel[1]
        /\ channel' \in Seq(InputEvents) /\ Len(channel') = Len(channel) - 1
        /\ \A i \in 1 .. Len(channel') : channel'[i] = channel[i + 1]
    BY <2>1, HeadTailProperties, EmptySeq, LenProperties
  <2>3. DOMAIN channel = 1 .. Len(channel) /\ DOMAIN channel' = 1 .. Len(channel')
    BY <2>1, <2>2, LenProperties
  <2>4. QED BY <2>1, <2>2, <2>3, ElementOfSeq DEF TypeInv, EnteredOnly
<1>2. /\ host_pointer' \in Coordinates \cup {None} /\ host_held' \subseteq Things
      /\ typed' \in Seq((1 .. entered) \cup Printable)
      /\ scrolled' \in Int /\ click'.aim \in Coordinates \cup {None}
      /\ failed' \in BOOLEAN
  <2>0. /\ host_pointer \in Coordinates \cup {None} /\ host_held \subseteq Things
        /\ typed \in Seq((1 .. entered) \cup Printable)
        /\ scrolled \in Int /\ click.aim \in Coordinates \cup {None}
        /\ failed \in BOOLEAN
    BY DEF TypeInv, TypeOK
  <2>1. CASE UNCHANGED desktop /\ failed' = TRUE
    BY <2>0, <2>1 DEF desktop
  <2>2. CASE apply(e) /\ UNCHANGED failed
    <3> HIDE DEF e
    <3>1. ASSUME NEW x \in Things, NEW a \in Coordinates \cup {None}, e = Press(x, a),
                 typed' = IF x \in Printable THEN Append(typed, x) ELSE typed
          PROVE  typed' \in Seq((1 .. entered) \cup Printable)
      BY <2>0, <3>1, AppendProperties
    <3>2. ASSUME NEW c, e = Text(c), typed' = Append(typed, c)
          PROVE  typed' \in Seq((1 .. entered) \cup Printable)
      <4>1. c \in (1 .. entered) \cup Printable
        BY <1>1, <3>2 DEF Numbered, Text
      <4>2. QED BY <2>0, <3>2, <4>1, AppendProperties
    <3>3. QED BY <1>1, <2>0, <2>2, <3>1, <3>2, Applied
  <2>3. QED BY <2>1, <2>2 DEF HandleInput
<1> HIDE DEF e
<1>3. UNCHANGED <<window, tasks, link, acts, entered, turned, fresh, missed, unheard,
                  overtaken>>
  BY DEF HandleInput
<1>4. link' = "open"
  BY <1>3 DEF TypeInv, TypeOK, HandleInput
<1>5. TypeOK'
  BY <1>1, <1>2, <1>3, <1>4 DEF TypeInv, TypeOK, window
<1>6. Unreached'
  BY <1>4 DEF Unreached
<1>7. QED BY <1>1, <1>3, <1>5, <1>6
          DEF TypeInv, IdsApart, SecondIsText, EnteredOnly, Numbered, Counted

\* What is lost with an event: a move, a character or some lines.
LEMMA UnheardTypes ==
  ASSUME TypeInv, NEW e \in InputEvents
  PROVE  UnheardWith(e) \in [char : 0 .. MaxActs, lines : Int, move : BOOLEAN]
<1>1. unheard \in [char : 0 .. MaxActs, lines : Int, move : BOOLEAN] /\ MaxActs \in Nat
  BY InputAssumption DEF TypeInv, TypeOK
<1>2. CASE e.kind = "move"
  BY <1>1, <1>2 DEF UnheardWith
<1>3. CASE e.kind = "text"
  <2>1. e.arg \in 1 .. MaxActs \cup Printable
    BY <1>3, EventKinds DEF Move, Press, Release, Text, Wheel
  <2>2. QED BY <1>1, <1>3, <2>1 DEF UnheardWith
<1>4. CASE e.kind = "scroll"
  <2>1. e.arg \in Int
    BY <1>4, EventKinds DEF Move, Press, Release, Text, Wheel
  <2>2. QED BY <1>1, <1>4, <2>1 DEF UnheardWith
<1>5. CASE e.kind \notin {"move", "text", "scroll"}
  BY <1>1, <1>5 DEF UnheardWith
<1>6. QED BY <1>2, <1>3, <1>4, <1>5

LEMMA TypeStep ==
  ASSUME TypeInv, [Next]_vars
  PROVE  TypeInv'
<1>1. CASE User
  BY <1>1, UserTypes
<1>2. ASSUME NEW m \in Monitors, FrameArrives(m) PROVE TypeInv'
  <2>1. WindowOK'
    BY <1>2, WindowStep
  <2>2. CASE shown # None
    <3>1. Spawns({})
      BY <1>2, <2>2 DEF FrameArrives, Act, Spawns
    <3>2. acts' = acts + 1 /\ UNCHANGED <<entered, turned>>
      BY <1>2, <3>1 DEF FrameArrives, Spawns
    <3>3. entered' \in entered .. acts' /\ turned' \in [halves : Int, times : 0 .. acts']
      BY <3>2, InputAssumption DEF TypeInv, TypeOK, Counted
    <3>4. QED BY <2>1, <3>1, <3>3, SpawnTypes
  <2>3. CASE shown = None
    BY <1>2, <2>1, <2>3
    DEF FrameArrives, WindowOK, TypeInv, TypeOK, IdsApart, SecondIsText, EnteredOnly,
        Numbered, Counted, Unreached, desktop
  <2>4. QED BY <2>2, <2>3
<1>3. ASSUME NEW t \in tasks, Send(t) PROVE TypeInv'
  <2>1. t.event \in InputEvents /\ channel \in Seq(InputEvents)
    BY DEF TypeInv, TypeOK
  <2>2. /\ channel' \in Seq(InputEvents) /\ (link' # "open" => channel' = << >>)
        /\ \A i \in DOMAIN channel' : channel'[i] = t.event
             \/ (i \in DOMAIN channel /\ channel'[i] = channel[i])
    <3>1. CASE link = "open"
      BY <1>3, <2>1, <3>1, AppendProperties, LenProperties DEF Send
    <3>2. CASE link # "open"
      BY <1>3, <2>1, <3>2 DEF Send, TypeInv, TypeOK
    <3>3. QED BY <3>1, <3>2
  <2>3. /\ tasks' \subseteq tasks /\ overtaken' \in BOOLEAN
        /\ UNCHANGED <<window, link, desktop, acts, entered, turned, fresh, missed, failed>>
    BY <1>3 DEF Send
  <2>4. unheard' \in [char : 0 .. MaxActs, lines : Int, move : BOOLEAN]
    BY <1>3, <2>1, UnheardTypes DEF Send, TypeInv, TypeOK
  <2>5. TypeOK'
    BY <2>2, <2>3, <2>4 DEF TypeInv, TypeOK, window, desktop
  <2>6. QED BY <2>2, <2>3, <2>5
            DEF TypeInv, IdsApart, SecondIsText, EnteredOnly, Numbered, Counted, Unreached,
                desktop
<1>4. CASE Close
  <2>1. << >> \in Seq(InputEvents) /\ DOMAIN << >> = {}
    OBVIOUS
  <2>2. QED BY <1>4, <2>1 DEF Close, TypeInv, TypeOK, IdsApart, SecondIsText, EnteredOnly,
        Numbered, Counted, Unreached, window, desktop
<1>5. CASE HandleInput
  BY <1>5, HandleTypes
<1>6. CASE UNCHANGED vars
  BY <1>6 DEF vars, TypeInv, TypeOK, IdsApart, SecondIsText, EnteredOnly,
        Numbered, Counted, Unreached, window, desktop
<1>7. CASE LinkOpens
  BY <1>7 DEF LinkOpens, TypeInv, TypeOK, IdsApart, SecondIsText, EnteredOnly,
        Numbered, Counted, Unreached, window, desktop
<1>8. QED BY <1>1, <1>2, <1>3, <1>4, <1>5, <1>6, <1>7 DEF Next, NothingLeft

-----------------------------------------------------------------------------
(* The order of events. *)

Before(t) == {u \in tasks : Older(u, t)}

Clean == link # "closed" /\ ~overtaken /\ ~failed

\* Presses and releases of x.
Switches(x) == {e \in InputEvents : e.kind \in {"press", "release"} /\ e.arg = x}
Releases(x) == {e \in InputEvents : e.kind = "release" /\ e.arg = x}

\* What the user let go will be released in the end.
HeldInv ==
  \A x \in Things \ (held \cup missed) :
    LastOf(tasks, channel, Switches(x), Releases(x), x \notin host_held)

Moves == {e \in InputEvents : e.kind = "move"}
MovesTo(x) == {e \in Moves : e.arg = x}
MovesOnto(aim) == {e \in Moves : Hits(e.arg, aim)}

Amount(e) == IF e.kind = "scroll" THEN e.arg ELSE 0

Aimed(e) == e.kind = "press" /\ e.aim # None

\* Every move so far was lost, and one was.
Unmoved == unheard.move /\ host_pointer = None

PointsTo(x) == host_pointer = x \/ Unmoved
PointsOnto(aim) == Hits(host_pointer, aim) \/ Unmoved

\* The pointer will be where it was captured last, and every press comes after
\* the move to its aim.
PointerInv ==
  /\ fresh => LET x == remote_coords(pointer, shown)
              IN  LastOf(tasks, channel, Moves, MovesTo(x), PointsTo(x))
  /\ \A t \in tasks : Aimed(t.event) =>
       LET aim == t.event.aim
       IN  LastOf(Before(t), channel, Moves, MovesOnto(aim), PointsOnto(aim))
  /\ \A i \in DOMAIN channel : Aimed(channel[i]) =>
       LET aim == channel[i].aim
       IN  LastIn(channel, i - 1, Moves, MovesOnto(aim), PointsOnto(aim))

Texts == {e \in InputEvents : e.kind = "text" /\ e.arg \notin Printable}
TextsOf(c) == {e \in Texts : e.arg = c}
Ends(text, b, c) == LastCharacter(text, Len(text), b, c)
Typed(c) == Ends(typed, unheard.char, c)

\* The character entered last will be the last, and every character comes right
\* after the one entered before it.
TextInv ==
  /\ LastOf(tasks, channel, Texts, TextsOf(entered), Typed(entered))
  /\ \A t \in tasks : t.event \in Texts =>
       LET c == t.event.arg - 1
       IN  LastOf(Before(t), channel, Texts, TextsOf(c), Typed(c))
  /\ \A i \in DOMAIN channel : channel[i] \in Texts =>
       LET c == channel[i].arg - 1
       IN  LastIn(channel, i - 1, Texts, TextsOf(c), Typed(c))

OrderInv ==
  /\ ClickHitsTarget /\ TypedAsEntered
  /\ Clean => HeldInv /\ PointerInv /\ TextInv

\* An act of the user changes nothing for what was spawned before, and what it
\* spawns first comes after all of it.
LEMMA BeforeSpawned ==
  ASSUME TypeInv, NEW N, Spawns(N)
  PROVE  /\ \A t \in tasks : Before(t)' = Before(t)
         /\ \A n \in N : n.id[2] = 1 => Before(n)' = tasks
<1>1. tasks' = tasks \cup N
  BY DEF Spawns
<1>2. ASSUME NEW t \in tasks PROVE Before(t)' = Before(t)
  BY <1>1, Spawned DEF Before
<1>3. ASSUME NEW n \in N, n.id[2] = 1 PROVE Before(n)' = tasks
  <2>1. \A u \in N : ~ Older(u, n)
    BY <1>3, Spawned DEF TaskOK, Older
  <2>2. QED BY <1>1, <1>3, <2>1, Spawned DEF Before
<1>4. QED BY <1>2, <1>3

\* The oldest task is before all others, and sending it removes it there.
LEMMA BeforeSent ==
  ASSUME TypeInv, NEW t \in tasks, Send(t), ~ overtaken'
  PROVE  /\ \A u \in tasks \ {t} : Older(t, u)
         /\ Before(t) = {}
         /\ \A u \in tasks' : u \in tasks /\ t \in Before(u) /\ Before(u)' = Before(u) \ {t}
<1>1. tasks' = tasks \ {t} /\ \A u \in tasks : ~ Older(u, t)
  BY DEF Send
<1>2. \A u \in tasks \ {t} : Older(t, u)
  BY <1>1, Ordered
<1>3. QED BY <1>1, <1>2 DEF Before

LEMMA HeldSpawns ==
  ASSUME TypeInv, HeldInv, NEW N, Spawns(N),
         \A x \in Things \ (held' \cup missed') :
           \/ x \notin held \cup missed /\ \A n \in N : n.event \notin Switches(x)
           \/ \E n \in N : N = {n} /\ n.event \in Releases(x)
  PROVE  HeldInv'
<1> SUFFICES ASSUME NEW x \in Things \ (held' \cup missed')
             PROVE  LastOf(tasks', channel', Switches(x), Releases(x), x \notin host_held')
  BY DEF HeldInv
<1>1. tasks' = tasks \cup N /\ channel' = channel /\ host_held' = host_held
  BY DEF Spawns, desktop
<1>2. \A s \in tasks, n \in N : ~ Older(n, s)
  BY Spawned
<1>3. CASE x \notin held \cup missed /\ \A n \in N : n.event \notin Switches(x)
  BY <1>1, <1>2, <1>3, LastOfOthers DEF HeldInv
<1>4. ASSUME NEW n \in N, N = {n}, n.event \in Releases(x)
      PROVE  LastOf(tasks', channel', Switches(x), Releases(x), x \notin host_held')
  <2>1. \A u \in N : ~ Older(n, u)
    BY <1>4, Spawned DEF TaskOK, Older
  <2>2. QED BY <1>1, <1>2, <1>4, <2>1, LastOfNew
<1>5. QED BY <1>3, <1>4

LEMMA HeldUser ==
  ASSUME TypeInv, HeldInv, User
  PROVE  HeldInv'
<1>1. CASE Unsent
  BY <1>1, HeldSpawns DEF Unsent
<1>2. ASSUME NEW p, SentMove(p) PROVE HeldInv'
  <2> DEFINE n == Task(1, Move(remote_coords(p, shown)))
  <2>1. \A x : n.event \notin Switches(x)
    BY DEF Task, Move, Switches
  <2>2. QED BY <1>2, <2>1, HeldSpawns DEF SentMove
<1>3. ASSUME NEW y, NEW a, SentPress(y, a) PROVE HeldInv'
  <2>1. \A x \in Things \ (held' \cup missed') : x # y /\ x \notin held \cup missed
    BY <1>3 DEF SentPress
  <2>2. \A x : x # y => Task(1, Press(y, a)).event \notin Switches(x)
    BY DEF Task, Press, Switches
  <2>3. \A x, k : Task(2, Text(k)).event \notin Switches(x)
    BY DEF Task, Text, Switches
  <2>4. ASSUME NEW N, Spawns(N), \A n \in N : n = Task(1, Press(y, a))
                                       \/ \E k \in Printable : n = Task(2, Text(k))
        PROVE  HeldInv'
    BY <2>1, <2>2, <2>3, <2>4, HeldSpawns
  <2>5. QED BY <1>3, <2>4 DEF SentPress
<1>4. ASSUME NEW y, SentRelease(y) PROVE HeldInv'
  <2> DEFINE n == Task(1, Release(y))
  <2>1. \A x : x # y => n.event \notin Switches(x)
    BY DEF Task, Release, Switches
  <2>2. n.event \in Releases(y)
    BY <1>4, Events DEF SentRelease, Task, Release, Releases
  <2>3. \A x \in Things \ (held' \cup missed') : x # y => x \notin held \cup missed
    BY <1>4 DEF SentRelease
  <2>4. Spawns({n})
    BY <1>4 DEF SentRelease
  <2> HIDE DEF n
  <2>5. QED BY <2>1, <2>2, <2>3, <2>4, HeldSpawns
<1>5. CASE SentText
  <2>1. \A x, c : Task(1, Text(c)).event \notin Switches(x)
    BY DEF Task, Text, Switches
  <2>2. QED BY <1>5, <2>1, HeldSpawns DEF SentText, window
<1>6. ASSUME NEW d, SentScroll(d) PROVE HeldInv'
  <2>1. \A x, c : Task(1, Wheel(c)).event \notin Switches(x)
    BY DEF Task, Wheel, Switches
  <2>2. QED BY <1>6, <2>1, HeldSpawns DEF SentScroll, window
<1>7. QED BY <1>1, <1>2, <1>3, <1>4, <1>5, <1>6, UserActs

\* A point of the picture of a monitor is captured: the act is a move there.
LEMMA PointerSpawns ==
  ASSUME TypeInv, PointerInv, NEW N, Spawns(N),
         \A n \in N : /\ n.event \notin Moves
                      /\ Aimed(n.event) =>
                           /\ n.id[2] = 1
                           /\ fresh /\ shown \in Monitors /\ pointer \in 0 .. Width
                           /\ n.event.aim = Pointed(pointer, shown),
         fresh' => fresh /\ UNCHANGED <<pointer, shown>>
  PROVE  PointerInv'
<1>1. /\ tasks' = tasks \cup N /\ channel' = channel
      /\ \A s \in tasks, n \in N : ~ Older(n, s)
      /\ \A x : PointsTo(x)' = PointsTo(x) /\ PointsOnto(x)' = PointsOnto(x)
  BY Spawned DEF Spawns, desktop, PointsTo, PointsOnto, Unmoved
<1>2. \A x : fresh /\ x = remote_coords(pointer, shown) =>
        LastOf(tasks, channel, Moves, MovesTo(x), PointsTo(x))
  BY DEF PointerInv
<1>3. ASSUME fresh', NEW x, x = remote_coords(pointer', shown')
      PROVE  LastOf(tasks', channel', Moves, MovesTo(x), PointsTo(x)')
  BY <1>1, <1>2, <1>3, LastOfOthers
<1>4. ASSUME NEW t \in tasks', Aimed(t.event), NEW aim, aim = t.event.aim
      PROVE  LastOf(Before(t)', channel', Moves, MovesOnto(aim), PointsOnto(aim)')
  <2>1. CASE t \in tasks
    BY <1>1, <1>4, <2>1, BeforeSpawned DEF PointerInv
  <2>2. CASE t \in N
    <3> DEFINE x == remote_coords(pointer, shown)
    <3>1. Before(t)' = tasks /\ aim = Pointed(pointer, shown) /\ fresh
      BY <1>4, <2>2, BeforeSpawned
    <3>2. Hits(x, aim)
      BY <1>4, <2>2, <3>1, InMonitor
    <3>3. LastOf(tasks, channel, Moves, MovesTo(x), PointsTo(x))
      BY <1>2, <3>1
    <3> HIDE DEF x
    <3>4. MovesTo(x) \subseteq MovesOnto(aim) /\ (PointsTo(x) => PointsOnto(aim))
      BY <3>2 DEF MovesTo, MovesOnto, PointsTo, PointsOnto
    <3>5. LastOf(tasks, channel, Moves, MovesOnto(aim), PointsOnto(aim))
      BY <3>3, <3>4, LastOfWeakened
    <3>6. QED BY <1>1, <3>1, <3>5
  <2>3. QED BY <1>1, <2>1, <2>2
<1>5. QED BY <1>1, <1>3, <1>4 DEF PointerInv

LEMMA PointerUser ==
  ASSUME TypeInv, PointerInv, User
  PROVE  PointerInv'
<1>1. CASE Unsent
  BY <1>1, PointerSpawns DEF Unsent
<1>2. ASSUME NEW p, SentMove(p), NEW x, x = remote_coords(p, shown) PROVE PointerInv'
  <2> DEFINE n == Task(1, Move(x))
  <2>1. /\ tasks' = tasks \cup {n} /\ channel' = channel
        /\ \A s \in tasks : ~ Older(n, s)
        /\ remote_coords(pointer', shown') = x
        /\ \A y : PointsTo(y)' = PointsTo(y) /\ PointsOnto(y)' = PointsOnto(y)
    BY <1>2, Spawned, ZenonT(40) DEF SentMove, Spawns, desktop, PointsTo, PointsOnto, Unmoved
  <2>2. n.event \in MovesTo(x) /\ ~ Aimed(n.event) /\ ~ Older(n, n)
    <3>1. x \in Coordinates
      BY <1>2, InMonitor, Columns DEF SentMove
    <3>2. /\ acts \in Nat /\ n.event = Move(x) /\ n.id = <<acts, 1>>
      BY DEF Task, TypeInv, TypeOK
    <3>3. QED BY <3>1, <3>2, Events DEF Move, Moves, MovesTo, Aimed, Older
  <2>3. \A t \in tasks : Before(t)' = Before(t)
    BY <1>2, BeforeSpawned DEF SentMove
  <2> HIDE DEF n
  <2>4. LastOf(tasks', channel', Moves, MovesTo(x), PointsTo(x)')
    BY <2>1, <2>2, LastOfNew
  <2>5. QED BY <2>1, <2>2, <2>3, <2>4 DEF PointerInv
<1>3. ASSUME NEW y, NEW a, SentPress(y, a) PROVE PointerInv'
  <2>1. LET n == Task(1, Press(y, a)) IN
          n.event \notin Moves /\ n.id[2] = 1 /\ n.event.aim = a
    BY DEF Task, Press, Moves
  <2>2. \A k : LET n == Task(2, Text(k)) IN n.event \notin Moves /\ ~ Aimed(n.event)
    BY DEF Task, Text, Moves, Aimed
  <2>3. ASSUME NEW N, Spawns(N), \A n \in N : n = Task(1, Press(y, a))
                                       \/ \E k \in Printable : n = Task(2, Text(k))
        PROVE  PointerInv'
    <3>1. \A n \in N : /\ n.event \notin Moves
                       /\ Aimed(n.event) =>
                            /\ n.id[2] = 1
                            /\ fresh /\ shown \in Monitors /\ pointer \in 0 .. Width
                            /\ n.event.aim = Pointed(pointer, shown)
      BY <1>3, <2>1, <2>2, <2>3 DEF SentPress, Aimed
    <3>2. QED BY <1>3, <2>3, <3>1, PointerSpawns DEF SentPress
  <2>4. QED BY <1>3, <2>3 DEF SentPress
<1>4. ASSUME NEW y, SentRelease(y) PROVE PointerInv'
  <2>1. LET n == Task(1, Release(y)) IN n.event \notin Moves /\ ~ Aimed(n.event)
    BY DEF Task, Release, Moves, Aimed
  <2>2. QED BY <1>4, <2>1, PointerSpawns DEF SentRelease
<1>5. CASE SentText
  <2>1. \A c : LET n == Task(1, Text(c)) IN n.event \notin Moves /\ ~ Aimed(n.event)
    BY DEF Task, Text, Moves, Aimed
  <2>2. QED BY <1>5, <2>1, PointerSpawns DEF SentText, window
<1>6. ASSUME NEW d, SentScroll(d) PROVE PointerInv'
  <2>1. \A c : LET n == Task(1, Wheel(c)) IN n.event \notin Moves /\ ~ Aimed(n.event)
    BY DEF Task, Wheel, Moves, Aimed
  <2>2. QED BY <1>6, <2>1, PointerSpawns DEF SentScroll, window
<1>7. QED BY <1>1, <1>2, <1>3, <1>4, <1>5, <1>6, UserActs

LEMMA TextSpawns ==
  ASSUME TypeInv, TextInv, NEW N, Spawns(N), UNCHANGED entered,
         \A n \in N : n.event \notin Texts
  PROVE  TextInv'
<1>1. /\ tasks' = tasks \cup N /\ channel' = channel /\ \A c : Typed(c)' = Typed(c)
      /\ \A s \in tasks, n \in N : ~ Older(n, s)
  BY Spawned DEF Spawns, desktop, Typed
<1>2. LastOf(tasks', channel', Texts, TextsOf(entered'), Typed(entered)')
  BY <1>1, LastOfOthers DEF TextInv
<1>3. \A t \in tasks' : t.event \in Texts => t \in tasks /\ Before(t)' = Before(t)
  BY <1>1, BeforeSpawned
<1>4. QED BY <1>1, <1>2, <1>3 DEF TextInv

LEMMA TextUser ==
  ASSUME TypeInv, TextInv, User
  PROVE  TextInv'
<1>1. CASE Unsent
  BY <1>1, TextSpawns DEF Unsent
<1>2. ASSUME NEW p, SentMove(p) PROVE TextInv'
  <2>1. \A x : Task(1, Move(x)).event \notin Texts
    BY DEF Task, Move, Texts
  <2>2. QED BY <1>2, <2>1, TextSpawns DEF SentMove
<1>3. ASSUME NEW y, NEW a, SentPress(y, a) PROVE TextInv'
  <2>1. Task(1, Press(y, a)).event \notin Texts
    BY DEF Task, Press, Texts
  <2>2. \A k \in Printable : Task(2, Text(k)).event \notin Texts
    BY DEF Task, Text, Texts
  <2>3. QED BY <1>3, <2>1, <2>2, TextSpawns DEF SentPress
<1>4. ASSUME NEW y, SentRelease(y) PROVE TextInv'
  <2>1. Task(1, Release(y)).event \notin Texts
    BY DEF Task, Release, Texts
  <2>2. QED BY <1>4, <2>1, TextSpawns DEF SentRelease
<1>5. ASSUME NEW d, SentScroll(d) PROVE TextInv'
  <2>1. \A c : Task(1, Wheel(c)).event \notin Texts
    BY DEF Task, Wheel, Texts
  <2>2. QED BY <1>5, <2>1, TextSpawns DEF SentScroll
<1>6. ASSUME SentText, NEW n, n = Task(1, Text(entered')) PROVE TextInv'
  <2>1. /\ tasks' = tasks \cup {n} /\ channel' = channel /\ \A c : Typed(c)' = Typed(c)
        /\ \A s \in tasks : ~ Older(n, s)
    BY <1>6, Spawned, ZenonT(40) DEF SentText, Spawns, desktop, Typed
  <2>2. /\ acts \in Nat /\ n.event = Text(entered') /\ n.id = <<acts, 1>>
        /\ entered \in Nat /\ entered' = entered + 1 /\ entered' \in 1 .. MaxActs
    BY <1>6, InputAssumption
    DEF SentText, Spawns, Task, TypeInv, TypeOK, Counted
  <2>3. n.event \in TextsOf(entered') /\ n.event.arg = entered' /\ ~ Older(n, n)
    BY <2>2, Events, InputAssumption DEF Text, Texts, TextsOf, Older
  <2>4. (\A t \in tasks : Before(t)' = Before(t)) /\ Before(n)' = tasks
    BY <1>6, <2>2, BeforeSpawned DEF SentText
  <2>5. LastOf(tasks', channel', Texts, TextsOf(entered'), Typed(entered)')
    BY <2>1, <2>3, LastOfNew
  <2>6. LET c == n.event.arg - 1
        IN  LastOf(Before(n)', channel', Texts, TextsOf(c), Typed(c)')
    <3>1. n.event.arg - 1 = entered
      BY <2>2, <2>3
    <3>2. QED BY <2>1, <2>4, <3>1 DEF TextInv
  <2>7. ASSUME NEW t \in tasks, t.event \in Texts
        PROVE  LET c == t.event.arg - 1
               IN  LastOf(Before(t)', channel', Texts, TextsOf(c), Typed(c)')
    BY <2>1, <2>4, <2>7 DEF TextInv
  <2>8. ASSUME NEW i \in DOMAIN channel, channel[i] \in Texts
        PROVE  LET c == channel[i].arg - 1
               IN  LastIn(channel', i - 1, Texts, TextsOf(c), Typed(c)')
    BY <2>1, <2>8 DEF TextInv
  <2>9. QED BY <2>1, <2>5, <2>6, <2>7, <2>8 DEF TextInv
<1>7. QED BY <1>1, <1>2, <1>3, <1>4, <1>5, <1>6, UserActs

-----------------------------------------------------------------------------
(* Sending. *)

\* What is lost with an event.
LEMMA Lost ==
  ASSUME TypeInv, NEW e \in InputEvents
  PROVE  LET u == UnheardWith(e) IN
         /\ unheard.move \/ e \in Moves => u.move
         /\ e \notin Moves => u.move = unheard.move
         /\ u.char = IF e \in Texts THEN e.arg ELSE unheard.char
         /\ u.lines = unheard.lines + Amount(e)
<1>1. unheard \in [char : 0 .. MaxActs, lines : Int, move : BOOLEAN]
  BY DEF TypeInv, TypeOK
<1>2. CASE e.kind = "move"
  <2>0. UnheardWith(e) = [unheard EXCEPT !.move = TRUE]
    BY <1>2 DEF UnheardWith
  <2>1. LET u == UnheardWith(e) IN
          u.move = TRUE /\ u.char = unheard.char /\ u.lines = unheard.lines
    BY <1>1, <2>0
  <2>2. Amount(e) = 0 /\ e \in Moves /\ e \notin Texts
    BY <1>2 DEF Amount, Moves, Texts
  <2>3. QED BY <1>1, <2>1, <2>2
<1>3. CASE e.kind = "text"
  BY <1>1, <1>3 DEF UnheardWith, Moves, Texts, Amount
<1>4. CASE e.kind = "scroll"
  BY <1>1, <1>4 DEF UnheardWith, Moves, Texts, Amount
<1>5. CASE e.kind \notin {"move", "text", "scroll"}
  <2>1. UnheardWith(e) = unheard
    BY <1>5 DEF UnheardWith
  <2>2. Amount(e) = 0 /\ e \notin Moves /\ e \notin Texts
    BY <1>5 DEF Amount, Moves, Texts
  <2>3. QED BY <1>1, <2>1, <2>2
<1>6. QED BY <1>2, <1>3, <1>4, <1>5

\* What is last of some tasks is last when the oldest of them has been sent, or
\* holds on the host now if it was lost.
LEMMA LastSends ==
  ASSUME TypeInv, NEW t \in tasks, Send(t), Clean',
         NEW S \in SUBSET tasks, t \in S,
         NEW R, NEW G, G \subseteq R, NEW ok, NEW now, LastOf(S, channel, R, G, ok),
         link = "open" => (ok => now),
         link = "connecting" =>
           (t.event \in G => now) /\ (t.event \notin R => (ok => now))
  PROVE  LastOf(S \ {t}, channel', R, G, now)
<1>1. \A u \in S \ {t} : Older(t, u)
  BY BeforeSent DEF Clean
<1>2. channel \in Seq(InputEvents) /\ t.event \in InputEvents
  BY DEF TypeInv, TypeOK
<1>3. CASE link = "open"
  <2>1. channel' = Append(channel, t.event)
    BY <1>3 DEF Send
  <2>2. LastOf(S \ {t}, channel', R, G, ok)
    BY <1>1, <1>2, <2>1, LastOfSent
  <2>3. QED BY <1>3, <2>2, LastOfWeakened
<1>4. CASE link = "connecting"
  <2>1. channel = << >> /\ channel' = << >>
    BY <1>4 DEF Send, TypeInv, TypeOK
  <2>2. QED BY <1>1, <1>4, <2>1, LastOfDropped
<1>5. QED BY <1>3, <1>4 DEF Clean, Send, TypeInv, TypeOK

\* What is before the oldest task, and what was on the channel, stays there.
LEMMA ChannelSends ==
  ASSUME TypeInv, NEW t \in tasks, Send(t), Clean', NEW i \in DOMAIN channel'
  PROVE  /\ \/ i = Len(channel) + 1 /\ channel'[i] = t.event
            \/ i \in DOMAIN channel /\ channel'[i] = channel[i]
         /\ \A R, G, ok : LastIn(channel, i - 1, R, G, ok)
                            => LastIn(channel', i - 1, R, G, ok)
         /\ unheard' = unheard
<1>1. link = "open"
  <2>1. DOMAIN << >> = {}
    OBVIOUS
  <2>2. QED BY <2>1 DEF Send, TypeInv, TypeOK
<1>2. channel' = Append(channel, t.event) /\ unheard' = unheard
  BY <1>1 DEF Send
<1>3. channel \in Seq(InputEvents) /\ t.event \in InputEvents
  BY DEF TypeInv, TypeOK
<1>4. /\ Len(channel) \in Nat /\ DOMAIN channel = 1 .. Len(channel)
      /\ i \in 1 .. Len(channel) + 1
      /\ channel'[i] = IF i = Len(channel) + 1 THEN t.event ELSE channel[i]
  BY <1>2, <1>3, AppendProperties, LenProperties
<1>5. i - 1 \in 0 .. Len(channel)
  BY <1>4
<1>6. QED BY <1>2, <1>3, <1>4, <1>5, LastInAppend

LEMMA HeldSends ==
  ASSUME TypeInv, HeldInv, NEW t \in tasks, Send(t), Clean'
  PROVE  HeldInv'
<1>1. tasks' = tasks \ {t} /\ UNCHANGED <<held, missed, host_held>>
  BY DEF Send, window, desktop
<1>2. \A x : Releases(x) \subseteq Switches(x)
  BY DEF Releases, Switches
<1>3. link = "connecting" => host_held' = {}
  BY <1>1 DEF TypeInv, Unreached
<1>4. QED BY <1>1, <1>2, <1>3, LastSends DEF HeldInv

LEMMA PointerSends ==
  ASSUME TypeInv, PointerInv, NEW t \in tasks, Send(t), Clean'
  PROVE  PointerInv'
<1>1. /\ tasks' = tasks \ {t} /\ UNCHANGED <<fresh, pointer, shown>>
      /\ unheard' = unheard => \A x : PointsTo(x)' = PointsTo(x)
                                     /\ PointsOnto(x)' = PointsOnto(x)
  BY DEF Send, window, desktop, PointsTo, PointsOnto, Unmoved
<1>2. \A x : MovesTo(x) \subseteq Moves /\ MovesOnto(x) \subseteq Moves
  BY DEF MovesTo, MovesOnto
<1>0. /\ link = "open" => unheard' = unheard
      /\ link = "connecting" =>
           /\ t.event \in Moves => \A x : PointsTo(x)' /\ PointsOnto(x)'
           /\ t.event \notin Moves => \A x : PointsTo(x)' = PointsTo(x)
                                            /\ PointsOnto(x)' = PointsOnto(x)
  <2>1. link = "open" => unheard' = unheard
    BY DEF Send
  <2>2. CASE link = "connecting"
    <3>1. host_pointer = None /\ host_pointer' = None /\ t.event \in InputEvents
      BY <2>2 DEF Send, desktop, TypeInv, TypeOK, Unreached
    <3>2. /\ t.event \in Moves => unheard'.move
          /\ t.event \notin Moves => unheard'.move = unheard.move
      BY <2>2, <3>1, Lost DEF Send
    <3>3. QED BY <3>1, <3>2, <2>1 DEF PointsTo, PointsOnto, Unmoved
  <2>3. QED BY <2>1, <2>2
<1>3. ASSUME fresh', NEW x, x = remote_coords(pointer', shown')
      PROVE  LastOf(tasks', channel', Moves, MovesTo(x), PointsTo(x)')
  BY <1>0, <1>1, <1>2, <1>3, LastSends DEF PointerInv
<1>4. ASSUME NEW u \in tasks', Aimed(u.event), NEW aim, aim = u.event.aim
      PROVE  LastOf(Before(u)', channel', Moves, MovesOnto(aim), PointsOnto(aim)')
  <2>1. u \in tasks /\ t \in Before(u) /\ Before(u)' = Before(u) \ {t}
    BY BeforeSent DEF Clean
  <2>2. LastOf(Before(u), channel, Moves, MovesOnto(aim), PointsOnto(aim))
    BY <1>4, <2>1 DEF PointerInv
  <2>3. Before(u) \in SUBSET tasks
    BY DEF Before
  <2>4. QED BY <1>0, <1>1, <1>2, <2>1, <2>2, <2>3, LastSends
<1>5. ASSUME NEW i \in DOMAIN channel', Aimed(channel'[i]),
             NEW aim, aim = channel'[i].aim
      PROVE  LastIn(channel', i - 1, Moves, MovesOnto(aim), PointsOnto(aim)')
  <2>1. LastIn(channel, i - 1, Moves, MovesOnto(aim), PointsOnto(aim))
    <3>1. CASE i = Len(channel) + 1 /\ channel'[i] = t.event
      <4>1. LastOf({}, channel, Moves, MovesOnto(aim), PointsOnto(aim))
        BY <1>5, <3>1, BeforeSent DEF PointerInv, Clean
      <4>2. i - 1 = Len(channel)
        BY <3>1, LenProperties DEF TypeInv, TypeOK
      <4>3. QED BY <4>1, <4>2 DEF LastOf
    <3>2. CASE i \in DOMAIN channel /\ channel'[i] = channel[i]
      BY <1>5, <3>2 DEF PointerInv
    <3>3. QED BY <3>1, <3>2, ChannelSends
  <2>2. QED BY <1>1, <2>1, ChannelSends
<1>6. QED BY <1>3, <1>4, <1>5 DEF PointerInv

LEMMA TextSends ==
  ASSUME TypeInv, TextInv, NEW t \in tasks, Send(t), Clean'
  PROVE  TextInv'
<1>1. /\ tasks' = tasks \ {t} /\ UNCHANGED <<entered, typed>>
      /\ unheard' = unheard => \A c : Typed(c)' = Typed(c)
  BY DEF Send, window, desktop, Typed
<1>2. \A c : TextsOf(c) \subseteq Texts
  BY DEF TextsOf
<1>0. /\ link = "open" => unheard' = unheard
      /\ link = "connecting" =>
           /\ \A c : t.event \in TextsOf(c) => Typed(c)'
           /\ t.event \notin Texts => \A c : Typed(c)' = Typed(c)
  <2>1. link = "open" => unheard' = unheard
    BY DEF Send
  <2>2. CASE link = "connecting"
    <3>1. typed' = typed /\ typed = << >> /\ Len(<< >>) = 0 /\ t.event \in InputEvents
      BY <2>2 DEF Send, desktop, TypeInv, TypeOK, Unreached
    <3>2. unheard'.char = IF t.event \in Texts THEN t.event.arg ELSE unheard.char
      BY <2>2, <3>1, Lost DEF Send
    <3>3. QED BY <3>1, <3>2, <2>1 DEF Typed, Ends, LastCharacter, TextsOf
  <2>3. QED BY <2>1, <2>2
<1>3. LastOf(tasks', channel', Texts, TextsOf(entered'), Typed(entered)')
  BY <1>0, <1>1, <1>2, LastSends DEF TextInv
<1>4. ASSUME NEW u \in tasks', u.event \in Texts, NEW c, c = u.event.arg - 1
      PROVE  LastOf(Before(u)', channel', Texts, TextsOf(c), Typed(c)')
  <2>1. u \in tasks /\ t \in Before(u) /\ Before(u)' = Before(u) \ {t}
    BY BeforeSent DEF Clean
  <2>2. LastOf(Before(u), channel, Texts, TextsOf(c), Typed(c))
    BY <1>4, <2>1 DEF TextInv
  <2>3. Before(u) \in SUBSET tasks
    BY DEF Before
  <2>4. QED BY <1>0, <1>1, <1>2, <2>1, <2>2, <2>3, LastSends
<1>5. ASSUME NEW i \in DOMAIN channel', channel'[i] \in Texts,
             NEW c, c = channel'[i].arg - 1
      PROVE  LastIn(channel', i - 1, Texts, TextsOf(c), Typed(c)')
  <2>1. LastIn(channel, i - 1, Texts, TextsOf(c), Typed(c))
    <3>1. CASE i = Len(channel) + 1 /\ channel'[i] = t.event
      <4>1. LastOf({}, channel, Texts, TextsOf(c), Typed(c))
        BY <1>5, <3>1, BeforeSent DEF TextInv, Clean
      <4>2. i - 1 = Len(channel)
        BY <3>1, LenProperties DEF TypeInv, TypeOK
      <4>3. QED BY <4>1, <4>2 DEF LastOf
    <3>2. CASE i \in DOMAIN channel /\ channel'[i] = channel[i]
      BY <1>5, <3>2 DEF TextInv
    <3>3. QED BY <3>1, <3>2, ChannelSends
  <2>2. QED BY <1>1, <2>1, ChannelSends
<1>6. QED BY <1>1, <1>3, <1>4, <1>5 DEF TextInv

-----------------------------------------------------------------------------
(* Handling. *)

\* An event is taken from the channel and applied.
LEMMA Takes ==
  ASSUME TypeInv, HandleInput, Clean'
  PROVE  /\ Clean /\ apply(Head(channel)) /\ Head(channel) \in InputEvents
         /\ channel \in Seq(InputEvents) /\ channel # << >>
         /\ channel' = Tail(channel)
         /\ 1 \in DOMAIN channel /\ channel[1] = Head(channel)
         /\ \A i \in DOMAIN channel' :
              /\ i \in 1 .. Len(channel) /\ i + 1 \in DOMAIN channel
              /\ channel'[i] = channel[i + 1] /\ (i + 1) - 1 = i
         /\ UNCHANGED <<window, tasks, entered, fresh, missed, unheard>>
<1>1. /\ Clean /\ apply(Head(channel)) /\ channel # << >> /\ channel' = Tail(channel)
      /\ UNCHANGED <<window, tasks, entered, fresh, missed, unheard>>
  BY DEF HandleInput, Clean
<1>2. channel \in Seq(InputEvents)
  BY DEF TypeInv, TypeOK
<1>3. /\ Len(channel) \in Nat /\ Len(channel) > 0 /\ Head(channel) = channel[1]
      /\ channel' \in Seq(InputEvents) /\ Len(channel') = Len(channel) - 1
      /\ \A i \in 1 .. Len(channel') : channel'[i] = channel[i + 1]
  BY <1>1, <1>2, HeadTailProperties, EmptySeq, LenProperties
<1>4. DOMAIN channel = 1 .. Len(channel) /\ DOMAIN channel' = 1 .. Len(channel')
  BY <1>2, <1>3, LenProperties
<1>5. QED BY <1>1, <1>2, <1>3, <1>4, ElementOfSeq

\* What is last stays last, or holds on the host now.
LEMMA LastTaken ==
  ASSUME TypeInv, HandleInput, Clean', NEW R, NEW G, NEW ok, NEW now,
         Head(channel) \in G => now, Head(channel) \notin R => (ok => now)
  PROVE  /\ \A S : LastOf(S, channel, R, G, ok) => LastOf(S, channel', R, G, now)
         /\ \A i \in DOMAIN channel' :
              LastIn(channel, i, R, G, ok) => LastIn(channel', i - 1, R, G, now)
<1>1. /\ channel \in Seq(InputEvents) /\ channel # << >>
      /\ channel' = Tail(channel)
      /\ \A i \in DOMAIN channel' : i \in 1 .. Len(channel)
  BY Takes
<1>2. \A S : LastOf(S, channel, R, G, ok) => LastOf(S, channel', R, G, now)
  BY <1>1, LastOfHandled
<1>3. \A i \in DOMAIN channel' :
        LastIn(channel, i, R, G, ok) => LastIn(channel', i - 1, R, G, now)
  BY <1>1, LastInTail
<1>4. QED BY <1>2, <1>3

LEMMA HeldHandles ==
  ASSUME TypeInv, HeldInv, HandleInput, Clean'
  PROVE  HeldInv'
<1> DEFINE e == Head(channel)
<1>1. UNCHANGED <<held, missed, tasks>> /\ apply(e) /\ e \in InputEvents
  BY Takes DEF window
<1>2. ASSUME NEW x \in Things
      PROVE  /\ e \in Releases(x) => x \notin host_held'
             /\ e \notin Switches(x) => (x \notin host_held => x \notin host_held')
  <2> HIDE DEF e
  <2>1. QED BY <1>1, Applied DEF Releases, Switches, Move, Press, Release, Text, Wheel
<1> HIDE DEF e
<1>3. ASSUME NEW x \in Things \ (held' \cup missed')
      PROVE  LastOf(tasks', channel', Switches(x), Releases(x), x \notin host_held')
  BY <1>1, <1>2, LastTaken DEF HeldInv, e
<1>4. QED BY <1>3 DEF HeldInv

LEMMA PointerHandles ==
  ASSUME TypeInv, PointerInv, HandleInput, Clean'
  PROVE  PointerInv'
<1> DEFINE e == Head(channel)
<1>1. /\ UNCHANGED <<fresh, pointer, shown, tasks, unheard>> /\ apply(e) /\ e \in InputEvents
      /\ \A u : Before(u)' = Before(u)
  BY Takes DEF window, Before
<1>2. ASSUME NEW x
      PROVE  /\ e \in MovesTo(x) => PointsTo(x)'
             /\ e \in MovesOnto(x) => PointsOnto(x)'
             /\ e \notin Moves => PointsTo(x)' = PointsTo(x) /\ PointsOnto(x)' = PointsOnto(x)
  <2> HIDE DEF e
  <2>1. e \in Moves => host_pointer' = e.arg
    BY <1>1, Applied DEF Moves, Move, Press, Release, Text, Wheel
  <2>2. e \notin Moves => host_pointer' = host_pointer
    BY <1>1, Applied DEF Moves, Move
  <2>3. QED BY <1>1, <2>1, <2>2 DEF MovesTo, MovesOnto, PointsTo, PointsOnto, Unmoved
<1> HIDE DEF e
<1>3. ASSUME fresh', NEW x, x = remote_coords(pointer', shown')
      PROVE  LastOf(tasks', channel', Moves, MovesTo(x), PointsTo(x)')
  BY <1>1, <1>2, <1>3, LastTaken DEF PointerInv, e
<1>4. ASSUME NEW u \in tasks', Aimed(u.event), NEW aim, aim = u.event.aim
      PROVE  LastOf(Before(u)', channel', Moves, MovesOnto(aim), PointsOnto(aim)')
  BY <1>1, <1>2, <1>4, LastTaken DEF PointerInv, e
<1>5. ASSUME NEW i \in DOMAIN channel', Aimed(channel'[i]),
             NEW aim, aim = channel'[i].aim
      PROVE  LastIn(channel', i - 1, Moves, MovesOnto(aim), PointsOnto(aim)')
  <2>1. LastIn(channel, i, Moves, MovesOnto(aim), PointsOnto(aim))
    BY <1>5, Takes DEF PointerInv
  <2>2. QED BY <1>2, <2>1, LastTaken DEF e
<1>6. QED BY <1>3, <1>4, <1>5 DEF PointerInv

\* A text grows by a character or a key.
LEMMA TextGrows ==
  ASSUME NEW T, NEW text \in Seq(T), NEW a \in T, NEW b
  PROVE  LET new == Append(text, a) IN
         /\ DOMAIN new = 1 .. Len(text) + 1 /\ Len(text) \in Nat
         /\ \A i \in DOMAIN text : new[i] = text[i]
         /\ new[Len(text) + 1] = a
         /\ \A n \in 0 .. Len(text) : \A c :
              LastCharacter(text, n, b, c) => LastCharacter(new, n, b, c)
         /\ Ends(new, b, a)
         /\ \A c : a \in Printable /\ Ends(text, b, c) => Ends(new, b, c)
<1> DEFINE new == Append(text, a)
<1>1. /\ Len(text) \in Nat /\ DOMAIN text = 1 .. Len(text) /\ Len(new) = Len(text) + 1
      /\ DOMAIN new = 1 .. Len(text) + 1
      /\ new[Len(text) + 1] = a /\ \A i \in 1 .. Len(text) : new[i] = text[i]
  BY AppendProperties, LenProperties
<1> HIDE DEF new
<1>2. \A n \in 0 .. Len(text) : \A c :
        LastCharacter(text, n, b, c) => LastCharacter(new, n, b, c)
  BY <1>1 DEF LastCharacter
<1>3. Ends(new, b, a)
  <2>1. Len(new) \in 1 .. Len(new) /\ \A j \in Len(new) + 1 .. Len(new) : new[j] \in Printable
    BY <1>1
  <2>2. QED BY <1>1, <2>1 DEF Ends, LastCharacter
<1>4. ASSUME NEW c, a \in Printable, Ends(text, b, c) PROVE Ends(new, b, c)
  <2>1. CASE c = b /\ \A i \in 1 .. Len(text) : text[i] \in Printable
    BY <1>1, <1>4, <2>1 DEF Ends, LastCharacter
  <2>2. ASSUME NEW i \in 1 .. Len(text), text[i] = c,
               \A j \in i + 1 .. Len(text) : text[j] \in Printable
        PROVE  Ends(new, b, c)
    <3>1. i \in 1 .. Len(new) /\ new[i] = c
      BY <1>1, <2>2
    <3>2. \A j \in i + 1 .. Len(new) : new[j] \in Printable
      BY <1>1, <1>4, <2>2
    <3>3. QED BY <3>1, <3>2 DEF Ends, LastCharacter
  <2>3. QED BY <1>4, <2>1, <2>2 DEF Ends, LastCharacter
<1>5. QED BY <1>1, <1>2, <1>3, <1>4 DEF new

\* What handling an event does to the text: nothing, a key or a character.
LEMMA HandlesText ==
  ASSUME TypeInv, HandleInput, Clean'
  PROVE  \/ typed' = typed /\ Head(channel) \notin Texts
         \/ \E k \in Printable : typed' = Append(typed, k) /\ Head(channel) \notin Texts
         \/ \E c \in 1 .. entered :
              typed' = Append(typed, c) /\ Head(channel) \in TextsOf(c)
<1> DEFINE e == Head(channel)
<1>1. apply(e) /\ e \in InputEvents /\ Numbered(e)
  BY Takes DEF TypeInv, EnteredOnly
<1> HIDE DEF e
<1>2. QED
  <2>1. e.kind # "press" /\ e.kind # "text" => typed' = typed /\ e \notin Texts
    BY <1>1, Applied DEF Texts, Move, Press, Release, Text, Wheel
  <2>2. e.kind = "press" =>
          e \notin Texts /\ (typed' = typed \/ \E k \in Printable : typed' = Append(typed, k))
    BY <1>1, Applied DEF Texts, Move, Press, Release, Text, Wheel
  <2>3. e.kind = "text" =>
          typed' = Append(typed, e.arg) /\ e.arg \in (1 .. entered) \cup Printable
    BY <1>1, Applied DEF Numbered, Move, Press, Release, Text, Wheel
  <2>4. QED BY <1>1, <2>1, <2>2, <2>3 DEF Texts, TextsOf, e

LEMMA TextHandles ==
  ASSUME TypeInv, TextInv, HandleInput, Clean'
  PROVE  TextInv'
<1> DEFINE e == Head(channel)
<1>1. UNCHANGED <<entered, tasks, unheard>> /\ \A u : Before(u)' = Before(u)
  BY Takes DEF Before
<1>2. typed \in Seq((1 .. entered) \cup Printable)
  BY DEF TypeInv, TypeOK
<1>0. \A c : /\ Typed(c) = Ends(typed, unheard.char, c)
            /\ Typed(c)' = Ends(typed', unheard.char, c)
  BY <1>1 DEF Typed
<1> DEFINE Follows(c) ==
             /\ e \in TextsOf(c) => Typed(c)'
             /\ e \notin Texts => (Typed(c) => Typed(c)')
<1>3. ASSUME NEW c PROVE Follows(c)
  <2>1. CASE typed' = typed /\ e \notin Texts
    BY <1>0, <2>1 DEF TextsOf
  <2>2. ASSUME NEW k \in Printable, typed' = Append(typed, k), e \notin Texts
        PROVE  Follows(c)
    <3>1. ASSUME NEW b, Ends(typed, b, c) PROVE Ends(Append(typed, k), b, c)
      <4>1. k \in (1 .. entered) \cup Printable
        OBVIOUS
      <4>2. QED BY <1>2, <3>1, <4>1, TextGrows
    <3>2. QED BY <1>0, <2>2, <3>1 DEF TextsOf
  <2>3. ASSUME NEW d \in 1 .. entered, typed' = Append(typed, d), e \in TextsOf(d)
        PROVE  Follows(c)
    <3>1. \A b : Ends(typed', b, d)
      BY <1>2, <2>3, TextGrows
    <3>2. QED BY <1>0, <2>3, <3>1 DEF TextsOf
  <2>4. QED BY <2>1, <2>2, <2>3, HandlesText
<1> HIDE DEF e
<1>4. LastOf(tasks', channel', Texts, TextsOf(entered'), Typed(entered)')
  BY <1>1, <1>3, LastTaken DEF TextInv, e
<1>5. ASSUME NEW u \in tasks', u.event \in Texts, NEW c, c = u.event.arg - 1
      PROVE  LastOf(Before(u)', channel', Texts, TextsOf(c), Typed(c)')
  BY <1>1, <1>3, <1>5, LastTaken DEF TextInv, e
<1>6. ASSUME NEW i \in DOMAIN channel', channel'[i] \in Texts,
             NEW c, c = channel'[i].arg - 1
      PROVE  LastIn(channel', i - 1, Texts, TextsOf(c), Typed(c)')
  <2>1. LastIn(channel, i, Texts, TextsOf(c), Typed(c))
    BY <1>6, Takes DEF TextInv
  <2>2. QED BY <1>3, <2>1, LastTaken DEF e
<1>7. QED BY <1>1, <1>4, <1>5, <1>6 DEF TextInv

-----------------------------------------------------------------------------
(* Clicks hit, text is typed as entered, and nothing stays held. *)

LEMMA ClickHandled ==
  ASSUME TypeInv, ClickHitsTarget, Clean => PointerInv, HandleInput
  PROVE  ClickHitsTarget'
<1> SUFFICES ASSUME ~overtaken', ~failed', click'.aim # None
             PROVE  Hits(click'.at, click'.aim)
                      \/ (unheard.move /\ click'.at = None)
  BY DEF ClickHitsTarget, HandleInput
<1>1. channel # << >> /\ link = "open"
  BY DEF HandleInput, TypeInv, TypeOK
<1>2. Clean'
  BY <1>1 DEF HandleInput, Clean
<1> DEFINE e == Head(channel)
<1>3. Clean /\ apply(e) /\ e \in InputEvents /\ 1 \in DOMAIN channel /\ channel[1] = e
  BY <1>2, Takes
<1>4. Aimed(e) => PointsOnto(e.aim)
  <2>1. SUFFICES ASSUME Aimed(e)
                 PROVE  PointsOnto(e.aim)
    OBVIOUS
  <2>2. LastIn(channel, 1 - 1, Moves, MovesOnto(e.aim), PointsOnto(e.aim))
    BY <1>3, <2>1 DEF PointerInv
  <2>3. QED BY <2>2 DEF LastIn
<1> HIDE DEF e
<1>5. click' = click \/ (e.kind = "press" /\ click' = [aim |-> e.aim, at |-> host_pointer])
  BY <1>3, Applied DEF Press
<1>6. CASE click' = click
  BY <1>3, <1>6 DEF ClickHitsTarget, Clean
<1>7. CASE e.kind = "press" /\ click' = [aim |-> e.aim, at |-> host_pointer]
  BY <1>4, <1>7 DEF Aimed, PointsOnto, Unmoved
<1>8. QED BY <1>5, <1>6, <1>7

LEMMA TextHandled ==
  ASSUME TypeInv, TypedAsEntered, Clean => TextInv, HandleInput
  PROVE  TypedAsEntered'
<1> SUFFICES ASSUME ~overtaken', ~failed', NEW i \in DOMAIN typed', typed'[i] \notin Printable
             PROVE  LastCharacter(typed', i - 1, unheard.char, typed'[i] - 1)
  BY DEF TypedAsEntered, HandleInput
<1>1. channel # << >> /\ link = "open"
  BY DEF HandleInput, TypeInv, TypeOK
<1>2. Clean'
  BY <1>1 DEF HandleInput, Clean
<1> DEFINE e == Head(channel)
<1>3. Clean /\ e \in InputEvents /\ 1 \in DOMAIN channel /\ channel[1] = e
  BY <1>2, Takes
<1>4. typed \in Seq((1 .. entered) \cup Printable)
  BY DEF TypeInv, TypeOK
<1>5. \A j \in DOMAIN typed : typed[j] \notin Printable =>
        LastCharacter(typed, j - 1, unheard.char, typed[j] - 1)
  BY <1>3 DEF TypedAsEntered, Clean
<1>6. CASE typed' = typed
  BY <1>5, <1>6
<1>7. ASSUME NEW a \in (1 .. entered) \cup Printable, typed' = Append(typed, a),
             a \in Printable \/ e \in TextsOf(a)
      PROVE  LastCharacter(typed', i - 1, unheard.char, typed'[i] - 1)
  <2>0. /\ Len(typed) \in Nat /\ DOMAIN typed = 1 .. Len(typed)
        /\ i \in 1 .. Len(typed) + 1 /\ i - 1 \in 0 .. Len(typed)
        /\ \A j \in DOMAIN typed : typed'[j] = typed[j]
        /\ typed'[Len(typed) + 1] = a
    BY <1>4, <1>7, TextGrows, LenProperties
  <2>1. \A c : LastCharacter(typed, i - 1, unheard.char, c)
                => LastCharacter(typed', i - 1, unheard.char, c)
    <3>1. \A b : \A c : LastCharacter(typed, i - 1, b, c)
                          => LastCharacter(typed', i - 1, b, c)
      BY <1>4, <1>7, <2>0, TextGrows
    <3>2. QED BY <3>1
  <2>2. CASE i \in 1 .. Len(typed)
    BY <1>5, <2>0, <2>1, <2>2
  <2>3. CASE i = Len(typed) + 1
    <3>1. a = typed'[i] /\ e \in TextsOf(a) /\ i - 1 = Len(typed)
      BY <1>7, <2>0, <2>3
    <3>2. e \in Texts /\ e.arg = a
      BY <3>1 DEF TextsOf
    <3>3. LastIn(channel, 1 - 1, Texts, TextsOf(a - 1), Typed(a - 1))
      BY <1>3, <3>2 DEF TextInv
    <3>4. Typed(a - 1)
      BY <3>3 DEF LastIn
    <3>5. QED BY <2>0, <2>1, <3>1, <3>4 DEF Typed, Ends
  <2>4. QED BY <2>0, <2>2, <2>3
<1>8. QED BY <1>2, <1>6, <1>7, HandlesText

LEMMA OrderInit == Init => OrderInv
<1> SUFFICES ASSUME Init PROVE OrderInv
  OBVIOUS
<1>1. ClickHitsTarget /\ TypedAsEntered
  BY DEF Init, NoClick, ClickHitsTarget, TypedAsEntered
<1>2. HeldInv
  BY DEF Init, HeldInv, LastOf, LastIn
<1>3. PointerInv
  BY DEF Init, PointerInv
<1>4. TextInv
  BY DEF Init, TextInv, LastOf, LastIn, Typed, Ends, LastCharacter
<1>5. QED BY <1>1, <1>2, <1>3, <1>4 DEF OrderInv

LEMMA OrderStep ==
  ASSUME TypeInv, OrderInv, [Next]_vars
  PROVE  OrderInv'
<1>1. ASSUME UNCHANGED <<desktop, unheard, overtaken, failed>>
      PROVE  ClickHitsTarget' /\ TypedAsEntered'
  BY <1>1 DEF OrderInv, ClickHitsTarget, TypedAsEntered, desktop
<1>2. CASE User
  <2>1. UNCHANGED <<channel, link, desktop, unheard, overtaken, failed>>
    BY <1>2, UserActs
    DEF Unsent, SentMove, SentPress, SentRelease, SentText, SentScroll, Spawns
  <2>2. Clean' => HeldInv' /\ PointerInv' /\ TextInv'
    BY <1>2, <2>1, HeldUser, PointerUser, TextUser DEF OrderInv, Clean
  <2>3. QED BY <1>1, <2>1, <2>2 DEF OrderInv
<1>3. ASSUME NEW m \in Monitors, FrameArrives(m) PROVE OrderInv'
  <2>1. /\ UNCHANGED <<pointer, held, tasks, channel, link, desktop, entered, missed,
                       unheard, overtaken, failed>>
        /\ fresh' = FALSE
    BY <1>3 DEF FrameArrives
  <2>2. HeldInv => HeldInv'
    BY <2>1 DEF HeldInv, desktop
  <2>3. PointerInv => PointerInv'
    BY <2>1 DEF PointerInv, desktop, Before, PointsTo, PointsOnto, Unmoved
  <2>4. TextInv => TextInv'
    BY <2>1 DEF TextInv, desktop, Before, Typed
  <2>5. QED BY <1>1, <2>1, <2>2, <2>3, <2>4 DEF OrderInv, Clean
<1>4. ASSUME NEW t \in tasks, Send(t) PROVE OrderInv'
  <2>1. UNCHANGED <<link, desktop, failed>> /\ (~overtaken' => ~overtaken)
    BY <1>4 DEF Send
  <2>2. ClickHitsTarget' /\ TypedAsEntered'
    <3>1. unheard.move => unheard'.move
      BY <1>4, Lost DEF Send, TypeInv, TypeOK
    <3>2. unheard' = unheard \/ typed' = << >>
      BY <1>4, <2>1 DEF Send, TypeInv, Unreached, desktop
    <3>3. DOMAIN << >> = {}
      OBVIOUS
    <3>4. QED BY <2>1, <3>1, <3>2, <3>3 DEF OrderInv, ClickHitsTarget, TypedAsEntered, desktop
  <2>3. Clean' => HeldInv' /\ PointerInv' /\ TextInv'
    BY <1>4, <2>1, HeldSends, PointerSends, TextSends DEF OrderInv, Clean
  <2>4. QED BY <2>2, <2>3 DEF OrderInv
<1>5. CASE Close
  <2>1. UNCHANGED <<desktop, unheard, overtaken, failed>> /\ ~Clean'
    BY <1>5 DEF Close, Clean
  <2>2. QED BY <1>1, <2>1 DEF OrderInv
<1>6. CASE HandleInput
  <2>1. ClickHitsTarget' /\ TypedAsEntered'
    BY <1>6, ClickHandled, TextHandled DEF OrderInv
  <2>2. Clean' => Clean
    BY <1>6 DEF HandleInput, Clean
  <2>3. Clean' => HeldInv' /\ PointerInv' /\ TextInv'
    BY <1>6, <2>2, HeldHandles, PointerHandles, TextHandles DEF OrderInv
  <2>4. QED BY <2>1, <2>3 DEF OrderInv
<1>7. CASE LinkOpens \/ UNCHANGED vars
  <2>1. /\ UNCHANGED <<pointer, shown, fresh, held, tasks, channel, desktop, entered,
                       missed, unheard, overtaken, failed>>
        /\ Clean' => Clean
    BY <1>7 DEF LinkOpens, vars, window, Clean
  <2>2. HeldInv => HeldInv'
    BY <2>1 DEF HeldInv, desktop
  <2>3. PointerInv => PointerInv'
    BY <2>1 DEF PointerInv, desktop, Before, PointsTo, PointsOnto, Unmoved
  <2>4. TextInv => TextInv'
    BY <2>1 DEF TextInv, desktop, Before, Typed
  <2>5. QED BY <1>1, <2>1, <2>2, <2>3, <2>4 DEF OrderInv
<1>8. QED BY <1>2, <1>3, <1>4, <1>5, <1>6, <1>7 DEF Next, NothingLeft

\* Nothing under way that releases x: it is released.
LEMMA ReleasedInTheEnd ==
  ASSUME TypeInv, OrderInv
  PROVE  NothingStaysHeld
<1> SUFFICES ASSUME Quiet, Clean, NEW x \in host_held, x \notin held \cup missed
             PROVE  FALSE
  BY DEF NothingStaysHeld, Clean
<1>1. x \in Things
  BY DEF TypeInv, TypeOK
<1>2. LastOf({}, << >>, Switches(x), Releases(x), x \notin host_held)
  BY <1>1 DEF OrderInv, HeldInv, Quiet
<1>3. QED BY <1>2 DEF LastOf, LastIn

-----------------------------------------------------------------------------
(* Scrolling adds up, in whatever order the events come. *)

\* s[k] is how far the tasks of the first k acts scroll.
TaskSums(S, n, s) ==
  /\ s \in [0 .. n -> Int] /\ s[0] = 0
  /\ \A t \in S : t.id[2] = 1 => s[t.id[1] + 1] = s[t.id[1]] + Amount(t.event)
  /\ \A k \in 0 .. n - 1 : (\A t \in S : t.id # <<k, 1>>) => s[k + 1] = s[k]

\* s[i] is how far the first i events of c scroll.
ChannelSums(c, s) ==
  /\ s \in [0 .. Len(c) -> Int] /\ s[0] = 0
  /\ \A i \in 1 .. Len(c) : s[i] = s[i - 1] + Amount(c[i])

\* What the host scrolled or never hears of.
Through == scrolled + unheard.lines

\* That, what is spawned and what is on the channel make what the user scrolled.
AddsUp(s, c) ==
  /\ TaskSums(tasks, acts, s) /\ ChannelSums(channel, c)
  /\ 2 * (Through + s[acts] + c[Len(channel)]) + turned.halves
       \in -turned.times .. turned.times

ScrollInv == (link # "closed" /\ ~failed) => \E s, c : AddsUp(s, c)

LEMMA Amounts ==
  /\ \A e \in InputEvents : Amount(e) \in Int
  /\ \A x : Amount(Move(x)) = 0 /\ Amount(Release(x)) = 0 /\ Amount(Text(x)) = 0
  /\ \A x, a : Amount(Press(x, a)) = 0
  /\ \A n : Amount(Wheel(n)) = n
<1>1. ASSUME NEW e \in InputEvents PROVE Amount(e) \in Int
  BY EventKinds DEF Amount, Move, Press, Release, Text, Wheel
<1>2. QED BY <1>1 DEF Amount, Move, Press, Release, Text, Wheel

\* One more act, which scrolls by a; the task of act m, which scrolls by a, gone.
Longer(s, n, a)     == [k \in 0 .. n + 1 |-> IF k = n + 1 THEN s[n] + a ELSE s[k]]
Without(s, n, m, a) == [k \in 0 .. n |-> IF k > m THEN s[k] - a ELSE s[k]]

LEMMA TasksGrow ==
  ASSUME TypeInv, NEW N, Spawns(N), NEW s, TaskSums(tasks, acts, s),
         NEW a \in Int, \A t \in N : t.id[2] = 1 => Amount(t.event) = a,
         a = 0 \/ \E t \in N : t.id[2] = 1
  PROVE  /\ TaskSums(tasks', acts', Longer(s, acts, a))
         /\ Longer(s, acts, a)[acts'] = s[acts] + a
<1>0. /\ acts \in Nat /\ acts' = acts + 1 /\ tasks' = tasks \cup N
      /\ \A t \in tasks : t.id[1] \in 0 .. acts - 1
      /\ \A t \in N : t.id[1] = acts /\ (t.id[2] = 1 => t.id = <<acts, 1>>)
  <2>1. acts \in Nat /\ \A t \in tasks : t.id \in (0 .. acts - 1) \X {1, 2}
    BY DEF TypeInv, TypeOK
  <2>2. \A t \in N : t.id \in (0 .. acts' - 1) \X {1, 2} /\ t.id[1] = acts
    BY Spawned DEF TaskOK
  <2>3. QED BY <2>1, <2>2 DEF Spawns
<1> SUFFICES ASSUME NEW n \in Nat, n = acts, NEW S, S = tasks
             PROVE  /\ TaskSums(S \cup N, n + 1, Longer(s, n, a))
                    /\ Longer(s, n, a)[n + 1] = s[n] + a
  BY <1>0
<1>a. /\ \A t \in S : t.id[1] \in 0 .. n - 1
      /\ \A t \in N : t.id[1] = n
      /\ a = 0 \/ \E t \in N : t.id = <<n, 1>>
      /\ TaskSums(S, n, s)
  BY <1>0
<1> DEFINE r == Longer(s, n, a)
<1>1. /\ r \in [0 .. n + 1 -> Int] /\ r[n + 1] = s[n] + a
      /\ \A k \in 0 .. n : r[k] = s[k]
  BY <1>a DEF TaskSums, Longer
<1> HIDE DEF r
<1>2. ASSUME NEW t \in S \cup N, t.id[2] = 1
      PROVE  r[t.id[1] + 1] = r[t.id[1]] + Amount(t.event)
  <2>1. CASE t \in S
    <3>1. t.id[1] \in 0 .. n /\ t.id[1] + 1 \in 0 .. n
      BY <1>a, <2>1
    <3>2. QED BY <1>a, <1>1, <1>2, <2>1, <3>1 DEF TaskSums
  <2>2. CASE t \in N
    BY <1>a, <1>1, <1>2, <2>2
  <2>3. QED BY <2>1, <2>2
<1>3. ASSUME NEW k \in 0 .. (n + 1) - 1, \A t \in S \cup N : t.id # <<k, 1>>
      PROVE  r[k + 1] = r[k]
  <2>1. CASE k = n
    <3>1. a = 0 /\ s[n] \in Int
      BY <1>a, <1>3, <2>1 DEF TaskSums
    <3>2. QED BY <1>1, <2>1, <3>1
  <2>2. CASE k # n
    <3>1. k \in 0 .. n - 1 /\ k \in 0 .. n /\ k + 1 \in 0 .. n
      BY <2>2
    <3>2. s[k + 1] = s[k]
      BY <1>a, <1>3, <3>1 DEF TaskSums
    <3>3. QED BY <1>1, <3>1, <3>2
  <2>3. QED BY <2>1, <2>2
<1>4. r[0] = 0
  BY <1>a, <1>1 DEF TaskSums
<1>5. TaskSums(S \cup N, n + 1, r)
  BY <1>1, <1>2, <1>3, <1>4 DEF TaskSums
<1>6. QED BY <1>1, <1>5 DEF r

LEMMA TasksShrink ==
  ASSUME TypeInv, NEW s, TaskSums(tasks, acts, s),
         NEW t \in tasks, NEW a, a = Amount(t.event)
  PROVE  /\ TaskSums(tasks \ {t}, acts, Without(s, acts, t.id[1], a))
         /\ Without(s, acts, t.id[1], a)[acts] = s[acts] - a
<1>b. acts \in Nat
  BY DEF TypeInv, TypeOK
<1> SUFFICES ASSUME NEW n \in Nat, n = acts, NEW S, S = tasks
             PROVE  /\ TaskSums(S \ {t}, n, Without(s, n, t.id[1], a))
                    /\ Without(s, n, t.id[1], a)[n] = s[n] - a
  BY <1>b
<1>a. /\ \A u \in S : u.id \in (0 .. n - 1) \X {1, 2} /\ Amount(u.event) \in Int
      /\ \A u, v \in S : u.id = v.id => u = v
      /\ TaskSums(S, n, s) /\ t \in S
      /\ t.id[2] = 2 => a = 0
  <2>1. \A u \in S : u.id \in (0 .. n - 1) \X {1, 2} /\ Amount(u.event) \in Int
    BY Amounts DEF TypeInv, TypeOK
  <2>2. t.id[2] = 2 => a = 0
    BY DEF TypeInv, SecondIsText, Amount
  <2>3. QED BY <2>1, <2>2 DEF TypeInv, IdsApart
<1> DEFINE m == t.id[1]
           r == Without(s, n, m, a)
<1>1. m \in 0 .. n - 1 /\ (t.id = <<m, 1>> \/ t.id = <<m, 2>>)
  BY <1>a
<1>2. s \in [0 .. n -> Int] /\ a \in Int
  BY <1>a DEF TaskSums
<1>0. t.id = <<m, 1>> => s[m + 1] = s[m] + a
  BY <1>a DEF TaskSums
<1> HIDE DEF m
<1>3. /\ r \in [0 .. n -> Int] /\ r[n] = s[n] - a
      /\ \A k \in 0 .. n : r[k] = IF k > m THEN s[k] - a ELSE s[k]
  BY <1>1, <1>2 DEF Without
<1> HIDE DEF r
<1>4. ASSUME NEW u \in S \ {t}, u.id[2] = 1
      PROVE  r[u.id[1] + 1] = r[u.id[1]] + Amount(u.event)
  <2> DEFINE k == u.id[1]
             b == Amount(u.event)
  <2>1. k \in 0 .. n - 1 /\ k \in 0 .. n /\ k + 1 \in 0 .. n /\ u.id = <<k, 1>>
    BY <1>a, <1>4
  <2>2. s[k + 1] = s[k] + b /\ s[k] \in Int /\ s[k + 1] \in Int /\ b \in Int
    BY <1>a, <1>2, <1>4, <2>1 DEF TaskSums
  <2>3. k = m => a = 0
    BY <1>a, <1>1, <2>1
  <2> HIDE DEF k, b
  <2>4. r[k] = IF k > m THEN s[k] - a ELSE s[k]
    BY <1>3, <2>1
  <2>5. r[k + 1] = IF k + 1 > m THEN s[k + 1] - a ELSE s[k + 1]
    BY <1>3, <2>1
  <2>6. r[k + 1] = r[k] + b
    BY <1>1, <1>2, <2>1, <2>2, <2>3, <2>4, <2>5, SMTT(30)
  <2>7. QED BY <2>6 DEF k, b
<1>5. ASSUME NEW k \in 0 .. n - 1, \A u \in S \ {t} : u.id # <<k, 1>>
      PROVE  r[k + 1] = r[k]
  <2>1. k \in 0 .. n /\ k + 1 \in 0 .. n /\ s[k] \in Int /\ s[k + 1] \in Int
    BY <1>2
  <2>2. CASE t.id = <<k, 1>>
    <3>1. k = m /\ s[k + 1] = s[k] + a
      BY <1>0, <1>1, <2>2
    <3>2. r[k] = s[k] /\ r[k + 1] = s[k + 1] - a
      BY <1>1, <1>3, <2>1, <3>1
    <3>3. QED BY <1>2, <2>1, <3>1, <3>2
  <2>3. CASE t.id # <<k, 1>>
    <3>1. s[k + 1] = s[k]
      BY <1>a, <1>5, <2>3 DEF TaskSums
    <3>2. k = m => a = 0
      BY <1>a, <1>1, <2>3
    <3>3. QED BY <1>1, <1>3, <2>1, <3>1, <3>2, SMTT(30)
  <2>4. QED BY <2>2, <2>3
<1>6. r[0] = 0
  BY <1>a, <1>1, <1>3 DEF TaskSums
<1>7. TaskSums(S \ {t}, n, r)
  BY <1>3, <1>4, <1>5, <1>6 DEF TaskSums
<1>8. QED BY <1>3, <1>7 DEF r, m

\* No tasks, no sum: a first act at which it is not 0 would be one with a task.
LEMMA NoTasks ==
  ASSUME NEW n \in Nat, NEW s, TaskSums({}, n, s)
  PROVE  s[n] = 0
<1> DEFINE bad == {k \in 0 .. n : s[k] # 0}
<1>1. SUFFICES ASSUME bad # {} PROVE FALSE
  OBVIOUS
<1>2. PICK k \in bad : \A j \in bad : ~ (<<j, k>> \in OpToRel(<, Nat))
  <2>1. bad \in SUBSET Nat
    OBVIOUS
  <2>2. QED BY <1>1, <2>1, NatLessThanWellFounded, WFMin
<1>3. k \in 0 .. n /\ s[k] # 0 /\ k # 0
  BY DEF TaskSums
<1>4. k - 1 \in 0 .. n - 1 /\ (k - 1) + 1 = k /\ k - 1 \in 0 .. n /\ k - 1 < k
  BY <1>3
<1>5. s[k] = s[k - 1]
  BY <1>4 DEF TaskSums
<1>6. k - 1 \in bad
  BY <1>3, <1>4, <1>5
<1>7. <<k - 1, k>> \in OpToRel(<, Nat)
  BY <1>3, <1>4 DEF OpToRel
<1>8. QED BY <1>2, <1>6, <1>7

LEMMA ChannelGrows ==
  ASSUME NEW E, NEW c \in Seq(E), NEW e \in E, NEW s, ChannelSums(c, s),
         \A f \in E : Amount(f) \in Int
  PROVE  LET d == Append(c, e) IN
         \E r : ChannelSums(d, r) /\ r[Len(d)] = s[Len(c)] + Amount(e)
<1> DEFINE d == Append(c, e)
           n == Len(c)
           r == [i \in 0 .. n + 1 |-> IF i = n + 1 THEN s[n] + Amount(e) ELSE s[i]]
<1>1. /\ n \in Nat /\ Len(d) = n + 1 /\ d[n + 1] = e
      /\ \A i \in 1 .. n : d[i] = c[i]
  BY AppendProperties, LenProperties
<1>2. s \in [0 .. n -> Int] /\ s[0] = 0
  BY DEF ChannelSums
<1>3. \A i \in 1 .. n : s[i] = s[i - 1] + Amount(c[i])
  BY DEF ChannelSums
<1> HIDE DEF n, d
<1>4. /\ r \in [0 .. n + 1 -> Int] /\ r[n + 1] = s[n] + Amount(e)
      /\ \A i \in 0 .. n : r[i] = s[i]
  BY <1>1, <1>2
<1> HIDE DEF r
<1>5. ASSUME NEW i \in 1 .. n + 1 PROVE r[i] = r[i - 1] + Amount(d[i])
  <2>1. CASE i = n + 1
    BY <1>1, <1>4, <2>1
  <2>2. CASE i # n + 1
    <3>1. i \in 1 .. n /\ i \in 0 .. n /\ i - 1 \in 0 .. n
      BY <1>1, <2>2
    <3>2. QED BY <1>1, <1>3, <1>4, <3>1
  <2>3. QED BY <2>1, <2>2
<1>6. ChannelSums(d, r)
  BY <1>1, <1>2, <1>4, <1>5 DEF ChannelSums
<1>7. r[Len(d)] = s[Len(c)] + Amount(e)
  BY <1>1, <1>4 DEF n
<1>8. QED BY <1>6, <1>7 DEF d

LEMMA ChannelShrinks ==
  ASSUME NEW E, NEW c \in Seq(E), c # << >>, NEW s, ChannelSums(c, s),
         \A e \in E : Amount(e) \in Int
  PROVE  LET d == Tail(c) IN
         \E r : ChannelSums(d, r) /\ r[Len(d)] = s[Len(c)] - Amount(Head(c))
<1> DEFINE d == Tail(c)
           n == Len(c)
           a == Amount(Head(c))
           r == [i \in 0 .. n - 1 |-> s[i + 1] - a]
<1>1. /\ n \in Nat /\ n > 0 /\ Len(d) = n - 1 /\ Head(c) = c[1]
      /\ \A i \in 1 .. n - 1 : d[i] = c[i + 1]
  BY HeadTailProperties, EmptySeq, LenProperties
<1>2. s \in [0 .. n -> Int] /\ s[0] = 0
  BY DEF ChannelSums
<1>3. \A i \in 1 .. n : s[i] = s[i - 1] + Amount(c[i])
  BY DEF ChannelSums
<1>4. s[1] = a
  BY <1>1, <1>2, <1>3
<1>5. a \in Int
  BY <1>1, ElementOfSeq
<1> HIDE DEF n, d, a
<1>6. /\ r \in [0 .. n - 1 -> Int] /\ r[n - 1] = s[n] - a
      /\ \A i \in 0 .. n - 1 : r[i] = s[i + 1] - a
  BY <1>1, <1>2, <1>5
<1> HIDE DEF r
<1>7. r[0] = 0
  BY <1>1, <1>4, <1>5, <1>6
<1>8. ASSUME NEW i \in 1 .. n - 1 PROVE r[i] = r[i - 1] + Amount(d[i])
  <2>1. /\ i \in 0 .. n - 1 /\ i - 1 \in 0 .. n - 1 /\ i + 1 \in 1 .. n
        /\ (i + 1) - 1 = i /\ (i - 1) + 1 = i /\ s[i] \in Int /\ s[i + 1] \in Int
    BY <1>1, <1>2
  <2>2. s[i + 1] = s[i] + Amount(d[i])
    BY <1>1, <1>3, <2>1
  <2>3. r[i] = s[i + 1] - a /\ r[i - 1] = s[i] - a
    BY <1>6, <2>1
  <2>4. Amount(d[i]) \in Int
    BY <1>1, <2>1, ElementOfSeq DEF n
  <2>5. QED BY <1>5, <2>1, <2>2, <2>3, <2>4
<1>9. ChannelSums(d, r)
  BY <1>1, <1>6, <1>7, <1>8 DEF ChannelSums
<1>10. r[Len(d)] = s[Len(c)] - Amount(Head(c))
  BY <1>1, <1>6 DEF n, a
<1>11. QED BY <1>9, <1>10 DEF d

LEMMA ScrollInit == Init => ScrollInv
<1> SUFFICES ASSUME Init PROVE \E s, c : AddsUp(s, c)
  BY DEF ScrollInv
<1> DEFINE z == [i \in 0 .. 0 |-> 0]
<1>1. z \in [0 .. 0 -> Int] /\ z[0] = 0 /\ Len(<< >>) = 0
  OBVIOUS
<1>2. /\ tasks = {} /\ channel = << >> /\ acts = 0 /\ Through = 0
      /\ turned.halves = 0 /\ turned.times = 0
  BY DEF Init, Through
<1> HIDE DEF z
<1>3. AddsUp(z, z)
  BY <1>1, <1>2 DEF AddsUp, TaskSums, ChannelSums
<1>4. QED BY <1>3

\* An act of the user spawns tasks of which only the first may scroll.
LEMMA ScrollSpawns ==
  ASSUME TypeInv, ScrollInv, NEW N, Spawns(N),
         NEW a \in Int, \A n \in N : Amount(n.event) = IF n.id[2] = 1 THEN a ELSE 0,
         a = 0 \/ \E n \in N : n.id[2] = 1,
         turned' \in [halves : Int, times : Nat],
         \A x \in Int : 2 * x + turned.halves \in -turned.times .. turned.times =>
           2 * (x + a) + turned'.halves \in -turned'.times .. turned'.times
  PROVE  ScrollInv'
<1> SUFFICES ASSUME link # "closed", ~failed PROVE \E s, c : AddsUp(s, c)'
  BY DEF ScrollInv, Spawns
<1>1. PICK s, c : AddsUp(s, c)
  BY DEF ScrollInv
<1>2. acts \in Nat /\ acts' = acts + 1 /\ channel' = channel /\ Through' = Through
  BY DEF Spawns, desktop, TypeInv, TypeOK, Through
<1>3. PICK r : TaskSums(tasks', acts', r) /\ r[acts'] = s[acts] + a
  <2>1. TaskSums(tasks, acts, s)
    BY <1>1 DEF AddsUp
  <2>2. \A n \in N : n.id[2] = 1 => Amount(n.event) = a
    OBVIOUS
  <2>3. QED BY <2>1, <2>2, TasksGrow
<1>4. /\ s[acts] \in Int /\ c[Len(channel)] \in Int /\ Through \in Int
      /\ r[acts'] \in Int
  <2>0. channel \in Seq(InputEvents)
    BY DEF TypeInv, TypeOK
  <2>1. acts \in 0 .. acts /\ acts' \in 0 .. acts' /\ Len(channel) \in 0 .. Len(channel)
    BY <1>2, <2>0, LenProperties
  <2>2. Through \in Int
    BY DEF TypeInv, TypeOK, Through
  <2>3. QED BY <1>1, <1>3, <2>1, <2>2 DEF AddsUp, TaskSums, ChannelSums
<1>5. 2 * (Through + s[acts] + c[Len(channel)] + a) + turned'.halves
        \in -turned'.times .. turned'.times
  BY <1>1, <1>4, SMTT(30) DEF AddsUp
<1>6. Through + r[acts'] + c[Len(channel)] = Through + s[acts] + c[Len(channel)] + a
  BY <1>3, <1>4
<1>7. AddsUp(r, c)'
  BY <1>1, <1>2, <1>3, <1>5, <1>6 DEF AddsUp
<1>8. QED BY <1>7

LEMMA ScrollUser ==
  ASSUME TypeInv, ScrollInv, User
  PROVE  ScrollInv'
<1>1. turned \in [halves : Int, times : Nat] /\ MaxActs \in Nat
  BY InputAssumption DEF TypeInv, TypeOK
<1>2. ASSUME NEW N, Spawns(N), UNCHANGED turned, \A n \in N : Amount(n.event) = 0
      PROVE  ScrollInv'
  <2>1. \A x \in Int : 2 * x + turned.halves \in -turned.times .. turned.times =>
          2 * (x + 0) + turned'.halves \in -turned'.times .. turned'.times
    BY <1>1, <1>2
  <2>2. \A n \in N : Amount(n.event) = IF n.id[2] = 1 THEN 0 ELSE 0
    BY <1>2
  <2>3. turned' \in [halves : Int, times : Nat]
    BY <1>1, <1>2
  <2>4. QED BY <1>2, <2>1, <2>2, <2>3, ScrollSpawns
<1>3. CASE Unsent
  BY <1>2, <1>3 DEF Unsent
<1>4. ASSUME NEW p, SentMove(p) PROVE ScrollInv'
  BY <1>2, <1>4, Amounts DEF SentMove, Task
<1>5. ASSUME NEW x, NEW a, SentPress(x, a) PROVE ScrollInv'
  <2>1. CASE Spawns({Task(1, Press(x, a))})
    BY <1>2, <1>5, <2>1, Amounts DEF SentPress, Task
  <2>2. ASSUME NEW k \in Printable, Spawns({Task(1, Press(x, a)), Task(2, Text(k))})
        PROVE  ScrollInv'
    BY <1>2, <1>5, <2>2, Amounts DEF SentPress, Task
  <2>3. QED BY <1>5, <2>1, <2>2 DEF SentPress
<1>6. ASSUME NEW x, SentRelease(x) PROVE ScrollInv'
  BY <1>2, <1>6, Amounts DEF SentRelease, Task
<1>7. CASE SentText
  BY <1>2, <1>7, Amounts DEF SentText, Task
<1>8. ASSUME NEW d, SentScroll(d) PROVE ScrollInv'
  <2> DEFINE a == as_i32(-d)
             N == {Task(1, Wheel(a))}
  <2>1. d \in Int /\ a \in Int /\ 2 * a + d \in -1 .. 1 /\ Spawns(N)
    BY <1>8, AsInt DEF SentScroll
  <2>2. \A n \in N : n.id[2] = 1 /\ Amount(n.event) = a
    BY Amounts DEF Task
  <2>3. \E n \in N : n.id[2] = 1
    BY <2>2
  <2> HIDE DEF a, N
  <2>4. /\ turned' \in [halves : Int, times : Nat]
        /\ turned'.halves = turned.halves + d /\ turned'.times = turned.times + 1
    BY <1>1, <1>8, <2>1 DEF SentScroll
  <2>5. ASSUME NEW x \in Int,
               2 * x + turned.halves \in -turned.times .. turned.times
        PROVE  2 * (x + a) + turned'.halves \in -turned'.times .. turned'.times
    BY <1>1, <2>1, <2>4, <2>5
  <2>6. QED BY <2>1, <2>2, <2>3, <2>4, <2>5, ScrollSpawns
<1>9. QED BY <1>3, <1>4, <1>5, <1>6, <1>7, <1>8, UserActs

LEMMA ScrollSends ==
  ASSUME TypeInv, ScrollInv, NEW t \in tasks, Send(t)
  PROVE  ScrollInv'
<1>1. UNCHANGED <<link, acts, scrolled, turned, failed>> /\ tasks' = tasks \ {t}
  BY DEF Send, desktop
<1> SUFFICES ASSUME link # "closed", ~failed PROVE \E s, c : AddsUp(s, c)'
  BY <1>1 DEF ScrollInv
<1>2. PICK s, c : AddsUp(s, c)
  BY DEF ScrollInv
<1> DEFINE a == Amount(t.event)
<1>3. /\ channel \in Seq(InputEvents) /\ t.event \in InputEvents /\ a \in Int
      /\ acts \in Nat /\ Through \in Int
  BY Amounts, SMTT(30) DEF TypeInv, TypeOK, Through
<1>4. PICK r : TaskSums(tasks', acts, r) /\ r[acts] = s[acts] - a
  <2>1. TaskSums(tasks, acts, s)
    BY <1>2 DEF AddsUp
  <2>2. QED BY <1>1, <2>1, TasksShrink
<1>5. ChannelSums(channel, c)
  BY <1>2 DEF AddsUp
<1>6. s[acts] \in Int /\ c[Len(channel)] \in Int
  <2>1. acts \in 0 .. acts /\ Len(channel) \in 0 .. Len(channel)
    BY <1>3, LenProperties
  <2>2. QED BY <1>2, <1>5, <2>1 DEF AddsUp, TaskSums, ChannelSums
<1>7. PICK d : /\ ChannelSums(channel', d)
               /\ Through' + r[acts] + d[Len(channel')]
                    = Through + s[acts] + c[Len(channel)]
  <2>1. CASE link = "open"
    <3>1. channel' = Append(channel, t.event) /\ Through' = Through
      BY <1>1, <2>1 DEF Send, Through
    <3>2. PICK d : ChannelSums(channel', d) /\ d[Len(channel')] = c[Len(channel)] + a
      BY <1>3, <1>5, <3>1, Amounts, ChannelGrows
    <3> HIDE DEF a
    <3>3. QED BY <1>3, <1>4, <1>6, <3>1, <3>2
  <2>2. CASE link = "connecting"
    <3>1. channel' = channel /\ unheard' = UnheardWith(t.event)
      BY <2>2 DEF Send
    <3>2. unheard'.lines = unheard.lines + a
      BY <1>3, <3>1, Lost
    <3>3. Through' = Through + a
      BY <1>1, <1>3, <3>2 DEF Through, TypeInv, TypeOK
    <3> HIDE DEF a
    <3>4. QED BY <1>3, <1>4, <1>5, <1>6, <3>1, <3>3
  <2>3. QED BY <2>1, <2>2 DEF TypeInv, TypeOK
<1>8. AddsUp(r, d)'
  BY <1>1, <1>2, <1>4, <1>7 DEF AddsUp
<1>9. QED BY <1>8

LEMMA ScrollHandles ==
  ASSUME TypeInv, ScrollInv, HandleInput
  PROVE  ScrollInv'
<1>1. /\ UNCHANGED <<tasks, link, acts, turned, unheard>> /\ channel # << >>
      /\ channel' = Tail(channel) /\ (~failed' => ~failed)
  BY DEF HandleInput
<1> SUFFICES ASSUME link # "closed", ~failed' PROVE \E s, c : AddsUp(s, c)'
  BY <1>1 DEF ScrollInv
<1>2. PICK s, c : AddsUp(s, c)
  BY <1>1 DEF ScrollInv
<1> DEFINE e == Head(channel)
           a == Amount(e)
<1>3. /\ channel \in Seq(InputEvents) /\ e \in InputEvents /\ a \in Int
      /\ acts \in Nat /\ Through \in Int
  BY <1>1, HeadTailProperties, Amounts DEF TypeInv, TypeOK, Through
<1>4. Through' = Through + a
  <2>1. apply(e)
    BY DEF HandleInput
  <2> HIDE DEF e
  <2>2. scrolled' = scrolled + a
    <3>1. scrolled \in Int
      BY DEF TypeInv, TypeOK
    <3>2. QED BY <1>3, <2>1, <3>1, Applied, Amounts
  <2> HIDE DEF a
  <2>3. QED BY <1>1, <1>3, <2>2 DEF Through, TypeInv, TypeOK
<1>5. PICK d : ChannelSums(channel', d) /\ d[Len(channel')] = c[Len(channel)] - a
  <2>1. ChannelSums(channel, c)
    BY <1>2 DEF AddsUp
  <2>2. QED BY <1>1, <1>3, <2>1, Amounts, ChannelShrinks
<1>6. s[acts] \in Int /\ c[Len(channel)] \in Int
  <2>1. acts \in 0 .. acts /\ Len(channel) \in 0 .. Len(channel)
    BY <1>3, LenProperties
  <2>2. QED BY <1>2, <2>1 DEF AddsUp, TaskSums, ChannelSums
<1> HIDE DEF a
<1>7. Through' + s[acts] + d[Len(channel')] = Through + s[acts] + c[Len(channel)]
  BY <1>3, <1>4, <1>5, <1>6
<1>8. AddsUp(s, d)'
  BY <1>1, <1>2, <1>5, <1>7 DEF AddsUp
<1>9. QED BY <1>8

LEMMA ScrollStep ==
  ASSUME TypeInv, ScrollInv, [Next]_vars
  PROVE  ScrollInv'
<1>1. ASSUME NEW m \in Monitors, FrameArrives(m) PROVE ScrollInv'
  <2>1. CASE shown = None
    BY <1>1, <2>1 DEF FrameArrives, ScrollInv, AddsUp, Through, desktop
  <2>2. CASE shown # None
    <3>1. Spawns({}) /\ UNCHANGED turned
      BY <1>1, <2>2 DEF FrameArrives, Act, Spawns
    <3>2. turned \in [halves : Int, times : Nat]
      BY InputAssumption DEF TypeInv, TypeOK
    <3>3. turned' \in [halves : Int, times : Nat]
      BY <3>1, <3>2
    <3>4. \A x \in Int : 2 * x + turned.halves \in -turned.times .. turned.times =>
            2 * (x + 0) + turned'.halves \in -turned'.times .. turned'.times
      BY <3>1, <3>2
    <3>5. \A n \in {} : Amount(n.event) = IF n.id[2] = 1 THEN 0 ELSE 0
      OBVIOUS
    <3>6. 0 \in Int /\ (0 = 0 \/ \E n \in {} : n.id[2] = 1)
      OBVIOUS
    <3>7. QED BY <3>1, <3>3, <3>4, <3>5, <3>6, ScrollSpawns
  <2>3. QED BY <2>1, <2>2
<1>2. CASE Close
  BY <1>2 DEF Close, ScrollInv
<1>3. CASE LinkOpens \/ UNCHANGED vars
  <2>1. /\ UNCHANGED <<tasks, channel, acts, Through, turned, failed>>
        /\ link' # "closed" => link # "closed"
    BY <1>3 DEF LinkOpens, vars, desktop, Through
  <2>2. QED BY <2>1 DEF ScrollInv, AddsUp
<1>4. QED BY <1>1, <1>2, <1>3, ScrollUser, ScrollSends, ScrollHandles DEF Next, NothingLeft

\* Everything is through: nothing is left to add.
LEMMA ScrolledInTheEnd ==
  ASSUME TypeInv, ScrollInv
  PROVE  ScrollAddsUp
<1> SUFFICES ASSUME tasks = {}, channel = << >>, link = "open", ~failed
             PROVE  2 * Through + turned.halves \in -turned.times .. turned.times
  BY DEF ScrollAddsUp, Quiet, Through
<1>1. PICK s, c : AddsUp(s, c)
  BY DEF ScrollInv
<1>2. acts \in Nat /\ Through \in Int
  BY DEF TypeInv, TypeOK, Through
<1>3. s[acts] = 0
  BY <1>1, <1>2, NoTasks DEF AddsUp
<1>4. Len(channel) = 0 /\ c[Len(channel)] = 0
  <2>1. Len(<< >>) = 0
    OBVIOUS
  <2>2. QED BY <1>1, <2>1 DEF AddsUp, ChannelSums
<1>5. Through + s[acts] + c[Len(channel)] = Through
  BY <1>2, <1>3, <1>4
<1>6. QED BY <1>1, <1>5 DEF AddsUp

-----------------------------------------------------------------------------
(* The theorems. *)

InputInv == TypeInv /\ OrderInv /\ ScrollInv

LEMMA InputInvHolds == Spec => []InputInv
<1>1. Init => InputInv
  BY TypeInit, OrderInit, ScrollInit DEF InputInv
<1>2. InputInv /\ [Next]_vars => InputInv'
  BY TypeStep, OrderStep, ScrollStep DEF InputInv
<1>3. QED BY <1>1, <1>2, PTL DEF Spec

\* Every variable keeps its type; events under way are events the window
\* captures (gui.rs:531-557), of acts there were.
THEOREM InputTypeCorrect == Spec => []TypeOK
<1>1. InputInv => TypeOK
  BY DEF InputInv, TypeInv
<1>2. QED BY <1>1, InputInvHolds, PTL

\* What the host types (input.rs:37-43) is what the user entered, in that order
\* and each character once, the space bar apart, but for what was entered before
\* the channel opened, which is missing at the front and only there
\* (gui.rs:113, controller.rs:245); unless a task overtook another (gui.rs:110)
\* or an event was not injected.
THEOREM TypesAsEntered == Spec => []TypedAsEntered
<1>1. InputInv => TypedAsEntered
  BY DEF InputInv, OrderInv
<1>2. QED BY <1>1, InputInvHolds, PTL

\* A press, which carries no position (control.rs:23), goes to the column of
\* the monitor the user pointed at, for every width of the picture and of the
\* monitor (gui.rs:566), unless a task overtook another, an event was not
\* injected, or every move until then was lost on a channel that was not open
\* (gui.rs:113), when it goes wherever the host's pointer was.
THEOREM ClicksHitTarget == Spec => []ClickHitsTarget
<1>1. InputInv => ClickHitsTarget
  BY DEF InputInv, OrderInv
<1>2. QED BY <1>1, InputInvHolds, PTL

\* What the user let go over the picture is let go on the host when everything
\* is through, unless a task overtook another, an event was not injected or the
\* channel closed.
THEOREM NothingIsHeld == Spec => []NothingStaysHeld
<1>1. InputInv => NothingStaysHeld
  BY ReleasedInTheEnd DEF InputInv
<1>2. QED BY <1>1, InputInvHolds, PTL

\* The lines the host scrolls add up to the units the user's wheel reported,
\* whatever the unit (gui.rs:542), but for those lost before the channel opened
\* and less than one with each event (gui.rs:545), in whatever order the tasks
\* send them.
THEOREM ScrollsAddUp == Spec => []ScrollAddsUp
<1>1. InputInv => ScrollAddsUp
  BY ScrolledInTheEnd DEF InputInv
<1>2. QED BY <1>1, InputInvHolds, PTL

-----------------------------------------------------------------------------
(* Screen sharing: queues. *)

LEMMA SeqMonotone ==
  ASSUME NEW S, NEW T, S \subseteq T, NEW q \in Seq(S)
  PROVE  q \in Seq(T)
OBVIOUS

\* The last element of a queue is x.
EndsIn(q, x) == q # << >> /\ q[Len(q)] = x

LEMMA AppendEnds ==
  ASSUME NEW S, NEW q \in Seq(S), NEW x \in S
  PROVE  Append(q, x) \in Seq(S) /\ EndsIn(Append(q, x), x)
BY DEF EndsIn

LEMMA TailEnds ==
  ASSUME NEW S, NEW q \in Seq(S), q # << >>, NEW x
  PROVE  /\ Head(q) \in S /\ Tail(q) \in Seq(S)
         /\ EndsIn(q, x) => IF Tail(q) = << >> THEN Head(q) = x ELSE EndsIn(Tail(q), x)
<1>1. /\ Head(q) \in S /\ Tail(q) \in Seq(S) /\ Head(q) = q[1]
      /\ Len(q) \in Nat \ {0} /\ Len(Tail(q)) = Len(q) - 1
      /\ \A i \in 1 .. Len(q) - 1 : Tail(q)[i] = q[i + 1]
  BY HeadTailProperties, EmptySeq
<1>2. CASE Tail(q) = << >>
  <2>1. Len(<< >>) = 0
    OBVIOUS
  <2>2. Len(q) = 1
    <3>1. Len(Tail(q)) = 0
      BY <1>2, <2>1, Zenon
    <3>2. Len(q) \in Nat /\ Len(Tail(q)) = Len(q) - 1
      BY <1>1
    <3>3. QED BY <3>1, <3>2
  <2>3. QED BY <1>1, <1>2, <2>2 DEF EndsIn
<1>3. CASE Tail(q) # << >>
  <2>1. Len(Tail(q)) # 0
    BY <1>1, <1>3, EmptySeq
  <2>2. QED BY <1>1, <1>3, <2>1 DEF EndsIn
<1>4. QED BY <1>1, <1>2, <1>3

\* A queue without its i-th element.
LEMMA RemoveOne ==
  ASSUME NEW S, NEW q \in Seq(S), NEW i \in DOMAIN q
  PROVE  /\ q[i] \in S
         /\ SubSeq(q, 1, i - 1) \o SubSeq(q, i + 1, Len(q)) \in Seq(S)
         /\ Len(q) = 1 => /\ q[i] = q[1]
                          /\ SubSeq(q, 1, i - 1) \o SubSeq(q, i + 1, Len(q)) = << >>
<1>1. Len(q) \in Nat /\ i \in 1 .. Len(q) /\ q[i] \in S
  BY LenProperties, ElementOfSeq
<1>2. SubSeq(q, 1, i - 1) \in Seq(S) /\ SubSeq(q, i + 1, Len(q)) \in Seq(S)
  BY <1>1, SubSeqProperties
<1>3. SubSeq(q, 1, i - 1) \o SubSeq(q, i + 1, Len(q)) \in Seq(S)
  BY <1>2, ConcatProperties
<1>4. ASSUME Len(q) = 1
      PROVE  q[i] = q[1] /\ SubSeq(q, 1, i - 1) \o SubSeq(q, i + 1, Len(q)) = << >>
  <2>1. i = 1
    BY <1>1, <1>4
  <2>2. SubSeq(q, 1, i - 1) = << >> /\ SubSeq(q, i + 1, Len(q)) = << >>
    BY <1>4, <2>1, SubSeqProperties
  <2>3. QED BY <2>1, <2>2
<1>5. QED BY <1>1, <1>3, <1>4

-----------------------------------------------------------------------------
(* Screen sharing: the inductive invariant. *)

\* Everything on its way from the user to the window was asked for.
AskedOnly ==
  /\ requests \in Seq(asked) /\ to_host \in Seq(asked) /\ monitor_switch \in Seq(asked)
  /\ capturer \in asked \cup {NoMonitor}
  /\ frame \in asked \cup {NoMonitor}
  /\ at = "send" => frame # NoMonitor
  /\ encoded \in Seq(asked)
  /\ picture \in asked \cup {NoMonitor}

\* Nothing is selected before the channel opens, and then only what a list
\* named.
ListFirst ==
  dc = "connecting" =>
    to_host = << >> /\ to_ctl = << >> /\ monitors = {} /\ selected = NoMonitor

\* The last request under way is for the selected monitor; when none is, it
\* has been taken.
LastIsSelected ==
  /\ ~contended => requests = << >> \/ Len(requests) = 1
  /\ (selected # NoMonitor /\ ~contended /\ dc = "open" /\ at # "ended") =>
       IF requests # << >> THEN EndsIn(requests, selected)
       ELSE IF to_host # << >> THEN EndsIn(to_host, selected)
       ELSE IF monitor_switch # << >> THEN EndsIn(monitor_switch, selected)
       ELSE at # "init" /\ (refused \/ capturer = selected)

ScreenInv == ScreenTypeOK /\ AskedOnly /\ ListFirst /\ LastIsSelected

LEMMA ScreenInvImplies == ScreenInv => OnlyAskedIsShown /\ SharedIsSelected
BY DEF ScreenInv, AskedOnly, LastIsSelected, OnlyAskedIsShown, SharedIsSelected

LEMMA ScreenInvInit == ScreenInit => ScreenInv
<1> SUFFICES ASSUME ScreenInit PROVE ScreenInv
  OBVIOUS
<1>1. ScreenTypeOK
  <2>1. \A S : << >> \in Seq(S) /\ Len(<< >>) = 0
    OBVIOUS
  <2>2. selections \in 0 .. MaxSelections
        /\ Len(encoded) <= QueueSize
    BY SizesAssumption DEF ScreenInit
  <2>3. QED BY <2>1, <2>2, MonitorsAssumption DEF ScreenInit, ScreenTypeOK
<1>2. AskedOnly /\ ListFirst /\ LastIsSelected
  BY DEF ScreenInit, AskedOnly, ListFirst, LastIsSelected
<1>3. QED BY <1>1, <1>2 DEF ScreenInv

-----------------------------------------------------------------------------
(* Screen sharing: the steps. *)

LEMMA ScreenNextCases ==
  ASSUME ScreenNext
  PROVE  \/ \E m \in MonitorIds : Unplug(m) \/ Select(m)
         \/ ChannelOpens \/ ChannelCloses
         \/ \E i \in 1 .. MaxSelections : switch_monitor(i)
         \/ CtlMessage \/ SwitchRequest
         \/ WriteSample \/ FrameLost \/ StreamEnds
         \/ StartCapture \/ StartCaptureFails \/ TakeSwitch
         \/ Capture \/ CaptureFails \/ BlockingSend
         \/ UNCHANGED screen_vars
BY Zenon DEF ScreenNext, SendStep, ThreadStep, SessionOver

CtlMessages == [type : {"List", "Switched"}, ms : SUBSET MonitorIds]

LEMMA ScreenTypeStep ==
  ASSUME ScreenTypeOK, AskedOnly, ScreenNext
  PROVE  ScreenTypeOK'
<1> USE DEF data_channel, controller, host, history
<1>a. \A S : << >> \in Seq(S) /\ Len(<< >>) = 0
  OBVIOUS
<1>b. attached \subseteq MonitorIds /\ Primary \in MonitorIds
  BY MonitorsAssumption DEF ScreenTypeOK
<1>1. ASSUME NEW m \in MonitorIds, Unplug(m) PROVE ScreenTypeOK'
  BY <1>1 DEF ScreenTypeOK, Unplug
<1>2. ASSUME NEW m \in MonitorIds, Select(m) PROVE ScreenTypeOK'
  <2>1. Append(requests, m) \in Seq(MonitorIds) /\ selections + 1 \in 0 .. MaxSelections
    BY <1>2, SizesAssumption DEF ScreenTypeOK, Select
  <2>2. contended' \in BOOLEAN
    BY <1>2 DEF ScreenTypeOK, Select
  <2>3. QED BY <1>2, <2>1, <2>2 DEF ScreenTypeOK, Select
<1>3. CASE ChannelOpens
  <2>1. \A c \in CtlMessages : << c >> \in Seq(CtlMessages)
    OBVIOUS
  <2>2. list_monitors \in CtlMessages
    BY <1>b DEF list_monitors, Msg, CtlMessages
  <2>3. to_ctl' \in Seq(CtlMessages)
    BY <1>3, <1>a, <2>1, <2>2 DEF ChannelOpens
  <2>4. QED BY <1>3, <2>3 DEF ScreenTypeOK, ChannelOpens, CtlMessages
<1>4. CASE ChannelCloses
  BY <1>4, <1>a DEF ScreenTypeOK, ChannelCloses
<1>5. ASSUME NEW i \in 1 .. MaxSelections, switch_monitor(i) PROVE ScreenTypeOK'
  <2>1. i \in DOMAIN requests /\ requests \in Seq(MonitorIds) /\ to_host \in Seq(MonitorIds)
    BY <1>5 DEF ScreenTypeOK, switch_monitor
  <2>2. requests[i] \in MonitorIds
        /\ SubSeq(requests, 1, i - 1) \o SubSeq(requests, i + 1, Len(requests)) \in Seq(MonitorIds)
    BY <2>1, RemoveOne
  <2>3. requests' \in Seq(MonitorIds) /\ to_host' \in Seq(MonitorIds)
    BY <1>5, <2>1, <2>2, AppendProperties DEF switch_monitor
  <2>4. QED BY <1>5, <2>3 DEF ScreenTypeOK, switch_monitor
<1>6. CASE CtlMessage
  <2>1. to_ctl \in Seq(CtlMessages)
    BY DEF ScreenTypeOK, CtlMessages
  <2>2. Head(to_ctl) \in CtlMessages /\ Tail(to_ctl) \in Seq(CtlMessages)
    BY <1>6, <2>1, TailEnds DEF CtlMessage
  <2>3. monitors' \subseteq MonitorIds /\ to_ctl' \in Seq(CtlMessages)
    BY <1>6, <2>2 DEF CtlMessage, ScreenTypeOK, CtlMessages
  <2>4. QED BY <1>6, <2>3 DEF ScreenTypeOK, CtlMessage, CtlMessages
<1>7. CASE SwitchRequest
  <2>1. Head(to_host) \in MonitorIds /\ Tail(to_host) \in Seq(MonitorIds)
    BY <1>7, TailEnds DEF SwitchRequest, ScreenTypeOK
  <2>2. monitor_switch' \in Seq(MonitorIds)
    BY <1>7, <2>1, AppendProperties DEF SwitchRequest, ScreenTypeOK
  <2>3. to_ctl \in Seq(CtlMessages) /\ Msg("Switched", {Head(to_host)}) \in CtlMessages
    BY <2>1 DEF ScreenTypeOK, CtlMessages, Msg
  <2>4. to_ctl' \in Seq(CtlMessages)
    BY <1>7, <2>3, AppendProperties DEF SwitchRequest
  <2>5. QED BY <1>7, <2>1, <2>2, <2>4, ZenonT(40) DEF ScreenTypeOK, SwitchRequest, CtlMessages
<1>8. CASE WriteSample \/ FrameLost
  <2>1. encoded \in Seq(MonitorIds) /\ encoded # << >>
    BY <1>8 DEF WriteSample, FrameLost, ScreenTypeOK
  <2>2. Head(encoded) \in MonitorIds /\ Tail(encoded) \in Seq(MonitorIds)
        /\ Len(Tail(encoded)) <= QueueSize
    BY <2>1, HeadTailProperties, SizesAssumption, LenProperties DEF ScreenTypeOK
  <2>3. QED BY <1>8, <2>2 DEF ScreenTypeOK, WriteSample, FrameLost, show_video
<1>9. CASE StreamEnds
  <2>1. encoded' \in Seq(MonitorIds) /\ Len(encoded') <= QueueSize
    BY <1>9, <1>a, SizesAssumption DEF StreamEnds
  <2>2. QED BY <1>9, <2>1 DEF ScreenTypeOK, StreamEnds
<1>10. CASE StartCapture
  BY <1>10, <1>b DEF ScreenTypeOK, StartCapture
<1>11. CASE StartCaptureFails
  BY <1>11, <1>a DEF ScreenTypeOK, StartCaptureFails, End
<1>12. CASE TakeSwitch
  <2>1. CASE monitor_switch = << >>
    BY <1>12, <2>1 DEF ScreenTypeOK, TakeSwitch
  <2>2. CASE monitor_switch # << >>
    <3>1. Head(monitor_switch) \in MonitorIds /\ Tail(monitor_switch) \in Seq(MonitorIds)
      BY <2>2, TailEnds DEF ScreenTypeOK
    <3>2. refused' \in BOOLEAN
      BY <1>12, <2>2 DEF TakeSwitch
    <3>3. QED BY <1>12, <2>2, <3>1, <3>2 DEF ScreenTypeOK, TakeSwitch
  <2>3. QED BY <2>1, <2>2
<1>13. CASE Capture
  BY <1>13 DEF ScreenTypeOK, Capture
<1>14. CASE CaptureFails
  BY <1>14 DEF ScreenTypeOK, CaptureFails
<1>15. CASE BlockingSend
  <2>1. CASE streaming
    <3>1. frame \in MonitorIds
      BY <1>15 DEF BlockingSend, AskedOnly, ScreenTypeOK
    <3>2. Append(encoded, frame) \in Seq(MonitorIds)
          /\ Len(Append(encoded, frame)) <= QueueSize
      BY <1>15, <2>1, <3>1, AppendProperties, LenProperties, SizesAssumption
         DEF BlockingSend, ScreenTypeOK
    <3>3. QED BY <1>15, <2>1, <3>2 DEF ScreenTypeOK, BlockingSend
  <2>2. CASE ~streaming
    BY <1>15, <1>a, <2>2 DEF ScreenTypeOK, BlockingSend, End
  <2>3. QED BY <2>1, <2>2
<1>16. CASE UNCHANGED screen_vars
  BY <1>16 DEF ScreenTypeOK, screen_vars
<1>17. QED
  BY <1>1, <1>2, <1>3, <1>4, <1>5, <1>6, <1>7, <1>8, <1>9, <1>10, <1>11, <1>12,
     <1>13, <1>14, <1>15, <1>16, ScreenNextCases

LEMMA AskedStep ==
  ASSUME ScreenTypeOK, AskedOnly, ScreenNext
  PROVE  AskedOnly'
<1> USE DEF data_channel, controller, host, history
<1>a. \A S : << >> \in Seq(S)
  OBVIOUS
<1>b. /\ requests \in Seq(asked) /\ to_host \in Seq(asked)
      /\ monitor_switch \in Seq(asked) /\ encoded \in Seq(asked)
      /\ NoMonitor \notin MonitorIds /\ attached \subseteq MonitorIds
  BY MonitorsAssumption DEF AskedOnly, ScreenTypeOK
<1>1. ASSUME NEW m \in MonitorIds, Unplug(m) PROVE AskedOnly'
  BY <1>1 DEF AskedOnly, Unplug
<1>2. ASSUME NEW m \in MonitorIds, Select(m) PROVE AskedOnly'
  <2>1. asked \subseteq asked' /\ m \in asked'
    BY <1>2 DEF Select
  <2>2. /\ requests \in Seq(asked') /\ to_host \in Seq(asked')
        /\ monitor_switch \in Seq(asked') /\ encoded \in Seq(asked')
    BY <1>b, <2>1, SeqMonotone
  <2>3. requests' \in Seq(asked')
    BY <1>2, <2>1, <2>2, AppendProperties DEF Select
  <2>4. QED BY <1>2, <2>1, <2>2, <2>3 DEF AskedOnly, Select
<1>3. CASE ChannelOpens \/ ChannelCloses \/ CtlMessage
  BY <1>3, <1>a DEF AskedOnly, ChannelOpens, ChannelCloses, CtlMessage
<1>4. ASSUME NEW i \in 1 .. MaxSelections, switch_monitor(i) PROVE AskedOnly'
  <2>1. requests[i] \in asked
        /\ SubSeq(requests, 1, i - 1) \o SubSeq(requests, i + 1, Len(requests)) \in Seq(asked)
    BY <1>4, <1>b, RemoveOne DEF switch_monitor
  <2>2. requests' \in Seq(asked) /\ to_host' \in Seq(asked)
    BY <1>4, <1>b, <2>1, AppendProperties DEF switch_monitor
  <2>3. QED BY <1>4, <2>2 DEF AskedOnly, switch_monitor
<1>5. CASE SwitchRequest
  <2>1. Head(to_host) \in asked /\ Tail(to_host) \in Seq(asked)
    BY <1>5, <1>b, TailEnds DEF SwitchRequest
  <2>2. monitor_switch' \in Seq(asked)
    BY <1>5, <1>b, <2>1, AppendProperties DEF SwitchRequest
  <2>3. QED BY <1>5, <2>1, <2>2 DEF AskedOnly, SwitchRequest
<1>6. CASE WriteSample \/ FrameLost
  <2>1. Head(encoded) \in asked /\ Tail(encoded) \in Seq(asked)
    BY <1>6, <1>b, TailEnds DEF WriteSample, FrameLost
  <2>2. QED BY <1>6, <2>1 DEF AskedOnly, WriteSample, FrameLost, show_video
<1>7. CASE StreamEnds
  BY <1>7, <1>a DEF AskedOnly, StreamEnds
<1>8. CASE StartCapture
  <2>1. asked \subseteq asked' /\ capturer' \in asked'
    BY <1>8 DEF StartCapture
  <2>2. /\ requests \in Seq(asked') /\ to_host \in Seq(asked')
        /\ monitor_switch \in Seq(asked') /\ encoded \in Seq(asked')
    BY <1>b, <2>1, SeqMonotone
  <2>3. QED BY <1>8, <2>1, <2>2 DEF AskedOnly, StartCapture
<1>9. CASE StartCaptureFails
  BY <1>9, <1>a DEF AskedOnly, StartCaptureFails, End
<1>10. CASE TakeSwitch
  <2>1. CASE monitor_switch = << >>
    BY <1>10, <2>1 DEF AskedOnly, TakeSwitch
  <2>2. CASE monitor_switch # << >>
    <3>1. Head(monitor_switch) \in asked /\ Tail(monitor_switch) \in Seq(asked)
      BY <1>b, <2>2, TailEnds
    <3>2. QED BY <1>10, <2>2, <3>1 DEF AskedOnly, TakeSwitch
  <2>3. QED BY <2>1, <2>2
<1>11. CASE Capture \/ CaptureFails
  BY <1>11, <1>b DEF AskedOnly, Capture, CaptureFails
<1>12. CASE BlockingSend
  <2>1. frame \in asked
    BY <1>12 DEF BlockingSend, AskedOnly
  <2>2. Append(encoded, frame) \in Seq(asked)
    BY <1>b, <2>1, AppendProperties
  <2>3. QED BY <1>12, <1>a, <2>2 DEF AskedOnly, BlockingSend, End
<1>13. CASE UNCHANGED screen_vars
  BY <1>13 DEF AskedOnly, screen_vars
<1>14. QED
  BY <1>1, <1>2, <1>3, <1>4, <1>5, <1>6, <1>7, <1>8, <1>9, <1>10, <1>11, <1>12,
     <1>13, ScreenNextCases

LEMMA ListStep ==
  ASSUME ListFirst, ScreenNext
  PROVE  ListFirst'
<1> USE DEF data_channel, controller, host, history, ListFirst
<1>1. ASSUME NEW m \in MonitorIds, Unplug(m) \/ Select(m) PROVE ListFirst'
  BY <1>1 DEF Unplug, Select
<1>2. ASSUME NEW i \in 1 .. MaxSelections, switch_monitor(i) PROVE ListFirst'
  BY <1>2 DEF switch_monitor
<1>3. CASE SwitchRequest
  BY <1>3 DEF SwitchRequest
<1>4. QED
  BY <1>1, <1>2, <1>3, ScreenNextCases
     DEF ChannelOpens, ChannelCloses, CtlMessage, WriteSample, FrameLost,
         show_video, StreamEnds, StartCapture, StartCaptureFails, TakeSwitch,
         Capture, CaptureFails, BlockingSend, screen_vars

LEMMA LastStep ==
  ASSUME ScreenInv, ScreenNext
  PROVE  LastIsSelected'
<1> USE DEF data_channel, controller, host, history
<1>a. /\ requests \in Seq(MonitorIds) /\ to_host \in Seq(MonitorIds)
      /\ monitor_switch \in Seq(MonitorIds) /\ NoMonitor \notin MonitorIds
      /\ LastIsSelected /\ selected \in MonitorIds \cup {NoMonitor}
  BY MonitorsAssumption DEF ScreenInv, ScreenTypeOK
\* Steps that neither make nor take a request.
<1>b. ASSUME UNCHANGED <<selected, contended, requests, to_host, monitor_switch, refused>>,
             dc' = "open" => dc = "open" \/ selected = NoMonitor,
             at' # "ended" => at # "ended",
             at' = "init" => at = "init",
             capturer' = capturer \/ at = "init"
      PROVE  LastIsSelected'
  BY <1>b, <1>a DEF LastIsSelected, EndsIn
<1>1. ASSUME NEW m \in MonitorIds, Unplug(m) PROVE LastIsSelected'
  BY <1>1, <1>b DEF Unplug
<1>2. ASSUME NEW m \in MonitorIds, Select(m) PROVE LastIsSelected'
  <2>1. Append(requests, m) # << >> /\ EndsIn(Append(requests, m), m)
    BY <1>a, AppendEnds, <1>2 DEF EndsIn
  <2>2. requests = << >> => Len(Append(requests, m)) = 1
    BY <1>a
  <2>3. selected' = m /\ requests' = Append(requests, m) /\ (~contended' => requests = << >>)
    BY <1>2 DEF Select
  <2>4. QED BY <2>1, <2>2, <2>3 DEF LastIsSelected
<1>3. CASE ChannelOpens
  BY <1>3, <1>b DEF ChannelOpens, ScreenInv, ListFirst
<1>4. CASE ChannelCloses
  BY <1>4, <1>a DEF ChannelCloses, LastIsSelected
<1>5. ASSUME NEW i \in 1 .. MaxSelections, switch_monitor(i) PROVE LastIsSelected'
  <2>1. /\ i \in DOMAIN requests
        /\ requests' = SubSeq(requests, 1, i - 1) \o SubSeq(requests, i + 1, Len(requests))
        /\ to_host' = IF dc = "open" THEN Append(to_host, requests[i]) ELSE to_host
        /\ UNCHANGED <<dc, selected, contended, monitor_switch, at, capturer, refused>>
    BY <1>5 DEF switch_monitor
  <2>2. /\ requests[i] \in MonitorIds
        /\ Len(requests) = 1 => requests[i] = requests[1] /\ requests' = << >>
    BY <1>a, <2>1, RemoveOne
  <2>3. requests # << >>
    BY <2>1
  <2>4. EndsIn(Append(to_host, requests[i]), requests[i]) /\ Append(to_host, requests[i]) # << >>
    BY <1>a, <2>2, AppendEnds DEF EndsIn
  <2>5. ASSUME ~contended PROVE LastIsSelected'
    <3>1. Len(requests) = 1 /\ requests' = << >> /\ requests[i] = requests[1]
      BY <1>a, <2>2, <2>3, <2>5 DEF LastIsSelected
    <3>2. (selected # NoMonitor /\ dc = "open" /\ at # "ended") => requests[1] = selected
      BY <1>a, <2>3, <2>5, <3>1 DEF LastIsSelected, EndsIn
    <3>3. QED BY <2>1, <2>4, <3>1, <3>2 DEF LastIsSelected
  <2>6. QED BY <2>1, <2>5 DEF LastIsSelected
<1>6. CASE CtlMessage
  BY <1>6, <1>b DEF CtlMessage
<1>7. CASE SwitchRequest
  <2>1. /\ Head(to_host) \in MonitorIds /\ Tail(to_host) \in Seq(MonitorIds)
        /\ EndsIn(to_host, selected) => IF Tail(to_host) = << >> THEN Head(to_host) = selected
                                        ELSE EndsIn(Tail(to_host), selected)
    BY <1>7, <1>a, TailEnds DEF SwitchRequest
  <2>2. EndsIn(Append(monitor_switch, Head(to_host)), Head(to_host))
        /\ Append(monitor_switch, Head(to_host)) # << >>
    BY <1>a, <2>1, AppendEnds DEF EndsIn
  <2>3. /\ to_host # << >> /\ to_host' = Tail(to_host)
        /\ at # "ended" => monitor_switch' = Append(monitor_switch, Head(to_host))
        /\ UNCHANGED <<dc, requests, selected, contended, at, capturer, refused>>
    BY <1>7 DEF SwitchRequest
  <2>4. QED BY <1>a, <2>1, <2>2, <2>3 DEF LastIsSelected
<1>8. CASE WriteSample \/ FrameLost \/ StreamEnds
  BY <1>8, <1>b DEF WriteSample, FrameLost, StreamEnds
<1>9. CASE StartCapture
  BY <1>9, <1>b DEF StartCapture
<1>10. CASE StartCaptureFails
  BY <1>10, <1>a DEF StartCaptureFails, End, LastIsSelected
<1>11. CASE TakeSwitch
  <2>1. CASE monitor_switch = << >>
    BY <1>11, <1>b, <2>1 DEF TakeSwitch
  <2>2. CASE monitor_switch # << >>
    <3>1. EndsIn(monitor_switch, selected) =>
            IF Tail(monitor_switch) = << >> THEN Head(monitor_switch) = selected
            ELSE EndsIn(Tail(monitor_switch), selected)
      BY <1>a, <2>2, TailEnds
    <3>2. /\ monitor_switch' = Tail(monitor_switch) /\ at = "switch" /\ at' = "capture"
          /\ UNCHANGED <<dc, requests, to_host, selected, contended>>
          /\ refused' \/ capturer' = Head(monitor_switch)
      BY <1>11, <2>2 DEF TakeSwitch
    <3>3. QED BY <1>a, <2>2, <3>1, <3>2 DEF LastIsSelected
  <2>3. QED BY <2>1, <2>2
<1>12. CASE Capture \/ CaptureFails
  BY <1>12, <1>b DEF Capture, CaptureFails
<1>13. CASE BlockingSend
  <2>1. CASE streaming
    BY <1>13, <1>b, <2>1 DEF BlockingSend
  <2>2. CASE ~streaming
    BY <1>13, <1>a, <2>2 DEF BlockingSend, End, LastIsSelected
  <2>3. QED BY <2>1, <2>2
<1>14. CASE UNCHANGED screen_vars
  BY <1>14, <1>b DEF screen_vars
<1>15. QED
  BY <1>1, <1>2, <1>3, <1>4, <1>5, <1>6, <1>7, <1>8, <1>9, <1>10, <1>11, <1>12,
     <1>13, <1>14, ScreenNextCases

LEMMA ScreenInvStep == ScreenInv /\ [ScreenNext]_screen_vars => ScreenInv'
<1>1. ScreenInv /\ ScreenNext => ScreenInv'
  BY ScreenTypeStep, AskedStep, ListStep, LastStep DEF ScreenInv
<1>2. ScreenInv /\ UNCHANGED screen_vars => ScreenInv'
  BY DEF ScreenInv, screen_vars, data_channel, controller, host, history, ScreenTypeOK, AskedOnly,
         ListFirst, LastIsSelected, EndsIn
<1>3. QED BY <1>1, <1>2

\* Every variable keeps its type, and the frame queue its capacity
\* (host.rs:253: a bounded channel and a blocking send).
THEOREM ScreenTypeCorrect == ScreenSpec => []ScreenTypeOK
BY ScreenInvInit, ScreenInvStep, PTL DEF ScreenSpec, ScreenInv

\* The controller never sees a monitor that neither the start of the session
\* nor its user asked for (host.rs:269-278), whatever is unplugged meanwhile.
THEOREM ShowsOnlyAsked == ScreenSpec => []OnlyAskedIsShown
BY ScreenInvInit, ScreenInvStep, ScreenInvImplies, PTL DEF ScreenSpec

\* When all requests are through, the host captures the monitor the window
\* names as selected (gui.rs:492-498, host.rs:215-216, 270-275), with the
\* exceptions SharedIsSelected names.
THEOREM SharesSelected == ScreenSpec => []SharedIsSelected
BY ScreenInvInit, ScreenInvStep, ScreenInvImplies, PTL DEF ScreenSpec

=============================================================================
