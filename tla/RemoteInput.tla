---------------------------- MODULE RemoteInput ----------------------------
(***************************************************************************)
(* Mouse and keyboard, from the controller's picture of the remote screen  *)
(* to the host's desktop (gui.rs, controller.rs, control.rs, host.rs,      *)
(* input.rs).                                                              *)
(*                                                                         *)
(* What the user does is captured while the picture is there and becomes   *)
(* an event; each event is sent by a task of its own, so tasks overtake    *)
(* each other; the host applies what arrives, in the order of arrival.     *)
(* One axis stands for both.  The user's pointer, the windowing library    *)
(* and the desktop are external.                                           *)
(***************************************************************************)
EXTENDS Integers, Sequences, FiniteSets

CONSTANTS
  Buttons,     \* mouse buttons that map_pointer_button knows
  Keys,        \* keys that map_special_key knows
  Printable,   \* those of them that also give text: the space bar
  Deltas,      \* wheel movements, in halves of the library's unit
  Width,       \* width of the picture in the controller's window
  Monitors,    \* the host's monitors: origin and width
  MaxActs,     \* bound: what happens at the controller after the first frame
  None         \* Option::None

Things == Buttons \cup Keys

\* Characters are numbered, so keys are no numbers.
ASSUME InputAssumption ==
  /\ Width \in Nat \ {0} /\ MaxActs \in Nat
  /\ Monitors \subseteq [origin : Nat, width : Nat \ {0}]
  /\ Printable \subseteq Keys /\ Printable \cap 1 .. MaxActs = {}
  /\ Deltas \subseteq Int
  /\ None \notin Monitors

Outside == -1

VARIABLES
  \* The controller's window.
  panel,       \* the Connect panel is open
  shown,       \* the monitor in the picture, None before the first frame
  pointer,     \* the user's pointer: a column of the picture, or Outside
  held,        \* buttons and keys the user holds down
  \* Between the two.
  tasks,       \* spawned sends
  channel,     \* the data channel, towards the host
  link,        \* its state: connecting, open or closed
  \* The host's desktop.
  host_pointer, host_held,
  typed,       \* text it got
  scrolled,    \* lines it was scrolled
  click,       \* the last press: where it was aimed, where it went
  \* Bounds and history.
  acts,        \* number of things that happened at the controller
  entered,     \* number of characters the user entered
  turned,      \* halves of a unit the user scrolled by, and how often
  fresh,       \* the pointer's place in this picture was captured
  missed,      \* released without being captured
  unheard,     \* lost while the channel was connecting: the last character,
               \* the lines of scrolling, whether a move
  overtaken,   \* an event was sent before an older one
  failed       \* an event was not injected

window  == <<panel, shown, pointer, held>>
desktop == <<host_pointer, host_held, typed, scrolled, click>>
vars    == <<window, tasks, channel, link, desktop,
             acts, entered, turned, fresh, missed, unheard, overtaken, failed>>

Coordinates == UNION {0 .. m.width : m \in Monitors}

\* aim is history: the column the user pressed at.
InputEvents ==
  [kind : {"move"}, arg : Coordinates]
  \cup [kind : {"press"}, arg : Things, aim : Coordinates \cup {None}]
  \cup [kind : {"release"}, arg : Things]
  \cup [kind : {"text"}, arg : 1 .. MaxActs \cup Printable]
  \cup [kind : {"scroll"}, arg : Int]

NoClick == [aim |-> None, at |-> None]

Init ==
  /\ panel = TRUE /\ shown = None /\ pointer = Outside /\ held = {}
  /\ tasks = {} /\ channel = <<>> /\ link = "connecting"
  /\ host_pointer = None /\ host_held = {} /\ typed = <<>> /\ scrolled = 0
  /\ click = NoClick
  /\ acts = 0 /\ entered = 0 /\ turned = [halves |-> 0, times |-> 0]
  /\ fresh = FALSE /\ missed = {} /\ overtaken = FALSE /\ failed = FALSE
  /\ unheard = [char |-> 0, lines |-> 0, move |-> FALSE]

-----------------------------------------------------------------------------
(* The picture. *)

Act == acts < MaxActs /\ acts' = acts + 1

\* Events are looked at while there is a picture in the panel.
Capturing == panel /\ shown # None

\* rect.contains: both edges belong to the picture.
contains(p) == p \in 0 .. Width

FrameArrives(m) ==
  /\ shown # m
  /\ IF shown = None THEN UNCHANGED acts ELSE Act
  /\ shown' = m
  /\ fresh' = FALSE
  /\ UNCHANGED <<panel, pointer, held, tasks, channel, link, desktop,
                 entered, turned, missed, unheard, overtaken, failed>>

\* The tabs are above the picture; "Connect" in the list of devices is not.
SwitchPanel ==
  /\ panel => pointer = Outside
  /\ panel' = ~panel
  /\ Act
  /\ UNCHANGED <<shown, pointer, held, tasks, channel, link, desktop,
                 entered, turned, fresh, missed, unheard, overtaken, failed>>

\* The row of monitors appears above the picture, which moves under the pointer;
\* the windowing library reports nothing.
PictureMoves(p) ==
  /\ Capturing
  /\ p # pointer
  /\ pointer' = p
  /\ fresh' = FALSE
  /\ Act
  /\ UNCHANGED <<panel, shown, held, tasks, channel, link, desktop,
                 entered, turned, missed, unheard, overtaken, failed>>

-----------------------------------------------------------------------------
(* Capturing: show_video_and_capture_input. *)

\* Mutant: the picture's edges exchanged.
remote_coords_mirrored(p, m) == ((Width - p) * m.width) \div Width

\* remote_coords; at the picture's right edge it is one past the last column.
remote_coords(p, m) == (p * m.width) \div Width

\* A number of halves `as i32`: towards zero.
as_i32(halves) == IF halves >= 0 THEN halves \div 2 ELSE -((-halves) \div 2)

\* send_input of each event of a sequence, in one act of the user.
SendInputs(es) ==
  /\ Act
  /\ tasks' = tasks \cup {[id |-> <<acts, i>>, event |-> es[i]] :
                            i \in 1 .. Len(es)}

NoInput == Act /\ UNCHANGED tasks

\* The column of the monitor that the user points at.
Pointed(p, m) ==
  CHOOSE x \in 0 .. m.width - 1 :
    /\ x * Width <= p * m.width
    /\ x = m.width - 1 \/ p * m.width < (x + 1) * Width

\* ... if the host was told, and the desktop's coordinates begin with it.
Aim == IF fresh /\ shown.origin = 0 THEN Pointed(pointer, shown) ELSE None

MovePointer(p) ==
  /\ p # pointer
  /\ pointer' = p
  /\ IF Capturing /\ contains(p)
     THEN /\ SendInputs(<<[kind |-> "move", arg |-> remote_coords(p, shown)]>>)
          /\ fresh' = TRUE
     ELSE NoInput /\ fresh' = FALSE
  /\ UNCHANGED <<panel, shown, held, channel, link, desktop, entered, turned,
                 missed, unheard, overtaken, failed>>

PressButton(b) ==
  /\ b \notin held
  /\ held' = held \cup {b}
  /\ IF Capturing /\ contains(pointer)
     THEN /\ SendInputs(<<[kind |-> "press", arg |-> b, aim |-> Aim]>>)
          /\ missed' = missed \ {b}
     ELSE NoInput /\ UNCHANGED missed
  /\ UNCHANGED <<panel, shown, pointer, channel, link, desktop, entered,
                 turned, fresh, unheard, overtaken, failed>>

\* Mutant: only presses are sent.
ReleaseButtonUnsent(b) ==
  /\ b \in held
  /\ held' = held \ {b}
  /\ NoInput
  /\ UNCHANGED <<panel, shown, pointer, channel, link, desktop, entered,
                 turned, fresh, missed, unheard, overtaken, failed>>

ReleaseButton(b) ==
  /\ b \in held
  /\ held' = held \ {b}
  /\ IF Capturing /\ contains(pointer)
     THEN /\ SendInputs(<<[kind |-> "release", arg |-> b]>>)
          /\ UNCHANGED missed
     ELSE NoInput /\ missed' = missed \cup {b}
  /\ UNCHANGED <<panel, shown, pointer, channel, link, desktop, entered,
                 turned, fresh, unheard, overtaken, failed>>

\* The picture has the focus.  The windowing library reports the space bar as a
\* key and as text.
PressKey(k) ==
  /\ k \notin held
  /\ held' = held \cup {k}
  /\ IF Capturing
     THEN /\ SendInputs(<<[kind |-> "press", arg |-> k, aim |-> None]>>
                        \o IF k \in Printable
                           THEN <<[kind |-> "text", arg |-> k]>> ELSE <<>>)
          /\ missed' = missed \ {k}
     ELSE NoInput /\ UNCHANGED missed
  /\ UNCHANGED <<panel, shown, pointer, channel, link, desktop, entered,
                 turned, fresh, unheard, overtaken, failed>>

ReleaseKey(k) ==
  /\ k \in held
  /\ held' = held \ {k}
  /\ IF Capturing
     THEN /\ SendInputs(<<[kind |-> "release", arg |-> k]>>)
          /\ UNCHANGED missed
     ELSE NoInput /\ missed' = missed \cup {k}
  /\ UNCHANGED <<panel, shown, pointer, channel, link, desktop, entered,
                 turned, fresh, unheard, overtaken, failed>>

\* Mutant: every key sends its text twice, like the space bar.
TypeTextTwice ==
  /\ Capturing
  /\ entered' = entered + 1
  /\ SendInputs(<<[kind |-> "text", arg |-> entered'],
                  [kind |-> "text", arg |-> entered']>>)
  /\ UNCHANGED <<window, channel, link, desktop, turned, fresh, missed, unheard,
                 overtaken, failed>>

\* The n-th character entered stands for itself.
TypeText ==
  /\ Capturing
  /\ entered' = entered + 1
  /\ SendInputs(<<[kind |-> "text", arg |-> entered']>>)
  /\ UNCHANGED <<window, channel, link, desktop, turned, fresh, missed, unheard,
                 overtaken, failed>>

\* Mutant: in the direction of the wheel.
ScrollReversed(d) ==
  /\ Capturing /\ contains(pointer)
  /\ SendInputs(<<[kind |-> "scroll", arg |-> as_i32(d)]>>)
  /\ turned' = [halves |-> turned.halves + d, times |-> turned.times + 1]
  /\ UNCHANGED <<window, channel, link, desktop, entered, fresh, missed, unheard,
                 overtaken, failed>>

\* The unit of the movement, a point, a line or a page, is not looked at: the
\* host scrolls by as many lines.
Scroll(d) ==
  /\ Capturing /\ contains(pointer)
  /\ SendInputs(<<[kind |-> "scroll", arg |-> as_i32(-d)]>>)
  /\ turned' = [halves |-> turned.halves + d, times |-> turned.times + 1]
  /\ UNCHANGED <<window, channel, link, desktop, entered, fresh, missed, unheard,
                 overtaken, failed>>

-----------------------------------------------------------------------------
(* Sending: controller::send_input. *)

Older(t, u) == \/ t.id[1] < u.id[1]
               \/ t.id[1] = u.id[1] /\ t.id[2] < u.id[2]

\* What is lost with an event.
UnheardWith(e) ==
  CASE e.kind = "move" -> [unheard EXCEPT !.move = TRUE]
    [] e.kind = "text" /\ e.arg \notin Printable -> [unheard EXCEPT !.char = e.arg]
    [] e.kind = "scroll" -> [unheard EXCEPT !.lines = @ + e.arg]
    [] OTHER -> unheard

\* The error of a channel that is not open yet, or closed, is ignored.
Send(t) ==
  /\ t \in tasks
  /\ tasks' = tasks \ {t}
  /\ channel' = IF link = "open" THEN Append(channel, t.event) ELSE channel
  /\ unheard' = IF link = "connecting" THEN UnheardWith(t.event) ELSE unheard
  /\ overtaken' = (overtaken \/ \E u \in tasks : Older(u, t))
  /\ UNCHANGED <<window, link, desktop, acts, entered, turned, fresh, missed,
                 failed>>

\* Frames may come, and input be captured, before it does.
LinkOpens ==
  /\ link = "connecting"
  /\ link' = "open"
  /\ UNCHANGED <<window, tasks, channel, desktop, acts, entered, turned, fresh,
                 missed, unheard, overtaken, failed>>

\* Nothing on the host releases what is held.
Close ==
  /\ link = "open"
  /\ link' = "closed"
  /\ channel' = <<>>
  /\ UNCHANGED <<window, tasks, desktop, acts, entered, turned, fresh,
                 missed, unheard, overtaken, failed>>

-----------------------------------------------------------------------------
(* The host: handle_input and InputInjector::apply. *)

\* InputInjector::apply.  The desktop keeps its pointer on its monitors, and a
\* key that carries text types it.
apply(e) ==
  CASE e.kind = "move" ->
         /\ host_pointer' = e.arg
         /\ UNCHANGED <<host_held, typed, scrolled, click>>
    [] e.kind = "press" ->
         /\ host_held' = host_held \cup {e.arg}
         /\ typed' = IF e.arg \in Printable THEN Append(typed, e.arg) ELSE typed
         /\ click' = IF e.arg \in Buttons
                     THEN [aim |-> e.aim, at |-> host_pointer] ELSE click
         /\ UNCHANGED <<host_pointer, scrolled>>
    [] e.kind = "release" ->
         /\ host_held' = host_held \ {e.arg}
         /\ UNCHANGED <<host_pointer, typed, scrolled, click>>
    [] e.kind = "text" ->
         /\ typed' = Append(typed, e.arg)
         /\ UNCHANGED <<host_pointer, host_held, scrolled, click>>
    [] e.kind = "scroll" ->
         /\ scrolled' = scrolled + e.arg
         /\ UNCHANGED <<host_pointer, host_held, typed, click>>

\* The message handler waits for input_sink, so one event is applied at a time.
HandleInput ==
  /\ channel # <<>>
  /\ channel' = Tail(channel)
  /\ \/ apply(Head(channel)) /\ UNCHANGED failed
     \/ failed' = TRUE /\ UNCHANGED desktop
  /\ UNCHANGED <<window, tasks, link, acts, entered, turned, fresh, missed, unheard,
                 overtaken>>

-----------------------------------------------------------------------------

User ==
  \/ SwitchPanel
  \/ \E p \in {Outside} \cup 0 .. Width : MovePointer(p)
  \/ \E p \in {Outside} \cup 0 .. Width : PictureMoves(p)
  \/ \E b \in Buttons : PressButton(b) \/ ReleaseButton(b)
  \/ \E k \in Keys : PressKey(k) \/ ReleaseKey(k)
  \/ TypeText
  \/ \E d \in Deltas : Scroll(d)

\* The bound is reached and everything is through.
NothingLeft == acts = MaxActs /\ tasks = {} /\ channel = <<>> /\ UNCHANGED vars

Next ==
  \/ User
  \/ \E m \in Monitors : FrameArrives(m)
  \/ \E t \in tasks : Send(t)
  \/ LinkOpens \/ Close
  \/ HandleInput
  \/ NothingLeft

Spec == Init /\ [][Next]_vars

-----------------------------------------------------------------------------
(* Properties. *)

\* The type invariant.
TypeOK ==
  /\ panel \in BOOLEAN /\ shown \in Monitors \cup {None}
  /\ pointer \in {Outside} \cup 0 .. Width /\ held \subseteq Things
  /\ link \in {"connecting", "open", "closed"}
  /\ link # "open" => channel = <<>>
  /\ acts \in 0 .. MaxActs
  /\ tasks \subseteq [id : (0 .. acts - 1) \X {1, 2}, event : InputEvents]
  /\ channel \in Seq(InputEvents)
  /\ host_pointer \in Coordinates \cup {None}
  /\ host_held \subseteq Things
  /\ typed \in Seq((1 .. entered) \cup Printable) /\ entered \in 0 .. MaxActs
  /\ scrolled \in Int
  /\ turned \in [halves : Int, times : 0 .. MaxActs]
  /\ click.aim \in Coordinates \cup {None}
  /\ fresh \in BOOLEAN /\ missed \subseteq Things
  /\ unheard \in [char : 0 .. MaxActs, lines : Int, move : BOOLEAN]
  /\ overtaken \in BOOLEAN /\ failed \in BOOLEAN

\* Of the first n of a text that goes on after the b-th character, the last is the
\* c-th, the space bar apart.
LastCharacter(text, n, b, c) ==
  \/ \E i \in 1 .. n : /\ text[i] = c
                       /\ \A j \in i + 1 .. n : text[j] \in Printable
  \/ c = b /\ \A i \in 1 .. n : text[i] \in Printable

\* What is typed on the host is what the user entered, in that order and each
\* character once (each comes right after the one entered before it), the
\* space bar apart, unless a task overtook another (gui.rs:110) or an event was
\* not injected.  What was entered before the channel opened is missing at the
\* front (gui.rs:113), and only there.
TypedAsEntered ==
  (~overtaken /\ ~failed)
  => \A i \in DOMAIN typed :
       typed[i] \notin Printable =>
         LastCharacter(typed, i - 1, unheard.char, typed[i] - 1)

Hits(x, aim) ==
  x = aim \/ \E m \in Monitors : aim = m.width - 1 /\ x = m.width

\* A press hits what the user points at.  The event has no position
\* (control.rs:23): it relies on the move before it, and on the desktop
\* taking the column right of the last one for the last one.  Only if every move
\* so far was lost while the channel was connecting does a press go wherever the
\* host's pointer was.
ClickHitsTarget ==
  (~overtaken /\ ~failed /\ click.aim # None)
  => Hits(click.at, click.aim) \/ (unheard.move /\ click.at = None)

Quiet == tasks = {} /\ channel = <<>>

\* The host has scrolled as many lines as the user's wheel reported units, in the
\* picture's direction and in whatever order the events came, but for what was
\* lost while the channel was connecting; each event loses less than one
\* (gui.rs:545).
ScrollAddsUp ==
  (Quiet /\ link = "open" /\ ~failed)
  => 2 * (scrolled + unheard.lines) + turned.halves
       \in -turned.times .. turned.times

\* What the user no longer holds is not held on the host once everything is
\* through, unless the release was outside the picture, tasks overtook each
\* other, an event was not injected or the channel closed.
NothingStaysHeld ==
  (Quiet /\ link = "open" /\ ~overtaken /\ ~failed)
  => host_held \subseteq held \cup missed

=============================================================================
