--------------------------- MODULE ScreenSharing ---------------------------
(***************************************************************************)
(* What the host shows the controller: the monitor list and the switching  *)
(* of monitors over the data channel, the capture thread and the bounded   *)
(* queue of frames between it and the host's loop (host.rs, capture.rs),   *)
(* and the controller's window (controller.rs, gui.rs).                    *)
(*                                                                         *)
(* A frame is the monitor it was captured from.  The window keeps the      *)
(* monitor the user selected apart from what it shows, and each selection  *)
(* is sent by a task of its own.  The channel is reliable and ordered, the *)
(* video track loses frames.                                               *)
(***************************************************************************)
EXTENDS Naturals, Sequences, FiniteSets

CONSTANTS
  MonitorIds,     \* monitor ids
  Primary,        \* the primary monitor of the host
  QueueSize,      \* capacity of the channel of encoded frames
  MaxSelections,  \* bound: selections of the user
  MaxUnplugs,     \* bound: monitors that are unplugged
  NoMonitor       \* nothing selected, nothing shown

ASSUME MonitorsAssumption == Primary \in MonitorIds /\ NoMonitor \notin MonitorIds

ASSUME SizesAssumption ==
  /\ QueueSize \in Nat \ {0}
  /\ MaxSelections \in Nat /\ MaxUnplugs \in Nat

VARIABLES
  attached,        \* the monitors the host's system lists
  \* The data channel.
  dc,              \* connecting, open or closed
  to_host,         \* SwitchRequests under way
  to_ctl,          \* monitor messages under way to the controller
  \* The controller.
  monitors,        \* the list of the last MonitorMessage::List
  selected,        \* selected_monitor_id
  requests,        \* spawned switch_monitor tasks that have not sent yet
  picture,         \* the frame in the window
  \* The host.
  monitor_switch,  \* the channel to the capture thread
  at,              \* where the capture thread is
  capturer,        \* the monitor it captures
  frame,           \* the frame it is about to hand over
  encoded,         \* the channel of encoded frames
  streaming,       \* the loop of handle_one_connection runs
  \* History and bounds.
  asked,           \* the primary monitor of the start and those the user selected
  contended,       \* a selection was made before the previous one was sent
  refused,         \* the last request the thread took could not be granted
  selections

data_channel == <<dc, to_host, to_ctl>>
controller   == <<monitors, selected, requests, picture>>
host         == <<monitor_switch, at, capturer, frame, encoded, streaming>>
history      == <<asked, contended, refused, selections>>
screen_vars  == <<attached, data_channel, controller, host, history>>

Msg(type, ms) == [type |-> type, ms |-> ms]

ScreenInit ==
  /\ attached = MonitorIds
  /\ dc = "connecting" /\ to_host = << >> /\ to_ctl = << >>
  /\ monitors = {} /\ selected = NoMonitor /\ requests = << >> /\ picture = NoMonitor
  /\ monitor_switch = << >> /\ at = "init" /\ capturer = NoMonitor
  /\ frame = NoMonitor /\ encoded = << >> /\ streaming = TRUE
  /\ asked = {} /\ contended = FALSE /\ refused = FALSE
  /\ selections = 0

-----------------------------------------------------------------------------
(* The surroundings. *)

Unplug(m) ==
  /\ m \in attached
  /\ Cardinality(MonitorIds \ attached) < MaxUnplugs
  /\ attached' = attached \ {m}
  /\ UNCHANGED <<data_channel, controller, host, history>>

list_monitors == Msg("List", attached)

\* The host sends its list as soon as the channel opens, if it gets one.
ChannelOpens ==
  /\ dc = "connecting"
  /\ dc' = "open"
  /\ to_ctl' \in { << list_monitors >>, << >> }
  /\ UNCHANGED <<attached, to_host, controller, host, history>>

ChannelCloses ==
  /\ dc = "open"
  /\ dc' = "closed"
  /\ to_host' = << >> /\ to_ctl' = << >>
  /\ UNCHANGED <<attached, controller, host, history>>

-----------------------------------------------------------------------------
(* The controller. *)

\* on_message: a List replaces the one before; Switched is ignored.
CtlMessage ==
  /\ to_ctl # << >>
  /\ to_ctl' = Tail(to_ctl)
  /\ monitors' = IF Head(to_ctl).type = "List" THEN Head(to_ctl).ms ELSE monitors
  /\ UNCHANGED <<attached, dc, to_host, selected, requests, picture, host, history>>

\* The window remembers the selection at once, whatever becomes of it.
Select(m) ==
  /\ selections < MaxSelections
  /\ m \in monitors
  /\ selected' = m
  /\ requests' = Append(requests, m)
  /\ asked' = asked \cup {m}
  /\ contended' = (contended \/ requests # << >>)
  /\ selections' = selections + 1
  /\ UNCHANGED <<attached, data_channel, monitors, picture, host, refused>>

switch_monitor(i) ==
  /\ i \in DOMAIN requests
  /\ requests' = SubSeq(requests, 1, i - 1) \o SubSeq(requests, i + 1, Len(requests))
  /\ to_host' = IF dc = "open" THEN Append(to_host, requests[i]) ELSE to_host
  /\ UNCHANGED <<attached, dc, to_ctl, monitors, selected, picture, host, history>>

-----------------------------------------------------------------------------
(* The host: messages and the loop of handle_one_connection. *)

\* SwitchRequest is passed to the thread, if it still runs, and answered with
\* Switched before the thread has looked at it.
SwitchRequest ==
  /\ to_host # << >>
  /\ to_host' = Tail(to_host)
  /\ monitor_switch' = IF at = "ended" THEN monitor_switch
                                       ELSE Append(monitor_switch, Head(to_host))
  /\ to_ctl' = Append(to_ctl, Msg("Switched", {Head(to_host)}))
  /\ UNCHANGED <<attached, dc, controller, at, capturer, frame, encoded,
                 streaming, history>>

show_video(f) == picture' = f

\* The next frame goes to the video track and, sooner or later but in order,
\* through the decoder to the window ...
WriteSample ==
  /\ streaming
  /\ encoded # << >>
  /\ encoded' = Tail(encoded)
  /\ show_video(Head(encoded))
  /\ UNCHANGED <<attached, data_channel, monitors, selected, requests,
                 monitor_switch, at, capturer, frame, streaming, history>>

\* ... or is lost or cannot be decoded.
FrameLost ==
  /\ streaming
  /\ encoded # << >>
  /\ encoded' = Tail(encoded)
  /\ UNCHANGED <<attached, data_channel, controller, monitor_switch, at, capturer,
                 frame, streaming, history>>

\* The signaling connection or a write to the track fails: the loop ends and
\* drops the receiver of encoded.
StreamEnds ==
  /\ streaming
  /\ streaming' = FALSE
  /\ encoded' = << >>
  /\ UNCHANGED <<attached, data_channel, controller, monitor_switch, at, capturer,
                 frame, history>>

-----------------------------------------------------------------------------
(* The capture thread. *)

\* A thread that ends drops the receiver of monitor_switch.
End == at' = "ended" /\ monitor_switch' = << >>

\* The thread starts with the primary monitor; once that is unplugged the
\* system has made another one primary.
StartCapture ==
  /\ at = "init"
  /\ at' = "switch"
  /\ capturer' \in IF Primary \in attached THEN {Primary} ELSE attached
  /\ asked' = asked \cup {capturer'}
  /\ UNCHANGED <<attached, data_channel, controller, monitor_switch, frame, encoded,
                 streaming, contended, refused, selections>>

\* There is no primary monitor, or the encoder cannot be set up.
StartCaptureFails ==
  /\ at = "init"
  /\ End
  /\ UNCHANGED <<attached, data_channel, controller, capturer, frame, encoded,
                 streaming, history>>

\* Mutant: the first of the waiting requests is taken and the rest dropped.
TakeSwitchDropsRest ==
  /\ at = "switch"
  /\ at' = "capture"
  /\ IF monitor_switch = << >>
     THEN UNCHANGED <<monitor_switch, capturer, refused>>
     ELSE LET m == Head(monitor_switch) IN
          /\ monitor_switch' = << >>
          /\ \/ m \in attached /\ capturer' = m /\ refused' = FALSE
             \/ UNCHANGED capturer /\ refused' = TRUE
  /\ UNCHANGED <<attached, data_channel, controller, frame, encoded, streaming,
                 asked, contended, selections>>

\* Mutant: a request for a monitor that is gone switches to any other.
TakeSwitchToAny ==
  /\ at = "switch"
  /\ at' = "capture"
  /\ IF monitor_switch = << >>
     THEN UNCHANGED <<monitor_switch, capturer, refused>>
     ELSE LET m == Head(monitor_switch) IN
          /\ monitor_switch' = Tail(monitor_switch)
          /\ capturer' \in IF m \in attached THEN {m} ELSE attached \cup {capturer}
          /\ refused' = (m \notin attached)
  /\ UNCHANGED <<attached, data_channel, controller, frame, encoded, streaming,
                 asked, contended, selections>>

\* Mutant: requests are not looked at between frames.
TakeSwitchNever ==
  /\ at = "switch"
  /\ at' = "capture"
  /\ UNCHANGED <<attached, data_channel, controller, monitor_switch, capturer, frame,
                 encoded, streaming, history>>

\* One request is taken before each frame; one for a monitor that is not there,
\* or that the system does not list now, leaves the capturer as it is.  (That
\* for_monitor_id takes an id it cannot read for 0 is left out.)
TakeSwitch ==
  /\ at = "switch"
  /\ at' = "capture"
  /\ IF monitor_switch = << >>
     THEN UNCHANGED <<monitor_switch, capturer, refused>>
     ELSE LET m == Head(monitor_switch) IN
          /\ monitor_switch' = Tail(monitor_switch)
          /\ \/ m \in attached /\ capturer' = m /\ refused' = FALSE
             \/ UNCHANGED capturer /\ refused' = TRUE
  /\ UNCHANGED <<attached, data_channel, controller, frame, encoded, streaming,
                 asked, contended, selections>>

Capture ==
  /\ at = "capture"
  /\ IF capturer \in attached
     THEN frame' = capturer /\ at' = "send"
     ELSE UNCHANGED frame /\ at' = "switch"
  /\ UNCHANGED <<attached, data_channel, controller, monitor_switch, capturer,
                 encoded, streaming, history>>

\* A frame that cannot be captured or encoded is skipped, however many were.
CaptureFails ==
  /\ at = "capture"
  /\ capturer \in attached
  /\ at' = "switch"
  /\ UNCHANGED <<attached, data_channel, controller, monitor_switch, capturer, frame,
                 encoded, streaming, history>>

\* Mutant: a frame nobody takes any more is only logged.
BlockingSendGoesOn ==
  /\ at = "send"
  /\ streaming => Len(encoded) < QueueSize
  /\ at' = "switch"
  /\ frame' = NoMonitor
  /\ encoded' = IF streaming THEN Append(encoded, frame) ELSE encoded
  /\ UNCHANGED <<attached, data_channel, controller, monitor_switch, capturer,
                 streaming, history>>

\* blocking_send waits for room in the channel, and fails, which ends the
\* thread, once the loop has dropped the receiver.
BlockingSend ==
  /\ at = "send"
  /\ streaming => Len(encoded) < QueueSize
  /\ frame' = NoMonitor
  /\ IF streaming
     THEN /\ encoded' = Append(encoded, frame)
          /\ at' = "switch"
          /\ UNCHANGED monitor_switch
     ELSE End /\ UNCHANGED encoded
  /\ UNCHANGED <<attached, data_channel, controller, capturer, streaming, history>>

-----------------------------------------------------------------------------

ThreadStep ==
  \/ StartCapture \/ StartCaptureFails
  \/ TakeSwitch
  \/ Capture \/ CaptureFails
  \/ BlockingSend

SendStep == \E i \in 1 .. MaxSelections : switch_monitor(i)

\* The session is over on the host, and nothing is left to do.
SessionOver == at = "ended" /\ ~streaming /\ UNCHANGED screen_vars

ScreenNext ==
  \/ \E m \in MonitorIds : Unplug(m) \/ Select(m)
  \/ ChannelOpens \/ ChannelCloses
  \/ SendStep
  \/ CtlMessage
  \/ SwitchRequest
  \/ WriteSample \/ FrameLost
  \/ StreamEnds
  \/ ThreadStep
  \/ SessionOver

ScreenSpec == ScreenInit /\ [][ScreenNext]_screen_vars

\* The thread loops without a condition, spawned tasks and the host's loop run,
\* and an open channel delivers.
ScreenFairSpec ==
  /\ ScreenSpec
  /\ WF_screen_vars(ThreadStep)
  /\ WF_screen_vars(SendStep)
  /\ WF_screen_vars(SwitchRequest)
  /\ WF_screen_vars(CtlMessage)
  /\ WF_screen_vars(WriteSample \/ FrameLost)

-----------------------------------------------------------------------------
(* Properties. *)

\* The type invariant.
ScreenTypeOK ==
  /\ attached \subseteq MonitorIds
  /\ dc \in {"connecting", "open", "closed"}
  /\ to_host \in Seq(MonitorIds)
  /\ to_ctl \in Seq([type : {"List", "Switched"}, ms : SUBSET MonitorIds])
  /\ monitors \subseteq MonitorIds
  /\ selected \in MonitorIds \cup {NoMonitor}
  /\ requests \in Seq(MonitorIds)
  /\ picture \in MonitorIds \cup {NoMonitor}
  /\ monitor_switch \in Seq(MonitorIds)
  /\ at \in {"init", "switch", "capture", "send", "ended"}
  /\ capturer \in MonitorIds \cup {NoMonitor}
  /\ frame \in MonitorIds \cup {NoMonitor}
  /\ encoded \in Seq(MonitorIds) /\ Len(encoded) <= QueueSize
  /\ streaming \in BOOLEAN
  /\ asked \subseteq MonitorIds
  /\ contended \in BOOLEAN /\ refused \in BOOLEAN
  /\ selections \in 0 .. MaxSelections

\* The controller is shown the monitor the host started with or one its user
\* asked for, never another, also when a monitor is gone by the time its request
\* is taken (host.rs:269-278, capture.rs:24-31).
OnlyAskedIsShown == picture \in asked \cup {NoMonitor}

\* Once every request is through, the host shares the monitor the window names
\* as selected (gui.rs:492-498, host.rs:215-216, 270-275), unless selections
\* were made faster than they were sent, the last one was refused, or channel
\* or thread have ended.
SharedIsSelected ==
  (/\ selected # NoMonitor /\ ~contended /\ ~refused
   /\ dc = "open" /\ at \notin {"init", "ended"}
   /\ requests = << >> /\ to_host = << >> /\ monitor_switch = << >>)
  => capturer = selected

\* Requests do not pile up: whatever the state of the frame queue, a selection
\* is taken up by the thread in the end, or the session ends
\* (host.rs:253, 270-287: one request per frame, a blocking send).
RequestsAreTaken ==
  (monitor_switch # << >>) ~> (monitor_switch = << >>)

\* The capture thread does not outlive its session: once the loop has ended, also
\* when it ended while the thread was waiting for room, the thread ends with its
\* next frame (host.rs:281-283).  It goes on only if it never has a frame again,
\* because its monitor is gone or every frame fails (host.rs:285).
CaptureEnds ==
  ~streaming ~> (at = "ended" \/ [](at # "send"))

=============================================================================
