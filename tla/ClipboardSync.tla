---------------------------- MODULE ClipboardSync ----------------------------
(***************************************************************************)
(* Clipboard text between the two ends of a session (clipboard_sync.rs).   *)
(* Each side runs a thread that applies what has come from the other side, *)
(* then polls the system clipboard, then sleeps.  A change it sees is sent *)
(* by a task of its own (host.rs, controller.rs), so two changes may reach *)
(* the data channel in either order; the channel itself keeps order.       *)
(***************************************************************************)
EXTENDS Naturals, Sequences, FiniteSets, Functions

CONSTANTS
  Texts,        \* clipboard texts
  None,         \* no text (also last_seen's initial empty string)
  MaxCopies     \* bound: copies the two users make during the session

ASSUME TextsAssumption == None \notin Texts

ASSUME BoundsAssumption == MaxCopies \in Nat

Sides == {"host", "controller"}

VARIABLES
  at,          \* where each side's thread is
  clip,        \* the system clipboard
  last_seen,   \* the thread's baseline
  inbox,       \* remote_update_rx: texts to apply
  spawned,     \* tasks on_local_change spawned, which have not sent yet
  dc,          \* each side's end of the data channel
  wire,        \* texts a side has sent and the other has not got
  copied,      \* history: texts a side's user copied during the session
  initial,     \* history: the clipboard at the start
  early,       \* history: a text was there before both ends were open
  contended,   \* history: a copy was made while another was under way
  copies,      \* how often the users copied
  left         \* history: what failed writes left on a side's clipboard

vars == <<at, clip, last_seen, inbox, spawned, dc, wire, copied, initial,
          early, contended, copies, left>>

history == <<copied, initial, early, contended, copies>>

peer(s) == CHOOSE o \in Sides : o # s

Init ==
  /\ at = [s \in Sides |-> "start"]
  /\ initial \in [Sides -> Texts \cup {None}]
  /\ clip = initial
  /\ last_seen = [s \in Sides |-> None]
  /\ inbox = [s \in Sides |-> << >>]
  /\ spawned = [s \in Sides |-> << >>]
  /\ dc = [s \in Sides |-> "connecting"]
  /\ wire = [s \in Sides |-> << >>]
  /\ copied = [s \in Sides |-> {}]
  /\ early = (\E s \in Sides : initial[s] # None)
  /\ contended = FALSE
  /\ copies = 0
  /\ left = [s \in Sides |-> {}]

Open == \A s \in Sides : dc[s] = "open"

\* Nothing is on its way to either clipboard.
Quiet ==
  \A s \in Sides : inbox[s] = << >> /\ spawned[s] = << >> /\ wire[s] = << >>

\* ... and both threads have seen what their clipboard holds.
Settled ==
  /\ Open /\ Quiet
  /\ \A s \in Sides : at[s] \in {"drain", "poll"} /\ last_seen[s] = clip[s]

-----------------------------------------------------------------------------
(* The user and the data channel. *)

Copy(s, x) ==
  /\ copies < MaxCopies
  /\ clip' = [clip EXCEPT ![s] = x]
  /\ copied' = [copied EXCEPT ![s] = @ \cup {x}]
  /\ copies' = copies + 1
  /\ early' = (early \/ ~Open)
  /\ contended' = (contended \/ (Open /\ ~Settled))
  /\ UNCHANGED <<at, last_seen, inbox, spawned, dc, wire, initial, left>>

ChannelOpens(s) ==
  /\ dc[s] = "connecting"
  /\ dc' = [dc EXCEPT ![s] = "open"]
  /\ UNCHANGED <<at, clip, last_seen, inbox, spawned, wire, history, left>>

\* A spawned task sends its text; on a channel that is not open the send
\* fails, and the text is lost.
SendChange(s, i) ==
  LET q == spawned[s] IN
  /\ i \in DOMAIN q
  /\ spawned' = [spawned EXCEPT ![s] = SubSeq(q, 1, i - 1)
                                         \o SubSeq(q, i + 1, Len(q))]
  /\ wire' = IF dc[s] = "open" THEN [wire EXCEPT ![s] = Append(@, q[i])]
                               ELSE wire
  /\ UNCHANGED <<at, clip, last_seen, inbox, dc, history, left>>

\* The text is handed to the thread, if it still runs.
apply_remote_update(s, x) ==
  inbox' = [inbox EXCEPT ![s] = IF at[s] = "dead" THEN @ ELSE Append(@, x)]

\* on_message, which runs for one message at a time and in order.
Deliver(s) ==
  /\ dc[s] = "open"
  /\ wire[peer(s)] # << >>
  /\ wire' = [wire EXCEPT ![peer(s)] = Tail(@)]
  /\ apply_remote_update(s, Head(wire[peer(s)]))
  /\ UNCHANGED <<at, clip, last_seen, spawned, dc, history, left>>

-----------------------------------------------------------------------------
(* The thread.  Its loop has no end. *)

Goto(s, step) == at' = [at EXCEPT ![s] = step]

\* The clipboard is opened, or cannot be: then the thread ends, and with it
\* the receiving end of the channel to it.
Start(s) ==
  /\ at[s] = "start"
  /\ \/ Goto(s, "drain") /\ UNCHANGED inbox
     \/ Goto(s, "dead") /\ inbox' = [inbox EXCEPT ![s] = << >>]
  /\ UNCHANGED <<clip, last_seen, spawned, dc, wire, history, left>>

\* Mutant: the baseline is not updated.
ApplyRemoteNoBaseline(s) ==
  /\ at[s] = "drain"
  /\ inbox[s] # << >>
  /\ inbox' = [inbox EXCEPT ![s] = Tail(@)]
  /\ clip' = [clip EXCEPT ![s] = Head(inbox[s])]
  /\ UNCHANGED <<at, last_seen, spawned, dc, wire, history, left>>

\* One update from the other side: set_text and the baseline.
ApplyRemote(s) ==
  /\ at[s] = "drain"
  /\ inbox[s] # << >>
  /\ inbox' = [inbox EXCEPT ![s] = Tail(@)]
  /\ clip' = [clip EXCEPT ![s] = Head(inbox[s])]
  /\ last_seen' = [last_seen EXCEPT ![s] = Head(inbox[s])]
  /\ UNCHANGED <<at, spawned, dc, wire, history, left>>

\* set_text fails (another program holds the clipboard), however often: ignored.
ApplyRemoteFails(s) ==
  /\ at[s] = "drain"
  /\ inbox[s] # << >>
  /\ inbox' = [inbox EXCEPT ![s] = Tail(@)]
  /\ last_seen' = [last_seen EXCEPT ![s] = Head(inbox[s])]
  /\ left' = [left EXCEPT ![s] = @ \cup {clip[s]}]
  /\ UNCHANGED <<at, clip, spawned, dc, wire, history>>

DrainDone(s) ==
  /\ at[s] = "drain"
  /\ inbox[s] = << >>
  /\ Goto(s, "poll")
  /\ UNCHANGED <<clip, last_seen, inbox, spawned, dc, wire, history, left>>

\* Mutant: the text is compared with the baseline after it replaced it.
PollNeverReports(s) ==
  /\ at[s] = "poll"
  /\ Goto(s, "drain")
  /\ last_seen' = [last_seen EXCEPT ![s] = clip[s]]
  /\ UNCHANGED <<clip, inbox, spawned, dc, wire, history, left>>

\* get_text fails when there is no text; a text that is not the baseline is
\* reported.
Poll(s) ==
  /\ at[s] = "poll"
  /\ Goto(s, "drain")
  /\ IF clip[s] # None /\ clip[s] # last_seen[s]
     THEN /\ last_seen' = [last_seen EXCEPT ![s] = clip[s]]
          /\ spawned' = [spawned EXCEPT ![s] = Append(@, clip[s])]
     ELSE UNCHANGED <<last_seen, spawned>>
  /\ UNCHANGED <<clip, inbox, dc, wire, history, left>>

-----------------------------------------------------------------------------

ThreadStep(s) ==
  Start(s) \/ ApplyRemote(s) \/ ApplyRemoteFails(s) \/ DrainDone(s) \/ Poll(s)

SendStep(s) == \E i \in DOMAIN spawned[s] : SendChange(s, i)

\* Bound: both threads failed to start and no copy is left.
NoThread ==
  /\ \A s \in Sides : at[s] = "dead"
  /\ copies = MaxCopies
  /\ UNCHANGED vars

Next ==
  \/ \E s \in Sides : \/ \E x \in Texts : Copy(s, x)
                      \/ ChannelOpens(s)
                      \/ SendStep(s)
                      \/ Deliver(s)
                      \/ ThreadStep(s)
  \/ NoThread

Spec == Init /\ [][Next]_vars

\* Threads, spawned tasks and the open channel make progress; users need not
\* copy and the channel need not open.
FairSpec ==
  /\ Spec
  /\ \A s \in Sides : /\ WF_vars(ThreadStep(s))
                      /\ WF_vars(SendStep(s))
                      /\ WF_vars(Deliver(s))

-----------------------------------------------------------------------------
(* Properties. *)

\* The type invariant.
TypeOK ==
  /\ at \in [Sides -> {"start", "drain", "poll", "dead"}]
  /\ clip \in [Sides -> Texts \cup {None}]
  /\ last_seen \in [Sides -> Texts \cup {None}]
  /\ inbox \in [Sides -> Seq(Texts)]
  /\ spawned \in [Sides -> Seq(Texts)]
  /\ dc \in [Sides -> {"connecting", "open"}]
  /\ wire \in [Sides -> Seq(Texts)]
  /\ copied \in [Sides -> SUBSET Texts]
  /\ initial \in [Sides -> Texts \cup {None}]
  /\ early \in BOOLEAN
  /\ contended \in BOOLEAN
  /\ copies \in 0 .. MaxCopies
  /\ left \in [Sides -> SUBSET (Texts \cup {None})]

\* No text is sent back to the side it came from: what a side sends, its own
\* user copied, its own clipboard held at the start, or stayed on its clipboard
\* because an update could not be written over it (clipboard_sync.rs:5-7: the
\* baseline "is what stops an incoming update from being immediately polled
\* back out and re-sent (an echo loop)").
NoEcho ==
  \A s \in Sides :
    Range(spawned[s]) \cup Range(wire[s]) \subseteq copied[s] \cup {initial[s]} \cup left[s]

\* Copies do not bounce: once the users stop copying, the exchange comes to an
\* end, also when copies crossed and when a clipboard could not be written
\* (clipboard_sync.rs:139: an echo "would otherwise bounce forever between
\* host and controller").  Only two clipboards neither of which can ever be
\* written go on for ever: each side's text stands, and looks new after every
\* update from the other (clipboard_sync.rs:52-53).
NoBounce ==
  \/ <>[](Open => Quiet)
  \/ \A s \in Sides : []<><<ApplyRemoteFails(s)>>_vars

\* When every copy is made while both ends are open and no other copy is under
\* way, and clipboards can be written, the two clipboards agree as soon as all
\* is settled (clipboard_sync.rs:51-62).
UncontendedSyncs ==
  (Settled /\ ~early /\ ~contended /\ \A s \in Sides : left[s] = {})
  => clip["host"] = clip["controller"]

=============================================================================
