----------------------------- MODULE VisuaraApp -----------------------------
(***************************************************************************)
(* The desktop client between its clicks: the tasks that "Start sharing",  *)
(* "Connect" and "Log in" spawn, the dashboard session (gui.rs,            *)
(* dashboard.rs), and the two files it keeps, the local settings with the  *)
(* remembered login and the credentials of the autostarted host            *)
(* (local_settings.rs, saved_credentials.rs, local_storage.rs,             *)
(* autostart.rs, main.rs).                                                 *)
(*                                                                         *)
(* The window's thread and the tasks interleave.  Settings are read in one *)
(* step and written in another, during which the file is empty for others; *)
(* the process may be killed anywhere.  Server URL and device name are one *)
(* value, the prefs; e-mail and password are one value, the login.         *)
(***************************************************************************)
EXTENDS Naturals

CONSTANTS
  MaxTasks,    \* bound: tasks spawned, one per click
  Prefs,       \* server URLs and device names a user enters
  Logins,      \* e-mails and passwords a user enters
  Entries,     \* what a user may have entered when clicking
  Embedded,    \* the prefs embedded in the binary, or the defaults
  MaxPings,    \* bound: refreshes waiting or unanswered in a session
  MaxToggles,  \* bound: clicks on the autostart button
  MaxKills,    \* bound: how often the process is killed
  None,        \* Option::None, no file
  Torn         \* a file that does not parse

ASSUME BoundsAssumption ==
  /\ MaxTasks \in Nat /\ MaxPings \in Nat \ {0}
  /\ MaxToggles \in Nat /\ MaxKills \in Nat

\* Tasks are numbered in the order of the clicks.
Tasks == 1 .. MaxTasks

Fields == [prefs : Prefs \cup {Embedded}, login : Logins \cup {None},
           remember : BOOLEAN]

\* Who clicks has entered a login, right or wrong.
ASSUME EntriesAssumption ==
  Entries \subseteq [prefs : Prefs \cup {Embedded}, login : Logins,
                     remember : BOOLEAN]

\* Contents of local-settings.json.
LocalSettings == [prefs : Prefs \cup {Embedded, None},
                  login : Logins \cup {None}]

\* unwrap_or_default of a file that is missing or does not parse.
NoSettings == [prefs |-> None, login |-> None]

ASSUME NoneAssumption ==
  /\ None \notin Prefs \cup Logins \cup {Embedded, Torn}
  /\ Torn \notin Logins
  /\ LocalSettings \cap {None, Torn} = {}

VARIABLES
  \* The disk.
  settings,    \* local-settings.json: its contents, Torn or None
  creds,       \* unattended-credentials.json: a login, Torn or None
  unit,        \* the autostart entry exists
  \* The window.
  fields,      \* the entry fields: prefs, login, remember
  ui,          \* what its thread is doing to the files
  ui_read,     \* what clear_remembered_login has read
  host_info, connected,
  logged_in,   \* dashboard_logged_in
  session,     \* the task whose refresh_tx is in the shared state
  known,       \* known_devices: the login they belong to
  \* The tasks, and the loops dashboard::start spawns for them.
  task, loop,
  \* The autostarted host, bounds and history.
  autofailed,  \* it was started and had no credentials
  toggles, kills,
  chosen,      \* what the writes were to leave in settings; Torn once the
               \* file was read while somebody was about to write it, or a
               \* read or a write failed or a write was cut short
  undeleted,   \* the registry did not delete the entry (Windows)
  overlapped   \* a login was begun before an earlier one had ended

disk    == <<settings, creds, unit>>
window  == <<fields, ui, ui_read>>
shared  == <<host_info, connected, logged_in, session, known>>
history == <<autofailed, toggles, kills, chosen, undeleted, overlapped>>
vars    == <<disk, window, shared, task, loop, history>>

Kinds == {"host", "connect", "dashboard"}

TaskState ==
  [kind : Kinds \cup {None},
   step : {"idle", "auth", "load", "write", "up", "serve", "done"},
   job  : {"autosave", "remember"},
   fields : Fields,
   read : LocalSettings]

\* pings: refreshes queued; asked: ListDevices sent; lists: DeviceLists that
\* wait in devices_rx; refused: the last answer was an Error.
LoopState == [state : {"unborn", "runs", "lost", "hung_up"},
              pings : 0 .. MaxPings, asked : 0 .. MaxPings,
              lists : 0 .. MaxPings, refused : BOOLEAN]

NoFields == [prefs |-> Embedded, login |-> None, remember |-> FALSE]

IdleTask == [kind |-> None, step |-> "idle", job |-> "autosave",
             fields |-> NoFields, read |-> NoSettings]

\* A task that has returned.
Done == [IdleTask EXCEPT !.step = "done"]

NoLoop == [state |-> "unborn", pings |-> 0, asked |-> 0, lists |-> 0,
           refused |-> FALSE]

Init ==
  /\ settings = None /\ creds = None /\ unit = FALSE
  /\ fields = NoFields /\ ui = "idle" /\ ui_read = NoSettings
  /\ host_info = FALSE /\ connected = FALSE
  /\ logged_in = FALSE /\ session = None /\ known = None
  /\ task = [t \in Tasks |-> IdleTask]
  /\ loop = [t \in Tasks |-> NoLoop]
  /\ autofailed = FALSE /\ toggles = 0 /\ kills = 0
  /\ chosen = NoSettings
  /\ undeleted = FALSE /\ overlapped = FALSE

-----------------------------------------------------------------------------
(* local_settings.rs and local_storage.rs. *)

\* LocalSettings::load of what is on disk, with what its callers make of a
\* file that does not parse.
load == IF settings \in {None, Torn} THEN NoSettings ELSE settings

\* Somebody has read the settings and is about to write them.
Saving == ui = "write" \/ \E t \in Tasks : task[t].step = "write"

\* What a reader may get.  To the callers a read that fails, and the file that
\* is empty while it is being written, are no settings at all.
Loads == {load, NoSettings}

\* What becomes of the history when r was read.
Misread(r) == Saving \/ r # load

\* LocalSettings::save and write_restricted, after reading r.  Over what
\* somebody else has written since the result may be a mixture.  The callers
\* ignore a failure, before the file is truncated or after.
save(s, r, choice) ==
  \/ settings' = s /\ chosen' = IF chosen = Torn THEN Torn ELSE choice
  \/ r # load /\ settings' = Torn /\ UNCHANGED chosen
  \/ settings' \in {settings, Torn} /\ chosen' = Torn

-----------------------------------------------------------------------------
(* The clicks that spawn a task. *)

Busy(t) == task[t].step \notin {"idle", "done"}

Spawn(t, kind, f) ==
  /\ ui = "idle"
  /\ task[t].step = "idle"
  /\ \A u \in Tasks : u < t => task[u].step # "idle"
  /\ fields' = f
  /\ task' = [task EXCEPT ![t] = [IdleTask EXCEPT !.kind = kind,
                                    !.step = "auth", !.fields = f]]
  /\ UNCHANGED <<disk, ui, ui_read, shared, loop, autofailed, toggles, kills,
                 chosen, undeleted>>

\* The panels offer the button until they have what they asked for, and not
\* only until it was clicked.
StartSharing(t, f) ==
  /\ ~host_info
  /\ f.remember = fields.remember
  /\ Spawn(t, "host", f)
  /\ UNCHANGED overlapped

Connect(t, f) ==
  /\ ~connected
  /\ f.remember = fields.remember
  /\ Spawn(t, "connect", f)
  /\ UNCHANGED overlapped

LogIn(t, f) ==
  /\ ~logged_in
  /\ Spawn(t, "dashboard", f)
  /\ overlapped' = (overlapped \/ \E u \in Tasks : task[u].kind = "dashboard"
                                                   /\ Busy(u))

\* register_and_serve, controller::connect and dashboard::start; the last
\* leaves a loop behind, with one refresh waiting.
Authenticate(t) ==
  /\ task[t].step = "auth"
  /\ task' = [task EXCEPT ![t].step = "load"]
  /\ loop' = IF task[t].kind = "dashboard"
             THEN [loop EXCEPT ![t] = [NoLoop EXCEPT !.state = "runs",
                                                     !.pings = 1]]
             ELSE loop
  /\ UNCHANGED <<disk, window, shared, history>>

AuthenticateFails(t) ==
  /\ task[t].step = "auth"
  /\ task' = [task EXCEPT ![t] = Done]
  /\ UNCHANGED <<disk, window, shared, loop, history>>

-----------------------------------------------------------------------------
(* autosave_local_settings, and the remembered login. *)

LoadSettings(t) ==
  /\ task[t].step = "load"
  /\ \E r \in Loads :
       /\ task' = [task EXCEPT ![t].step = "write", ![t].read = r]
       /\ chosen' = IF Misread(r) THEN Torn ELSE chosen
  /\ UNCHANGED <<disk, window, shared, loop, autofailed, toggles, kills,
                 undeleted, overlapped>>

\* Mutant: autosave writes a file of its own making.
EditedFresh(t, s) ==
  IF task[t].job = "autosave"
  THEN [prefs |-> task[t].fields.prefs, login |-> None]
  ELSE [s EXCEPT !.login = task[t].fields.login]

\* What task t changes in the settings it has read.
Edited(t, s) ==
  IF task[t].job = "autosave" THEN [s EXCEPT !.prefs = task[t].fields.prefs]
                              ELSE [s EXCEPT !.login = task[t].fields.login]

\* ... and what its user has asked for.
Chosen(t) ==
  IF task[t].job = "autosave"
  THEN [chosen EXCEPT !.prefs = task[t].fields.prefs]
  ELSE [chosen EXCEPT !.login = task[t].fields.login]

\* The login is saved by a second load and save, if it is to be remembered.
SaveSettings(t) ==
  /\ task[t].step = "write"
  /\ save(Edited(t, task[t].read), task[t].read, Chosen(t))
  /\ task' = [task EXCEPT ![t] =
       IF task[t].kind = "dashboard" /\ task[t].fields.remember
            /\ task[t].job = "autosave"
       THEN [@ EXCEPT !.step = "load", !.job = "remember", !.read = NoSettings]
       ELSE [@ EXCEPT !.step = "up", !.read = NoSettings]]
  /\ UNCHANGED <<creds, unit, window, shared, loop, autofailed, toggles, kills,
                 undeleted, overlapped>>

\* The panels of host and controller get their result.
ShowResult(t) ==
  /\ task[t].step = "up" /\ task[t].kind \in {"host", "connect"}
  /\ host_info' = (host_info \/ task[t].kind = "host")
  /\ connected' = (connected \/ task[t].kind = "connect")
  /\ task' = [task EXCEPT ![t] = Done]
  /\ UNCHANGED <<disk, window, logged_in, session, known, loop, history>>

-----------------------------------------------------------------------------
(* The dashboard session: show_dashboard_panel and dashboard::start. *)

\* The refresh_tx of an earlier session is dropped.
SetUp(t) ==
  /\ task[t].step = "up" /\ task[t].kind = "dashboard"
  /\ session' = t
  /\ logged_in' = TRUE
  /\ task' = [task EXCEPT ![t].step = "serve"]
  /\ UNCHANGED <<disk, window, host_info, connected, known, loop, history>>

\* The Refresh button and the timer; a loop that has ended gets no refreshes.
request_dashboard_refresh ==
  /\ ui = "idle" /\ logged_in
  /\ loop[session].state = "runs"
  /\ loop[session].pings + loop[session].asked + loop[session].lists < MaxPings
  /\ loop' = [loop EXCEPT ![session].pings = @ + 1]
  /\ UNCHANGED <<disk, window, shared, task, history>>

\* The loop drops its connection and refresh_rx; the lists it has sent remain.
Ended(t, why) == [NoLoop EXCEPT !.state = why, !.lists = loop[t].lists]

\* Mutant: the loop ends when no refresh is waiting.
LoopTakesPingOrEnds(t) ==
  /\ loop[t].state = "runs"
  /\ loop' = IF loop[t].pings > 0
             THEN [loop EXCEPT ![t].pings = @ - 1, ![t].asked = @ + 1,
                               ![t].refused = FALSE]
             ELSE [loop EXCEPT ![t] = Ended(t, "hung_up")]
  /\ UNCHANGED <<disk, window, shared, task, history>>

LoopTakesPing(t) ==
  /\ loop[t].state = "runs"
  /\ loop[t].pings > 0
  /\ loop' = [loop EXCEPT ![t].pings = @ - 1, ![t].asked = @ + 1,
                          ![t].refused = FALSE]
  /\ UNCHANGED <<disk, window, shared, task, history>>

\* The sender is with the task until it sets up the session, and then in the
\* shared state.
LoopHangsUp(t) ==
  /\ loop[t].state = "runs"
  /\ loop[t].pings = 0
  /\ session # t /\ task[t].step \in {"serve", "done"}
  /\ loop' = [loop EXCEPT ![t] = Ended(t, "hung_up")]
  /\ UNCHANGED <<disk, window, shared, task, history>>

LoopGetsList(t) ==
  /\ loop[t].state = "runs"
  /\ loop[t].asked > 0
  /\ loop' = [loop EXCEPT ![t].asked = @ - 1, ![t].lists = @ + 1]
  /\ UNCHANGED <<disk, window, shared, task, history>>

\* The server answers a database error with an Error, which the loop ignores.
LoopGetsError(t) ==
  /\ loop[t].state = "runs"
  /\ loop[t].asked > 0
  /\ loop' = [loop EXCEPT ![t].asked = @ - 1, ![t].refused = TRUE]
  /\ UNCHANGED <<disk, window, shared, task, history>>

LoopLosesConnection(t) ==
  /\ loop[t].state = "runs"
  /\ loop' = [loop EXCEPT ![t] = Ended(t, "lost")]
  /\ UNCHANGED <<disk, window, shared, task, history>>

ForwardList(t) ==
  /\ task[t].step = "serve"
  /\ loop[t].lists > 0
  /\ known' = task[t].fields.login
  /\ loop' = [loop EXCEPT ![t].lists = @ - 1]
  /\ UNCHANGED <<disk, window, host_info, connected, logged_in, session, task,
                 history>>

\* Mutant: the task ends without telling the window.
TailForgotten(t) ==
  /\ task[t].step = "serve"
  /\ loop[t].lists = 0 /\ loop[t].state # "runs"
  /\ task' = [task EXCEPT ![t] = Done]
  /\ UNCHANGED <<disk, window, shared, loop, history>>

\* After the last list of a loop that has ended the session is over, whichever
\* session that is by now.
Tail(t) ==
  /\ task[t].step = "serve"
  /\ loop[t].lists = 0 /\ loop[t].state # "runs"
  /\ logged_in' = FALSE
  /\ session' = None
  /\ task' = [task EXCEPT ![t] = Done]
  /\ UNCHANGED <<disk, window, host_info, connected, known, loop, history>>

LogOut ==
  /\ ui = "idle" /\ logged_in
  /\ logged_in' = FALSE /\ session' = None /\ known' = None
  /\ ui' = "load"
  /\ fields' = [fields EXCEPT !.remember = FALSE]
  /\ UNCHANGED <<disk, ui_read, host_info, connected, task, loop, history>>

-----------------------------------------------------------------------------
(* clear_remembered_login, on the window's thread. *)

Forgotten == [chosen EXCEPT !.login = None]

\* A file without a login is left alone, and so is one that cannot be read or
\* does not parse.
ClearLoad ==
  /\ ui = "load"
  /\ \E r \in Loads :
       /\ IF r.login = None
          THEN ui' = "idle" /\ UNCHANGED ui_read
          ELSE ui' = "write" /\ ui_read' = r
       /\ chosen' = IF Misread(r) \/ chosen = Torn THEN Torn
                    ELSE IF r.login = None THEN Forgotten ELSE chosen
  /\ UNCHANGED <<disk, fields, shared, task, loop, autofailed, toggles, kills,
                 undeleted, overlapped>>

ClearWrite ==
  /\ ui = "write"
  /\ save([ui_read EXCEPT !.login = None], ui_read, Forgotten)
  /\ ui' = "idle" /\ ui_read' = NoSettings
  /\ UNCHANGED <<creds, unit, fields, shared, task, loop, autofailed, toggles,
                 kills, undeleted, overlapped>>

-----------------------------------------------------------------------------
(* The autostart button: saved_credentials.rs and autostart.rs. *)

is_enabled == unit

\* The button is there while sharing; its label follows is_enabled.
Toggle ==
  /\ ui = "idle" /\ host_info
  /\ toggles < MaxToggles
  /\ toggles' = toggles + 1
  /\ UNCHANGED <<settings, fields, ui_read, shared, task, loop, autofailed,
                 kills, chosen, overlapped>>

\* Mutant: the entry is made first and the credentials saved after it.
EnableEntryFirst ==
  /\ Toggle
  /\ ~is_enabled
  /\ unit' = TRUE
  /\ creds' = Torn
  /\ ui' = "creds_write"
  /\ UNCHANGED undeleted

\* SavedCredentials::save, first half ...
Enable ==
  /\ Toggle
  /\ ~is_enabled
  /\ creds' = Torn
  /\ ui' = "creds_write"
  /\ UNCHANGED <<unit, undeleted>>

\* ... and second half; without it the entry is not made.
SaveCredentials ==
  /\ ui = "creds_write"
  /\ \/ creds' = fields.login /\ ui' = "enable"
     \/ creds' = Torn /\ ui' = "idle"
  /\ UNCHANGED <<settings, unit, fields, ui_read, shared, task, loop, history>>

\* autostart::enable.  The entry stays when systemctl fails after it was made.
MakeEntry ==
  /\ ui = "enable"
  /\ unit' \in BOOLEAN
  /\ ui' = "idle"
  /\ UNCHANGED <<settings, creds, fields, ui_read, shared, task, loop, history>>

\* autostart::disable; when it fails the credentials are kept.
Disable ==
  /\ Toggle
  /\ is_enabled
  /\ \/ unit' = FALSE /\ ui' = "clear_creds"
     \/ UNCHANGED <<unit, ui>>
  /\ UNCHANGED <<creds, undeleted>>

\* On Windows it does not fail when the entry cannot be deleted.
DisableUndeleted ==
  /\ Toggle
  /\ is_enabled
  /\ undeleted' = TRUE
  /\ ui' = "clear_creds"
  /\ UNCHANGED <<unit, creds>>

ClearCredentials ==
  /\ ui = "clear_creds"
  /\ creds' \in {None, creds}
  /\ ui' = "idle"
  /\ UNCHANGED <<settings, unit, fields, ui_read, shared, task, loop, history>>

\* SavedCredentials::load: the login, or None for a file that is missing or
\* does not parse.
load_credentials == IF creds = Torn THEN None ELSE creds

\* The user logs in to the system: host-autostart loads the credentials.  (A
\* read that fails ends this start only, and says nothing of the file.)
HostAutostart ==
  /\ unit
  /\ autofailed' = (autofailed \/ load_credentials = None)
  /\ UNCHANGED <<disk, window, shared, task, loop, toggles, kills, chosen,
                 undeleted, overlapped>>

-----------------------------------------------------------------------------
(* The process. *)

\* VisuaraApp::new: local settings, then embedded ones.
FieldsAtLaunch(l) ==
  [prefs |-> IF l.prefs = None THEN Embedded ELSE l.prefs,
   login |-> l.login, remember |-> l.login # None]

\* The process ends, at once, and is started again.
Relaunch ==
  /\ kills < MaxKills
  /\ kills' = kills + 1
  /\ settings' \in {settings} \cup (IF Saving THEN {Torn} ELSE {})
  /\ chosen' = IF settings' = settings THEN chosen ELSE Torn
  /\ \E l \in Loads' : fields' = FieldsAtLaunch(l)
  /\ ui' = "idle" /\ ui_read' = NoSettings
  /\ host_info' = FALSE /\ connected' = FALSE
  /\ logged_in' = FALSE /\ session' = None /\ known' = None
  /\ task' = [t \in Tasks |-> IF Busy(t) THEN Done ELSE task[t]]
  /\ loop' = [t \in Tasks |-> NoLoop]
  /\ UNCHANGED <<creds, unit, autofailed, toggles, undeleted, overlapped>>

-----------------------------------------------------------------------------

Click ==
  \/ \E t \in Tasks, f \in Entries :
       StartSharing(t, f) \/ Connect(t, f) \/ LogIn(t, f)
  \/ LogOut
  \/ request_dashboard_refresh
  \/ Enable \/ Disable \/ DisableUndeleted

TaskStep(t) ==
  \/ Authenticate(t) \/ AuthenticateFails(t)
  \/ LoadSettings(t) \/ SaveSettings(t)
  \/ ShowResult(t)
  \/ SetUp(t)
  \/ ForwardList(t) \/ Tail(t)

LoopStep(t) == LoopTakesPing(t) \/ LoopHangsUp(t)

\* The server answers.
Answered(t) == LoopGetsList(t) \/ LoopGetsError(t)

UiStep ==
  \/ ClearLoad \/ ClearWrite
  \/ SaveCredentials \/ MakeEntry \/ ClearCredentials

\* The bounds are used up and nothing is under way.
NothingLeft ==
  /\ ui = "idle"
  /\ \A t \in Tasks : task[t].step = "done"
  /\ UNCHANGED vars

Next ==
  \/ Click
  \/ UiStep
  \/ \E t \in Tasks : TaskStep(t) \/ LoopStep(t) \/ Answered(t)
                      \/ LoopLosesConnection(t)
  \/ HostAutostart
  \/ Relaunch
  \/ NothingLeft

Spec == Init /\ [][Next]_vars

\* Spawned tasks and the window's thread run, and a server whose connection
\* lives answers.
FairSpec ==
  /\ Spec
  /\ WF_vars(UiStep)
  /\ \A t \in Tasks : /\ WF_vars(TaskStep(t))
                      /\ WF_vars(LoopStep(t))
                      /\ WF_vars(Answered(t))

-----------------------------------------------------------------------------
(* Properties. *)

\* The type invariant.
TypeOK ==
  /\ settings \in LocalSettings \cup {None, Torn}
  /\ creds \in Logins \cup {None, Torn}
  /\ unit \in BOOLEAN
  /\ fields \in Fields
  /\ ui \in {"idle", "load", "write", "creds_write", "enable", "clear_creds"}
  /\ ui_read \in LocalSettings
  /\ host_info \in BOOLEAN /\ connected \in BOOLEAN /\ logged_in \in BOOLEAN
  /\ session \in Tasks \cup {None}
  /\ known \in Logins \cup {None}
  /\ task \in [Tasks -> TaskState]
  /\ loop \in [Tasks -> LoopState]
  /\ autofailed \in BOOLEAN
  /\ toggles \in 0 .. MaxToggles /\ kills \in 0 .. MaxKills
  /\ chosen \in LocalSettings \cup {Torn}
  /\ undeleted \in BOOLEAN /\ overlapped \in BOOLEAN

\* Saving the prefs leaves a remembered login as it is, forgetting a login
\* leaves the prefs, and the last of each is what is on disk (gui.rs:47-49,
\* local_settings.rs:54-55), unless the file was read while somebody was about to
\* write it, a read or a write of it failed, or a write was cut short.
SettingsAsChosen ==
  (chosen # Torn /\ ~Saving) => load = chosen

\* The autostarted host always finds its credentials, whole: the entry exists
\* only while they do (gui.rs:208, 218), also when the process is killed or a
\* step fails between the two.  Only an entry that the registry did not delete,
\* which disable does not report (autostart.rs:30), outlives them.
AutostartHasCredentials == autofailed => undeleted

\* A session ends because its user logs out, its connection is lost or the
\* process ends, and not by itself (gui.rs:397-403), unless logins overlapped:
\* then the end of the earlier one ends the later one.
SessionEndsForAReason ==
  [][(logged_in /\ ~logged_in' /\ ~overlapped)
     => ui' = "load" \/ kills' # kills \/ loop[session].state = "lost"]_vars

\* Who is logged in is shown the devices of that login in the end
\* (dashboard.rs:32-34), whatever an earlier session left or still sends, and a
\* session whose connection is lost ends (dashboard.rs:55, gui.rs:401-403).  Only
\* when the server answers with an Error, which the loop drops (dashboard.rs:54),
\* does neither happen, until the next refresh.
SessionShowsOrEnds ==
  (session # None) ~> \/ session = None
                      \/ /\ loop[session].state = "runs"
                         /\ known = task[session].fields.login
                      \/ loop[session].refused

=============================================================================
