# Visuara in TLA+

Visuara is a self-hosted remote-desktop tool: a signaling server brokers WebRTC
connections between native clients, one of which (the host) is seen and
controlled by another (the controller).  This directory holds TLA+ models of the
parts of it that keep state and interleave, TLC configurations that check them on
small instances, and TLAPS proofs of the safety properties of all components for every
value of the constants.  Every definition is translated from the source; `PROJECT.json`
maps it to the lines it stands for.

## 1. Inventory

| Component (source) | State | Operations | Works with | What is hard | What makes it correct |
|---|---|---|---|---|---|
| WebSocket signaling (`visuara-signaling/src/ws.rs`, `state.rs`) | `connections`, `device_online`, `otp`, `sessions`; per connection the login and the registered device | one handler per `ClientMessage`; clean-up when a socket closes; the relay | the database; host and controller loops; `kick_device` from HTTP | a handler is a sequence of separately locked map operations and database calls, and handlers, clean-ups, HTTP requests and broken sockets interleave between them | nobody stays online after leaving; sessions only with a secret of that device; both peers know of a session; messages stay between its peers and in order |
| Device rows and removal (`db.rs`, `api/devices.rs`, `api/admin.rs`) | `devices` table | create, set password, delete, delete with the account | signaling maps | the row goes first, the maps later, and a dropped HTTP request stops in between | passwords set by the owner only; no entry outlives its connection |
| Accounts, roles, cookies, registration gate (`session.rs`, `api/auth.rs`, `api/admin.rs`, `db.rs`) | `accounts`, `sessions` tables, the `registration_enabled` setting | register (HTTP and WebSocket), login, logout, create, set role, delete, set registration | signaling (`Register`, `Login`) | check and write are separate statements, and each may fail; requests are dropped; the server restarts | an administrator remains; no session without account; the first account closes the gate |
| Negotiation (`visuara-client/src/host.rs`, `controller.rs`, `signaling_client.rs`) | where each loop waits; messages under way | the two signaling loops | the server's relay; WebRTC | what a message means depends on where its reader waits; nothing is ordered across clients; no timeouts | candidates after descriptions; a controller is connected to the host that serves it; an offer is answered |
| File transfer (`file_transfer.rs`, `gui.rs`, `host.rs`) | sender position; `in_progress`; the directory | offer, chunk, complete; receive | the data channel | files arrive mixed; file operations fail one by one | received files are whole; nothing is overwritten; files arrive |
| Clipboard sync (`clipboard_sync.rs`, `visuara-agent/src/clipboard.rs`) | clipboard, baseline, queues | poll, apply, send | the data channel, the system clipboard | two polling threads without an end and one task per change on each side; clipboards that cannot be written | no echo; quiet copies arrive; the exchange ends |
| Client builds (`release_fetch.rs`, `platforms.rs`, `api/download.rs`) | `.tmp` and final files, version settings | fetch, resolve, download | GitHub, the file system | writes are cut short; files are replaced under readers | what is served is whole, of the version shown and never older |
| Settings, embedded configuration (`api/admin.rs`, `visuara-common/src/embedded_config.rs`) | two settings rows; a slot in the binary | save, patch, find | downloads | two rows written and read one by one, errors ignored; the slot found by its marker, a configuration that fills it | a client reads back what it was given; the two settings in it were saved together |
| Monitor switching and capture (`host.rs`, `controller.rs`, `gui.rs`, `visuara-agent/src/capture.rs`) | shared monitor, requests, queue of frames, selection | list, select, switch, capture, show | the data channel, the video track, the host's loop | a thread between two channels; the reply precedes the switch; monitors are unplugged; the thread learns late that the session is over | nothing but what was asked for is shown; what is shared is what the window names; requests do not starve; the thread ends |
| Remote input (`gui.rs`, `controller.rs`, `host.rs`, `visuara-agent/src/input.rs`) | what the user holds; events under way; the host's pointer and held keys | capture, send, apply | the data channel, the picture of the shared monitor | each event is sent by a task of its own, and lost before the channel opens; a click carries no position; releases outside the picture are not seen | text and clicks arrive as meant; scrolling adds up; nothing stays held |
| Graphical client, saved files, autostart (`gui.rs`, `dashboard.rs`, `local_settings.rs`, `saved_credentials.rs`, `autostart.rs`, `main.rs`) | panels, login state, two JSON files, the autostart entry | share, connect, log in, refresh, log out, switch autostart, launch | signaling client, host and controller loops | tasks and the window read, change and write one file without a lock; a file that cannot be read is no settings; tails of older tasks change newer state; the process is killed in the middle | settings are what was chosen; an autostarted host has its credentials; a session ends for a reason and shows its devices |
| Hashing, TURN credentials, routing, assets, web UI | none of their own | — | — | — | not modelled (section 8) |

The hazards this code is exposed to, each at its line and with the properties that
would catch it, are listed under `hazards` in `PROJECT.json`.

## 2. Modules

`MCx.tla` extends module `x` with symmetry sets or constant definitions for TLC;
`xProofs.tla` extends it with theorems.  `SessionProofs.tla` extends both RemoteInput
and ScreenSharing, the two parts of a session on the desktop; that is why ScreenSharing's
`ScreenInit`, `ScreenNext`, `ScreenSpec` and `ScreenTypeOK` are named apart.

### SignalingServer

One task serves one connection: it reads a message, runs the handler to its end and
reads the next.  `pc[c]` is where the task of connection `c` is, `conn_state`,
`my_device_id` and `req` are its locals.  A handler is cut at every operation on
state that other tasks can see:

| Code | Actions |
|---|---|
| `handle_socket`: start, broken writer, end and clean-up | `Open`, `SendTaskBreaks`, `Close`, `RemoveOnline`, `RemoveOtp` |
| `Register`, `Login` | `Register`, `RegisterFails`, `Login` |
| `RegisterDevice` | `CreateDevice`, `GoOnline`, `NewOtp` |
| `RequestConnection` | `RequestByOtp` / `RequestByPassword`, `CheckOtp`, `FindHost`, `OpenSession`, `ReplyEstablished` |
| `SdpOffer`, `SdpAnswer`, `IceCandidate` | `relay` |
| `SetUnattendedPassword` | `SetUnattendedPassword`, `StorePassword`, `StorePasswordFails`, `PushPassword` |
| removal of a device over HTTP, `kick_device` | `BeginDelete`, `DeleteRow`, `DeleteRowFails`, `KickOnline`, `KickOtp`, `KickNotify`, `AbandonDelete` |
| removal of an account; a new process | `DeleteAccount`, `Restart` |

Abstractions.  An outbox is the set of messages it accepted; `Error`, `AuthOk` and
`AuthError`, which only answer the sender, are not recorded, and a message refused
before it changed anything leaves no step.  Clients name only sessions they were
told of (ids are random UUIDs).  Device ids, also random, are not drawn twice.  The
foreign keys of the schema are enforced, as the bundled SQLite of `rusqlite` does.
An HTTP handler is dropped when its client goes away: the database call it awaits
still takes effect (`spawn_blocking`), what follows does not; a WebSocket handler is
never dropped.  A database call that fails before anything has changed leaves no step
either; the three that fail with half of the work done do: a registration that stored its
account and cannot close the gate, a password that cannot be stored, and a row that cannot
be deleted, after which the device is kicked all the same.  `secrets`, `undeleted` (devices
whose row could not be deleted), and `dev` and `secret` in `sessions`, are history.

### Accounts

Requests are sequences of database calls, one action each, for `register` (HTTP and
WebSocket), `login`, `logout`, `create_account`, `set_account_role`, `delete_account`
and `set_registration`; `GuardFind` and `GuardCount` are the two queries of
`guard_last_admin`.  Every administrator's request begins with `require_admin`
(`AdminRequest`).  `Abandon` drops an HTTP request after the call it awaits,
`Restart` ends all.  Where `DbFails` holds any call may fail: `CallFails` answers with
an error and writes nothing, `GuardFindFails` is the guard's first query, whose error
lets the request pass (`admin.rs:295`), and the gate's setting, when it cannot be read,
is open to a registration over WebSocket (`ws.rs:94`).  Passwords are left out:
`BeginLogin` stands for a login with the right one.  `lost` is history: `"gate"` when a
first registration was cut short or failed between storing the account and closing the
gate, `"guard"` when the guard's first query failed for the only administrator.

### Negotiation

The loops of `register_and_serve` / `handle_one_connection` and of `connect`, each
waiting for one message at a time, and the server between them: `up[x]` is what
client `x` sent, `down[x]` what is on its way to it; both are queues, and
`ServerHandle` may take any client's next message.  Clients leave at any time, which
also stands for every `?` that ends a loop because the network or the WebRTC library
fails, and the server notices later (`ServerDrop`).  A session is named after its controller,
and its credential is taken to be right (that part is SignalingServer's).  The peer
connection is external; it refuses a candidate that comes before the remote
description (`bad_candidate`).

### FileTransfer

`send_file` tasks (`SendOffer`, `SendChunk`, `SendComplete`) share one ordered
channel, and `FileReceiver` handles one message at a time (`HandleOffer`,
`HandleChunk`, `HandleComplete`, and their failing variants).  Contents are sequences
of (task, number) pairs, so mixing, gaps and truncation show.  `Candidates` gives the
names `unique_destination_path` tries; `EnoughCandidates` says that they do not run out
(the code has 10,000 for each name).  A file that cannot be
read is never offered and stands for none.  The directory is changed by the receiver
only; `Cancel`, `Accept` and `Reject` are sent by nobody.

### ClipboardSync

Per side: the system clipboard, the thread's baseline, the queue of updates to apply,
the spawned sending tasks (which may run in any order) and the channel.  A clipboard
holds a text or nothing; `set_text` may fail any number of times (`ApplyRemoteFails`), and
`left` records the texts that stayed on a clipboard because of it.  The thread's loop has
no end: dropping the `ClipboardSync` changes nothing of this and is no action (section 5).

### Rendezvous and SignalingRefinement

`Rendezvous` is the abstract specification of the signaling server, without handlers,
maps or outboxes: parties meet under an id for a secret that was valid for the device
(`Meet`), the host is told first and the requester second (`TellRequester`), what one
says under the id reaches the other and nobody else (`Speak`), and parties leave.
`SignalingRefinement` maps the server's state to it (`Told` and `Heard` are read off
the outboxes, `Gone` off `connections`) and states `ImplementsRendezvous`.

### EmbeddedConfig and ClientBuilds

`EmbeddedConfig` has the functions of `embedded_config.rs` as operators on byte
sequences.  The JSON of a configuration is a constant: it has no zero byte, and
parsing gives the configuration back.  `None` stands for `Ok(None)` and for an error,
which all callers treat alike.

`ClientBuilds`: `fetch_and_store`, one action per download, open, write, rename and
version setting, for each platform in turn; files are kept apart from their names, so
that a write goes on in a file that was renamed.  `resolve_template_path` prefers the
operator's file; a download chooses, reads, takes the two settings one by one and
patches; `save_settings` writes them one by one.  A fetch or a save whose client has
gone is dropped between two operations or after the one it awaits.  Every
operation may fail: a fetch then goes on with its next platform, also when the version
cannot be stored after the rename (`SetVersionFails`), and a download takes a setting it
cannot read for one that is not there.  `MaxParallel` is the number of fetches at a time,
one in the run (section 5 says why).  A released
binary is assumed to have its slot at the first occurrence of the marker
(`BinaryAssumption`).  `mixed`, `raced`, `unread` and `cut` are history: of
the latest saves one wrote one of the two settings only or they overlapped, and none has
been undisturbed since; a save was under way while a download read them; a download could
not read one; the last fetch to replace a platform's file did not store its version.

### VisuaraApp

The desktop client between its clicks.  A click spawns a task (`StartSharing`,
`Connect`, `LogIn`) that authenticates, saves the settings (`LoadSettings`,
`SaveSettings`: read and write are two steps, during which others find the file empty)
and shows its result; the task of a login then forwards the lists of its dashboard loop
(`SetUp`, `ForwardList`, `Tail`; `LoopTakesPing`, `LoopGetsList`, `LoopGetsError`,
`LoopHangsUp`, `LoopLosesConnection`).  The window's thread logs out and forgets the
login (`LogOut`, `ClearLoad`, `ClearWrite`) and switches autostart on and off (`Enable`,
`SaveCredentials`, `MakeEntry`; `Disable`, `DisableUndeleted`, `ClearCredentials`).
`Relaunch` kills the process anywhere and starts it again; `HostAutostart` is the host
that the entry starts.  Server URL and device name are one value, so are e-mail and
password.  A read may fail and then counts as no settings (`Loads`), which the next save
writes over the intact file.  A loop remembers that its last request was answered with
an `Error` (`refused`).  `chosen`, `undeleted` and `overlapped` are history: `chosen` is
what the users asked for, and is given up (`Torn`) once a file was read while somebody
was about to write it (`Misread`), or a read or a write failed or was cut short.

### RemoteInput

What the user does in the controller's window (`MovePointer`, `PressButton`,
`PressKey`, `TypeText`, `Scroll`, ...) is captured while a picture is there, and each
event is sent by a task of its own (`SendInputs`, `Send`); the host applies what
arrives (`HandleInput`, `apply`), and applying may fail.  The channel is connecting at
first, while frames already come and input is captured; what is sent before it opens
(`LinkOpens`) is lost.  The picture may move under the pointer when the row of monitors
appears (`PictureMoves`).  One axis stands for two;
`remote_coords` and the truncation of the wheel (`as_i32`) are kept, in integers; the
wheel's unit (points, lines or pages) is looked at neither by the code nor here.
Monitors have an origin on the host's desktop, to which `remote_coords` does not refer.
Characters are numbered in the order in which they are entered; keys are no numbers.
Pointer, focus and desktop are external; `fresh`, `missed`, `unheard` (what was lost
while the channel was connecting), `overtaken`, `failed` and the `aim` of a press are
history.

### ScreenSharing

The list and the requests on the data channel (`ChannelOpens`, `CtlMessage`,
`SwitchRequest`), the window's selection and the task it spawns (`Select`,
`switch_monitor`), the capture thread (`StartCapture`, `TakeSwitch`, `Capture`,
`BlockingSend` and failing variants) and the host's loop, which takes the frames
(`WriteSample`, `FrameLost`, `StreamEnds`).  A frame is the monitor it shows.  The time
a frame spends on the network and in the decoder is left out: frames arrive in order or
not at all.  Captures fail any number of times, and a switch to a monitor that is there may
fail as well (`xcap` cannot list the monitors).  A monitor whose id cannot be read, which
`capture.rs:28` takes for number 0, is left out.  `asked`, `contended` and `refused` are
history.  `ListRequest` is sent by
nobody.

## 3. Runs

Twelve runs; bounds are the sizes of the constant sets and the `Max...` constants.

| Run | Instance | What it shows |
|---|---|---|
| `signaling_pairing` | 3 connections, 2 accounts, 1 device, 1 one-time and 1 unattended password, 1 session; accounts are made before the device (`AccountsFirst`) and not all deleted (`SomeAccountLeft`) | `SessionAuthorised`, `EstablishedMeansAnnounced`, `RelayBetweenPeers`, `AnnouncedBeforeRelayed`, `PasswordSetByOwner`, and the refinement `ImplementsRendezvous` |
| `signaling_devices` | 2 connections, 1 account, 1 device, 2 one-time passwords, no session, 1 HTTP request at a time, 1 restart | `TypeOK`, `NoStaleOnline`, `ShownOtpWorks` and, under fairness, `ClosedGoesOffline` |
| `accounts` | 3 ids, 2 e-mails, 2 tokens, 2 requests at a time, failing database calls, 1 restart | `TypeOK`, `LastAdminKept` (in `SerialSpec`), `SessionsHaveAccounts`, `GateClosesAfterFirst` |
| `accounts_last_admin` | 2 ids, 2 requests | finding: `AdminExists` fails when two guarded requests overlap |
| `negotiation` | host, 2 controllers, 1 candidate each | `CandidatesAfterDescription`, `ConnectedIsServed`, `OfferIsAnswered` |
| `negotiation_offer` | host and controllers | finding: `AwaitedAnswerComes` fails, the host swallows the offer |
| `screen` | 3 monitors, 2 selections, a queue of 2 frames, 1 unplugged monitor, any number of failing captures | `OnlyAskedIsShown`, `SharedIsSelected`, `RequestsAreTaken`, `CaptureEnds` |
| `files` | 2 files of up to 2 chunks, two competing names, 1 failing operation | `ReceivedIsWhole`, `NoClobber`, `FilesArrive` |
| `clipboard` | 2 texts, 2 copies, any number of failing writes | `NoEcho`, `UncontendedSyncs`, `NoBounce` |
| `builds` | 2 platforms, 2 fetches one after the other, 1 download, 2 releases, 2 saves of the settings (while the first platform is fetched), a slot of 3 bytes, any number of restarts | `TemplateWhole`, `ServedIsConfigured`, `SettingsServedTogether`, `VersionMatches`, `NeverDowngrades` |
| `app` | 2 clicks that spawn a task, 2 users, 1 refresh at a time, autostart switched twice, 1 kill | `SettingsAsChosen`, `AutostartHasCredentials`, `SessionEndsForAReason` and, under fairness, `SessionShowsOrEnds` |
| `input` | 1 button, the space bar, 2 wheel movements, 2 monitors, 4 acts of the user | `TypedAsEntered`, `ClickHitsTarget`, `ScrollAddsUp`, `NothingStaysHeld` |

Every module states its type invariant, `TypeOK` (`ScreenTypeOK` in ScreenSharing).  It is
a property of the runs of the two server modules, and proved of every module.

Why the bounds are enough to be of interest: three connections are two controllers
and a host, or a host that returns under a new connection beside a controller; two
accounts are needed for a password set by a stranger; two one-time passwords for a
rotation; one HTTP removal can cut through every step of a registration, clean-up or
pairing.  Two requests at a time make every pair of account operations overlap.  Two
files and two names compete for a path, two chunks can be swapped or lost, and an
empty file has none.  Two copies cross or follow each other.  A third monitor is one nobody
asked for, and two selections may wait for the thread together.  Two releases and two
fetches make an upgrade, and a fetch that inherits what a broken one left; one of the
builds ends within its slot, one begins with a byte of the marker, and the JSON of the
four configurations is shorter than the slot, fills it or is too long for it.  Two
tasks are two logins that overlap or follow each other, or a login beside another
panel's save.  Move, press and release of a button are three acts, and a fourth
comes between them.  Two saves overlap or follow each other; the run has them while the
first platform is fetched (`SavesBesideFirstPlatform`), because saves and fetches share no
state and a later platform's fetch takes the same steps.  The proofs remove the bounds
from the safety properties.

Deadlock is checked in every run.  Where an instance can be used up (all connections
closed, no account possible, nothing left to do) an explicit stuttering step says so:
`NoConnectionLeft`, `NoAccountPossible`, `AllGone`, `NothingLeft` (FileTransfer,
VisuaraApp, RemoteInput), `NoThread`, `SessionOver`.

## 4. Fairness

Weak fairness is assumed only of what a runtime does by itself: steps of a handler,
clean-up or HTTP request that has begun (`ServerStep`, `HttpServerStep`), the loops of
running clients and the server's handling of what has arrived (Negotiation), running
file tasks and the handler of arrived messages (FileTransfer), the polling threads,
spawned tasks and the delivery on an open channel (ClipboardSync), the capture thread,
spawned tasks, the delivery on an open channel and the host's taking of frames
(ScreenSharing), spawned tasks, the dashboard loop, the window's thread once it is at
work on a file, and a server's answer on a connection that lives (VisuaraApp).  Tokio
runs a ready
task eventually, the threads loop without a condition, and an open WebRTC data channel
is reliable and ordered.  No client, user or administrator is obliged to do anything;
channels need not open and may close.

## 5. Findings

Disagreements between code and text, each shown by a run (quotations in
`PROJECT.json`):

1. `guard_last_admin` refuses to leave zero admins, but two overlapping requests do.
2. A host that reads the controller's offer as the reply to its request for TURN
   credentials waits for that offer for ever, and the controller for its answer.

Observed while modelling and not given runs of their own.  Four of them disagree with a
comment, too:

* `guard_last_admin`, which "refuses" (`admin.rs:290`), lets a single request pass when it
  cannot look up the account, so that a database error in the wrong place costs the last
  administrator.  `LastAdminKept` excuses it (`lost`).
* Two fetches at a time share a `.tmp` path: one puts in place what the other is still
  writing, although the file is said to be stored atomically (`release_fetch.rs:51`).  With
  `MaxParallel = 2` TLC finds `TemplateWhole` violated; the run and the proofs about builds
  have one fetch at a time.
* Dropping a `ClipboardSync`, which is said to stop it (`gui.rs:39`, `controller.rs:37`),
  stops nothing: the loop (`clipboard_sync.rs:50-62`) takes a disconnected queue for an
  empty one.  A second connection leaves the first one's thread polling and reporting.
* The autosave of one panel, which is said not to disturb a remembered login (`gui.rs:48`),
  undoes one that another panel stores between its read and its write.  `SettingsAsChosen`
  excuses it (`Saving` in `Misread`).

Server: `kick_device`, which is said to disconnect a removed device (`devices.rs:52`),
only notifies it; the connection stays authenticated, and a second `RegisterDevice` on
it puts the device online again without a row.  Entries of `sessions` are never
removed, and a one-time password opens sessions until its host registers again or
leaves.  A host that reconnects gets a new device id, and its old row and unattended
password stay with an id nobody serves.  When the first registration is dropped between
its two statements, or the second fails, the gate stays open (`lost` in
`GateClosesAfterFirst`).  A device whose row could
not be deleted is kicked, and if it registers during the kick it is online with a row
that shows a password the server no longer knows (`undeleted`).  A version that cannot be
stored after the rename leaves the new file under the old version (`cut`).  A setting that
cannot be read is served as absent beside the other (`unread`).  The two settings may be
served or left half saved (`raced`, `mixed`), and two saves that overlap may leave one
setting of each; empty ones are served as empty strings and not as absent.

Host and controller: the loop of `handle_one_connection` has no exit while the signaling
connection lives, so a host that serves one controller takes up no other.  The capture
thread of an ended session runs on while its monitor is unplugged or its frames keep
failing (`CaptureEnds` excuses it).  A refused or overtaken selection leaves the window
naming a monitor that is not the one shared (`refused`, `contended`).  When all 9,999
numbered names exist `unique_destination_path` returns the plain name, which is then
overwritten; a transfer that is cut off leaves a partial file under its final name.  The
first clipboard poll reports what the clipboard held before the session (`early`);
copies that cross leave the two clipboards swapped (`contended`).  A clipboard that
refuses a text sends its old one back as a change (`left`), and two that refuse every
text do so for ever.

Input: the space bar is sent as a key and as text and typed twice, although
`control.rs:25` keeps the two apart (`TypedAsEntered` leaves it out); modifier keys are
known to the host and never sent; clicks in the picture of a monitor that is not at the
desktop's origin land on the first one (`Aim` is `None` there); events may overtake each
other (`overtaken`); what is held when the channel closes or when the release is
outside the picture stays held (`missed`); what is entered before the channel opens is lost
(`unheard`), so that a first click may go wherever the host's pointer was; wheel movements
of less than a line are lost, and points and pages are scrolled as lines.

Client: two tasks, or a task and the window, that save the settings at the same time may
undo each other, so that a forgotten login comes back; a settings file that cannot be
read is written anew without its login, and not forgotten by a log-out; a process killed
while it writes loses all settings.  A dashboard session whose request is answered with
an `Error` shows nothing until the next refresh (`refused`).  The tail of an earlier
login ends a later one that overlaps it (`overlapped`).  Devices of an earlier session
are shown until the first list of a new one. On Windows credentials are removed although
the entry could not be (`undeleted`); a failing `systemctl` leaves the entry it reports
not to have made. `set_unattended_password` does not wait for the server's answer, so
that a refusal is not seen.  An unpatched release has the marker, so its
`find_in_binary` fails to parse rather than returning `Ok(None)`; callers treat both
alike.

## 6. Proofs

Checked by TLAPS for all values of the constants, from the named assumptions of the
modules: `None` differs from all ids and values, one-time and unattended passwords are
disjoint, bounds are naturals, what users enter has its type (`EntriesAssumption`), the
JSON of different configurations differs and has no zero byte, and released binaries have
their slot at the first marker.  `Spec` (`ScreenSpec`) is always the full next-state relation,
without fairness.  Two theorems of FileTransferProofs and four of ClientBuildsProofs have a
hypothesis besides, named below.

In each module the proof that a step preserves an invariant has a lemma for every kind of
step that touches it, and one or two lemmas for all the steps that do not.

**SignalingServerProofs.**  Invariants, each inductive relative to the ones before:

* `TypeInv`: `TypeOK`, and each handler step has the locals it needs (`RequestOK`,
  `HttpOK`).
* `OnlineInv`: `NoStaleOnline`, with the facts that steps beyond the registration have
  a device and that an unopened connection has no trace anywhere.  Without the latter,
  a new connection might inherit an old one's entry.
* `AuthInv`: `SessionAuthorised`, with what the handler established at each step
  between the credential check and the new session (`RequestAuthorised`): the secret
  compared earlier is in the history of valid secrets, and the host found earlier
  registered that device, also if it has been removed since.
* `PairingInv`: `EstablishedMeansAnnounced`, `RelayBetweenPeers` and
  `AnnouncedBeforeRelayed`, with what announcements and replies under way say about
  `sessions`.  Most actions are shown to be quiet (they add no pairing message and
  leave `sessions` alone); the four that are not have a lemma each.
* `RegistryInv`: what a device row, the password in `otp` and the one shown have to do
  with each other while registrations, kicks and clean-ups are under way, which gives
  `ShownOtpWorks`.
* `RunningIsConnected`: a task that has not begun its clean-up is in `connections`.

Theorems: `TypeCorrect`, `OnlineSafe`, `SessionsAuthorised`, `EstablishedSafe`,
`RelaySafe`, `RelayOrdered`, `ShownOtpSafe`, the action property `PasswordSafe`, and
`Implements`: the server implements `Rendezvous`.  The initial states map to initial
states; `OpenSession` is `Meet` (by `AuthInv` its secret was valid),
`ReplyEstablished` is `TellRequester` (by `PairingInv` the host was told before), `relay`
is `Speak`, `Restart` forgets the meetings, and every other step makes a secret valid, lets
a party leave or is none.

**AccountsProofs.**  `TypeInv` (with `RequestOK`); `SessionsHaveAccounts`, which is
inductive; and `GateInv`: before the gate is decided there is no account, and no request
is past the point at which it needs one (`Fresh`).  A decided gate stays decided
(`GateStable`).  `AdminInv`, in `SerialSpec`: when a request past its guard is about to
remove or demote somebody there is another administrator (`AnotherAdmin`), whom nobody
can take away as long as guarded requests do not overlap; that goes until the guard
fails to look up the only administrator (`GuardLost`).  `CountsAnother` is the count in
the guard: more than one administrator means one besides the target.  Theorems:
`TypeCorrect`, `SessionsSafe`, `GateSafe`, `AdminRemains`.

**NegotiationProofs.**  One invariant: `Steps` (nobody is at the refused candidate),
`Queues` (which messages a queue may hold, as a function of where its writer and reader
are: `UpSet`, `DownSet`) and `Exchange` (an answer is in front of the candidates of its
session in both queues of its way, and is under way or has arrived once the host
streams).  Theorems: `TypeCorrect`, `CandidatesFollow`, `ConnectedAreServed`, for any
number of controllers and any order of the server's handling.

**SessionProofs, RemoteInput.**  `TypeInv`: `TypeOK`, and tasks are told apart by their
ids, only a key's text is the second event of an act, and texts under way were entered.
The user's acts are first reduced to six (`Unsent`, `SentMove`, `SentPress`,
`SentRelease`, `SentText`, `SentScroll`: what an act spawns and what it changes);
`InMonitor` shows that `remote_coords` gives the column the user points at, or the one
right of the last.

`OrderInv` holds what the host will have in the end.  `LastOf(S, c, R, G, ok)` says: of
the events of `R` in the tasks `S` and on the channel `c`, the last is one of `G`, and if
there is none the host is as it should be (`ok`).  As long as nothing was overtaken and
everything was injected, the last press or release of what the user let go is a release
(`HeldInv`); the last move is to the place captured last, and before every press it is
onto its aim (`PointerInv`); the last character is the one entered last, and before every
character it is its predecessor (`TextInv`).  What was lost while the channel connected is
part of these: until a move is heard the pointer may be where the host had it (`Unmoved`),
and the last character may be the last one lost (`Typed`).  Four lemmas say how `LastOf` fares when
tasks are spawned, when the oldest task sends and when the host handles an event, for all
three alike.

`ScrollInv` is about a sum over everything under way, in any order.  There are functions
`s` and `c` of partial sums, over the acts and over the channel (`TaskSums`,
`ChannelSums`), with which what was scrolled, what was lost while connecting and what
will be scrolled add up to what the user turned, with less than one unit lost for each
event.  A task that sends moves its amount from `s` to `c`; that `s` is 0 when there are
no tasks follows from the least act at which it would not be.

Theorems: `InputTypeCorrect`, `TypesAsEntered`, `ClicksHitTarget`, `NothingIsHeld`,
`ScrollsAddUp`, for any number of acts, any buttons, keys and wheel movements and any
widths of picture and monitors.

**SessionProofs, ScreenSharing.**  `AskedOnly` (requests, the capturer and frames, queued or
shown, are of monitors asked for), `ListFirst` (nothing is selected before the channel opens)
and `LastIsSelected` (the last request under way, in the task, on the channel or at the
thread, is for the selected monitor).  Theorems: `ScreenTypeCorrect`, `ShowsOnlyAsked`,
`SharesSelected`.

**FileTransferProofs.**  `TransferInv`: the messages of a transfer are numbered by
`Rank` (the offer, the chunks, the completion); those under way are an ordered run
without gaps (`InOrder`, `NoGaps`) from the receiver's position (`Ahead`) to the
sender's (`Covered`), so the head of the channel is always the message the receiver
expects (`HeadExpected`).  `FileInv`: transfers in progress write to different paths,
and what is written is the beginning of the dropped file.  Theorems: `TypeCorrect`,
`ReceivedWhole`, `NothingClobbered`; the last two assume `EnoughCandidates`, more names to
try than files in the way, from which `UniquePath` and `FreePath` show by counting that
the chosen path is free.  Without it they are false (section 5).

**ClipboardSyncProofs.**  `EchoInv`: what a thread would report is its side's own (`Own`:
copied there, held at the start, or left there by a write that failed), and so is what its
tasks and its channel carry; this needs no assumption about failures.
`SyncInv`: when copies were made one at a time over an open channel, either both sides
have seen the same text, or one text is on its way and at exactly one place of it.
Theorems: `TypeCorrect`, `NothingEchoed`, `UncontendedCopiesSync`.

**ClientBuildsProofs.**  First the operators of `EmbeddedConfig`: `find_subslice`
finds the first marker (`FindsFirstMarker`), and what `patch_binary` writes into a slot
`find_in_binary` reads back, with the rest of the binary unchanged (`SlotRoundTrip`,
`PatchRoundTrip`).  `FileInv`: the `.tmp` name never leads to a served file (`TmpApart`),
a fetch between open and rename holds the file it writes (`FetchHolds`), releases are
fetched in order (`OfferedInOrder`), a version setting follows its rename
(`VersionFollows`).  `SaveInv`: settings that no save is at work on and that are
not `mixed` were saved together, and a value that could not be read is served as absent.
`ServedInv`: what was served is the patched template.  Theorems: `TypeCorrect` and
`SettingsTogether`; and, for `MaxParallel = 1`, `TemplatesWhole`, `VersionsMatch`,
`BuildsNeverDowngrade` (an action property) and `ServesConfigured`.  With two fetches at
a time these four are false (section 5).

**VisuaraAppProofs.**  `TypeInv`, with a bound on refreshes and lists together (`Bounded`).
`SettingsInv`: as long as `chosen` is kept up, the file holds it, at most one task or
the window is between reading and writing, and what it read is still there.
`AutostartInv`: at every point of switching autostart on or off, an entry has its
credentials, and credentials about to be written are a login and not the empty fields.
`SessionInv`: the session shown is served by its own task, its loop has not been hung
up, and logins that did not overlap leave at most one such task at work.  Theorems:
`TypeCorrect`, `SettingsKept`, `AutostartFindsCredentials`, and the action property
`SessionsEndForAReason`.

## 7. Only model-checked

Liveness under fairness, which is beyond the proof system: `ClosedGoesOffline`,
`OfferIsAnswered`, `FilesArrive`, `NoBounce`, `RequestsAreTaken`, `CaptureEnds` and
`SessionShowsOrEnds`.  Every invariant and every action property of a passing run has a
theorem.

## 8. Not modelled

Password hashing, tokens and TURN credentials (cryptography and random numbers: model
values here); encoding and decoding of video; drawing; the WebRTC wrappers; the web UI
and static assets (presentation over the JSON API); schema creation, which runs once at
start; `ListDevices` and the read-only pages of the administration (lists of accounts,
devices and builds); the subcommands `host` and `controller`, which run the same loops
without a window; the client's sending of `SetUnattendedPassword`, one message whose
handling SignalingServer models.

## 9. Plan

Order: the server first (shared state, most interleavings), then what runs on top of
it.

1. Done: SignalingServer and its refinement of Rendezvous, Accounts, Negotiation,
   FileTransfer, ClipboardSync, ClientBuilds with EmbeddedConfig, ScreenSharing,
   RemoteInput, VisuaraApp; proofs of the safety properties of all of them, and of the
   refinement.
2. Left: the parts that section 8 names.
