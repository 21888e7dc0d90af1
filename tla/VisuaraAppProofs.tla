-------------------------- MODULE VisuaraAppProofs --------------------------
(***************************************************************************)
(* Proofs about module VisuaraApp, for any number of tasks, refreshes,     *)
(* toggles and kills, and any entries.                                     *)
(***************************************************************************)
EXTENDS VisuaraApp, TLAPS

\* The actions, one by one: what a step of Next is.
LEMMA NextCases ==
  ASSUME Next
  PROVE  \/ \E t \in Tasks, f \in Entries :
              StartSharing(t, f) \/ Connect(t, f) \/ LogIn(t, f)
         \/ LogOut \/ request_dashboard_refresh
         \/ Enable \/ Disable \/ DisableUndeleted
         \/ ClearLoad \/ ClearWrite
         \/ SaveCredentials \/ MakeEntry \/ ClearCredentials
         \/ \E t \in Tasks :
              \/ Authenticate(t) \/ AuthenticateFails(t)
              \/ LoadSettings(t) \/ SaveSettings(t)
              \/ ShowResult(t) \/ SetUp(t) \/ ForwardList(t) \/ Tail(t)
              \/ LoopTakesPing(t) \/ LoopHangsUp(t) \/ LoopGetsList(t)
              \/ LoopGetsError(t) \/ LoopLosesConnection(t)
         \/ HostAutostart \/ Relaunch
         \/ UNCHANGED vars
BY Zenon DEF Next, Click, UiStep, TaskStep, LoopStep, Answered,
             NothingLeft

-----------------------------------------------------------------------------
(* Types. *)

\* The refreshes of a session that wait or are unanswered are bounded, and
\* who is logged in has a session.
Bounded ==
  /\ \A t \in Tasks : loop[t].pings + loop[t].asked + loop[t].lists <= MaxPings
  /\ logged_in => session \in Tasks

TypeInv == TypeOK /\ Bounded

Steps == {"idle", "auth", "load", "write", "up", "serve", "done"}

\* The locals of a task after each kind of update.
LEMMA StepRecord ==
  ASSUME NEW r \in TaskState, NEW st \in Steps
  PROVE  LET q == [r EXCEPT !.step = st] IN
         /\ q \in TaskState /\ q.step = st /\ q.kind = r.kind /\ q.job = r.job
         /\ q.fields = r.fields /\ q.read = r.read
BY DEF TaskState, Steps

LEMMA RememberRecord ==
  ASSUME NEW r \in TaskState
  PROVE  LET q == [r EXCEPT !.step = "load", !.job = "remember",
                            !.read = NoSettings] IN
         /\ q \in TaskState /\ q.step = "load" /\ q.kind = r.kind
         /\ q.fields = r.fields /\ q.read = NoSettings
BY DEF TaskState, NoSettings, LocalSettings

LEMMA FixedRecords ==
  /\ NoSettings \in LocalSettings /\ NoFields \in Fields
  /\ IdleTask \in TaskState /\ IdleTask.step = "idle" /\ IdleTask.kind = None
  /\ Done \in TaskState /\ Done.step = "done" /\ Done.kind = None
<1>1. NoSettings \in LocalSettings /\ NoFields \in Fields
  BY DEF NoSettings, LocalSettings, NoFields, Fields
<1>2. IdleTask \in TaskState /\ IdleTask.step = "idle" /\ IdleTask.kind = None
  BY <1>1 DEF IdleTask, TaskState
<1>3. Done \in TaskState /\ Done.step = "done" /\ Done.kind = None
  BY <1>2, StepRecord DEF Done, Steps
<1>4. QED BY <1>1, <1>2, <1>3

LEMMA SpawnRecord ==
  ASSUME NEW kind \in Kinds, NEW f \in Fields
  PROVE  LET q == [IdleTask EXCEPT !.kind = kind, !.step = "auth", !.fields = f] IN
         /\ q \in TaskState /\ q.kind = kind /\ q.step = "auth" /\ q.fields = f
BY FixedRecords DEF IdleTask, TaskState

\* A step changes the locals of one task.
TaskMoves(t, r) ==
  /\ task' = [task EXCEPT ![t] = r]
  /\ r \in TaskState

LEMMA TaskFacts ==
  ASSUME TypeOK, NEW t \in Tasks, NEW r, TaskMoves(t, r)
  PROVE  /\ task' \in [Tasks -> TaskState] /\ task'[t] = r
         /\ \A u \in Tasks \ {t} : task'[u] = task[u]
BY DEF TypeOK, TaskMoves

\* A step changes one loop.
LoopMoves(t, r) ==
  /\ loop' = [loop EXCEPT ![t] = r]
  /\ r \in LoopState
  /\ r.pings + r.asked + r.lists <= MaxPings

LEMMA LoopFacts ==
  ASSUME TypeInv, NEW t \in Tasks, NEW r, LoopMoves(t, r)
  PROVE  /\ loop' \in [Tasks -> LoopState] /\ loop'[t] = r
         /\ \A u \in Tasks \ {t} : loop'[u] = loop[u]
         /\ \A u \in Tasks : loop'[u].pings + loop'[u].asked + loop'[u].lists
                               <= MaxPings
<1>1. /\ loop' \in [Tasks -> LoopState] /\ loop'[t] = r
      /\ \A u \in Tasks \ {t} : loop'[u] = loop[u]
  BY DEF TypeInv, TypeOK, LoopMoves
<1>2. QED BY <1>1 DEF TypeInv, Bounded, LoopMoves

\* What the steps of a loop do.
LEMMA LoopSteps ==
  ASSUME TypeInv, NEW t \in Tasks,
         \/ LoopTakesPing(t) \/ LoopHangsUp(t) \/ LoopGetsList(t)
         \/ LoopGetsError(t) \/ LoopLosesConnection(t)
  PROVE  \E r : /\ LoopMoves(t, r)
                /\ loop[t].state = "runs"
                /\ \/ r.state = "runs"
                   \/ r.state = "lost"
                   \/ /\ r.state = "hung_up"
                      /\ session # t /\ task[t].step \in {"serve", "done"}
<1>1. /\ loop[t] \in LoopState
      /\ loop[t].pings + loop[t].asked + loop[t].lists <= MaxPings
      /\ loop[t].pings \in Nat /\ loop[t].asked \in Nat /\ loop[t].lists \in Nat
  BY DEF TypeInv, Bounded, TypeOK, LoopState
<1> USE BoundsAssumption DEF LoopMoves, LoopState
<1>2. CASE LoopTakesPing(t)
  <2> DEFINE r == [loop[t] EXCEPT !.pings = @ - 1, !.asked = @ + 1,
                                  !.refused = FALSE]
  <2>0. /\ r.pings = loop[t].pings - 1 /\ r.asked = loop[t].asked + 1
        /\ r.lists = loop[t].lists /\ r.state = loop[t].state
    BY <1>1
  <2>1. /\ r \in LoopState /\ r.state = loop[t].state
        /\ r.pings + r.asked + r.lists <= MaxPings
    <3>1. loop[t].pings - 1 \in 0 .. MaxPings /\ loop[t].asked + 1 \in 0 .. MaxPings
      BY <1>1, <1>2 DEF LoopTakesPing
    <3>2. r \in LoopState
      BY <1>1, <3>1
    <3>3. QED BY <1>1, <2>0, <3>2
  <2>2. loop' = [loop EXCEPT ![t] = r] /\ loop[t].state = "runs"
    BY <1>1, <1>2 DEF LoopTakesPing, TypeInv, Bounded, TypeOK
  <2> HIDE DEF r
  <2>3. QED BY <2>1, <2>2
<1>3. CASE LoopGetsList(t)
  <2> DEFINE r == [loop[t] EXCEPT !.asked = @ - 1, !.lists = @ + 1]
  <2>0. /\ r.asked = loop[t].asked - 1 /\ r.lists = loop[t].lists + 1
        /\ r.pings = loop[t].pings /\ r.state = loop[t].state
    BY <1>1
  <2>1. /\ r \in LoopState /\ r.state = loop[t].state
        /\ r.pings + r.asked + r.lists <= MaxPings
    <3>1. loop[t].asked - 1 \in 0 .. MaxPings /\ loop[t].lists + 1 \in 0 .. MaxPings
      BY <1>1, <1>3 DEF LoopGetsList
    <3>2. r \in LoopState
      BY <1>1, <3>1
    <3>3. QED BY <1>1, <2>0, <3>2
  <2>2. loop' = [loop EXCEPT ![t] = r] /\ loop[t].state = "runs"
    BY <1>1, <1>3 DEF LoopGetsList, TypeInv, Bounded, TypeOK
  <2> HIDE DEF r
  <2>3. QED BY <2>1, <2>2
<1>8. CASE LoopGetsError(t)
  <2> DEFINE r == [loop[t] EXCEPT !.asked = @ - 1, !.refused = TRUE]
  <2>0. /\ r.asked = loop[t].asked - 1 /\ r.lists = loop[t].lists
        /\ r.pings = loop[t].pings /\ r.state = loop[t].state
    BY <1>1
  <2>1. /\ r \in LoopState /\ r.state = loop[t].state
        /\ r.pings + r.asked + r.lists <= MaxPings
    <3>1. loop[t].asked - 1 \in 0 .. MaxPings
      BY <1>1, <1>8 DEF LoopGetsError
    <3>2. r \in LoopState
      BY <1>1, <3>1
    <3>3. QED BY <1>1, <2>0, <3>2
  <2>2. loop' = [loop EXCEPT ![t] = r] /\ loop[t].state = "runs"
    BY <1>1, <1>8 DEF LoopGetsError, TypeInv, Bounded, TypeOK
  <2> HIDE DEF r
  <2>3. QED BY <2>1, <2>2
<1>4. ASSUME NEW why \in {"lost", "hung_up"}
      PROVE  LET r == Ended(t, why) IN
             /\ r \in LoopState /\ r.state = why
             /\ r.pings + r.asked + r.lists <= MaxPings
  <2> DEFINE r == Ended(t, why)
  <2>1. loop[t].lists \in 0 .. MaxPings /\ 0 \in 0 .. MaxPings
    BY <1>1
  <2>2. NoLoop \in LoopState
    BY <2>1 DEF NoLoop
  <2>3. /\ r.state = why /\ r.pings = 0 /\ r.asked = 0
        /\ r.lists = loop[t].lists
    BY DEF Ended, NoLoop
  <2>4. r \in LoopState
    BY <2>1, <2>2 DEF Ended
  <2> HIDE DEF r
  <2>5. QED BY <1>1, <2>3, <2>4 DEF r
<1>5. CASE LoopHangsUp(t)
  BY <1>4, <1>5 DEF LoopHangsUp
<1>6. CASE LoopLosesConnection(t)
  BY <1>4, <1>6 DEF LoopLosesConnection
<1>7. QED BY <1>2, <1>3, <1>5, <1>6, <1>8

LEMMA TypeInit == Init => TypeInv
<1> SUFFICES ASSUME Init PROVE TypeInv
  OBVIOUS
<1>1. task \in [Tasks -> TaskState]
  BY FixedRecords DEF Init
<1>2. loop \in [Tasks -> LoopState] /\ \A t \in Tasks : loop[t] = NoLoop
  BY BoundsAssumption DEF Init, LoopState, NoLoop
<1>3. TypeOK
  <2>1. toggles \in 0 .. MaxToggles /\ kills \in 0 .. MaxKills
    BY BoundsAssumption DEF Init
  <2>2. fields \in Fields /\ ui_read \in LocalSettings /\ chosen \in LocalSettings
    BY FixedRecords DEF Init
  <2>3. QED BY <1>1, <1>2, <2>1, <2>2 DEF Init, TypeOK
<1>4. \A t \in Tasks : loop[t].pings + loop[t].asked + loop[t].lists <= MaxPings
  BY <1>2, BoundsAssumption DEF NoLoop
<1>5. QED BY <1>3, <1>4 DEF TypeInv, Bounded, Init

\* What a reader of the settings gets, and what a writer leaves.
LEMMA LoadType ==
  ASSUME TypeOK
  PROVE  load \in LocalSettings /\ Loads \subseteq LocalSettings
<1>1. load \in LocalSettings
  BY FixedRecords DEF TypeOK, load
<1>2. QED BY <1>1, FixedRecords DEF Loads

LEMMA EditType ==
  ASSUME NEW s \in LocalSettings, NEW p \in Prefs \cup {Embedded},
         NEW l \in Logins \cup {None}
  PROVE  /\ [s EXCEPT !.prefs = p] \in LocalSettings
         /\ [s EXCEPT !.login = l] \in LocalSettings
BY DEF LocalSettings

LEMMA TaskEdits ==
  ASSUME TypeOK, NEW t \in Tasks
  PROVE  /\ \A s \in LocalSettings : Edited(t, s) \in LocalSettings
         /\ chosen # Torn => Chosen(t) = Edited(t, chosen)
         /\ chosen # Torn => Chosen(t) \in LocalSettings
<1>1. task[t].fields.prefs \in Prefs \cup {Embedded}
      /\ task[t].fields.login \in Logins \cup {None}
  BY DEF TypeOK, TaskState, Fields
<1>2. \A s \in LocalSettings : Edited(t, s) \in LocalSettings
  BY <1>1, EditType DEF Edited
<1>3. Chosen(t) = Edited(t, chosen)
  BY DEF Edited, Chosen
<1>4. QED BY <1>2, <1>3 DEF TypeOK

LEMMA SaveType ==
  ASSUME TypeOK, NEW s \in LocalSettings, NEW r, NEW choice,
         chosen # Torn => choice \in LocalSettings, save(s, r, choice)
  PROVE  /\ settings' \in LocalSettings \cup {None, Torn}
         /\ chosen' \in LocalSettings \cup {Torn}
BY DEF save, TypeOK

\* What the steps of a task do to its locals.
LEMMA TaskSteps ==
  ASSUME TypeOK, NEW t \in Tasks
  PROVE  /\ Authenticate(t) =>
              \E r : /\ TaskMoves(t, r)
                     /\ r.step = "load" /\ r.kind = task[t].kind
         /\ LoadSettings(t) =>
              \E r, l : /\ TaskMoves(t, r) /\ l \in Loads
                        /\ r.step = "write" /\ r.kind = task[t].kind
                        /\ r.read = l
                        /\ chosen' = IF Misread(l) THEN Torn ELSE chosen
         /\ SaveSettings(t) =>
              \E r : /\ TaskMoves(t, r)
                     /\ r.step \in {"load", "up"} /\ r.kind = task[t].kind
         /\ AuthenticateFails(t) \/ ShowResult(t) \/ Tail(t) => TaskMoves(t, Done)
         /\ SetUp(t) => \E r : /\ TaskMoves(t, r)
                               /\ r.step = "serve" /\ r.kind = task[t].kind
<1>0. /\ "load" \in Steps /\ "write" \in Steps /\ "up" \in Steps
      /\ "serve" \in Steps
  BY DEF Steps
<1>1. task[t] \in TaskState
  BY DEF TypeOK
<1>2. ASSUME Authenticate(t)
      PROVE  \E r : TaskMoves(t, r) /\ r.step = "load" /\ r.kind = task[t].kind
  <2> DEFINE r == [task[t] EXCEPT !.step = "load"]
  <2>1. r \in TaskState /\ r.step = "load" /\ r.kind = task[t].kind
    BY <1>1, <1>0, StepRecord
  <2>2. task' = [task EXCEPT ![t] = r]
    BY <1>2 DEF Authenticate
  <2> HIDE DEF r
  <2>3. QED BY <2>1, <2>2 DEF TaskMoves
<1>3. ASSUME LoadSettings(t)
      PROVE  \E r, l : /\ TaskMoves(t, r) /\ l \in Loads
                       /\ r.step = "write" /\ r.kind = task[t].kind
                       /\ r.read = l
                       /\ chosen' = IF Misread(l) THEN Torn ELSE chosen
  <2>1. PICK l \in Loads :
          /\ task' = [task EXCEPT ![t].step = "write", ![t].read = l]
          /\ chosen' = IF Misread(l) THEN Torn ELSE chosen
    BY <1>3 DEF LoadSettings
  <2> DEFINE r == [task[t] EXCEPT !.step = "write", !.read = l]
  <2>2. task' = [task EXCEPT ![t] = r]
    BY <2>1 DEF TypeOK
  <2>3. r \in TaskState /\ r.step = "write" /\ r.kind = task[t].kind /\ r.read = l
    <3>1. l \in LocalSettings
      BY <2>1, LoadType
    <3>2. QED BY <1>1, <3>1 DEF TaskState
  <2> HIDE DEF r
  <2>4. QED BY <2>1, <2>2, <2>3 DEF TaskMoves
<1>4. ASSUME SaveSettings(t)
      PROVE  \E r : /\ TaskMoves(t, r)
                    /\ r.step \in {"load", "up"} /\ r.kind = task[t].kind
  <2> DEFINE a == [task[t] EXCEPT !.step = "load", !.job = "remember",
                                  !.read = NoSettings]
             b == [task[t] EXCEPT !.step = "up", !.read = NoSettings]
  <2>1. task' = [task EXCEPT ![t] = a] \/ task' = [task EXCEPT ![t] = b]
    BY <1>4 DEF SaveSettings
  <2>2. a \in TaskState /\ a.step = "load" /\ a.kind = task[t].kind
    BY <1>1, RememberRecord
  <2>3. b \in TaskState /\ b.step = "up" /\ b.kind = task[t].kind
    <3>1. NoSettings \in LocalSettings
      BY FixedRecords
    <3>2. QED BY <1>1, <3>1 DEF TaskState
  <2> HIDE DEF a, b
  <2>4. QED BY <2>1, <2>2, <2>3 DEF TaskMoves
<1>5. AuthenticateFails(t) \/ ShowResult(t) \/ Tail(t) => TaskMoves(t, Done)
  BY FixedRecords DEF AuthenticateFails, ShowResult, Tail, TaskMoves
<1>6. ASSUME SetUp(t)
      PROVE  \E r : TaskMoves(t, r) /\ r.step = "serve" /\ r.kind = task[t].kind
  <2> DEFINE r == [task[t] EXCEPT !.step = "serve"]
  <2>1. r \in TaskState /\ r.step = "serve" /\ r.kind = task[t].kind
    BY <1>1, <1>0, StepRecord
  <2>2. task' = [task EXCEPT ![t] = r]
    BY <1>6 DEF SetUp
  <2> HIDE DEF r
  <2>3. QED BY <2>1, <2>2 DEF TaskMoves
<1>7. QED BY <1>2, <1>3, <1>4, <1>5, <1>6

LEMMA SpawnFacts ==
  ASSUME TypeOK, NEW t \in Tasks, NEW kind \in Kinds, NEW f \in Entries,
         Spawn(t, kind, f)
  PROVE  /\ ui = "idle" /\ task[t].step = "idle"
         /\ fields' = f /\ f \in Fields /\ f.login \in Logins
         /\ \E r : TaskMoves(t, r) /\ r.kind = kind /\ r.step = "auth"
<1>1. f \in Fields /\ f.login \in Logins
  BY EntriesAssumption DEF Fields
<1> DEFINE r == [IdleTask EXCEPT !.kind = kind, !.step = "auth", !.fields = f]
<1>2. r \in TaskState /\ r.kind = kind /\ r.step = "auth"
  BY <1>1, SpawnRecord
<1>3. /\ task' = [task EXCEPT ![t] = r]
      /\ ui = "idle" /\ task[t].step = "idle" /\ fields' = f
  BY DEF Spawn
<1> HIDE DEF r
<1>4. QED BY <1>1, <1>2, <1>3 DEF TaskMoves

\* Authenticate gives a dashboard session its loop.
LEMMA AuthenticateLoop ==
  ASSUME TypeInv, NEW t \in Tasks, Authenticate(t)
  PROVE  \/ task[t].kind # "dashboard" /\ UNCHANGED loop
         \/ \E r : LoopMoves(t, r) /\ r.state = "runs"
<1> DEFINE r == [NoLoop EXCEPT !.state = "runs", !.pings = 1]
<1>1. 0 \in 0 .. MaxPings /\ 1 \in 0 .. MaxPings
  BY BoundsAssumption
<1>2. NoLoop \in LoopState
  BY <1>1 DEF NoLoop, LoopState
<1>3. r \in LoopState
  BY <1>1, <1>2 DEF LoopState
<1>4. r.state = "runs" /\ r.pings = 1 /\ r.asked = 0 /\ r.lists = 0
  BY DEF NoLoop
<1>5. r.pings + r.asked + r.lists <= MaxPings
  BY <1>4, BoundsAssumption
<1>6. \/ task[t].kind # "dashboard" /\ UNCHANGED loop
      \/ loop' = [loop EXCEPT ![t] = r]
  BY DEF Authenticate
<1> HIDE DEF r
<1>7. QED BY <1>3, <1>4, <1>5, <1>6 DEF LoopMoves

\* ForwardList and request_dashboard_refresh leave the loop in its state.
LEMMA ForwardLoop ==
  ASSUME TypeInv, NEW t \in Tasks, ForwardList(t)
  PROVE  \E r : LoopMoves(t, r) /\ r.state = loop[t].state
<1> DEFINE r == [loop[t] EXCEPT !.lists = @ - 1]
<1>1. /\ loop[t] \in LoopState
      /\ loop[t].pings + loop[t].asked + loop[t].lists <= MaxPings
      /\ loop[t].pings \in Nat /\ loop[t].asked \in Nat /\ loop[t].lists \in Nat
  BY DEF TypeInv, Bounded, TypeOK, LoopState
<1>2. loop[t].lists - 1 \in 0 .. MaxPings
  BY <1>1, BoundsAssumption DEF ForwardList, LoopState
<1>3. r \in LoopState
  BY <1>1, <1>2 DEF LoopState
<1>4. /\ r.state = loop[t].state /\ r.pings = loop[t].pings
      /\ r.asked = loop[t].asked /\ r.lists = loop[t].lists - 1
  BY <1>1 DEF LoopState
<1>5. r.pings + r.asked + r.lists <= MaxPings
  BY <1>1, <1>4, BoundsAssumption
<1>6. loop' = [loop EXCEPT ![t] = r]
  BY DEF ForwardList, TypeInv, Bounded, TypeOK
<1> HIDE DEF r
<1>7. QED BY <1>3, <1>4, <1>5, <1>6 DEF LoopMoves

LEMMA RefreshLoop ==
  ASSUME TypeInv, request_dashboard_refresh
  PROVE  /\ session \in Tasks
         /\ \E r : LoopMoves(session, r) /\ r.state = loop[session].state
<1> DEFINE r == [loop[session] EXCEPT !.pings = @ + 1]
<1>0. session \in Tasks
  BY DEF request_dashboard_refresh, TypeInv, Bounded
<1>1. /\ loop[session] \in LoopState
      /\ loop[session].pings \in Nat /\ loop[session].asked \in Nat
      /\ loop[session].lists \in Nat
      /\ loop[session].pings + loop[session].asked + loop[session].lists < MaxPings
  BY <1>0 DEF TypeInv, Bounded, TypeOK, LoopState, request_dashboard_refresh
<1>2. loop[session].pings + 1 \in 0 .. MaxPings
  BY <1>1, BoundsAssumption
<1>3. r \in LoopState
  BY <1>1, <1>2 DEF LoopState
<1>4. /\ r.state = loop[session].state /\ r.pings = loop[session].pings + 1
      /\ r.asked = loop[session].asked /\ r.lists = loop[session].lists
  BY <1>1 DEF LoopState
<1>5. r.pings + r.asked + r.lists <= MaxPings
  BY <1>1, <1>4, BoundsAssumption
<1>6. loop' = [loop EXCEPT ![session] = r]
  BY <1>0 DEF request_dashboard_refresh, TypeInv, Bounded, TypeOK
<1> HIDE DEF r
<1>7. QED BY <1>0, <1>3, <1>4, <1>5, <1>6 DEF LoopMoves

LEMMA LaunchType ==
  ASSUME NEW l \in LocalSettings
  PROVE  FieldsAtLaunch(l) \in Fields
<1>1. (IF l.prefs = None THEN Embedded ELSE l.prefs) \in Prefs \cup {Embedded}
  BY DEF LocalSettings
<1>2. (l.login # None) \in BOOLEAN
  OBVIOUS
<1>3. l.login \in Logins \cup {None}
  BY DEF LocalSettings
<1>4. QED BY <1>1, <1>2, <1>3 DEF FieldsAtLaunch, Fields

LEMMA TypeStep == TypeInv /\ [Next]_vars => TypeInv'
<1> SUFFICES ASSUME TypeInv, [Next]_vars PROVE TypeInv'
  OBVIOUS
<1>a. TypeOK /\ TypeInv /\ Bounded
  BY DEF TypeInv
<1>b. ASSUME TypeOK', Bounded' PROVE TypeInv'
  BY <1>b DEF TypeInv
<1>c. ASSUME UNCHANGED <<loop, logged_in, session>> PROVE Bounded'
  BY <1>a, <1>c DEF Bounded
<1> USE DEF disk, window, shared, history
<1>1. ASSUME NEW t \in Tasks, NEW f \in Entries,
             StartSharing(t, f) \/ Connect(t, f) \/ LogIn(t, f)
      PROVE  TypeInv'
  <2>1. PICK kind \in Kinds : Spawn(t, kind, f)
    BY <1>1 DEF StartSharing, Connect, LogIn, Kinds
  <2>2. fields' \in Fields /\ task' \in [Tasks -> TaskState]
    BY <1>a, <2>1, SpawnFacts, TaskFacts
  <2>3. overlapped' \in BOOLEAN
    BY <1>1, <1>a DEF StartSharing, Connect, LogIn, TypeOK
  <2>4. UNCHANGED <<disk, ui, ui_read, shared, loop, autofailed, toggles, kills,
                    chosen, undeleted>>
    BY <2>1 DEF Spawn
  <2>5. TypeOK'
    BY <1>a, <2>2, <2>3, <2>4 DEF TypeOK
  <2>6. QED BY <1>b, <1>c, <2>4, <2>5
<1>2. CASE LogOut
  <2>1. [fields EXCEPT !.remember = FALSE] \in Fields
    BY <1>a DEF TypeOK, Fields
  <2>2. TypeOK'
    BY <1>2, <1>a, <2>1 DEF LogOut, TypeOK
  <2>3. Bounded'
    BY <1>2, <1>a DEF LogOut, Bounded
  <2>4. QED BY <1>b, <2>2, <2>3
<1>3. CASE request_dashboard_refresh
  <2>1. /\ loop' \in [Tasks -> LoopState]
        /\ \A u \in Tasks : loop'[u].pings + loop'[u].asked + loop'[u].lists
                               <= MaxPings
    BY <1>3, <1>a, RefreshLoop, LoopFacts
  <2>2. UNCHANGED <<disk, window, shared, task, history>>
    BY <1>3 DEF request_dashboard_refresh
  <2>3. TypeOK' /\ Bounded'
    BY <1>a, <2>1, <2>2 DEF TypeOK, Bounded
  <2>4. QED BY <1>b, <2>3
<1>4. CASE Enable \/ Disable \/ DisableUndeleted
  <2>1. toggles' \in 0 .. MaxToggles
    BY <1>4, <1>a, BoundsAssumption
       DEF Enable, Disable, DisableUndeleted, Toggle, TypeOK
  <2>2. /\ unit' \in BOOLEAN /\ undeleted' \in BOOLEAN
        /\ creds' \in Logins \cup {None, Torn}
        /\ ui' \in {"idle", "creds_write", "clear_creds"}
    BY <1>4, <1>a DEF Enable, Disable, DisableUndeleted, Toggle, TypeOK
  <2>3. UNCHANGED <<settings, fields, ui_read, shared, task, loop, autofailed,
                    kills, chosen, overlapped>>
    BY <1>4 DEF Enable, Disable, DisableUndeleted, Toggle
  <2>4. TypeOK'
    BY <1>a, <2>1, <2>2, <2>3 DEF TypeOK
  <2>5. QED BY <1>b, <1>c, <2>3, <2>4
<1>5. CASE ClearLoad
  <2>1. ui_read' \in LocalSettings /\ ui' \in {"idle", "write"}
    BY <1>5, <1>a, LoadType DEF ClearLoad, TypeOK
  <2>2. chosen' \in LocalSettings \cup {Torn}
    <3>1. chosen # Torn => Forgotten \in LocalSettings
      BY <1>a, EditType, EntriesAssumption DEF Forgotten, TypeOK, LocalSettings
    <3>2. chosen' \in {Torn, Forgotten, chosen} /\ (chosen = Torn => chosen' = Torn)
      BY <1>5 DEF ClearLoad
    <3>3. QED BY <1>a, <3>1, <3>2 DEF TypeOK
  <2>3. UNCHANGED <<disk, fields, shared, task, loop, autofailed, toggles,
                    kills, undeleted, overlapped>>
    BY <1>5 DEF ClearLoad
  <2>4. TypeOK'
    BY <1>a, <2>1, <2>2, <2>3 DEF TypeOK
  <2>5. QED BY <1>b, <1>c, <2>3, <2>4
<1>6. CASE ClearWrite
  <2>1. /\ chosen # Torn => Forgotten \in LocalSettings
        /\ [ui_read EXCEPT !.login = None] \in LocalSettings
    BY <1>a DEF Forgotten, TypeOK, LocalSettings
  <2>2. /\ settings' \in LocalSettings \cup {None, Torn}
        /\ chosen' \in LocalSettings \cup {Torn}
    BY <1>6, <1>a, <2>1, SaveType DEF ClearWrite
  <2>3. ui' = "idle" /\ ui_read' \in LocalSettings
    BY <1>6, FixedRecords DEF ClearWrite
  <2>4. UNCHANGED <<creds, unit, fields, shared, task, loop, autofailed,
                    toggles, kills, undeleted, overlapped>>
    BY <1>6 DEF ClearWrite
  <2>5. TypeOK'
    BY <1>a, <2>2, <2>3, <2>4 DEF TypeOK
  <2>6. QED BY <1>b, <1>c, <2>4, <2>5
<1>7. CASE SaveCredentials \/ MakeEntry \/ ClearCredentials
  <2>1. fields.login \in Logins \cup {None}
    BY <1>a DEF TypeOK, Fields
  <2>2. /\ unit' \in BOOLEAN /\ creds' \in Logins \cup {None, Torn}
        /\ ui' \in {"idle", "enable"}
    BY <1>7, <1>a, <2>1 DEF SaveCredentials, MakeEntry, ClearCredentials, TypeOK
  <2>3. UNCHANGED <<settings, fields, ui_read, shared, task, loop, history>>
    BY <1>7 DEF SaveCredentials, MakeEntry, ClearCredentials
  <2>4. TypeOK'
    BY <1>a, <2>2, <2>3 DEF TypeOK
  <2>5. QED BY <1>b, <1>c, <2>3, <2>4
<1>8. ASSUME NEW t \in Tasks, Authenticate(t) PROVE TypeInv'
  <2>1. /\ loop' \in [Tasks -> LoopState]
        /\ \A u \in Tasks : loop'[u].pings + loop'[u].asked + loop'[u].lists
                               <= MaxPings
    BY <1>8, <1>a, AuthenticateLoop, LoopFacts DEF TypeOK, Bounded
  <2>2. task' \in [Tasks -> TaskState]
    BY <1>8, <1>a, TaskSteps, TaskFacts
  <2>3. UNCHANGED <<disk, window, shared, history>>
    BY <1>8 DEF Authenticate
  <2>4. TypeOK' /\ Bounded'
    BY <1>a, <2>1, <2>2, <2>3 DEF TypeOK, Bounded
  <2>5. QED BY <1>b, <2>4
<1>9. ASSUME NEW t \in Tasks, AuthenticateFails(t) \/ ShowResult(t)
      PROVE  TypeInv'
  <2>1. task' \in [Tasks -> TaskState]
    BY <1>9, <1>a, TaskSteps, TaskFacts
  <2>2. host_info' \in BOOLEAN /\ connected' \in BOOLEAN
    BY <1>9, <1>a DEF AuthenticateFails, ShowResult, TypeOK
  <2>3. UNCHANGED <<disk, window, logged_in, session, known, loop, history>>
    BY <1>9 DEF AuthenticateFails, ShowResult
  <2>4. TypeOK'
    BY <1>a, <2>1, <2>2, <2>3 DEF TypeOK
  <2>5. QED BY <1>b, <1>c, <2>3, <2>4
<1>10. ASSUME NEW t \in Tasks, LoadSettings(t) PROVE TypeInv'
  <2>1. task' \in [Tasks -> TaskState]
    BY <1>10, <1>a, TaskSteps, TaskFacts
  <2>2. chosen' \in LocalSettings \cup {Torn}
    BY <1>10, <1>a DEF LoadSettings, TypeOK
  <2>3. UNCHANGED <<disk, window, shared, loop, autofailed, toggles, kills,
                    undeleted, overlapped>>
    BY <1>10 DEF LoadSettings
  <2>4. TypeOK'
    BY <1>a, <2>1, <2>2, <2>3 DEF TypeOK
  <2>5. QED BY <1>b, <1>c, <2>3, <2>4
<1>11. ASSUME NEW t \in Tasks, SaveSettings(t) PROVE TypeInv'
  <2>1. task' \in [Tasks -> TaskState]
    BY <1>11, <1>a, TaskSteps, TaskFacts
  <2>2. /\ Edited(t, task[t].read) \in LocalSettings
        /\ chosen # Torn => Chosen(t) \in LocalSettings
    BY <1>a, TaskEdits DEF TypeOK, TaskState
  <2>3. /\ settings' \in LocalSettings \cup {None, Torn}
        /\ chosen' \in LocalSettings \cup {Torn}
    BY <1>11, <1>a, <2>2, SaveType DEF SaveSettings
  <2>4. UNCHANGED <<creds, unit, window, shared, loop, autofailed, toggles,
                    kills, undeleted, overlapped>>
    BY <1>11 DEF SaveSettings
  <2>5. TypeOK'
    BY <1>a, <2>1, <2>3, <2>4 DEF TypeOK
  <2>6. QED BY <1>b, <1>c, <2>4, <2>5
<1>12. ASSUME NEW t \in Tasks, SetUp(t) \/ Tail(t) PROVE TypeInv'
  <2>1. task' \in [Tasks -> TaskState]
    BY <1>12, <1>a, TaskSteps, TaskFacts
  <2>2. /\ logged_in' \in BOOLEAN /\ session' \in Tasks \cup {None}
        /\ logged_in' => session' \in Tasks
    BY <1>12 DEF SetUp, Tail
  <2>3. UNCHANGED <<disk, window, host_info, connected, known, loop, history>>
    BY <1>12 DEF SetUp, Tail
  <2>4. TypeOK' /\ Bounded'
    BY <1>a, <2>1, <2>2, <2>3 DEF TypeOK, Bounded
  <2>5. QED BY <1>b, <2>4
<1>13. ASSUME NEW t \in Tasks, ForwardList(t) PROVE TypeInv'
  <2>1. /\ loop' \in [Tasks -> LoopState]
        /\ \A u \in Tasks : loop'[u].pings + loop'[u].asked + loop'[u].lists
                               <= MaxPings
    BY <1>13, <1>a, ForwardLoop, LoopFacts
  <2>2. known' \in Logins \cup {None}
    BY <1>13, <1>a DEF ForwardList, TypeOK, TaskState, Fields
  <2>3. UNCHANGED <<disk, window, host_info, connected, logged_in, session,
                    task, history>>
    BY <1>13 DEF ForwardList
  <2>4. TypeOK' /\ Bounded'
    BY <1>a, <2>1, <2>2, <2>3 DEF TypeOK, Bounded
  <2>5. QED BY <1>b, <2>4
<1>14. ASSUME NEW t \in Tasks,
              \/ LoopTakesPing(t) \/ LoopHangsUp(t) \/ LoopGetsList(t)
              \/ LoopGetsError(t) \/ LoopLosesConnection(t)
       PROVE  TypeInv'
  <2>1. /\ loop' \in [Tasks -> LoopState]
        /\ \A u \in Tasks : loop'[u].pings + loop'[u].asked + loop'[u].lists
                               <= MaxPings
    BY <1>14, <1>a, LoopSteps, LoopFacts
  <2>2. UNCHANGED <<disk, window, shared, task, history>>
    BY <1>14 DEF LoopTakesPing, LoopHangsUp, LoopGetsList, LoopGetsError, LoopLosesConnection
  <2>3. TypeOK' /\ Bounded'
    BY <1>a, <2>1, <2>2 DEF TypeOK, Bounded
  <2>4. QED BY <1>b, <2>3
<1>15. CASE HostAutostart
  <2>1. autofailed' \in BOOLEAN
    BY <1>15, <1>a DEF HostAutostart, TypeOK
  <2>2. UNCHANGED <<disk, window, shared, task, loop, toggles, kills, chosen,
                    undeleted, overlapped>>
    BY <1>15 DEF HostAutostart
  <2>3. TypeOK'
    BY <1>a, <2>1, <2>2 DEF TypeOK
  <2>4. QED BY <1>b, <1>c, <2>2, <2>3
<1>16. CASE Relaunch
  <2>1. /\ settings' \in LocalSettings \cup {None, Torn}
        /\ chosen' \in LocalSettings \cup {Torn}
    BY <1>16, <1>a DEF Relaunch, TypeOK
  <2>2. fields' \in Fields
    <3>1. load' \in LocalSettings
      BY <2>1, FixedRecords DEF load
    <3>2. QED BY <1>16, <3>1, LaunchType, FixedRecords DEF Relaunch, Loads
  <2>3. task' \in [Tasks -> TaskState]
    BY <1>16, <1>a, FixedRecords DEF Relaunch, TypeOK
  <2>4. /\ loop' \in [Tasks -> LoopState]
        /\ \A u \in Tasks : loop'[u].pings + loop'[u].asked + loop'[u].lists
                               <= MaxPings
    BY <1>16, BoundsAssumption DEF Relaunch, NoLoop, LoopState
  <2>5. kills' \in 0 .. MaxKills
    BY <1>16, <1>a, BoundsAssumption DEF Relaunch, TypeOK
  <2>6. /\ ui' = "idle" /\ ui_read' \in LocalSettings
        /\ host_info' = FALSE /\ connected' = FALSE /\ logged_in' = FALSE
        /\ session' = None /\ known' = None
        /\ UNCHANGED <<creds, unit, autofailed, toggles, undeleted, overlapped>>
    BY <1>16, FixedRecords DEF Relaunch
  <2>7. TypeOK'
    BY <1>a, <2>1, <2>2, <2>3, <2>4, <2>5, <2>6 DEF TypeOK
  <2>8. Bounded'
    BY <2>4, <2>6 DEF Bounded
  <2>9. QED BY <1>b, <2>7, <2>8
<1>17. CASE UNCHANGED vars
  <2>1. TypeOK' /\ Bounded'
    BY <1>17, <1>a DEF vars, TypeOK, Bounded
  <2>2. QED BY <1>b, <2>1
<1>18. QED
  BY NextCases, <1>1, <1>2, <1>3, <1>4, <1>5, <1>6, <1>7, <1>8, <1>9, <1>10,
     <1>11, <1>12, <1>13, <1>14, <1>15, <1>16, <1>17

\* The type invariant of the graphical client (gui.rs, dashboard.rs,
\* local_settings.rs, saved_credentials.rs).
THEOREM TypeCorrect == Spec => []TypeOK
<1>1. TypeInv => TypeOK
  BY DEF TypeInv
<1>2. QED BY <1>1, TypeInit, TypeStep, PTL DEF Spec

-----------------------------------------------------------------------------
(* The settings file. *)

\* As long as nobody has read the file while somebody else was about to write
\* it, and no write went wrong, the file holds what was chosen, at most one is
\* about to write it, and has read what was chosen.
SettingsInv ==
  chosen # Torn =>
    /\ load = chosen
    /\ ui = "write" => ui_read = chosen
    /\ \A t \in Tasks : task[t].step = "write" =>
         task[t].read = chosen /\ ui # "write"
    /\ \A t, u \in Tasks : task[t].step = "write" /\ task[u].step = "write" => t = u

\* Nobody begins to write, and nobody has written.
LEMMA OtherSettings ==
  ASSUME SettingsInv, UNCHANGED <<settings, chosen, ui_read>>,
         ui' = "write" => ui = "write",
         \A t \in Tasks : task'[t].step = "write" => task'[t] = task[t]
  PROVE  SettingsInv'
BY DEF SettingsInv, load

\* The only one that is about to write writes.
LEMMA SaveFacts ==
  ASSUME TypeOK, NEW s \in LocalSettings, NEW r, NEW choice,
         save(s, r, choice), chosen' # Torn, r = load
  PROVE  chosen # Torn /\ chosen' = choice /\ load' = s
<1>1. settings' = s /\ chosen # Torn /\ chosen' = choice
  BY DEF save
<1>2. s # None /\ s # Torn
  BY NoneAssumption
<1>3. QED BY <1>1, <1>2 DEF load

LEMMA SaveKeepsTorn ==
  ASSUME NEW s, NEW r, NEW choice, save(s, r, choice), chosen = Torn
  PROVE  chosen' = Torn
BY DEF save

LEMMA SettingsStep == TypeInv /\ SettingsInv /\ [Next]_vars => SettingsInv'
<1> SUFFICES ASSUME TypeInv, SettingsInv, [Next]_vars PROVE SettingsInv'
  OBVIOUS
<1>a. TypeOK
  BY DEF TypeInv
<1> USE DEF disk, window, shared, history
<1>1. ASSUME NEW t \in Tasks, NEW f \in Entries,
             StartSharing(t, f) \/ Connect(t, f) \/ LogIn(t, f)
      PROVE  SettingsInv'
  <2>1. PICK kind \in Kinds : Spawn(t, kind, f)
    BY <1>1 DEF StartSharing, Connect, LogIn, Kinds
  <2>2. \A u \in Tasks : task'[u].step = "write" => task'[u] = task[u]
    BY <1>a, <2>1, SpawnFacts, TaskFacts
  <2>3. UNCHANGED <<settings, chosen, ui, ui_read>>
    BY <2>1 DEF Spawn
  <2>4. QED BY <2>2, <2>3, OtherSettings
<1>2. CASE LogOut
  BY <1>2, OtherSettings DEF LogOut
<1>3. CASE request_dashboard_refresh
  BY <1>3, OtherSettings DEF request_dashboard_refresh
<1>4. CASE Enable \/ Disable \/ DisableUndeleted
  <2>1. UNCHANGED <<settings, chosen, ui_read, task>> /\ ui' # "write"
    BY <1>4 DEF Enable, Disable, DisableUndeleted, Toggle
  <2>2. QED BY <2>1, OtherSettings
<1>5. CASE ClearLoad
  <2> SUFFICES ASSUME chosen' # Torn PROVE SettingsInv'
    BY DEF SettingsInv
  <2>1. PICK l \in Loads :
          /\ IF l.login = None THEN ui' = "idle" /\ UNCHANGED ui_read
                               ELSE ui' = "write" /\ ui_read' = l
          /\ chosen' = IF Misread(l) \/ chosen = Torn THEN Torn
                       ELSE IF l.login = None THEN Forgotten ELSE chosen
    BY <1>5 DEF ClearLoad
  <2>2. ~ Saving /\ l = load /\ chosen # Torn
    BY <2>1 DEF Misread
  <2>3. load = chosen /\ load' = load /\ UNCHANGED task
    BY <1>5, <2>2 DEF SettingsInv, ClearLoad, load
  <2>4. \A t \in Tasks : task'[t].step # "write"
    BY <2>2, <2>3 DEF Saving
  <2>5. CASE l.login # None
    <3>1. ui_read' = load /\ chosen' = chosen
      BY <2>1, <2>2, <2>5
    <3>2. QED BY <2>3, <2>4, <3>1 DEF SettingsInv
  <2>6. CASE l.login = None
    <3>1. ui' = "idle" /\ chosen' = [chosen EXCEPT !.login = None]
      BY <2>1, <2>2, <2>6 DEF Forgotten
    <3>2. chosen' = chosen
      BY <1>a, <2>2, <2>3, <2>6, <3>1 DEF TypeOK, LocalSettings
    <3>3. QED BY <2>3, <2>4, <3>1, <3>2 DEF SettingsInv
  <2>7. QED BY <2>5, <2>6
<1>6. CASE ClearWrite
  <2> SUFFICES ASSUME chosen' # Torn PROVE SettingsInv'
    BY DEF SettingsInv
  <2>1. ui = "write" /\ ui' = "idle" /\ UNCHANGED task
        /\ save([ui_read EXCEPT !.login = None], ui_read, Forgotten)
    BY <1>6 DEF ClearWrite
  <2>2. chosen # Torn
    BY <2>1, SaveKeepsTorn
  <2>3. ui_read = chosen /\ load = chosen /\ \A t \in Tasks : task[t].step # "write"
    BY <2>1, <2>2 DEF SettingsInv
  <2>4. [ui_read EXCEPT !.login = None] \in LocalSettings
    BY <1>a DEF TypeOK, LocalSettings
  <2>5. chosen' = Forgotten /\ load' = [ui_read EXCEPT !.login = None]
    BY <1>a, <2>1, <2>3, <2>4, SaveFacts
  <2>6. load' = chosen'
    BY <2>3, <2>5 DEF Forgotten
  <2>7. QED BY <2>1, <2>3, <2>6 DEF SettingsInv
<1>7. CASE SaveCredentials \/ MakeEntry \/ ClearCredentials
  <2>1. UNCHANGED <<settings, chosen, ui_read, task>> /\ ui' # "write"
    BY <1>7 DEF SaveCredentials, MakeEntry, ClearCredentials
  <2>2. QED BY <2>1, OtherSettings
<1>8. ASSUME NEW t \in Tasks,
             \/ Authenticate(t) \/ AuthenticateFails(t) \/ ShowResult(t)
             \/ SetUp(t) \/ Tail(t)
      PROVE  SettingsInv'
  <2>1. \E r : TaskMoves(t, r) /\ r.step # "write"
    <3>1. CASE Authenticate(t)
      BY <1>a, <3>1, TaskSteps
    <3>2. CASE SetUp(t)
      BY <1>a, <3>2, TaskSteps
    <3>3. CASE AuthenticateFails(t) \/ ShowResult(t) \/ Tail(t)
      BY <1>a, <3>3, TaskSteps, FixedRecords
    <3>4. QED BY <1>8, <3>1, <3>2, <3>3
  <2>2. \A u \in Tasks : task'[u].step = "write" => task'[u] = task[u]
    BY <1>a, <2>1, TaskFacts
  <2>3. UNCHANGED <<settings, chosen, ui, ui_read>>
    BY <1>8 DEF Authenticate, AuthenticateFails, ShowResult, SetUp, Tail
  <2>4. QED BY <2>2, <2>3, OtherSettings
<1>9. ASSUME NEW t \in Tasks, LoadSettings(t) PROVE SettingsInv'
  <2> SUFFICES ASSUME chosen' # Torn PROVE SettingsInv'
    BY DEF SettingsInv
  <2>1. PICK r, l : /\ TaskMoves(t, r) /\ r.read = l
                    /\ chosen' = IF Misread(l) THEN Torn ELSE chosen
    BY <1>9, <1>a, TaskSteps
  <2>2. ~ Saving /\ l = load /\ chosen' = chosen /\ UNCHANGED <<settings, ui>>
    BY <1>9, <2>1 DEF LoadSettings, Misread
  <2>3. load = chosen /\ load' = load
    BY <2>2 DEF SettingsInv, load
  <2>4. ui # "write" /\ \A u \in Tasks : task[u].step # "write"
    BY <2>2 DEF Saving
  <2>5. task'[t].read = load /\ \A u \in Tasks \ {t} : task'[u] = task[u]
    BY <1>a, <2>1, <2>2, TaskFacts
  <2>6. QED BY <2>2, <2>3, <2>4, <2>5 DEF SettingsInv
<1>10. ASSUME NEW t \in Tasks, SaveSettings(t) PROVE SettingsInv'
  <2> SUFFICES ASSUME chosen' # Torn PROVE SettingsInv'
    BY DEF SettingsInv
  <2>1. /\ task[t].step = "write" /\ UNCHANGED <<ui, ui_read>>
        /\ save(Edited(t, task[t].read), task[t].read, Chosen(t))
    BY <1>10 DEF SaveSettings
  <2>2. chosen # Torn
    BY <2>1, SaveKeepsTorn
  <2>3. /\ task[t].read = chosen /\ load = chosen /\ ui # "write"
        /\ \A u \in Tasks \ {t} : task[u].step # "write"
    BY <2>1, <2>2 DEF SettingsInv
  <2>4. Edited(t, task[t].read) \in LocalSettings /\ Chosen(t) = Edited(t, chosen)
    BY <1>a, <2>2, TaskEdits DEF TypeOK, TaskState
  <2>5. chosen' = Chosen(t) /\ load' = Edited(t, task[t].read)
    BY <1>a, <2>1, <2>3, <2>4, SaveFacts
  <2>6. load' = chosen'
    BY <2>3, <2>4, <2>5
  <2>7. \A u \in Tasks : task'[u].step # "write"
    BY <1>10, <1>a, <2>3, TaskSteps, TaskFacts
  <2>8. QED BY <2>1, <2>3, <2>6, <2>7 DEF SettingsInv
<1>11. ASSUME NEW t \in Tasks,
              \/ ForwardList(t) \/ LoopTakesPing(t) \/ LoopHangsUp(t)
              \/ LoopGetsList(t) \/ LoopGetsError(t) \/ LoopLosesConnection(t)
       PROVE  SettingsInv'
  <2>1. UNCHANGED <<settings, chosen, ui, ui_read, task>>
    BY <1>11 DEF ForwardList, LoopTakesPing, LoopHangsUp, LoopGetsList, LoopGetsError,
                 LoopLosesConnection
  <2>2. QED BY <2>1, OtherSettings
<1>12. CASE HostAutostart
  BY <1>12, OtherSettings DEF HostAutostart
<1>13. CASE Relaunch
  <2> SUFFICES ASSUME chosen' # Torn PROVE SettingsInv'
    BY DEF SettingsInv
  <2>1. chosen' = chosen /\ settings' = settings /\ ui' = "idle"
    BY <1>13 DEF Relaunch
  <2>2. \A t \in Tasks : task'[t].step # "write"
    BY <1>13, FixedRecords DEF Relaunch, Busy
  <2>3. QED BY <2>1, <2>2 DEF SettingsInv, load
<1>14. CASE UNCHANGED vars
  BY <1>14, OtherSettings DEF vars
<1>15. QED
  BY NextCases, <1>1, <1>2, <1>3, <1>4, <1>5, <1>6, <1>7, <1>8, <1>9, <1>10,
     <1>11, <1>12, <1>13, <1>14

\* Saving the prefs leaves a remembered login as it is, forgetting a login
\* leaves the prefs, and the last of each is on disk (gui.rs:47-49,
\* local_settings.rs:54-55), unless the file was read while somebody was about
\* to write it, a read or a write of it failed, or a write was cut short.
THEOREM SettingsKept == Spec => []SettingsAsChosen
<1>1. Init => SettingsInv
  BY FixedRecords DEF Init, SettingsInv, load
<1>2. SettingsInv => SettingsAsChosen
  BY DEF SettingsInv, SettingsAsChosen
<1>3. QED BY <1>1, <1>2, TypeInit, TypeStep, SettingsStep, PTL DEF Spec

-----------------------------------------------------------------------------
(* The autostart entry and its credentials. *)

\* While the entry exists its credentials do, whole; before it is made they
\* are saved, and while they are written or removed it does not exist.  What
\* is saved is a login: who shares has entered one.
AutostartInv ==
  /\ (host_info \/ ui = "creds_write" \/ \E t \in Tasks : Busy(t)) =>
       fields.login \in Logins
  /\ ~ undeleted =>
       /\ ~ autofailed
       /\ unit \/ ui = "enable" => creds \in Logins
       /\ ui \in {"creds_write", "clear_creds"} => ~ unit

\* A step that does not touch entry, credentials or entry fields.
LEMMA OtherAutostart ==
  ASSUME AutostartInv, UNCHANGED <<creds, unit, autofailed, undeleted>>,
         fields'.login = fields.login,
         host_info' => host_info \/ \E t \in Tasks : Busy(t),
         \A t \in Tasks : Busy(t)' => Busy(t),
         ui' \in {"creds_write", "clear_creds", "enable"} => ui' = ui
  PROVE  AutostartInv'
BY DEF AutostartInv

LEMMA AutostartStep == TypeInv /\ AutostartInv /\ [Next]_vars => AutostartInv'
<1> SUFFICES ASSUME TypeInv, AutostartInv, [Next]_vars PROVE AutostartInv'
  OBVIOUS
<1>a. TypeOK
  BY DEF TypeInv
<1> USE DEF disk, window, shared, history
<1>b. ASSUME UNCHANGED task PROVE \A t \in Tasks : Busy(t)' => Busy(t)
  BY <1>b DEF Busy
<1>1. ASSUME NEW t \in Tasks, NEW f \in Entries,
             StartSharing(t, f) \/ Connect(t, f) \/ LogIn(t, f)
      PROVE  AutostartInv'
  <2>1. PICK kind \in Kinds : Spawn(t, kind, f)
    BY <1>1 DEF StartSharing, Connect, LogIn, Kinds
  <2>2. fields'.login \in Logins
    BY <1>a, <2>1, SpawnFacts
  <2>3. UNCHANGED <<creds, unit, autofailed, undeleted, ui>>
    BY <2>1 DEF Spawn
  <2>4. QED BY <2>2, <2>3 DEF AutostartInv
<1>2. CASE LogOut
  <2>1. fields'.login = fields.login
    BY <1>2, <1>a DEF LogOut, TypeOK, Fields
  <2>2. UNCHANGED <<creds, unit, autofailed, undeleted, host_info, task>>
        /\ ui' = "load"
    BY <1>2 DEF LogOut
  <2>3. QED BY <1>b, <2>1, <2>2, OtherAutostart
<1>3. CASE request_dashboard_refresh
  BY <1>3, <1>b, OtherAutostart DEF request_dashboard_refresh
<1>4. CASE Enable \/ Disable \/ DisableUndeleted
  <2>1. /\ ui = "idle" /\ host_info
        /\ UNCHANGED <<fields, host_info, task, autofailed>>
    BY <1>4 DEF Enable, Disable, DisableUndeleted, Toggle
  <2>2. fields'.login \in Logins
    BY <2>1 DEF AutostartInv
  <2>3. CASE Enable
    BY <2>1, <2>2, <2>3 DEF AutostartInv, Enable, is_enabled
  <2>4. CASE Disable
    BY <2>1, <2>2, <2>4 DEF AutostartInv, Disable, is_enabled
  <2>5. CASE DisableUndeleted
    BY <2>1, <2>2, <2>5 DEF AutostartInv, DisableUndeleted
  <2>6. QED BY <1>4, <2>3, <2>4, <2>5
<1>5. CASE ClearLoad \/ ClearWrite
  <2>1. /\ UNCHANGED <<creds, unit, autofailed, undeleted, fields, host_info, task>>
        /\ ui' \in {"idle", "write"}
    BY <1>5 DEF ClearLoad, ClearWrite
  <2>2. QED BY <1>b, <2>1, OtherAutostart
<1>6. CASE SaveCredentials
  <2>1. /\ ui = "creds_write"
        /\ UNCHANGED <<unit, fields, host_info, task, autofailed, undeleted>>
        /\ \/ creds' = fields.login /\ ui' = "enable"
           \/ creds' = Torn /\ ui' = "idle"
    BY <1>6 DEF SaveCredentials
  <2>2. fields.login \in Logins
    BY <2>1 DEF AutostartInv
  <2>3. QED BY <2>1, <2>2 DEF AutostartInv
<1>7. CASE MakeEntry
  <2>1. /\ ui = "enable" /\ ui' = "idle"
        /\ UNCHANGED <<creds, fields, host_info, task, autofailed, undeleted>>
    BY <1>7 DEF MakeEntry
  <2>2. QED BY <2>1 DEF AutostartInv, Busy
<1>8. CASE ClearCredentials
  <2>1. /\ ui = "clear_creds" /\ ui' = "idle"
        /\ UNCHANGED <<unit, fields, host_info, task, autofailed, undeleted>>
    BY <1>8 DEF ClearCredentials
  <2>2. QED BY <2>1 DEF AutostartInv, Busy
<1>9. ASSUME NEW t \in Tasks,
             \/ Authenticate(t) \/ AuthenticateFails(t) \/ LoadSettings(t)
             \/ SaveSettings(t) \/ ShowResult(t) \/ SetUp(t) \/ Tail(t)
      PROVE  AutostartInv'
  <2>1. Busy(t)
    BY <1>9 DEF Authenticate, AuthenticateFails, LoadSettings, SaveSettings,
                ShowResult, SetUp, Tail, Busy
  <2>2. \A u \in Tasks \ {t} : task'[u] = task[u]
    <3>1. \E r : TaskMoves(t, r)
      BY <1>9, <1>a, TaskSteps
    <3>2. QED BY <1>a, <3>1, TaskFacts
  <2>3. \A u \in Tasks : Busy(u)' => Busy(u)
    BY <2>1, <2>2 DEF Busy
  <2>4. UNCHANGED <<creds, unit, autofailed, undeleted, fields, ui>>
    BY <1>9 DEF Authenticate, AuthenticateFails, LoadSettings, SaveSettings,
                ShowResult, SetUp, Tail
  <2>5. QED BY <2>1, <2>3, <2>4, OtherAutostart
<1>10. ASSUME NEW t \in Tasks,
              \/ ForwardList(t) \/ LoopTakesPing(t) \/ LoopHangsUp(t)
              \/ LoopGetsList(t) \/ LoopGetsError(t) \/ LoopLosesConnection(t)
       PROVE  AutostartInv'
  <2>1. UNCHANGED <<creds, unit, autofailed, undeleted, fields, host_info, ui, task>>
    BY <1>10 DEF ForwardList, LoopTakesPing, LoopHangsUp, LoopGetsList, LoopGetsError,
                 LoopLosesConnection
  <2>2. QED BY <1>b, <2>1, OtherAutostart
<1>11. CASE HostAutostart
  <2>1. /\ unit /\ autofailed' = (autofailed \/ load_credentials = None)
        /\ UNCHANGED <<creds, unit, undeleted, fields, host_info, ui, task>>
    BY <1>11 DEF HostAutostart
  <2>2. ~ undeleted => load_credentials # None /\ ~ autofailed
    BY <2>1, NoneAssumption DEF AutostartInv, load_credentials
  <2>3. ~ undeleted => ~ autofailed'
    BY <2>1, <2>2
  <2>4. QED BY <2>1, <2>3 DEF AutostartInv, Busy
<1>12. CASE Relaunch
  <2>1. /\ UNCHANGED <<creds, unit, autofailed, undeleted>>
        /\ ui' = "idle" /\ host_info' = FALSE
    BY <1>12 DEF Relaunch
  <2>2. \A t \in Tasks : ~ Busy(t)'
    BY <1>12, FixedRecords DEF Relaunch, Busy
  <2>3. QED BY <2>1, <2>2 DEF AutostartInv
<1>13. CASE UNCHANGED vars
  BY <1>13, <1>b, OtherAutostart DEF vars
<1>14. QED
  BY NextCases, <1>1, <1>2, <1>3, <1>4, <1>5, <1>6, <1>7, <1>8, <1>9, <1>10,
     <1>11, <1>12, <1>13

\* The autostarted host always finds its credentials, whole (gui.rs:208, 218,
\* saved_credentials.rs:28-48), although the process may be killed, or a step
\* fail, between the two, unless the registry did not delete the entry.
THEOREM AutostartFindsCredentials == Spec => []AutostartHasCredentials
<1>1. Init => AutostartInv
  BY FixedRecords DEF Init, AutostartInv, Busy
<1>2. AutostartInv => AutostartHasCredentials
  BY DEF AutostartInv, AutostartHasCredentials
<1>3. QED BY <1>1, <1>2, TypeInit, TypeStep, AutostartStep, PTL DEF Spec

-----------------------------------------------------------------------------
(* The dashboard session. *)

\* The session is one whose task serves it; a task that serves has a loop,
\* which hangs up only when its session is another's; without overlapping
\* logins one dashboard task is at work at a time.
SessionInv ==
  /\ logged_in => session \in Tasks /\ task[session].step = "serve"
  /\ \A t \in Tasks :
       /\ task[t].step = "serve" => task[t].kind = "dashboard"
       /\ task[t].kind = "dashboard" /\ task[t].step \notin {"auth", "idle", "done"} =>
            loop[t].state # "unborn"
       /\ loop[t].state = "hung_up" =>
            /\ ~ (logged_in /\ session = t)
            /\ task[t].step \in {"serve", "done"}
  /\ ~ overlapped =>
       \A t, u \in Tasks :
         /\ task[t].kind = "dashboard" /\ Busy(t)
         /\ task[u].kind = "dashboard" /\ Busy(u)
         => t = u

\* A step that does not touch tasks, loops or the session.
LEMMA OtherSession ==
  ASSUME SessionInv, UNCHANGED <<task, loop, logged_in, session, overlapped>>
  PROVE  SessionInv'
BY DEF SessionInv, Busy

\* Task t moves on, but not to "serve".
LEMMA WorkingSession ==
  ASSUME TypeOK, SessionInv, NEW t \in Tasks, NEW r, TaskMoves(t, r),
         task[t].step \in {"auth", "load", "write", "up"},
         r.step = "done" \/ (/\ r.step \in {"load", "write", "up"}
                             /\ r.kind = task[t].kind
                             /\ r.kind = "dashboard" => loop'[t].state # "unborn"),
         loop'[t] = loop[t] \/ loop'[t].state = "runs",
         \A u \in Tasks \ {t} : loop'[u] = loop[u],
         UNCHANGED <<logged_in, session, overlapped>>
  PROVE  SessionInv'
<1>1. task'[t] = r /\ \A u \in Tasks \ {t} : task'[u] = task[u]
  BY TaskFacts
<1>2. logged_in' => session' \in Tasks /\ task'[session'].step = "serve"
  BY <1>1 DEF SessionInv
<1>3. ASSUME NEW u \in Tasks
      PROVE  /\ task'[u].step = "serve" => task'[u].kind = "dashboard"
             /\ task'[u].kind = "dashboard" /\ task'[u].step \notin {"auth", "idle", "done"} =>
                  loop'[u].state # "unborn"
             /\ loop'[u].state = "hung_up" =>
                  /\ ~ (logged_in' /\ session' = u)
                  /\ task'[u].step \in {"serve", "done"}
  <2>1. CASE u # t
    BY <1>1, <2>1 DEF SessionInv
  <2>2. CASE u = t
    BY <1>1, <2>2 DEF SessionInv
  <2>3. QED BY <2>1, <2>2
<1>4. \A u \in Tasks : task'[u].kind = "dashboard" /\ Busy(u)' =>
        task[u].kind = "dashboard" /\ Busy(u)
  BY <1>1 DEF Busy
<1>5. QED BY <1>2, <1>3, <1>4 DEF SessionInv

\* Loop t takes a step.
LEMMA LoopSession ==
  ASSUME TypeInv, SessionInv, NEW t \in Tasks, NEW r, LoopMoves(t, r),
         \/ r.state = loop[t].state
         \/ /\ loop[t].state = "runs"
            /\ \/ r.state = "lost"
               \/ /\ r.state = "hung_up" /\ session # t
                  /\ task[t].step \in {"serve", "done"},
         UNCHANGED <<task, logged_in, session, overlapped>>
  PROVE  SessionInv'
<1>1. loop'[t] = r /\ \A u \in Tasks \ {t} : loop'[u] = loop[u]
  BY LoopFacts
<1>2. QED BY <1>1 DEF SessionInv, Busy

LEMMA SessionStep == TypeInv /\ SessionInv /\ [Next]_vars => SessionInv'
<1> SUFFICES ASSUME TypeInv, SessionInv, [Next]_vars PROVE SessionInv'
  OBVIOUS
<1>a. TypeOK
  BY DEF TypeInv
<1> USE DEF disk, window, shared, history
<1>1. ASSUME NEW t \in Tasks, NEW f \in Entries,
             StartSharing(t, f) \/ Connect(t, f) \/ LogIn(t, f)
      PROVE  SessionInv'
  <2>1. PICK kind \in Kinds : Spawn(t, kind, f) /\ (kind = "dashboard" => LogIn(t, f))
                              /\ (kind # "dashboard" => UNCHANGED overlapped)
    BY <1>1 DEF StartSharing, Connect, LogIn, Kinds
  <2>2. PICK r : TaskMoves(t, r) /\ r.kind = kind /\ r.step = "auth"
    BY <1>a, <2>1, SpawnFacts
  <2>3. /\ task[t].step = "idle"
        /\ task'[t] = r /\ \A u \in Tasks \ {t} : task'[u] = task[u]
    BY <1>a, <2>1, <2>2, SpawnFacts, TaskFacts
  <2>4. UNCHANGED <<loop, logged_in, session>>
    BY <2>1 DEF Spawn
  <2>5. loop[t].state # "hung_up"
    BY <2>3 DEF SessionInv
  <2>6. ~ overlapped' =>
          \A u, v \in Tasks :
            /\ task'[u].kind = "dashboard" /\ Busy(u)'
            /\ task'[v].kind = "dashboard" /\ Busy(v)'
            => u = v
    <3>1. CASE kind = "dashboard"
      <4>1. ~ overlapped' => \A u \in Tasks : ~ (task[u].kind = "dashboard" /\ Busy(u))
        BY <1>a, <2>1, <3>1 DEF LogIn, TypeOK
      <4>2. QED BY <2>3, <4>1 DEF Busy
    <3>2. CASE kind # "dashboard"
      BY <2>1, <2>2, <2>3, <3>2 DEF SessionInv, Busy
    <3>3. QED BY <3>1, <3>2
  <2>7. logged_in' => session' \in Tasks /\ task'[session'].step = "serve"
    BY <2>3, <2>4 DEF SessionInv
  <2>8. QED BY <2>2, <2>3, <2>4, <2>5, <2>6, <2>7 DEF SessionInv
<1>2. CASE LogOut
  BY <1>2 DEF LogOut, SessionInv, Busy
<1>3. CASE request_dashboard_refresh
  <2>1. UNCHANGED <<task, logged_in, session, overlapped>>
    BY <1>3 DEF request_dashboard_refresh
  <2>2. QED BY <1>3, <2>1, RefreshLoop, LoopSession
<1>4. CASE Enable \/ Disable \/ DisableUndeleted
  BY <1>4, OtherSession DEF Enable, Disable, DisableUndeleted, Toggle
<1>5. CASE ClearLoad \/ ClearWrite
  BY <1>5, OtherSession DEF ClearLoad, ClearWrite
<1>6. CASE SaveCredentials \/ MakeEntry \/ ClearCredentials
  BY <1>6, OtherSession DEF SaveCredentials, MakeEntry, ClearCredentials
<1>7. ASSUME NEW t \in Tasks, Authenticate(t) PROVE SessionInv'
  <2>1. PICK r : TaskMoves(t, r) /\ r.step = "load" /\ r.kind = task[t].kind
    BY <1>7, <1>a, TaskSteps
  <2>2. /\ \A u \in Tasks \ {t} : loop'[u] = loop[u]
        /\ \/ loop'[t] = loop[t] /\ task[t].kind # "dashboard"
           \/ loop'[t].state = "runs"
    BY <1>7, AuthenticateLoop, LoopFacts
  <2>3. task[t].step = "auth" /\ UNCHANGED <<logged_in, session, overlapped>>
    BY <1>7 DEF Authenticate
  <2>4. QED BY <1>a, <2>1, <2>2, <2>3, WorkingSession
<1>8. ASSUME NEW t \in Tasks, AuthenticateFails(t) \/ ShowResult(t)
      PROVE  SessionInv'
  <2>1. /\ task[t].step \in {"auth", "up"}
        /\ UNCHANGED <<loop, logged_in, session, overlapped>>
    BY <1>8 DEF AuthenticateFails, ShowResult
  <2>2. TaskMoves(t, Done) /\ Done.step = "done"
    BY <1>8, <1>a, TaskSteps, FixedRecords
  <2>3. QED BY <1>a, <2>1, <2>2, WorkingSession
<1>9. ASSUME NEW t \in Tasks, LoadSettings(t) \/ SaveSettings(t)
      PROVE  SessionInv'
  <2>1. /\ task[t].step \in {"load", "write"}
        /\ UNCHANGED <<loop, logged_in, session, overlapped>>
    BY <1>9 DEF LoadSettings, SaveSettings
  <2>2. PICK r : /\ TaskMoves(t, r) /\ r.step \in {"load", "write", "up"}
                 /\ r.kind = task[t].kind
    BY <1>9, <1>a, TaskSteps
  <2>3. r.kind = "dashboard" => loop'[t].state # "unborn"
    BY <2>1, <2>2 DEF SessionInv
  <2>4. QED BY <1>a, <2>1, <2>2, <2>3, WorkingSession
<1>10. ASSUME NEW t \in Tasks, SetUp(t) PROVE SessionInv'
  <2>1. /\ task[t].step = "up" /\ task[t].kind = "dashboard"
        /\ session' = t /\ UNCHANGED <<loop, overlapped>>
    BY <1>10 DEF SetUp
  <2>2. /\ task'[t].step = "serve" /\ task'[t].kind = "dashboard"
        /\ \A u \in Tasks \ {t} : task'[u] = task[u]
    BY <1>10, <1>a, <2>1, TaskSteps, TaskFacts
  <2>3. loop[t].state # "hung_up"
    BY <2>1 DEF SessionInv
  <2>4. QED BY <2>1, <2>2, <2>3 DEF SessionInv, Busy
<1>11. ASSUME NEW t \in Tasks, Tail(t) PROVE SessionInv'
  <2>1. ~ logged_in' /\ UNCHANGED <<loop, overlapped>> /\ task[t].step = "serve"
    BY <1>11 DEF Tail
  <2>2. /\ task'[t].step = "done" /\ \A u \in Tasks \ {t} : task'[u] = task[u]
    BY <1>11, <1>a, TaskSteps, TaskFacts, FixedRecords
  <2>3. QED BY <2>1, <2>2 DEF SessionInv, Busy
<1>12. ASSUME NEW t \in Tasks, ForwardList(t) PROVE SessionInv'
  <2>1. UNCHANGED <<task, logged_in, session, overlapped>>
    BY <1>12 DEF ForwardList
  <2>2. QED BY <1>12, <2>1, ForwardLoop, LoopSession
<1>13. ASSUME NEW t \in Tasks,
              \/ LoopTakesPing(t) \/ LoopHangsUp(t) \/ LoopGetsList(t)
              \/ LoopGetsError(t) \/ LoopLosesConnection(t)
       PROVE  SessionInv'
  <2>1. UNCHANGED <<task, logged_in, session, overlapped>>
    BY <1>13 DEF LoopTakesPing, LoopHangsUp, LoopGetsList, LoopGetsError, LoopLosesConnection
  <2>2. QED BY <1>13, <2>1, LoopSteps, LoopSession
<1>14. CASE HostAutostart
  BY <1>14, OtherSession DEF HostAutostart
<1>15. CASE Relaunch
  <2>1. /\ ~ logged_in' /\ UNCHANGED overlapped
        /\ \A t \in Tasks : loop'[t].state = "unborn"
    BY <1>15 DEF Relaunch, NoLoop
  <2>2. \A t \in Tasks : task'[t].step \in {"idle", "done"}
    BY <1>15, FixedRecords DEF Relaunch, Busy
  <2>3. QED BY <2>1, <2>2 DEF SessionInv, Busy
<1>16. CASE UNCHANGED vars
  BY <1>16, OtherSession DEF vars
<1>17. QED
  BY NextCases, <1>1, <1>2, <1>3, <1>4, <1>5, <1>6, <1>7, <1>8, <1>9, <1>10,
     <1>11, <1>12, <1>13, <1>14, <1>15, <1>16

\* A session that ends has a reason to.
EndsForAReason ==
  (logged_in /\ ~ logged_in' /\ ~ overlapped)
  => ui' = "load" \/ kills' # kills \/ loop[session].state = "lost"

\* Of the steps that end a session only Tail needs the invariant: the task that
\* ends is the session's own, and its loop has not hung up.
LEMMA EndsStep ==
  ASSUME TypeInv, SessionInv, Next
  PROVE  EndsForAReason
<1>a. TypeOK
  BY DEF TypeInv
<1> USE DEF disk, window, shared, history
<1>1. ASSUME UNCHANGED logged_in PROVE EndsForAReason
  BY <1>1 DEF EndsForAReason
<1>2. ASSUME NEW t \in Tasks, NEW f \in Entries,
             StartSharing(t, f) \/ Connect(t, f) \/ LogIn(t, f)
      PROVE  EndsForAReason
  BY <1>1, <1>2 DEF StartSharing, Connect, LogIn, Spawn
<1>3. CASE LogOut
  BY <1>3 DEF LogOut, EndsForAReason
<1>4. CASE \/ request_dashboard_refresh \/ Enable \/ Disable
           \/ DisableUndeleted \/ ClearLoad \/ ClearWrite \/ SaveCredentials
           \/ MakeEntry \/ ClearCredentials \/ HostAutostart
  BY <1>1, <1>4 DEF request_dashboard_refresh, Enable, Disable,
       DisableUndeleted, Toggle, ClearLoad, ClearWrite, SaveCredentials,
       MakeEntry, ClearCredentials, HostAutostart
<1>5. ASSUME NEW t \in Tasks,
             \/ Authenticate(t) \/ AuthenticateFails(t) \/ LoadSettings(t)
             \/ SaveSettings(t) \/ ShowResult(t) \/ ForwardList(t)
             \/ LoopTakesPing(t) \/ LoopHangsUp(t) \/ LoopGetsList(t)
             \/ LoopGetsError(t) \/ LoopLosesConnection(t)
      PROVE  EndsForAReason
  BY <1>1, <1>5 DEF Authenticate, AuthenticateFails, LoadSettings,
       SaveSettings, ShowResult, ForwardList, LoopTakesPing, LoopHangsUp,
       LoopGetsList, LoopGetsError, LoopLosesConnection
<1>6. ASSUME NEW t \in Tasks, SetUp(t) PROVE EndsForAReason
  BY <1>6 DEF SetUp, EndsForAReason
<1>7. ASSUME NEW t \in Tasks, Tail(t) PROVE EndsForAReason
  <2> SUFFICES ASSUME logged_in, ~ overlapped PROVE loop[session].state = "lost"
    BY DEF EndsForAReason
  <2>1. task[t].step = "serve" /\ loop[t].state # "runs"
    BY <1>7 DEF Tail
  <2>2. session \in Tasks /\ task[session].step = "serve"
    BY DEF SessionInv
  <2>3. session = t
    BY <2>1, <2>2 DEF SessionInv, Busy
  <2>4. loop[t].state # "unborn" /\ loop[t].state # "hung_up"
    BY <2>1, <2>3 DEF SessionInv
  <2>5. loop[t].state \in {"unborn", "runs", "lost", "hung_up"}
    BY <1>a DEF TypeOK, LoopState
  <2>6. QED BY <2>1, <2>3, <2>4, <2>5
<1>8. CASE Relaunch
  <2>1. kills \in Nat /\ kills' = kills + 1
    BY <1>8, <1>a DEF Relaunch, TypeOK
  <2>2. QED BY <2>1 DEF EndsForAReason
<1>9. CASE UNCHANGED vars
  BY <1>1, <1>9 DEF vars
<1>10. QED
  BY NextCases, <1>2, <1>3, <1>4, <1>5, <1>6, <1>7, <1>8, <1>9

\* A session ends because its user logs out, its connection is lost or the
\* process ends (gui.rs:397-403), unless logins overlapped.
THEOREM SessionsEndForAReason == Spec => SessionEndsForAReason
<1>1. Init => SessionInv
  BY FixedRecords DEF Init, SessionInv, Busy, NoLoop
<1>2. TypeInv /\ SessionInv /\ [Next]_vars => [EndsForAReason]_vars
  BY EndsStep
<1>3. [][EndsForAReason]_vars <=> SessionEndsForAReason
  BY DEF EndsForAReason, SessionEndsForAReason
<1>4. QED BY <1>1, <1>2, <1>3, TypeInit, TypeStep, SessionStep, PTL DEF Spec

=============================================================================
