---------------------------- MODULE FileTransfer ----------------------------
(***************************************************************************)
(* Sending files from the controller to the host (file_transfer.rs).  The  *)
(* controller spawns one send_file task per dropped file (gui.rs), all of  *)
(* which share the one reliable, ordered data channel; the host's          *)
(* FileReceiver handles the messages one at a time in the order they       *)
(* arrive (host.rs).                                                       *)
(*                                                                         *)
(* A file is a sequence of chunks, a chunk is the pair of its task and its *)
(* number.  The destination directory is changed by the receiver only.     *)
(***************************************************************************)
EXTENDS Naturals, Sequences, FiniteSets

CONSTANTS
  Tasks,        \* dropped files; also their transfer ids (a UUID each)
  Names,        \* file names
  Paths,        \* paths in the destination directory
  Candidates,   \* name -> the paths unique_destination_path tries, in order:
                \* the name itself, then "stem (1).ext" up to a fixed limit
  Existing,     \* paths that exist when the session starts
  MaxChunks,    \* bound: chunks of a file
  MaxFailures,  \* bound: failures of file operations on the host
  None          \* no file, no entry

ASSUME CandidatesAssumption ==
  /\ Candidates \in [Names -> Seq(Paths)]
  /\ \A n \in Names : Candidates[n] # << >>

ASSUME FilesAssumption ==
  /\ Existing \subseteq Paths
  /\ None \notin Names \cup Paths \cup Tasks
  /\ MaxChunks \in Nat
  /\ MaxFailures \in Nat

VARIABLES
  pc,           \* where each send_file task is
  file,         \* name and number of chunks of each dropped file
  next,         \* the chunk a task sends next
  dc,           \* the data channel: connecting, open or closed
  channel,      \* messages sent and not yet handled
  in_progress,  \* FileReceiver.in_progress: transfer id -> path and position
  files,        \* path -> contents, or None
  received,     \* transfers reported as received, with their paths
  failed,       \* history: transfers of which a file operation failed
  failures      \* how many file operations failed

sender   == <<pc, file, next>>
receiver == <<in_progress, files, received, failed, failures>>
vars     == <<sender, dc, channel, receiver>>

Msg(type, t, n) == [type |-> type, id |-> t, seq |-> n]

\* What a path may hold: chunks, a piece of one, bytes never written (a hole),
\* and whatever was in the directory before.
Partial == <<None, 1>>
Hole    == <<None, 2>>
User    == <<None, 3>>
Pieces  == (Tasks \X (1 .. MaxChunks)) \cup {Partial, Hole, User}

ASSUME NoneAssumption ==
  None \notin [name : Names, size : Nat] \cup [path : Paths, pos : Nat]
                \cup Seq(Pieces)

\* Whatever paths the other transfers took beside what exists, a candidate of each
\* name is free.  The code has 10,000 candidates for a name; past them it takes
\* the name itself and overwrites what is there.
EnoughCandidates ==
  /\ IsFiniteSet(Tasks)
  /\ \A n \in Names, S \in SUBSET Paths :
       (IsFiniteSet(S) /\ Cardinality(S) < Cardinality(Tasks)) =>
         \E i \in DOMAIN Candidates[n] : Candidates[n][i] \notin Existing \cup S

Init ==
  /\ pc = [t \in Tasks |-> "idle"]
  /\ file = [t \in Tasks |-> None]
  /\ next = [t \in Tasks |-> 1]
  /\ dc = "connecting"
  /\ channel = << >>
  /\ in_progress = [t \in Tasks |-> None]
  /\ files = [p \in Paths |-> IF p \in Existing THEN <<User>> ELSE None]
  /\ received = {}
  /\ failed = {}
  /\ failures = 0

-----------------------------------------------------------------------------
(* The data channel. *)

ChannelOpens ==
  /\ dc = "connecting"
  /\ dc' = "open"
  /\ UNCHANGED <<sender, channel, receiver>>

\* The peer connection fails or a peer leaves; what is under way is lost.
ChannelCloses ==
  /\ dc = "open"
  /\ dc' = "closed"
  /\ channel' = << >>
  /\ UNCHANGED <<sender, receiver>>

\* send: refused unless the channel is open, and then the task ends.
Send(t, m, step) ==
  /\ IF dc = "open"
     THEN channel' = Append(channel, m) /\ pc' = [pc EXCEPT ![t] = step]
     ELSE pc' = [pc EXCEPT ![t] = "error"] /\ UNCHANGED channel
  /\ UNCHANGED <<file, dc, receiver>>

-----------------------------------------------------------------------------
(* The controller: send_file. *)

\* The user drops a file; it is read whole before anything is sent.
Drop(t, n, size) ==
  /\ pc[t] = "idle"
  /\ pc' = [pc EXCEPT ![t] = "offer"]
  /\ file' = [file EXCEPT ![t] = [name |-> n, size |-> size]]
  /\ UNCHANGED <<next, dc, channel, receiver>>

\* The file has been read; one that cannot be read is never offered, which is a
\* file nobody dropped.
SendOffer(t) ==
  /\ pc[t] = "offer"
  /\ Send(t, Msg("Offer", t, 0), "chunks")
  /\ UNCHANGED next

SendChunk(t) ==
  /\ pc[t] = "chunks"
  /\ next[t] <= file[t].size
  /\ next' = [next EXCEPT ![t] = @ + 1]
  /\ Send(t, Msg("Chunk", t, next[t]), "chunks")

SendComplete(t) ==
  /\ pc[t] = "chunks"
  /\ next[t] > file[t].size
  /\ Send(t, Msg("Complete", t, 0), "sent")
  /\ UNCHANGED next

-----------------------------------------------------------------------------
(* The host: FileReceiver. *)

\* Mutant: the name is taken as it is.
AnyDestinationPath(name) == Head(Candidates[name])

\* The first candidate that does not exist; the name itself when all do.
unique_destination_path(name) ==
  LET c    == Candidates[name]
      free == {i \in DOMAIN c : files[c[i]] = None}
  IN  IF free = {} THEN Head(c)
                   ELSE c[CHOOSE i \in free : \A j \in free : i <= j]

Takes(type) == channel # << >> /\ Head(channel).type = type
Id          == Head(channel).id
Taken       == channel' = Tail(channel) /\ UNCHANGED <<sender, dc>>

\* A file operation fails: handle returns the error, which is only logged.
OperationFails ==
  /\ failures < MaxFailures
  /\ failures' = failures + 1
  /\ failed' = failed \cup {Id}

\* File::create makes an empty file, or empties the one that is there.
HandleOffer ==
  LET p == unique_destination_path(file[Id].name) IN
  /\ Takes("Offer")
  /\ files' = [files EXCEPT ![p] = << >>]
  /\ in_progress' = [in_progress EXCEPT ![Id] = [path |-> p, pos |-> 0]]
  /\ Taken
  /\ UNCHANGED <<received, failed, failures>>

HandleOfferFails ==
  /\ Takes("Offer")
  /\ OperationFails
  /\ Taken
  /\ UNCHANGED <<in_progress, files, received>>

\* A write through a handle that stands at pos.
WriteAt(contents, pos, piece) ==
  [i \in 1 .. (IF Len(contents) > pos THEN Len(contents) ELSE pos + 1) |->
     IF i = pos + 1 THEN piece
     ELSE IF i <= Len(contents) THEN contents[i] ELSE Hole]

Write(piece) ==
  LET e == in_progress[Id] IN
  /\ files' = [files EXCEPT ![e.path] = WriteAt(@, e.pos, piece)]
  /\ in_progress' = [in_progress EXCEPT ![Id].pos = @ + 1]

\* Mutant: the chunk goes to the transfer that was opened last.
HandleChunkOfLatest ==
  LET open == {t \in Tasks : in_progress[t] # None} IN
  /\ Takes("Chunk")
  /\ IF open = {}
     THEN UNCHANGED <<files, in_progress>>
     ELSE LET u == CHOOSE t \in open : TRUE IN
          /\ files' = [files EXCEPT ![in_progress[u].path] =
               WriteAt(@, in_progress[u].pos, <<Id, Head(channel).seq>>)]
          /\ in_progress' = [in_progress EXCEPT ![u].pos = @ + 1]
  /\ Taken
  /\ UNCHANGED <<received, failed, failures>>

\* A chunk of a transfer without an entry is dropped.
HandleChunk ==
  /\ Takes("Chunk")
  /\ IF in_progress[Id] # None
     THEN Write(<<Id, Head(channel).seq>>)
     ELSE UNCHANGED <<files, in_progress>>
  /\ Taken
  /\ UNCHANGED <<received, failed, failures>>

\* The disk is full, say: nothing or part of the chunk is written, and the
\* entry stays.
HandleChunkFails ==
  /\ Takes("Chunk")
  /\ in_progress[Id] # None
  /\ Write(Partial) \/ UNCHANGED <<files, in_progress>>
  /\ OperationFails
  /\ Taken
  /\ UNCHANGED received

\* Mutant: a transfer that wrote nothing is not finished.
HandleCompleteNonEmpty ==
  /\ Takes("Complete")
  /\ IF in_progress[Id] # None /\ in_progress[Id].pos > 0
     THEN /\ received' = received \cup {<<Id, in_progress[Id].path>>}
          /\ in_progress' = [in_progress EXCEPT ![Id] = None]
     ELSE UNCHANGED <<received, in_progress>>
  /\ Taken
  /\ UNCHANGED <<files, failed, failures>>

HandleComplete ==
  /\ Takes("Complete")
  /\ IF in_progress[Id] # None
     THEN /\ received' = received \cup {<<Id, in_progress[Id].path>>}
          /\ in_progress' = [in_progress EXCEPT ![Id] = None]
     ELSE UNCHANGED <<received, in_progress>>
  /\ Taken
  /\ UNCHANGED <<files, failed, failures>>

-----------------------------------------------------------------------------

SenderStep(t) == SendOffer(t) \/ SendChunk(t) \/ SendComplete(t)

\* What the host does with a message.
ReceiverStep ==
  \/ HandleOffer
  \/ HandleOfferFails
  \/ HandleChunk
  \/ HandleChunkFails
  \/ HandleComplete

\* Bound: every file of Tasks has been dropped and dealt with.
NothingLeft ==
  /\ \A t \in Tasks : pc[t] \in {"sent", "error"}
  /\ dc = "closed"
  /\ UNCHANGED vars

Next ==
  \/ \E t \in Tasks, n \in Names, size \in 0 .. MaxChunks : Drop(t, n, size)
  \/ \E t \in Tasks : SenderStep(t)
  \/ ReceiverStep
  \/ ChannelOpens
  \/ ChannelCloses
  \/ NothingLeft

Spec == Init /\ [][Next]_vars

\* Tasks and the handler of an open channel run; nobody has to drop a file.
FairSpec ==
  Spec /\ (\A t \in Tasks : WF_vars(SenderStep(t))) /\ WF_vars(ReceiverStep)

-----------------------------------------------------------------------------
(* Properties. *)

\* The type invariant.
TypeOK ==
  /\ pc \in [Tasks -> {"idle", "offer", "chunks", "sent", "error"}]
  /\ file \in [Tasks -> [name : Names, size : 0 .. MaxChunks] \cup {None}]
  /\ next \in [Tasks -> 1 .. MaxChunks + 1]
  /\ dc \in {"connecting", "open", "closed"}
  /\ channel \in Seq([type : {"Offer", "Chunk", "Complete"}, id : Tasks,
                      seq : 0 .. MaxChunks])
  /\ in_progress \in [Tasks -> [path : Paths, pos : 0 .. MaxChunks]
                                 \cup {None}]
  /\ files \in [Paths -> Seq(Pieces) \cup {None}]
  /\ received \subseteq Tasks \X Paths
  /\ failed \subseteq Tasks
  /\ failures \in 0 .. MaxFailures

\* A file reported as received holds exactly the chunks of the dropped file,
\* each once and in order, however the transfers of several files interleave
\* on the channel (file_transfer.rs:40-52, 80-97), unless an operation of this
\* very transfer failed on the host: then it is reported all the same.
ReceivedIsWhole ==
  \A r \in received :
    r[1] \notin failed =>
      files[r[2]] = [i \in 1 .. file[r[1]].size |-> <<r[1], i>>]

\* What file_transfer.rs:110 says of unique_destination_path: "Avoids
\* clobbering an existing file of the same name.": what a path holds is only
\* ever added to, by the transfer in progress there.
NoClobber ==
  [][\A p \in Paths :
       (files[p] # None /\ files'[p] # files[p]) =>
         /\ \E t \in Tasks : in_progress[t] # None /\ in_progress[t].path = p
         /\ Len(files'[p]) > Len(files[p])
         /\ SubSeq(files'[p], 1, Len(files[p])) = files[p]]_vars

\* A dropped file is received in the end, whatever its size (an empty file has
\* no chunk) and the other files under way, unless its task fails, the channel
\* goes or an operation on the host fails (file_transfer.rs:22-54, 88-93).
FilesArrive ==
  \A t \in Tasks :
    (pc[t] = "offer")
    ~> (\/ \E r \in received : r[1] = t
        \/ pc[t] = "error" \/ dc = "closed" \/ t \in failed)

=============================================================================
