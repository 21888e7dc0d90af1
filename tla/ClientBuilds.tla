---------------------------- MODULE ClientBuilds ----------------------------
(***************************************************************************)
(* The client builds the server offers for download: fetching them from    *)
(* the latest GitHub release (release_fetch.rs), choosing between them and *)
(* the operator's own files (platforms.rs), the settings that an           *)
(* administrator saves for the clients (api/admin.rs), and downloads of a  *)
(* copy with these settings in its slot (api/download.rs).                 *)
(*                                                                         *)
(* A release is a number, later ones larger, and a build's contents are    *)
(* the number of the release it is from.  A file being written is apart    *)
(* from its name: writing a path truncates the file it names, renaming     *)
(* moves the name.  Fetches, downloads, saves and the operator interleave. *)
(***************************************************************************)
EXTENDS EmbeddedConfig, FiniteSets

CONSTANTS
  NPlatforms,   \* how many platforms PLATFORMS lists
  Fetches,      \* requests to fetch the latest release
  Downloads,    \* requests to download a client
  Saves,        \* requests to save the settings, each with values of its own
  Own,          \* the contents of the operator's own files
  Binary,       \* contents -> the bytes of such a build
  MaxParallel,  \* fetches in progress at a time
  MaxRelease    \* bound: releases published

ASSUME PlatformsAssumption == NPlatforms \in Nat \ {0}

ASSUME BoundsAssumption ==
  /\ MaxParallel \in Nat /\ MaxRelease \in Nat \ {0}
  /\ IsFiniteSet(Fetches)
  /\ None \notin Fetches \cup Saves \cup {Own}
  /\ Own \notin Int

\* A setting nobody has saved is None.
Configs == [server_url : Saves \cup {None}, device_name : Saves \cup {None}]

\* A released client has the static slot, and its marker nowhere before it,
\* although the code that looks for the marker mentions it as well.
ASSUME BinaryAssumption ==
  /\ DOMAIN Json = Configs
  /\ \A b \in 1 .. MaxRelease \cup {Own} : Binary[b] \in Seq(Nat)
  /\ \A n \in 1 .. MaxRelease :
       LET pos == find_subslice(Binary[n], CONFIG_MAGIC)
       IN /\ pos # None
          /\ SubSeq(Binary[n], pos + 1, pos + TOTAL_LEN) = build_marker_slot

\* PLATFORMS, in the order they are fetched.
Platforms == 1 .. NPlatforms

VARIABLES
  latest,    \* the latest release on GitHub
  manual,    \* platform -> the operator's file, or None
  data,      \* fetch, platform -> contents of the file that fetch created
  tmp,       \* platform -> the file named ".tmp" (by its fetch), or None
  fetched,   \* platform -> the file in fetched_templates_dir, or None
  version,   \* platform -> the client_version_ setting
  fetch,     \* locals of each fetch
  download,  \* locals of each download
  served,    \* download -> the bytes sent, None before and on an error
  settings,  \* the server_url and default_device_name settings
  save,      \* where each save is
  mixed,     \* history: of the latest saves one wrote one of the two only, or
             \* they overlapped, and none has been undisturbed since
  cut        \* history: the platforms whose latest rename was not followed by
             \* the version

admin == <<settings, save, mixed>>
page  == <<served, admin>>
vars  == <<latest, manual, data, tmp, fetched, version, fetch, download, cut, page>>

Torn     == 0
Releases == 1 .. MaxRelease

\* file: the file the fetch writes.  dropped: its client has gone, and only
\* the write in progress goes on.
FetchState ==
  [step : {"idle", "download", "open", "write", "rename", "version", "done"},
   tag : Releases \cup {None}, platform : 0 .. NPlatforms,
   file : Fetches \cup {None}, dropped : BOOLEAN]

\* raced: the settings were being saved, or mixed, when they were read.
\* unread: one of them could not be read.  Both are history.
DownloadState ==
  [step : {"idle", "read", "url", "name", "patch", "done"},
   platform : Platforms \cup {None}, source : {"manual", "fetched", None},
   contents : Releases \cup {Own, Torn, None},
   config : Configs, raced : BOOLEAN, unread : BOOLEAN]

NoConfig == [server_url |-> None, device_name |-> None]

Init ==
  /\ latest = 1
  /\ manual = [p \in Platforms |-> None]
  /\ data = [f \in Fetches |-> [p \in Platforms |-> None]]
  /\ tmp = [p \in Platforms |-> None]
  /\ fetched = [p \in Platforms |-> None]
  /\ version = [p \in Platforms |-> None]
  /\ fetch = [f \in Fetches |-> [step |-> "idle", tag |-> None, platform |-> 0,
                                 file |-> None, dropped |-> FALSE]]
  /\ download = [d \in Downloads |-> [step |-> "idle", platform |-> None,
                                      source |-> None, contents |-> None,
                                      config |-> NoConfig, raced |-> FALSE,
                                      unread |-> FALSE]]
  /\ served = [d \in Downloads |-> None]
  /\ settings = NoConfig /\ save = [s \in Saves |-> "idle"] /\ mixed = FALSE
  /\ cut = {}

\* What the file of platform p in fetched_templates_dir holds.
Build(p) == IF fetched[p] = None THEN None ELSE data[fetched[p]][p]

-----------------------------------------------------------------------------
(* Outside the server. *)

Publish ==
  /\ latest < MaxRelease
  /\ latest' = latest + 1
  /\ UNCHANGED <<manual, data, tmp, fetched, version, fetch, download, cut, page>>

\* The operator places a build of their own, or removes it.
PlaceManual(p) ==
  /\ manual' = [manual EXCEPT ![p] = IF @ = None THEN Own ELSE None]
  /\ UNCHANGED <<latest, data, tmp, fetched, version, fetch, download, cut, page>>

-----------------------------------------------------------------------------
(* fetch_and_store: one platform after the other. *)

At(f, step) == fetch[f].step = step
P(f)        == fetch[f].platform

Active(f) == fetch[f].step \notin {"idle", "done"}

Step(f, step) == fetch' = [fetch EXCEPT ![f].step = step]

\* The platform is dealt with, whether it was stored or failed: the next one.
NextPlatform(f) ==
  fetch' = [fetch EXCEPT ![f] =
    IF P(f) + 1 \in Platforms
    THEN [@ EXCEPT !.step = "download", !.platform = P(f) + 1, !.file = None]
    ELSE [@ EXCEPT !.step = "done"]]

\* Mutant: some release is taken, not the latest.
BeginFetchAny(f) ==
  /\ At(f, "idle")
  /\ Cardinality({g \in Fetches : Active(g)}) < MaxParallel
  /\ \E tag \in 1 .. latest :
       fetch' = [fetch EXCEPT ![f] = [@ EXCEPT !.step = "download", !.tag = tag,
                                               !.platform = 1]]
  /\ UNCHANGED <<latest, manual, data, tmp, fetched, version, download, cut, page>>

\* fetch_latest_release; when it fails nothing else happens.
BeginFetch(f) ==
  /\ At(f, "idle")
  /\ Cardinality({g \in Fetches : Active(g)}) < MaxParallel
  /\ fetch' = [fetch EXCEPT ![f] = [@ EXCEPT !.step = "download",
                                             !.tag = latest, !.platform = 1]]
  /\ UNCHANGED <<latest, manual, data, tmp, fetched, version, download, cut, page>>

\* The asset is found and downloaded, or it is missing, fails or cannot be
\* stored.
DownloadAsset(f) ==
  /\ At(f, "download")
  /\ Step(f, "open") \/ NextPlatform(f)
  /\ UNCHANGED <<latest, manual, data, tmp, fetched, version, download, cut, page>>

\* Mutant: the build is written in its place.
OpenInPlace(f) ==
  LET p == P(f)
      g == IF fetched[p] = None THEN f ELSE fetched[p] IN
  /\ At(f, "open")
  /\ fetched' = [fetched EXCEPT ![p] = g]
  /\ data' = [data EXCEPT ![g][p] = Torn]
  /\ fetch' = [fetch EXCEPT ![f] = [@ EXCEPT !.step = "write", !.file = g]]
  /\ UNCHANGED <<latest, manual, tmp, version, download, cut, page>>

\* fs::write of the ".tmp" path, its first half: an existing file is
\* truncated, or a new one made.
OpenTmp(f) ==
  LET p == P(f)
      g == IF tmp[p] = None THEN f ELSE tmp[p] IN
  /\ At(f, "open")
  /\ tmp' = [tmp EXCEPT ![p] = g]
  /\ data' = [data EXCEPT ![g][p] = Torn]
  /\ fetch' = [fetch EXCEPT ![f] = [@ EXCEPT !.step = "write", !.file = g]]
  /\ UNCHANGED <<latest, manual, fetched, version, download, cut, page>>

\* Its second half, to the file opened, whatever its name is by now.  Over
\* what another fetch wrote meanwhile the result may be a mixture.
WriteTmp(f) ==
  LET p == P(f)
      g == fetch[f].file IN
  /\ At(f, "write")
  /\ \/ data' = [data EXCEPT ![g][p] = fetch[f].tag]
     \/ /\ data[g][p] \notin {Torn, fetch[f].tag}
        /\ data' = [data EXCEPT ![g][p] = Torn]
  /\ Step(f, IF fetch[f].dropped THEN "done" ELSE "rename")
  /\ UNCHANGED <<latest, manual, tmp, fetched, version, download, cut, page>>

\* The disk is full, say.
WriteTmpFails(f) ==
  /\ At(f, "write")
  /\ IF fetch[f].dropped THEN Step(f, "done") ELSE NextPlatform(f)
  /\ UNCHANGED <<latest, manual, data, tmp, fetched, version, download, cut, page>>

\* Mutant: the new file is left beside the old one.
RenameForgotten(f) ==
  /\ At(f, "rename")
  /\ Step(f, "version")
  /\ UNCHANGED <<latest, manual, data, tmp, fetched, version, download, cut, page>>

Rename(f) ==
  LET p == P(f) IN
  /\ At(f, "rename")
  /\ tmp[p] # None
  /\ fetched' = [fetched EXCEPT ![p] = tmp[p]]
  /\ tmp' = [tmp EXCEPT ![p] = None]
  /\ Step(f, "version")
  /\ UNCHANGED <<latest, manual, data, version, download, cut, page>>

\* There is no ".tmp" (another fetch renamed it), or it cannot be renamed.
RenameFails(f) ==
  /\ At(f, "rename")
  /\ NextPlatform(f)
  /\ UNCHANGED <<latest, manual, data, tmp, fetched, version, download, cut, page>>

\* set_setting of the version; the time of the fetch is left out.
SetVersion(f) ==
  /\ At(f, "version")
  /\ version' = [version EXCEPT ![P(f)] = fetch[f].tag]
  /\ cut' = cut \ {P(f)}
  /\ NextPlatform(f)
  /\ UNCHANGED <<latest, manual, data, tmp, fetched, download, page>>

\* The version cannot be stored: the new file stays, under the old version.
SetVersionFails(f) ==
  /\ At(f, "version")
  /\ cut' = cut \cup {P(f)}
  /\ NextPlatform(f)
  /\ UNCHANGED <<latest, manual, data, tmp, fetched, version, download, page>>

\* The platform whose version is lost when fetch f ends where it is.
CutWith(f) == IF At(f, "version") THEN {P(f)} ELSE {}

\* The administrator's browser goes away: the request ends where it waits,
\* except that a write in progress is carried through.
AbandonFetch(f) ==
  /\ Active(f) /\ ~fetch[f].dropped
  /\ fetch' = IF At(f, "write") THEN [fetch EXCEPT ![f].dropped = TRUE]
                                ELSE [fetch EXCEPT ![f].step = "done"]
  /\ cut' = cut \cup CutWith(f)
  /\ UNCHANGED <<latest, manual, data, tmp, fetched, version, download, page>>

\* Names, files and settings stay; fetches and downloads end where they are.
Restart ==
  /\ cut' = cut \cup UNION {CutWith(f) : f \in Fetches}
  /\ fetch' = [f \in Fetches |-> IF Active(f) THEN [fetch[f] EXCEPT
                                                     !.step = "done"]
                                              ELSE fetch[f]]
  /\ download' = [d \in Downloads |->
                    IF download[d].step \notin {"idle", "done"}
                    THEN [download[d] EXCEPT !.step = "done",
                                             !.contents = None,
                                             !.config = NoConfig]
                    ELSE download[d]]
  /\ save' = [s \in Saves |-> IF save[s] = "name" THEN "done" ELSE save[s]]
  /\ mixed' = (mixed \/ \E s \in Saves : save[s] = "name")
  /\ UNCHANGED <<latest, manual, data, tmp, fetched, version, served, settings>>

-----------------------------------------------------------------------------
(* download_platform. *)

DownloadOnly ==
  UNCHANGED <<latest, manual, data, tmp, fetched, version, fetch, cut, admin>>

\* resolve_template_path: the operator's file wins; without any, not found.
resolve_template_path(p) ==
  IF manual[p] # None THEN "manual"
  ELSE IF fetched[p] # None THEN "fetched" ELSE None

BeginDownload(d, p) ==
  /\ download[d].step = "idle"
  /\ resolve_template_path(p) # None
  /\ download' = [download EXCEPT ![d] =
                    [@ EXCEPT !.step = "read", !.platform = p,
                              !.source = resolve_template_path(p)]]
  /\ DownloadOnly /\ UNCHANGED served

\* The path is opened again: a manual file removed meanwhile is not found, and
\* one that is there may be unreadable.  It is not used any more after that.
ReadTemplate(d) ==
  LET p == download[d].platform
      file == IF download[d].source = "manual" THEN manual[p] ELSE Build(p) IN
  /\ download[d].step = "read"
  /\ \E contents \in {file, None} :
       download' = [download EXCEPT ![d] =
                      [@ EXCEPT !.step = IF contents = None THEN "done" ELSE "url",
                                !.contents = contents,
                                !.platform = None, !.source = None]]
  /\ DownloadOnly /\ UNCHANGED served

\* A save is between its two statements.
SaveInProgress == \E s \in Saves : save[s] = "name"

\* An error is taken for a setting that is not there.
ReadServerUrl(d) ==
  /\ download[d].step = "url"
  /\ \E url \in {settings.server_url, None} :
       download' = [download EXCEPT ![d] =
         [@ EXCEPT !.step = "name", !.config.server_url = url,
                   !.raced = SaveInProgress \/ mixed,
                   !.unread = url # settings.server_url]]
  /\ DownloadOnly /\ UNCHANGED served

ReadDeviceName(d) ==
  /\ download[d].step = "name"
  /\ \E name \in {settings.device_name, None} :
       download' = [download EXCEPT ![d] =
         [@ EXCEPT !.step = "patch", !.config.device_name = name,
                   !.raced = \/ download[d].raced \/ SaveInProgress \/ mixed
                             \/ /\ settings.server_url
                                     # download[d].config.server_url
                                /\ ~download[d].unread,
                   !.unread = \/ download[d].unread
                              \/ name # settings.device_name]]
  /\ DownloadOnly /\ UNCHANGED served

\* The bytes of a build; of a torn file some part.
Bytes(contents) ==
  IF contents = Torn THEN {SubSeq(Binary[1], 1, n) : n \in 0 .. Len(Binary[1])}
                     ELSE {Binary[contents]}

\* The answer is the patched copy, or an error.
PatchBinary(d) ==
  /\ download[d].step = "patch"
  /\ \E template \in Bytes(download[d].contents) :
       served' = [served EXCEPT ![d] =
                    patch_binary(download[d].config, template)]
  /\ download' = [download EXCEPT ![d].step = "done"]
  /\ DownloadOnly

-----------------------------------------------------------------------------
(* save_settings: two statements, whose errors are ignored. *)

SaveOnly ==
  UNCHANGED <<latest, manual, data, tmp, fetched, version, fetch, download, cut, served>>

SaveServerUrl(s) ==
  /\ save[s] = "idle"
  /\ save' = [save EXCEPT ![s] = "name"]
  /\ \/ /\ settings' = [settings EXCEPT !.server_url = s]
        /\ mixed' = SaveInProgress
     \/ mixed' = TRUE /\ UNCHANGED settings
  /\ SaveOnly

\* Mutant: the second statement has the first one's key.
SaveDeviceNameWrongKey(s) ==
  /\ save[s] = "name"
  /\ save' = [save EXCEPT ![s] = "done"]
  /\ settings' = [settings EXCEPT !.server_url = s]
  /\ UNCHANGED mixed
  /\ SaveOnly

SaveDeviceName(s) ==
  /\ save[s] = "name"
  /\ save' = [save EXCEPT ![s] = "done"]
  /\ \/ /\ settings' = [settings EXCEPT !.device_name = s]
        /\ UNCHANGED mixed
     \/ mixed' = TRUE /\ UNCHANGED settings
  /\ SaveOnly

\* The administrator's browser goes away between the two.
AbandonSave(s) ==
  /\ save[s] = "name"
  /\ save' = [save EXCEPT ![s] = "done"]
  /\ mixed' = TRUE
  /\ UNCHANGED settings
  /\ SaveOnly

-----------------------------------------------------------------------------

FetchStep(f) ==
  \/ BeginFetch(f)
  \/ DownloadAsset(f)
  \/ OpenTmp(f)
  \/ WriteTmp(f)
  \/ WriteTmpFails(f)
  \/ Rename(f) \/ RenameFails(f)
  \/ SetVersion(f) \/ SetVersionFails(f)
  \/ AbandonFetch(f)

DownloadStep(d) ==
  \/ \E p \in Platforms : BeginDownload(d, p)
  \/ ReadTemplate(d)
  \/ ReadServerUrl(d) \/ ReadDeviceName(d)
  \/ PatchBinary(d)

SaveStep(s) == SaveServerUrl(s) \/ SaveDeviceName(s) \/ AbandonSave(s)

Next ==
  \/ Publish
  \/ \E p \in Platforms : PlaceManual(p)
  \/ \E f \in Fetches : FetchStep(f)
  \/ \E d \in Downloads : DownloadStep(d)
  \/ \E s \in Saves : SaveStep(s)
  \/ Restart

Spec == Init /\ [][Next]_vars

-----------------------------------------------------------------------------
(* Properties. *)

\* The type invariant.
TypeOK ==
  /\ latest \in Releases
  /\ manual \in [Platforms -> {Own, None}]
  /\ data \in [Fetches -> [Platforms -> Releases \cup {Torn, None}]]
  /\ tmp \in [Platforms -> Fetches \cup {None}]
  /\ fetched \in [Platforms -> Fetches \cup {None}]
  /\ version \in [Platforms -> Releases \cup {None}]
  /\ fetch \in [Fetches -> FetchState]
  /\ download \in [Downloads -> DownloadState]
  /\ served \in [Downloads -> Seq(Nat) \cup {None}]
  /\ settings \in Configs /\ mixed \in BOOLEAN
  /\ save \in [Saves -> {"idle", "name", "done"}]
  /\ cut \subseteq Platforms

\* The file offered for a platform is whole at any time, while a fetch
\* replaces it and after a fetch was cut short anywhere (release_fetch.rs:52:
\* "atomically, via a `.tmp` file + rename").
TemplateWhole == \A p \in Platforms : Build(p) # Torn

\* A download delivers a whole build, although the file may be replaced
\* between choosing and reading it (download.rs:98-109): the client is the
\* template but for the slot, and reads its configuration back from it, also
\* when that fills the slot (embedded_config.rs:49).
ServedIsConfigured ==
  \A d \in Downloads : served[d] # None =>
    LET template == Binary[download[d].contents]
        pos      == find_subslice(template, CONFIG_MAGIC)
    IN /\ download[d].contents # Torn
       /\ find_in_binary(served[d]) = download[d].config
       /\ Len(served[d]) = Len(template)
       /\ \A i \in DOMAIN template \ (pos + 1 .. pos + TOTAL_LEN) :
            served[d][i] = template[i]

\* The URL and the name in a client were saved together (admin.rs:54,
\* download.rs:108), or one could not be read and is missing, whatever saves
\* failed, overlapped or were cut short before the last undisturbed one; unless
\* a save was under way while they were read or no undisturbed one had followed.
SettingsServedTogether ==
  \A d \in Downloads :
    LET config == download[d].config IN
    (download[d].step = "patch" /\ ~download[d].raced)
    => \/ config.server_url = config.device_name
       \/ /\ download[d].unread
          /\ None \in {config.server_url, config.device_name}

\* The version shown for a platform is that of the file offered
\* (release_fetch.rs:94-106), unless a fetch is at work on the platform, or the
\* last one to replace the file was cut short before it stored the version, or
\* failed to: the next that stores it sets this right.
VersionMatches ==
  \A p \in Platforms :
    (p \notin cut /\ \A f \in Fetches : ~(Active(f) /\ P(f) = p))
    => version[p] = Build(p)

\* One fetch at a time never replaces a build by an older one
\* (release_fetch.rs:36-66).
NeverDowngrades ==
  [][\A p \in Platforms : Build(p) \in Releases =>
       Build(p)' \in Releases /\ Build(p)' >= Build(p)]_vars

=============================================================================
