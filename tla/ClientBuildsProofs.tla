------------------------- MODULE ClientBuildsProofs -------------------------
(***************************************************************************)
(* Proofs about modules EmbeddedConfig and ClientBuilds, for any marker,   *)
(* slot size, JSON encoding, binaries, platforms, requests and releases.   *)
(***************************************************************************)
EXTENDS ClientBuilds, FiniteSetTheorems, SequenceTheorems,
        WellFoundedInduction, TLAPS

-----------------------------------------------------------------------------
(* The slot of a binary. *)

\* A set of naturals has a least element.
LEMMA MinIsLeast ==
  ASSUME NEW T \in SUBSET Nat, T # {}
  PROVE  Min(T) \in T /\ \A y \in T : Min(T) <= y
<1>1. IsWellFoundedOn(OpToRel(<, Nat), Nat)
  BY NatLessThanWellFounded
<1>2. \E x \in T : \A y \in T : ~ (<<y, x>> \in OpToRel(<, Nat))
  BY <1>1, WFMin
<1>3. \E x \in T : \A y \in T : ~ (y < x)
  BY <1>2 DEF OpToRel
<1>4. \E x \in T : \A y \in T : x <= y
  BY <1>3
<1>5. QED BY <1>4 DEF Min

\* The marker is at offset i of the bytes h.
MarkerAt(h, i) ==
  /\ i \in 0 .. Len(h) - Len(CONFIG_MAGIC)
  /\ \A k \in 1 .. Len(CONFIG_MAGIC) : h[i + k] = CONFIG_MAGIC[k]

LEMMA MarkerIsSubSeq ==
  ASSUME NEW h \in Seq(Nat), NEW i \in 0 .. Len(h) - Len(CONFIG_MAGIC)
  PROVE  SubSeq(h, i + 1, i + Len(CONFIG_MAGIC)) = CONFIG_MAGIC
           <=> MarkerAt(h, i)
<1> DEFINE m == CONFIG_MAGIC
           s == SubSeq(h, i + 1, i + Len(m))
<1>1. m \in Seq(Nat) /\ Len(m) \in Nat /\ Len(h) \in Nat
  BY SlotAssumption
<1>2. /\ s \in Seq(Nat) /\ Len(s) = Len(m)
      /\ \A k \in 1 .. Len(m) : s[k] = h[i + k]
  BY <1>1, SubSeqProperties
<1> HIDE DEF m, s
<1>3. s = m <=> \A k \in 1 .. Len(m) : s[k] = m[k]
  BY <1>1, <1>2, SeqEqual
<1>4. QED BY <1>2, <1>3 DEF MarkerAt, m, s

\* find_subslice finds the first marker.
LEMMA FindsFirstMarker ==
  ASSUME NEW h \in Seq(Nat)
  PROVE  LET pos == find_subslice(h, CONFIG_MAGIC) IN
         /\ pos = None => \A i \in Nat : ~ MarkerAt(h, i)
         /\ pos # None =>
              pos \in Nat /\ MarkerAt(h, pos)
                /\ \A i \in 0 .. pos - 1 : ~ MarkerAt(h, i)
<1> DEFINE at == {i \in 0 .. Len(h) - Len(CONFIG_MAGIC) :
                    SubSeq(h, i + 1, i + Len(CONFIG_MAGIC)) = CONFIG_MAGIC}
           pos == find_subslice(h, CONFIG_MAGIC)
<1>1. Len(h) \in Nat /\ Len(CONFIG_MAGIC) \in Nat
  BY SlotAssumption
<1>2. \A i \in Nat : i \in at <=> MarkerAt(h, i)
  BY <1>1, MarkerIsSubSeq DEF MarkerAt
<1>3. at \in SUBSET Nat
  BY <1>1
<1>4. pos = IF at = {} THEN None ELSE Min(at)
  BY DEF find_subslice
<1> HIDE DEF at, pos
<1>5. CASE at = {}
  BY <1>2, <1>4, <1>5 DEF pos
<1>6. CASE at # {}
  <2>1. Min(at) \in at /\ \A i \in at : Min(at) <= i
    BY <1>3, <1>6, MinIsLeast
  <2>2. pos \in Nat /\ pos \in at /\ \A i \in at : pos <= i
    BY <1>3, <1>4, <1>6, <2>1
  <2>3. pos # None
    BY <2>2, JsonAssumption
  <2>4. QED BY <1>2, <2>2, <2>3 DEF pos
<1>7. QED BY <1>5, <1>6

\* The slot of a configuration that fits holds that configuration.
LEMMA SlotRoundTrip ==
  ASSUME NEW c \in DOMAIN Json, Len(Json[c]) <= CONFIG_SLOT_SIZE
  PROVE  /\ to_slot_bytes(c) \in Seq(Nat)
         /\ Len(to_slot_bytes(c)) = CONFIG_SLOT_SIZE
         /\ from_slot_bytes(to_slot_bytes(c)) = c
<1> DEFINE json == Json[c]
           n == Len(json)
           pad == Zeros(CONFIG_SLOT_SIZE - n)
           slot == to_slot_bytes(c)
           zeros == {i \in 1 .. Len(slot) : slot[i] = 0}
           last == IF zeros = {} THEN Len(slot) ELSE Min(zeros) - 1
           text == SubSeq(slot, 1, last)
<1>1. /\ json \in Seq(Nat \ {0}) /\ json \in Seq(Nat) /\ n \in Nat
      /\ \A i \in 1 .. n : json[i] # 0
      /\ CONFIG_SLOT_SIZE \in Nat /\ n <= CONFIG_SLOT_SIZE
  BY JsonAssumption, SlotAssumption
<1>2. /\ pad \in Seq(Nat) /\ Len(pad) = CONFIG_SLOT_SIZE - n
      /\ \A i \in 1 .. CONFIG_SLOT_SIZE - n : pad[i] = 0
  BY <1>1 DEF Zeros
<1>3. slot = json \o pad
  BY <1>1 DEF to_slot_bytes
<1> HIDE DEF json, slot, pad
<1>4. /\ slot \in Seq(Nat) /\ Len(slot) = CONFIG_SLOT_SIZE
      /\ \A i \in 1 .. n : slot[i] = json[i]
      /\ \A i \in n + 1 .. CONFIG_SLOT_SIZE : slot[i] = 0
  <2>1. /\ slot \in Seq(Nat) /\ Len(slot) = n + Len(pad)
        /\ \A i \in 1 .. n + Len(pad) :
             slot[i] = IF i <= n THEN json[i] ELSE pad[i - n]
    BY <1>1, <1>2, <1>3, ConcatProperties
  <2> HIDE DEF n
  <2>2. \A i \in 1 .. n : slot[i] = json[i]
    BY <1>1, <1>2, <2>1
  <2>3. ASSUME NEW i \in n + 1 .. CONFIG_SLOT_SIZE PROVE slot[i] = 0
    <3>1. i \in 1 .. n + Len(pad) /\ ~ (i <= n) /\ i - n \in 1 .. CONFIG_SLOT_SIZE - n
      BY <1>1, <1>2
    <3>2. QED BY <1>2, <2>1, <3>1
  <2>4. QED BY <1>1, <1>2, <2>1, <2>2, <2>3
<1> HIDE DEF n
<1>5. zeros = n + 1 .. CONFIG_SLOT_SIZE
  BY <1>1, <1>4
<1> HIDE DEF zeros
<1>6. last = n
  <2>1. CASE zeros = {}
    <3>1. n + 1 \notin n + 1 .. CONFIG_SLOT_SIZE
      BY <1>5, <2>1
    <3>2. n = CONFIG_SLOT_SIZE
      BY <1>1, <3>1
    <3>3. QED BY <1>4, <2>1, <3>2
  <2>2. CASE zeros # {}
    <3>1. zeros \in SUBSET Nat
      BY <1>1, <1>5
    <3>2. Min(zeros) \in zeros /\ \A y \in zeros : Min(zeros) <= y
      BY <2>2, <3>1, MinIsLeast
    <3>3. n + 1 \in zeros
      BY <1>1, <1>5, <2>2
    <3>4. Min(zeros) = n + 1
      BY <1>1, <1>5, <3>2, <3>3
    <3>5. QED BY <1>1, <2>2, <3>4
  <2>3. QED BY <2>1, <2>2
<1> HIDE DEF last
<1>7. text = json
  <2>1. /\ text \in Seq(Nat) /\ Len(text) = n
        /\ \A i \in 1 .. n : text[i] = slot[i]
    BY <1>1, <1>4, <1>6, SubSeqProperties
  <2>2. QED BY <1>1, <1>4, <2>1, SeqEqual DEF n
<1>8. from_slot_bytes(slot) = IF \E d \in DOMAIN Json : Json[d] = text
                              THEN CHOOSE d \in DOMAIN Json : Json[d] = text ELSE None
  BY DEF from_slot_bytes, zeros, last
<1>9. \A d \in DOMAIN Json : Json[d] = text <=> d = c
  BY <1>7, JsonAssumption DEF json
<1>10. from_slot_bytes(slot) = c
  BY <1>8, <1>9
<1>11. QED BY <1>4, <1>10 DEF slot

\* A binary that patch_binary returns is the template but for its slot, and
\* find_in_binary reads the configuration back from it.  The slot cannot make
\* an earlier marker: bytes before its own marker's end are not touched.
LEMMA PatchRoundTrip ==
  ASSUME NEW c \in DOMAIN Json, NEW t \in Seq(Nat),
         patch_binary(c, t) # None
  PROVE  LET pos == find_subslice(t, CONFIG_MAGIC)
             b   == patch_binary(c, t)
         IN /\ b \in Seq(Nat) /\ Len(b) = Len(t)
            /\ find_in_binary(b) = c
            /\ \A i \in DOMAIN t \ (pos + 1 .. pos + TOTAL_LEN) : b[i] = t[i]
<1> DEFINE m == Len(CONFIG_MAGIC)
           z == CONFIG_SLOT_SIZE
           pos == find_subslice(t, CONFIG_MAGIC)
           start == pos + m
           slot == to_slot_bytes(c)
           b == patch_binary(c, t)
<1>1. m \in Nat \ {0} /\ z \in Nat \ {0} /\ Len(t) \in Nat
  BY SlotAssumption, EmptySeq
<1>2. /\ pos # None /\ start + z <= Len(t) /\ slot # None
      /\ b = [i \in 1 .. Len(t) |-> IF i \in start + 1 .. start + z
                                    THEN slot[i - start] ELSE t[i]]
  <2>1. pos # None
    BY DEF patch_binary
  <2>2. pos \in Nat
    BY <2>1, FindsFirstMarker
  <2>3. ~ (start + z > Len(t) \/ slot = None)
    BY <2>1 DEF patch_binary
  <2>4. QED BY <1>1, <2>1, <2>2, <2>3 DEF patch_binary
<1>3. /\ pos \in Nat /\ MarkerAt(t, pos)
      /\ \A i \in 0 .. pos - 1 : ~ MarkerAt(t, i)
  BY <1>2, FindsFirstMarker
<1>4. slot \in Seq(Nat) /\ Len(slot) = z /\ from_slot_bytes(slot) = c
  <2>1. Len(Json[c]) <= z
    <3>1. Len(Json[c]) \in Nat
      BY JsonAssumption
    <3>2. QED BY <1>1, <1>2, <3>1 DEF to_slot_bytes
  <2>2. QED BY <2>1, SlotRoundTrip
<1> HIDE DEF m, z, pos, slot, b
<1>5. b \in Seq(Nat) /\ Len(b) = Len(t)
  <2>1. \A i \in start + 1 .. start + z : slot[i - start] \in Nat
    BY <1>1, <1>3, <1>4
  <2>2. \A i \in 1 .. Len(t) : t[i] \in Nat
    OBVIOUS
  <2>3. b \in [1 .. Len(t) -> Nat]
    BY <1>2, <2>1, <2>2
  <2>4. QED BY <1>1, <2>3
<1>6. /\ \A i \in 1 .. Len(t) : i \notin start + 1 .. start + z => b[i] = t[i]
      /\ \A i \in 1 .. z : b[start + i] = slot[i]
  BY <1>1, <1>2, <1>3
<1>7. \A i \in 0 .. pos : MarkerAt(b, i) <=> MarkerAt(t, i)
  <2> SUFFICES ASSUME NEW i \in 0 .. pos
               PROVE  MarkerAt(b, i) <=> MarkerAt(t, i)
    OBVIOUS
  <2>1. \A k \in 1 .. m : b[i + k] = t[i + k]
    BY <1>1, <1>2, <1>3, <1>6
  <2>2. QED BY <1>5, <2>1 DEF MarkerAt, m
<1>8. find_subslice(b, CONFIG_MAGIC) = pos
  <2> DEFINE q == find_subslice(b, CONFIG_MAGIC)
  <2>1. MarkerAt(b, pos) /\ \A i \in 0 .. pos - 1 : ~ MarkerAt(b, i)
    BY <1>3, <1>7
  <2>2. q # None
    BY <1>3, <1>5, <2>1, FindsFirstMarker
  <2>3. q \in Nat /\ MarkerAt(b, q) /\ \A i \in 0 .. q - 1 : ~ MarkerAt(b, i)
    BY <1>5, <2>2, FindsFirstMarker
  <2> HIDE DEF q
  <2>4. q = pos
    BY <1>3, <2>1, <2>3
  <2>5. QED BY <2>4 DEF q
<1>9. SubSeq(b, start + 1, start + z) = slot
  <2>1. start + 1 \in Int /\ start + z \in Int
    BY <1>1, <1>3
  <2>2. /\ SubSeq(b, start + 1, start + z) \in Seq(Nat)
        /\ Len(SubSeq(b, start + 1, start + z)) = z
        /\ \A i \in 1 .. z : SubSeq(b, start + 1, start + z)[i] = b[start + i]
    BY <1>1, <1>2, <1>3, <1>5, <2>1, SubSeqProperties
  <2>3. QED BY <1>4, <1>6, <2>2, SeqEqual
<1>10. Min({start + z, Len(b)}) = start + z
  BY <1>1, <1>2, <1>3, <1>5 DEF Min
<1>11. find_in_binary(b) = c
  <2>1. ~ (start + z <= start)
    BY <1>1, <1>3
  <2>2. find_in_binary(b) = from_slot_bytes(SubSeq(b, start + 1, start + z))
    BY <1>2, <1>8, <1>10, <2>1 DEF find_in_binary, m, z
  <2>3. QED BY <1>4, <1>9, <2>2
<1>12. \A i \in DOMAIN t \ (pos + 1 .. pos + TOTAL_LEN) : b[i] = t[i]
  <2>1. TOTAL_LEN = m + z
    BY DEF TOTAL_LEN, m, z
  <2>2. ASSUME NEW i \in DOMAIN t \ (pos + 1 .. pos + TOTAL_LEN)
        PROVE  i \in 1 .. Len(t) /\ i \notin start + 1 .. start + z
    BY <1>1, <1>3, <2>1
  <2>3. QED BY <1>6, <2>2
<1>13. QED BY <1>5, <1>11, <1>12 DEF pos, b

-----------------------------------------------------------------------------
(* Types. *)

\* What the locals of a fetch hold once it runs.
FetchOK ==
  \A f \in Fetches :
    /\ Active(f) => fetch[f].tag \in Releases /\ P(f) \in Platforms
    /\ At(f, "write") => fetch[f].file \in Fetches
    /\ fetch[f].dropped => fetch[f].step \in {"write", "done"}

\* What the locals of a download hold at each of its steps.
DownloadOK ==
  \A d \in Downloads :
    /\ download[d].step = "read" => download[d].platform \in Platforms
    /\ download[d].step \in {"url", "name", "patch"} =>
         download[d].contents # None

TypeInv == TypeOK /\ FetchOK /\ DownloadOK

\* The actions, one by one: what a step of Next is.
LEMMA NextCases ==
  ASSUME Next
  PROVE  \/ Publish
         \/ \E p \in Platforms : PlaceManual(p)
         \/ \E f \in Fetches :
              \/ BeginFetch(f) \/ DownloadAsset(f) \/ OpenTmp(f)
              \/ WriteTmp(f) \/ WriteTmpFails(f) \/ Rename(f)
              \/ RenameFails(f) \/ SetVersion(f) \/ SetVersionFails(f)
              \/ AbandonFetch(f)
         \/ \E d \in Downloads, p \in Platforms : BeginDownload(d, p)
         \/ \E d \in Downloads :
              \/ ReadTemplate(d) \/ ReadServerUrl(d) \/ ReadDeviceName(d)
              \/ PatchBinary(d)
         \/ \E s \in Saves :
              SaveServerUrl(s) \/ SaveDeviceName(s) \/ AbandonSave(s)
         \/ Restart
BY Zenon DEF Next, FetchStep, DownloadStep, SaveStep

LEMMA TypeInit == Init => TypeInv
<1> SUFFICES ASSUME Init PROVE TypeInv
  OBVIOUS
<1> USE PlatformsAssumption, BoundsAssumption
    DEF Init, Releases, Platforms, Configs, NoConfig
<1>1. TypeOK
  <2>1. /\ latest \in Releases /\ settings \in Configs
        /\ mixed = FALSE /\ cut = {}
    OBVIOUS
  <2>2. fetch \in [Fetches -> FetchState]
    BY DEF FetchState
  <2>3. download \in [Downloads -> DownloadState]
    BY DEF DownloadState
  <2>4. QED BY <2>1, <2>2, <2>3 DEF TypeOK
<1>2. FetchOK
  BY DEF FetchOK, Active, At
<1>3. DownloadOK
  BY DEF DownloadOK
<1>4. QED BY <1>1, <1>2, <1>3 DEF TypeInv

\* The bytes of what a download has read are bytes.
LEMMA BytesType ==
  ASSUME NEW c \in Releases \cup {Own, Torn}, NEW t \in Bytes(c)
  PROVE  t \in Seq(Nat)
<1>1. 1 \in 1 .. MaxRelease /\ Binary[1] \in Seq(Nat)
  BY BoundsAssumption, BinaryAssumption
<1>2. CASE c = Torn
  <2>1. PICK n \in 0 .. Len(Binary[1]) : t = SubSeq(Binary[1], 1, n)
    BY <1>2 DEF Bytes
  <2>2. QED BY <1>1, <2>1, SubSeqProperties
<1>3. CASE c # Torn
  BY <1>3, BinaryAssumption DEF Bytes, Releases
<1>4. QED BY <1>2, <1>3

\* The locals of a fetch after each kind of update.
LEMMA StepRecord ==
  ASSUME NEW r \in FetchState, NEW st \in {"open", "rename", "version", "done"}
  PROVE  LET q == [r EXCEPT !.step = st] IN
         /\ q \in FetchState /\ q.step = st /\ q.tag = r.tag
         /\ q.platform = r.platform /\ q.file = r.file /\ q.dropped = r.dropped
BY DEF FetchState

LEMMA BeginRecord ==
  ASSUME NEW r \in FetchState, NEW t \in Releases
  PROVE  LET q == [r EXCEPT !.step = "download", !.tag = t, !.platform = 1] IN
         /\ q \in FetchState /\ q.step = "download" /\ q.tag = t
         /\ q.platform = 1 /\ q.dropped = r.dropped
<1> DEFINE q == [r EXCEPT !.step = "download", !.tag = t, !.platform = 1]
<1>1. 1 \in 0 .. NPlatforms
  BY PlatformsAssumption
<1>2. q \in FetchState
  BY <1>1 DEF FetchState
<1>3. q.step = "download" /\ q.tag = t /\ q.platform = 1
  BY DEF FetchState
<1>4. q.dropped = r.dropped
  BY DEF FetchState
<1>5. QED BY <1>2, <1>3, <1>4

LEMMA NextRecord ==
  ASSUME NEW r \in FetchState, NEW p \in Platforms
  PROVE  LET q == [r EXCEPT !.step = "download", !.platform = p, !.file = None]
         IN /\ q \in FetchState /\ q.step = "download" /\ q.tag = r.tag
            /\ q.platform = p /\ q.dropped = r.dropped
<1> DEFINE q == [r EXCEPT !.step = "download", !.platform = p, !.file = None]
<1>1. p \in 0 .. NPlatforms
  BY PlatformsAssumption DEF Platforms
<1>2. q \in FetchState
  BY <1>1 DEF FetchState
<1>3. q.step = "download" /\ q.tag = r.tag /\ q.platform = p
  BY DEF FetchState
<1>4. q.dropped = r.dropped
  BY DEF FetchState
<1>5. QED BY <1>2, <1>3, <1>4

LEMMA OpenRecord ==
  ASSUME NEW r \in FetchState, NEW g \in Fetches
  PROVE  LET q == [r EXCEPT !.step = "write", !.file = g] IN
         /\ q \in FetchState /\ q.step = "write" /\ q.tag = r.tag
         /\ q.platform = r.platform /\ q.file = g /\ q.dropped = r.dropped
<1> DEFINE q == [r EXCEPT !.step = "write", !.file = g]
<1>1. q \in FetchState
  BY DEF FetchState
<1>2. q.step = "write" /\ q.tag = r.tag /\ q.platform = r.platform /\ q.file = g
  BY DEF FetchState
<1>3. q.dropped = r.dropped
  BY DEF FetchState
<1>4. QED BY <1>1, <1>2, <1>3

LEMMA DroppedRecord ==
  ASSUME NEW r \in FetchState
  PROVE  LET q == [r EXCEPT !.dropped = TRUE] IN
         /\ q \in FetchState /\ q.step = r.step /\ q.tag = r.tag
         /\ q.platform = r.platform /\ q.file = r.file
BY DEF FetchState

\* The locals of one fetch become r.
LEMMA FetchMoves ==
  ASSUME TypeInv, NEW f \in Fetches, NEW r \in FetchState,
         fetch' = [fetch EXCEPT ![f] = r],
         r.step \notin {"idle", "done"} =>
           r.tag \in Releases /\ r.platform \in Platforms,
         r.step = "write" => r.file \in Fetches,
         r.dropped => r.step \in {"write", "done"}
  PROVE  fetch' \in [Fetches -> FetchState] /\ FetchOK'
<1>1. /\ fetch' \in [Fetches -> FetchState] /\ fetch'[f] = r
      /\ \A g \in Fetches \ {f} : fetch'[g] = fetch[g]
  BY DEF TypeInv, TypeOK
<1>2. QED BY <1>1 DEF TypeInv, FetchOK, Active, At, P

LEMMA StepMoves ==
  ASSUME TypeInv, NEW f \in Fetches, Active(f),
         NEW st \in {"open", "rename", "version", "done"}, Step(f, st),
         fetch[f].dropped => st = "done"
  PROVE  fetch' \in [Fetches -> FetchState] /\ FetchOK'
<1> DEFINE r == [fetch[f] EXCEPT !.step = st]
<1>1. fetch[f] \in FetchState
  BY DEF TypeInv, TypeOK
<1>2. /\ r \in FetchState /\ r.step = st /\ r.tag = fetch[f].tag
      /\ r.platform = fetch[f].platform /\ r.dropped = fetch[f].dropped
  BY <1>1, StepRecord
<1>3. fetch' = [fetch EXCEPT ![f] = r]
  BY DEF Step
<1>4. fetch[f].tag \in Releases /\ fetch[f].platform \in Platforms
  BY DEF TypeInv, FetchOK, P
<1> HIDE DEF r
<1>5. QED BY <1>2, <1>3, <1>4, FetchMoves

LEMMA NextPlatformMoves ==
  ASSUME TypeInv, NEW f \in Fetches, Active(f), ~ fetch[f].dropped,
         NextPlatform(f)
  PROVE  fetch' \in [Fetches -> FetchState] /\ FetchOK'
<1>1. fetch[f] \in FetchState /\ fetch[f].tag \in Releases
  BY DEF TypeInv, TypeOK, FetchOK
<1>2. CASE P(f) + 1 \in Platforms
  <2> DEFINE r == [fetch[f] EXCEPT !.step = "download",
                                   !.platform = P(f) + 1, !.file = None]
  <2>1. /\ r \in FetchState /\ r.step = "download" /\ r.tag = fetch[f].tag
        /\ r.platform = P(f) + 1 /\ r.dropped = fetch[f].dropped
    BY <1>1, <1>2, NextRecord
  <2>2. fetch' = [fetch EXCEPT ![f] = r]
    BY <1>2 DEF NextPlatform
  <2> HIDE DEF r
  <2>3. QED BY <1>1, <1>2, <2>1, <2>2, FetchMoves
<1>3. CASE P(f) + 1 \notin Platforms
  <2>1. Step(f, "done")
    BY <1>3 DEF NextPlatform, Step
  <2>2. QED BY <2>1, StepMoves
<1>4. QED BY <1>2, <1>3

\* The locals of one download become r.
LEMMA DownloadMoves ==
  ASSUME TypeInv, NEW d \in Downloads, NEW r \in DownloadState,
         download' = [download EXCEPT ![d] = r],
         r.step = "read" => r.platform \in Platforms,
         r.step \in {"url", "name", "patch"} => r.contents # None
  PROVE  download' \in [Downloads -> DownloadState] /\ DownloadOK'
<1>1. /\ download' \in [Downloads -> DownloadState] /\ download'[d] = r
      /\ \A e \in Downloads \ {d} : download'[e] = download[e]
  BY DEF TypeInv, TypeOK
<1>2. QED BY <1>1 DEF TypeInv, DownloadOK

\* What the two reads of the settings do to the locals of a download.
ReadsUrl(d, url) ==
  download' = [download EXCEPT ![d] =
    [download[d] EXCEPT !.step = "name",
       !.config = [download[d].config EXCEPT !.server_url = url],
       !.raced = SaveInProgress \/ mixed,
       !.unread = url # settings.server_url]]

ReadsName(d, name) ==
  download' = [download EXCEPT ![d] =
    [download[d] EXCEPT !.step = "patch",
       !.config = [download[d].config EXCEPT !.device_name = name],
       !.raced = \/ download[d].raced \/ SaveInProgress \/ mixed
                 \/ /\ settings.server_url # download[d].config.server_url
                    /\ ~download[d].unread,
       !.unread = \/ download[d].unread
                  \/ name # settings.device_name]]

LEMMA UrlRead ==
  ASSUME TypeOK, NEW d \in Downloads, ReadServerUrl(d)
  PROVE  \E url \in {settings.server_url, None} : ReadsUrl(d, url)
<1>1. download[d] \in DownloadState
  BY DEF TypeOK
<1>2. QED BY <1>1 DEF ReadServerUrl, ReadsUrl, DownloadState

LEMMA NameRead ==
  ASSUME TypeOK, NEW d \in Downloads, ReadDeviceName(d)
  PROVE  \E name \in {settings.device_name, None} : ReadsName(d, name)
<1>1. download[d] \in DownloadState
  BY DEF TypeOK
<1>2. QED BY <1>1 DEF ReadDeviceName, ReadsName, DownloadState

LEMMA TypeStep == TypeInv /\ [Next]_vars => TypeInv'
<1> SUFFICES ASSUME TypeInv, [Next]_vars PROVE TypeInv'
  OBVIOUS
<1> USE BoundsAssumption DEF TypeOK, admin, page
<1>a. TypeOK /\ FetchOK /\ DownloadOK
  BY DEF TypeInv
<1>b. \A f \in Fetches : fetch[f] \in FetchState
  BY <1>a
<1>c. \A d \in Downloads : download[d] \in DownloadState
  BY <1>a
<1>d. ASSUME UNCHANGED fetch PROVE FetchOK'
  BY <1>a, <1>d DEF FetchOK, Active, At, P
<1>e. ASSUME UNCHANGED download PROVE DownloadOK'
  BY <1>a, <1>e DEF DownloadOK
<1>1. CASE Publish
  BY <1>1, <1>a, <1>d, <1>e DEF Publish, Releases, TypeInv
<1>2. ASSUME NEW p \in Platforms, PlaceManual(p) PROVE TypeInv'
  BY <1>2, <1>a, <1>d, <1>e DEF PlaceManual, TypeInv
<1>3. ASSUME NEW f \in Fetches, BeginFetch(f) PROVE TypeInv'
  <2> DEFINE r == [fetch[f] EXCEPT !.step = "download", !.tag = latest,
                                   !.platform = 1]
  <2>1. latest \in Releases /\ 1 \in Platforms
    BY <1>a, PlatformsAssumption DEF Platforms
  <2>2. /\ r \in FetchState /\ r.step = "download" /\ r.tag = latest
        /\ r.platform = 1 /\ r.dropped = fetch[f].dropped
    BY <1>b, <2>1, BeginRecord
  <2>3. fetch' = [fetch EXCEPT ![f] = r]
    BY <1>3 DEF BeginFetch
  <2>4. ~ fetch[f].dropped
    BY <1>3, <1>a DEF BeginFetch, FetchOK, At
  <2> HIDE DEF r
  <2>5. fetch' \in [Fetches -> FetchState] /\ FetchOK'
    BY <2>1, <2>2, <2>3, <2>4, FetchMoves
  <2>6. QED BY <1>3, <1>a, <1>e, <2>5 DEF BeginFetch, TypeInv
<1>4. ASSUME NEW f \in Fetches, DownloadAsset(f) PROVE TypeInv'
  <2>1. Active(f) /\ ~ fetch[f].dropped
    BY <1>4, <1>a DEF DownloadAsset, FetchOK, Active, At
  <2>2. fetch' \in [Fetches -> FetchState] /\ FetchOK'
    BY <1>4, <2>1, NextPlatformMoves, StepMoves DEF DownloadAsset
  <2>3. QED BY <1>4, <1>a, <1>e, <2>2 DEF DownloadAsset, TypeInv
<1>5. ASSUME NEW f \in Fetches, OpenTmp(f) PROVE TypeInv'
  <2> DEFINE g == IF tmp[P(f)] = None THEN f ELSE tmp[P(f)]
             r == [fetch[f] EXCEPT !.step = "write", !.file = g]
  <2>1. /\ P(f) \in Platforms /\ fetch[f].tag \in Releases
        /\ ~ fetch[f].dropped
    BY <1>5, <1>a DEF OpenTmp, FetchOK, Active, At
  <2>2. g \in Fetches
    BY <1>a, <2>1
  <2>3. /\ tmp' = [tmp EXCEPT ![P(f)] = g]
        /\ data' = [data EXCEPT ![g][P(f)] = Torn]
        /\ fetch' = [fetch EXCEPT ![f] = r]
    BY <1>5 DEF OpenTmp
  <2> HIDE DEF g
  <2>4. tmp' \in [Platforms -> Fetches \cup {None}]
    BY <1>a, <2>1, <2>2, <2>3
  <2>5. data' \in [Fetches -> [Platforms -> Releases \cup {Torn, None}]]
    BY <1>a, <2>1, <2>2, <2>3
  <2>6. /\ r \in FetchState /\ r.step = "write" /\ r.tag = fetch[f].tag
        /\ r.platform = fetch[f].platform /\ r.file = g
        /\ r.dropped = fetch[f].dropped
    BY <1>b, <2>2, OpenRecord
  <2> HIDE DEF r
  <2>7. fetch' \in [Fetches -> FetchState] /\ FetchOK'
    BY <2>1, <2>2, <2>3, <2>6, FetchMoves DEF P
  <2>8. QED BY <1>5, <1>a, <1>e, <2>4, <2>5, <2>7 DEF OpenTmp, TypeInv
<1>6. ASSUME NEW f \in Fetches, WriteTmp(f) PROVE TypeInv'
  <2>1. /\ Active(f) /\ P(f) \in Platforms /\ fetch[f].tag \in Releases
        /\ fetch[f].file \in Fetches
    BY <1>6, <1>a DEF WriteTmp, FetchOK, Active, At
  <2>2. PICK v \in Releases \cup {Torn} :
          data' = [data EXCEPT ![fetch[f].file][P(f)] = v]
    BY <1>6, <2>1 DEF WriteTmp
  <2>3. data' \in [Fetches -> [Platforms -> Releases \cup {Torn, None}]]
    BY <1>a, <2>1, <2>2
  <2>4. fetch' \in [Fetches -> FetchState] /\ FetchOK'
    BY <1>6, <2>1, StepMoves DEF WriteTmp
  <2>5. QED BY <1>6, <1>a, <1>e, <2>3, <2>4 DEF WriteTmp, TypeInv
<1>7. ASSUME NEW f \in Fetches, WriteTmpFails(f) PROVE TypeInv'
  <2>1. Active(f)
    BY <1>7 DEF WriteTmpFails, Active, At
  <2>2. fetch' \in [Fetches -> FetchState] /\ FetchOK'
    BY <1>7, <2>1, NextPlatformMoves, StepMoves DEF WriteTmpFails
  <2>3. QED BY <1>7, <1>a, <1>e, <2>2 DEF WriteTmpFails, TypeInv
<1>8. ASSUME NEW f \in Fetches, Rename(f) PROVE TypeInv'
  <2>1. Active(f) /\ ~ fetch[f].dropped /\ P(f) \in Platforms
    BY <1>8, <1>a DEF Rename, FetchOK, Active, At
  <2>2. fetch' \in [Fetches -> FetchState] /\ FetchOK'
    BY <1>8, <2>1, StepMoves DEF Rename
  <2>3. /\ tmp' \in [Platforms -> Fetches \cup {None}]
        /\ fetched' \in [Platforms -> Fetches \cup {None}]
    BY <1>8, <1>a, <2>1 DEF Rename
  <2>4. QED BY <1>8, <1>a, <1>e, <2>2, <2>3 DEF Rename, TypeInv
<1>9. ASSUME NEW f \in Fetches, SetVersion(f) PROVE TypeInv'
  <2>1. /\ Active(f) /\ ~ fetch[f].dropped /\ P(f) \in Platforms
        /\ fetch[f].tag \in Releases
    BY <1>9, <1>a DEF SetVersion, FetchOK, Active, At
  <2>2. fetch' \in [Fetches -> FetchState] /\ FetchOK'
    BY <1>9, <2>1, NextPlatformMoves DEF SetVersion
  <2>3. version' \in [Platforms -> Releases \cup {None}]
    BY <1>9, <1>a, <2>1 DEF SetVersion
  <2>4. QED BY <1>9, <1>a, <1>e, <2>2, <2>3 DEF SetVersion, TypeInv
<1>19. ASSUME NEW f \in Fetches, RenameFails(f) \/ SetVersionFails(f) PROVE TypeInv'
  <2>1. Active(f) /\ ~ fetch[f].dropped /\ P(f) \in Platforms
    BY <1>19, <1>a DEF RenameFails, SetVersionFails, FetchOK, Active, At
  <2>2. fetch' \in [Fetches -> FetchState] /\ FetchOK'
    BY <1>19, <2>1, NextPlatformMoves DEF RenameFails, SetVersionFails
  <2>3. cut' \subseteq Platforms
    BY <1>19, <1>a, <2>1 DEF RenameFails, SetVersionFails
  <2>4. QED BY <1>19, <1>a, <1>e, <2>2, <2>3 DEF RenameFails, SetVersionFails, TypeInv
<1>10. ASSUME NEW f \in Fetches, AbandonFetch(f) PROVE TypeInv'
  <2>1. Active(f) /\ fetch[f].tag \in Releases /\ P(f) \in Platforms
    BY <1>10, <1>a DEF AbandonFetch, FetchOK
  <2>2. fetch' \in [Fetches -> FetchState] /\ FetchOK'
    <3>1. CASE At(f, "write")
      <4> DEFINE r == [fetch[f] EXCEPT !.dropped = TRUE]
      <4>1. /\ r \in FetchState /\ r.step = "write" /\ r.tag = fetch[f].tag
            /\ r.platform = fetch[f].platform /\ r.file = fetch[f].file
        BY <1>b, <3>1, DroppedRecord DEF At
      <4>2. fetch' = [fetch EXCEPT ![f] = r]
        BY <1>10, <3>1 DEF AbandonFetch
      <4>3. fetch[f].file \in Fetches
        BY <1>a, <3>1 DEF FetchOK
      <4> HIDE DEF r
      <4>4. QED BY <2>1, <4>1, <4>2, <4>3, FetchMoves DEF P
    <3>2. CASE ~ At(f, "write")
      <4>1. Step(f, "done")
        BY <1>10, <3>2 DEF AbandonFetch, Step
      <4>2. QED BY <2>1, <4>1, StepMoves
    <3>3. QED BY <3>1, <3>2
  <2>3. cut' \subseteq Platforms
    BY <1>10, <1>a, <2>1 DEF AbandonFetch, CutWith
  <2>4. QED BY <1>10, <1>a, <1>e, <2>2, <2>3 DEF AbandonFetch, TypeInv
<1>11. ASSUME NEW d \in Downloads, NEW p \in Platforms, BeginDownload(d, p)
       PROVE  TypeInv'
  <2> DEFINE src == resolve_template_path(p)
             r == [download[d] EXCEPT !.step = "read", !.platform = p,
                                      !.source = src]
  <2>1. src \in {"manual", "fetched", None}
    BY DEF resolve_template_path
  <2>2. download' = [download EXCEPT ![d] = r]
    BY <1>11 DEF BeginDownload
  <2> HIDE DEF src
  <2>3. r \in DownloadState
    BY <1>c, <2>1 DEF DownloadState
  <2>4. r.step = "read" /\ r.platform = p
    BY <1>c DEF DownloadState
  <2> HIDE DEF r
  <2>5. download' \in [Downloads -> DownloadState] /\ DownloadOK'
    BY <2>2, <2>3, <2>4, DownloadMoves
  <2>6. QED BY <1>11, <1>a, <1>d, <2>5 DEF BeginDownload, DownloadOnly, TypeInv
<1>12. ASSUME NEW d \in Downloads, ReadTemplate(d) PROVE TypeInv'
  <2> DEFINE p == download[d].platform
             file == IF download[d].source = "manual" THEN manual[p] ELSE Build(p)
  <2>1. p \in Platforms
    BY <1>12, <1>a DEF ReadTemplate, DownloadOK
  <2>0. PICK c \in {file, None} :
          download' = [download EXCEPT ![d] =
            [download[d] EXCEPT !.step = IF c = None THEN "done" ELSE "url",
                     !.contents = c, !.platform = None, !.source = None]]
    BY <1>12 DEF ReadTemplate
  <2> DEFINE r == [download[d] EXCEPT
                     !.step = IF c = None THEN "done" ELSE "url",
                     !.contents = c, !.platform = None, !.source = None]
  <2>2. c \in Releases \cup {Own, Torn, None}
    BY <1>a, <2>1 DEF Build
  <2>3. download' = [download EXCEPT ![d] = r]
    BY <2>0
  <2>4. r \in DownloadState
    BY <1>c, <2>2 DEF DownloadState
  <2>5. r.step # "read" /\ (r.step # "done" => r.contents # None)
    BY <1>c DEF DownloadState
  <2> HIDE DEF r
  <2>6. download' \in [Downloads -> DownloadState] /\ DownloadOK'
    BY <2>3, <2>4, <2>5, DownloadMoves
  <2>7. QED BY <1>12, <1>a, <1>d, <2>6 DEF ReadTemplate, DownloadOnly, TypeInv
<1>13. ASSUME NEW d \in Downloads, ReadServerUrl(d) PROVE TypeInv'
  <2>0. PICK url \in {settings.server_url, None} : ReadsUrl(d, url)
    BY <1>13, UrlRead DEF TypeInv
  <2> DEFINE b == SaveInProgress \/ mixed
             u == url # settings.server_url
             cf == [download[d].config EXCEPT !.server_url = url]
             r == [download[d] EXCEPT !.step = "name", !.config = cf, !.raced = b,
                                      !.unread = u]
  <2>1. b \in BOOLEAN /\ u \in BOOLEAN
    BY <1>a DEF SaveInProgress
  <2>2. cf \in Configs
    BY <1>a, <1>c, <2>0 DEF Configs, DownloadState
  <2>3. download' = [download EXCEPT ![d] = r]
    BY <2>0 DEF ReadsUrl
  <2> HIDE DEF b, cf, u
  <2>4. r \in DownloadState
    BY <1>c, <2>1, <2>2 DEF DownloadState
  <2>5. r.step = "name" /\ r.contents = download[d].contents
    BY <1>c DEF DownloadState
  <2>6. download[d].contents # None
    BY <1>13, <1>a DEF ReadServerUrl, DownloadOK
  <2> HIDE DEF r
  <2>7. download' \in [Downloads -> DownloadState] /\ DownloadOK'
    BY <2>3, <2>4, <2>5, <2>6, DownloadMoves
  <2>8. QED BY <1>13, <1>a, <1>d, <2>7 DEF ReadServerUrl, DownloadOnly, TypeInv
<1>14. ASSUME NEW d \in Downloads, ReadDeviceName(d) PROVE TypeInv'
  <2>0. PICK name \in {settings.device_name, None} : ReadsName(d, name)
    BY <1>14, NameRead DEF TypeInv
  <2> DEFINE b == \/ download[d].raced \/ SaveInProgress \/ mixed
                  \/ /\ settings.server_url # download[d].config.server_url
                     /\ ~download[d].unread
             u == download[d].unread \/ name # settings.device_name
             cf == [download[d].config EXCEPT !.device_name = name]
             r == [download[d] EXCEPT !.step = "patch", !.config = cf, !.raced = b,
                                      !.unread = u]
  <2>1. b \in BOOLEAN /\ u \in BOOLEAN
    BY <1>a, <1>c DEF SaveInProgress, DownloadState
  <2>2. cf \in Configs
    BY <1>a, <1>c, <2>0 DEF Configs, DownloadState
  <2>3. download' = [download EXCEPT ![d] = r]
    BY <2>0 DEF ReadsName
  <2> HIDE DEF b, cf, u
  <2>4. r \in DownloadState
    BY <1>c, <2>1, <2>2 DEF DownloadState
  <2>5. r.step = "patch" /\ r.contents = download[d].contents
    BY <1>c DEF DownloadState
  <2>6. download[d].contents # None
    BY <1>14, <1>a DEF ReadDeviceName, DownloadOK
  <2> HIDE DEF r
  <2>7. download' \in [Downloads -> DownloadState] /\ DownloadOK'
    BY <2>3, <2>4, <2>5, <2>6, DownloadMoves
  <2>8. QED BY <1>14, <1>a, <1>d, <2>7 DEF ReadDeviceName, DownloadOnly, TypeInv
<1>15. ASSUME NEW d \in Downloads, PatchBinary(d) PROVE TypeInv'
  <2> DEFINE r == [download[d] EXCEPT !.step = "done"]
  <2>1. download[d].contents \in Releases \cup {Own, Torn}
    BY <1>15, <1>a, <1>c DEF PatchBinary, DownloadOK, DownloadState
  <2>2. download[d].config \in DOMAIN Json
    BY <1>c, BinaryAssumption DEF DownloadState
  <2>3. PICK t \in Bytes(download[d].contents) :
          served' = [served EXCEPT ![d] = patch_binary(download[d].config, t)]
    BY <1>15 DEF PatchBinary
  <2>4. patch_binary(download[d].config, t) \in Seq(Nat) \cup {None}
    BY <2>1, <2>2, BytesType, PatchRoundTrip
  <2>5. served' \in [Downloads -> Seq(Nat) \cup {None}]
    BY <1>a, <2>3, <2>4
  <2>6. r \in DownloadState /\ r.step = "done"
    BY <1>c DEF DownloadState
  <2>7. download' = [download EXCEPT ![d] = r]
    BY <1>15 DEF PatchBinary
  <2> HIDE DEF r
  <2>8. download' \in [Downloads -> DownloadState] /\ DownloadOK'
    BY <2>6, <2>7, DownloadMoves
  <2>9. QED BY <1>15, <1>a, <1>d, <2>5, <2>8 DEF PatchBinary, DownloadOnly, TypeInv
<1>16. ASSUME NEW s \in Saves,
              SaveServerUrl(s) \/ SaveDeviceName(s) \/ AbandonSave(s)
       PROVE  TypeInv'
  <2>1. settings' \in Configs
    BY <1>16, <1>a DEF SaveServerUrl, SaveDeviceName, AbandonSave, Configs
  <2>2. save' \in [Saves -> {"idle", "name", "done"}]
    BY <1>16, <1>a DEF SaveServerUrl, SaveDeviceName, AbandonSave
  <2>3. mixed' \in BOOLEAN
    BY <1>16, <1>a DEF SaveServerUrl, SaveDeviceName, AbandonSave,
                       SaveInProgress
  <2>4. SaveOnly
    BY <1>16 DEF SaveServerUrl, SaveDeviceName, AbandonSave
  <2>5. QED BY <1>a, <1>d, <1>e, <2>1, <2>2, <2>3, <2>4 DEF SaveOnly, TypeInv
<1>17. CASE Restart
  <2>1. \A f \in Fetches : [fetch[f] EXCEPT !.step = "done"] \in FetchState
    BY <1>b, StepRecord
  <2>2. fetch' \in [Fetches -> FetchState]
    BY <1>17, <1>b, <2>1 DEF Restart
  <2>3. FetchOK'
    <3> SUFFICES ASSUME NEW f \in Fetches
                 PROVE  \/ fetch'[f].step = "done"
                        \/ fetch'[f] = fetch[f]
      BY <1>a DEF FetchOK, Active, At, P
    <3>1. [fetch[f] EXCEPT !.step = "done"].step = "done"
      BY <1>b, StepRecord
    <3>2. QED BY <1>17, <3>1 DEF Restart
  <2>4. \A d \in Downloads :
          LET q == [download[d] EXCEPT !.step = "done", !.contents = None,
                                       !.config = NoConfig]
          IN q \in DownloadState /\ q.step = "done"
    BY <1>c DEF DownloadState, Configs, NoConfig
  <2>5. download' \in [Downloads -> DownloadState]
    BY <1>17, <1>c, <2>4 DEF Restart
  <2>6. DownloadOK'
    BY <1>17, <1>a, <2>4 DEF Restart, DownloadOK
  <2>7. save' \in [Saves -> {"idle", "name", "done"}]
    BY <1>17, <1>a DEF Restart
  <2>8. mixed' \in BOOLEAN
    BY <1>17, <1>a DEF Restart
  <2>9. cut' \subseteq Platforms
    <3>1. \A f \in Fetches : CutWith(f) \subseteq Platforms
      BY <1>a DEF CutWith, FetchOK, Active, At
    <3>2. UNION {CutWith(f) : f \in Fetches} \subseteq Platforms
      BY <3>1
    <3>3. QED BY <1>17, <1>a, <3>2 DEF Restart
  <2>10. QED BY <1>17, <1>a, <2>2, <2>3, <2>5, <2>6, <2>7, <2>8, <2>9
            DEF Restart, TypeInv
<1>18. CASE UNCHANGED vars
  BY <1>18, <1>a, <1>d, <1>e DEF vars, TypeInv
<1>20. QED
  BY NextCases, <1>1, <1>2, <1>3, <1>4, <1>5, <1>6, <1>7, <1>8, <1>9, <1>10,
     <1>11, <1>12, <1>13, <1>14, <1>15, <1>16, <1>17, <1>18, <1>19

\* The type invariant of fetches, downloads and saves (release_fetch.rs,
\* api/download.rs, api/admin.rs).
THEOREM TypeCorrect == Spec => []TypeOK
<1>1. Spec => []TypeInv
  BY TypeInit, TypeStep, PTL DEF Spec
<1>2. TypeInv => TypeOK
  BY DEF TypeInv
<1>3. QED BY <1>1, <1>2, PTL

-----------------------------------------------------------------------------
(* The files of a platform, when fetches do not overlap. *)

OneActive == \A f, g \in Fetches : Active(f) /\ Active(g) => f = g

\* Fetch f has begun to write platform p, or is past it.
Reached(f, p) ==
  /\ ~ At(f, "idle")
  /\ P(f) > p \/ (P(f) = p /\ ~ At(f, "download") /\ ~ At(f, "open"))

\* A file is made by a fetch that has reached its platform: a fetch that is
\* about to make one makes a new one.
FilesReached ==
  \A p \in Platforms, f \in Fetches :
    tmp[p] = f \/ fetched[p] = f => Reached(f, p)

\* The ".tmp" of a platform is never the file that is offered.
TmpApart == \A p \in Platforms : tmp[p] # None => tmp[p] # fetched[p]

\* A fetch that writes has the ".tmp" file, empty, to itself; one that is to
\* rename it has written all of it; one that is to store the version has put
\* its build in place.
FetchHolds ==
  \A f \in Fetches :
    /\ At(f, "write") =>
         /\ tmp[P(f)] # None /\ fetch[f].file = tmp[P(f)]
         /\ data[tmp[P(f)]][P(f)] = Torn
    /\ At(f, "rename") =>
         tmp[P(f)] # None /\ data[tmp[P(f)]][P(f)] = fetch[f].tag
    /\ At(f, "version") =>
         fetched[P(f)] # None /\ data[fetched[P(f)]][P(f)] = fetch[f].tag

\* Builds offered are whole; a fetch at work is of no older release.
OfferedInOrder ==
  /\ \A p \in Platforms : fetched[p] # None => data[fetched[p]][p] \in 1 .. latest
  /\ \A f \in Fetches : Active(f) =>
       /\ fetch[f].tag <= latest
       /\ \A p \in Platforms :
            fetched[p] # None => data[fetched[p]][p] <= fetch[f].tag

\* The version is stored last.
VersionFollows ==
  \A p \in Platforms :
    \/ p \in cut
    \/ version[p] = Build(p)
    \/ \E f \in Fetches : At(f, "version") /\ P(f) = p

FileInv ==
  /\ OneActive /\ FilesReached /\ TmpApart /\ FetchHolds /\ OfferedInOrder
  /\ VersionFollows

LEMMA FileInit == Init => FileInv
<1> SUFFICES ASSUME Init PROVE FileInv
  OBVIOUS
<1> USE DEF Init, At, Active
<1>1. OneActive /\ FetchHolds
  BY DEF OneActive, FetchHolds
<1>2. FilesReached /\ TmpApart
  BY BoundsAssumption DEF FilesReached, TmpApart
<1>3. OfferedInOrder /\ VersionFollows
  BY DEF OfferedInOrder, VersionFollows, Build
<1>4. QED BY <1>1, <1>2, <1>3 DEF FileInv

\* What the steps of one fetch leave alone.
LEMMA StepFacts ==
  ASSUME TypeInv, NEW f \in Fetches,
         NEW st \in {"open", "rename", "version", "done"}, Step(f, st)
  PROVE  /\ fetch'[f].step = st /\ fetch'[f].tag = fetch[f].tag
         /\ fetch'[f].platform = fetch[f].platform
         /\ \A g \in Fetches \ {f} : fetch'[g] = fetch[g]
<1>1. fetch[f] \in FetchState
  BY DEF TypeInv, TypeOK
<1>2. fetch'[f] = [fetch[f] EXCEPT !.step = st]
  BY DEF Step, TypeInv, TypeOK
<1>3. \A g \in Fetches \ {f} : fetch'[g] = fetch[g]
  BY DEF Step, TypeInv, TypeOK
<1>4. QED BY <1>1, <1>2, <1>3, StepRecord

LEMMA NextPlatformFacts ==
  ASSUME TypeInv, NEW f \in Fetches, NextPlatform(f)
  PROVE  /\ fetch'[f].tag = fetch[f].tag
         /\ \/ fetch'[f].step = "done" /\ fetch'[f].platform = fetch[f].platform
            \/ /\ fetch'[f].step = "download"
               /\ fetch'[f].platform = fetch[f].platform + 1
         /\ \A g \in Fetches \ {f} : fetch'[g] = fetch[g]
<1>1. fetch[f] \in FetchState
  BY DEF TypeInv, TypeOK
<1>2. CASE P(f) + 1 \in Platforms
  <2> DEFINE r == [fetch[f] EXCEPT !.step = "download",
                                   !.platform = P(f) + 1, !.file = None]
  <2>1. r.step = "download" /\ r.tag = fetch[f].tag /\ r.platform = P(f) + 1
    BY <1>1, <1>2, NextRecord
  <2>2. fetch' = [fetch EXCEPT ![f] = r]
    BY <1>2 DEF NextPlatform
  <2> HIDE DEF r
  <2>3. fetch'[f] = r /\ \A g \in Fetches \ {f} : fetch'[g] = fetch[g]
    BY <2>2 DEF TypeInv, TypeOK
  <2>4. QED BY <2>1, <2>3 DEF P
<1>3. CASE P(f) + 1 \notin Platforms
  <2>1. Step(f, "done")
    BY <1>3 DEF NextPlatform, Step
  <2>2. QED BY <2>1, StepFacts
<1>4. QED BY <1>2, <1>3

\* A fetch that fails or ends where it holds nothing that anybody offers.
LEMMA FetchEnds ==
  ASSUME TypeInv, FileInv, NEW f \in Fetches, Active(f),
         UNCHANGED <<latest, data, tmp, fetched, version>>,
         cut' = cut \cup CutWith(f),
         fetch'[f].tag = fetch[f].tag,
         \/ fetch'[f].step \in {"done", "open"} /\ fetch'[f].platform = fetch[f].platform
         \/ /\ fetch'[f].step = "download"
            /\ fetch'[f].platform = fetch[f].platform + 1,
         fetch'[f].step = "open" => At(f, "download"),
         \A g \in Fetches \ {f} : fetch'[g] = fetch[g]
  PROVE  FileInv'
<1> USE DEF FileInv, At, Active, P
<1>1. P(f) \in Platforms /\ P(f) \in Nat
  BY PlatformsAssumption DEF TypeInv, FetchOK, Platforms
<1>2. OneActive'
  BY DEF OneActive
<1>3. FilesReached'
  BY <1>1 DEF FilesReached, Reached, Platforms
<1>4. TmpApart'
  BY DEF TmpApart
<1>5. FetchHolds'
  BY DEF FetchHolds
<1>6. OfferedInOrder'
  BY DEF OfferedInOrder
<1>7. VersionFollows'
  <2> SUFFICES ASSUME NEW p \in Platforms, p \notin cut', version[p] # Build(p)
               PROVE  \E g \in Fetches : At(g, "version")' /\ P(g)' = p
    BY DEF VersionFollows, Build
  <2>1. p \notin cut /\ ~ (At(f, "version") /\ P(f) = p)
    BY DEF CutWith
  <2>2. PICK g \in Fetches : At(g, "version") /\ P(g) = p
    BY <2>1 DEF VersionFollows
  <2>3. QED BY <2>1, <2>2
<1>8. QED BY <1>2, <1>3, <1>4, <1>5, <1>6, <1>7

LEMMA BeginFetchFiles ==
  ASSUME MaxParallel = 1, TypeInv, FileInv, NEW f \in Fetches, BeginFetch(f)
  PROVE  FileInv'
<1> DEFINE r == [fetch[f] EXCEPT !.step = "download", !.tag = latest,
                                 !.platform = 1]
<1>1. \A g \in Fetches : ~ Active(g)
  <2> DEFINE A == {g \in Fetches : Active(g)}
  <2>1. IsFiniteSet(A)
    BY BoundsAssumption, FS_Subset
  <2>2. Cardinality(A) \in Nat /\ Cardinality(A) < 1
    BY <2>1, FS_CardinalityType DEF BeginFetch
  <2>3. A = {}
    BY <2>1, <2>2, FS_EmptySet
  <2>4. QED BY <2>3
<1>2. fetch[f] \in FetchState /\ latest \in Releases
  BY DEF TypeInv, TypeOK
<1>3. r.step = "download" /\ r.tag = latest /\ r.platform = 1
  BY <1>2, BeginRecord
<1>4. fetch' = [fetch EXCEPT ![f] = r]
  BY DEF BeginFetch
<1> HIDE DEF r
<1>5. fetch'[f] = r /\ \A g \in Fetches \ {f} : fetch'[g] = fetch[g]
  BY <1>4 DEF TypeInv, TypeOK
<1>6. /\ UNCHANGED <<latest, data, tmp, fetched, version, cut>>
      /\ At(f, "idle")
  BY DEF BeginFetch
<1> USE DEF FileInv, At, Active, P
<1>7. OneActive' /\ TmpApart'
  BY <1>1, <1>3, <1>5, <1>6 DEF OneActive, TmpApart
<1>8. FilesReached'
  BY <1>5, <1>6 DEF FilesReached, Reached
<1>9. FetchHolds'
  BY <1>3, <1>5, <1>6 DEF FetchHolds
<1>10. OfferedInOrder'
  <2>1. latest \in Nat
    BY <1>2, BoundsAssumption DEF Releases
  <2>2. QED BY <1>1, <1>3, <1>5, <1>6, <2>1 DEF OfferedInOrder
<1>11. VersionFollows'
  BY <1>1, <1>6 DEF VersionFollows, Build
<1>12. QED BY <1>7, <1>8, <1>9, <1>10, <1>11

LEMMA OpenTmpFiles ==
  ASSUME TypeInv, FileInv, NEW f \in Fetches, OpenTmp(f)
  PROVE  FileInv'
<1> DEFINE p == P(f)
           g == IF tmp[p] = None THEN f ELSE tmp[p]
           r == [fetch[f] EXCEPT !.step = "write", !.file = g]
<1>1. p \in Platforms /\ fetch[f] \in FetchState /\ At(f, "open") /\ Active(f)
  BY DEF OpenTmp, TypeInv, TypeOK, FetchOK, At, Active
<1>2. g \in Fetches /\ g # None /\ fetched[p] # g
  BY <1>1, BoundsAssumption
     DEF TypeInv, TypeOK, FileInv, TmpApart, FilesReached, Reached, P, Platforms
<1>3. /\ r.step = "write" /\ r.tag = fetch[f].tag
      /\ r.platform = fetch[f].platform /\ r.file = g
  BY <1>1, <1>2, OpenRecord
<1>4. /\ tmp' = [tmp EXCEPT ![p] = g]
      /\ data' = [data EXCEPT ![g][p] = Torn]
      /\ fetch' = [fetch EXCEPT ![f] = r]
      /\ UNCHANGED <<latest, fetched, version, cut>>
  BY DEF OpenTmp
<1> HIDE DEF g, r
<1>5. fetch'[f] = r /\ \A h \in Fetches \ {f} : fetch'[h] = fetch[h]
  BY <1>4 DEF TypeInv, TypeOK
<1>6. tmp'[p] = g /\ \A q \in Platforms \ {p} : tmp'[q] = tmp[q]
  BY <1>1, <1>4 DEF TypeInv, TypeOK
<1>7. /\ data'[g][p] = Torn
      /\ \A h \in Fetches, q \in Platforms :
           h # g \/ q # p => data'[h][q] = data[h][q]
  BY <1>1, <1>2, <1>4 DEF TypeInv, TypeOK
<1>8. P(f)' = p /\ \A h \in Fetches \ {f} : ~ Active(h)
  BY <1>1, <1>3, <1>5 DEF FileInv, OneActive, P
<1>9. \A q \in Platforms : fetched[q] # None => data'[fetched[q]][q] = data[fetched[q]][q]
  BY <1>2, <1>7 DEF TypeInv, TypeOK
<1> USE DEF FileInv, At, Active
<1>10. OneActive'
  BY <1>5, <1>8 DEF OneActive
<1>11. FilesReached'
  <2>1. Reached(f, p)'
    BY <1>3, <1>5, <1>8 DEF Reached
  <2>2. \A h \in Fetches, q \in Platforms : Reached(h, q) => Reached(h, q)'
    BY <1>1, <1>3, <1>5, <1>8 DEF Reached, P
  <2>3. g = f \/ (tmp[p] = g /\ Reached(g, p))
    BY <1>1, <1>2 DEF g, FilesReached
  <2>4. ASSUME NEW q \in Platforms, NEW h \in Fetches, tmp'[q] = h \/ fetched[q] = h
        PROVE  Reached(h, q)'
    <3>1. CASE fetched[q] = h \/ q # p
      <4>1. Reached(h, q)
        BY <1>6, <2>4, <3>1 DEF FilesReached
      <4>2. QED BY <2>2, <4>1
    <3>2. CASE fetched[q] # h /\ q = p
      <4>1. h = g
        BY <1>6, <2>4, <3>2
      <4>2. QED BY <1>1, <1>8, <2>1, <2>2, <2>3, <3>2, <4>1 DEF Reached, P
    <3>3. QED BY <3>1, <3>2
  <2>5. QED BY <1>4, <2>4 DEF FilesReached
<1>12. TmpApart'
  BY <1>2, <1>4, <1>6 DEF TmpApart
<1>13. FetchHolds'
  BY <1>2, <1>3, <1>5, <1>6, <1>7, <1>8 DEF FetchHolds
<1>14. OfferedInOrder'
  BY <1>1, <1>3, <1>4, <1>5, <1>8, <1>9 DEF OfferedInOrder
<1>15. VersionFollows'
  <2>1. \A q \in Platforms : Build(q)' = Build(q)
    BY <1>4, <1>9 DEF Build
  <2>2. QED BY <1>1, <1>4, <1>8, <2>1 DEF VersionFollows
<1>16. QED BY <1>10, <1>11, <1>12, <1>13, <1>14, <1>15

LEMMA WriteTmpFiles ==
  ASSUME TypeInv, FileInv, NEW f \in Fetches, WriteTmp(f)
  PROVE  FileInv'
<1> DEFINE p == P(f)
           g == fetch[f].file
           st == IF fetch[f].dropped THEN "done" ELSE "rename"
<1>1. /\ p \in Platforms /\ At(f, "write") /\ Active(f)
      /\ fetch[f].tag \in Releases /\ g \in Fetches
  BY DEF WriteTmp, TypeInv, TypeOK, FetchOK, At, Active
<1>2. g = tmp[p] /\ tmp[p] # None /\ data[g][p] = Torn /\ fetched[p] # g
  BY <1>1 DEF FileInv, FetchHolds, TmpApart
<1>3. /\ data' = [data EXCEPT ![g][p] = fetch[f].tag]
      /\ Step(f, st)
      /\ UNCHANGED <<latest, tmp, fetched, version, cut>>
  BY <1>2 DEF WriteTmp
<1>4. /\ fetch'[f].step = st /\ fetch'[f].tag = fetch[f].tag
      /\ fetch'[f].platform = fetch[f].platform
      /\ \A h \in Fetches \ {f} : fetch'[h] = fetch[h]
  <2>1. st \in {"open", "rename", "version", "done"}
    OBVIOUS
  <2>2. QED BY <1>3, <2>1, StepFacts
<1>5. st \in {"done", "rename"}
  OBVIOUS
<1> HIDE DEF g, st
<1>6. /\ data'[g][p] = fetch[f].tag
      /\ \A h \in Fetches, q \in Platforms :
           h # g \/ q # p => data'[h][q] = data[h][q]
  BY <1>1, <1>3 DEF TypeInv, TypeOK
<1>7. P(f)' = p /\ \A h \in Fetches \ {f} : ~ Active(h)
  BY <1>1, <1>4 DEF FileInv, OneActive, P
<1>8. \A q \in Platforms : fetched[q] # None => data'[fetched[q]][q] = data[fetched[q]][q]
  BY <1>2, <1>6 DEF TypeInv, TypeOK
<1> USE DEF FileInv, At, Active
<1>9. OneActive'
  BY <1>4, <1>7 DEF OneActive
<1>10. FilesReached'
  BY <1>1, <1>3, <1>4, <1>5 DEF FilesReached, Reached, P
<1>11. TmpApart'
  BY <1>3 DEF TmpApart
<1>12. FetchHolds'
  BY <1>2, <1>3, <1>4, <1>5, <1>6, <1>7 DEF FetchHolds
<1>13. OfferedInOrder'
  BY <1>1, <1>3, <1>4, <1>8 DEF OfferedInOrder
<1>14. VersionFollows'
  <2>1. \A q \in Platforms : Build(q)' = Build(q)
    BY <1>3, <1>8 DEF Build
  <2>2. QED BY <1>1, <1>3, <1>7, <2>1 DEF VersionFollows
<1>15. QED BY <1>9, <1>10, <1>11, <1>12, <1>13, <1>14

\* Only here does what is offered change: to the build of the fetch's own
\* release.
LEMMA RenameFacts ==
  ASSUME TypeInv, FileInv, NEW f \in Fetches, Rename(f)
  PROVE  /\ P(f) \in Platforms /\ Active(f) /\ At(f, "rename")
         /\ tmp[P(f)] \in Fetches /\ fetch[f].tag \in Releases
         /\ fetched' = [fetched EXCEPT ![P(f)] = tmp[P(f)]]
         /\ tmp' = [tmp EXCEPT ![P(f)] = None]
         /\ data[tmp[P(f)]][P(f)] = fetch[f].tag
         /\ Step(f, "version")
         /\ UNCHANGED <<latest, data, version, cut>>
<1>1. P(f) \in Platforms /\ Active(f) /\ At(f, "rename") /\ fetch[f].tag \in Releases
  BY DEF Rename, TypeInv, FetchOK, At, Active
<1>2. tmp[P(f)] # None /\ data[tmp[P(f)]][P(f)] = fetch[f].tag
  BY <1>1 DEF FileInv, FetchHolds
<1>3. tmp[P(f)] \in Fetches
  BY <1>1, <1>2 DEF TypeInv, TypeOK
<1>4. QED BY <1>1, <1>2, <1>3 DEF Rename

LEMMA RenameFiles ==
  ASSUME TypeInv, FileInv, NEW f \in Fetches, Rename(f)
  PROVE  FileInv'
<1> DEFINE p == P(f)
<1>1. /\ p \in Platforms /\ Active(f) /\ At(f, "rename") /\ tmp[p] \in Fetches
      /\ fetch[f].tag \in Releases /\ data[tmp[p]][p] = fetch[f].tag
      /\ fetched' = [fetched EXCEPT ![p] = tmp[p]]
      /\ tmp' = [tmp EXCEPT ![p] = None]
      /\ Step(f, "version")
      /\ UNCHANGED <<latest, data, version, cut>>
  BY RenameFacts
<1>2. /\ fetch'[f].step = "version" /\ fetch'[f].tag = fetch[f].tag
      /\ fetch'[f].platform = fetch[f].platform
      /\ \A h \in Fetches \ {f} : fetch'[h] = fetch[h]
  BY <1>1, StepFacts
<1>3. /\ fetched'[p] = tmp[p] /\ tmp'[p] = None
      /\ \A q \in Platforms \ {p} : fetched'[q] = fetched[q] /\ tmp'[q] = tmp[q]
  BY <1>1 DEF TypeInv, TypeOK
<1>4. P(f)' = p /\ \A h \in Fetches \ {f} : ~ Active(h)
  BY <1>1, <1>2 DEF FileInv, OneActive, P
<1>5. None \notin Fetches
  BY BoundsAssumption
<1> USE DEF FileInv, At, Active
<1>6. OneActive'
  BY <1>2, <1>4 DEF OneActive
<1>7. FilesReached'
  <2>1. \A h \in Fetches, q \in Platforms : Reached(h, q) => Reached(h, q)'
    BY <1>1, <1>2, <1>4 DEF Reached, P
  <2>2. QED BY <1>3, <1>5, <2>1 DEF FilesReached
<1>8. TmpApart'
  BY <1>3 DEF TmpApart
<1>9. FetchHolds'
  BY <1>1, <1>2, <1>3, <1>4, <1>5 DEF FetchHolds
<1>10. OfferedInOrder'
  <2>1. fetch[f].tag \in 1 .. latest
    BY <1>1, BoundsAssumption DEF OfferedInOrder, Releases, TypeInv, TypeOK
  <2>2. \A q \in Platforms : fetched'[q] # None =>
          data[fetched'[q]][q] \in 1 .. latest /\ data[fetched'[q]][q] <= fetch[f].tag
    BY <1>1, <1>3, <2>1 DEF OfferedInOrder
  <2>3. QED BY <1>1, <1>2, <1>4, <2>1, <2>2 DEF OfferedInOrder
<1>11. VersionFollows'
  <2>1. \A q \in Platforms \ {p} : Build(q)' = Build(q)
    BY <1>1, <1>3 DEF Build
  <2>2. QED BY <1>1, <1>2, <1>4, <2>1 DEF VersionFollows
<1>12. QED BY <1>6, <1>7, <1>8, <1>9, <1>10, <1>11

LEMMA SetVersionFiles ==
  ASSUME TypeInv, FileInv, NEW f \in Fetches, SetVersion(f)
  PROVE  FileInv'
<1> DEFINE p == P(f)
<1>1. p \in Platforms /\ Active(f) /\ At(f, "version") /\ p \in Nat
  BY PlatformsAssumption DEF SetVersion, TypeInv, FetchOK, At, Active, Platforms
<1>2. /\ version' = [version EXCEPT ![p] = fetch[f].tag] /\ NextPlatform(f)
      /\ cut' = cut \ {p} /\ UNCHANGED <<latest, data, tmp, fetched>>
  BY DEF SetVersion
<1>3. /\ fetch'[f].tag = fetch[f].tag
      /\ \/ fetch'[f].step = "done" /\ fetch'[f].platform = fetch[f].platform
         \/ /\ fetch'[f].step = "download"
            /\ fetch'[f].platform = fetch[f].platform + 1
      /\ \A g \in Fetches \ {f} : fetch'[g] = fetch[g]
  BY <1>2, NextPlatformFacts
<1>4. version'[p] = fetch[f].tag /\ \A q \in Platforms \ {p} : version'[q] = version[q]
  BY <1>1, <1>2 DEF TypeInv, TypeOK
<1>5. Build(p) = fetch[f].tag
  BY <1>1 DEF FileInv, FetchHolds, Build
<1>6. \A h \in Fetches \ {f} : ~ Active(h)
  BY <1>1 DEF FileInv, OneActive
<1> USE DEF FileInv, At, Active
<1>7. OneActive'
  BY <1>3, <1>6 DEF OneActive
<1>8. FilesReached'
  BY <1>1, <1>2, <1>3 DEF FilesReached, Reached, P, Platforms
<1>9. TmpApart' /\ FetchHolds'
  BY <1>2, <1>3, <1>6 DEF TmpApart, FetchHolds, P
<1>10. OfferedInOrder'
  BY <1>1, <1>2, <1>3, <1>6 DEF OfferedInOrder
<1>11. VersionFollows'
  <2>1. \A q \in Platforms : Build(q)' = Build(q)
    BY <1>2 DEF Build
  <2>2. QED BY <1>1, <1>2, <1>4, <1>5, <1>6, <2>1 DEF VersionFollows
<1>12. QED BY <1>7, <1>8, <1>9, <1>10, <1>11

LEMMA RestartFiles ==
  ASSUME TypeInv, FileInv, Restart
  PROVE  FileInv'
<1>1. UNCHANGED <<latest, data, tmp, fetched, version>>
  BY DEF Restart
<1>2. \A f \in Fetches :
        /\ fetch'[f].platform = fetch[f].platform /\ ~ Active(f)'
        /\ At(f, "idle")' <=> At(f, "idle")
  <2> SUFFICES ASSUME NEW f \in Fetches
               PROVE  /\ fetch'[f].platform = fetch[f].platform /\ ~ Active(f)'
                      /\ At(f, "idle")' <=> At(f, "idle")
    OBVIOUS
  <2> DEFINE r == [fetch[f] EXCEPT !.step = "done"]
  <2>1. fetch'[f] = IF Active(f) THEN r ELSE fetch[f]
    BY DEF Restart
  <2>2. r.step = "done" /\ r.platform = fetch[f].platform
    BY StepRecord DEF TypeInv, TypeOK
  <2> HIDE DEF r
  <2>3. QED BY <2>1, <2>2 DEF Active, At
<1>3. \A p \in Platforms :
        p \notin cut' => p \notin cut /\ \A f \in Fetches : ~(At(f, "version") /\ P(f) = p)
  BY DEF Restart, CutWith
<1> USE DEF FileInv
<1>4. OneActive' /\ TmpApart'
  BY <1>1, <1>2 DEF OneActive, TmpApart
<1>5. FilesReached'
  BY <1>1, <1>2 DEF FilesReached, Reached, P, At, Active
<1>6. FetchHolds'
  BY <1>2 DEF FetchHolds, At, Active
<1>7. OfferedInOrder'
  BY <1>1, <1>2 DEF OfferedInOrder
<1>8. VersionFollows'
  BY <1>1, <1>3 DEF VersionFollows, Build
<1>9. QED BY <1>4, <1>5, <1>6, <1>7, <1>8

\* Steps that concern no fetch and no file.
LEMMA OtherFiles ==
  ASSUME TypeInv, FileInv,
         UNCHANGED <<data, tmp, fetched, version, fetch, cut>>,
         latest' \in Nat, latest <= latest'
  PROVE  FileInv'
<1> USE DEF FileInv, At, Active, P
<1>1. OneActive' /\ FilesReached' /\ TmpApart' /\ FetchHolds'
  BY DEF OneActive, FilesReached, Reached, TmpApart, FetchHolds
<1>2. OfferedInOrder'
  BY BoundsAssumption DEF OfferedInOrder, TypeInv, TypeOK, FetchOK, Releases
<1>3. VersionFollows'
  BY DEF VersionFollows, Build
<1>4. QED BY <1>1, <1>2, <1>3

LEMMA FileStep ==
  ASSUME MaxParallel = 1, TypeInv, FileInv, [Next]_vars
  PROVE  FileInv'
<1>a. latest \in Nat
  BY BoundsAssumption DEF TypeInv, TypeOK, Releases
<1> USE DEF page, admin
<1>1. CASE Publish
  BY <1>1, <1>a, OtherFiles DEF Publish
<1>2. ASSUME NEW p \in Platforms, PlaceManual(p) PROVE FileInv'
  BY <1>2, <1>a, OtherFiles DEF PlaceManual
<1>3. ASSUME NEW f \in Fetches, BeginFetch(f) PROVE FileInv'
  BY <1>3, BeginFetchFiles
<1>4. ASSUME NEW f \in Fetches, DownloadAsset(f) PROVE FileInv'
  <2>1. At(f, "download") /\ Active(f) /\ ~ At(f, "version")
    BY <1>4 DEF DownloadAsset, At, Active
  <2>2. UNCHANGED <<latest, data, tmp, fetched, version>> /\ cut' = cut \cup CutWith(f)
    BY <1>4, <2>1 DEF DownloadAsset, CutWith
  <2>3. CASE Step(f, "open")
    BY <2>1, <2>2, <2>3, StepFacts, FetchEnds
  <2>4. CASE NextPlatform(f)
    BY <2>1, <2>2, <2>4, NextPlatformFacts, FetchEnds
  <2>5. QED BY <1>4, <2>3, <2>4 DEF DownloadAsset
<1>5. ASSUME NEW f \in Fetches, OpenTmp(f) PROVE FileInv'
  BY <1>5, OpenTmpFiles
<1>6. ASSUME NEW f \in Fetches, WriteTmp(f) PROVE FileInv'
  BY <1>6, WriteTmpFiles
<1>7. ASSUME NEW f \in Fetches, WriteTmpFails(f) PROVE FileInv'
  <2>1. Active(f) /\ ~ At(f, "version")
    BY <1>7 DEF WriteTmpFails, At, Active
  <2>2. UNCHANGED <<latest, data, tmp, fetched, version>> /\ cut' = cut \cup CutWith(f)
    BY <1>7, <2>1 DEF WriteTmpFails, CutWith
  <2>3. CASE Step(f, "done")
    BY <2>1, <2>2, <2>3, StepFacts, FetchEnds
  <2>4. CASE NextPlatform(f)
    BY <2>1, <2>2, <2>4, NextPlatformFacts, FetchEnds
  <2>5. QED BY <1>7, <2>3, <2>4 DEF WriteTmpFails
<1>8. ASSUME NEW f \in Fetches, Rename(f) PROVE FileInv'
  BY <1>8, RenameFiles
<1>9. ASSUME NEW f \in Fetches, SetVersion(f) PROVE FileInv'
  BY <1>9, SetVersionFiles
<1>10. ASSUME NEW f \in Fetches, AbandonFetch(f) PROVE FileInv'
  <2>1. Active(f)
    BY <1>10 DEF AbandonFetch
  <2>2. UNCHANGED <<latest, data, tmp, fetched, version>> /\ cut' = cut \cup CutWith(f)
    BY <1>10 DEF AbandonFetch
  <2>3. CASE ~ At(f, "write")
    <3>1. Step(f, "done")
      BY <1>10, <2>3 DEF AbandonFetch, Step
    <3>2. QED BY <2>1, <2>2, <3>1, StepFacts, FetchEnds
  <2>4. CASE At(f, "write")
    <3> DEFINE r == [fetch[f] EXCEPT !.dropped = TRUE]
    <3>1. /\ r.step = fetch[f].step /\ r.tag = fetch[f].tag
          /\ r.platform = fetch[f].platform /\ r.file = fetch[f].file
      BY DroppedRecord DEF TypeInv, TypeOK
    <3>2. fetch' = [fetch EXCEPT ![f] = r]
      BY <1>10, <2>4 DEF AbandonFetch
    <3>3. cut' = cut
      BY <2>2, <2>4 DEF At, CutWith
    <3> HIDE DEF r
    <3>4. \A g \in Fetches :
            /\ fetch'[g].step = fetch[g].step /\ fetch'[g].tag = fetch[g].tag
            /\ fetch'[g].platform = fetch[g].platform
            /\ fetch'[g].file = fetch[g].file
      BY <3>1, <3>2 DEF TypeInv, TypeOK
    <3> USE DEF FileInv, At, Active, P
    <3>5. OneActive' /\ FilesReached' /\ TmpApart' /\ FetchHolds'
      BY <2>2, <3>4 DEF OneActive, FilesReached, Reached, TmpApart, FetchHolds
    <3>6. OfferedInOrder' /\ VersionFollows'
      BY <2>2, <3>3, <3>4 DEF OfferedInOrder, VersionFollows, Build
    <3>7. QED BY <3>5, <3>6
  <2>5. QED BY <2>3, <2>4
<1>11. ASSUME NEW d \in Downloads, NEW p \in Platforms, BeginDownload(d, p)
       PROVE  FileInv'
  BY <1>11, <1>a, OtherFiles DEF BeginDownload, DownloadOnly
<1>12. ASSUME NEW d \in Downloads,
              \/ ReadTemplate(d) \/ ReadServerUrl(d) \/ ReadDeviceName(d)
              \/ PatchBinary(d)
       PROVE  FileInv'
  BY <1>12, <1>a, OtherFiles
     DEF ReadTemplate, ReadServerUrl, ReadDeviceName, PatchBinary, DownloadOnly
<1>13. ASSUME NEW s \in Saves,
              SaveServerUrl(s) \/ SaveDeviceName(s) \/ AbandonSave(s)
       PROVE  FileInv'
  BY <1>13, <1>a, OtherFiles
     DEF SaveServerUrl, SaveDeviceName, AbandonSave, SaveOnly
<1>14. CASE Restart
  BY <1>14, RestartFiles
<1>15. CASE UNCHANGED vars
  BY <1>15, <1>a, OtherFiles DEF vars
<1>16. ASSUME NEW f \in Fetches, RenameFails(f) \/ SetVersionFails(f) PROVE FileInv'
  <2>1. Active(f) /\ NextPlatform(f)
    BY <1>16 DEF RenameFails, SetVersionFails, At, Active
  <2>2. UNCHANGED <<latest, data, tmp, fetched, version>> /\ cut' = cut \cup CutWith(f)
    BY <1>16 DEF RenameFails, SetVersionFails, CutWith, At
  <2>3. QED BY <2>1, <2>2, NextPlatformFacts, FetchEnds
<1>17. QED
  BY NextCases, <1>1, <1>2, <1>3, <1>4, <1>5, <1>6, <1>7, <1>8, <1>9, <1>10,
     <1>11, <1>12, <1>13, <1>14, <1>15, <1>16

LEMMA FileInvariant ==
  ASSUME MaxParallel = 1
  PROVE  Spec => [](TypeInv /\ FileInv)
<1>1. Init => TypeInv /\ FileInv
  BY TypeInit, FileInit
<1>2. TypeInv /\ FileInv /\ [Next]_vars => (TypeInv /\ FileInv)'
  BY TypeStep, FileStep
<1>3. QED BY <1>1, <1>2, PTL DEF Spec

\* Without overlapping fetches the file offered for a platform is whole at
\* any time (release_fetch.rs:94-100).
THEOREM TemplatesWhole ==
  ASSUME MaxParallel = 1
  PROVE  Spec => []TemplateWhole
<1>1. TypeInv /\ FileInv => TemplateWhole
  <2> SUFFICES ASSUME TypeInv, FileInv, NEW p \in Platforms
               PROVE  Build(p) # Torn
    BY DEF TemplateWhole
  <2>1. CASE fetched[p] = None
    BY <2>1, JsonAssumption DEF Build, Torn
  <2>2. CASE fetched[p] # None
    BY <2>2, BoundsAssumption
       DEF Build, Torn, FileInv, OfferedInOrder, TypeInv, TypeOK, Releases
  <2>3. QED BY <2>1, <2>2
<1>2. QED BY <1>1, FileInvariant, PTL

\* Without overlapping fetches the version shown for a platform is that of the
\* file offered (release_fetch.rs:94-106), once no fetch is at work on it, unless
\* the last one to replace the file did not get to store its version, cut short
\* or by an error of the database.
THEOREM VersionsMatch ==
  ASSUME MaxParallel = 1
  PROVE  Spec => []VersionMatches
<1>1. FileInv => VersionMatches
  BY DEF FileInv, VersionFollows, VersionMatches, At, Active
<1>2. QED BY <1>1, FileInvariant, PTL

\* A step offers no build older than the one it replaces, and none is lost.
Offers ==
  \A p \in Platforms : Build(p) \in Releases =>
    Build(p)' \in Releases /\ Build(p)' >= Build(p)

\* A step leaves every offered build, or replaces it by one not older: the
\* only step that replaces it is Rename, and it does so by the release its
\* fetch holds.
LEMMA OffersStep ==
  ASSUME TypeInv, FileInv, TypeInv', FileInv', Next
  PROVE  Offers
<1> USE DEF Offers
<1>1. \A p \in Platforms : Build(p) \in Releases => fetched[p] # None
  BY JsonAssumption, BoundsAssumption DEF Build, Releases
<1>2. ASSUME \A p \in Platforms : fetched[p] # None =>
               fetched'[p] = fetched[p] /\ data'[fetched[p]][p] = data[fetched[p]][p]
      PROVE  Offers
  BY <1>1, <1>2, BoundsAssumption DEF Build, Releases
<1>3. ASSUME UNCHANGED <<fetched, data>> PROVE Offers
  BY <1>2, <1>3
<1>4. ASSUME NEW f \in Fetches, OpenTmp(f) PROVE Offers
  <2> DEFINE g == IF tmp[P(f)] = None THEN f ELSE tmp[P(f)]
  <2>1. P(f) \in Platforms /\ g \in Fetches /\ fetched[P(f)] # g
    BY <1>4, BoundsAssumption
       DEF OpenTmp, TypeInv, TypeOK, FetchOK, At, Active, FileInv, TmpApart,
           FilesReached, Reached, Platforms
  <2>2. data' = [data EXCEPT ![g][P(f)] = Torn] /\ UNCHANGED fetched
    BY <1>4 DEF OpenTmp
  <2> HIDE DEF g
  <2>3. QED BY <1>2, <2>1, <2>2 DEF TypeInv, TypeOK
<1>5. ASSUME NEW f \in Fetches, WriteTmp(f) PROVE Offers
  <2>1. /\ P(f) \in Platforms /\ fetch[f].file \in Fetches
        /\ fetched[P(f)] # fetch[f].file
    BY <1>5 DEF WriteTmp, TypeInv, FetchOK, At, Active, FileInv, FetchHolds,
                TmpApart
  <2>2. /\ \E v : data' = [data EXCEPT ![fetch[f].file][P(f)] = v]
        /\ UNCHANGED fetched
    BY <1>5 DEF WriteTmp
  <2>3. QED BY <1>2, <2>1, <2>2 DEF TypeInv, TypeOK
<1>6. ASSUME NEW f \in Fetches, Rename(f) PROVE Offers
  <2>1. /\ P(f) \in Platforms /\ Active(f)
        /\ tmp[P(f)] \in Fetches /\ fetch[f].tag \in Releases
        /\ fetched' = [fetched EXCEPT ![P(f)] = tmp[P(f)]]
        /\ data[tmp[P(f)]][P(f)] = fetch[f].tag
        /\ UNCHANGED data
    BY <1>6, RenameFacts
  <2> SUFFICES ASSUME NEW p \in Platforms, Build(p) \in Releases
               PROVE  Build(p)' \in Releases /\ Build(p)' >= Build(p)
    OBVIOUS
  <2>2. CASE p # P(f)
    <3>1. Build(p)' = Build(p)
      BY <2>1, <2>2 DEF Build, TypeInv, TypeOK
    <3>2. QED BY <3>1, BoundsAssumption DEF Releases
  <2>3. CASE p = P(f)
    <3>1. Build(p)' = fetch[f].tag
      BY <2>1, <2>3, BoundsAssumption DEF Build, TypeInv, TypeOK
    <3>2. Build(p) <= fetch[f].tag
      BY <1>1, <2>1, <2>3 DEF FileInv, OfferedInOrder, Build
    <3>3. QED BY <2>1, <3>1, <3>2, BoundsAssumption DEF Releases
  <2>4. QED BY <2>2, <2>3
<1>7. ASSUME NEW f \in Fetches,
             \/ BeginFetch(f) \/ DownloadAsset(f) \/ WriteTmpFails(f)
             \/ RenameFails(f) \/ SetVersion(f) \/ SetVersionFails(f)
             \/ AbandonFetch(f)
      PROVE  UNCHANGED <<fetched, data>>
  BY <1>7 DEF BeginFetch, DownloadAsset, WriteTmpFails, RenameFails, SetVersion,
              SetVersionFails, AbandonFetch
<1>8. ASSUME NEW d \in Downloads, NEW p \in Platforms, BeginDownload(d, p)
      PROVE  UNCHANGED <<fetched, data>>
  BY <1>8 DEF BeginDownload, DownloadOnly
<1>9. ASSUME NEW d \in Downloads,
             \/ ReadTemplate(d) \/ ReadServerUrl(d) \/ ReadDeviceName(d)
             \/ PatchBinary(d)
      PROVE  UNCHANGED <<fetched, data>>
  BY <1>9 DEF ReadTemplate, ReadServerUrl, ReadDeviceName, PatchBinary,
              DownloadOnly
<1>10. ASSUME NEW s \in Saves,
              SaveServerUrl(s) \/ SaveDeviceName(s) \/ AbandonSave(s)
       PROVE  UNCHANGED <<fetched, data>>
  BY <1>10 DEF SaveServerUrl, SaveDeviceName, AbandonSave, SaveOnly
<1>11. ASSUME NEW p \in Platforms, PlaceManual(p) \/ Publish \/ Restart
       PROVE  UNCHANGED <<fetched, data>>
  BY <1>11 DEF PlaceManual, Publish, Restart
<1>12. 1 \in Platforms
  BY PlatformsAssumption DEF Platforms
<1> HIDE DEF Offers
<1>13. QED
  BY NextCases, <1>3, <1>4, <1>5, <1>6, <1>7, <1>8, <1>9, <1>10, <1>11, <1>12

\* Without overlapping fetches no step replaces a build by an older one
\* (release_fetch.rs:36-66).
THEOREM BuildsNeverDowngrade ==
  ASSUME MaxParallel = 1
  PROVE  Spec => NeverDowngrades
<1>1. TypeInv /\ FileInv /\ TypeInv' /\ FileInv' /\ [Next]_vars => [Offers]_vars
  BY OffersStep
<1>2. [][Offers]_vars <=> NeverDowngrades
  BY DEF Offers, NeverDowngrades
<1>3. QED BY <1>1, <1>2, FileInvariant, TypeCorrect, PTL DEF Spec

-----------------------------------------------------------------------------
(* What a download reads and sends. *)

\* What the steps of one download do to its locals.
LEMMA BeginDownloadFacts ==
  ASSUME TypeInv, NEW d \in Downloads, NEW p \in Platforms, BeginDownload(d, p)
  PROVE  /\ download[d].step = "idle" /\ download'[d].step = "read"
         /\ \A e \in Downloads \ {d} : download'[e] = download[e]
<1> DEFINE r == [download[d] EXCEPT !.step = "read", !.platform = p,
                                    !.source = resolve_template_path(p)]
<1>1. download[d] \in DownloadState
  BY DEF TypeInv, TypeOK
<1>2. r.step = "read"
  BY <1>1 DEF DownloadState
<1>3. download' = [download EXCEPT ![d] = r] /\ download[d].step = "idle"
  BY DEF BeginDownload
<1> HIDE DEF r
<1>4. QED BY <1>2, <1>3 DEF TypeInv, TypeOK

LEMMA ReadTemplateFacts ==
  ASSUME TypeInv, NEW d \in Downloads, ReadTemplate(d)
  PROVE  /\ download[d].step = "read"
         /\ \/ download'[d].step = "done"
            \/ /\ download'[d].step = "url" /\ download'[d].contents # None
               /\ \E p \in Platforms :
                    download'[d].contents \in {manual[p], Build(p)}
         /\ \A e \in Downloads \ {d} : download'[e] = download[e]
<1> DEFINE p == download[d].platform
           file == IF download[d].source = "manual" THEN manual[p] ELSE Build(p)
<1>0. PICK c \in {file, None} :
        download' = [download EXCEPT ![d] =
          [download[d] EXCEPT !.step = IF c = None THEN "done" ELSE "url",
                   !.contents = c, !.platform = None, !.source = None]]
  BY DEF ReadTemplate
<1> DEFINE st == IF c = None THEN "done" ELSE "url"
           r == [download[d] EXCEPT !.step = st, !.contents = c,
                                    !.platform = None, !.source = None]
<1>1. download[d] \in DownloadState
  BY DEF TypeInv, TypeOK
<1>2. p \in Platforms /\ c \in {manual[p], Build(p), None}
  BY DEF TypeInv, DownloadOK, ReadTemplate
<1>3. download' = [download EXCEPT ![d] = r] /\ download[d].step = "read"
  BY <1>0 DEF ReadTemplate
<1> HIDE DEF p
<1>4. r.step = st /\ r.contents = c
  BY <1>1 DEF DownloadState
<1> HIDE DEF r
<1>5. download'[d] = r /\ \A e \in Downloads \ {d} : download'[e] = download[e]
  BY <1>3 DEF TypeInv, TypeOK
<1>6. QED BY <1>2, <1>3, <1>4, <1>5

LEMMA ReadServerUrlFacts ==
  ASSUME TypeInv, NEW d \in Downloads, ReadServerUrl(d)
  PROVE  /\ download[d].step = "url" /\ download'[d].step = "name"
         /\ download'[d].contents = download[d].contents
         /\ download'[d].unread => download'[d].config.server_url = None
         /\ \A e \in Downloads \ {d} : download'[e] = download[e]
<1>1. download[d] \in DownloadState /\ download[d].step = "url"
  BY DEF TypeInv, TypeOK, ReadServerUrl
<1>2. PICK url \in {settings.server_url, None} : ReadsUrl(d, url)
  BY UrlRead DEF TypeInv
<1> DEFINE b == SaveInProgress \/ mixed
           u == url # settings.server_url
           cf == [download[d].config EXCEPT !.server_url = url]
           r == [download[d] EXCEPT !.step = "name", !.config = cf, !.raced = b,
                                    !.unread = u]
<1>3. download' = [download EXCEPT ![d] = r]
  BY <1>2 DEF ReadsUrl
<1>4. u => cf.server_url = None
  BY <1>1, <1>2 DEF DownloadState, Configs
<1> HIDE DEF b, cf, u
<1>5. /\ r.step = "name" /\ r.contents = download[d].contents
      /\ r.config = cf /\ r.unread = u
  BY <1>1 DEF DownloadState
<1> HIDE DEF r
<1>6. download'[d] = r /\ \A e \in Downloads \ {d} : download'[e] = download[e]
  BY <1>3 DEF TypeInv, TypeOK
<1>7. QED BY <1>1, <1>4, <1>5, <1>6

LEMMA ReadDeviceNameFacts ==
  ASSUME TypeInv, NEW d \in Downloads, ReadDeviceName(d)
  PROVE  /\ download[d].step = "name" /\ download'[d].step = "patch"
         /\ download'[d].contents = download[d].contents
         /\ download'[d].config.server_url = download[d].config.server_url
         /\ ~ download'[d].raced => ~ SaveInProgress /\ ~ mixed
         /\ \/ download[d].unread /\ download'[d].unread
            \/ download'[d].unread /\ download'[d].config.device_name = None
            \/ ~ download'[d].raced =>
                 /\ download'[d].config.server_url = settings.server_url
                 /\ download'[d].config.device_name = settings.device_name
         /\ \A e \in Downloads \ {d} : download'[e] = download[e]
<1>1. download[d] \in DownloadState /\ download[d].step = "name"
  BY DEF TypeInv, TypeOK, ReadDeviceName
<1>2. PICK name \in {settings.device_name, None} : ReadsName(d, name)
  BY NameRead DEF TypeInv
<1> DEFINE b == \/ download[d].raced \/ SaveInProgress \/ mixed
                \/ /\ settings.server_url # download[d].config.server_url
                   /\ ~download[d].unread
           u == download[d].unread \/ name # settings.device_name
           cf == [download[d].config EXCEPT !.device_name = name]
           r == [download[d] EXCEPT !.step = "patch", !.config = cf, !.raced = b,
                                    !.unread = u]
<1>3. download' = [download EXCEPT ![d] = r]
  BY <1>2 DEF ReadsName
<1>4. /\ cf.server_url = download[d].config.server_url
      /\ cf.device_name = name
  BY <1>1 DEF DownloadState, Configs
<1>5. /\ ~ b => ~ SaveInProgress /\ ~ mixed
      /\ \/ download[d].unread /\ u
         \/ u /\ name = None
         \/ ~ b => /\ settings.server_url = download[d].config.server_url
                   /\ name = settings.device_name
  BY <1>2
<1> HIDE DEF b, cf, u
<1>6. /\ r.step = "patch" /\ r.contents = download[d].contents
      /\ r.config = cf /\ r.raced = b /\ r.unread = u
  BY <1>1 DEF DownloadState
<1> HIDE DEF r
<1>7. download'[d] = r /\ \A e \in Downloads \ {d} : download'[e] = download[e]
  BY <1>3 DEF TypeInv, TypeOK
<1>8. QED BY <1>1, <1>4, <1>5, <1>6, <1>7

LEMMA PatchBinaryFacts ==
  ASSUME TypeInv, NEW d \in Downloads, PatchBinary(d)
  PROVE  /\ download[d].step = "patch" /\ download'[d].step = "done"
         /\ download'[d].contents = download[d].contents
         /\ download'[d].config = download[d].config
         /\ \E t \in Bytes(download[d].contents) :
              served'[d] = patch_binary(download[d].config, t)
         /\ \A e \in Downloads \ {d} :
              download'[e] = download[e] /\ served'[e] = served[e]
<1> DEFINE r == [download[d] EXCEPT !.step = "done"]
<1>1. download[d] \in DownloadState
  BY DEF TypeInv, TypeOK
<1>2. download' = [download EXCEPT ![d] = r] /\ download[d].step = "patch"
  BY DEF PatchBinary
<1>3. /\ r.step = "done" /\ r.contents = download[d].contents
      /\ r.config = download[d].config
  BY <1>1 DEF DownloadState
<1> HIDE DEF r
<1>4. /\ \E t \in Bytes(download[d].contents) :
           served'[d] = patch_binary(download[d].config, t)
      /\ \A e \in Downloads \ {d} : served'[e] = served[e]
  BY DEF PatchBinary, TypeInv, TypeOK
<1>5. download'[d] = r /\ \A e \in Downloads \ {d} : download'[e] = download[e]
  BY <1>2 DEF TypeInv, TypeOK
<1>6. QED BY <1>2, <1>3, <1>4, <1>5

LEMMA RestartDownloads ==
  ASSUME TypeInv, Restart
  PROVE  \A d \in Downloads :
           \/ download'[d] = download[d]
           \/ download[d].step # "done" /\ download'[d].step = "done"
<1> SUFFICES ASSUME NEW d \in Downloads
             PROVE  \/ download'[d] = download[d]
                    \/ download[d].step # "done" /\ download'[d].step = "done"
  OBVIOUS
<1> DEFINE r == [download[d] EXCEPT !.step = "done", !.contents = None,
                                    !.config = NoConfig]
<1>1. download[d] \in DownloadState
  BY DEF TypeInv, TypeOK
<1>2. r.step = "done"
  BY <1>1 DEF DownloadState
<1>3. download'[d] = IF download[d].step \notin {"idle", "done"}
                     THEN r ELSE download[d]
  BY DEF Restart
<1> HIDE DEF r
<1>4. QED BY <1>2, <1>3

\* The settings between two saves are of one save, unless a save went wrong
\* or met another; during a save the URL is that save's already.
SavedTogether ==
  ~ mixed =>
    /\ \A s \in Saves : save[s] = "name" => settings.server_url = s
    /\ SaveInProgress \/ settings.server_url = settings.device_name

\* A URL that could not be read is missing.
UnreadIsNone ==
  \A d \in Downloads :
    download[d].step = "name" /\ download[d].unread
    => download[d].config.server_url = None

SaveInv == SavedTogether /\ UnreadIsNone /\ SettingsServedTogether

\* Nothing reads or saves settings.
LEMMA OtherSaves ==
  ASSUME SaveInv, UNCHANGED <<settings, save, mixed, download>>
  PROVE  SaveInv'
BY DEF SaveInv, SavedTogether, SettingsServedTogether, SaveInProgress,
       UnreadIsNone

\* A download moves, but not to "patch", and has not failed to read a URL that
\* it holds.
LEMMA ReadingSaves ==
  ASSUME SaveInv, NEW d \in Downloads, UNCHANGED <<settings, save, mixed>>,
         download'[d].step # "patch",
         download'[d].step = "name" /\ download'[d].unread
           => download'[d].config.server_url = None,
         \A e \in Downloads \ {d} : download'[e] = download[e]
  PROVE  SaveInv'
BY DEF SaveInv, SavedTogether, SettingsServedTogether, SaveInProgress,
       UnreadIsNone

LEMMA SaveStepSaves ==
  ASSUME TypeInv, SaveInv, NEW s \in Saves,
         SaveServerUrl(s) \/ SaveDeviceName(s) \/ AbandonSave(s)
  PROVE  SaveInv'
<1>1. UNCHANGED download
  BY DEF SaveServerUrl, SaveDeviceName, AbandonSave, SaveOnly
<1>2. SettingsServedTogether' /\ UnreadIsNone'
  BY <1>1 DEF SaveInv, SettingsServedTogether, UnreadIsNone
<1>3. SavedTogether'
  <2> SUFFICES ASSUME ~ mixed' PROVE SavedTogether'
    BY DEF SavedTogether
  <2>1. settings \in Configs /\ save \in [Saves -> {"idle", "name", "done"}]
    BY DEF TypeInv, TypeOK
  <2>2. CASE SaveServerUrl(s)
    <3>1. ~ SaveInProgress /\ settings' = [settings EXCEPT !.server_url = s]
      BY <2>2 DEF SaveServerUrl
    <3>2. settings'.server_url = s
      BY <2>1, <3>1 DEF Configs
    <3>3. save'[s] = "name" /\ \A t \in Saves \ {s} : save'[t] # "name"
      BY <2>1, <2>2, <3>1 DEF SaveServerUrl, SaveInProgress
    <3>4. QED BY <3>2, <3>3 DEF SavedTogether, SaveInProgress
  <2>3. CASE SaveDeviceName(s)
    <3>1. /\ save[s] = "name" /\ settings' = [settings EXCEPT !.device_name = s]
          /\ ~ mixed
      BY <2>3 DEF SaveDeviceName
    <3>2. settings.server_url = s /\ \A t \in Saves : save[t] = "name" => t = s
      BY <2>1, <3>1 DEF SaveInv, SavedTogether
    <3>3. settings'.server_url = s /\ settings'.device_name = s
      BY <2>1, <3>1, <3>2 DEF Configs
    <3>4. \A t \in Saves : save'[t] # "name"
      BY <2>1, <2>3, <3>2 DEF SaveDeviceName
    <3>5. QED BY <3>3, <3>4 DEF SavedTogether
  <2>4. CASE AbandonSave(s)
    BY <2>4 DEF AbandonSave
  <2>5. QED BY <2>2, <2>3, <2>4
<1>4. QED BY <1>2, <1>3 DEF SaveInv

LEMMA SaveInvStep == TypeInv /\ SaveInv /\ [Next]_vars => SaveInv'
<1> SUFFICES ASSUME TypeInv, SaveInv, [Next]_vars PROVE SaveInv'
  OBVIOUS
<1> USE DEF admin, page
<1>1. CASE Publish
  BY <1>1, OtherSaves DEF Publish
<1>2. ASSUME NEW p \in Platforms, PlaceManual(p) PROVE SaveInv'
  BY <1>2, OtherSaves DEF PlaceManual
<1>3. ASSUME NEW f \in Fetches,
             \/ BeginFetch(f) \/ DownloadAsset(f) \/ OpenTmp(f)
             \/ WriteTmp(f) \/ WriteTmpFails(f) \/ Rename(f)
             \/ RenameFails(f) \/ SetVersion(f) \/ SetVersionFails(f)
             \/ AbandonFetch(f)
      PROVE  SaveInv'
  <2>1. UNCHANGED <<settings, save, mixed, download>>
    BY <1>3 DEF BeginFetch, DownloadAsset, OpenTmp, WriteTmp, WriteTmpFails,
                Rename, RenameFails, SetVersion, SetVersionFails, AbandonFetch
  <2>2. QED BY <2>1, OtherSaves
<1>4. ASSUME NEW d \in Downloads, NEW p \in Platforms, BeginDownload(d, p)
      PROVE  SaveInv'
  <2>1. UNCHANGED <<settings, save, mixed>>
    BY <1>4 DEF BeginDownload, DownloadOnly
  <2>2. QED BY <1>4, <2>1, BeginDownloadFacts, ReadingSaves
<1>5. ASSUME NEW d \in Downloads, ReadTemplate(d) \/ ReadServerUrl(d) \/ PatchBinary(d)
      PROVE  SaveInv'
  <2>1. UNCHANGED <<settings, save, mixed>>
    BY <1>5 DEF ReadTemplate, ReadServerUrl, PatchBinary, DownloadOnly
  <2>2. /\ download'[d].step # "patch"
        /\ download'[d].step = "name" /\ download'[d].unread
             => download'[d].config.server_url = None
        /\ \A e \in Downloads \ {d} : download'[e] = download[e]
    BY <1>5, ReadTemplateFacts, ReadServerUrlFacts, PatchBinaryFacts
  <2>3. QED BY <2>1, <2>2, ReadingSaves
<1>6. ASSUME NEW d \in Downloads, ReadDeviceName(d) PROVE SaveInv'
  <2>1. UNCHANGED <<settings, save, mixed>>
    BY <1>6 DEF ReadDeviceName, DownloadOnly
  <2>2. SavedTogether' /\ UnreadIsNone'
    BY <1>6, <2>1, ReadDeviceNameFacts
       DEF SaveInv, SavedTogether, SaveInProgress, UnreadIsNone
  <2>3. SettingsServedTogether'
    BY <1>6, <2>1, ReadDeviceNameFacts
       DEF SaveInv, SavedTogether, SettingsServedTogether, UnreadIsNone
  <2>4. QED BY <2>2, <2>3 DEF SaveInv
<1>7. ASSUME NEW s \in Saves,
             SaveServerUrl(s) \/ SaveDeviceName(s) \/ AbandonSave(s)
      PROVE  SaveInv'
  BY <1>7, SaveStepSaves
<1>8. CASE Restart
  <2>1. UNCHANGED settings /\ (~ mixed' => ~ mixed /\ ~ SaveInProgress)
    BY <1>8 DEF Restart, SaveInProgress, TypeInv, TypeOK
  <2>2. \A s \in Saves : save'[s] # "name"
    BY <1>8 DEF Restart
  <2>3. SavedTogether'
    BY <2>1, <2>2 DEF SaveInv, SavedTogether
  <2>4. SettingsServedTogether' /\ UnreadIsNone'
    BY <1>8, <2>1, RestartDownloads DEF SaveInv, SettingsServedTogether, UnreadIsNone
  <2>5. QED BY <2>3, <2>4 DEF SaveInv
<1>9. CASE UNCHANGED vars
  BY <1>9, OtherSaves DEF vars
<1>10. QED
  BY NextCases, <1>1, <1>2, <1>3, <1>4, <1>5, <1>6, <1>7, <1>8, <1>9

\* The URL and the name in a client were saved together (admin.rs:54,
\* download.rs:108), or one could not be read and is missing, unless a save was
\* under way while they were read, or one that had written one of them only or
\* overlapped another was not yet followed by an undisturbed one.
THEOREM SettingsTogether == Spec => []SettingsServedTogether
<1>1. Init => TypeInv /\ SaveInv
  <2>1. Init => SaveInv
    BY DEF Init, NoConfig, SaveInv, SavedTogether, SettingsServedTogether,
           UnreadIsNone
  <2>2. QED BY <2>1, TypeInit
<1>2. TypeInv /\ SaveInv /\ [Next]_vars => (TypeInv /\ SaveInv)'
  BY TypeStep, SaveInvStep
<1>3. TypeInv /\ SaveInv => SettingsServedTogether
  BY DEF SaveInv
<1>4. QED BY <1>1, <1>2, <1>3, PTL DEF Spec

\* A download holds a whole build once it has read one, and what it sends is
\* that build with its settings patched in.
ServedInv ==
  \A d \in Downloads :
    /\ download[d].step \in {"url", "name", "patch"} =>
         download[d].contents \in Releases \cup {Own}
    /\ served[d] # None =>
         /\ download[d].step = "done"
         /\ download[d].contents \in Releases \cup {Own}
         /\ served[d] = patch_binary(download[d].config,
                                     Binary[download[d].contents])

LEMMA WholeBytes ==
  ASSUME NEW c \in Releases \cup {Own}
  PROVE  Bytes(c) = {Binary[c]} /\ Binary[c] \in Seq(Nat) /\ c # Torn
BY BoundsAssumption, BinaryAssumption DEF Bytes, Torn, Releases

LEMMA ServedStep == TypeInv /\ TemplateWhole /\ ServedInv /\ [Next]_vars => ServedInv'
<1> SUFFICES ASSUME TypeInv, TemplateWhole, ServedInv, [Next]_vars PROVE ServedInv'
  OBVIOUS
<1> USE DEF admin, page
<1>a. ASSUME UNCHANGED <<download, served>> PROVE ServedInv'
  BY <1>a DEF ServedInv
<1>1. CASE Publish
  BY <1>1, <1>a DEF Publish
<1>2. ASSUME NEW p \in Platforms, PlaceManual(p) PROVE ServedInv'
  BY <1>2, <1>a DEF PlaceManual
<1>3. ASSUME NEW f \in Fetches,
             \/ BeginFetch(f) \/ DownloadAsset(f) \/ OpenTmp(f)
             \/ WriteTmp(f) \/ WriteTmpFails(f) \/ Rename(f)
             \/ RenameFails(f) \/ SetVersion(f) \/ SetVersionFails(f)
             \/ AbandonFetch(f)
      PROVE  ServedInv'
  <2>1. UNCHANGED <<download, served>>
    BY <1>3 DEF BeginFetch, DownloadAsset, OpenTmp, WriteTmp, WriteTmpFails,
                Rename, RenameFails, SetVersion, SetVersionFails, AbandonFetch
  <2>2. QED BY <2>1, <1>a
<1>4. ASSUME NEW d \in Downloads, NEW p \in Platforms, BeginDownload(d, p)
      PROVE  ServedInv'
  <2>1. UNCHANGED served
    BY <1>4 DEF BeginDownload
  <2>2. QED BY <1>4, <2>1, BeginDownloadFacts DEF ServedInv
<1>5. ASSUME NEW d \in Downloads, ReadTemplate(d) PROVE ServedInv'
  <2>1. UNCHANGED served
    BY <1>5 DEF ReadTemplate
  <2>2. \A p \in Platforms : /\ manual[p] \in Releases \cup {Own, None}
                             /\ Build(p) \in Releases \cup {Own, None}
    BY DEF TypeInv, TypeOK, TemplateWhole, Build
  <2>3. download'[d].step = "url" => download'[d].contents \in Releases \cup {Own}
    BY <1>5, <2>2, ReadTemplateFacts
  <2>4. served[d] = None
    BY <1>5, ReadTemplateFacts DEF ServedInv
  <2>5. QED BY <1>5, <2>1, <2>3, <2>4, ReadTemplateFacts DEF ServedInv
<1>6. ASSUME NEW d \in Downloads, ReadServerUrl(d) \/ ReadDeviceName(d)
      PROVE  ServedInv'
  <2>1. UNCHANGED served
    BY <1>6 DEF ReadServerUrl, ReadDeviceName
  <2>2. QED BY <1>6, <2>1, ReadServerUrlFacts, ReadDeviceNameFacts DEF ServedInv
<1>7. ASSUME NEW d \in Downloads, PatchBinary(d) PROVE ServedInv'
  <2>1. download[d].contents \in Releases \cup {Own}
    BY <1>7, PatchBinaryFacts DEF ServedInv
  <2>2. served'[d] = patch_binary(download[d].config, Binary[download[d].contents])
    BY <1>7, <2>1, PatchBinaryFacts, WholeBytes
  <2>3. QED BY <1>7, <2>1, <2>2, PatchBinaryFacts DEF ServedInv
<1>8. ASSUME NEW s \in Saves,
             SaveServerUrl(s) \/ SaveDeviceName(s) \/ AbandonSave(s)
      PROVE  ServedInv'
  BY <1>8, <1>a DEF SaveServerUrl, SaveDeviceName, AbandonSave, SaveOnly
<1>9. CASE Restart
  <2>1. UNCHANGED served
    BY <1>9 DEF Restart
  <2>2. QED BY <1>9, <2>1, RestartDownloads DEF ServedInv
<1>10. CASE UNCHANGED vars
  BY <1>10, <1>a DEF vars
<1>11. QED
  BY NextCases, <1>1, <1>2, <1>3, <1>4, <1>5, <1>6, <1>7, <1>8, <1>9, <1>10

\* Without overlapping fetches a download delivers a whole build, the template
\* but for its slot, from which the client reads the configuration back
\* (download.rs:98-124, embedded_config.rs:49).
THEOREM ServesConfigured ==
  ASSUME MaxParallel = 1
  PROVE  Spec => []ServedIsConfigured
<1>1. Init => ServedInv
  BY DEF Init, ServedInv
<1>2. TypeInv /\ TemplateWhole /\ ServedInv /\ [Next]_vars => ServedInv'
  BY ServedStep
<1>3. TypeInv /\ ServedInv => ServedIsConfigured
  <2> SUFFICES ASSUME TypeInv, ServedInv, NEW d \in Downloads, served[d] # None
               PROVE  LET template == Binary[download[d].contents]
                          pos == find_subslice(template, CONFIG_MAGIC)
                      IN /\ download[d].contents # Torn
                         /\ find_in_binary(served[d]) = download[d].config
                         /\ Len(served[d]) = Len(template)
                         /\ \A i \in DOMAIN template \ (pos + 1 .. pos + TOTAL_LEN) :
                              served[d][i] = template[i]
    BY DEF ServedIsConfigured
  <2>1. /\ download[d].contents \in Releases \cup {Own}
        /\ served[d] = patch_binary(download[d].config, Binary[download[d].contents])
    BY DEF ServedInv
  <2>2. /\ Binary[download[d].contents] \in Seq(Nat)
        /\ download[d].contents # Torn
    BY <2>1, WholeBytes
  <2>3. download[d].config \in DOMAIN Json
    BY BinaryAssumption DEF TypeInv, TypeOK, DownloadState
  <2>4. QED BY <2>1, <2>2, <2>3, PatchRoundTrip
<1>4. QED BY <1>1, <1>2, <1>3, FileInvariant, TemplatesWhole, PTL DEF Spec

=============================================================================
