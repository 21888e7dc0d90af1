--------------------------- MODULE EmbeddedConfig ---------------------------
(***************************************************************************)
(* The slot of a client's binary that the server fills and the client      *)
(* reads back (embedded_config.rs), as functions of byte sequences.        *)
(*                                                                         *)
(* The JSON of a configuration is a constant: what the code relies on is   *)
(* that it has no zero byte and that parsing gives the configuration back. *)
(* Offsets count from 0, as in the code.  None stands for Ok(None) and for *)
(* an error: every caller treats them alike.                               *)
(***************************************************************************)
EXTENDS Integers, Sequences, FiniteSetsExt

CONSTANTS
  CONFIG_MAGIC,      \* the marker's bytes
  CONFIG_SLOT_SIZE,
  Json,              \* configuration -> its JSON
  None

ASSUME SlotAssumption ==
  /\ CONFIG_MAGIC \in Seq(Nat) /\ CONFIG_MAGIC # <<>>
  /\ CONFIG_SLOT_SIZE \in Nat \ {0}

\* serde_json writes a zero as an escape, and writes nothing twice.
ASSUME JsonAssumption ==
  /\ \A c \in DOMAIN Json : Json[c] \in Seq(Nat \ {0}) /\ Json[c] # <<>>
  /\ \A c, d \in DOMAIN Json : Json[c] = Json[d] => c = d
  /\ None \notin DOMAIN Json \cup Int

TOTAL_LEN == Len(CONFIG_MAGIC) + CONFIG_SLOT_SIZE

Zeros(n) == [i \in 1 .. n |-> 0]

\* The static slot of a build that nobody has patched.
build_marker_slot == CONFIG_MAGIC \o Zeros(CONFIG_SLOT_SIZE)

find_subslice(haystack, needle) ==
  LET at == {i \in 0 .. Len(haystack) - Len(needle) :
               SubSeq(haystack, i + 1, i + Len(needle)) = needle}
  IN IF at = {} THEN None ELSE Min(at)

to_slot_bytes(config) ==
  LET json == Json[config]
  IN IF Len(json) > CONFIG_SLOT_SIZE THEN None
     ELSE json \o Zeros(CONFIG_SLOT_SIZE - Len(json))

\* Mutant: a slot must have its terminator.
from_slot_bytes_terminated(bytes) ==
  LET zeros == {i \in 1 .. Len(bytes) : bytes[i] = 0}
      text  == SubSeq(bytes, 1, IF zeros = {} THEN 0 ELSE Min(zeros) - 1)
  IN IF \E c \in DOMAIN Json : Json[c] = text
     THEN CHOOSE c \in DOMAIN Json : Json[c] = text ELSE None

\* Up to the first zero, or all of a slot that is full.
from_slot_bytes(bytes) ==
  LET zeros == {i \in 1 .. Len(bytes) : bytes[i] = 0}
      text  == SubSeq(bytes, 1, IF zeros = {} THEN Len(bytes)
                                              ELSE Min(zeros) - 1)
  IN IF \E c \in DOMAIN Json : Json[c] = text
     THEN CHOOSE c \in DOMAIN Json : Json[c] = text ELSE None

find_in_binary(data) ==
  LET pos   == find_subslice(data, CONFIG_MAGIC)
      start == pos + Len(CONFIG_MAGIC)
      end   == Min({start + CONFIG_SLOT_SIZE, Len(data)})
  IN IF pos = None THEN None
     ELSE IF end <= start THEN None
     ELSE from_slot_bytes(SubSeq(data, start + 1, end))

\* Refused without a marker, with a slot cut off by the end of the file, and
\* when the configuration does not fit.
patch_binary(config, template) ==
  LET pos   == find_subslice(template, CONFIG_MAGIC)
      start == pos + Len(CONFIG_MAGIC)
      end   == start + CONFIG_SLOT_SIZE
      slot  == to_slot_bytes(config)
  IN IF pos = None THEN None
     ELSE IF end > Len(template) \/ slot = None THEN None
     ELSE [i \in 1 .. Len(template) |->
             IF i \in start + 1 .. end THEN slot[i - start] ELSE template[i]]

=============================================================================
