--------------------------- MODULE MCClientBuilds ---------------------------
(***************************************************************************)
(* Module ClientBuilds for TLC.  The marker ends with a zero.  The second  *)
(* release begins with what looks like the marker's first byte, and the    *)
(* operator's own file ends within its slot.  The JSON of saved settings   *)
(* fills the slot, that of a mixture does or is too long for it.           *)
(***************************************************************************)
EXTENDS ClientBuilds, TLC

Symmetry == Permutations(Fetches) \cup Permutations(Downloads)

\* Bound: settings are saved while the first platform is fetched.  Saves and
\* fetches share no state, so a further platform adds nothing to their mixture.
SavesBesideFirstPlatform ==
  (\E s \in Saves : save[s] # "idle") => \A f \in Fetches : P(f) <= 1

MCMagic == <<9, 0>>

MCBinary ==
  [c \in {1, 2, Own} |->
     CASE c = 1 -> <<5>> \o MCMagic \o <<0, 0, 0>> \o <<6>>
       [] c = 2 -> <<9>> \o MCMagic \o <<0, 0, 0>> \o <<7, 8>>
       [] c = Own -> <<5>> \o MCMagic \o <<0, 0>>]

MCJson ==
  [c \in Configs |->
     (IF c.server_url = None THEN <<1>> ELSE <<2, c.server_url>>)
     \o (IF c.device_name = None THEN <<1, 1>> ELSE <<c.device_name>>)]

=============================================================================
