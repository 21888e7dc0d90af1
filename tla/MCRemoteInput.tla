--------------------------- MODULE MCRemoteInput ---------------------------
(***************************************************************************)
(* Module RemoteInput for TLC: a picture narrower than the first monitor,  *)
(* and a second monitor to its right.                                      *)
(***************************************************************************)
EXTENDS RemoteInput

MCMonitors == {[origin |-> 0, width |-> 3], [origin |-> 3, width |-> 2]}
MCDeltas == {-1, 3}

=============================================================================
