-------------------------- MODULE MCScreenSharing --------------------------
(***************************************************************************)
(* Module ScreenSharing for TLC.  The liveness properties leave no room    *)
(* for symmetry.                                                           *)
(***************************************************************************)
EXTENDS ScreenSharing, TLC

=============================================================================
