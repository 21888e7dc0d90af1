---------------------------- MODULE MCVisuaraApp ----------------------------
(***************************************************************************)
(* Module VisuaraApp for TLC: two clicks that spawn a task, by users who   *)
(* differ in what they have entered.                                       *)
(***************************************************************************)
EXTENDS VisuaraApp, TLC

CONSTANTS p0, p1, a1, a2

MCEntries ==
  {[prefs |-> p1, login |-> a1, remember |-> TRUE],
   [prefs |-> p0, login |-> a2, remember |-> FALSE]}

=============================================================================
