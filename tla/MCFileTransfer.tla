--------------------------- MODULE MCFileTransfer ---------------------------
(***************************************************************************)
(* Module FileTransfer for TLC.  The second name is the first one's second *)
(* candidate, so that two names compete for a path.                        *)
(***************************************************************************)
EXTENDS FileTransfer, TLC

MCNames == {"a", "a (1)"}

MCCandidates ==
  "a" :> <<"a", "a (1)", "a (2)", "a (3)">>
    @@ "a (1)" :> <<"a (1)", "a (1) (1)", "a (1) (2)", "a (1) (3)">>

MCPaths == {"a", "a (1)", "a (2)", "a (3)", "a (1) (1)", "a (1) (2)",
            "a (1) (3)"}

ASSUME MCAssumption == EnoughCandidates

=============================================================================
