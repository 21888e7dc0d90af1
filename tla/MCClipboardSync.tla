--------------------------- MODULE MCClipboardSync ---------------------------
(***************************************************************************)
(* Module ClipboardSync for TLC: symmetry of the texts.                    *)
(***************************************************************************)
EXTENDS ClipboardSync, TLC

Symmetry == Permutations(Texts)

=============================================================================
