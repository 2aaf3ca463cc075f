----------------------------- MODULE MCGzipBody -----------------------------
(***************************************************************************)
(* Bounds for GzipBody.  The sixteen thousand bytes of a step become two   *)
(* or three units.                                                         *)
(***************************************************************************)
EXTENDS GzipBody

Few == {0, 1, 2}
Sizes == 0..3
=============================================================================
