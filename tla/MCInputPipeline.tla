--------------------------- MODULE MCInputPipeline ---------------------------
(***************************************************************************)
(* Instances of InputPipeline: the pen and one button, a queue of two      *)
(* snapshots of which a tick handles two.                                  *)
(***************************************************************************)
EXTENDS InputPipeline
=============================================================================
