----------------------------- MODULE MCLifecycle -----------------------------
(***************************************************************************)
(* Instances of Lifecycle: one world besides the menu, two speeds.         *)
(***************************************************************************)
EXTENDS Lifecycle
=============================================================================
