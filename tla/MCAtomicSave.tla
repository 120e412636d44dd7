---------------------------- MODULE MCAtomicSave ----------------------------
(***************************************************************************)
(* Instances of AtomicSave: three saves, two crashes.                      *)
(***************************************************************************)
EXTENDS AtomicSave
=============================================================================
