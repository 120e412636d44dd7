--------------------------- MODULE MCRuntimeSession ---------------------------
(***************************************************************************)
(* Instances of RuntimeSession: a mount-pinned font and a bitmap of the    *)
(* menu, and a bitmap of a level that competes with it for the texture     *)
(* pool.                                                                   *)
(***************************************************************************)
EXTENDS RuntimeSession, TLC

CONSTANTS m, a, b

Ids == {m, a, b}
Kind == [r \in Ids |-> "raw"]
NoSprites == [x \in {} |-> m]
Pool == [r \in Ids |-> IF r = m THEN "LanguageFont" ELSE "Texture"]
Group == [r \in Ids |-> IF r = b THEN 2 ELSE 1]
Charge == [r \in Ids |-> 1]
Caps == [p \in Pools |-> IF p \in {"LanguageFont", "Texture"} THEN 1 ELSE 0]
Symmetry == Permutations(Leases)
=============================================================================
