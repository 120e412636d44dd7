-------------------------- MODULE MCResourceManager --------------------------
(***************************************************************************)
(* Instances of ResourceManager: two sprites that do not fit together, a   *)
(* texture of one and a bitmap of the other group that competes with the   *)
(* texture.                                                                *)
(***************************************************************************)
EXTENDS ResourceManager, TLC

CONSTANTS s1, s2, x1, u1

SmallCaps(texture, sprite, metadata) ==
  [p \in Pools |-> CASE p = "Texture" -> texture
                     [] p = "Sprite" -> sprite
                     [] p = "Metadata" -> metadata
                     [] OTHER -> 0]

DerivedIds == {s1, s2, x1, u1}
DerivedKind == [r \in DerivedIds |-> CASE r = x1 -> "texture" [] r = u1 -> "raw"
                                       [] OTHER -> "sprite"]
DerivedSprite == [x \in {x1} |-> s1]
DerivedPool == [r \in DerivedIds |-> IF r \in {x1, u1} THEN "Texture" ELSE "Sprite"]
DerivedGroup == [r \in DerivedIds |-> IF r \in {s2, u1} THEN 2 ELSE 1]
DerivedCharge == [r \in DerivedIds |-> IF r = s2 THEN 2 ELSE 1]
DerivedCaps == SmallCaps(1, 2, 0)

Symmetry == Permutations(Leases) \cup Permutations(Threads)
=============================================================================
