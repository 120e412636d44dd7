----------------------------- MODULE MCPackage -----------------------------
(***************************************************************************)
(* Bounded instance of the converter and the mount: payloads around the    *)
(* 64- and 4096-byte boundaries, an empty image, a sound bank over the     *)
(* stored limit, sprites and fonts over their budgets.  With all three     *)
(* resources the core's catalog takes its declared budget to the last      *)
(* byte, and with all three of the language both take the pool's cap.      *)
(***************************************************************************)
EXTENDS ResourceMount, TLC

MCIdOf == "AUDIO_BANK" :> 4 @@ "SPRITE_SHEET" :> 2 @@ "UI_BITMAP" :> 7
          @@ "LANGUAGE_BUNDLE" :> 3 @@ "FONT_ATLAS" :> 6 @@ "FONT_MAP" :> 5
MCMetaSize == [k \in RESOURCE_KINDS |->
    CASE k = "AUDIO_BANK" -> 300000 [] k \in {"SPRITE_SHEET", "UI_BITMAP"} -> 200000
      [] k = "LANGUAGE_BUNDLE" -> 150000 [] k = "FONT_ATLAS" -> 100000 [] OTHER -> 97576]

Sizes(a, b, c) == [v \in 0..MaxChanges |-> IF v = 0 THEN a ELSE IF v = 1 THEN b ELSE c]
MCStored == [f \in Inputs |->
    CASE f = "sound" -> Sizes(4096, 100, MAX_STORED_BYTES + 1)
      [] f = "sprite" -> Sizes(70, 64, 900)
      [] f = "image" -> Sizes(0, 640, 65) [] f = "language" -> Sizes(1, 129, 128)
      [] OTHER -> Sizes(512, 63, 512)]
MCDecoded == [f \in Inputs |->
    CASE f = "sound" -> Sizes(4096, 100, 5000) [] f = "sprite" -> Sizes(300, 64, 9000)
      [] f = "image" -> Sizes(0, 640, 65) [] f = "language" -> Sizes(1, 129, 300)
      [] OTHER -> Sizes(512, 63, 800)]
MCBudgets == [output |-> 1055000, audio |-> 5000, sprite |-> 8000, texture |-> 700,
              language_font |-> 1000, scratch |-> 1000, metadata |-> 700492]

(* An output that appears before atomic_directory looks is refused there.  *)
OccupiedLate == published' # published /\ stage' = stage => stage \in {"bundle", "write"}
=============================================================================
