---------------------------- MODULE MC_InputDevice --------------------------
(* Two slots; two mice, told apart by their info, and a keyboard.           *)
EXTENDS InputDevice

MCKind(d) == IF d = "keyboard" THEN "keys" ELSE "pointer"
=============================================================================
