---------------------------- MODULE MC_NplCallout ---------------------------
(***************************************************************************)
(* NplCallout for TLC: a 6-tick clock in place of the 2^32-tick one, so   *)
(* that every arming can straddle the wrap-around.                         *)
(***************************************************************************)
EXTENDS NplCallout
=============================================================================
