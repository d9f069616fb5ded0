---------------------------- MODULE MC_NplEventq ----------------------------
(***************************************************************************)
(* NplEventq for TLC.                                                      *)
(***************************************************************************)
EXTENDS NplEventq
=============================================================================
