----------------------------- MODULE MC_ModemAt -----------------------------
(***************************************************************************)
(* ModemAt for TLC.                                                        *)
(***************************************************************************)
EXTENDS ModemAt
=============================================================================
