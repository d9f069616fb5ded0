----------------------------- MODULE MC_LvDisplay ---------------------------
(***************************************************************************)
(* LvDisplay for TLC.                                                      *)
(***************************************************************************)
EXTENDS LvDisplay

\* Two colour formats of one pixel format, one of another, and one that VO
\* does not have.
MCPixelOf == [ARGB8888 |-> "argb", XRGB8888 |-> "argb", RGB565 |-> "565", AL88 |-> BUTT]
MCFormats == DOMAIN MCPixelOf
=============================================================================
