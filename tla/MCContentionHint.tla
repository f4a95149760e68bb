--------------------------- MODULE MCContentionHint ---------------------------
(***************************************************************************)
(* Two contended pages are enough: the counter of one does not read        *)
(* another's.  A window of two ticks and a threshold of two let entries  *)
(* expire, survive at the very edge, and be pushed out by newer ones.      *)
(***************************************************************************)
EXTENDS ContentionHint

CONSTANTS p, q
===============================================================================
