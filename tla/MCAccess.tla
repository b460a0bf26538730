------------------------------ MODULE MCAccess -------------------------------
(***************************************************************************)
(* A small instance of Access for TLC: one rotation of Central's key, a     *)
(* cooldown of one tick, a verification beside the background refresh.      *)
(***************************************************************************)
EXTENDS Access

CONSTANTS k1, k2, n1, r1
=============================================================================
