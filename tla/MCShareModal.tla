----------------------------- MODULE MCShareModal -----------------------------
(***************************************************************************)
(* A small instance of ShareModal for TLC: two files, two requests and two  *)
(* timers.                                                                  *)
(***************************************************************************)
EXTENDS ShareModal

CONSTANTS f, g, s1, s2
=============================================================================
