------------------------------ MODULE MCLibrary ------------------------------
(***************************************************************************)
(* A small instance of Library for TLC: nested folders, one file, one link. *)
(***************************************************************************)
EXTENDS Library

CONSTANTS d1, d2, f1, n1, g1, g2, r1, r2
=============================================================================
