----------------------------- MODULE MCDashboard -----------------------------
(***************************************************************************)
(* A small instance of Dashboard for TLC: two folders, in the root or one   *)
(* in the other, a file, two requests in flight.                           *)
(***************************************************************************)
EXTENDS Dashboard, TLC

CONSTANTS a, b, f, s1, s2

\* Neither slots nor folders are told apart but by the state.
Symmetry == Permutations(Slots) \cup Permutations(Folders)
=============================================================================
