---------------------------- MODULE MCSupervisor ----------------------------
(***************************************************************************)
(* Small instances of Supervisor for TLC: MinIO booted by the lifespan, and *)
(* cloudflared replaced by a tunnel workflow.                              *)
(***************************************************************************)
EXTENDS Supervisor

CONSTANTS boot, w1

\* README "Clean Termination & Orphan Prevention": the atexit hook "guarantees zero
\* zombie or orphaned processes on application exit or crash"; so no child of
\* cloudflared either is left running at exit.
NoOrphans == ~ChildLeft
=============================================================================
