---------------------------- MODULE MCTestEngine ----------------------------
(***************************************************************************)
(* Three workers, two tests, an array of two pending instances and two     *)
(* polls per result: every value of pending_count that the code can tell   *)
(* apart (room for all, for some, for none), and sleeping, awake and       *)
(* exited workers at each of main's steps.                                 *)
(***************************************************************************)
EXTENDS TestEngine
============================================================================
