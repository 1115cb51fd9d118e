------------------------------ MODULE MCLogger ------------------------------
(***************************************************************************)
(* Two severities, a ring of two slots and five messages: the ring wraps   *)
(* twice, fills up and turns messages away, and the stop meets every       *)
(* position of the worker with the ring empty, half full and full.         *)
(***************************************************************************)
EXTENDS Logger
============================================================================
