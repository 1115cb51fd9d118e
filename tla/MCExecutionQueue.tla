-------------------------- MODULE MCExecutionQueue --------------------------
(***************************************************************************)
(* Three workers, two instances and a ring of three slots: the indices     *)
(* wrap, the queue fills up, a signal can meet two sleeping workers and a  *)
(* busy one, and any of the workers may be lost while the engine starts.   *)
(***************************************************************************)
EXTENDS ExecutionQueue
============================================================================
