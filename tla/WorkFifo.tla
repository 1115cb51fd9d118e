------------------------------ MODULE WorkFifo ------------------------------
(***************************************************************************)
(* What the execution queue of services/test-engine.c promises: a bounded  *)
(* first-in first-out line from which each worker takes one instance at a  *)
(* time, and which hands out nothing any more once the engine is stopped.  *)
(* Nothing of the ring, the lock or the condition variable appears here;   *)
(* ExecutionQueue implements this module.                                  *)
(***************************************************************************)
EXTENDS Naturals, Sequences

CONSTANTS Worker, Instance, Capacity, NULL

VARIABLES
    line,     \* the instances waiting for a worker, oldest first
    taken,    \* the instance each worker runs, or NULL
    stopped   \* the engine is being taken down

fifoVars == <<line, taken, stopped>>

FifoInit ==
    /\ line = <<>>
    /\ taken = [w \in Worker |-> NULL]
    /\ stopped = FALSE

Put(i) ==
    /\ Len(line) < Capacity
    /\ line' = Append(line, i)
    /\ UNCHANGED <<taken, stopped>>

Take(w) ==
    /\ ~stopped
    /\ line # <<>>
    /\ taken[w] = NULL
    /\ taken' = [taken EXCEPT ![w] = Head(line)]
    /\ line' = Tail(line)
    /\ UNCHANGED stopped

Done(w) ==
    /\ taken[w] # NULL
    /\ taken' = [taken EXCEPT ![w] = NULL]
    /\ UNCHANGED <<line, stopped>>

StopLine ==
    /\ stopped' = TRUE
    /\ UNCHANGED <<line, taken>>

FifoNext ==
    \/ \E i \in Instance : Put(i)
    \/ \E w \in Worker : Take(w) \/ Done(w)
    \/ StopLine

FifoSpec == FifoInit /\ [][FifoNext]_fifoVars
============================================================================
