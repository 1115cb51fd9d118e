----------------------------- MODULE Scheduling -----------------------------
(***************************************************************************)
(* The scheduler over the devices: test_scheduler_check_resource asks the  *)
(* resource manager for the function of a test, and what it answers may be *)
(* over when the scheduler uses it, since workers acquire and release in   *)
(* between, and once more when a worker acquires what it was handed.       *)
(*                                                                         *)
(* The workers call the resource manager at any time, for an instance the  *)
(* scheduler has handed out or for one that was in the queue before.  The  *)
(* unlocked array may hand one instance to two workers; here they run it   *)
(* one after the other, since ResourceManager follows a caller by its      *)
(* instance, as the code does.                                             *)
(***************************************************************************)
EXTENDS ResourceManager

CONSTANTS
    Submitter, Asker, MaxTestInstances, MaxInstances, WordSize,   \* TestScheduler
    HeapCount, Wild,
    Queued    \* instances that reach a worker without the scheduler

VARIABLES
    pending_instances, pending_count, running_instances,
    answer, handed, crashed, pc, index, found, seen

Scheduler == INSTANCE TestScheduler

ASSUME SchedulingAssumption ==
    /\ MaxTestInstances \in Nat \ {0} /\ MaxInstances \in Nat \ {0}
    /\ WordSize \in Nat /\ WordSize > MaxTestInstances + 1
    /\ HeapCount \subseteq 0 .. WordSize - 1
    /\ Wild \notin Instance \union {NULL}
    /\ Queued \subseteq Instance

schedulerVars ==
    <<pending_instances, pending_count, running_instances,
      answer, handed, crashed, pc, index, found, seen>>

SchedulingInit == Init /\ Scheduler!Init

\* test_scheduler_check_resource, for the function of the instance's test
Available(i) == i \in Instance /\ Grantable(FunctionOf[i])

\* test_engine_init registers the devices before anybody submits.
SchedulerStep ==
    /\ Started
    /\ \/ \E c \in Submitter, i \in Instance \ Queued :
              Scheduler!Submit(c, i, Available(i))
       \/ \E c \in Asker : Scheduler!GetNext(c)
       \/ \E c \in Scheduler!Caller : Scheduler!Continue(c, Available(found[c]))
    /\ UNCHANGED vars

WorkerStep(i) ==
    /\ i \in Queued \union {h[2] : h \in handed}
    /\ Acquire(i) \/ Release(i)
    /\ UNCHANGED schedulerVars

SchedulingNext ==
    \/ \E d \in Device : Register(d) /\ UNCHANGED schedulerVars
    \/ SchedulerStep
    \/ \E i \in Instance : WorkerStep(i)

SchedulingSpec == SchedulingInit /\ [][SchedulingNext]_<<vars, schedulerVars>>

----------------------------------------------------------------------------
\* Of the pending array this is left when main and the workers change it
\* without a lock and nobody has written its count: what a worker is handed
\* was submitted.
HandedWereSubmitted == Scheduler!HandedWereSubmitted
=============================================================================
