----------------------------- MODULE WorkerPool -----------------------------
(***************************************************************************)
(* test_engine_worker and test_engine_run_instance of                      *)
(* services/test-engine.c: what the pool does with the instances in its    *)
(* queue.  The module composes the queue (WorkFifo, which ExecutionQueue   *)
(* implements) with the devices (ResourceManager): a worker takes the      *)
(* oldest instance, acquires the devices of its function, runs setup,      *)
(* execute and cleanup, and releases the devices.                          *)
(*                                                                         *)
(* The pool is an open component here: Feed is test_engine_queue_push for  *)
(* an instance of its own, which today's scheduler allows to nobody        *)
(* (TestEngine, SubmitStarts).  The call of get_next_instance after the    *)
(* release is TestScheduler's; here it finds an empty pending array.       *)
(***************************************************************************)
EXTENDS Naturals, Sequences

CONSTANTS
    Worker, Capacity,
    Device, Function, DevicesOf, Instance, FunctionOf, MaxResources, NULL,
    Executable     \* the instances whose test has an execute operation

\* What ResourceManager assumes of the functions.
ASSUME PoolAssumption ==
    /\ DevicesOf \in [Function -> (SUBSET Device) \ {{}}]
    /\ FunctionOf \in [Instance -> Function]
    /\ NULL \notin Instance
    /\ Executable \subseteq Instance

VARIABLES
    line, taken, stopped,                        \* the execution queue
    offered, registered, state, owner, phase,    \* the resource manager
    wpc,       \* where each worker is in its iteration
    fed,       \* instances pushed so far
    verdict,   \* result.state of each instance
    cleaned    \* instances whose cleanup, if they have one, has run

queueVars == <<line, taken, stopped>>
deviceVars == <<offered, registered, state, owner, phase>>
testVars == <<verdict, cleaned>>
vars == <<queueVars, deviceVars, wpc, fed, testVars>>

Queue == INSTANCE WorkFifo
Devices == INSTANCE ResourceManager

Needs(i) == DevicesOf[FunctionOf[i]]

TypeOK ==
    /\ line \in Seq(Instance)
    /\ taken \in [Worker -> Instance \union {NULL}]
    /\ stopped \in BOOLEAN
    /\ Devices!TypeOK
    /\ wpc \in [Worker -> {"loop", "acquire", "setup", "execute", "cleanup",
                           "release", "exited"}]
    /\ fed \in SUBSET Instance
    /\ verdict \in [Instance -> {"QUEUED", "PASS", "FAIL"}]
    /\ cleaned \in SUBSET Instance

\* The engine is up: every device has been offered, and at most MAX_DEVICES
\* exist, so every one is in the table.  A worker that read running before
\* test_engine_init set it is gone; any number of them may be.
Init ==
    /\ Queue!FifoInit
    /\ offered = Device
    /\ registered = Device
    /\ state = [d \in Device |-> "FREE"]
    /\ owner = [d \in Device |-> NULL]
    /\ phase = [i \in Instance |-> "idle"]
    /\ wpc \in [Worker -> {"loop", "exited"}]
    /\ fed = {}
    /\ verdict = [i \in Instance |-> "QUEUED"]
    /\ cleaned = {}

Goto(w, label) == wpc' = [wpc EXCEPT ![w] = label]

\* A push; a full queue turns the instance away.
Feed(i) ==
    /\ i \notin fed
    /\ fed' = fed \union {i}
    /\ IF Len(line) < Capacity THEN Queue!Put(i) ELSE UNCHANGED queueVars
    /\ UNCHANGED <<deviceVars, wpc, testVars>>

TakeNext(w) ==
    /\ wpc[w] = "loop"
    /\ Queue!Take(w)
    /\ Goto(w, "acquire")
    /\ UNCHANGED <<deviceVars, fed, testVars>>

\* Slip: an instance whose devices are taken is dropped.
AcquireOrDrop(w) ==
    /\ wpc[w] = "acquire"
    /\ Devices!Acquire(taken[w])
    /\ Goto(w, IF phase'[taken[w]] = "holding" THEN "setup" ELSE "release")
    /\ UNCHANGED <<queueVars, fed, testVars>>

\* The answer of resource_manager_acquire is not looked at.
AcquireDevices(w) ==
    /\ wpc[w] = "acquire"
    /\ Devices!Acquire(taken[w])
    /\ Goto(w, "setup")
    /\ UNCHANGED <<queueVars, fed, testVars>>

\* Slip: a failed setup returns to the loop at once.
SetupReturns(w, ok) ==
    /\ wpc[w] = "setup"
    /\ IF ok
       THEN Goto(w, "execute") /\ UNCHANGED queueVars
       ELSE Goto(w, "loop") /\ Queue!Done(w)
    /\ verdict' = IF ok THEN verdict ELSE [verdict EXCEPT ![taken[w]] = "FAIL"]
    /\ UNCHANGED <<deviceVars, fed, cleaned>>

\* A setup that fails settles the result and skips execute.
Setup(w, ok) ==
    /\ wpc[w] = "setup"
    /\ Goto(w, IF ok THEN "execute" ELSE "cleanup")
    /\ verdict' = IF ok THEN verdict ELSE [verdict EXCEPT ![taken[w]] = "FAIL"]
    /\ UNCHANGED <<queueVars, deviceVars, fed, cleaned>>

\* What execute's answer makes of the state; without the operation it is left.
Judged(i, ok) ==
    CASE i \notin Executable -> verdict[i]
      [] i \in Executable /\ ok -> "PASS"
      [] i \in Executable /\ ~ok -> "FAIL"

\* Slip: the state of a test that was started is never settled.
ExecuteUnsettled(w, ok) ==
    /\ wpc[w] = "execute"
    /\ Goto(w, "cleanup")
    /\ verdict' = [verdict EXCEPT ![taken[w]] = "RUNNING"]
    /\ UNCHANGED <<queueVars, deviceVars, fed, cleaned>>

\* Slip: a failed execute returns without the cleanup.
ExecuteReturns(w, ok) ==
    /\ wpc[w] = "execute"
    /\ Goto(w, IF ok THEN "cleanup" ELSE "release")
    /\ verdict' = [verdict EXCEPT ![taken[w]] = Judged(taken[w], ok)]
    /\ UNCHANGED <<queueVars, deviceVars, fed, cleaned>>

Execute(w, ok) ==
    /\ wpc[w] = "execute"
    /\ Goto(w, "cleanup")
    /\ verdict' = [verdict EXCEPT ![taken[w]] = Judged(taken[w], ok)]
    /\ UNCHANGED <<queueVars, deviceVars, fed, cleaned>>

Cleanup(w) ==
    /\ wpc[w] = "cleanup"
    /\ Goto(w, "release")
    /\ cleaned' = cleaned \union {taken[w]}
    /\ UNCHANGED <<queueVars, deviceVars, fed, verdict>>

ReleaseDevices(w) ==
    /\ wpc[w] = "release"
    /\ Devices!Release(taken[w])
    /\ Queue!Done(w)
    /\ Goto(w, "loop")
    /\ UNCHANGED <<fed, testVars>>

\* The loop condition, or the null instance from the queue, once running is
\* cleared.  (A sleeping worker may never get here: ExecutionQueue.)
Exit(w) ==
    /\ wpc[w] = "loop"
    /\ stopped
    /\ Goto(w, "exited")
    /\ UNCHANGED <<queueVars, deviceVars, fed, testVars>>

Stop ==
    /\ ~stopped
    /\ Queue!StopLine
    /\ UNCHANGED <<deviceVars, wpc, fed, testVars>>

RunInstance(w) ==
    \/ \E ok \in BOOLEAN : Setup(w, ok) \/ Execute(w, ok)
    \/ Cleanup(w)

WorkerStep(w) ==
    TakeNext(w) \/ AcquireDevices(w) \/ RunInstance(w) \/ ReleaseDevices(w)

Next ==
    \/ \E i \in Instance : Feed(i)
    \/ \E w \in Worker : WorkerStep(w) \/ Exit(w)
    \/ Stop

\* A worker with something to do does it: tests return, and an instance in
\* the queue finds a woken worker (ExecutionQueue, NoLostWakeup).
Spec == Init /\ [][Next]_vars /\ \A w \in Worker : WF_vars(WorkerStep(w))

----------------------------------------------------------------------------
Active == {w \in Worker : wpc[w] \in {"setup", "execute", "cleanup", "release"}}
Granted == {w \in Active : phase[taken[w]] = "holding"}

\* A device is busy exactly while a worker whose acquire succeeded is between
\* its acquire and its release with an instance that needs the device, and it
\* is then that instance's: a failed setup gives its devices back too, a run
\* without grant takes and gives back nothing, no two granted runs share a
\* device, and when the pool is at rest all are free.
BusyMeansRunning ==
    \A d \in Device :
        LET users == {w \in Granted : d \in Needs(taken[w])}
        IN  /\ state[d] = "BUSY" <=> users # {}
            /\ \A w \in users : owner[d] = taken[w]

\* A device is given back only after its owner's cleanup has run, on the path
\* of a failed setup too, and with its verdict settled if the test has anything
\* to execute.  (A test without the operation stays QUEUED if its setup succeeds.)
CleanedBeforeGivenBack ==
    [][\A d \in Device : state[d] = "BUSY" /\ state'[d] = "FREE"
          => /\ owner[d] \in cleaned
             /\ owner[d] \in Executable => verdict[owner[d]] # "QUEUED"]_vars

\* Every instance in the queue is run to its end and, with an execute
\* operation, gets its verdict: no test waits for devices that another one
\* holds.  Two things excuse the pool: the engine stops, or every worker is
\* gone, which the start leaves possible.
QueuedIsJudged ==
    \A i \in Instance :
        (\E k \in 1 .. Len(line) : line[k] = i)
            ~> \/ i \in cleaned /\ (i \in Executable => verdict[i] # "QUEUED")
               \/ stopped
               \/ \A w \in Worker : wpc[w] = "exited"

\* test-engine.h:352: test_engine_execute_all "Allows parallel execution based
\* on device resource availability": tests that run together share no device.
RunsAreExclusive ==
    \A v, w \in Active :
        v # w => Needs(taken[v]) \intersect Needs(taken[w]) = {}
============================================================================
