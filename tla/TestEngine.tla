----------------------------- MODULE TestEngine -----------------------------
(***************************************************************************)
(* One run of the validator: main.c drives services/test-engine.c and the  *)
(* scheduler of services/test-scheduler.c from test_engine_init to         *)
(* test_engine_deinit while the workers execute test_engine_worker.  This  *)
(* is the closed program: the only pushes are those the scheduler's answer *)
(* allows, so the module shows what really reaches the execution queue.    *)
(* (ExecutionQueue and WorkerPool say what the pool does with instances.)  *)
(*                                                                         *)
(* The engine and the scheduler come from malloc and two fields are used   *)
(* before they are written: running, read by the workers that              *)
(* test_engine_init has created before it sets the flag, and the           *)
(* scheduler's pending_count, which nothing sets at all.  Both start with  *)
(* any value.                                                              *)
(***************************************************************************)
EXTENDS Naturals, Sequences

CONSTANTS
    NumWorkers,        \* TEST_ENGINE_MAX_WORKERS
    NumTests,          \* available, implemented tests; a test is its index
    MaxTests,          \* MAX_TESTS
    MaxTestInstances,  \* MAX_TEST_INSTANCES
    QueueSize,         \* TEST_ENGINE_QUEUE_SIZE
    MaxAttempts        \* polls of wait_for_test_result, 3000 in the code

ASSUME EngineAssumption ==
    /\ NumWorkers \in Nat \ {0}
    /\ NumTests \in Nat
    /\ MaxTests \in Nat \ {0}
    /\ MaxTestInstances \in Nat \ {0}
    /\ QueueSize \in Nat \ {0}
    /\ MaxAttempts \in Nat \ {0}

Worker == 1 .. NumWorkers
Test == 1 .. NumTests

VARIABLES
    mode,      \* the CLI action
    mpc,       \* where main is
    next,      \* main's loop index: worker to create or join, or test
    created,   \* workers that exist
    attempts,  \* polls of the current test's result
    status,    \* what main returns
    \* the engine
    running,
    tests,             \* names in tests[0 .. test_count - 1]
    queue_count,
    instance_count,
    pc,                \* where each worker is
    \* the scheduler
    running_instances,
    pending_count

mainVars == <<mode, next, created, attempts, status>>
engineVars == <<running, tests, queue_count, instance_count>>
schedulerVars == <<running_instances, pending_count>>
vars == <<mode, mpc, next, created, attempts, status,
          running, tests, queue_count, instance_count, pc,
          running_instances, pending_count>>

MainStates == {"create", "abort", "up", "execute", "poll", "stop", "freed", "noEngine"}
WorkerStates == {"none", "loop", "pop", "waiting", "woken", "run", "exited"}

TypeOK ==
    /\ mode \in {"list", "run", "run_all"}
    /\ mpc \in MainStates
    /\ next \in Nat \ {0}
    /\ created \in 0 .. NumWorkers
    /\ attempts \in 0 .. MaxAttempts
    /\ status \in {"unknown", "success", "failure"}
    /\ running \in BOOLEAN
    /\ tests \in Seq(Test)
    /\ queue_count \in Nat
    /\ instance_count \in Nat
    /\ pc \in [Worker -> WorkerStates]
    /\ running_instances \in Nat
    /\ pending_count \in Nat

\* test_engine_init up to the creation of the first worker.
Init ==
    /\ mode \in {"list", "run", "run_all"}
    /\ mpc = "create"
    /\ next = 1
    /\ created = 0
    /\ attempts = 0
    /\ status = "unknown"
    /\ running \in BOOLEAN
    /\ tests = <<>>
    /\ queue_count = 0
    /\ instance_count = 0
    /\ pc = [w \in Worker |-> "none"]
    /\ running_instances = 0
    /\ pending_count \in 0 .. MaxTestInstances

----------------------------------------------------------------------------
(***************************************************************************)
(* The workers.                                                            *)
(***************************************************************************)

\* Slip: the loop does not look at running.
LoopForever(w) ==
    /\ pc[w] = "loop"
    /\ pc' = [pc EXCEPT ![w] = "pop"]
    /\ UNCHANGED <<mpc, mainVars, engineVars, schedulerVars>>

\* The loop condition of test_engine_worker, read without the lock.
Loop(w) ==
    /\ pc[w] = "loop"
    /\ pc' = [pc EXCEPT ![w] = IF running THEN "pop" ELSE "exited"]
    /\ UNCHANGED <<mpc, mainVars, engineVars, schedulerVars>>

\* Slip: the wait is an if, so that a woken worker takes without looking.
PopUnchecked(w) ==
    /\ pc[w] \in {"pop", "woken"}
    /\ pc' = [pc EXCEPT ![w] =
                 IF ~running THEN "loop"
                 ELSE IF queue_count = 0 /\ pc[w] = "pop" THEN "waiting" ELSE "run"]
    /\ queue_count' = IF pc'[w] = "run" THEN queue_count - 1 ELSE queue_count
    /\ UNCHANGED <<mpc, mainVars, running, tests, instance_count, schedulerVars>>

\* test_engine_queue_pop under the lock.  A worker that gets an instance
\* would run it; in this program "run" is never reached.
Pop(w) ==
    /\ pc[w] \in {"pop", "woken"}
    /\ pc' = [pc EXCEPT ![w] =
                 IF ~running THEN "loop"
                 ELSE IF queue_count = 0 THEN "waiting" ELSE "run"]
    /\ queue_count' = IF running /\ queue_count > 0 THEN queue_count - 1 ELSE queue_count
    /\ UNCHANGED <<mpc, mainVars, running, tests, instance_count, schedulerVars>>

\* pthread_cond_wait may return without a signal.
SpuriousWakeup(w) ==
    /\ pc[w] = "waiting"
    /\ pc' = [pc EXCEPT ![w] = "woken"]
    /\ UNCHANGED <<mpc, mainVars, engineVars, schedulerVars>>

----------------------------------------------------------------------------
(***************************************************************************)
(* test_engine_init: create the pool, then set running.                    *)
(***************************************************************************)

CreateWorker ==
    /\ mpc = "create"
    /\ next <= NumWorkers
    /\ pc' = [pc EXCEPT ![next] = "loop"]
    /\ created' = created + 1
    /\ next' = next + 1
    /\ UNCHANGED <<mode, mpc, attempts, status, engineVars, schedulerVars>>

\* pthread_create fails: wake every sleeper, then join those that exist.
\* running is not touched.
CreateFails ==
    /\ mpc = "create"
    /\ next <= NumWorkers
    /\ mpc' = "abort"
    /\ next' = 1
    /\ pc' = [w \in Worker |-> IF pc[w] = "waiting" THEN "woken" ELSE pc[w]]
    /\ UNCHANGED <<mode, created, attempts, status, engineVars, schedulerVars>>

SetRunning ==
    /\ mpc = "create"
    /\ next > NumWorkers
    /\ running' = TRUE
    /\ mpc' = "up"
    /\ next' = 1
    /\ UNCHANGED <<mode, created, attempts, status, tests, queue_count,
                   instance_count, pc, schedulerVars>>

----------------------------------------------------------------------------
(***************************************************************************)
(* main: register, execute, wait for results.                              *)
(***************************************************************************)

\* The duplicate check of test_engine_register: safe_string_compare is true
\* for equal names, so a zero turns away a name that differs from one there.
CanRegister(t) ==
    /\ Len(tests) < MaxTests
    /\ \A n \in 1 .. Len(tests) : tests[n] = t

\* run_test registers the one test it was asked for and gives up on -1;
\* run_all_tests registers every test and ignores the answers.
Register ==
    /\ mpc = "up"
    /\ mode # "list"
    /\ next <= NumTests
    /\ tests' = IF CanRegister(next) THEN Append(tests, next) ELSE tests
    /\ IF mode = "run"
       THEN mpc' = (IF CanRegister(next) THEN "execute" ELSE "stop") /\ next' = 1
       ELSE mpc' = "up" /\ next' = next + 1
    /\ status' = IF mode = "run" /\ ~CanRegister(next) THEN "failure" ELSE status
    /\ UNCHANGED <<mode, created, attempts, running, queue_count,
                   instance_count, pc, schedulerVars>>

\* main or run_test turns the name away before the engine hears of it: it is
\* not configured, not available on this platform, or not implemented.
RejectTest ==
    /\ mpc = "up"
    /\ mode = "run"
    /\ mpc' = "stop"
    /\ status' = "failure"
    /\ UNCHANGED <<mode, next, created, attempts, engineVars, pc, schedulerVars>>

RegisterAllDone ==
    /\ mpc = "up"
    /\ mode = "run_all" /\ next > NumTests
    /\ mpc' = "execute"
    /\ next' = 1
    /\ UNCHANGED <<mode, created, attempts, status, engineVars, pc, schedulerVars>>

\* test_scheduler_check_resource for tests that share one device: it is free
\* unless a worker runs an instance.
ResourceFree == \A w \in Worker : pc[w] # "run"

\* test_scheduler_submit.  The first condition lets an instance through to
\* the resource check only when no execution slot is left.
SlotTest == running_instances >= NumWorkers

Submit ==
    IF SlotTest /\ ResourceFree THEN "ACCEPTED"
    ELSE IF pending_count >= MaxTestInstances THEN "FAILED"
    ELSE "PENDING"

\* test_engine_execute for the registered test at index next.  It is refused
\* when the instances are used up, when the scheduler fails it, and when the
\* queue has no room for a test the scheduler has already counted as running;
\* a push wakes one sleeping worker.
Execute ==
    LET submitted == instance_count < MaxTestInstances
        accepted  == submitted /\ Submit = "ACCEPTED"
        pending   == submitted /\ Submit = "PENDING"
        pushed    == accepted /\ queue_count < QueueSize
    IN  /\ mpc = "execute"
        /\ next <= Len(tests)
        /\ running_instances' = running_instances + (IF accepted THEN 1 ELSE 0)
        /\ pending_count' = pending_count + (IF pending THEN 1 ELSE 0)
        /\ queue_count' = queue_count + (IF pushed THEN 1 ELSE 0)
        /\ instance_count' = instance_count + (IF pushed THEN 1 ELSE 0)
        /\ IF pushed /\ \E w \in Worker : pc[w] = "waiting"
           THEN \E w \in Worker : pc[w] = "waiting" /\ pc' = [pc EXCEPT ![w] = "woken"]
           ELSE pc' = pc
        /\ IF mode = "run"
           THEN /\ mpc' = IF pending \/ pushed THEN "poll" ELSE "stop"
                /\ status' = IF pending \/ pushed THEN status ELSE "failure"
                /\ next' = 1
           ELSE /\ next' = next + 1
                /\ UNCHANGED <<mpc, status>>
        /\ UNCHANGED <<mode, created, attempts, running, tests>>

\* test_engine_execute_all returns 0 whatever the single executions said.
ExecuteAllDone ==
    /\ mpc = "execute"
    /\ mode = "run_all" /\ next > Len(tests)
    /\ mpc' = "poll"
    /\ next' = 1
    /\ UNCHANGED <<mode, created, attempts, status, engineVars, pc, schedulerVars>>

\* The instance test_engine_execute fills in is a local copy: the names in
\* instances[] stay empty.
StoredName(n) == 0

\* test_engine_get_result looks for the name among the first instance_count.
ResultFound(t) == \E n \in 1 .. instance_count : StoredName(n) = t

\* Slip: a wait that times out is not counted as a failure.
PollForgives ==
    /\ mpc = "poll"
    /\ next <= (IF mode = "run" THEN 1 ELSE NumTests)
    /\ IF ~ResultFound(next) /\ attempts + 1 < MaxAttempts
       THEN attempts' = attempts + 1 /\ UNCHANGED next
       ELSE attempts' = 0 /\ next' = next + 1
    /\ UNCHANGED <<mode, mpc, created, status, engineVars, pc, schedulerVars>>

\* Slip: the attempts are not counted.
PollForever ==
    /\ mpc = "poll"
    /\ next <= (IF mode = "run" THEN 1 ELSE NumTests)
    /\ next' = IF ResultFound(next) THEN next + 1 ELSE next
    /\ UNCHANGED <<mode, mpc, created, attempts, status, engineVars, pc, schedulerVars>>

\* One round of wait_for_test_result: the result, or another attempt.
Poll ==
    /\ mpc = "poll"
    /\ next <= (IF mode = "run" THEN 1 ELSE NumTests)
    /\ IF ResultFound(next)
       THEN next' = next + 1 /\ attempts' = 0 /\ status' = status
       ELSE IF attempts + 1 < MaxAttempts
       THEN attempts' = attempts + 1 /\ UNCHANGED <<next, status>>
       ELSE attempts' = 0 /\ next' = next + 1 /\ status' = "failure"
    /\ UNCHANGED <<mode, mpc, created, engineVars, pc, schedulerVars>>

\* The action is over: main's cleanup calls runtime_manager_deinit, and the
\* first thing test_engine_deinit does is to clear running, without the lock
\* and without waking anybody.
Stop ==
    /\ \/ mpc = "up" /\ mode = "list"
       \/ mpc = "poll" /\ next > (IF mode = "run" THEN 1 ELSE NumTests)
       \/ mpc = "stop" /\ running
    /\ mpc' = "stop"
    /\ running' = FALSE
    /\ next' = 1
    /\ status' = IF status = "unknown" THEN "success" ELSE status
    /\ UNCHANGED <<mode, created, attempts, tests, queue_count,
                   instance_count, pc, schedulerVars>>

----------------------------------------------------------------------------
(***************************************************************************)
(* Taking the engine down: join the workers in order, then free.           *)
(***************************************************************************)

\* Slip: the workers are detached instead of joined.
JoinNobody ==
    /\ \/ mpc = "stop" /\ ~running
       \/ mpc = "abort"
    /\ next <= created
    /\ next' = next + 1
    /\ UNCHANGED <<mode, mpc, created, attempts, status, engineVars, pc, schedulerVars>>

\* pthread_join, in test_engine_deinit and in the failed test_engine_init.
Join ==
    /\ \/ mpc = "stop" /\ ~running
       \/ mpc = "abort"
    /\ next <= created
    /\ pc[next] = "exited"
    /\ next' = next + 1
    /\ UNCHANGED <<mode, mpc, created, attempts, status, engineVars, pc, schedulerVars>>

Free ==
    /\ next > created
    /\ \/ mpc = "stop" /\ ~running /\ mpc' = "freed"
       \/ mpc = "abort" /\ mpc' = "noEngine"
    /\ UNCHANGED <<mainVars, engineVars, pc, schedulerVars>>

----------------------------------------------------------------------------
MainStep ==
    \/ CreateWorker \/ SetRunning \/ Register \/ RejectTest \/ RegisterAllDone
    \/ Execute \/ ExecuteAllDone \/ Poll \/ Stop \/ Join \/ Free

WorkerStep(w) == Loop(w) \/ Pop(w)

Next ==
    \/ MainStep
    \/ CreateFails
    \/ \E w \in Worker : WorkerStep(w) \/ SpuriousWakeup(w)

\* Every thread that can move is scheduled; a sleeping worker is not woken
\* for nothing.
Spec ==
    /\ Init /\ [][Next]_vars
    /\ WF_vars(MainStep)
    /\ \A w \in Worker : WF_vars(WorkerStep(w))

----------------------------------------------------------------------------
(***************************************************************************)
(* What holds.                                                             *)
(***************************************************************************)

\* main reports success for a run only if it had no test to wait for.
SuccessIsEmpty ==
    status = "success" => mode = "list" \/ (mode = "run_all" /\ NumTests = 0)

\* The engine is freed, by deinit or by a failed init, only after every
\* worker that was created has left its loop: none touches freed memory.
FreedAfterExit ==
    mpc \in {"freed", "noEngine"} =>
        \A w \in Worker : pc[w] \in {"none", "exited"}

\* Every engine that comes up is taken down again: the waits are bounded.
MainReachesDeinit == mpc = "up" ~> (mpc = "stop" /\ ~running)

\* Taking the engine down succeeds whenever running reads false and no worker
\* sleeps at that moment.
AwakePoolIsJoined ==
    (mpc \in {"abort", "stop"} /\ ~running /\ \A w \in Worker : pc[w] # "waiting")
        ~> mpc \in {"freed", "noEngine"}

----------------------------------------------------------------------------
(***************************************************************************)
(* What the headers and comments say and the code does not do.             *)
(***************************************************************************)

\* test-scheduler.h:125: "If resources are available, test execution is
\* started": a submitted test, all slots and devices free, is dispatched.
SubmitStarts == mpc = "poll" => instance_count > 0 \/ tests = <<>>

\* test-engine.h:305: test_engine_deinit "Stops running tests and releases
\* resources" and returns 0.
DeinitReturns == (mpc = "stop") ~> (mpc = "freed")
============================================================================
