-------------------------- MODULE TestEngine_proofs --------------------------
(***************************************************************************)
(* Proofs about TestEngine, for every number of workers and tests and      *)
(* every size of the arrays: the engine is freed only when no worker can   *)
(* touch it any more, and main reports success for no run that had a test  *)
(* to wait for.                                                            *)
(***************************************************************************)
EXTENDS TestEngine, SequenceTheorems, TLAPS

\* The other side of what the run engine_submit reports: submit lets a test
\* through only when all slots are taken, and only a test it let through takes
\* a slot (test-scheduler.c:100).  No result exists that main could find.
NoDispatch ==
    /\ queue_count = 0
    /\ instance_count = 0
    /\ running_instances = 0
    /\ \A w \in Worker : pc[w] # "run"

\* Exactly the first "created" workers exist.
CreatedAreNumbered ==
    /\ \A w \in Worker : pc[w] = "none" <=> w > created
    /\ mpc = "create" => next = created + 1

\* From SetRunning to the deinit the flag is set.
UpMeansRunning == mpc \in {"up", "execute", "poll"} => running

\* The joins go through the workers in order, so those before main's index
\* have left their loop.
JoinedHaveExited ==
    /\ mpc = "abort" \/ (mpc = "stop" /\ ~running) =>
          \A w \in Worker : w < next /\ w <= created => pc[w] = "exited"
    /\ mpc \in {"freed", "noEngine"} =>
          \A w \in Worker : w <= created => pc[w] = "exited"

\* What main will return, as far as it has come: nothing before it waits, a
\* failure once a wait is over, and a failure when it gave up before.
StatusFollowsMain ==
    /\ mpc \in {"create", "abort", "noEngine", "up", "execute"} => status = "unknown"
    /\ mpc \in {"execute", "poll"} => mode # "list"
    /\ mpc = "poll" => status = IF next = 1 THEN "unknown" ELSE "failure"
    /\ mpc = "stop" /\ running => status = "failure"

EngineInv ==
    /\ TypeOK
    /\ NoDispatch
    /\ CreatedAreNumbered
    /\ UpMeansRunning
    /\ JoinedHaveExited

\* While no slot is taken, submit accepts nothing.
LEMMA SubmitNeverAccepts ==
    ASSUME running_instances = 0
    PROVE  Submit \in {"PENDING", "FAILED"}
BY EngineAssumption DEF Submit, SlotTest

\* The invariant holds when the first worker is about to be created.
LEMMA InitEngine == Init => EngineInv
BY EngineAssumption, EmptySeq
DEF Init, EngineInv, TypeOK, NoDispatch, CreatedAreNumbered, UpMeansRunning,
    JoinedHaveExited, Worker, MainStates, WorkerStates

\* Execute changes main's position and the pending list at most.
LEMMA ExecuteFrame ==
    ASSUME EngineInv, Execute
    PROVE  /\ UNCHANGED <<running_instances, queue_count, instance_count, pc,
                          mode, created, attempts, running, tests>>
           /\ pending_count' \in Nat
           /\ next' \in Nat \ {0}
           /\ status' \in {"unknown", "success", "failure"}
           /\ mpc' \in {"execute", "stop", "poll"}
           /\ running
<1>1. Submit # "ACCEPTED"
    BY SubmitNeverAccepts DEF EngineInv, NoDispatch
<1>2. \A n \in Nat : n + 0 = n
    OBVIOUS
<1> QED BY <1>1, <1>2 DEF Execute, EngineInv, TypeOK, UpMeansRunning

\* Types are kept by every step.
LEMMA NextType == EngineInv /\ [Next]_vars => TypeOK'
<1> SUFFICES ASSUME EngineInv, [Next]_vars
             PROVE  TypeOK'
    OBVIOUS
<1> USE EngineAssumption
    DEF EngineInv, TypeOK, MainStates, WorkerStates, mainVars, engineVars, schedulerVars
<1>1. CASE CreateWorker
    BY <1>1 DEF CreateWorker, CreatedAreNumbered, Worker
<1>2. CASE CreateFails
    BY <1>2 DEF CreateFails
<1>3. CASE SetRunning
    BY <1>3 DEF SetRunning
<1>4. CASE Register
  <2>1. next \in Test
      BY <1>4 DEF Register, Test
  <2>2. tests' \in Seq(Test)
      BY <1>4, <2>1, AppendProperties DEF Register
  <2> QED BY <1>4, <2>2 DEF Register
<1>5. CASE RejectTest \/ RegisterAllDone \/ ExecuteAllDone
    BY <1>5 DEF RejectTest, RegisterAllDone, ExecuteAllDone
<1>6. CASE Execute
    BY <1>6, ExecuteFrame
<1>7. CASE Poll
    BY <1>7 DEF Poll
<1>8. CASE Stop
  <2>1. /\ mpc' = "stop" /\ next' = 1
        /\ UNCHANGED <<mode, created, attempts, tests, queue_count,
                       instance_count, pc, schedulerVars>>
      BY <1>8 DEF Stop
  <2>2. running' \in BOOLEAN
      BY <1>8 DEF Stop
  <2>3. status' \in {"unknown", "success", "failure"}
      BY <1>8 DEF Stop
  <2> QED BY <2>1, <2>2, <2>3
<1>9. CASE Join \/ Free
  <2>1. /\ mpc' \in {mpc, "freed", "noEngine"} /\ next' \in {next, next + 1}
        /\ UNCHANGED <<mode, created, attempts, status, engineVars, pc, schedulerVars>>
      BY <1>9 DEF Join, Free
  <2> QED BY <2>1
<1>10. ASSUME NEW w \in Worker, Loop(w) \/ Pop(w) \/ SpuriousWakeup(w)
       PROVE  TypeOK'
    BY <1>10 DEF Loop, Pop, SpuriousWakeup
<1>11. CASE UNCHANGED vars
    BY <1>11 DEF vars
<1> QED BY <1>1, <1>2, <1>3, <1>4, <1>5, <1>6, <1>7, <1>8, <1>9, <1>10, <1>11
        DEF Next, MainStep, WorkerStep

\* No step dispatches anything.
LEMMA NextDispatch == EngineInv /\ [Next]_vars => NoDispatch'
<1> SUFFICES ASSUME EngineInv, [Next]_vars
             PROVE  NoDispatch'
    OBVIOUS
<1> USE DEF EngineInv, TypeOK, NoDispatch, mainVars, engineVars, schedulerVars
<1>1. CASE CreateWorker \/ CreateFails \/ SetRunning
    BY <1>1 DEF CreateWorker, CreateFails, SetRunning
<1>2. CASE Register \/ RejectTest \/ RegisterAllDone \/ ExecuteAllDone
    BY <1>2 DEF Register, RejectTest, RegisterAllDone, ExecuteAllDone
<1>3. CASE Execute
    BY <1>3, ExecuteFrame
<1>4. CASE Poll \/ Stop \/ Join \/ Free
    BY <1>4 DEF Poll, Stop, Join, Free
<1>5. ASSUME NEW w \in Worker, Loop(w) \/ Pop(w) \/ SpuriousWakeup(w)
      PROVE  NoDispatch'
    BY <1>5 DEF Loop, Pop, SpuriousWakeup
<1>6. CASE UNCHANGED vars
    BY <1>6 DEF vars
<1> QED BY <1>1, <1>2, <1>3, <1>4, <1>5, <1>6 DEF Next, MainStep, WorkerStep

\* Creation numbers the workers, the flag stays set, the joins go in order.
LEMMA NextJoin ==
    EngineInv /\ [Next]_vars => CreatedAreNumbered' /\ UpMeansRunning' /\ JoinedHaveExited'
<1> DEFINE Goal == CreatedAreNumbered /\ UpMeansRunning /\ JoinedHaveExited
<1> SUFFICES ASSUME EngineInv, [Next]_vars
             PROVE  Goal'
    OBVIOUS
<1> USE EngineAssumption
    DEF EngineInv, TypeOK, CreatedAreNumbered, UpMeansRunning, JoinedHaveExited,
        mainVars, engineVars, schedulerVars, Worker
<1>1. CASE CreateWorker
    BY <1>1 DEF CreateWorker
<1>2. CASE CreateFails
    BY <1>2 DEF CreateFails
<1>3. CASE SetRunning
    BY <1>3 DEF SetRunning
<1>4. CASE Register \/ RejectTest \/ RegisterAllDone \/ ExecuteAllDone
    BY <1>4 DEF Register, RejectTest, RegisterAllDone, ExecuteAllDone
<1>5. CASE Execute
    BY <1>5, ExecuteFrame
<1>6. CASE Poll
    BY <1>6 DEF Poll
<1>7. CASE Stop
    BY <1>7 DEF Stop
<1>8. CASE Join
    BY <1>8 DEF Join
<1>9. CASE Free
    BY <1>9 DEF Free
<1>10. ASSUME NEW w \in Worker, Loop(w) PROVE Goal'
    BY <1>10 DEF Loop
<1>11. ASSUME NEW w \in Worker, Pop(w) PROVE Goal'
    BY <1>11 DEF Pop
<1>12. ASSUME NEW w \in Worker, SpuriousWakeup(w) PROVE Goal'
    BY <1>12 DEF SpuriousWakeup
<1>13. CASE UNCHANGED vars
    BY <1>13 DEF vars
<1> QED BY <1>1, <1>2, <1>3, <1>4, <1>5, <1>6, <1>7, <1>8, <1>9, <1>10, <1>11,
           <1>12, <1>13 DEF Next, MainStep, WorkerStep

\* With no instance there is no result to find.
LEMMA NoResultIsFound ==
    ASSUME EngineInv, NEW t
    PROVE  ~ResultFound(t)
BY DEF EngineInv, NoDispatch, ResultFound

\* Main's status follows its position, and turns to success in Stop only.
LEMMA NextStatus ==
    EngineInv /\ StatusFollowsMain /\ SuccessIsEmpty /\ [Next]_vars
        => StatusFollowsMain' /\ SuccessIsEmpty'
<1> DEFINE Goal == StatusFollowsMain /\ SuccessIsEmpty
<1> SUFFICES ASSUME EngineInv, Goal, [Next]_vars
             PROVE  Goal'
    OBVIOUS
<1> USE EngineAssumption
    DEF StatusFollowsMain, SuccessIsEmpty, mainVars, engineVars, schedulerVars
<1>1. CASE CreateWorker \/ CreateFails \/ SetRunning
    BY <1>1 DEF CreateWorker, CreateFails, SetRunning
<1>2. CASE Register
    BY <1>2 DEF Register
<1>3. CASE RejectTest \/ RegisterAllDone \/ ExecuteAllDone
    BY <1>3 DEF RejectTest, RegisterAllDone, ExecuteAllDone
<1>4. CASE Execute
  <2>1. Submit # "ACCEPTED"
      BY SubmitNeverAccepts DEF EngineInv, NoDispatch
  <2> QED BY <1>4, <2>1, ExecuteFrame DEF Execute
<1>5. CASE Poll
  <2>1. ~ResultFound(next) /\ next \in Nat \ {0}
      BY NoResultIsFound DEF EngineInv, TypeOK
  <2>2. CASE attempts + 1 < MaxAttempts
      BY <1>5, <2>1, <2>2 DEF Poll
  <2>3. CASE ~(attempts + 1 < MaxAttempts)
      BY <1>5, <2>1, <2>3 DEF Poll
  <2> QED BY <2>2, <2>3
<1>6. CASE Stop
  <2>1. CASE mpc = "up" /\ mode = "list"
      BY <1>6, <2>1 DEF Stop
  <2>2. CASE mpc = "poll" /\ next > (IF mode = "run" THEN 1 ELSE NumTests)
    <3>1. next # 1 \/ (mode = "run_all" /\ NumTests = 0)
        BY <2>2 DEF EngineInv, TypeOK
    <3> QED BY <1>6, <2>2, <3>1 DEF Stop
  <2>3. CASE mpc = "stop" /\ running
      BY <1>6, <2>3 DEF Stop
  <2> QED BY <1>6, <2>1, <2>2, <2>3 DEF Stop
<1>7. CASE Join \/ Free
    BY <1>7 DEF Join, Free
<1>8. ASSUME NEW w \in Worker, Loop(w) \/ Pop(w) \/ SpuriousWakeup(w)
      PROVE  Goal'
    BY <1>8 DEF Loop, Pop, SpuriousWakeup
<1>9. CASE UNCHANGED vars
    BY <1>9 DEF vars
<1> QED BY <1>1, <1>2, <1>3, <1>4, <1>5, <1>6, <1>7, <1>8, <1>9
        DEF Next, MainStep, WorkerStep

\* The engine's invariant holds in every reachable state.
LEMMA EngineInductive == Spec => []EngineInv
<1>1. EngineInv /\ [Next]_vars => EngineInv'
    BY NextType, NextDispatch, NextJoin DEF EngineInv
<1> QED BY <1>1, InitEngine, PTL DEF Spec

\* The engine's variables keep their types.
THEOREM EngineTypeCorrect == Spec => []TypeOK
BY EngineInductive, PTL DEF EngineInv

\* The memory of the engine outlives every worker.
THEOREM NoUseAfterFree == Spec => []FreedAfterExit
<1>1. EngineInv => FreedAfterExit
    BY DEF EngineInv, TypeOK, CreatedAreNumbered, JoinedHaveExited, FreedAfterExit, Worker
<1> QED BY <1>1, EngineInductive, PTL

\* A run that had a test to wait for never ends with success: the results
\* main polls for do not exist, and the last poll settles for a failure.
THEOREM SuccessWithoutTests == Spec => []SuccessIsEmpty
<1>1. Init => StatusFollowsMain /\ SuccessIsEmpty
    BY DEF Init, StatusFollowsMain, SuccessIsEmpty
<1> QED BY <1>1, NextStatus, EngineInductive, PTL DEF Spec
============================================================================
