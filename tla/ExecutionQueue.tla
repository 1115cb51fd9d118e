--------------------------- MODULE ExecutionQueue ---------------------------
(***************************************************************************)
(* The execution queue of services/test-engine.c and the pool of workers   *)
(* that drains it: a ring of instance pointers, queue_lock and             *)
(* queue_condition.  A critical section is one action, except that         *)
(* pthread_cond_wait splits test_engine_queue_pop in two: pc "waiting" is  *)
(* a worker in the wait set, "woken" one that has left it and must take    *)
(* the lock again before it looks at the queue.                            *)
(*                                                                         *)
(* The pushes are those of any thread (test_engine_execute and the end of  *)
(* a worker's iteration); what a worker does with an instance is one step, *)
(* Finish.  test_engine_init sets running only after it has created the    *)
(* workers, who may read before that what malloc left there, and only then *)
(* can anybody push; test_engine_deinit clears it without lock and without *)
(* signal.                                                                 *)
(***************************************************************************)
EXTENDS Naturals, FiniteSets

CONSTANTS
    Worker,      \* the pool, TEST_ENGINE_MAX_WORKERS threads
    Instance,    \* test instances that may be pushed
    QueueSize,   \* TEST_ENGINE_QUEUE_SIZE
    NULL         \* an uninitialised slot, or no instance

ASSUME QueueAssumption ==
    /\ IsFiniteSet(Worker)
    /\ QueueSize \in Nat \ {0}
    /\ NULL \notin Instance

VARIABLES
    execution_queue,
    queue_count,
    queue_read_index,
    queue_write_index,
    running,
    life,   \* how far the engine is: "starting", "up" or "down"
    pc,     \* where each worker is in test_engine_worker
    taken   \* the worker's local "instance"

ring == <<execution_queue, queue_count, queue_read_index, queue_write_index>>
vars == <<execution_queue, queue_count, queue_read_index, queue_write_index,
          running, life, pc, taken>>

Slots == 0 .. QueueSize - 1

TypeOK ==
    /\ execution_queue \in [Slots -> Instance \union {NULL}]
    /\ queue_count \in 0 .. QueueSize
    /\ queue_read_index \in Slots
    /\ queue_write_index \in Slots
    /\ running \in BOOLEAN
    /\ life \in {"starting", "up", "down"}
    /\ pc \in [Worker -> {"loop", "pop", "waiting", "woken", "run", "exited"}]
    /\ taken \in [Worker -> Instance \union {NULL}]

\* The workers are created, in whatever order they come to run: neither the
\* slots nor running have been written.
Init ==
    /\ execution_queue = [s \in Slots |-> NULL]
    /\ queue_count = 0
    /\ queue_read_index = 0
    /\ queue_write_index = 0
    /\ running \in BOOLEAN
    /\ life = "starting"
    /\ pc = [w \in Worker |-> "loop"]
    /\ taken = [w \in Worker |-> NULL]

Waiting == {w \in Worker : pc[w] = "waiting"}
Woken == {w \in Worker : pc[w] = "woken"}

\* Slip: push forgets the signal.
NoSignal == pc' = pc

\* pthread_cond_signal: one waiter leaves the wait set, if there is one.
Signal ==
    IF Waiting = {}
    THEN pc' = pc
    ELSE \E w \in Waiting : pc' = [pc EXCEPT ![w] = "woken"]

\* Slip: an index wraps one slot late.
AdvanceLate(index) == IF index + 1 > QueueSize THEN 0 ELSE index + 1

\* An index that has reached the end of the array starts over.
Advance(index) == IF index + 1 >= QueueSize THEN 0 ELSE index + 1

\* Slip: push does not look whether the queue is full.
PushUnchecked(i) ==
    /\ life # "starting"
    /\ execution_queue' = [execution_queue EXCEPT ![queue_write_index] = i]
    /\ queue_write_index' = Advance(queue_write_index)
    /\ queue_count' = queue_count + 1
    /\ Signal
    /\ UNCHANGED <<queue_read_index, running, life, taken>>

\* test_engine_queue_push: a full queue refuses the instance.
Push(i) ==
    /\ life # "starting"
    /\ IF queue_count >= QueueSize
       THEN UNCHANGED <<ring, pc>>
       ELSE /\ execution_queue' = [execution_queue EXCEPT ![queue_write_index] = i]
            /\ queue_write_index' = Advance(queue_write_index)
            /\ queue_count' = queue_count + 1
            /\ UNCHANGED queue_read_index
            /\ Signal
    /\ UNCHANGED <<running, life, taken>>

\* The loop condition of test_engine_worker, read without the lock.  Whoever
\* reads it false is gone for good, also before it was ever written.
Loop(w) ==
    /\ pc[w] = "loop"
    /\ pc' = [pc EXCEPT ![w] = IF running THEN "pop" ELSE "exited"]
    /\ UNCHANGED <<ring, running, life, taken>>

\* test_engine_queue_pop under the lock, from its entry or after a wake-up:
\* wait, return NULL to a stopping engine's worker, or take the oldest.
PopWait(w) ==
    /\ queue_count = 0 /\ running
    /\ pc' = [pc EXCEPT ![w] = "waiting"]
    /\ UNCHANGED <<ring, taken>>

PopNull(w) ==
    /\ ~running
    /\ pc' = [pc EXCEPT ![w] = "loop"]
    /\ UNCHANGED <<ring, taken>>

PopTake(w) ==
    /\ queue_count > 0 /\ running
    /\ taken' = [taken EXCEPT ![w] = execution_queue[queue_read_index]]
    /\ queue_read_index' = Advance(queue_read_index)
    /\ queue_count' = queue_count - 1
    /\ pc' = [pc EXCEPT ![w] = "run"]
    /\ UNCHANGED <<execution_queue, queue_write_index>>

Pop(w) ==
    /\ pc[w] \in {"pop", "woken"}
    /\ PopWait(w) \/ PopNull(w) \/ PopTake(w)
    /\ UNCHANGED <<running, life>>

\* pthread_cond_wait may return without a signal.
SpuriousWakeup(w) ==
    /\ pc[w] = "waiting"
    /\ pc' = [pc EXCEPT ![w] = "woken"]
    /\ UNCHANGED <<ring, running, life, taken>>

\* The rest of the worker's iteration; it ends in the loop condition.
Finish(w) ==
    /\ pc[w] = "run"
    /\ pc' = [pc EXCEPT ![w] = "loop"]
    /\ taken' = [taken EXCEPT ![w] = NULL]
    /\ UNCHANGED <<ring, running, life>>

\* The last statement of test_engine_init.
Start ==
    /\ life = "starting"
    /\ life' = "up"
    /\ running' = TRUE
    /\ UNCHANGED <<ring, pc, taken>>

\* The first statement of test_engine_deinit.
Stop ==
    /\ life = "up"
    /\ life' = "down"
    /\ running' = FALSE
    /\ UNCHANGED <<ring, pc, taken>>

WorkerStep(w) == Loop(w) \/ Pop(w) \/ Finish(w)

Next ==
    \/ \E i \in Instance : Push(i)
    \/ \E w \in Worker : WorkerStep(w) \/ SpuriousWakeup(w)
    \/ Start \/ Stop

\* A worker that can take the lock eventually does, and tests return; no
\* thread is obliged to push or to stop, and no wake-up comes for free.
Spec == Init /\ [][Next]_vars /\ \A w \in Worker : WF_vars(WorkerStep(w))

----------------------------------------------------------------------------
(***************************************************************************)
(* The ring as a line: its k-th oldest instance.                           *)
(***************************************************************************)
Wrap(n) == IF n >= QueueSize THEN n - QueueSize ELSE n

Contents ==
    [k \in 1 .. queue_count |-> execution_queue[Wrap(queue_read_index + k - 1)]]

\* The two indices and the count are three records of one fact: the writer
\* is exactly queue_count slots ahead of the reader, also after both wrapped.
RingConsistent == queue_write_index = Wrap(queue_read_index + queue_count)

\* No lost wake-up: while a worker sleeps, every queued instance has a woken
\* worker on its way to the queue.  One signal per push is enough, even when
\* a busy worker comes back and takes the instance a woken one was meant for.
NoLostWakeup ==
    running /\ Waiting # {} => queue_count <= Cardinality(Woken)

\* No worker has got past the race between its first look at running and the
\* end of test_engine_init (test-engine.c:386).
AllGone == \A w \in Worker : pc[w] = "exited"

\* The oldest instance leaves the queue while the engine runs, if tests return
\* and at least one worker has seen the engine start.  Without such a worker
\* nobody consumes what is queued, other than the comment on the queue says.
OldestIsTaken ==
    \A s \in Slots :
        (running /\ queue_count > 0 /\ queue_read_index = s)
            ~> (~running \/ AllGone \/ queue_read_index # s)

\* The ring, the lock and the condition variable implement the plain line.
Line == INSTANCE WorkFifo
    WITH line <- Contents, stopped <- (life = "down"), Capacity <- QueueSize

ImplementsFifo == Line!FifoSpec
============================================================================
