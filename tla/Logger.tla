------------------------------- MODULE Logger -------------------------------
(***************************************************************************)
(* common/logger.c: a static ring of messages between the threads that     *)
(* call logger_log and one worker that prints.  enqueue and dequeue are    *)
(* critical sections of queueLock, one action each, with the wait of       *)
(* dequeue split as pthread_cond_wait splits it.  logger_init resets the   *)
(* ring after the worker has started, without the lock.                    *)
(*                                                                         *)
(* A message is its number; accepted and printed are histories of what     *)
(* entered the ring and what reached stdout.                               *)
(***************************************************************************)
EXTENDS Naturals, Sequences

CONSTANTS
    Level,         \* severities, LogLevel_e
    DefaultLevel,  \* LOG_LEVEL_ERROR, the mask logger_init sets
    QueueSize,     \* LOGGER_MAX_QUEUE_SIZE
    MaxMessages    \* bound on the messages that pass the level filter

ASSUME LoggerAssumption ==
    /\ DefaultLevel \in Level
    /\ QueueSize \in Nat \ {0}
    /\ MaxMessages \in Nat

VARIABLES
    logLevel,  \* the enabled severities, a bit mask in the code
    head, tail, count,
    queue,
    running,
    mpc,       \* the thread that calls logger_init and logger_deinit
    wpc,       \* logger_worker
    msg,       \* the worker's local message, 0 if none
    calls,     \* messages that passed the level filter
    accepted, printed,
    atStop     \* number of messages accepted when logger_deinit cleared running

fifo == <<head, tail, count, queue>>
history == <<calls, accepted>>
vars == <<logLevel, head, tail, count, queue, running, mpc, wpc, msg,
          calls, accepted, printed, atStop>>

Slots == 0 .. QueueSize - 1
Message == 1 .. MaxMessages

TypeOK ==
    /\ logLevel \in SUBSET Level
    /\ head \in Slots /\ tail \in Slots /\ count \in 0 .. QueueSize
    /\ queue \in [Slots -> Message \union {0}]
    /\ running \in BOOLEAN
    /\ mpc \in {"start", "reset", "up", "joining", "done", "failed"}
    /\ wpc \in {"none", "loop", "dequeue", "waiting", "woken", "print", "exited"}
    /\ msg \in Message \union {0}
    /\ calls \in 0 .. MaxMessages
    /\ accepted \in Seq(Message) /\ printed \in Seq(Message)
    /\ atStop \in 0 .. MaxMessages

\* loggerContext is static, so all zero.
Init ==
    /\ logLevel = {}
    /\ head = 0 /\ tail = 0 /\ count = 0
    /\ queue = [s \in Slots |-> 0]
    /\ running = FALSE
    /\ mpc = "start"
    /\ wpc = "none"
    /\ msg = 0
    /\ calls = 0
    /\ accepted = <<>> /\ printed = <<>>
    /\ atStop = 0

\* logger_init: running, then the thread, ...
StartWorker ==
    /\ mpc = "start"
    /\ running' = TRUE
    /\ wpc' = "loop"
    /\ mpc' = "reset"
    /\ UNCHANGED <<logLevel, fifo, msg, history, printed, atStop>>

StartFails ==
    /\ mpc = "start"
    /\ running' = TRUE
    /\ mpc' = "failed"
    /\ UNCHANGED <<logLevel, fifo, wpc, msg, history, printed, atStop>>

\* ... then the level and the ring, while the worker may already look at it.
Reset ==
    /\ mpc = "reset"
    /\ logLevel' = {DefaultLevel}
    /\ head' = 0 /\ tail' = 0 /\ count' = 0
    /\ mpc' = "up"
    /\ UNCHANGED <<queue, running, wpc, msg, history, printed, atStop>>

\* logger_set_level
SetLevel(mask) ==
    /\ mpc = "up"
    /\ logLevel' = mask
    /\ UNCHANGED <<fifo, running, mpc, wpc, msg, history, printed, atStop>>

\* Slip: an index does not wrap.
AdvanceOn(index) == index + 1

Advance(index) == (index + 1) % QueueSize

\* Slip: nobody signals.
NoSignal == wpc' = wpc

Signal == wpc' = IF wpc = "waiting" THEN "woken" ELSE wpc

\* enqueue: a full ring turns the message away.
Enqueue(m) ==
    IF count >= QueueSize
    THEN UNCHANGED <<fifo, wpc, accepted>>
    ELSE /\ queue' = [queue EXCEPT ![tail] = m]
         /\ tail' = Advance(tail)
         /\ count' = count + 1
         /\ accepted' = Append(accepted, m)
         /\ UNCHANGED head
         /\ Signal

\* logger_log, by any thread once logger_init has returned, also while the
\* logger is being taken down.  enqueue's result is ignored.
Log(level) ==
    /\ mpc \in {"up", "joining"}
    /\ level \in logLevel
    /\ calls < MaxMessages
    /\ calls' = calls + 1
    /\ Enqueue(calls + 1)
    /\ UNCHANGED <<logLevel, running, mpc, msg, printed, atStop>>

\* logger_deinit: clear running and signal under the lock, then join.
Stop ==
    /\ mpc = "up"
    /\ running' = FALSE
    /\ Signal
    /\ mpc' = "joining"
    /\ atStop' = Len(accepted)
    /\ UNCHANGED <<logLevel, fifo, msg, history, printed>>

Join ==
    /\ mpc = "joining"
    /\ wpc = "exited"
    /\ mpc' = "done"
    /\ UNCHANGED <<logLevel, fifo, running, wpc, msg, history, printed, atStop>>

\* Slip: the loop ends with messages in the ring.
LoopWhileRunning ==
    /\ wpc = "loop"
    /\ wpc' = IF running THEN "dequeue" ELSE "exited"
    /\ UNCHANGED <<logLevel, fifo, running, mpc, msg, history, printed, atStop>>

\* The loop condition of logger_worker, read without the lock.
Loop ==
    /\ wpc = "loop"
    /\ wpc' = IF running \/ count > 0 THEN "dequeue" ELSE "exited"
    /\ UNCHANGED <<logLevel, fifo, running, mpc, msg, history, printed, atStop>>

\* dequeue under the lock, from its entry or after a wake-up.
DequeueWait ==
    /\ count = 0 /\ running
    /\ wpc' = "waiting"
    /\ UNCHANGED <<fifo, msg>>

DequeueNothing ==
    /\ count = 0 /\ ~running
    /\ wpc' = "loop"
    /\ UNCHANGED <<fifo, msg>>

\* Slip: dequeue reads at the writer's index.
DequeueAtTail ==
    /\ count > 0
    /\ msg' = queue[tail]
    /\ head' = Advance(head)
    /\ count' = count - 1
    /\ wpc' = "print"
    /\ UNCHANGED <<tail, queue>>

DequeueTake ==
    /\ count > 0
    /\ msg' = queue[head]
    /\ head' = Advance(head)
    /\ count' = count - 1
    /\ wpc' = "print"
    /\ UNCHANGED <<tail, queue>>

Dequeue ==
    /\ wpc \in {"dequeue", "woken"}
    /\ DequeueWait \/ DequeueNothing \/ DequeueTake
    /\ UNCHANGED <<logLevel, running, mpc, history, printed, atStop>>

\* printf and fflush, outside the lock.
PrintMessage ==
    /\ wpc = "print"
    /\ printed' = Append(printed, msg)
    /\ msg' = 0
    /\ wpc' = "loop"
    /\ UNCHANGED <<logLevel, fifo, running, mpc, history, atStop>>

\* pthread_cond_wait may return without a signal.
SpuriousWakeup ==
    /\ wpc = "waiting"
    /\ wpc' = "woken"
    /\ UNCHANGED <<logLevel, fifo, running, mpc, msg, history, printed, atStop>>

WorkerStep == Loop \/ Dequeue \/ PrintMessage

Next ==
    \/ StartWorker \/ StartFails \/ Reset \/ Stop \/ Join
    \/ \E mask \in SUBSET Level : SetLevel(mask)
    \/ \E level \in Level : Log(level)
    \/ WorkerStep
    \/ SpuriousWakeup

\* The worker runs whenever it can, and a join of a worker that has ended
\* returns; nobody is obliged to log or to stop.
Spec == Init /\ [][Next]_vars /\ WF_vars(WorkerStep) /\ WF_vars(Join)

----------------------------------------------------------------------------
\* The messages in the ring, oldest first.
Contents == [k \in 1 .. count |-> queue[(head + k - 1) % QueueSize]]

InHand == IF wpc = "print" THEN <<msg>> ELSE <<>>

\* Every accepted message is printed, in the worker's hand or in the ring:
\* none is lost, doubled or overtaken, also while the logger stops, and the
\* reset in logger_init never wipes one out.
InOrderOnce == accepted = printed \o InHand \o Contents

\* logger.h:120: logger_deinit "Stops the logging worker thread, flushes any
\* pending log messages": whatever was accepted before it is on stdout when
\* it returns.
FlushedAtDeinit == mpc = "done" => Len(printed) >= atStop

\* logger_deinit returns.
DeinitReturns == (mpc = "joining") ~> (mpc = "done")
============================================================================
