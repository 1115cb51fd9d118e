------------------------ MODULE ExecutionQueue_proofs ------------------------
(***************************************************************************)
(* Proofs about ExecutionQueue, for every finite pool of workers and every *)
(* ring size: the two indices and the count agree, only pushed instances   *)
(* are run, no wake-up is lost, and the ring implements the plain line.    *)
(***************************************************************************)
EXTENDS ExecutionQueue, FiniteSetTheorems, SequenceTheorems, TLAPS

\* Every slot between the reader and the writer holds a pushed instance.
LiveSlotsWritten ==
    \A k \in 1 .. queue_count :
        execution_queue[Wrap(queue_read_index + k - 1)] \in Instance

\* A worker never runs a slot that nobody has written.
OnlyPushedInstances == \A w \in Worker : pc[w] = "run" => taken[w] \in Instance

\* A worker holds an instance exactly while it runs one.
TakenIffRun == \A w \in Worker : taken[w] # NULL <=> pc[w] = "run"

\* The flag agrees with the engine's life once it is written.
RunningFollowsLife == (life = "up" => running) /\ (life = "down" => ~running)

RingInv ==
    /\ TypeOK
    /\ RunningFollowsLife
    /\ RingConsistent
    /\ LiveSlotsWritten
    /\ OnlyPushedInstances
    /\ TakenIffRun

----------------------------------------------------------------------------
(***************************************************************************)
(* The arithmetic of the ring.                                             *)
(***************************************************************************)

\* The index after a slot of the ring is the wrapped successor, in the ring.
LEMMA AdvanceWraps ==
    ASSUME NEW s \in Slots
    PROVE  Advance(s) = Wrap(s + 1) /\ Advance(s) \in Slots
BY QueueAssumption DEF Slots, Advance, Wrap

\* The slot after the one n past s is the one n + 1 past s.
LEMMA WrapStep ==
    ASSUME NEW s \in Slots, NEW n \in 0 .. QueueSize - 1
    PROVE  /\ Wrap(s + n) \in Slots
           /\ Advance(Wrap(s + n)) = Wrap(s + (n + 1))
BY QueueAssumption DEF Slots, Advance, Wrap

\* Counting from the advanced reader is counting one further from the reader.
LEMMA WrapShift ==
    ASSUME NEW s \in Slots, NEW n \in 0 .. QueueSize - 1
    PROVE  Wrap(Advance(s) + n) = Wrap(s + (n + 1))
BY QueueAssumption DEF Slots, Advance, Wrap

\* Slots at different distances from the reader, less than a turn apart, differ.
LEMMA WrapInjective ==
    ASSUME NEW s \in Slots, NEW m \in 0 .. QueueSize - 1,
           NEW n \in 0 .. QueueSize - 1, m # n
    PROVE  Wrap(s + m) # Wrap(s + n)
BY QueueAssumption DEF Slots, Wrap

----------------------------------------------------------------------------
(***************************************************************************)
(* The ring invariant.                                                     *)
(***************************************************************************)

\* An empty ring with idle workers satisfies the ring invariant.
LEMMA InitRing == Init => RingInv
BY QueueAssumption
DEF Init, RingInv, TypeOK, RunningFollowsLife, RingConsistent, LiveSlotsWritten,
    OnlyPushedInstances, TakenIffRun, Slots, Wrap

\* A signal only ever moves a sleeping worker to "woken".
LEMMA SignalFrame ==
    ASSUME TypeOK, Signal
    PROVE  /\ pc' \in [Worker -> {"loop", "pop", "waiting", "woken", "run", "exited"}]
           /\ \A w \in Worker : pc'[w] = "run" <=> pc[w] = "run"
<1>1. CASE Waiting = {}
    BY <1>1 DEF Signal, TypeOK
<1>2. ASSUME NEW v \in Waiting, pc' = [pc EXCEPT ![v] = "woken"]
      PROVE  /\ pc' \in [Worker -> {"loop", "pop", "waiting", "woken", "run", "exited"}]
             /\ \A w \in Worker : pc'[w] = "run" <=> pc[w] = "run"
    BY <1>2 DEF TypeOK, Waiting
<1> QED BY <1>1, <1>2 DEF Signal

\* A push that finds room writes the slot the writer points at, and that slot
\* is none of the live ones.
LEMMA PushRing ==
    ASSUME RingInv, NEW i \in Instance, Push(i)
    PROVE  RingInv'
<1> USE DEF RingInv
<1>1. CASE queue_count >= QueueSize
    BY <1>1 DEF Push, ring, TypeOK, RunningFollowsLife, RingConsistent, LiveSlotsWritten,
                OnlyPushedInstances, TakenIffRun, Slots, Wrap
<1>2. CASE ~(queue_count >= QueueSize)
  <2>1. /\ execution_queue' = [execution_queue EXCEPT ![queue_write_index] = i]
        /\ queue_write_index' = Advance(queue_write_index)
        /\ queue_count' = queue_count + 1
        /\ queue_read_index' = queue_read_index
        /\ Signal
        /\ UNCHANGED <<running, life, taken>>
      BY <1>2 DEF Push
  <2>2. queue_count \in 0 .. QueueSize - 1 /\ queue_read_index \in Slots
      BY <1>2, QueueAssumption DEF TypeOK
  <2>3. /\ queue_write_index = Wrap(queue_read_index + queue_count)
        /\ queue_write_index \in Slots
      BY DEF RingConsistent, TypeOK
  <2>4. TypeOK'
      BY <2>1, <2>2, <2>3, SignalFrame, AdvanceWraps, QueueAssumption DEF TypeOK
  <2>5. RingConsistent'
      BY <2>1, <2>2, <2>3, WrapStep DEF RingConsistent, Wrap
  <2>6. LiveSlotsWritten'
    <3> SUFFICES ASSUME NEW k \in 1 .. queue_count + 1
                 PROVE  execution_queue'[Wrap(queue_read_index + k - 1)] \in Instance
        BY <2>1 DEF LiveSlotsWritten, Wrap
    <3>1. k - 1 \in 0 .. QueueSize - 1 /\ k \in Nat
        BY <2>2, QueueAssumption
    <3>2. Wrap(queue_read_index + k - 1) = Wrap(queue_read_index + (k - 1))
        BY <3>1, <2>2, QueueAssumption DEF Slots, Wrap
    <3>3. Wrap(queue_read_index + (k - 1)) \in Slots
        BY <3>1, <2>2, WrapStep
    <3>4. CASE k - 1 = queue_count
        BY <3>2, <3>3, <3>4, <2>1, <2>3 DEF TypeOK
    <3>5. CASE k - 1 # queue_count
      <4>1. k \in 1 .. queue_count
          BY <3>5, <2>2, QueueAssumption
      <4>2. Wrap(queue_read_index + (k - 1)) # queue_write_index
          BY <3>1, <3>5, <2>2, <2>3, WrapInjective
      <4> QED BY <4>1, <4>2, <3>2, <3>3, <2>1 DEF LiveSlotsWritten, TypeOK
    <3> QED BY <3>4, <3>5
  <2>7. OnlyPushedInstances' /\ TakenIffRun' /\ RunningFollowsLife'
      BY <2>1, SignalFrame DEF OnlyPushedInstances, TakenIffRun, RunningFollowsLife
  <2> QED BY <2>4, <2>5, <2>6, <2>7
<1> QED BY <1>1, <1>2

\* A pop that takes the oldest instance moves the reader on by one.
LEMMA TakeRing ==
    ASSUME RingInv, NEW w \in Worker, PopTake(w), UNCHANGED <<running, life>>
    PROVE  RingInv'
<1> USE DEF RingInv
<1>1. /\ queue_count \in 1 .. QueueSize
      /\ queue_read_index \in Slots
      /\ taken' = [taken EXCEPT ![w] = execution_queue[queue_read_index]]
      /\ queue_read_index' = Advance(queue_read_index)
      /\ queue_count' = queue_count - 1
      /\ pc' = [pc EXCEPT ![w] = "run"]
      /\ UNCHANGED <<execution_queue, queue_write_index>>
    BY QueueAssumption DEF PopTake, TypeOK
<1>2. execution_queue[queue_read_index] \in Instance
  <2>1. 1 \in 1 .. queue_count /\ Wrap(queue_read_index + 1 - 1) = queue_read_index
      BY <1>1, QueueAssumption DEF Slots, Wrap
  <2> QED BY <2>1 DEF LiveSlotsWritten
<1>3. TypeOK'
    BY <1>1, <1>2, AdvanceWraps, QueueAssumption DEF TypeOK
<1>4. RingConsistent'
  <2>1. queue_count - 1 \in 0 .. QueueSize - 1 /\ (queue_count - 1) + 1 = queue_count
      BY <1>1, QueueAssumption
  <2>2. Wrap(Advance(queue_read_index) + (queue_count - 1))
            = Wrap(queue_read_index + queue_count)
      BY <2>1, <1>1, WrapShift
  <2> QED BY <2>2, <1>1 DEF RingConsistent, Wrap
<1>5. LiveSlotsWritten'
  <2> SUFFICES ASSUME NEW k \in 1 .. queue_count - 1
               PROVE  execution_queue[Wrap(Advance(queue_read_index) + k - 1)] \in Instance
      BY <1>1 DEF LiveSlotsWritten, Wrap
  <2>1. /\ k - 1 \in 0 .. QueueSize - 1
        /\ k + 1 \in 1 .. queue_count
        /\ (k - 1) + 1 = k
      BY <1>1, QueueAssumption
  <2>2. Wrap(Advance(queue_read_index) + (k - 1)) = Wrap(queue_read_index + k)
      BY <2>1, <1>1, WrapShift
  <2>3. Advance(queue_read_index) \in Nat /\ queue_read_index \in Nat
      BY <1>1, AdvanceWraps, QueueAssumption DEF Slots
  <2>4. /\ Advance(queue_read_index) + k - 1 = Advance(queue_read_index) + (k - 1)
        /\ queue_read_index + (k + 1) - 1 = queue_read_index + k
      BY <2>3
  <2> QED BY <2>1, <2>2, <2>4 DEF LiveSlotsWritten
<1>6. OnlyPushedInstances' /\ TakenIffRun' /\ RunningFollowsLife'
    BY <1>1, <1>2, QueueAssumption
    DEF OnlyPushedInstances, TakenIffRun, TypeOK, RunningFollowsLife
<1> QED BY <1>3, <1>4, <1>5, <1>6

\* Every other step leaves the ring alone.
LEMMA QuietRing ==
    ASSUME RingInv, UNCHANGED ring, running' \in BOOLEAN,
           life' \in {"starting", "up", "down"}, RunningFollowsLife',
           pc' \in [Worker -> {"loop", "pop", "waiting", "woken", "run", "exited"}],
           taken' \in [Worker -> Instance \union {NULL}],
           \A w \in Worker : pc'[w] = "run" => pc[w] = "run" /\ taken'[w] = taken[w],
           \A w \in Worker : pc'[w] # "run" => taken'[w] = NULL
    PROVE  RingInv'
BY DEF RingInv, ring, TypeOK, RingConsistent, LiveSlotsWritten,
       OnlyPushedInstances, TakenIffRun, Slots, Wrap

\* Every step of the queue keeps the ring invariant.
LEMMA NextRing == RingInv /\ [Next]_vars => RingInv'
<1> SUFFICES ASSUME RingInv, [Next]_vars
             PROVE  RingInv'
    OBVIOUS
<1>1. ASSUME NEW i \in Instance, Push(i) PROVE RingInv'
    BY <1>1, PushRing
<1>2. ASSUME NEW w \in Worker, Loop(w) PROVE RingInv'
    BY <1>2, QuietRing DEF Loop, RingInv, TypeOK, TakenIffRun, RunningFollowsLife
<1>3. ASSUME NEW w \in Worker, Pop(w) PROVE RingInv'
  <2>1. CASE PopWait(w)
      BY <1>3, <2>1, QuietRing DEF Pop, PopWait, RingInv, TypeOK, TakenIffRun,
                                     RunningFollowsLife
  <2>2. CASE PopNull(w)
      BY <1>3, <2>2, QuietRing DEF Pop, PopNull, RingInv, TypeOK, TakenIffRun,
                                     RunningFollowsLife
  <2>3. CASE PopTake(w)
      BY <1>3, <2>3, TakeRing DEF Pop
  <2> QED BY <1>3, <2>1, <2>2, <2>3 DEF Pop
<1>4. ASSUME NEW w \in Worker, Finish(w) PROVE RingInv'
    BY <1>4, QuietRing DEF Finish, RingInv, TypeOK, TakenIffRun, RunningFollowsLife
<1>5. ASSUME NEW w \in Worker, SpuriousWakeup(w) PROVE RingInv'
    BY <1>5, QuietRing DEF SpuriousWakeup, RingInv, TypeOK, TakenIffRun, RunningFollowsLife
<1>6. CASE Start \/ Stop
    BY <1>6, QuietRing DEF Start, Stop, RingInv, TypeOK, TakenIffRun, RunningFollowsLife
<1>7. CASE UNCHANGED vars
    BY <1>7, QuietRing DEF vars, ring, RingInv, TypeOK, TakenIffRun, RunningFollowsLife
<1> QED BY <1>1, <1>2, <1>3, <1>4, <1>5, <1>6, <1>7 DEF Next, WorkerStep

\* The ring invariant holds in every reachable state.
LEMMA RingInductive == Spec => []RingInv
BY InitRing, NextRing, PTL DEF Spec

\* The queue's variables keep their types; the count never leaves the ring.
THEOREM QueueTypeCorrect == Spec => []TypeOK
BY RingInductive, PTL DEF RingInv

\* The writer is queue_count slots ahead of the reader, always.
THEOREM RingAlwaysConsistent == Spec => []RingConsistent
BY RingInductive, PTL DEF RingInv

\* No worker runs an instance that was not pushed.
THEOREM OnlyPushedAreRun == Spec => []OnlyPushedInstances
BY RingInductive, PTL DEF RingInv

----------------------------------------------------------------------------
(***************************************************************************)
(* No lost wake-up.                                                        *)
(***************************************************************************)

\* The wait set and the woken workers are finite; their number is a natural.
LEMMA WokenFinite ==
    /\ IsFiniteSet(Woken)
    /\ Cardinality(Woken) \in Nat
<1>1. IsFiniteSet(Woken)
    BY FS_Subset, QueueAssumption DEF Woken
<1> QED BY <1>1, FS_CardinalityType

\* A sleeping worker that is woken adds one to the woken ones.
LEMMA WakeAddsOne ==
    ASSUME TypeOK, NEW v \in Waiting, pc' = [pc EXCEPT ![v] = "woken"]
    PROVE  Cardinality(Woken') = Cardinality(Woken) + 1
<1>1. Woken' = Woken \union {v} /\ v \notin Woken
    BY DEF Waiting, Woken, TypeOK
<1> QED BY <1>1, WokenFinite, FS_AddElement

\* A push wakes a worker for the instance it adds, if any worker sleeps.
LEMMA PushWakes ==
    ASSUME TypeOK, NoLostWakeup, NEW i \in Instance, Push(i)
    PROVE  NoLostWakeup'
<1>1. CASE queue_count >= QueueSize
    BY <1>1 DEF Push, ring, NoLostWakeup, Waiting, Woken
<1>2. CASE ~(queue_count >= QueueSize)
  <2>1. queue_count' = queue_count + 1 /\ running' = running /\ Signal
      BY <1>2 DEF Push
  <2>2. CASE Waiting = {}
      BY <2>1, <2>2 DEF Signal, NoLostWakeup, Waiting
  <2>3. ASSUME NEW v \in Waiting, pc' = [pc EXCEPT ![v] = "woken"]
        PROVE  NoLostWakeup'
    <3>1. Cardinality(Woken') = Cardinality(Woken) + 1
        BY <2>3, WakeAddsOne
    <3>2. running => queue_count <= Cardinality(Woken)
        BY <2>3 DEF NoLostWakeup
    <3> QED BY <3>1, <3>2, <2>1, WokenFinite, QueueAssumption DEF NoLostWakeup, TypeOK
  <2> QED BY <2>1, <2>2, <2>3 DEF Signal
<1> QED BY <1>1, <1>2

\* A take removes one instance and at most one woken worker.
LEMMA TakeWakes ==
    ASSUME TypeOK, NoLostWakeup, NEW w \in Worker,
           pc[w] \in {"pop", "woken"}, PopTake(w), UNCHANGED running
    PROVE  NoLostWakeup'
<1>1. /\ Waiting' = Waiting
      /\ queue_count' = queue_count - 1
      /\ queue_count \in Nat \ {0}
    BY QueueAssumption DEF PopTake, Waiting, TypeOK
<1>2. CASE pc[w] = "woken"
  <2>1. w \in Woken /\ Woken' = Woken \ {w}
      BY <1>2 DEF PopTake, Woken, TypeOK
  <2>2. Cardinality(Woken') = Cardinality(Woken) - 1
      BY <2>1, WokenFinite, FS_RemoveElement
  <2> QED BY <1>1, <2>2, WokenFinite DEF NoLostWakeup
<1>3. CASE pc[w] = "pop"
  <2>1. Woken' = Woken
      BY <1>3 DEF PopTake, Woken, TypeOK
  <2> QED BY <1>1, <2>1, WokenFinite DEF NoLostWakeup
<1> QED BY <1>2, <1>3

\* Before the engine has started the queue is empty.
EmptyUntilStarted == life = "starting" => queue_count = 0

LEMMA NextEmpty == TypeOK /\ EmptyUntilStarted /\ [Next]_vars => EmptyUntilStarted'
<1> SUFFICES ASSUME TypeOK, EmptyUntilStarted, [Next]_vars
             PROVE  EmptyUntilStarted'
    OBVIOUS
<1> USE DEF EmptyUntilStarted, ring
<1>1. ASSUME NEW i \in Instance, Push(i) PROVE EmptyUntilStarted'
    BY <1>1 DEF Push
<1>2. ASSUME NEW w \in Worker, WorkerStep(w) \/ SpuriousWakeup(w)
      PROVE  EmptyUntilStarted'
    BY <1>2 DEF WorkerStep, Loop, Pop, PopWait, PopNull, PopTake, Finish, SpuriousWakeup
<1>3. CASE Start \/ Stop
    BY <1>3 DEF Start, Stop
<1>4. CASE UNCHANGED vars
    BY <1>4 DEF vars
<1> QED BY <1>1, <1>2, <1>3, <1>4 DEF Next

\* No step strands an instance in front of a sleeping worker.
LEMMA NextWakes ==
    TypeOK /\ EmptyUntilStarted /\ NoLostWakeup /\ [Next]_vars => NoLostWakeup'
<1> SUFFICES ASSUME TypeOK, EmptyUntilStarted, NoLostWakeup, [Next]_vars
             PROVE  NoLostWakeup'
    OBVIOUS
<1>1. ASSUME NEW i \in Instance, Push(i) PROVE NoLostWakeup'
    BY <1>1, PushWakes
<1>2. ASSUME NEW w \in Worker, Loop(w) PROVE NoLostWakeup'
  <2>1. Waiting' = Waiting /\ Woken' = Woken
      BY <1>2 DEF Loop, Waiting, Woken, TypeOK
  <2> QED BY <1>2, <2>1 DEF Loop, ring, NoLostWakeup
<1>3. ASSUME NEW w \in Worker, Pop(w) PROVE NoLostWakeup'
  <2>1. CASE PopWait(w)
    <3>1. queue_count' = 0
        BY <2>1 DEF PopWait, ring
    <3>2. Cardinality(Woken') \in Nat
      <4>1. Woken' \subseteq Worker
          BY DEF Woken
      <4> QED BY <4>1, FS_Subset, FS_CardinalityType, QueueAssumption
    <3> QED BY <3>1, <3>2 DEF NoLostWakeup
  <2>2. CASE PopNull(w)
      BY <1>3, <2>2 DEF Pop, PopNull, NoLostWakeup
  <2>3. CASE PopTake(w)
      BY <1>3, <2>3, TakeWakes DEF Pop
  <2> QED BY <1>3, <2>1, <2>2, <2>3 DEF Pop
<1>4. ASSUME NEW w \in Worker, Finish(w) PROVE NoLostWakeup'
  <2>1. Waiting' = Waiting /\ Woken' = Woken
      BY <1>4 DEF Finish, Waiting, Woken, TypeOK
  <2> QED BY <1>4, <2>1 DEF Finish, ring, NoLostWakeup
<1>5. ASSUME NEW w \in Worker, SpuriousWakeup(w) PROVE NoLostWakeup'
  <2>1. w \in Waiting /\ pc' = [pc EXCEPT ![w] = "woken"]
      BY <1>5 DEF SpuriousWakeup, Waiting
  <2>2. Cardinality(Woken') = Cardinality(Woken) + 1
      BY <2>1, WakeAddsOne
  <2>3. UNCHANGED <<queue_count, running>>
      BY <1>5 DEF SpuriousWakeup, ring
  <2> QED BY <2>1, <2>2, <2>3, WokenFinite, QueueAssumption DEF NoLostWakeup, TypeOK
<1>6. CASE Start \/ Stop
  <2>1. Start => queue_count' = 0
      BY DEF Start, ring, EmptyUntilStarted
  <2>2. Cardinality(Woken') \in Nat
    <3>1. Woken' \subseteq Worker
        BY DEF Woken
    <3> QED BY <3>1, FS_Subset, FS_CardinalityType, QueueAssumption
  <2> QED BY <1>6, <2>1, <2>2 DEF Stop, NoLostWakeup
<1>7. CASE UNCHANGED vars
    BY <1>7 DEF vars, NoLostWakeup, Waiting, Woken
<1> QED BY <1>1, <1>2, <1>3, <1>4, <1>5, <1>6, <1>7 DEF Next, WorkerStep

\* While a worker sleeps, every queued instance has a woken worker on its way:
\* pthread_cond_signal once per push, under the lock, is enough.
THEOREM NoWakeupIsLost == Spec => []NoLostWakeup
<1>1. Init => NoLostWakeup /\ EmptyUntilStarted
    BY DEF Init, NoLostWakeup, Waiting, EmptyUntilStarted
<1> QED BY <1>1, NextWakes, NextEmpty, QueueTypeCorrect, PTL DEF Spec

----------------------------------------------------------------------------
(***************************************************************************)
(* The ring implements the line.                                           *)
(***************************************************************************)

\* The n instances from slot r on, oldest first, of a ring q.
LineOf(q, r, n) == [k \in 1 .. n |-> q[Wrap(r + k - 1)]]

Live(q, r, n) == \A k \in 1 .. n : q[Wrap(r + k - 1)] \in Instance

\* A live stretch of the ring is a sequence of instances.
LEMMA LineType ==
    ASSUME NEW q, NEW r, NEW n \in Nat, Live(q, r, n)
    PROVE  /\ LineOf(q, r, n) \in Seq(Instance)
           /\ Len(LineOf(q, r, n)) = n
           /\ \A k \in 1 .. n : LineOf(q, r, n)[k] = q[Wrap(r + k - 1)]
<1>1. LineOf(q, r, n) \in [1 .. n -> Instance]
    BY DEF LineOf, Live
<1>2. LineOf(q, r, n) \in Seq(Instance)
    BY <1>1, SeqDef
<1>3. Len(LineOf(q, r, n)) = n
    BY <1>1, <1>2, LenProperties
<1> QED BY <1>2, <1>3 DEF LineOf

\* Writing the slot behind a live stretch appends to its line.
LEMMA LineAppend ==
    ASSUME NEW r \in Slots, NEW n \in 0 .. QueueSize - 1,
           NEW q \in [Slots -> Instance \union {NULL}],
           NEW i \in Instance, Live(q, r, n)
    PROVE  LineOf([q EXCEPT ![Wrap(r + n)] = i], r, n + 1) = Append(LineOf(q, r, n), i)
<1> DEFINE p == [q EXCEPT ![Wrap(r + n)] = i]
           s == LineOf(q, r, n)
<1>1. n \in Nat /\ r \in Nat
    BY QueueAssumption DEF Slots
<1>2. s \in Seq(Instance) /\ Len(s) = n
    BY <1>1, LineType
<1>3. \A k \in 1 .. n : s[k] = q[Wrap(r + k - 1)]
    BY <1>1, LineType
<1>4. \A k \in 1 .. n + 1 :
          p[Wrap(r + k - 1)] = IF k = n + 1 THEN i ELSE q[Wrap(r + k - 1)]
  <2> SUFFICES ASSUME NEW k \in 1 .. n + 1
               PROVE  p[Wrap(r + k - 1)] = IF k = n + 1 THEN i ELSE q[Wrap(r + k - 1)]
      OBVIOUS
  <2>1. k - 1 \in 0 .. QueueSize - 1 /\ r + k - 1 = r + (k - 1)
      BY <1>1, QueueAssumption
  <2>2. Wrap(r + (k - 1)) \in Slots
      BY <2>1, WrapStep
  <2>3. CASE k = n + 1
    <3>1. r + k - 1 = r + n
        BY <2>3, <1>1
    <3> QED BY <3>1, <2>1, <2>2, <2>3
  <2>4. CASE k # n + 1
    <3>1. k - 1 # n
        BY <2>4, <1>1
    <3>2. Wrap(r + (k - 1)) # Wrap(r + n)
        BY <2>1, <3>1, WrapInjective
    <3> QED BY <2>1, <2>2, <2>4, <3>2
  <2> QED BY <2>3, <2>4
<1>5. Append(s, i) \in Seq(Instance)
    BY <1>2
<1>6. Len(Append(s, i)) = n + 1
    BY <1>1, <1>2
<1>7. \A k \in 1 .. n + 1 :
          Append(s, i)[k] = IF k = n + 1 THEN i ELSE q[Wrap(r + k - 1)]
    BY <1>1, <1>2, <1>3
<1>8. /\ LineOf(p, r, n + 1) \in Seq(Instance)
      /\ Len(LineOf(p, r, n + 1)) = n + 1
      /\ \A k \in 1 .. n + 1 : LineOf(p, r, n + 1)[k] = p[Wrap(r + k - 1)]
  <2>1. Live(p, r, n + 1)
      BY <1>1, <1>4 DEF Live
  <2> HIDE DEF p
  <2> QED BY <1>1, <2>1, LineType
<1> HIDE DEF p, s
<1>9. LineOf(p, r, n + 1) = Append(s, i)
    BY <1>4, <1>5, <1>6, <1>7, <1>8, SeqEqual
<1> QED BY <1>9 DEF p, s

\* Moving past the first slot of a live stretch takes the head off its line.
LEMMA LineTail ==
    ASSUME NEW r \in Slots, NEW n \in 1 .. QueueSize, NEW q, Live(q, r, n)
    PROVE  /\ LineOf(q, r, n) # <<>>
           /\ Head(LineOf(q, r, n)) = q[r]
           /\ LineOf(q, Advance(r), n - 1) = Tail(LineOf(q, r, n))
<1> DEFINE s == LineOf(q, r, n)
<1>1. n \in Nat /\ n > 0 /\ r \in Nat /\ Advance(r) \in Nat /\ n - 1 \in Nat
    BY AdvanceWraps, QueueAssumption DEF Slots
<1>2. /\ s \in Seq(Instance)
      /\ Len(s) = n
      /\ \A k \in 1 .. n : s[k] = q[Wrap(r + k - 1)]
    BY <1>1, LineType
<1>3. s # <<>>
    BY <1>1, <1>2, EmptySeq
<1>4. s[1] = q[r]
  <2>1. r + 1 - 1 = r /\ Wrap(r) = r
      BY <1>1, QueueAssumption DEF Slots, Wrap
  <2> QED BY <1>1, <1>2, <2>1
<1>5. \A k \in 1 .. n - 1 : q[Wrap(Advance(r) + k - 1)] = s[k + 1]
  <2> SUFFICES ASSUME NEW k \in 1 .. n - 1
               PROVE  q[Wrap(Advance(r) + k - 1)] = s[k + 1]
      OBVIOUS
  <2>1. /\ k - 1 \in 0 .. QueueSize - 1
        /\ k + 1 \in 1 .. n
        /\ (k - 1) + 1 = k
        /\ Advance(r) + k - 1 = Advance(r) + (k - 1)
        /\ r + (k + 1) - 1 = r + k
      BY <1>1, QueueAssumption
  <2>2. Wrap(Advance(r) + (k - 1)) = Wrap(r + k)
      BY <2>1, WrapShift
  <2> QED BY <1>2, <2>1, <2>2
<1>6. /\ Head(s) = s[1]
      /\ Tail(s) \in Seq(Instance)
      /\ Len(Tail(s)) = n - 1
      /\ \A k \in 1 .. n - 1 : Tail(s)[k] = s[k + 1]
    BY <1>1, <1>2, <1>3, HeadTailProperties
<1>7. Live(q, Advance(r), n - 1)
  <2> SUFFICES ASSUME NEW k \in 1 .. n - 1
               PROVE  s[k + 1] \in Instance
      BY <1>5 DEF Live
  <2>1. k + 1 \in 1 .. n
      BY <1>1
  <2> QED BY <1>2, <2>1, ElementOfSeq
<1>8. /\ LineOf(q, Advance(r), n - 1) \in Seq(Instance)
      /\ Len(LineOf(q, Advance(r), n - 1)) = n - 1
      /\ \A k \in 1 .. n - 1 :
            LineOf(q, Advance(r), n - 1)[k] = q[Wrap(Advance(r) + k - 1)]
    BY <1>1, <1>7, LineType
<1> HIDE DEF s
<1>9. LineOf(q, Advance(r), n - 1) = Tail(s)
    BY <1>5, <1>6, <1>8, SeqEqual
<1> QED BY <1>3, <1>4, <1>6, <1>9 DEF s

\* The refinement mapping reads the live stretch.
LEMMA ContentsIsLine ==
    /\ Contents = LineOf(execution_queue, queue_read_index, queue_count)
    /\ LiveSlotsWritten <=> Live(execution_queue, queue_read_index, queue_count)
BY DEF Contents, LineOf, LiveSlotsWritten, Live

\* In the next state as well.
LEMMA ContentsIsLineNext ==
    Contents' = LineOf(execution_queue', queue_read_index', queue_count')
BY DEF Contents, LineOf, Wrap

\* A push that finds room appends to the line; a refused one does nothing.
LEMMA PushIsPut ==
    ASSUME RingInv, NEW i \in Instance, Push(i)
    PROVE  Line!Put(i) \/ UNCHANGED Line!fifoVars
<1>1. CASE queue_count >= QueueSize
    BY <1>1 DEF Push, ring, Line!fifoVars, Contents, Wrap
<1>2. CASE ~(queue_count >= QueueSize)
  <2>1. /\ execution_queue' = [execution_queue EXCEPT ![queue_write_index] = i]
        /\ queue_count' = queue_count + 1
        /\ queue_read_index' = queue_read_index
        /\ UNCHANGED <<life, taken>>
      BY <1>2 DEF Push
  <2>2. /\ queue_count \in 0 .. QueueSize - 1
        /\ queue_read_index \in Slots
        /\ execution_queue \in [Slots -> Instance \union {NULL}]
        /\ queue_write_index = Wrap(queue_read_index + queue_count)
        /\ Live(execution_queue, queue_read_index, queue_count)
      BY <1>2, ContentsIsLine, QueueAssumption DEF RingInv, TypeOK, RingConsistent
  <2>3. Contents' = Append(Contents, i)
      BY <2>1, <2>2, LineAppend, ContentsIsLine, ContentsIsLineNext
  <2>4. Len(Contents) < QueueSize
    <3>1. Len(Contents) = queue_count
        BY <2>2, LineType, ContentsIsLine, QueueAssumption
    <3> QED BY <3>1, <2>2, QueueAssumption
  <2> QED BY <2>1, <2>3, <2>4 DEF Line!Put
<1> QED BY <1>1, <1>2

\* A pop that takes an instance takes the head of the line.
LEMMA TakeIsTake ==
    ASSUME RingInv, NEW w \in Worker, Pop(w), PopTake(w)
    PROVE  Line!Take(w)
<1>1. /\ queue_count \in 1 .. QueueSize
      /\ queue_read_index \in Slots
      /\ Live(execution_queue, queue_read_index, queue_count)
      /\ execution_queue' = execution_queue
      /\ queue_read_index' = Advance(queue_read_index)
      /\ queue_count' = queue_count - 1
      /\ taken' = [taken EXCEPT ![w] = execution_queue[queue_read_index]]
    BY ContentsIsLine, QueueAssumption DEF PopTake, RingInv, TypeOK
<1>2. /\ Contents # <<>>
      /\ Head(Contents) = execution_queue[queue_read_index]
      /\ Contents' = Tail(Contents)
    BY <1>1, LineTail, ContentsIsLine, ContentsIsLineNext
<1>3. taken[w] = NULL /\ life # "down" /\ life' = life
    BY DEF Pop, PopTake, RingInv, TakenIffRun, RunningFollowsLife
<1> QED BY <1>1, <1>2, <1>3 DEF Line!Take

\* A step that leaves the ring alone leaves the line alone.
LEMMA QuietLine == UNCHANGED ring => Contents' = Contents
BY DEF ring, Contents, Wrap

\* Every step of the queue is a step of the line, or a stutter.
LEMMA StepIsLineStep == RingInv /\ [Next]_vars => [Line!FifoNext]_Line!fifoVars
<1> SUFFICES ASSUME RingInv, [Next]_vars
             PROVE  [Line!FifoNext]_Line!fifoVars
    OBVIOUS
<1> USE DEF Line!fifoVars
<1>1. ASSUME NEW i \in Instance, Push(i) PROVE [Line!FifoNext]_Line!fifoVars
    BY <1>1, PushIsPut DEF Line!FifoNext
<1>2. ASSUME NEW w \in Worker, Loop(w) \/ SpuriousWakeup(w)
      PROVE  UNCHANGED Line!fifoVars
    BY <1>2, QuietLine DEF Loop, SpuriousWakeup
<1>3. ASSUME NEW w \in Worker, Pop(w) PROVE [Line!FifoNext]_Line!fifoVars
  <2>1. CASE PopWait(w) \/ PopNull(w)
      BY <1>3, <2>1, QuietLine DEF Pop, PopWait, PopNull
  <2>2. CASE PopTake(w)
      BY <1>3, <2>2, TakeIsTake DEF Line!FifoNext
  <2> QED BY <1>3, <2>1, <2>2 DEF Pop
<1>4. ASSUME NEW w \in Worker, Finish(w) PROVE Line!Done(w)
    BY <1>4, QuietLine DEF Finish, Line!Done, RingInv, TakenIffRun
<1>5. CASE Start \/ Stop
    BY <1>5, QuietLine DEF Start, Stop, Line!FifoNext, Line!StopLine
<1>6. CASE UNCHANGED vars
    BY <1>6, QuietLine DEF vars, ring
<1> QED BY <1>1, <1>2, <1>3, <1>4, <1>5, <1>6
        DEF Next, WorkerStep, Line!FifoNext

\* The execution queue implements the bounded first-in first-out line.
THEOREM QueueIsFifo == Spec => ImplementsFifo
<1>1. Init => Line!FifoInit
  <2> SUFFICES ASSUME Init
               PROVE  Line!FifoInit
      OBVIOUS
  <2>1. Contents = <<>>
      BY DEF Init, Contents
  <2> QED BY <2>1 DEF Init, Line!FifoInit
<1> QED BY <1>1, StepIsLineStep, RingInductive, PTL
        DEF Spec, ImplementsFifo, Line!FifoSpec
============================================================================
