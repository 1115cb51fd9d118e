---------------------------- MODULE Logger_proofs ----------------------------
(***************************************************************************)
(* Proofs about Logger, for every ring size, any set of severities and any *)
(* number of messages: the ring loses, doubles and reorders nothing that   *)
(* entered it, across logger_init and logger_deinit, and a logger that is  *)
(* down has printed what was accepted before it was told to stop.          *)
(***************************************************************************)
EXTENDS Logger, SequenceTheorems, TLAPS

\* The writer is count slots ahead of the reader.
RingConsistent == tail = (head + count) % QueueSize

\* How many messages the worker has in its hand.
Hand == IF wpc = "print" THEN 1 ELSE 0

\* InOrderOnce one message at a time: what was accepted is printed, in the
\* hand or in the ring, at the place where it was accepted.
EachInPlace ==
    /\ Len(accepted) = Len(printed) + Hand + count
    /\ \A k \in 1 .. Len(printed) : printed[k] = accepted[k]
    /\ wpc = "print" => msg = accepted[Len(printed) + 1]
    /\ \A k \in 1 .. count :
          queue[(head + (k - 1)) % QueueSize] = accepted[Len(printed) + Hand + k]

\* Messages are numbered by the calls, and not all of them are accepted.
CallsBoundAccepted == Len(accepted) <= calls

\* Nothing is logged before logger_init returns, so its reset of the ring,
\* which holds no lock, has nothing to wipe out; and running follows main.
NothingBeforeUp ==
    /\ mpc \in {"start", "failed"} <=> wpc = "none"
    /\ mpc \in {"start", "failed", "reset"} =>
          head = 0 /\ tail = 0 /\ count = 0 /\ accepted = <<>>
    /\ running <=> mpc \in {"failed", "reset", "up"}

\* A worker that has left its loop had printed all there was, and so no less
\* than had been accepted when running was cleared.
ExitedHasPrinted ==
    /\ atStop <= Len(accepted)
    /\ wpc = "exited" => mpc \in {"joining", "done"} /\ Len(printed) >= atStop
    /\ mpc = "done" => wpc = "exited"

LoggerInv ==
    /\ TypeOK
    /\ RingConsistent
    /\ EachInPlace
    /\ CallsBoundAccepted
    /\ NothingBeforeUp
    /\ ExitedHasPrinted

----------------------------------------------------------------------------
(***************************************************************************)
(* The arithmetic of the ring.                                             *)
(***************************************************************************)

\* The slot after the one n past s is the one n + 1 past s.
LEMMA SlotStep ==
    ASSUME NEW s \in Slots, NEW n \in 0 .. QueueSize - 1
    PROVE  /\ (s + n) % QueueSize \in Slots
           /\ Advance((s + n) % QueueSize) = (s + (n + 1)) % QueueSize
BY LoggerAssumption DEF Slots, Advance

\* Counting from the advanced reader is counting one further from the reader.
LEMMA SlotShift ==
    ASSUME NEW s \in Slots, NEW n \in 0 .. QueueSize - 1
    PROVE  /\ Advance(s) \in Slots
           /\ (Advance(s) + n) % QueueSize = (s + (n + 1)) % QueueSize
BY LoggerAssumption DEF Slots, Advance

\* Slots at different distances from the reader, less than a turn apart, differ.
LEMMA SlotsDiffer ==
    ASSUME NEW s \in Slots, NEW m \in 0 .. QueueSize - 1,
           NEW n \in 0 .. QueueSize - 1, m # n
    PROVE  (s + m) % QueueSize # (s + n) % QueueSize
BY LoggerAssumption DEF Slots

----------------------------------------------------------------------------
(***************************************************************************)
(* The invariant is inductive.                                             *)
(***************************************************************************)

\* A static context that nobody has used.
LEMMA InitLogger == Init => LoggerInv
<1> SUFFICES ASSUME Init
             PROVE  LoggerInv
    OBVIOUS
<1>1. Len(accepted) = 0 /\ Len(printed) = 0 /\ accepted \in Seq(Message) /\ printed \in Seq(Message)
    BY EmptySeq DEF Init
<1>2. TypeOK
  <2>1. /\ head \in Slots /\ tail \in Slots /\ count \in 0 .. QueueSize
        /\ calls \in 0 .. MaxMessages /\ atStop \in 0 .. MaxMessages
      BY LoggerAssumption DEF Init, Slots
  <2>2. queue \in [Slots -> Message \union {0}]
      BY DEF Init
  <2> QED BY <1>1, <2>1, <2>2 DEF Init, TypeOK
<1>3. RingConsistent
    BY LoggerAssumption DEF Init, RingConsistent
<1>4. EachInPlace /\ CallsBoundAccepted
    BY <1>1 DEF Init, EachInPlace, Hand, CallsBoundAccepted
<1>5. NothingBeforeUp /\ ExitedHasPrinted
    BY <1>1 DEF Init, NothingBeforeUp, ExitedHasPrinted
<1> QED BY <1>2, <1>3, <1>4, <1>5 DEF LoggerInv

\* A step that neither moves a message nor counts a call keeps what is said of
\* the messages.
LEMMA QuietMessages ==
    ASSUME LoggerInv, UNCHANGED <<fifo, history, printed, msg>>,
           wpc' = "print" <=> wpc = "print"
    PROVE  RingConsistent' /\ EachInPlace' /\ CallsBoundAccepted'
BY DEF LoggerInv, fifo, history, RingConsistent, EachInPlace, Hand, CallsBoundAccepted

\* What the steps of main do: none of them moves a message.
LEMMA MainInv ==
    ASSUME LoggerInv,
           \/ StartWorker \/ StartFails \/ Stop \/ Join
           \/ \E mask \in SUBSET Level : SetLevel(mask)
    PROVE  LoggerInv'
<1> USE DEF LoggerInv
<1>1. RingConsistent' /\ EachInPlace' /\ CallsBoundAccepted'
  <2>1. UNCHANGED <<fifo, history, printed, msg>>
      BY DEF StartWorker, StartFails, Stop, Join, SetLevel
  <2>2. wpc' = "print" <=> wpc = "print"
      BY DEF StartWorker, StartFails, Stop, Join, SetLevel, Signal, NothingBeforeUp
  <2> QED BY <2>1, <2>2, QuietMessages
<1>2. Len(accepted) \in Nat /\ Len(accepted) <= MaxMessages
    BY LenProperties, LoggerAssumption DEF TypeOK, CallsBoundAccepted
<1>3. CASE StartWorker
    BY <1>3, <1>1 DEF StartWorker, TypeOK, NothingBeforeUp, ExitedHasPrinted, fifo, history
<1>4. CASE StartFails
    BY <1>4, <1>1 DEF StartFails, TypeOK, NothingBeforeUp, ExitedHasPrinted, fifo, history
<1>5. CASE Stop
  <2>1. /\ mpc = "up" /\ mpc' = "joining" /\ running' = FALSE
        /\ atStop' = Len(accepted)
        /\ wpc' = IF wpc = "waiting" THEN "woken" ELSE wpc
        /\ UNCHANGED <<logLevel, head, tail, count, queue, msg, calls, accepted, printed>>
      BY <1>5 DEF Stop, Signal, fifo, history
  <2>2. TypeOK'
    <3>1. atStop' \in 0 .. MaxMessages
        BY <2>1, <1>2, LoggerAssumption
    <3> QED BY <2>1, <3>1 DEF TypeOK
  <2>3. wpc # "exited" /\ wpc # "none"
      BY <2>1 DEF NothingBeforeUp, ExitedHasPrinted
  <2>4. NothingBeforeUp' /\ ExitedHasPrinted'
      BY <2>1, <2>3, <1>2 DEF NothingBeforeUp, ExitedHasPrinted
  <2> QED BY <1>1, <2>2, <2>4
<1>6. CASE Join
    BY <1>6, <1>1 DEF Join, TypeOK, NothingBeforeUp, ExitedHasPrinted, fifo, history
<1>7. ASSUME NEW mask \in SUBSET Level, SetLevel(mask)
      PROVE  LoggerInv'
    BY <1>7, <1>1 DEF SetLevel, TypeOK, NothingBeforeUp, ExitedHasPrinted, fifo, history
<1> QED BY <1>3, <1>4, <1>5, <1>6, <1>7

\* The reset of logger_init finds the ring as it leaves it, although the worker
\* may be in the middle of its dequeue.
LEMMA ResetInv ==
    ASSUME LoggerInv, Reset
    PROVE  LoggerInv'
<1> USE DEF LoggerInv
<1>1. UNCHANGED <<fifo, history, printed, msg, wpc, running, atStop>>
    BY DEF Reset, NothingBeforeUp, fifo
<1>2. RingConsistent' /\ EachInPlace' /\ CallsBoundAccepted'
    BY <1>1, QuietMessages
<1>3. TypeOK'
    BY <1>1, LoggerAssumption DEF Reset, TypeOK, fifo, history
<1>4. NothingBeforeUp' /\ ExitedHasPrinted'
    BY <1>1 DEF Reset, NothingBeforeUp, ExitedHasPrinted, fifo, history
<1> QED BY <1>2, <1>3, <1>4

\* A message that finds room goes behind the others; one that finds none
\* leaves no trace but its number.
LEMMA LogInv ==
    ASSUME LoggerInv, NEW level \in Level, Log(level)
    PROVE  LoggerInv'
<1> USE DEF LoggerInv
<1> DEFINE m == calls + 1
<1>1. /\ m \in Message /\ calls' = m /\ mpc \in {"up", "joining"}
      /\ Enqueue(m)
      /\ UNCHANGED <<logLevel, running, mpc, msg, printed, atStop>>
    BY LoggerAssumption DEF Log, TypeOK, Message
<1>2. /\ Len(accepted) \in Nat /\ Len(printed) \in Nat /\ count \in Nat
      /\ head \in Slots /\ Hand \in {0, 1} /\ calls \in Nat /\ calls < MaxMessages
    BY LenProperties, LoggerAssumption DEF TypeOK, Hand, Log
<1> HIDE DEF m
<1>3. CASE count >= QueueSize
  <2>1. UNCHANGED <<fifo, wpc, accepted>>
      BY <1>1, <1>3 DEF Enqueue
  <2>2. TypeOK'
      BY <1>1, <2>1, <1>2, LoggerAssumption DEF TypeOK, fifo, m
  <2>3. RingConsistent' /\ EachInPlace'
      BY <1>1, <2>1 DEF fifo, RingConsistent, EachInPlace, Hand
  <2>4. CallsBoundAccepted'
      BY <1>1, <1>2, <2>1 DEF CallsBoundAccepted, m
  <2>5. NothingBeforeUp' /\ ExitedHasPrinted'
      BY <1>1, <2>1 DEF NothingBeforeUp, ExitedHasPrinted, fifo
  <2> QED BY <2>2, <2>3, <2>4, <2>5
<1>4. CASE ~(count >= QueueSize)
  <2>1. /\ queue' = [queue EXCEPT ![tail] = m]
        /\ tail' = Advance(tail)
        /\ count' = count + 1
        /\ accepted' = Append(accepted, m)
        /\ head' = head
        /\ wpc' = IF wpc = "waiting" THEN "woken" ELSE wpc
      BY <1>1, <1>4 DEF Enqueue, Signal
  <2>2. count \in 0 .. QueueSize - 1 /\ tail = (head + count) % QueueSize
      BY <1>2, <1>4, LoggerAssumption DEF RingConsistent
  <2>3. /\ accepted' \in Seq(Message)
        /\ Len(accepted') = Len(accepted) + 1
        /\ \A k \in 1 .. Len(accepted) : accepted'[k] = accepted[k]
        /\ accepted'[Len(accepted) + 1] = m
      BY <1>1, <2>1, AppendProperties DEF TypeOK
  <2>4. Hand' = Hand
      BY <2>1 DEF Hand
  <2>5. TypeOK'
    <3>1. /\ tail' \in Slots /\ count' \in 0 .. QueueSize
          /\ queue' \in [Slots -> Message \union {0}]
        BY <1>1, <2>1, <2>2, SlotShift, LoggerAssumption DEF TypeOK
    <3>2. calls' \in 0 .. MaxMessages
        BY <1>1, <1>2, LoggerAssumption DEF m
    <3> QED BY <1>1, <2>1, <2>3, <3>1, <3>2 DEF TypeOK
  <2>6. RingConsistent'
      BY <2>1, <2>2, <1>2, SlotStep DEF RingConsistent
  <2>7. EachInPlace'
    <3>1. Len(accepted) = Len(printed) + Hand + count
        BY DEF EachInPlace
    <3>2. Len(accepted') = Len(printed) + Hand + (count + 1)
        BY <3>1, <2>3, <1>2
    <3>3. \A k \in 1 .. Len(printed) : printed[k] = accepted'[k]
        BY <3>1, <2>3, <1>2 DEF EachInPlace
    <3>4. wpc = "print" => msg = accepted'[Len(printed) + 1]
        BY <3>1, <2>3, <1>2 DEF EachInPlace, Hand
    <3>5. ASSUME NEW k \in 1 .. count + 1
          PROVE  queue'[(head + (k - 1)) % QueueSize] = accepted'[Len(printed) + Hand + k]
      <4>0. k - 1 \in 0 .. QueueSize - 1
          BY <2>2, <1>2, LoggerAssumption
      <4>1. k - 1 \in 0 .. QueueSize - 1 /\ (head + (k - 1)) % QueueSize \in Slots
          BY <4>0, <1>2, SlotStep
      <4>2. CASE k = count + 1
        <5>1. k - 1 = count /\ Len(printed) + Hand + k = Len(accepted) + 1
            BY <4>2, <3>1, <1>2
        <5>2. queue'[(head + (k - 1)) % QueueSize] = m
            BY <5>1, <4>1, <2>1, <2>2 DEF TypeOK
        <5> QED BY <5>1, <5>2, <2>3
      <4>3. CASE k # count + 1
        <5>1. k \in 1 .. count /\ k - 1 # count
            BY <4>3, <1>2
        <5>2. (head + (k - 1)) % QueueSize # tail
            BY <5>1, <4>1, <2>2, <1>2, SlotsDiffer
        <5>3. queue'[(head + (k - 1)) % QueueSize] = queue[(head + (k - 1)) % QueueSize]
            BY <5>2, <4>1, <2>1 DEF TypeOK
        <5>4. Len(printed) + Hand + k \in 1 .. Len(accepted)
            BY <5>1, <3>1, <1>2
        <5> QED BY <5>1, <5>3, <5>4, <2>3 DEF EachInPlace
      <4> QED BY <4>2, <4>3
    <3>6. (wpc' = "print" <=> wpc = "print") /\ msg' = msg /\ printed' = printed
        BY <1>1, <2>1
    <3> QED BY <3>2, <3>3, <3>4, <3>5, <3>6, <2>1, <2>4 DEF EachInPlace
  <2>8. CallsBoundAccepted'
      BY <1>1, <1>2, <2>3 DEF CallsBoundAccepted, m
  <2>9. NothingBeforeUp' /\ ExitedHasPrinted'
    <3>1. wpc' = "exited" <=> wpc = "exited"
        BY <2>1
    <3>2. wpc' = "none" <=> wpc = "none"
        BY <2>1
    <3>3. NothingBeforeUp'
        BY <1>1, <3>2 DEF NothingBeforeUp
    <3>4. ExitedHasPrinted'
        BY <1>1, <1>2, <2>3, <3>1 DEF ExitedHasPrinted, TypeOK
    <3> QED BY <3>3, <3>4
  <2> QED BY <2>5, <2>6, <2>7, <2>8, <2>9
<1> QED BY <1>3, <1>4

\* The oldest message moves from the ring to the worker's hand.
LEMMA TakeInv ==
    ASSUME LoggerInv, wpc \in {"dequeue", "woken"}, DequeueTake,
           UNCHANGED <<logLevel, running, mpc, history, printed, atStop>>
    PROVE  LoggerInv'
<1> USE DEF LoggerInv
<1>1. /\ msg' = queue[head]
      /\ head' = Advance(head)
      /\ count' = count - 1
      /\ wpc' = "print" /\ wpc # "print"
      /\ UNCHANGED <<tail, queue, accepted, calls, printed>>
      /\ Hand = 0 /\ Hand' = 1
    BY DEF DequeueTake, history, Hand
<1>2. /\ count \in 1 .. QueueSize /\ head \in Slots /\ head \in Nat
      /\ count - 1 \in 0 .. QueueSize - 1 /\ (count - 1) + 1 = count
      /\ Len(accepted) \in Nat /\ Len(printed) \in Nat
    BY LenProperties, LoggerAssumption DEF DequeueTake, TypeOK, Slots
<1>3. Len(accepted) = Len(printed) + count
    BY <1>1, <1>2 DEF EachInPlace
<1>4. \A k \in 1 .. count :
          queue[(head + (k - 1)) % QueueSize] = accepted[Len(printed) + k]
  <2> SUFFICES ASSUME NEW k \in 1 .. count
               PROVE  queue[(head + (k - 1)) % QueueSize] = accepted[Len(printed) + k]
      OBVIOUS
  <2>1. Len(printed) + Hand + k = Len(printed) + k
      BY <1>1, <1>2
  <2> QED BY <2>1 DEF EachInPlace
<1>5. msg' = accepted[Len(printed) + 1]
  <2>1. 1 \in 1 .. count /\ (head + (1 - 1)) % QueueSize = head
      BY <1>2, LoggerAssumption DEF Slots
  <2> QED BY <2>1, <1>1, <1>4
<1>6. msg' \in Message
  <2>1. Len(printed) + 1 \in 1 .. Len(accepted)
      BY <1>2, <1>3
  <2> QED BY <1>5, <2>1, ElementOfSeq DEF TypeOK
<1>7. TypeOK'
  <2>1. head' \in Slots /\ count' \in 0 .. QueueSize
      BY <1>1, <1>2, SlotShift, LoggerAssumption
  <2>2. UNCHANGED <<logLevel, tail, queue, running, mpc, calls, accepted, printed, atStop>>
      BY <1>1
  <2> QED BY <1>1, <1>6, <2>1, <2>2 DEF TypeOK
<1>8. RingConsistent'
  <2>1. (Advance(head) + (count - 1)) % QueueSize = (head + count) % QueueSize
      BY <1>2, SlotShift
  <2> QED BY <1>1, <2>1 DEF RingConsistent
<1>9. EachInPlace'
  <2>1. Len(accepted) = Len(printed) + 1 + (count - 1)
      BY <1>2, <1>3
  <2>2. ASSUME NEW k \in 1 .. count - 1
        PROVE  queue[(Advance(head) + (k - 1)) % QueueSize] = accepted[Len(printed) + 1 + k]
    <3>1. k - 1 \in 0 .. QueueSize - 1 /\ k + 1 \in 1 .. count
          /\ (k - 1) + 1 = (k + 1) - 1 /\ Len(printed) + (k + 1) = Len(printed) + 1 + k
        BY <1>2, LoggerAssumption
    <3>2. (Advance(head) + (k - 1)) % QueueSize = (head + ((k - 1) + 1)) % QueueSize
        BY <3>1, <1>2, SlotShift
    <3> QED BY <3>1, <3>2, <1>4
  <2>3. \A k \in 1 .. Len(printed) : printed[k] = accepted[k]
      BY DEF EachInPlace
  <2> QED BY <2>1, <2>2, <2>3, <1>1, <1>5 DEF EachInPlace
<1>10. CallsBoundAccepted' /\ NothingBeforeUp' /\ ExitedHasPrinted'
  <2>1. mpc \notin {"start", "failed", "reset"}
      BY <1>2 DEF NothingBeforeUp
  <2>2. CallsBoundAccepted'
      BY <1>1 DEF CallsBoundAccepted
  <2>3. NothingBeforeUp' /\ ExitedHasPrinted'
      BY <1>1, <2>1 DEF NothingBeforeUp, ExitedHasPrinted
  <2> QED BY <2>2, <2>3
<1> QED BY <1>7, <1>8, <1>9, <1>10

\* The message in hand is the next one to be printed.
LEMMA PrintInv ==
    ASSUME LoggerInv, PrintMessage
    PROVE  LoggerInv'
<1> USE DEF LoggerInv
<1>1. /\ wpc = "print" /\ wpc' = "loop" /\ msg' = 0
      /\ printed' = Append(printed, msg)
      /\ UNCHANGED <<logLevel, head, tail, count, queue, running, mpc, calls, accepted, atStop>>
      /\ Hand = 1 /\ Hand' = 0
    BY DEF PrintMessage, fifo, history, Hand
<1>2. /\ Len(accepted) \in Nat /\ Len(printed) \in Nat /\ count \in Nat
    BY LenProperties, LoggerAssumption DEF TypeOK
<1>3. Len(accepted) = Len(printed) + 1 + count /\ msg = accepted[Len(printed) + 1]
    BY <1>1 DEF EachInPlace
<1>4. msg \in Message
  <2>1. Len(printed) + 1 \in 1 .. Len(accepted)
      BY <1>2, <1>3
  <2> QED BY <1>3, <2>1, ElementOfSeq DEF TypeOK
<1>5. /\ printed' \in Seq(Message)
      /\ Len(printed') = Len(printed) + 1
      /\ \A k \in 1 .. Len(printed) : printed'[k] = printed[k]
      /\ printed'[Len(printed) + 1] = msg
    BY <1>1, <1>4, AppendProperties DEF TypeOK
<1>6. TypeOK'
    BY <1>1, <1>5 DEF TypeOK
<1>7. EachInPlace'
  <2>1. Len(accepted) = Len(printed') + 0 + count
      BY <1>2, <1>3, <1>5
  <2>2. ASSUME NEW k \in 1 .. Len(printed')
        PROVE  printed'[k] = accepted[k]
    <3>1. CASE k = Len(printed) + 1
        BY <3>1, <1>3, <1>5
    <3>2. CASE k # Len(printed) + 1
      <4>1. k \in 1 .. Len(printed)
          BY <3>2, <1>2, <1>5
      <4> QED BY <4>1, <1>5 DEF EachInPlace
    <3> QED BY <3>1, <3>2
  <2>3. ASSUME NEW k \in 1 .. count
        PROVE  queue[(head + (k - 1)) % QueueSize] = accepted[Len(printed') + 0 + k]
    <3>1. Len(printed') + 0 + k = Len(printed) + Hand + k
        BY <1>1, <1>2, <1>5
    <3> QED BY <3>1 DEF EachInPlace
  <2> QED BY <2>1, <2>2, <2>3, <1>1 DEF EachInPlace
<1>8. RingConsistent' /\ CallsBoundAccepted'
    BY <1>1 DEF RingConsistent, CallsBoundAccepted
<1>9. NothingBeforeUp' /\ ExitedHasPrinted'
    BY <1>1, <1>2, <1>5 DEF NothingBeforeUp, ExitedHasPrinted
<1> QED BY <1>6, <1>7, <1>8, <1>9

\* The worker leaves its loop with running clear, an empty ring and an empty
\* hand, so with everything printed; its other steps move no message.
LEMMA WorkerInv ==
    ASSUME LoggerInv, WorkerStep \/ SpuriousWakeup
    PROVE  LoggerInv'
<1> USE DEF LoggerInv
<1>1. CASE Loop
  <2>1. /\ wpc = "loop" /\ wpc' = IF running \/ count > 0 THEN "dequeue" ELSE "exited"
        /\ UNCHANGED <<logLevel, head, tail, count, queue, running, mpc, msg, calls,
                       accepted, printed, atStop>>
      BY <1>1 DEF Loop, fifo, history
  <2>2. RingConsistent' /\ EachInPlace' /\ CallsBoundAccepted'
      BY <2>1, QuietMessages DEF fifo, history
  <2>3. TypeOK'
      BY <2>1 DEF TypeOK
  <2>4. NothingBeforeUp'
      BY <2>1 DEF NothingBeforeUp
  <2>5. ExitedHasPrinted'
    <3>1. CASE running \/ count > 0
        BY <2>1, <3>1 DEF ExitedHasPrinted
    <3>2. CASE ~(running \/ count > 0)
      <4>1. count = 0 /\ Len(printed) \in Nat /\ mpc \in {"joining", "done"}
          BY <3>2, <2>1, LenProperties, LoggerAssumption DEF TypeOK, NothingBeforeUp
      <4>2. Len(accepted) = Len(printed)
          BY <4>1, <2>1 DEF EachInPlace, Hand
      <4> QED BY <2>1, <4>1, <4>2 DEF ExitedHasPrinted
    <3> QED BY <3>1, <3>2
  <2> QED BY <2>2, <2>3, <2>4, <2>5
<1>2. CASE Dequeue /\ ~DequeueTake
  <2>1. /\ wpc \in {"dequeue", "woken"} /\ wpc' \in {"waiting", "loop"}
        /\ UNCHANGED <<logLevel, head, tail, count, queue, running, mpc, msg, calls,
                       accepted, printed, atStop>>
      BY <1>2 DEF Dequeue, DequeueWait, DequeueNothing, fifo, history
  <2>2. RingConsistent' /\ EachInPlace' /\ CallsBoundAccepted'
      BY <2>1, QuietMessages DEF fifo, history
  <2>3. TypeOK' /\ NothingBeforeUp' /\ ExitedHasPrinted'
      BY <2>1 DEF TypeOK, NothingBeforeUp, ExitedHasPrinted
  <2> QED BY <2>2, <2>3
<1>3. CASE Dequeue /\ DequeueTake
    BY <1>3, TakeInv DEF Dequeue
<1>4. CASE PrintMessage
    BY <1>4, PrintInv
<1>5. CASE SpuriousWakeup
  <2>1. /\ wpc = "waiting" /\ wpc' = "woken"
        /\ UNCHANGED <<logLevel, head, tail, count, queue, running, mpc, msg, calls,
                       accepted, printed, atStop>>
      BY <1>5 DEF SpuriousWakeup, fifo, history
  <2>2. RingConsistent' /\ EachInPlace' /\ CallsBoundAccepted'
      BY <2>1, QuietMessages DEF fifo, history
  <2>3. TypeOK' /\ NothingBeforeUp' /\ ExitedHasPrinted'
      BY <2>1 DEF TypeOK, NothingBeforeUp, ExitedHasPrinted
  <2> QED BY <2>2, <2>3
<1> QED BY <1>1, <1>2, <1>3, <1>4, <1>5 DEF WorkerStep

\* Every step keeps the invariant.
LEMMA NextLogger == LoggerInv /\ [Next]_vars => LoggerInv'
<1> SUFFICES ASSUME LoggerInv, [Next]_vars
             PROVE  LoggerInv'
    OBVIOUS
<1>1. CASE UNCHANGED vars
    BY <1>1 DEF vars, LoggerInv, TypeOK, RingConsistent, EachInPlace, Hand,
                CallsBoundAccepted, NothingBeforeUp, ExitedHasPrinted
<1> QED BY <1>1, MainInv, ResetInv, LogInv, WorkerInv DEF Next

\* The invariant holds in every reachable state.
LEMMA LoggerInductive == Spec => []LoggerInv
BY InitLogger, NextLogger, PTL DEF Spec

----------------------------------------------------------------------------
(***************************************************************************)
(* What holds.                                                             *)
(***************************************************************************)

\* The ring's indices and count and all messages keep their types.
THEOREM LoggerTypeCorrect == Spec => []TypeOK
BY LoggerInductive, PTL DEF LoggerInv

\* With each message in its place, the histories agree as sequences.
LEMMA EachInPlaceInOrder == LoggerInv => InOrderOnce
<1> SUFFICES ASSUME LoggerInv
             PROVE  InOrderOnce
    OBVIOUS
<1> USE DEF LoggerInv
<1>1. /\ accepted \in Seq(Message) /\ printed \in Seq(Message)
      /\ Len(accepted) \in Nat /\ Len(printed) \in Nat /\ count \in Nat /\ head \in Nat
    BY LenProperties, LoggerAssumption DEF TypeOK, Slots
<1>2. Len(accepted) = Len(printed) + Hand + count /\ Hand \in {0, 1}
    BY DEF EachInPlace, Hand
<1>3. InHand \in Seq(Message) /\ Len(InHand) = Hand
      /\ \A k \in 1 .. Hand : InHand[k] = accepted[Len(printed) + k]
  <2>1. CASE wpc = "print"
    <3>1. InHand = <<accepted[Len(printed) + 1]>> /\ Hand = 1
        BY <2>1 DEF InHand, Hand, EachInPlace
    <3>2. accepted[Len(printed) + 1] \in Message
      <4>1. Len(printed) + 1 \in 1 .. Len(accepted)
          BY <3>1, <1>1, <1>2
      <4> QED BY <4>1, <1>1, ElementOfSeq
    <3> QED BY <3>1, <3>2
  <2>2. CASE wpc # "print"
    <3>1. InHand = <<>> /\ Hand = 0
        BY <2>2 DEF InHand, Hand
    <3> QED BY <3>1, EmptySeq
  <2> QED BY <2>1, <2>2
<1>4. Contents \in Seq(Message) /\ Len(Contents) = count
      /\ \A k \in 1 .. count : Contents[k] = accepted[Len(printed) + Hand + k]
  <2>1. \A k \in 1 .. count :
            /\ queue[(head + k - 1) % QueueSize] = accepted[Len(printed) + Hand + k]
            /\ queue[(head + k - 1) % QueueSize] \in Message
    <3> SUFFICES ASSUME NEW k \in 1 .. count
                 PROVE  /\ queue[(head + k - 1) % QueueSize] = accepted[Len(printed) + Hand + k]
                        /\ accepted[Len(printed) + Hand + k] \in Message
        OBVIOUS
    <3>1. head + k - 1 = head + (k - 1) /\ Len(printed) + Hand + k \in 1 .. Len(accepted)
        BY <1>1, <1>2
    <3>2. queue[(head + (k - 1)) % QueueSize] = accepted[Len(printed) + Hand + k]
        BY DEF EachInPlace
    <3> QED BY <3>1, <3>2, <1>1, ElementOfSeq
  <2>2. Contents \in [1 .. count -> Message]
      BY <2>1 DEF Contents
  <2>3. Contents \in Seq(Message)
      BY <2>2, <1>1, SeqDef
  <2>4. Len(Contents) = count
      BY <2>2, <2>3, <1>1, LenProperties
  <2> QED BY <2>1, <2>3, <2>4 DEF Contents
<1> DEFINE front == printed \o InHand
           all == front \o Contents
<1>5. /\ front \in Seq(Message) /\ Len(front) = Len(printed) + Hand
      /\ \A k \in 1 .. Len(printed) + Hand :
            front[k] = IF k <= Len(printed) THEN printed[k] ELSE InHand[k - Len(printed)]
    BY <1>1, <1>3, ConcatProperties
<1>6. \A k \in 1 .. Len(printed) + Hand : front[k] = accepted[k]
  <2> SUFFICES ASSUME NEW k \in 1 .. Len(printed) + Hand
               PROVE  front[k] = accepted[k]
      OBVIOUS
  <2>1. CASE k <= Len(printed)
      BY <2>1, <1>1, <1>5 DEF EachInPlace
  <2>2. CASE ~(k <= Len(printed))
    <3>1. k - Len(printed) \in 1 .. Hand /\ Len(printed) + (k - Len(printed)) = k
        BY <2>2, <1>1, <1>2
    <3>2. InHand[k - Len(printed)] = accepted[k]
        BY <3>1, <1>3
    <3> QED BY <2>2, <3>2, <1>5
  <2> QED BY <2>1, <2>2
<1> HIDE DEF front
<1>7. /\ all \in Seq(Message) /\ Len(all) = Len(accepted)
      /\ \A k \in 1 .. Len(accepted) :
            all[k] = IF k <= Len(front) THEN front[k] ELSE Contents[k - Len(front)]
  <2>1. Len(front) + Len(Contents) = Len(accepted)
      BY <1>1, <1>2, <1>4, <1>5
  <2> QED BY <2>1, <1>4, <1>5, ConcatProperties
<1>8. \A k \in 1 .. Len(accepted) : all[k] = accepted[k]
  <2> SUFFICES ASSUME NEW k \in 1 .. Len(accepted)
               PROVE  all[k] = accepted[k]
      OBVIOUS
  <2>1. CASE k <= Len(front)
      BY <2>1, <1>1, <1>2, <1>5, <1>6, <1>7
  <2>2. CASE ~(k <= Len(front))
    <3>1. k - Len(front) \in 1 .. count /\ Len(printed) + Hand + (k - Len(front)) = k
        BY <2>2, <1>1, <1>2, <1>5
    <3>2. Contents[k - Len(front)] = accepted[k]
        BY <3>1, <1>4
    <3> QED BY <2>2, <3>2, <1>7
  <2> QED BY <2>1, <2>2
<1> HIDE DEF all
<1>9. accepted = all
    BY <1>1, <1>7, <1>8, SeqEqual
<1> QED BY <1>9 DEF all, front, InOrderOnce

\* Every message that enqueue accepts reaches stdout once and in its turn, or
\* is still on its way, for every interleaving of callers, worker, logger_init
\* and logger_deinit.
THEOREM NoMessageIsLost == Spec => []InOrderOnce
BY LoggerInductive, EachInPlaceInOrder, PTL

\* logger_deinit returns with everything printed that was accepted before it.
THEOREM DeinitFlushes == Spec => []FlushedAtDeinit
<1>1. LoggerInv => FlushedAtDeinit
    BY DEF LoggerInv, ExitedHasPrinted, FlushedAtDeinit
<1> QED BY <1>1, LoggerInductive, PTL
==============================================================================
