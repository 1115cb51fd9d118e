-------------------------- MODULE WorkerPool_proofs --------------------------
(***************************************************************************)
(* Proofs about WorkerPool, for every pool, queue and set of functions:    *)
(* a device is busy exactly while the worker runs that was granted it,     *)
(* granted runs share none, and a device is given back only by a run that  *)
(* is cleaned up and judged.                                               *)
(*                                                                         *)
(* The resource manager trusts its caller to acquire once and to release   *)
(* afterwards.  The heart of the invariant is why the pool keeps to that:  *)
(* an instance is in one place only, in the queue or with one worker.      *)
(***************************************************************************)
EXTENDS WorkerPool, SequenceTheorems, TLAPS

\* An instance that was fed is in one place: in the queue once, or with one
\* worker, or done.
InOnePlace ==
    /\ \A w \in Worker : taken[w] = NULL <=> wpc[w] \in {"loop", "exited"}
    /\ \A w \in Worker : taken[w] # NULL => taken[w] \in fed
    /\ \A v, w \in Worker : v # w /\ taken[v] # NULL => taken[v] # taken[w]
    /\ \A k \in 1 .. Len(line) : line[k] \in fed
    /\ \A j, k \in 1 .. Len(line) : j # k => line[j] # line[k]
    /\ \A k \in 1 .. Len(line) : \A w \in Worker : line[k] # taken[w]

\* An instance has called acquire, and not yet release, exactly while an
\* active worker has it.
AcquiredAreActive ==
    \A i \in Instance : phase[i] # "idle" <=> \E w \in Active : taken[w] = i

\* A test that has something to execute is judged.
Settled(i) == i \in Executable => verdict[i] # "QUEUED"

\* What a run has behind it.
RunSoFar ==
    /\ \A w \in Worker : wpc[w] \in {"cleanup", "release"} => Settled(taken[w])
    /\ \A w \in Worker : wpc[w] = "release" => taken[w] \in cleaned

\* Every device is in the table.
TableIsWhole == registered = Device

PoolInv ==
    /\ TypeOK
    /\ InOnePlace
    /\ AcquiredAreActive
    /\ RunSoFar
    /\ TableIsWhole
    /\ Devices!NothingLeaks

----------------------------------------------------------------------------
\* A worker that has an instance has one of the instances.
LEMMA TakenType ==
    ASSUME TypeOK, InOnePlace, NEW w \in Worker, wpc[w] \notin {"loop", "exited"}
    PROVE  taken[w] \in Instance /\ taken[w] # NULL
  BY DEF TypeOK, InOnePlace

LEMMA InitPool == Init => PoolInv
  <1> SUFFICES ASSUME Init PROVE PoolInv
    OBVIOUS
  <1> USE DEF Init, Queue!FifoInit
  <1>1. TypeOK
    <2>1. line \in Seq(Instance) /\ taken \in [Worker -> Instance \union {NULL}]
      OBVIOUS
    <2>2. Devices!TypeOK
      BY DEF Devices!TypeOK
    <2>3. /\ wpc \in [Worker -> {"loop", "acquire", "setup", "execute", "cleanup",
                                 "release", "exited"}]
          /\ verdict \in [Instance -> {"QUEUED", "PASS", "FAIL"}]
      OBVIOUS
    <2>4. QED
      BY <2>1, <2>2, <2>3 DEF TypeOK
  <1>2. Len(line) = 0
    OBVIOUS
  <1>3. InOnePlace
    BY <1>2 DEF InOnePlace
  <1>4. AcquiredAreActive /\ RunSoFar
    BY DEF AcquiredAreActive, Active, RunSoFar, Settled
  <1>5. TableIsWhole /\ Devices!NothingLeaks
    BY DEF TableIsWhole, Devices!NothingLeaks
  <1>6. QED
    BY <1>1, <1>3, <1>4, <1>5 DEF PoolInv

\* A push: an instance that is in no place yet is at the end of the queue.
LEMMA FeedInv ==
    ASSUME PoolInv, NEW i \in Instance, Feed(i)
    PROVE  PoolInv'
  <1> USE DEF PoolInv, Feed
  <1>1. /\ i \notin fed /\ fed' = fed \union {i}
        /\ UNCHANGED <<deviceVars, wpc, testVars>>
        /\ UNCHANGED <<taken, stopped>>
        /\ line' = line \/ line' = Append(line, i)
    BY DEF Queue!Put, queueVars
  <1> DEFINE longer == Append(line, i)
  <1>2. /\ longer \in Seq(Instance) /\ Len(longer) = Len(line) + 1
        /\ Len(line) \in Nat
        /\ \A k \in 1 .. Len(longer) : longer[k] = IF k = Len(line) + 1 THEN i ELSE line[k]
    BY DEF TypeOK
  <1> HIDE DEF longer
  <1>3. line' = line \/ line' = longer
    BY <1>1 DEF longer
  <1>4. TypeOK'
    <2>1. line' \in Seq(Instance)
      BY <1>2, <1>3 DEF TypeOK
    <2>2. Devices!TypeOK'
      BY <1>1 DEF deviceVars, TypeOK, Devices!TypeOK
    <2>3. QED
      BY <1>1, <2>1, <2>2 DEF TypeOK, testVars
  <1>5. InOnePlace'
    <2>1. CASE line' = line
      BY <1>1, <2>1 DEF InOnePlace
    <2>2. CASE line' = longer
      <3>1. \A k \in 1 .. Len(line) : line[k] # i
        BY <1>1 DEF InOnePlace
      <3>2. \A w \in Worker : taken[w] # i
        BY <1>1, PoolAssumption DEF InOnePlace
      <3>3. \A k \in 1 .. Len(line') :
               \/ k \in 1 .. Len(line) /\ line'[k] = line[k]
               \/ k = Len(line) + 1 /\ line'[k] = i
        BY <1>2, <2>2
      <3>4. \A k \in 1 .. Len(line') : line'[k] \in fed'
        BY <1>1, <3>3 DEF InOnePlace
      <3>5. \A j, k \in 1 .. Len(line') : j # k => line'[j] # line'[k]
        BY <3>1, <3>3 DEF InOnePlace
      <3>6. \A k \in 1 .. Len(line') : \A w \in Worker : line'[k] # taken'[w]
        BY <1>1, <3>2, <3>3 DEF InOnePlace
      <3>7. QED
        BY <1>1, <3>4, <3>5, <3>6 DEF InOnePlace
    <2>3. QED
      BY <1>3, <2>1, <2>2
  <1>6. AcquiredAreActive' /\ RunSoFar' /\ TableIsWhole' /\ Devices!NothingLeaks'
    BY <1>1 DEF deviceVars, testVars, AcquiredAreActive, Active, RunSoFar, Settled, TableIsWhole,
                Devices!NothingLeaks, Devices!Needs
  <1>7. QED
    BY <1>4, <1>5, <1>6

\* A take: the oldest instance moves from the queue to the worker.
LEMMA TakeNextInv ==
    ASSUME PoolInv, NEW w \in Worker, TakeNext(w)
    PROVE  PoolInv'
  <1> USE DEF PoolInv
  <1>1. /\ wpc[w] = "loop" /\ wpc' = [wpc EXCEPT ![w] = "acquire"]
        /\ line # <<>> /\ taken[w] = NULL
        /\ taken' = [taken EXCEPT ![w] = Head(line)]
        /\ line' = Tail(line)
        /\ UNCHANGED <<stopped, deviceVars, fed, testVars>>
    BY DEF TakeNext, Queue!Take, Goto
  <1>2. line \in Seq(Instance) /\ taken \in [Worker -> Instance \union {NULL}]
    BY DEF TypeOK
  <1>3. /\ Len(line) \in Nat /\ 1 \in 1 .. Len(line) /\ Head(line) = line[1]
        /\ line' \in Seq(Instance) /\ Len(line') = Len(line) - 1
        /\ \A k \in 1 .. Len(line') : k + 1 \in 1 .. Len(line) /\ line'[k] = line[k + 1]
    BY <1>1, <1>2
  <1>4. line[1] \in Instance /\ line[1] \in fed /\ line[1] # NULL
    BY <1>2, <1>3, PoolAssumption DEF InOnePlace
  <1>5. \A v \in Worker : /\ taken'[v] = IF v = w THEN line[1] ELSE taken[v]
                          /\ wpc'[v] = IF v = w THEN "acquire" ELSE wpc[v]
    BY <1>1, <1>2, <1>3 DEF TypeOK
  <1>6. TypeOK'
    <2>1. taken' \in [Worker -> Instance \union {NULL}]
      BY <1>1, <1>2, <1>3, <1>4
    <2>2. Devices!TypeOK'
      BY <1>1 DEF deviceVars, TypeOK, Devices!TypeOK
    <2>3. QED
      BY <1>1, <1>3, <2>1, <2>2 DEF TypeOK, testVars
  <1>7. InOnePlace'
    <2>1. \A v \in Worker : taken'[v] = NULL <=> wpc'[v] \in {"loop", "exited"}
      BY <1>4, <1>5 DEF InOnePlace
    <2>2. \A v \in Worker : taken'[v] # NULL => taken'[v] \in fed'
      BY <1>1, <1>4, <1>5 DEF InOnePlace
    <2>3. \A v \in Worker : taken[v] # line[1]
      BY <1>3 DEF InOnePlace
    <2>4. \A u, v \in Worker : u # v /\ taken'[u] # NULL => taken'[u] # taken'[v]
      BY <1>5, <2>3 DEF InOnePlace
    <2>5. \A k \in 1 .. Len(line') : line'[k] \in fed' /\ line'[k] # line[1]
      BY <1>1, <1>3 DEF InOnePlace
    <2>6. \A j, k \in 1 .. Len(line') : j # k => line'[j] # line'[k]
      BY <1>3 DEF InOnePlace
    <2>7. \A k \in 1 .. Len(line') : \A v \in Worker : line'[k] # taken'[v]
      BY <1>3, <1>5, <2>5 DEF InOnePlace
    <2>8. QED
      BY <2>1, <2>2, <2>4, <2>5, <2>6, <2>7 DEF InOnePlace
  <1>8. AcquiredAreActive'
    <2>1. w \notin Active /\ w \notin Active' /\ \A v \in Worker \ {w} : v \in Active' <=> v \in Active
      BY <1>1, <1>5 DEF Active
    <2>2. QED
      BY <1>1, <1>5, <2>1 DEF AcquiredAreActive, Active, deviceVars
  <1>9. RunSoFar'
    BY <1>1, <1>5 DEF RunSoFar, Settled, testVars
  <1>10. TableIsWhole' /\ Devices!NothingLeaks'
    BY <1>1 DEF deviceVars, TableIsWhole, Devices!NothingLeaks, Devices!Needs
  <1>11. QED
    BY <1>6, <1>7, <1>8, <1>9, <1>10

\* The acquire of a worker's own instance, granted or not.
LEMMA AcquireInv ==
    ASSUME PoolInv, NEW w \in Worker, AcquireDevices(w)
    PROVE  PoolInv'
  <1> USE DEF PoolInv
  <1> DEFINE i == taken[w]
  <1>1. /\ wpc[w] = "acquire" /\ wpc' = [wpc EXCEPT ![w] = "setup"]
        /\ Devices!Acquire(i)
        /\ UNCHANGED <<queueVars, fed, testVars>>
    BY DEF AcquireDevices, Goto
  <1>2. i \in Instance /\ i # NULL
    BY <1>1, TakenType
  <1> HIDE DEF i
  <1>3. \A v \in Worker : wpc'[v] = IF v = w THEN "setup" ELSE wpc[v]
    BY <1>1 DEF TypeOK
  <1>4. /\ phase[i] = "idle" /\ phase' \in {[phase EXCEPT ![i] = "holding"],
                                            [phase EXCEPT ![i] = "barred"]}
        /\ UNCHANGED <<offered, registered>>
    BY <1>1 DEF Devices!Acquire
  <1>5. Devices!TypeOK
    BY DEF TypeOK
  <1>6. Devices!TypeOK'
    BY <1>1, <1>2, <1>5 DEF Devices!Acquire, Devices!TypeOK
  <1>7. TypeOK'
    BY <1>1, <1>6 DEF TypeOK, queueVars, testVars
  <1>8. InOnePlace'
    BY <1>1, <1>3 DEF InOnePlace, queueVars
  <1>9. AcquiredAreActive'
    <2> SUFFICES ASSUME NEW j \in Instance
                 PROVE  phase'[j] # "idle" <=> \E v \in Active' : taken'[v] = j
      BY DEF AcquiredAreActive
    <2>1. Active' = Active \union {w} /\ taken' = taken
      BY <1>1, <1>3 DEF Active, queueVars
    <2>2. phase'[j] # "idle" <=> j = i \/ phase[j] # "idle"
      BY <1>2, <1>4, <1>5 DEF Devices!TypeOK
    <2>3. QED
      BY <2>1, <2>2 DEF AcquiredAreActive, i
  <1>10. RunSoFar'
    BY <1>1, <1>3 DEF RunSoFar, Settled, queueVars, testVars
  <1>11. TableIsWhole'
    BY <1>4 DEF TableIsWhole
  <1>12. Devices!NothingLeaks'
    <2>1. CASE ~Devices!Grantable(FunctionOf[i])
      <3>1. phase' = [phase EXCEPT ![i] = "barred"] /\ UNCHANGED <<state, owner>>
        BY <1>1, <2>1 DEF Devices!Acquire
      <3>2. QED
        BY <1>2, <1>4, <1>5, <3>1 DEF Devices!NothingLeaks, Devices!TypeOK, Devices!Needs
    <2>2. CASE Devices!Grantable(FunctionOf[i])
      <3>1. /\ state' = [d \in Device |->
                   IF d \in Needs(i) \intersect registered THEN "BUSY" ELSE state[d]]
            /\ owner' = [d \in Device |->
                   IF d \in Needs(i) \intersect registered THEN i ELSE owner[d]]
            /\ phase' = [phase EXCEPT ![i] = "holding"]
        BY <1>1, <2>2 DEF Devices!Acquire, Devices!Needs, Needs
      <3> SUFFICES ASSUME NEW d \in Device
                   PROVE  /\ state'[d] = "BUSY" <=> owner'[d] # NULL
                          /\ owner'[d] # NULL =>
                                /\ phase'[owner'[d]] = "holding"
                                /\ d \in Needs(owner'[d])
        BY DEF Devices!NothingLeaks, Devices!Needs, Needs
      <3>2. CASE d \in Needs(i) \intersect registered
        BY <1>2, <1>5, <3>1, <3>2 DEF Devices!TypeOK
      <3>3. CASE d \notin Needs(i) \intersect registered
        <4>1. state'[d] = state[d] /\ owner'[d] = owner[d]
          BY <3>1, <3>3
        <4>2. owner[d] # NULL => phase'[owner[d]] = "holding"
          BY <1>2, <1>5, <3>1 DEF Devices!NothingLeaks, Devices!TypeOK
        <4>3. QED
          BY <4>1, <4>2 DEF Devices!NothingLeaks, Devices!Needs, Needs
      <3>4. QED
        BY <3>2, <3>3
    <2>3. QED
      BY <2>1, <2>2
  <1>13. QED
    BY <1>7, <1>8, <1>9, <1>10, <1>11, <1>12

\* What execute leaves in the state of an instance.
LEMMA JudgedType ==
    ASSUME TypeOK, NEW i \in Instance, NEW ok \in BOOLEAN
    PROVE  /\ Judged(i, ok) \in {"QUEUED", "PASS", "FAIL"}
           /\ i \in Executable \/ verdict[i] # "QUEUED" => Judged(i, ok) # "QUEUED"
  <1>1. CASE i \in Executable
    BY <1>1 DEF Judged
  <1>2. CASE i \notin Executable
    BY <1>2 DEF Judged, TypeOK
  <1>3. QED
    BY <1>1, <1>2

\* Setup, execute and cleanup: the run goes on, nothing changes hands.
LEMMA RunInstanceInv ==
    ASSUME PoolInv, NEW w \in Worker, RunInstance(w)
    PROVE  PoolInv'
  <1> USE DEF PoolInv
  <1> DEFINE Stages == {"setup", "execute", "cleanup", "release"}
  <1>1. /\ wpc[w] \in Stages
        /\ UNCHANGED <<queueVars, deviceVars, fed>>
    BY DEF RunInstance, Setup, Execute, Cleanup, testVars
  <1>2. taken[w] \in Instance
    BY <1>1, TakenType
  <1>3. PICK l \in Stages : wpc' = [wpc EXCEPT ![w] = l]
    BY DEF RunInstance, Setup, Execute, Cleanup, Goto
  <1>4. \A v \in Worker : wpc'[v] = IF v = w THEN l ELSE wpc[v]
    BY <1>3 DEF TypeOK
  <1>5. /\ verdict' \in [Instance -> {"QUEUED", "PASS", "FAIL"}]
        /\ \A i \in Instance : verdict[i] # "QUEUED" => verdict'[i] # "QUEUED"
        /\ cleaned' \in SUBSET Instance /\ cleaned \subseteq cleaned'
    <2>1. ASSUME NEW ok \in BOOLEAN, Execute(w, ok)
          PROVE  /\ verdict' = [verdict EXCEPT ![taken[w]] = Judged(taken[w], ok)]
                 /\ cleaned' = cleaned
      BY <2>1 DEF Execute
    <2>2. (\E ok \in BOOLEAN : Execute(w, ok)) =>
              /\ verdict' \in [Instance -> {"QUEUED", "PASS", "FAIL"}]
              /\ \A i \in Instance : verdict[i] # "QUEUED" => verdict'[i] # "QUEUED"
              /\ cleaned' = cleaned
      BY <1>2, <2>1, JudgedType DEF TypeOK
    <2>3. QED
      BY <1>2, <2>2 DEF RunInstance, Setup, Cleanup, TypeOK
  <1>6. l \in {"cleanup", "release"} => Settled(taken[w])'
    <2>1. ASSUME NEW ok \in BOOLEAN, Execute(w, ok) PROVE Settled(taken[w])'
      <3>1. /\ verdict' = [verdict EXCEPT ![taken[w]] = Judged(taken[w], ok)]
            /\ taken' = taken
        BY <2>1 DEF Execute, queueVars
      <3>2. verdict'[taken[w]] = Judged(taken[w], ok)
        BY <1>2, <3>1 DEF TypeOK
      <3>3. QED
        BY <1>2, <3>1, <3>2, JudgedType DEF Settled
    <2>2. ASSUME NEW ok \in BOOLEAN, Setup(w, ok), l # "execute"
          PROVE  Settled(taken[w])'
      BY <1>2, <1>4, <2>2 DEF Setup, Goto, TypeOK, Settled, queueVars
    <2>3. CASE Cleanup(w)
      BY <1>4, <2>3 DEF Cleanup, RunSoFar, Settled, queueVars
    <2>4. QED
      BY <2>1, <2>2, <2>3 DEF RunInstance
  <1>7. l = "release" => taken[w] \in cleaned'
    BY <1>4 DEF RunInstance, Setup, Execute, Cleanup, Goto, TypeOK
  <1>8. TypeOK'
    <2>1. Devices!TypeOK'
      BY <1>1 DEF TypeOK, deviceVars, Devices!TypeOK
    <2>2. QED
      BY <1>1, <1>3, <1>5, <2>1 DEF TypeOK, queueVars
  <1>9. InOnePlace'
    BY <1>1, <1>4 DEF InOnePlace, queueVars
  <1>10. AcquiredAreActive'
    <2>1. Active' = Active
      BY <1>1, <1>4 DEF Active
    <2>2. QED
      BY <1>1, <2>1 DEF AcquiredAreActive, queueVars, deviceVars
  <1>11. RunSoFar'
    <2> SUFFICES ASSUME NEW v \in Worker, wpc'[v] \in {"cleanup", "release"}
                 PROVE  /\ Settled(taken[v])'
                        /\ wpc'[v] = "release" => taken[v] \in cleaned'
      BY <1>1 DEF RunSoFar, queueVars
    <2>1. CASE v = w
      BY <1>1, <1>4, <1>6, <1>7, <2>1 DEF Settled, queueVars
    <2>2. CASE v # w
      <3>1. wpc'[v] = wpc[v]
        BY <1>4, <2>2
      <3>2. taken[v] \in Instance
        BY <3>1, TakenType
      <3>3. QED
        BY <1>1, <1>5, <3>1, <3>2 DEF RunSoFar, Settled, queueVars
    <2>3. QED
      BY <2>1, <2>2
  <1>12. TableIsWhole' /\ Devices!NothingLeaks'
    BY <1>1 DEF deviceVars, TableIsWhole, Devices!NothingLeaks, Devices!Needs
  <1>13. QED
    BY <1>8, <1>9, <1>10, <1>11, <1>12

\* The release: what the instance owns is free again, and it is nowhere.
LEMMA ReleaseInv ==
    ASSUME PoolInv, NEW w \in Worker, ReleaseDevices(w)
    PROVE  PoolInv'
  <1> USE DEF PoolInv
  <1> DEFINE i == taken[w]
  <1>1. /\ wpc[w] = "release" /\ wpc' = [wpc EXCEPT ![w] = "loop"]
        /\ Devices!Release(i)
        /\ taken' = [taken EXCEPT ![w] = NULL]
        /\ UNCHANGED <<line, stopped, fed, testVars>>
    BY DEF ReleaseDevices, Queue!Done, Goto
  <1>2. i \in Instance /\ i # NULL
    BY <1>1, TakenType
  <1>3. \A v \in Worker : v # w => taken[v] # i
    BY <1>2 DEF InOnePlace
  <1>4. \A v \in Worker : /\ wpc'[v] = IF v = w THEN "loop" ELSE wpc[v]
                          /\ taken'[v] = IF v = w THEN NULL ELSE taken[v]
    BY <1>1 DEF TypeOK
  <1> HIDE DEF i
  <1>5. Devices!TypeOK
    BY DEF TypeOK
  <1>6. /\ state' = [d \in Device |-> IF d \in Devices!Returned(i) THEN "FREE" ELSE state[d]]
        /\ owner' = [d \in Device |-> IF d \in Devices!Returned(i) THEN NULL ELSE owner[d]]
        /\ phase' = [phase EXCEPT ![i] = "idle"]
        /\ UNCHANGED <<offered, registered>>
    BY <1>1 DEF Devices!Release
  <1>7. \A d \in Device : d \in Devices!Returned(i) <=> owner[d] = i
    BY <1>2 DEF Devices!Returned, Devices!NothingLeaks, TableIsWhole
  <1>8. TypeOK'
    <2>1. Devices!TypeOK'
      BY <1>2, <1>5, <1>6 DEF Devices!TypeOK
    <2>2. QED
      BY <1>1, <2>1 DEF TypeOK, testVars
  <1>9. InOnePlace'
    <2>1. \A k \in 1 .. Len(line) : line[k] # NULL
      BY PoolAssumption DEF TypeOK
    <2>2. \A k \in 1 .. Len(line') : \A v \in Worker : line'[k] # taken'[v]
      BY <1>1, <1>4, <2>1 DEF InOnePlace
    <2>3. QED
      BY <1>1, <1>4, <2>2 DEF InOnePlace
  <1>10. AcquiredAreActive'
    <2> SUFFICES ASSUME NEW j \in Instance
                 PROVE  phase'[j] # "idle" <=> \E v \in Active' : taken'[v] = j
      BY DEF AcquiredAreActive
    <2>1. Active' = Active \ {w} /\ w \in Active
      BY <1>1, <1>4 DEF Active
    <2>2. phase'[j] = IF j = i THEN "idle" ELSE phase[j]
      BY <1>2, <1>5, <1>6 DEF Devices!TypeOK
    <2>3. \A v \in Active' : taken'[v] = taken[v] /\ taken[v] # i
      BY <1>3, <1>4, <2>1 DEF Active
    <2>4. CASE j = i
      BY <2>2, <2>3, <2>4
    <2>5. CASE j # i
      <3>1. (\E v \in Active' : taken'[v] = j) <=> (\E v \in Active : taken[v] = j)
        BY <2>1, <2>3, <2>5 DEF i
      <3>2. QED
        BY <2>2, <2>5, <3>1 DEF AcquiredAreActive
    <2>6. QED
      BY <2>4, <2>5
  <1>11. RunSoFar'
    BY <1>1, <1>4 DEF RunSoFar, Settled, testVars
  <1>12. TableIsWhole'
    BY <1>6 DEF TableIsWhole
  <1>13. Devices!NothingLeaks'
    <2> SUFFICES ASSUME NEW d \in Device
                 PROVE  /\ state'[d] = "BUSY" <=> owner'[d] # NULL
                        /\ owner'[d] # NULL =>
                              /\ phase'[owner'[d]] = "holding"
                              /\ d \in Needs(owner'[d])
      BY DEF Devices!NothingLeaks, Devices!Needs, Needs
    <2>1. CASE owner[d] = i
      BY <1>6, <1>7, <2>1
    <2>2. CASE owner[d] # i
      <3>1. state'[d] = state[d] /\ owner'[d] = owner[d]
        BY <1>6, <1>7, <2>2
      <3>2. owner[d] # NULL => phase'[owner[d]] = "holding"
        BY <1>2, <1>5, <1>6, <2>2 DEF Devices!NothingLeaks, Devices!TypeOK
      <3>3. QED
        BY <3>1, <3>2 DEF Devices!NothingLeaks, Devices!Needs, Needs
    <2>3. QED
      BY <2>1, <2>2
  <1>14. QED
    BY <1>8, <1>9, <1>10, <1>11, <1>12, <1>13

\* A worker's exit and the stop of the engine touch no instance.
LEMMA EndInv ==
    ASSUME PoolInv, Stop \/ (\E w \in Worker : Exit(w)) \/ UNCHANGED vars
    PROVE  PoolInv'
  <1> USE DEF PoolInv, queueVars
  <1>1. /\ UNCHANGED <<line, taken, deviceVars, fed, testVars>>
        /\ stopped' \in BOOLEAN
    BY DEF Stop, Queue!StopLine, Exit, vars, TypeOK
  <1>2. /\ wpc' \in [Worker -> {"loop", "acquire", "setup", "execute", "cleanup",
                               "release", "exited"}]
        /\ \A v \in Worker : \/ wpc'[v] = wpc[v]
                             \/ wpc[v] = "loop" /\ wpc'[v] = "exited"
    BY DEF Stop, Exit, Goto, vars, TypeOK
  <1>3. TypeOK'
    <2>1. Devices!TypeOK'
      BY <1>1 DEF TypeOK, deviceVars, Devices!TypeOK
    <2>2. QED
      BY <1>1, <1>2, <2>1 DEF TypeOK, testVars
  <1>4. InOnePlace'
    BY <1>1, <1>2 DEF InOnePlace
  <1>5. AcquiredAreActive'
    <2>1. Active' = Active
      BY <1>2 DEF Active
    <2>2. QED
      BY <1>1, <2>1 DEF AcquiredAreActive, deviceVars
  <1>6. RunSoFar'
    BY <1>1, <1>2 DEF RunSoFar, Settled, testVars
  <1>7. TableIsWhole' /\ Devices!NothingLeaks'
    BY <1>1 DEF deviceVars, TableIsWhole, Devices!NothingLeaks, Devices!Needs
  <1>8. QED
    BY <1>3, <1>4, <1>5, <1>6, <1>7

LEMMA NextPool == PoolInv /\ [Next]_vars => PoolInv'
  <1> SUFFICES ASSUME PoolInv, [Next]_vars PROVE PoolInv'
    OBVIOUS
  <1>1. ASSUME NEW i \in Instance, Feed(i) PROVE PoolInv'
    BY <1>1, FeedInv
  <1>2. ASSUME NEW w \in Worker, WorkerStep(w) PROVE PoolInv'
    BY <1>2, TakeNextInv, AcquireInv, RunInstanceInv, ReleaseInv DEF WorkerStep
  <1>3. CASE Stop \/ (\E w \in Worker : Exit(w)) \/ UNCHANGED vars
    BY <1>3, EndInv
  <1>4. QED
    BY <1>1, <1>2, <1>3 DEF Next

----------------------------------------------------------------------------
(***************************************************************************)
(* The theorems.                                                           *)
(***************************************************************************)

\* test_engine_worker keeps to the protocol of the resource manager: every
\* instance is in one place, and acquires once and releases once per run.
LEMMA PoolInductive == Spec => []PoolInv
  BY InitPool, NextPool, PTL DEF Spec

\* The pool's queue, devices and results keep their types.
THEOREM PoolTypeCorrect == Spec => []TypeOK
  BY PoolInductive, PTL DEF PoolInv

\* An acquire that is granted takes all devices of the instance, none of which
\* another holder has; a release gives back those of its own instance.
LEMMA HoldersInductive ==
    ASSUME PoolInv, Devices!HolderOwnsAll, [Next]_vars
    PROVE  Devices!HolderOwnsAll'
  <1> USE DEF PoolInv
  <1>1. phase \in [Instance -> {"idle", "holding", "barred"}]
    BY DEF TypeOK, Devices!TypeOK
  <1>2. ASSUME NEW w \in Worker, AcquireDevices(w) PROVE Devices!HolderOwnsAll'
    <2> DEFINE i == taken[w]
    <2>1. i \in Instance /\ Devices!Acquire(i)
      BY <1>2, TakenType DEF AcquireDevices
    <2> HIDE DEF i
    <2>2. Needs(i) \subseteq Device /\ Needs(i) # {}
      BY <2>1, PoolAssumption DEF Needs
    <2>3. CASE ~Devices!Grantable(FunctionOf[i])
      <3>1. phase' = [phase EXCEPT ![i] = "barred"] /\ UNCHANGED <<state, owner>>
        BY <2>1, <2>3 DEF Devices!Acquire
      <3>2. QED
        BY <1>1, <3>1 DEF Devices!HolderOwnsAll, Devices!Needs
    <2>4. CASE Devices!Grantable(FunctionOf[i])
      <3>1. /\ state' = [d \in Device |-> IF d \in Needs(i) THEN "BUSY" ELSE state[d]]
            /\ owner' = [d \in Device |-> IF d \in Needs(i) THEN i ELSE owner[d]]
            /\ phase' = [phase EXCEPT ![i] = "holding"]
        BY <2>1, <2>2, <2>4 DEF Devices!Acquire, Devices!Needs, Needs, TableIsWhole
      <3>2. \A d \in Needs(i) : state[d] = "FREE"
        BY <2>2, <2>4 DEF Devices!Grantable, Needs, TableIsWhole
      <3> SUFFICES ASSUME NEW j \in Instance, phase'[j] = "holding", NEW d \in Needs(j)
                   PROVE  owner'[d] = j /\ state'[d] = "BUSY"
        BY DEF Devices!HolderOwnsAll, Devices!Needs, Needs
      <3>3. d \in Device
        BY PoolAssumption DEF Needs
      <3>4. CASE j = i
        BY <3>1, <3>3, <3>4
      <3>5. CASE j # i
        <4>1. owner[d] = j /\ state[d] = "BUSY"
          BY <1>1, <3>1, <3>5 DEF Devices!HolderOwnsAll, Devices!Needs, Needs
        <4>2. d \notin Needs(i)
          BY <3>2, <4>1
        <4>3. QED
          BY <3>1, <3>3, <4>1, <4>2
      <3>6. QED
        BY <3>4, <3>5
    <2>5. QED
      BY <2>3, <2>4
  <1>3. ASSUME NEW w \in Worker, ReleaseDevices(w) PROVE Devices!HolderOwnsAll'
    <2> DEFINE i == taken[w]
    <2>1. i \in Instance /\ Devices!Release(i)
      BY <1>3, TakenType DEF ReleaseDevices
    <2> HIDE DEF i
    <2>2. /\ state' = [d \in Device |-> IF d \in Devices!Returned(i) THEN "FREE" ELSE state[d]]
          /\ owner' = [d \in Device |-> IF d \in Devices!Returned(i) THEN NULL ELSE owner[d]]
          /\ phase' = [phase EXCEPT ![i] = "idle"]
      BY <2>1 DEF Devices!Release
    <2> SUFFICES ASSUME NEW j \in Instance, phase'[j] = "holding", NEW d \in Needs(j)
                 PROVE  owner'[d] = j /\ state'[d] = "BUSY"
      BY DEF Devices!HolderOwnsAll, Devices!Needs, Needs
    <2>3. d \in Device /\ j # i
      BY <1>1, <2>1, <2>2, PoolAssumption DEF Needs
    <2>4. owner[d] = j /\ state[d] = "BUSY"
      BY <1>1, <2>2, <2>3 DEF Devices!HolderOwnsAll, Devices!Needs, Needs
    <2>5. d \notin Devices!Returned(i)
      BY <2>3, <2>4 DEF Devices!Returned
    <2>6. QED
      BY <2>2, <2>3, <2>4, <2>5
  <1>4. CASE UNCHANGED deviceVars
    BY <1>4 DEF deviceVars, Devices!HolderOwnsAll, Devices!Needs
  <1>5. QED
    BY <1>2, <1>3, <1>4
       DEF Next, WorkerStep, Feed, TakeNext, RunInstance, Setup, Execute, Cleanup, Exit, Stop, vars

\* Between a granted acquire and the release the instance owns all its devices.
LEMMA HoldersAlways == Spec => []Devices!HolderOwnsAll
  <1>1. Init => Devices!HolderOwnsAll
    BY DEF Init, Devices!HolderOwnsAll
  <1>2. PoolInv /\ Devices!HolderOwnsAll /\ [Next]_vars => Devices!HolderOwnsAll'
    BY HoldersInductive
  <1>3. QED
    BY <1>1, <1>2, PoolInductive, PTL DEF Spec

\* A device is busy exactly while a worker that was granted it is between its
\* acquire and its release, and is then that run's: with the pool at rest all
\* are free.
THEOREM BusyOnlyWhileRunning == Spec => []BusyMeansRunning
  <1>1. PoolInv /\ Devices!HolderOwnsAll => BusyMeansRunning
    <2> SUFFICES ASSUME PoolInv, Devices!HolderOwnsAll, NEW d \in Device
                 PROVE  /\ state[d] = "BUSY" => \E w \in Granted : d \in Needs(taken[w])
                        /\ \A w \in Granted : d \in Needs(taken[w]) =>
                              state[d] = "BUSY" /\ owner[d] = taken[w]
      BY DEF BusyMeansRunning
    <2> USE DEF PoolInv
    <2>1. ASSUME state[d] = "BUSY"
          PROVE  \E w \in Granted : d \in Needs(taken[w])
      <3>1. /\ owner[d] \in Instance
            /\ phase[owner[d]] = "holding" /\ d \in Needs(owner[d])
        BY <2>1 DEF Devices!NothingLeaks, Devices!Needs, Needs, TypeOK, Devices!TypeOK
      <3>2. PICK w \in Active : taken[w] = owner[d]
        BY <3>1 DEF AcquiredAreActive
      <3>3. QED
        BY <3>1, <3>2 DEF Granted
    <2>2. ASSUME NEW w \in Granted, d \in Needs(taken[w])
          PROVE  state[d] = "BUSY" /\ owner[d] = taken[w]
      <3>1. taken[w] \in Instance /\ phase[taken[w]] = "holding"
        BY TakenType DEF Granted, Active
      <3>2. QED
        BY <2>2, <3>1 DEF Devices!HolderOwnsAll, Devices!Needs, Needs
    <2>3. QED
      BY <2>1, <2>2
  <1>2. QED
    BY <1>1, PoolInductive, HoldersAlways, PTL

\* What a grant is worth, although test_engine_run_instance ignores the answer
\* of the acquire: two runs that were granted their devices share none.
GrantedRunsAreExclusive ==
    \A v, w \in Granted :
        v # w => Needs(taken[v]) \intersect Needs(taken[w]) = {}

\* The devices of a granted run are its own, whoever runs without a grant.
THEOREM GrantedRunsShareNothing == Spec => []GrantedRunsAreExclusive
  <1>1. PoolInv /\ BusyMeansRunning => GrantedRunsAreExclusive
    <2> SUFFICES ASSUME PoolInv, BusyMeansRunning,
                        NEW v \in Granted, NEW w \in Granted, v # w,
                        NEW d \in Needs(taken[v]) \intersect Needs(taken[w])
                 PROVE  FALSE
      BY DEF GrantedRunsAreExclusive
    <2>1. taken[v] \in Instance /\ taken[w] \in Instance /\ taken[v] # taken[w]
      BY TakenType DEF PoolInv, InOnePlace, Granted, Active
    <2>2. d \in Device
      BY <2>1, PoolAssumption DEF Needs
    <2>3. owner[d] = taken[v] /\ owner[d] = taken[w]
      BY <2>2 DEF BusyMeansRunning
    <2>4. QED
      BY <2>1, <2>3
  <1>2. QED
    BY <1>1, PoolInductive, BusyOnlyWhileRunning, PTL

\* test_engine_run_instance on every path: a device goes free only by the
\* release of its owner, which is cleaned up and, with something to execute, judged.
THEOREM GivenBackClean == Spec => CleanedBeforeGivenBack
  <1> DEFINE Kept == \A d \in Device : state[d] = "BUSY" /\ state'[d] = "FREE"
                        => /\ owner[d] \in cleaned
                           /\ owner[d] \in Executable => verdict[owner[d]] # "QUEUED"
  <1>1. ASSUME PoolInv, [Next]_vars PROVE Kept \/ UNCHANGED vars
    <2> USE DEF PoolInv
    <2>1. ASSUME NEW w \in Worker, AcquireDevices(w) PROVE Kept
      <3>1. \A d \in Device : state'[d] \in {"BUSY", state[d]}
        BY <2>1 DEF AcquireDevices, Devices!Acquire
      <3>2. QED
        BY <3>1
    <2>2. ASSUME NEW w \in Worker, ReleaseDevices(w) PROVE Kept
      <3>1. /\ wpc[w] = "release"
            /\ state' = [d \in Device |->
                  IF d \in Devices!Returned(taken[w]) THEN "FREE" ELSE state[d]]
        BY <2>2 DEF ReleaseDevices, Devices!Release
      <3>2. \A d \in Device : state[d] = "BUSY" /\ state'[d] = "FREE" => owner[d] = taken[w]
        BY <3>1 DEF Devices!Returned
      <3>3. QED
        BY <1>1, <3>1, <3>2 DEF RunSoFar, Settled
    <2>3. ASSUME NEW w \in Worker, TakeNext(w) \/ RunInstance(w) \/ Exit(w) PROVE Kept
      BY <2>3 DEF TakeNext, RunInstance, Setup, Execute, Cleanup, Exit, deviceVars
    <2>4. ASSUME NEW i \in Instance, Feed(i) PROVE Kept
      BY <2>4 DEF Feed, deviceVars
    <2>5. CASE Stop
      BY <2>5 DEF Stop, deviceVars
    <2> HIDE DEF Kept
    <2>6. QED
      BY <1>1, <2>1, <2>2, <2>3, <2>4, <2>5 DEF Next, WorkerStep
  <1>2. PoolInv /\ [Next]_vars => [Kept]_vars
    BY <1>1
  <1>3. QED
    BY <1>2, PoolInductive, PTL DEF Spec, CleanedBeforeGivenBack

\* The calls a worker makes, as the modules it is composed of ask for them: none
\* of the guards that stand there for a caller's good behaviour holds it up.
CallsAreInOrder ==
    \A w \in Worker :
        /\ wpc[w] = "loop" => taken[w] = NULL
        /\ wpc[w] = "acquire" => Devices!Started /\ phase[taken[w]] = "idle"
        /\ wpc[w] = "release" => phase[taken[w]] # "idle" /\ taken[w] # NULL

\* test_engine_worker takes an instance only with empty hands, acquires for it
\* once, when every device has been offered, and releases after an acquire.
THEOREM WorkersKeepTheProtocol == Spec => []CallsAreInOrder
  <1>1. Init => offered = Device
    BY DEF Init
  <1>2. offered = Device /\ [Next]_vars => (offered = Device)'
    BY DEF Next, WorkerStep, Feed, TakeNext, AcquireDevices, RunInstance, Setup, Execute,
           Cleanup, ReleaseDevices, Exit, Stop, vars, deviceVars,
           Devices!Acquire, Devices!Release
  <1>3. PoolInv /\ offered = Device => CallsAreInOrder
    <2> SUFFICES ASSUME PoolInv, offered = Device, NEW w \in Worker
                 PROVE  /\ wpc[w] = "loop" => taken[w] = NULL
                        /\ wpc[w] = "acquire" => Devices!Started /\ phase[taken[w]] = "idle"
                        /\ wpc[w] = "release" => phase[taken[w]] # "idle" /\ taken[w] # NULL
      BY DEF CallsAreInOrder
    <2> USE DEF PoolInv
    <2>1. wpc[w] = "loop" => taken[w] = NULL
      BY DEF InOnePlace
    <2>2. ASSUME wpc[w] = "acquire" PROVE phase[taken[w]] = "idle"
      <3>1. taken[w] \in Instance /\ taken[w] # NULL
        BY <2>2, TakenType
      <3>2. \A v \in Active : taken[v] # taken[w]
        BY <2>2, <3>1 DEF Active, InOnePlace
      <3>3. QED
        BY <3>1, <3>2 DEF AcquiredAreActive
    <2>3. ASSUME wpc[w] = "release" PROVE phase[taken[w]] # "idle" /\ taken[w] # NULL
      <3>1. w \in Active /\ taken[w] \in Instance /\ taken[w] # NULL
        BY <2>3, TakenType DEF Active
      <3>2. QED
        BY <3>1 DEF AcquiredAreActive
    <2>4. QED
      BY <2>1, <2>2, <2>3 DEF Devices!Started
  <1>4. QED
    BY <1>1, <1>2, <1>3, PoolInductive, PTL DEF Spec

\* The pool uses its queue as the bounded first-in first-out line WorkFifo,
\* which ExecutionQueue implements: a worker hands an instance back only when
\* it has one, and nobody takes one after the stop.
THEOREM PoolUsesTheLine == Spec => Queue!FifoSpec
  <1>1. Init => Queue!FifoInit
    BY DEF Init
  <1>2. [Next]_vars => [Queue!FifoNext]_(Queue!fifoVars)
    <2> SUFFICES ASSUME [Next]_vars PROVE Queue!FifoNext \/ UNCHANGED queueVars
      BY DEF Queue!fifoVars, queueVars
    <2>1. ASSUME NEW i \in Instance, Feed(i) PROVE Queue!FifoNext \/ UNCHANGED queueVars
      BY <2>1 DEF Feed, Queue!FifoNext
    <2>2. ASSUME NEW w \in Worker, WorkerStep(w) PROVE Queue!FifoNext \/ UNCHANGED queueVars
      BY <2>2 DEF WorkerStep, TakeNext, AcquireDevices, RunInstance, Setup, Execute,
                  Cleanup, ReleaseDevices, Queue!FifoNext
    <2>3. CASE Stop \/ (\E w \in Worker : Exit(w)) \/ UNCHANGED vars
      BY <2>3 DEF Stop, Exit, Queue!FifoNext, vars
    <2>4. QED
      BY <2>1, <2>2, <2>3 DEF Next
  <1>3. QED
    BY <1>1, <1>2, PTL DEF Spec, Queue!FifoSpec
============================================================================
