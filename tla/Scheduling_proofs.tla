-------------------------- MODULE Scheduling_proofs --------------------------
(***************************************************************************)
(* Proofs about the devices and about the scheduler over them, for every   *)
(* set of devices, functions and instances.  First ResourceManager alone:  *)
(* the ownership table is exclusive, all-or-nothing, and a release gives   *)
(* back only what its caller owns.  Then Scheduling: the composition keeps *)
(* all of it, and hands out only what was submitted.                       *)
(***************************************************************************)
EXTENDS Scheduling, FiniteSetTheorems, TLAPS

\* Offering a device puts at least one name in the table, so no scan after
\* Started is vacuous.
TableNotEmpty == offered # {} => registered # {}

\* Only devices of the table are ever owned.
OwnedAreRegistered == \A d \in Device : owner[d] # NULL => d \in registered

IInv ==
    /\ TypeOK
    /\ TableNotEmpty
    /\ OwnedAreRegistered
    /\ NothingLeaks
    /\ HolderOwnsAll

\* What the constants say of the devices an instance needs.
LEMMA NeedsType ==
    ASSUME NEW i \in Instance
    PROVE  Needs(i) \subseteq Device /\ Needs(i) # {}
BY FunctionAssumption DEF Needs

\* The initial table satisfies the inductive invariant.
LEMMA InitIInv == Init => IInv
<1> SUFFICES ASSUME Init
             PROVE  IInv
    OBVIOUS
<1>1. TypeOK
    BY DEF Init, TypeOK
<1>2. TableNotEmpty /\ OwnedAreRegistered /\ NothingLeaks /\ HolderOwnsAll
    BY DEF Init, TableNotEmpty, OwnedAreRegistered, NothingLeaks, HolderOwnsAll
<1> QED BY <1>1, <1>2 DEF IInv

\* Registering a device (init only) keeps the inductive invariant.
LEMMA RegisterIInv ==
    ASSUME IInv, NEW d \in Device, Register(d)
    PROVE  IInv'
<1> USE DEF IInv, Register
<1>1. registered' \in SUBSET Device /\ registered \subseteq registered'
    BY DEF TypeOK
<1>2. TypeOK'
    BY <1>1 DEF TypeOK
<1>3. TableNotEmpty'
  <2>1. CASE registered # {}
      BY <2>1, <1>1 DEF TableNotEmpty
  <2>2. CASE registered = {}
    <3>1. Cardinality(registered) < MaxResources
        BY <2>2, FS_EmptySet, LimitAssumption
    <3> QED BY <3>1 DEF TableNotEmpty
  <2> QED BY <2>1, <2>2
<1>4. OwnedAreRegistered'
    BY <1>1 DEF OwnedAreRegistered
<1>5. NothingLeaks' /\ HolderOwnsAll'
    BY DEF NothingLeaks, HolderOwnsAll, Needs
<1> QED BY <1>2, <1>3, <1>4, <1>5

\* An acquire, granted or refused, keeps the inductive invariant.
LEMMA AcquireIInv ==
    ASSUME IInv, NEW i \in Instance, Acquire(i)
    PROVE  IInv'
<1> USE DEF IInv
<1>1. TypeOK'
    BY DEF Acquire, TypeOK
<1>2. TableNotEmpty'
    BY DEF Acquire, TableNotEmpty
<1>3. CASE Grantable(FunctionOf[i])
  <2>1. registered # {}
      BY NeedsType DEF Acquire, Started, TableNotEmpty
  <2>2. \A d \in Needs(i) : d \in registered /\ state[d] = "FREE" /\ owner[d] = NULL
      BY <1>3, <2>1, NeedsType DEF Grantable, Needs, NothingLeaks, TypeOK
  <2>3. /\ state' = [d \in Device |-> IF d \in Needs(i) THEN "BUSY" ELSE state[d]]
        /\ owner' = [d \in Device |-> IF d \in Needs(i) THEN i ELSE owner[d]]
        /\ phase' = [phase EXCEPT ![i] = "holding"]
        /\ UNCHANGED <<offered, registered>>
      BY <1>3, <2>2 DEF Acquire
  <2>4. OwnedAreRegistered'
      BY <2>2, <2>3 DEF OwnedAreRegistered, TypeOK
  <2>5. NothingLeaks'
    <3> SUFFICES ASSUME NEW d \in Device
                 PROVE  /\ state'[d] = "BUSY" <=> owner'[d] # NULL
                        /\ owner'[d] # NULL =>
                              /\ phase'[owner'[d]] = "holding"
                              /\ d \in Needs(owner'[d])
        BY DEF NothingLeaks, Needs
    <3>1. CASE d \in Needs(i)
        BY <3>1, <2>3, LimitAssumption DEF TypeOK
    <3>2. CASE d \notin Needs(i)
      <4>1. owner'[d] = owner[d] /\ state'[d] = state[d]
          BY <3>2, <2>3
      <4>2. ASSUME owner[d] # NULL
            PROVE  phase'[owner[d]] = "holding"
          BY <4>2, <2>3 DEF NothingLeaks, TypeOK
      <4> QED BY <4>1, <4>2 DEF NothingLeaks
    <3> QED BY <3>1, <3>2
  <2>6. HolderOwnsAll'
    <3> SUFFICES ASSUME NEW j \in Instance, phase'[j] = "holding",
                        NEW d \in Needs(j)
                 PROVE  owner'[d] = j /\ state'[d] = "BUSY"
        BY DEF HolderOwnsAll, Needs
    <3>1. d \in Device
        BY NeedsType
    <3>2. CASE j = i
        BY <3>1, <3>2, <2>3
    <3>3. CASE j # i
      <4>1. owner[d] = j /\ state[d] = "BUSY"
          BY <3>3, <2>3 DEF HolderOwnsAll, TypeOK
      <4>2. d \notin Needs(i)
          BY <4>1, <2>2
      <4> QED BY <4>1, <4>2, <3>1, <2>3
    <3> QED BY <3>2, <3>3
  <2> QED BY <1>1, <1>2, <2>4, <2>5, <2>6
<1>4. CASE ~Grantable(FunctionOf[i])
  <2>1. /\ phase' = [phase EXCEPT ![i] = "barred"]
        /\ phase[i] = "idle"
        /\ UNCHANGED <<state, owner, offered, registered>>
      BY <1>4 DEF Acquire
  <2>2. OwnedAreRegistered'
      BY <2>1 DEF OwnedAreRegistered
  <2>3. NothingLeaks'
      BY <2>1 DEF NothingLeaks, TypeOK, Needs
  <2>4. HolderOwnsAll'
      BY <2>1 DEF HolderOwnsAll, TypeOK, Needs
  <2> QED BY <1>1, <1>2, <2>2, <2>3, <2>4
<1> QED BY <1>3, <1>4

\* A release, by a holder or by a barred instance, keeps the inductive invariant.
LEMMA ReleaseIInv ==
    ASSUME IInv, NEW i \in Instance, Release(i)
    PROVE  IInv'
<1> USE DEF IInv
<1>1. TypeOK'
    BY DEF Release, TypeOK
<1>2. TableNotEmpty'
    BY DEF Release, TableNotEmpty
<1>3. OwnedAreRegistered'
    BY DEF Release, OwnedAreRegistered, TypeOK
<1>4. \A d \in Device : d \in Returned(i) <=> owner[d] = i
    BY LimitAssumption DEF Returned, NothingLeaks, OwnedAreRegistered
<1>5. NothingLeaks'
  <2> SUFFICES ASSUME NEW d \in Device
               PROVE  /\ state'[d] = "BUSY" <=> owner'[d] # NULL
                      /\ owner'[d] # NULL =>
                            /\ phase'[owner'[d]] = "holding"
                            /\ d \in Needs(owner'[d])
      BY DEF NothingLeaks, Needs
  <2>1. CASE d \in Returned(i)
      BY <2>1 DEF Release
  <2>2. CASE d \notin Returned(i)
    <3>1. owner'[d] = owner[d] /\ state'[d] = state[d] /\ owner[d] # i
        BY <2>2, <1>4 DEF Release
    <3>2. ASSUME owner[d] # NULL
          PROVE  phase'[owner[d]] = "holding"
        BY <3>1, <3>2 DEF Release, NothingLeaks, TypeOK
    <3> QED BY <3>1, <3>2 DEF NothingLeaks
  <2> QED BY <2>1, <2>2
<1>6. HolderOwnsAll'
  <2> SUFFICES ASSUME NEW j \in Instance, phase'[j] = "holding",
                      NEW d \in Needs(j)
               PROVE  owner'[d] = j /\ state'[d] = "BUSY"
      BY DEF HolderOwnsAll, Needs
  <2>1. d \in Device
      BY NeedsType
  <2>2. j # i /\ phase[j] = "holding"
      BY DEF Release, TypeOK
  <2>3. owner[d] = j /\ state[d] = "BUSY"
      BY <2>2 DEF HolderOwnsAll
  <2>4. d \notin Returned(i)
      BY <2>1, <2>2, <2>3, <1>4
  <2> QED BY <2>1, <2>3, <2>4 DEF Release
<1> QED BY <1>1, <1>2, <1>3, <1>5, <1>6

\* Every step keeps the inductive invariant.
LEMMA NextIInv == IInv /\ [Next]_vars => IInv'
<1> SUFFICES ASSUME IInv, [Next]_vars PROVE IInv'
    OBVIOUS
<1>1. ASSUME NEW d \in Device, Register(d) PROVE IInv'
    BY <1>1, RegisterIInv
<1>2. ASSUME NEW i \in Instance, Acquire(i) PROVE IInv'
    BY <1>2, AcquireIInv
<1>3. ASSUME NEW i \in Instance, Release(i) PROVE IInv'
    BY <1>3, ReleaseIInv
<1>4. CASE UNCHANGED vars
    BY <1>4 DEF vars, IInv, TypeOK, TableNotEmpty, OwnedAreRegistered,
                NothingLeaks, HolderOwnsAll, Needs
<1> QED BY <1>1, <1>2, <1>3, <1>4 DEF Next

\* The inductive invariant holds in every reachable state.
THEOREM Inductive == Spec => []IInv
BY InitIInv, NextIInv, PTL DEF Spec

\* resource-manager.c keeps its table well typed.
THEOREM TypeCorrect == Spec => []TypeOK
BY Inductive, PTL DEF IInv

\* A granted instance keeps all its devices until its own release.
THEOREM HoldersKeepTheirDevices == Spec => []HolderOwnsAll
BY Inductive, PTL DEF IInv

\* A device is busy only on behalf of an instance that was granted it.
THEOREM NoDeviceLeaks == Spec => []NothingLeaks
BY Inductive, PTL DEF IInv

\* Mutual exclusion: two granted instances have no device in common.
THEOREM Exclusion == Spec => []GrantsAreDisjoint
<1>1. HolderOwnsAll => GrantsAreDisjoint
    BY DEF HolderOwnsAll, GrantsAreDisjoint
<1> QED BY <1>1, HoldersKeepTheirDevices, PTL

\* Devices change hands only through free, in the step that ends the run of
\* the owner: a barred caller's release cannot take them.
THEOREM OwnersGiveBack == Spec => OnlyOwnerGivesBack
<1> DEFINE Kept == \A d \in Device : owner[d] # NULL /\ owner'[d] # owner[d]
                       => owner'[d] = NULL /\ phase'[owner[d]] = "idle"
<1>1. ASSUME IInv, [Next]_vars PROVE Kept \/ UNCHANGED vars
  <2>1. ASSUME NEW e \in Device, Register(e) PROVE Kept
      BY <2>1 DEF Register
  <2>2. ASSUME NEW i \in Instance, Acquire(i) PROVE Kept
    <3>1. CASE Grantable(FunctionOf[i])
      <4>1. registered # {}
          BY <1>1, <2>2, NeedsType DEF Acquire, Started, IInv, TableNotEmpty
      <4>2. \A d \in Needs(i) : owner[d] = NULL
          BY <1>1, <3>1, <4>1, NeedsType
          DEF Grantable, Needs, IInv, NothingLeaks, TypeOK
      <4> QED BY <2>2, <3>1, <4>2 DEF Acquire
    <3>2. CASE ~Grantable(FunctionOf[i])
        BY <2>2, <3>2 DEF Acquire
    <3> QED BY <3>1, <3>2
  <2>3. ASSUME NEW i \in Instance, Release(i) PROVE Kept
      BY <1>1, <2>3 DEF Release, Returned, IInv, TypeOK
  <2> QED BY <1>1, <2>1, <2>2, <2>3 DEF Next
<1>2. IInv /\ [Next]_vars => [Kept]_vars
    BY <1>1
<1> QED BY <1>2, Inductive, PTL DEF Spec, OnlyOwnerGivesBack

----------------------------------------------------------------------------
(***************************************************************************)
(* Under the scheduler the resource manager is the same: every step of the *)
(* composition is one of its steps or leaves it alone, so what is proved   *)
(* of it holds however the scheduler asks, and however old its answers are *)
(* when a worker acquires.                                                 *)
(***************************************************************************)

\* A step of the composition is a step of the resource manager, or none.
LEMMA ComposedStep ==
    ASSUME [SchedulingNext]_<<vars, schedulerVars>>
    PROVE  [Next]_vars
<1>1. CASE \E d \in Device : Register(d) /\ UNCHANGED schedulerVars
    BY <1>1 DEF Next
<1>2. CASE SchedulerStep
    BY <1>2 DEF SchedulerStep
<1>3. CASE \E i \in Instance : WorkerStep(i)
    BY <1>3 DEF WorkerStep, Next
<1>4. CASE UNCHANGED <<vars, schedulerVars>>
    BY <1>4
<1> QED BY <1>1, <1>2, <1>3, <1>4 DEF SchedulingNext

\* The composition of scheduler and devices implements the resource manager's
\* specification: test_scheduler_check_resource only reads.
THEOREM SchedulingImplementsResources == SchedulingSpec => Spec
<1>1. SchedulingInit => Init
    BY DEF SchedulingInit
<1>2. [SchedulingNext]_<<vars, schedulerVars>> => [Next]_vars
    BY ComposedStep
<1> QED BY <1>1, <1>2, PTL DEF SchedulingSpec, Spec

\* An instance whose acquire succeeded owns all its devices until its release,
\* although the scheduler may have handed it out when others held them.
THEOREM ScheduledHoldersKeepTheirDevices == SchedulingSpec => []HolderOwnsAll
BY SchedulingImplementsResources, HoldersKeepTheirDevices

\* No device stays busy behind a test the scheduler handed out.
THEOREM ScheduledTestsLeakNothing == SchedulingSpec => []NothingLeaks
BY SchedulingImplementsResources, NoDeviceLeaks

\* No step of scheduler or workers takes a device from its owner but the
\* owner's release.
THEOREM ScheduledOwnersGiveBack == SchedulingSpec => OnlyOwnerGivesBack
BY SchedulingImplementsResources, OwnersGiveBack

----------------------------------------------------------------------------
(***************************************************************************)
(* The pending array, for any threads and whatever its memory held.  None  *)
(* of them can count on what another one does to the array; what is proved *)
(* is what each step gives every other thread all the same.                *)
(***************************************************************************)
Submitted == {i \in Instance : answer[i] # "none"}
Unchecked == Submitted \union {NULL, Wild}

Places == {"idle", "store", "countUp", "writeUp", "scan", "check",
           "remove", "shift", "clear", "countDown", "writeDown", "return"}

\* The slots and what the callers have in hand are pointers nobody has written
\* or instances that were submitted; past the check, and in a submit, only the
\* latter.
PointersInv ==
    /\ answer \in [Instance -> {"none", "calling", "ACCEPTED", "PENDING", "FAILED"}]
    /\ pc \in [Scheduler!Caller -> Places]
    /\ pending_instances \in [Scheduler!Slots -> Unchecked]
    /\ found \in [Scheduler!Caller -> Unchecked]
    /\ \A c \in Scheduler!Caller :
           pc[c] \notin {"idle", "scan", "check"} => found[c] \in Submitted
    /\ \A h \in handed : h[2] \in Submitted

LEMMA InitPointers == SchedulingInit => PointersInv
  <1> SUFFICES ASSUME Scheduler!Init PROVE PointersInv
    BY DEF SchedulingInit
  <1> USE DEF Scheduler!Init
  <1>1. pending_instances \in [Scheduler!Slots -> Unchecked]
    BY DEF Unchecked
  <1>2. found \in [Scheduler!Caller -> Unchecked]
    BY DEF Unchecked
  <1>3. \A c \in Scheduler!Caller : pc[c] = "idle"
    OBVIOUS
  <1> QED
    BY <1>1, <1>2, <1>3 DEF PointersInv, Places

\* Submit writes its argument's answer, and has the argument in hand from there on.
LEMMA SubmitPointers ==
    ASSUME PointersInv, NEW c \in Scheduler!Caller, NEW i \in Instance,
           NEW a \in BOOLEAN, Scheduler!Submit(c, i, a)
    PROVE  PointersInv'
  <1>1. \E w \in {"calling", "ACCEPTED", "FAILED"} : answer' = [answer EXCEPT ![i] = w]
    BY DEF Scheduler!Submit
  <1>2. /\ answer' \in [Instance -> {"none", "calling", "ACCEPTED", "PENDING", "FAILED"}]
        /\ Submitted \subseteq Submitted' /\ i \in Submitted'
    BY <1>1 DEF PointersInv, Submitted
  <1>3. UNCHANGED <<pending_instances, handed>>
    BY DEF Scheduler!Submit
  <1>4. Unchecked \subseteq Unchecked' /\ Submitted' \subseteq Unchecked'
    BY <1>2 DEF Unchecked
  <1>5. CASE UNCHANGED <<pc, found>>
    BY <1>2, <1>3, <1>4, <1>5 DEF PointersInv
  <1>6. CASE pc' = [pc EXCEPT ![c] = "store"] /\ found' = [found EXCEPT ![c] = i]
    <2>1. pc' \in [Scheduler!Caller -> Places] /\ found' \in [Scheduler!Caller -> Unchecked']
      BY <1>2, <1>4, <1>6 DEF PointersInv, Places
    <2>2. \A d \in Scheduler!Caller :
              pc'[d] \notin {"idle", "scan", "check"} => found'[d] \in Submitted'
      BY <1>2, <1>6 DEF PointersInv
    <2> QED
      BY <1>2, <1>3, <1>4, <2>1, <2>2 DEF PointersInv
  <1> QED
    BY <1>5, <1>6 DEF Scheduler!Submit, Scheduler!Goto

\* The steps that only move the caller, or count.
LEMMA MovePointers ==
    ASSUME PointersInv, NEW c \in Scheduler!Caller, NEW l \in Places,
           pc' = [pc EXCEPT ![c] = l],
           l \notin {"idle", "scan", "check"} => found[c] \in Submitted,
           UNCHANGED <<pending_instances, answer, handed, found>>
    PROVE  PointersInv'
  <1>1. UNCHANGED <<Submitted, Unchecked>>
    BY DEF Submitted, Unchecked
  <1>2. pc' \in [Scheduler!Caller -> Places]
    BY DEF PointersInv
  <1>3. \A d \in Scheduler!Caller :
            pc'[d] \notin {"idle", "scan", "check"} => found[d] \in Submitted
    BY DEF PointersInv
  <1> QED
    BY <1>1, <1>2, <1>3 DEF PointersInv

\* The steps that store a pointer that was in the array or in hand.
LEMMA StorePointers ==
    ASSUME PointersInv, NEW s \in Scheduler!Slots, NEW p \in Unchecked,
           pending_instances' = [pending_instances EXCEPT ![s] = p],
           NEW c \in Scheduler!Caller, NEW l \in Places,
           pc' = [pc EXCEPT ![c] = l],
           l \notin {"idle", "scan", "check"} => found[c] \in Submitted,
           UNCHANGED <<answer, handed, found>>
    PROVE  PointersInv'
  <1>1. UNCHANGED <<Submitted, Unchecked>>
    BY DEF Submitted, Unchecked
  <1>2. pc' \in [Scheduler!Caller -> Places]
    BY DEF PointersInv
  <1>3. \A d \in Scheduler!Caller :
            pc'[d] \notin {"idle", "scan", "check"} => found[d] \in Submitted
    BY DEF PointersInv
  <1>4. pending_instances' \in [Scheduler!Slots -> Unchecked]
    BY DEF PointersInv
  <1> QED
    BY <1>1, <1>2, <1>3, <1>4 DEF PointersInv

\* Only the crash flag, the counters or a loop index change.
LEMMA StayPointers ==
    ASSUME PointersInv, UNCHANGED <<pending_instances, answer, handed, found, pc>>
    PROVE  PointersInv'
  <1>1. UNCHANGED <<Submitted, Unchecked>>
    BY DEF Submitted, Unchecked
  <1> QED
    BY <1>1 DEF PointersInv

\* Every statement of a call under way.
LEMMA ContinuePointers ==
    ASSUME PointersInv, NEW c \in Scheduler!Caller, NEW a \in BOOLEAN,
           found[c] \in {NULL, Wild} => a = FALSE,
           Scheduler!Continue(c, a) \/ Scheduler!GetNext(c)
    PROVE  PointersInv'
  <1> USE DEF Scheduler!At, Scheduler!Goto, Scheduler!shared, Scheduler!history,
              Scheduler!local, Scheduler!LeaveArray
  <1>0. /\ pc[c] \notin {"idle", "scan", "check"} => found[c] \in Submitted
        /\ found[c] \in Unchecked /\ Submitted \subseteq Unchecked /\ NULL \in Unchecked
        /\ \A s \in Scheduler!Slots : pending_instances[s] \in Unchecked
    BY DEF PointersInv, Unchecked
  <1>1. CASE Scheduler!SubmitStore(c)
    <2>1. CASE UNCHANGED <<pending_instances, answer, handed, found, pc>>
      BY <2>1, StayPointers
    <2>2. CASE /\ pending_count \in Scheduler!Slots
               /\ pending_instances' = [pending_instances EXCEPT ![pending_count] = found[c]]
               /\ pc' = [pc EXCEPT ![c] = "countUp"]
               /\ UNCHANGED <<answer, handed, found>>
      BY <1>0, <1>1, <2>2, StorePointers DEF Scheduler!SubmitStore, Places
    <2> QED
      BY <1>1, <2>1, <2>2 DEF Scheduler!SubmitStore
  <1>2. CASE Scheduler!SubmitCount(c)
    BY <1>0, <1>2, MovePointers DEF Scheduler!SubmitCount, Places
  <1>3. CASE Scheduler!SubmitReturn(c)
    <2>1. /\ found[c] \in Submitted /\ pc' = [pc EXCEPT ![c] = "idle"]
          /\ answer' = [answer EXCEPT ![found[c]] = "PENDING"]
          /\ UNCHANGED <<pending_instances, handed, found>>
      BY <1>0, <1>3 DEF Scheduler!SubmitReturn
    <2>2. /\ answer' \in [Instance -> {"none", "calling", "ACCEPTED", "PENDING", "FAILED"}]
          /\ Submitted' = Submitted
      BY <2>1 DEF PointersInv, Submitted
    <2>3. Unchecked' = Unchecked
      BY <2>2 DEF Unchecked
    <2>4. pc' \in [Scheduler!Caller -> Places]
      BY <2>1 DEF PointersInv, Places
    <2>5. \A d \in Scheduler!Caller :
              pc'[d] \notin {"idle", "scan", "check"} => found[d] \in Submitted
      BY <2>1 DEF PointersInv
    <2> QED
      BY <2>1, <2>2, <2>3, <2>4, <2>5 DEF PointersInv
  <1>4. CASE Scheduler!Scan(c)
    <2>1. CASE pc' = [pc EXCEPT ![c] = "idle"] /\ UNCHANGED found
      BY <1>4, <2>1, MovePointers DEF Scheduler!Scan, Places
    <2>2. CASE UNCHANGED <<pc, found>>
      BY <1>4, <2>2, StayPointers DEF Scheduler!Scan
    <2>3. CASE /\ index[c] \in Scheduler!Slots
               /\ found' = [found EXCEPT ![c] = pending_instances[index[c]]]
               /\ pc' = [pc EXCEPT ![c] = "check"]
      <3>1. UNCHANGED <<pending_instances, answer, handed>>
        BY <1>4 DEF Scheduler!Scan
      <3>2. UNCHANGED <<Submitted, Unchecked>>
        BY <3>1 DEF Submitted, Unchecked
      <3>3. pc' \in [Scheduler!Caller -> Places] /\ found' \in [Scheduler!Caller -> Unchecked]
        BY <1>0, <2>3 DEF PointersInv, Places
      <3>4. \A d \in Scheduler!Caller :
                pc'[d] \notin {"idle", "scan", "check"} => found'[d] \in Submitted
        BY <2>3 DEF PointersInv
      <3> QED
        BY <3>1, <3>2, <3>3, <3>4 DEF PointersInv
    <2> QED
      BY <1>4, <2>1, <2>2, <2>3 DEF Scheduler!Scan
  <1>5. CASE Scheduler!Check(c, a)
    <2>1. CASE found[c] = Wild
      BY <1>5, <2>1, StayPointers DEF Scheduler!Check
    <2>2. CASE found[c] # Wild /\ found[c] # NULL /\ a
      <3>1. found[c] \in Submitted
        BY <1>0, <2>2 DEF Unchecked
      <3> QED
        BY <1>5, <2>2, <3>1, MovePointers DEF Scheduler!Check, Places
    <2>3. CASE found[c] # Wild /\ ~(found[c] # NULL /\ a)
      BY <1>5, <2>3, MovePointers DEF Scheduler!Check, Places
    <2> QED
      BY <2>1, <2>2, <2>3
  <1>6. CASE Scheduler!RemoveCheck(c)
    <2>1. CASE pc' = [pc EXCEPT ![c] = "return"]
      BY <1>0, <1>6, <2>1, MovePointers DEF Scheduler!RemoveCheck, Places
    <2>2. CASE pc' = [pc EXCEPT ![c] = "shift"]
      BY <1>0, <1>6, <2>2, MovePointers DEF Scheduler!RemoveCheck, Places
    <2> QED
      BY <1>6, <2>1, <2>2 DEF Scheduler!RemoveCheck
  <1>7. CASE Scheduler!Shift(c)
    <2>1. pc[c] = "shift" /\ UNCHANGED <<answer, handed, found>>
      BY <1>7 DEF Scheduler!Shift
    <2>2. CASE pc' = [pc EXCEPT ![c] = "clear"] /\ UNCHANGED pending_instances
      BY <1>0, <2>1, <2>2, MovePointers DEF Places
    <2>3. CASE pc' = pc /\ UNCHANGED pending_instances
      BY <2>1, <2>3, StayPointers
    <2>4. CASE /\ seen[c] + 1 \in Scheduler!Slots /\ pc' = pc
               /\ pending_instances' =
                      [pending_instances EXCEPT ![seen[c]] = pending_instances[seen[c] + 1]]
      <3>1. pending_instances[seen[c] + 1] \in Unchecked
        BY <1>0, <2>4
      <3>2. pending_instances' \in [Scheduler!Slots -> Unchecked]
        BY <2>4, <3>1 DEF PointersInv
      <3>3. UNCHANGED <<Submitted, Unchecked>>
        BY <2>1 DEF Submitted, Unchecked
      <3> QED
        BY <2>1, <2>4, <3>2, <3>3 DEF PointersInv
    <2> QED
      BY <1>7, <2>1, <2>2, <2>3, <2>4 DEF Scheduler!Shift
  <1>8. CASE Scheduler!Clear(c)
    <2>1. pc[c] = "clear" /\ UNCHANGED <<answer, handed, found>>
      BY <1>8 DEF Scheduler!Clear
    <2>2. CASE pc' = pc /\ UNCHANGED pending_instances
      BY <2>1, <2>2, StayPointers
    <2>3. CASE /\ Scheduler!Minus1(pending_count) \in Scheduler!Slots
               /\ pending_instances' =
                      [pending_instances EXCEPT ![Scheduler!Minus1(pending_count)] = NULL]
               /\ pc' = [pc EXCEPT ![c] = "countDown"]
      BY <1>0, <2>1, <2>3, StorePointers DEF Places
    <2> QED
      BY <1>8, <2>1, <2>2, <2>3 DEF Scheduler!Clear
  <1>9. CASE Scheduler!RemoveCount(c) \/ Scheduler!RemoveReturn(c)
    BY <1>0, <1>9, MovePointers DEF Scheduler!RemoveCount, Scheduler!RemoveReturn, Places
  <1>10. CASE Scheduler!GetNextReturn(c)
    <2>1. /\ found[c] \in Submitted /\ pc' = [pc EXCEPT ![c] = "idle"]
          /\ handed' = handed \union {<<c, found[c]>>}
          /\ UNCHANGED <<pending_instances, answer, found>>
      BY <1>0, <1>10 DEF Scheduler!GetNextReturn
    <2>2. UNCHANGED <<Submitted, Unchecked>>
      BY <2>1 DEF Submitted, Unchecked
    <2>3. pc' \in [Scheduler!Caller -> Places]
      BY <2>1 DEF PointersInv, Places
    <2>4. \A d \in Scheduler!Caller :
              pc'[d] \notin {"idle", "scan", "check"} => found[d] \in Submitted
      BY <2>1 DEF PointersInv
    <2>5. \A h \in handed' : h[2] \in Submitted
      BY <2>1 DEF PointersInv
    <2> QED
      BY <2>1, <2>2, <2>3, <2>4, <2>5 DEF PointersInv
  <1>11. CASE Scheduler!GetNext(c)
    BY <1>11, MovePointers DEF Scheduler!GetNext, Places
  <1> QED
    BY <1>1, <1>2, <1>3, <1>4, <1>5, <1>6, <1>7, <1>8, <1>9, <1>10, <1>11
    DEF Scheduler!Continue, Scheduler!RemovePending

\* Every step of the composition keeps it.
LEMMA NextPointers == PointersInv /\ [SchedulingNext]_<<vars, schedulerVars>> => PointersInv'
  <1> SUFFICES ASSUME PointersInv, [SchedulingNext]_<<vars, schedulerVars>>
      PROVE  PointersInv'
    OBVIOUS
  <1>1. CASE UNCHANGED schedulerVars
    BY <1>1, StayPointers DEF schedulerVars
  <1>2. CASE SchedulerStep
    <2>1. ASSUME NEW c \in Submitter, NEW i \in Instance \ Queued,
                 Scheduler!Submit(c, i, Available(i))
          PROVE  PointersInv'
      BY <2>1, SubmitPointers DEF Scheduler!Caller, Available
    <2>2. ASSUME NEW c \in Asker, Scheduler!GetNext(c)
          PROVE  PointersInv'
      BY <2>2, ContinuePointers, SchedulingAssumption, LimitAssumption
      DEF Scheduler!Caller
    <2>3. ASSUME NEW c \in Scheduler!Caller, Scheduler!Continue(c, Available(found[c]))
          PROVE  PointersInv'
      <3>1. /\ Available(found[c]) \in BOOLEAN
            /\ found[c] \in {NULL, Wild} => Available(found[c]) = FALSE
        BY SchedulingAssumption, LimitAssumption DEF Available
      <3> QED
        BY <2>3, <3>1, ContinuePointers
    <2> QED
      BY <1>2, <2>1, <2>2, <2>3 DEF SchedulerStep
  <1> QED
    BY <1>1, <1>2 DEF SchedulingNext, WorkerStep

\* For any number of threads in the unlocked array and whatever its memory
\* held: what get_next_instance hands out is an instance that was submitted.
THEOREM OnlySubmittedAreHanded == SchedulingSpec => []HandedWereSubmitted
  <1>1. PointersInv => HandedWereSubmitted
    BY DEF PointersInv, HandedWereSubmitted, Scheduler!HandedWereSubmitted, Submitted
  <1> QED
    BY <1>1, InitPointers, NextPointers, PTL DEF SchedulingSpec
=============================================================================
