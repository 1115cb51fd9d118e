--------------------------- MODULE TestScheduler ---------------------------
(***************************************************************************)
(* services/test-scheduler.c: the slots and the pending array that main    *)
(* (submit) and the workers (get_next_instance) share.  Nothing in the     *)
(* file takes a lock, so a step here is one access to the shared fields,   *)
(* in the order of the statements; the counters are read and written in    *)
(* two steps, as ++ and -- are.                                            *)
(*                                                                         *)
(* main submits while any number of workers ask for their next test, and   *)
(* the array and its count start with what malloc left in them.  What such *)
(* memory holds is the constant HeapCount for the count, and a null or a   *)
(* wild pointer for a slot.                                                *)
(*                                                                         *)
(* The state of the devices belongs to resource-manager.c: the answer of   *)
(* check_resource is an argument here, and module Scheduling gives it.     *)
(***************************************************************************)
EXTENDS Naturals, FiniteSets

CONSTANTS
    Submitter,         \* threads that call submit: main
    Asker,             \* threads that call get_next_instance: the workers
    Instance,          \* test instances, each submitted at most once
    MaxTestInstances,  \* MAX_TEST_INSTANCES
    MaxInstances,      \* max_instances: TEST_ENGINE_MAX_WORKERS
    WordSize,          \* number of values of a uint32_t
    HeapCount,         \* what malloc may leave in pending_count
    Wild,              \* a pointer that nobody has written
    NULL

VARIABLES
    pending_instances, pending_count, running_instances,
    answer,     \* what submit has answered for each instance
    handed,     \* the instances get_next_instance returned, with the worker
    crashed,    \* a caller has left the array or followed a wild pointer
    pc, index,  \* each caller's statement and loop index
    found,      \* the caller's pending_instance, or submit's argument
    seen        \* the counter a caller has read, or the inner loop's i

Caller == Submitter \union Asker

shared == <<pending_instances, pending_count, running_instances>>
history == <<answer, handed>>
local == <<pc, index, found, seen>>
vars == <<shared, history, crashed, local>>

Slots == 0 .. MaxTestInstances - 1
Word == 0 .. WordSize - 1
Pointer == Instance \union {NULL, Wild}

TypeOK ==
    /\ pending_instances \in [Slots -> Pointer]
    /\ pending_count \in Word
    /\ running_instances \in 0 .. MaxInstances
    /\ answer \in [Instance -> {"none", "calling", "ACCEPTED", "PENDING", "FAILED"}]
    /\ handed \subseteq Asker \X Instance
    /\ crashed \in BOOLEAN
    /\ pc \in [Caller -> {"idle", "store", "countUp", "writeUp", "scan", "check",
                          "remove", "shift", "clear", "countDown", "writeDown", "return"}]
    /\ index \in [Caller -> Word]
    /\ found \in [Caller -> Pointer]
    /\ seen \in [Caller -> Word]

\* test_scheduler_init writes neither the array nor its count.
Init ==
    /\ pending_instances \in [Slots -> {NULL, Wild}]
    /\ pending_count \in HeapCount
    /\ running_instances = 0
    /\ answer = [i \in Instance |-> "none"]
    /\ handed = {}
    /\ crashed = FALSE
    /\ pc = [c \in Caller |-> "idle"]
    /\ index = [c \in Caller |-> 0]
    /\ found = [c \in Caller |-> NULL]
    /\ seen = [c \in Caller |-> 0]

Plus1(n) == (n + 1) % WordSize
Minus1(n) == (n + WordSize - 1) % WordSize

At(c, label) == ~crashed /\ pc[c] = label
Goto(c, label) == pc' = [pc EXCEPT ![c] = label]

\* A store outside pending_instances: from here the program is undefined.
LeaveArray ==
    /\ crashed' = TRUE
    /\ UNCHANGED <<shared, local>>

----------------------------------------------------------------------------
(***************************************************************************)
(* test_scheduler_submit.                                                  *)
(***************************************************************************)

ArrayFull == pending_count >= MaxTestInstances

\* The first condition lets a test through to the resource check only when
\* no execution slot is left; then a full array fails the call.
Submit(c, i, available) ==
    /\ At(c, "idle")
    /\ answer[i] = "none"
    /\ IF running_instances >= MaxInstances /\ available
       THEN /\ answer' = [answer EXCEPT ![i] = "ACCEPTED"]
            /\ running_instances' = running_instances + 1
            /\ UNCHANGED <<pc, found>>
       ELSE IF ArrayFull
       THEN /\ answer' = [answer EXCEPT ![i] = "FAILED"]
            /\ UNCHANGED <<running_instances, pc, found>>
       ELSE /\ answer' = [answer EXCEPT ![i] = "calling"]
            /\ Goto(c, "store")
            /\ found' = [found EXCEPT ![c] = i]
            /\ UNCHANGED running_instances
    /\ UNCHANGED <<pending_instances, pending_count, handed, crashed, index, seen>>

SubmitStore(c) ==
    /\ At(c, "store")
    /\ IF pending_count \in Slots
       THEN /\ pending_instances' = [pending_instances EXCEPT ![pending_count] = found[c]]
            /\ Goto(c, "countUp")
            /\ UNCHANGED <<pending_count, running_instances, crashed, index, found, seen>>
       ELSE LeaveArray
    /\ UNCHANGED history

SubmitCount(c) ==
    /\ At(c, "countUp")
    /\ seen' = [seen EXCEPT ![c] = pending_count]
    /\ Goto(c, "writeUp")
    /\ UNCHANGED <<shared, history, crashed, index, found>>

SubmitReturn(c) ==
    /\ At(c, "writeUp")
    /\ pending_count' = Plus1(seen[c])
    /\ answer' = [answer EXCEPT ![found[c]] = "PENDING"]
    /\ Goto(c, "idle")
    /\ UNCHANGED <<pending_instances, running_instances, handed, crashed, index, found, seen>>

----------------------------------------------------------------------------
(***************************************************************************)
(* test_scheduler_get_next_instance.                                       *)
(***************************************************************************)

GetNext(c) ==
    /\ At(c, "idle")
    /\ running_instances < MaxInstances
    /\ index' = [index EXCEPT ![c] = 0]
    /\ Goto(c, "scan")
    /\ UNCHANGED <<shared, history, crashed, found, seen>>

\* The loop head and the read of the slot.
Scan(c) ==
    /\ At(c, "scan")
    /\ IF index[c] >= pending_count
       THEN Goto(c, "idle") /\ UNCHANGED <<found, crashed>>
       ELSE IF index[c] \in Slots
       THEN /\ found' = [found EXCEPT ![c] = pending_instances[index[c]]]
            /\ Goto(c, "check")
            /\ UNCHANGED crashed
       ELSE crashed' = TRUE /\ UNCHANGED <<pc, found>>
    /\ UNCHANGED <<shared, history, index, seen>>

\* Slip: a null instance is taken like any other.
CheckUntested(c, available) ==
    /\ At(c, "check")
    /\ found[c] # Wild
    /\ IF found[c] = NULL \/ available
       THEN Goto(c, "remove") /\ UNCHANGED index
       ELSE Goto(c, "scan") /\ index' = [index EXCEPT ![c] = @ + 1]
    /\ UNCHANGED <<shared, history, crashed, found, seen>>

\* test_scheduler_check_resource: it reads through the pointer, and is never 0
\* for a null one.
Check(c, available) ==
    /\ At(c, "check")
    /\ IF found[c] = Wild
       THEN crashed' = TRUE /\ UNCHANGED <<pc, index>>
       ELSE IF found[c] # NULL /\ available
       THEN Goto(c, "remove") /\ UNCHANGED <<crashed, index>>
       ELSE Goto(c, "scan") /\ index' = [index EXCEPT ![c] = @ + 1] /\ UNCHANGED crashed
    /\ UNCHANGED <<shared, history, found, seen>>

----------------------------------------------------------------------------
(***************************************************************************)
(* test_scheduler_remove_pending; get_next_instance ignores its answer.    *)
(***************************************************************************)

RemoveCheck(c) ==
    /\ At(c, "remove")
    /\ seen' = [seen EXCEPT ![c] = index[c]]
    /\ Goto(c, IF index[c] >= pending_count THEN "return" ELSE "shift")
    /\ UNCHANGED <<shared, history, crashed, index, found>>

\* pending_instances[i] = pending_instances[i + 1], for i below the count
\* less one; the subtraction wraps.
Shift(c) ==
    /\ At(c, "shift")
    /\ IF seen[c] >= Minus1(pending_count)
       THEN Goto(c, "clear") /\ UNCHANGED <<shared, crashed, index, found, seen>>
       ELSE IF seen[c] + 1 \in Slots
       THEN /\ pending_instances' =
                  [pending_instances EXCEPT ![seen[c]] = pending_instances[seen[c] + 1]]
            /\ seen' = [seen EXCEPT ![c] = @ + 1]
            /\ UNCHANGED <<pending_count, running_instances, crashed, pc, index, found>>
       ELSE LeaveArray
    /\ UNCHANGED history

Clear(c) ==
    /\ At(c, "clear")
    /\ IF Minus1(pending_count) \in Slots
       THEN /\ pending_instances' =
                  [pending_instances EXCEPT ![Minus1(pending_count)] = NULL]
            /\ Goto(c, "countDown")
            /\ UNCHANGED <<pending_count, running_instances, crashed, index, found, seen>>
       ELSE LeaveArray
    /\ UNCHANGED history

RemoveCount(c) ==
    /\ At(c, "countDown")
    /\ seen' = [seen EXCEPT ![c] = pending_count]
    /\ Goto(c, "writeDown")
    /\ UNCHANGED <<shared, history, crashed, index, found>>

RemoveReturn(c) ==
    /\ At(c, "writeDown")
    /\ pending_count' = Minus1(seen[c])
    /\ Goto(c, "return")
    /\ UNCHANGED <<pending_instances, running_instances, history, crashed, index, found, seen>>

GetNextReturn(c) ==
    /\ At(c, "return")
    /\ handed' = handed \union {<<c, found[c]>>}
    /\ Goto(c, "idle")
    /\ UNCHANGED <<shared, answer, crashed, index, found, seen>>

----------------------------------------------------------------------------
RemovePending(c) ==
    RemoveCheck(c) \/ Shift(c) \/ Clear(c) \/ RemoveCount(c) \/ RemoveReturn(c)

\* A call under way; available is the answer of check_resource, if it is asked.
Continue(c, available) ==
    \/ SubmitStore(c) \/ SubmitCount(c) \/ SubmitReturn(c)
    \/ Scan(c) \/ Check(c, available)
    \/ RemovePending(c) \/ GetNextReturn(c)

----------------------------------------------------------------------------
\* Whatever the threads do to the array between each other's statements, and
\* whatever its memory held: a worker is handed only what somebody submitted,
\* never a null or an unwritten slot (the tests of test_scheduler_check_resource).
HandedWereSubmitted == \A h \in handed : h[2] \in Instance /\ answer[h[2]] # "none"
============================================================================
