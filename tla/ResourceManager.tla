-------------------------- MODULE ResourceManager --------------------------
(***************************************************************************)
(* services/resource-manager.c: the table of devices that test instances   *)
(* own while they run.  Every public operation runs inside manager->lock,  *)
(* so each is one action here.                                             *)
(*                                                                         *)
(* The callers are those of services/test-engine.c: test_engine_init       *)
(* offers every device of the device manager, and only then starts the     *)
(* workers; a worker calls acquire for the instance it took from the       *)
(* queue, ignores the result, runs the test and calls release.  The model  *)
(* keeps that protocol in phase[i]: "holding" after an acquire that        *)
(* returned 0, "barred" after one that returned -1.                        *)
(***************************************************************************)
EXTENDS Naturals, FiniteSets

CONSTANTS
    Device,        \* device names known to the device manager
    Function,      \* functions in the function manager's table
    DevicesOf,     \* the devices a function lists
    Instance,      \* test instances (pointers used as owners)
    FunctionOf,    \* the function of an instance's test
    MaxResources,  \* RESOURCE_MANAGER_MAX_RESOURCES
    NULL

\* A function reaches the function manager's table only with at least one
\* device, each of them present in the device manager.
ASSUME FunctionAssumption ==
    /\ DevicesOf \in [Function -> (SUBSET Device) \ {{}}]
    /\ FunctionOf \in [Instance -> Function]

ASSUME LimitAssumption ==
    /\ IsFiniteSet(Device)
    /\ MaxResources \in Nat \ {0}
    /\ NULL \notin Instance

VARIABLES
    offered,     \* devices test_engine_init has offered so far
    registered,  \* names in manager->resources
    state,       \* resource_info_t.state
    owner,       \* resource_info_t.owner
    phase        \* where each instance is in the worker's protocol

vars == <<offered, registered, state, owner, phase>>

Needs(i) == DevicesOf[FunctionOf[i]]

TypeOK ==
    /\ offered \in SUBSET Device
    /\ registered \in SUBSET Device
    /\ state \in [Device -> {"FREE", "BUSY"}]
    /\ owner \in [Device -> Instance \union {NULL}]
    /\ phase \in [Instance -> {"idle", "holding", "barred"}]

\* Slip: registering leaves the state as malloc left it.
InitUnset ==
    /\ offered = {}
    /\ registered = {}
    /\ state \in [Device -> {"FREE", "BUSY", "UNSET"}]
    /\ owner = [d \in Device |-> NULL]
    /\ phase = [i \in Instance |-> "idle"]

Init ==
    /\ offered = {}
    /\ registered = {}
    /\ state = [d \in Device |-> "FREE"]
    /\ owner = [d \in Device |-> NULL]
    /\ phase = [i \in Instance |-> "idle"]

\* The workers exist once every device has been offered.
Started == offered = Device

\* resource_manager_register, from register_device_with_resource_manager:
\* a full table or a name already in it leaves the table as it is.
Register(d) ==
    /\ ~Started
    /\ offered' = offered \union {d}
    /\ registered' = IF Cardinality(registered) < MaxResources
                     THEN registered \union {d}
                     ELSE registered
    /\ UNCHANGED <<state, owner, phase>>

\* The scan shared by is_available and acquire: it runs once per entry of
\* the table, so an empty table objects to nothing.
Grantable(f) ==
    registered # {} =>
        \A d \in DevicesOf[f] : d \in registered /\ state[d] = "FREE"

\* resource_manager_acquire: under one lock, look at every device first and
\* mark them only if all can be taken.
Acquire(i) ==
    /\ Started
    /\ phase[i] = "idle"
    /\ IF Grantable(FunctionOf[i])
       THEN /\ state' = [d \in Device |->
                   IF d \in Needs(i) \intersect registered THEN "BUSY" ELSE state[d]]
            /\ owner' = [d \in Device |->
                   IF d \in Needs(i) \intersect registered THEN i ELSE owner[d]]
            /\ phase' = [phase EXCEPT ![i] = "holding"]
       ELSE /\ phase' = [phase EXCEPT ![i] = "barred"]
            /\ UNCHANGED <<state, owner>>
    /\ UNCHANGED <<offered, registered>>

\* Slip: release without its owner test.
ReturnedAnyOwner(i) == Needs(i) \intersect registered

\* Slip: release returns after the first device it frees.
ReturnedFirst(i) ==
    LET owned == {d \in Needs(i) \intersect registered : owner[d] = i}
    IN  IF owned = {} THEN {} ELSE {CHOOSE d \in owned : TRUE}

\* The devices a release by i gives back: those of its function that are in
\* the table with i as their owner.
Returned(i) == {d \in Needs(i) \intersect registered : owner[d] = i}

\* resource_manager_release: the worker calls it after every run, also after
\* one whose acquire failed.
Release(i) ==
    /\ phase[i] # "idle"
    /\ state' = [d \in Device |-> IF d \in Returned(i) THEN "FREE" ELSE state[d]]
    /\ owner' = [d \in Device |-> IF d \in Returned(i) THEN NULL ELSE owner[d]]
    /\ phase' = [phase EXCEPT ![i] = "idle"]
    /\ UNCHANGED <<offered, registered>>

Next ==
    \/ \E d \in Device : Register(d)
    \/ \E i \in Instance : Acquire(i) \/ Release(i)

\* Safety only: that every acquire is followed by a release is a matter of the
\* workers, and WorkerPool's.
Spec == Init /\ [][Next]_vars

----------------------------------------------------------------------------
(***************************************************************************)
(* Safety.                                                                 *)
(***************************************************************************)

\* An instance whose acquire succeeded owns all its devices until its own
\* release, whatever other instances, barred ones included, do meanwhile
\* (the owner test of release, resource-manager.c:287).
HolderOwnsAll ==
    \A i \in Instance : phase[i] = "holding" =>
        \A d \in Needs(i) : owner[d] = i /\ state[d] = "BUSY"

\* No device stays behind: it is busy exactly while some instance owns it, and
\* what an instance owns, it owns between a successful acquire and its release,
\* and its function lists it.
NothingLeaks ==
    \A d \in Device :
        /\ state[d] = "BUSY" <=> owner[d] # NULL
        /\ owner[d] # NULL =>
              phase[owner[d]] = "holding" /\ d \in Needs(owner[d])

\* Two instances granted at the same time share no device.
GrantsAreDisjoint ==
    \A i, j \in Instance :
        i # j /\ phase[i] = "holding" /\ phase[j] = "holding"
            => Needs(i) \intersect Needs(j) = {}

(***************************************************************************)
(* Action properties.                                                      *)
(***************************************************************************)

\* Ownership never passes from one instance to another in one step, and a
\* device is given back only by the step that ends its owner's run.
OnlyOwnerGivesBack ==
    [][\A d \in Device : owner[d] # NULL /\ owner'[d] # owner[d]
          => owner'[d] = NULL /\ phase'[owner[d]] = "idle"]_vars
============================================================================
