------------------------------ MODULE Registry ------------------------------
(***************************************************************************)
(* From the configuration files to the tests that can run: the parsers of  *)
(* config/ turn four JSON files into lists, services/dm.c,                 *)
(* function-manager.c and test-manager.c each join the lists with the      *)
(* table of the stage before, validation-system.c looks up the linked      *)
(* implementations, and main.c lists the tests or has them registered.     *)
(* Everything happens in main's thread; Startup says when.                 *)
(*                                                                         *)
(* Device, function and test names are unique in their files, as device.h, *)
(* function.h and test.h ask.  A device may be bound more than once.       *)
(***************************************************************************)
EXTENDS Lists

CONSTANTS
    Directory,      \* the contents of the configuration directories
    Unusable,       \* a file that cannot be read or is not JSON
    Missing,        \* a member that is absent or of the wrong type
    Unnamed,        \* the empty string
    Implemented,    \* names in validation_registry, generated at build time
    MaxTests,       \* VALIDATION_MAX_COUNT
    MaxDevices,     \* MAX_DEVICES, as a limit on the devices of a function
    HeapCount,      \* what malloc may leave in the count of a table
    NULL            \* what a name nobody wrote may hold, if not the empty string

VARIABLES
    files,        \* the directory main was given
    config,       \* config_manager's lists
    dm, fm, tm,   \* the managers' tables, as long as their count says
    validations,  \* names in system->validations
    listed,       \* what list_tests prints
    registered    \* names that reach test_engine_register

tables == <<dm, fm, tm, validations>>
outputs == <<listed, registered>>

----------------------------------------------------------------------------
(***************************************************************************)
(* The parsers.  A file holds the elements of its array, and none if it    *)
(* has no such array; an element without a member still counts.            *)
(***************************************************************************)

\* A member that is no string leaves the empty string of the zeroed list.
StringOf(member) == IF member = Missing THEN Unnamed ELSE member

\* A member that is no boolean leaves false.
BoolOf(member) == member = TRUE

\* device_parser_load
ParseDevices(file) == [k \in DOMAIN file |-> StringOf(file[k].name)]

\* The devices that fit in a function.
Fitting(list) == IF Len(list) > MaxDevices THEN SubSeq(list, 1, MaxDevices) ELSE list

\* Slip: every element of device_name counts, and none is looked at.
ParseFunctionsCountingAll(file) ==
    [k \in DOMAIN file |->
        [name    |-> StringOf(file[k].name),
         devices |-> Fitting([j \in DOMAIN file[k].devices |-> StringOf(file[k].devices[j])])]]

\* Of the elements of device_name, the strings.
Strings(list) == Selected(list, LAMBDA d : d # Missing)

\* function_parser_load: what does not fit is left out in silence.
ParseFunctions(file) ==
    [k \in DOMAIN file |->
        [name    |-> StringOf(file[k].name),
         devices |-> Fitting(Strings(file[k].devices))]]

\* test_parser_load
ParseTests(file) ==
    [k \in DOMAIN file |->
        [name |-> StringOf(file[k].name), function |-> StringOf(file[k].function)]]

\* platform_parser_load: a binding that does not say so is not enabled.
ParseBindings(file) ==
    [k \in DOMAIN file |->
        [device |-> StringOf(file[k].device), is_enabled |-> BoolOf(file[k].enable)]]

\* What config_manager_init zeroes.
Empty == [devices |-> <<>>, functions |-> <<>>, tests |-> <<>>, bindings |-> <<>>]

\* The first n of the four files, in the order they are read in.
Loaded(n) ==
    [devices   |-> IF n >= 1 THEN ParseDevices(files.device) ELSE <<>>,
     functions |-> IF n >= 2 THEN ParseFunctions(files.function) ELSE <<>>,
     tests     |-> IF n >= 3 THEN ParseTests(files.test) ELSE <<>>,
     bindings  |-> IF n >= 4 THEN ParseBindings(files.platform) ELSE <<>>]

UsableFiles(n) ==
    /\ n >= 1 => files.device # Unusable
    /\ n >= 2 => files.function # Unusable
    /\ n >= 3 => files.test # Unusable
    /\ n >= 4 => files.platform # Unusable

\* A usable file is a list; names are unique in theirs, as the headers ask; no
\* file names what nobody wrote, and an implementation has a name.
ASSUME RegistryAssumption ==
    /\ \A d \in Directory :
          /\ d.device # Unusable =>
                /\ IsSequence(d.device)
                /\ IsInjective(ParseDevices(d.device))
                /\ \A k \in DOMAIN d.device : d.device[k].name # NULL
          /\ d.function # Unusable =>
                /\ IsSequence(d.function)
                /\ IsInjective([k \in DOMAIN d.function |-> StringOf(d.function[k].name)])
                /\ \A k \in DOMAIN d.function :
                      /\ d.function[k].name # NULL
                      /\ IsSequence(d.function[k].devices)
                      /\ ~Contains(d.function[k].devices, NULL)
          /\ d.test # Unusable =>
                /\ IsSequence(d.test)
                /\ IsInjective([k \in DOMAIN d.test |-> StringOf(d.test[k].name)])
                /\ \A k \in DOMAIN d.test : NULL \notin {d.test[k].name, d.test[k].function}
                /\ Len(d.test) <= MaxTests
          /\ d.platform # Unusable => IsSequence(d.platform)
    /\ MaxTests \in Nat /\ MaxDevices \in Nat /\ HeapCount \subseteq Nat
    /\ NULL # Unnamed /\ Implemented \cap {NULL, Unnamed} = {}

TestName == {config.tests[k].name : k \in DOMAIN config.tests}

\* What memory may hold where a name was never written: zeroes, which read as
\* the empty name, or something else.
Leftover == {NULL, Unnamed}
LeftoverFunction == {[name |-> n, devices |-> <<>>] : n \in Leftover}
LeftoverTest == {[name |-> n, function |-> f] : n, f \in Leftover}

\* Nothing has been loaded.
RegistryInit ==
    /\ files \in Directory
    /\ config = Empty
    /\ dm = <<>> /\ fm = <<>> /\ tm = <<>>
    /\ validations = <<>>
    /\ listed = [runnable |-> <<>>, unimplemented |-> <<>>, unavailable |-> <<>>]
    /\ registered = <<>>

RegistryTypeOK ==
    /\ files \in Directory
    /\ \E n \in 0 .. 4 : UsableFiles(n) /\ config = Loaded(n)
    /\ dm \in Seq(ToSet(config.devices) \union Leftover)
    /\ fm \in Seq(ToSet(config.functions) \union LeftoverFunction)
    /\ tm \in Seq(ToSet(config.tests) \union LeftoverTest)
    /\ validations \in Seq(TestName)
    /\ \A filter \in {"runnable", "unimplemented", "unavailable"} :
          listed[filter] \in Seq(TestName)
    /\ registered \in Seq(TestName)

----------------------------------------------------------------------------
\* A table comes from malloc, and its count is written with each entry: with
\* none, count and entries are what memory held.
Table(entries, leftover) ==
    IF entries # <<>> THEN {entries} ELSE UNION {[1 .. n -> leftover] : n \in HeapCount}

----------------------------------------------------------------------------
(***************************************************************************)
(* The joins.                                                              *)
(***************************************************************************)

\* Slip: a binding needs no device definition.
BoundDevices(c) ==
    FlattenSeq([k \in DOMAIN c.bindings |->
        IF c.bindings[k].is_enabled THEN <<c.bindings[k].device>> ELSE <<>>])

\* prepare_device_info: for every enabled binding the device it names.
EnabledDevices(c) ==
    FlattenSeq([k \in DOMAIN c.bindings |->
        IF c.bindings[k].is_enabled
        THEN Selected(c.devices, LAMBDA d : d = c.bindings[k].device)
        ELSE <<>>])

\* A function is taken over when it lists a device and all of them are there.
AllDevices(f, devices) ==
    /\ f.devices # <<>>
    /\ \A k \in DOMAIN f.devices : Contains(devices, f.devices[k])

\* prepare_function_info
AvailableFunctions(c, devices) ==
    Selected(c.functions, LAMBDA f : AllDevices(f, devices))

\* prepare_test_manager_info: for every function the tests that name it.
TestsOf(c, functions) ==
    FlattenSeq([k \in DOMAIN functions |->
        Selected(c.tests, LAMBDA t : t.function = functions[k].name)])

\* validation_system_register_descriptor: a full table or a name already in
\* it refuses the descriptor.
AddDescriptor(names, t) ==
    IF Len(names) < MaxTests /\ ~Contains(names, t.name)
    THEN Append(names, t.name)
    ELSE names

\* validation_system_register_all_descriptors: a test whose name no generated
\* descriptor has is passed over.
Descriptors(tests) ==
    LET known == Selected(tests, LAMBDA t : t.name \in Implemented)
        names[n \in 0 .. Len(known)] ==
            IF n = 0 THEN <<>> ELSE AddDescriptor(names[n - 1], known[n])
    IN  names[Len(known)]

----------------------------------------------------------------------------
(***************************************************************************)
(* The lookups by name, each for the first entry that has the name.        *)
(***************************************************************************)

\* test_manager_test_is_available
IsAvailable(name) == \E k \in DOMAIN tm : tm[k].name = name

\* validation_system_is_implemented
IsImplemented(name) == Contains(validations, name)

\* test_manager_get_function_name and test_manager_get_test
FunctionOf(name) == tm[SelectInSeq(tm, LAMBDA t : t.name = name)].function

\* function_manager_is_available and function_manager_get_function
HasFunction(name) == \E k \in DOMAIN fm : fm[k].name = name

\* Slip: the descriptor is not asked for.
PassesChecksBlind(name) == IsAvailable(name) /\ HasFunction(FunctionOf(name))

\* validation_system_register up to the engine: every lookup must succeed.
PassesChecks(name) ==
    /\ IsAvailable(name)
    /\ HasFunction(FunctionOf(name))
    /\ IsImplemented(name)

\* The names in the order list_tests goes through them.
Names == [k \in DOMAIN config.tests |-> config.tests[k].name]

----------------------------------------------------------------------------
(***************************************************************************)
(* What each stage of runtime_manager_init, validation_system_init and     *)
(* main does to the tables when it goes well.                              *)
(***************************************************************************)

\* device_manager_init, which a platform without bindings fails.
LoadDevices ==
    /\ config.bindings # <<>>
    /\ dm' \in Table(EnabledDevices(config), Leftover)
    /\ UNCHANGED <<files, config, fm, tm, validations, outputs>>

LoadFunctions ==
    /\ fm' \in Table(AvailableFunctions(config, dm), LeftoverFunction)
    /\ UNCHANGED <<files, config, dm, tm, validations, outputs>>

LoadTests ==
    /\ tm' \in Table(TestsOf(config, fm), LeftoverTest)
    /\ UNCHANGED <<files, config, dm, fm, validations, outputs>>

LoadValidations ==
    /\ validations' = Descriptors(tm)
    /\ UNCHANGED <<files, config, dm, fm, tm, outputs>>

\* The tests of each heading of list_tests, from the configuration's tests.
Runnable == Selected(Names, LAMBDA n : IsAvailable(n) /\ IsImplemented(n))
Unimplemented == Selected(Names, LAMBDA n : IsAvailable(n) /\ ~IsImplemented(n))
Unavailable == Selected(Names, LAMBDA n : ~IsAvailable(n))

\* list_tests prints the headings its filter asks for.
ListTests(filter) ==
    /\ listed' =
          [runnable      |-> IF filter \in {"all", "runnable"} THEN Runnable ELSE <<>>,
           unimplemented |-> IF filter \in {"all", "unimplemented"} THEN Unimplemented ELSE <<>>,
           unavailable   |-> IF filter \in {"all", "unavailable"} THEN Unavailable ELSE <<>>]
    /\ UNCHANGED <<files, config, tables, registered>>

\* validation_system_register_all, from the test manager's table.
RegisterAll ==
    /\ registered' =
          Selected([k \in DOMAIN tm |-> tm[k].name], LAMBDA n : PassesChecks(n))
    /\ UNCHANGED <<files, config, tables, listed>>

\* validation_system_register of one test
RegisterOne(name) ==
    /\ registered' = IF PassesChecks(name) THEN <<name>> ELSE <<>>
    /\ UNCHANGED <<files, config, tables, listed>>
============================================================================
