------------------------------- MODULE Startup -------------------------------
(***************************************************************************)
(* main.c and services/runtime.c: the objects main builds before it lists  *)
(* or runs tests, what is taken down again when a step fails, and what is  *)
(* taken down at the end.  The tables that the objects hold are Registry's.*)
(*                                                                         *)
(* Every allocation may fail.  An object is a manager, a pointer to it is  *)
(* set once and never reset; what the engine does with the tests it was    *)
(* given is TestEngine's subject.                                          *)
(***************************************************************************)
EXTENDS Registry

CONSTANT CommandLine    \* argument lists of the program, without its name

Object == {"logger", "runtime", "config", "device", "function", "test",
           "engine", "plugin", "validation"}

Invalid == [action |-> "invalid"]

VARIABLES
    mpc,        \* the object main builds next, or what it does otherwise
    arguments,
    built,      \* objects whose pointer is set
    freed,      \* how often an object was given to its deinit, or to free
    todo,       \* deinit calls still to be made, in order
    returned,   \* main has a runtime
    status      \* main's exit status

control == <<mpc, arguments, built, freed, todo, returned, status>>
vars == <<files, config, tables, outputs, control>>
data == <<files, config, tables, outputs>>

Success == 0
Failure == 1
UsageError == 2

----------------------------------------------------------------------------
(***************************************************************************)
(* cli_parse: the first form that matches decides, also to refuse.         *)
(***************************************************************************)

\* parse_list_filter
ListFilter(word) ==
    CASE word \in {"--runnable-test", "-r", "--runable-test"} -> "runnable"
      [] word \in {"--unimplemented-test", "-n"} -> "unimplemented"
      [] word \in {"--unsupported-list", "-u", "--unavailable-test"} -> "unavailable"
      [] OTHER -> "refused"

IsList(word) == word \in {"--list", "-l"}

ListOptions(rest) ==
    IF rest = <<>> THEN [action |-> "list", filter |-> "all"]
    ELSE IF ListFilter(rest[1]) = "refused" THEN Invalid
    ELSE [action |-> "list", filter |-> ListFilter(rest[1])]

Options(a) ==
    IF Len(a) \in 1 .. 2 /\ IsList(a[1]) THEN ListOptions(Tail(a))
    ELSE IF Len(a) \in 2 .. 3 /\ IsList(a[2]) THEN ListOptions(Tail(Tail(a)))
    ELSE IF Len(a) = 2 /\ a[2] \in {"--run-all", "-a"} THEN [action |-> "run-all"]
    ELSE IF Len(a) = 3 /\ a[2] \in {"--run", "-r"} THEN [action |-> "run", test |-> a[3]]
    ELSE Invalid

----------------------------------------------------------------------------
(***************************************************************************)
(* Building.                                                               *)
(***************************************************************************)

Init ==
    /\ RegistryInit
    /\ mpc = "logger"
    /\ arguments \in CommandLine
    /\ built = {}
    /\ freed = [o \in Object |-> 0]
    /\ todo = <<>>
    /\ returned = FALSE
    /\ status = Failure

\* The object is there and main goes on to the next.
Build(o, next) ==
    /\ mpc = o
    /\ built' = built \union {o}
    /\ mpc' = next
    /\ UNCHANGED <<arguments, freed, todo, returned, status>>

\* runtime_manager_init gives up and takes down what it lists.
GiveUp(at, objects) ==
    /\ mpc = at
    /\ todo' = objects
    /\ mpc' = "unwind"
    /\ UNCHANGED <<arguments, built, freed, returned, status, data>>

\* logger_init; without a logger main ends at once.
BuildLogger == Build("logger", "arguments") /\ UNCHANGED data

NoLogger ==
    /\ mpc = "logger"
    /\ mpc' = "exit"
    /\ UNCHANGED <<arguments, built, freed, todo, returned, status, data>>

ParseArguments ==
    /\ mpc = "arguments"
    /\ IF Options(arguments) = Invalid
       THEN status' = UsageError /\ mpc' = "cleanup"
       ELSE mpc' = "runtime" /\ UNCHANGED status
    /\ UNCHANGED <<arguments, built, freed, todo, returned, data>>

BuildRuntime == Build("runtime", "config") /\ UNCHANGED data

BuildConfig == Build("config", "load") /\ UNCHANGED data

\* config_manager_load stops at the first file that cannot be had.
LoadConfig ==
    /\ mpc = "load"
    /\ \E n \in 0 .. 4 :
          /\ UsableFiles(n)
          /\ config' = Loaded(n)
          /\ mpc' = IF n = 4 THEN "device" ELSE "unwind"
          /\ todo' = IF n = 4 THEN <<>> ELSE <<"config", "runtime">>
    /\ UNCHANGED <<arguments, built, freed, returned, status, files, tables, outputs>>

BuildDevices == Build("device", "function") /\ LoadDevices
BuildFunctions == Build("function", "test") /\ LoadFunctions
BuildTests == Build("test", "engine") /\ LoadTests
BuildEngine == Build("engine", "plugin") /\ UNCHANGED data

\* test_engine_init returned NULL; the test that follows is of test_manager,
\* which is there, so init goes on with a null engine.
NoEngine ==
    /\ mpc = "engine"
    /\ mpc' = "plugin"
    /\ UNCHANGED <<arguments, built, freed, todo, returned, status, data>>

\* plugin_manager_init; loading the plugins is still to be written.
BuildPlugins ==
    /\ mpc = "plugin"
    /\ built' = built \union {"plugin"}
    /\ returned' = TRUE
    /\ mpc' = "validation"
    /\ UNCHANGED <<arguments, freed, todo, status, data>>

BuildValidations == Build("validation", "act") /\ LoadValidations

NoValidations ==
    /\ mpc = "validation"
    /\ mpc' = "cleanup"
    /\ UNCHANGED <<arguments, built, freed, todo, returned, status, data>>

\* Slip: the unwinding after the function manager forgets the device manager.
InitFailsForgetting ==
    \/ GiveUp("runtime", <<>>)
    \/ GiveUp("config", <<"runtime">>)
    \/ GiveUp("device", <<"config", "runtime">>)
    \/ GiveUp("function", <<"config", "runtime">>)
    \/ GiveUp("test", <<"function", "device", "config", "runtime">>)
    \/ GiveUp("plugin", <<"engine", "test", "function", "device", "config", "runtime">>)

\* The failure branches of runtime_manager_init.
InitFails ==
    \/ GiveUp("runtime", <<>>)
    \/ GiveUp("config", <<"runtime">>)
    \/ GiveUp("device", <<"config", "runtime">>)
    \/ GiveUp("function", <<"device", "config", "runtime">>)
    \/ GiveUp("test", <<"function", "device", "config", "runtime">>)
    \/ GiveUp("plugin", <<"engine", "test", "function", "device", "config", "runtime">>)

----------------------------------------------------------------------------
(***************************************************************************)
(* What main was asked for.                                                *)
(***************************************************************************)

HasEngine == "engine" \in built

List ==
    /\ mpc = "act"
    /\ Options(arguments).action = "list"
    /\ ListTests(Options(arguments).filter)
    /\ status' = Success
    /\ mpc' = "cleanup"
    /\ UNCHANGED <<arguments, built, freed, todo, returned>>

\* Slip: run does not look whether the test was registered.
RunUnchecked ==
    /\ mpc = "act"
    /\ Options(arguments).action = "run"
    /\ LET name == Options(arguments).test
       IN  IF Contains(Runnable, name)
           THEN RegisterOne(name) /\ status' \in {Success, Failure}
           ELSE UNCHANGED <<data, status>>
    /\ mpc' = "cleanup"
    /\ UNCHANGED <<arguments, built, freed, todo, returned>>

\* find_configured_test and run_test: an unknown, an unavailable and an
\* unimplemented test fail, and so does any test without an engine.  With
\* one, the outcome is the test's, or the wait's.
Run ==
    /\ mpc = "act"
    /\ Options(arguments).action = "run"
    /\ LET name == Options(arguments).test
       IN  IF Contains(Runnable, name) /\ HasEngine
           THEN RegisterOne(name) /\ status' \in {Success, Failure}
           ELSE UNCHANGED <<data, status>>
    /\ mpc' = "cleanup"
    /\ UNCHANGED <<arguments, built, freed, todo, returned>>

\* run_all_tests: test_engine_execute_all refuses a null engine.  Tests that
\* are not runnable are skipped, and with nothing else nothing fails.
RunAll ==
    /\ mpc = "act"
    /\ Options(arguments).action = "run-all"
    /\ IF HasEngine
       THEN /\ RegisterAll
            /\ status' \in IF Runnable = <<>> THEN {Success} ELSE {Success, Failure}
       ELSE UNCHANGED <<data, status>>
    /\ mpc' = "cleanup"
    /\ UNCHANGED <<arguments, built, freed, todo, returned>>

----------------------------------------------------------------------------
(***************************************************************************)
(* Taking down.                                                            *)
(***************************************************************************)

\* One deinit call; a null pointer is refused and nothing happens.
Deinit ==
    /\ mpc \in {"unwind", "deinit"}
    /\ todo # <<>>
    /\ todo' = Tail(todo)
    /\ freed' = IF Head(todo) \in built THEN [freed EXCEPT ![Head(todo)] = @ + 1] ELSE freed
    /\ UNCHANGED <<mpc, arguments, built, returned, status, data>>

\* runtime_manager_init returns NULL.
Unwound ==
    /\ mpc = "unwind"
    /\ todo = <<>>
    /\ mpc' = "cleanup"
    /\ UNCHANGED <<arguments, built, freed, todo, returned, status, data>>

\* Slip: the runtime goes before the validation system that uses it.
CleanupRuntimeFirst ==
    /\ mpc = "cleanup"
    /\ todo' = (IF returned
                THEN <<"plugin", "engine", "test", "function", "device", "config", "runtime">>
                ELSE <<>>)
               \o <<"validation", "logger">>
    /\ mpc' = "deinit"
    /\ UNCHANGED <<arguments, built, freed, returned, status, data>>

\* main's cleanup label, with the calls of runtime_manager_deinit.
Cleanup ==
    /\ mpc = "cleanup"
    /\ todo' = <<"validation">>
               \o (IF returned
                   THEN <<"plugin", "engine", "test", "function", "device", "config", "runtime">>
                   ELSE <<>>)
               \o <<"logger">>
    /\ mpc' = "deinit"
    /\ UNCHANGED <<arguments, built, freed, returned, status, data>>

Exit ==
    /\ mpc = "deinit"
    /\ todo = <<>>
    /\ mpc' = "exit"
    /\ UNCHANGED <<arguments, built, freed, todo, returned, status, data>>

Next ==
    \/ BuildLogger \/ NoLogger \/ ParseArguments
    \/ BuildRuntime \/ BuildConfig \/ LoadConfig
    \/ BuildDevices \/ BuildFunctions \/ BuildTests
    \/ BuildEngine \/ NoEngine \/ BuildPlugins \/ InitFails
    \/ BuildValidations \/ NoValidations
    \/ List \/ Run \/ RunAll
    \/ Cleanup \/ Deinit \/ Unwound \/ Exit

Spec == Init /\ [][Next]_vars

----------------------------------------------------------------------------
(***************************************************************************)
(* Properties.                                                             *)
(***************************************************************************)

TypeOK ==
    /\ RegistryTypeOK
    /\ mpc \in Object \union
          {"arguments", "load", "act", "unwind", "cleanup", "deinit", "exit"}
    /\ arguments \in CommandLine
    /\ built \subseteq Object
    /\ freed \in [Object -> Nat]
    /\ todo \in Seq(Object)
    /\ returned \in BOOLEAN
    /\ status \in {Success, Failure, UsageError}

\* Whatever step of the start fails, and with or without an engine, main
\* gives each object it built to its deinit once: never twice, and by the
\* time it exits, all of them.
FreedExactlyOnce ==
    /\ \A o \in Object : freed[o] <= 1
    /\ mpc = "exit" => \A o \in built : freed[o] = 1

\* The managers an object keeps pointers to and follows later.  The engine was
\* given its own, and the tests its workers run reach the runtime through the
\* pointer of validation-runtime.c.  The other managers copy what they need
\* from each other at init.  Every object logs.
Keeps ==
    [o \in Object |->
        CASE o = "engine"     -> {"runtime", "device", "function", "test", "logger"}
          [] o = "validation" -> {"runtime", "test", "function", "logger"}
          [] o = "logger"     -> {}
          [] OTHER            -> {"logger"}]

\* What an object's code reaches: from the runtime an engine's test takes the
\* plugin manager as well.
Uses == [o \in Object |-> Keeps[o] \union IF o = "engine" THEN {"plugin"} ELSE {}]

\* No kept pointer dangles: wherever the start fails, and at every step of every
\* take-down, what an object was given outlives it.
PointersStayValid ==
    \A o \in Object : (o \in built /\ freed[o] = 0) =>
        \A u \in Keeps[o] : u \in built /\ freed[u] = 0

\* runtime.h: the managers are taken down in reverse dependency order, so that
\* nothing is gone while an object that reaches it is still there.  The plugin
\* manager goes before the engine has joined its workers.
UsersGoFirst ==
    \A o \in Object : (o \in built /\ freed[o] = 0) => \A u \in Uses[o] : freed[u] = 0

\* The exit status tells what happened: a usage error exactly for refused
\* arguments, and success only after a listing or after tests that an engine
\* was there to run, out of a configuration that was read completely.  A
\* null engine, which runtime_manager_init does not notice, is never taken for
\* a run.
StatusTellsTheTruth ==
    mpc = "exit" =>
        /\ status = UsageError <=> "logger" \in built /\ Options(arguments) = Invalid
        /\ status = Success =>
              /\ config = Loaded(4)
              /\ Object \ {"engine"} \subseteq built
              /\ Options(arguments).action \in {"run", "run-all"} => HasEngine

\* A test is supported if its function is configured, lists a device, and each
\* device of the function is defined and bound by a binding that enables it.
Enabled(d) ==
    /\ \E k \in DOMAIN files.device : StringOf(files.device[k].name) = d
    /\ \E k \in DOMAIN files.platform :
          StringOf(files.platform[k].device) = d /\ files.platform[k].enable = TRUE

Supported(t) ==
    \E k \in DOMAIN files.function :
        LET devices == {d \in ToSet(files.function[k].devices) : d # Missing}
        IN  /\ StringOf(files.function[k].name) = t.function
            /\ devices # {} /\ \A d \in devices : Enabled(d)

\* A test that the files describe in full: it, its function and the function's
\* devices have names, and the devices fit.
IsComplete(t) ==
    /\ Unnamed \notin {t.name, t.function}
    /\ \A k \in DOMAIN files.function :
          StringOf(files.function[k].name) = t.function =>
             LET devices == Strings(files.function[k].devices)
             IN  Len(devices) <= MaxDevices /\ ~Contains(devices, Unnamed)

\* The three joins lose and invent no test that is described in full, whatever
\* is left out elsewhere in the files, bound twice, or was never written.
CompleteTestsAreSupported ==
    mpc \in {"validation", "act"} =>
        \A t \in ToSet(config.tests) :
            IsComplete(t) => (IsAvailable(t.name) <=> Supported(t))

\* What --list calls runnable is what --run-all hands to the engine, though one
\* walks the configuration and the other the test manager's table, whose counts
\* may be unwritten and whose devices may be bound twice; and the worker's
\* lookup of the function succeeds for such a test.  Each test is handed over
\* once, unless it names no function: then every function that was never
\* written may have brought it in.
RunnableIsRegistered ==
    /\ Options(arguments).action = "run-all"
    /\ {"engine", "validation"} \subseteq built
    /\ mpc \in {"cleanup", "deinit", "exit"}
    =>
        /\ ToSet(registered) = ToSet(Runnable)
        /\ \A j, k \in DOMAIN registered :
              registered[j] = registered[k] /\ FunctionOf(registered[j]) # Unnamed => j = k
        /\ \A n \in ToSet(registered) : HasFunction(FunctionOf(n))
=============================================================================
