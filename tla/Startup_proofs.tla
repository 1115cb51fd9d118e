---------------------------- MODULE Startup_proofs ----------------------------
(***************************************************************************)
(* Proofs about Startup: what main builds it takes down once, no pointer  *)
(* that is kept dangles, and its exit status tells what happened, whatever *)
(* the directory holds and wherever the start fails.                       *)
(*                                                                         *)
(* That argument is about main's place, the objects that are there and the *)
(* deinit calls still to be made; of the tables it needs only that no step *)
(* after the load changes the configuration.  The second part is about the *)
(* tables: the joins lose and invent no test, and run-all registers what   *)
(* list calls runnable, for configuration files of any length.             *)
(***************************************************************************)
EXTENDS Startup, SequenceTheorems, WellFoundedInduction, TLAPS

\* main on its way up; elsewhere it takes down, or is done.
GoingUp == Object \union {"arguments", "load", "act"}

\* What main has built by the time it is at a place of its way up.
Base == {"logger"}
Core == Base \union {"runtime", "config"}
Managers == Core \union {"device", "function", "test"}
Ready == Managers \union {"plugin"}

\* The place of an object in a take-down.
Turn ==
    [o \in Object |->
        CASE o = "validation" -> 1 [] o = "plugin" -> 2 [] o = "engine" -> 3
          [] o = "test" -> 4 [] o = "function" -> 5 [] o = "device" -> 6
          [] o = "config" -> 7 [] o = "runtime" -> 8 [] OTHER -> 9]

IsDue(o) == \E k \in DOMAIN todo : todo[k] = o

ControlOK ==
    /\ mpc \in GoingUp \union {"unwind", "cleanup", "deinit", "exit"}
    /\ built \subseteq Object
    /\ freed \in [Object -> 0 .. 1]
    /\ todo \in Seq(Object)
    /\ returned \in BOOLEAN

\* Objects come in their order; only the engine may be left out.
BuiltInOrder ==
    /\ mpc = "logger" => built = {}
    /\ mpc \in {"arguments", "runtime"} => built = Base
    /\ mpc = "config" => built = Base \union {"runtime"}
    /\ mpc \in {"load", "device"} => built = Core
    /\ mpc = "function" => built = Core \union {"device"}
    /\ mpc = "test" => built = Core \union {"device", "function"}
    /\ mpc = "engine" => built = Managers
    /\ mpc = "plugin" => built \ {"engine"} = Managers
    /\ mpc = "validation" => built \ {"engine"} = Ready
    /\ mpc = "act" => built \ {"engine"} = Ready \union {"validation"}

\* A runtime that main was given is complete and lives until main cleans up.
RuntimeIsWhole ==
    /\ returned => Ready \subseteq built /\ config = Loaded(4)
    /\ returned /\ mpc \notin {"deinit", "exit"} => \A o \in Object : freed[o] = 0
    /\ ~returned => {"plugin", "validation"} \cap built = {}

\* Nothing is freed on the way up; further down what is there is still due,
\* in the order of its turn, and what was freed was there and is due no more.
DueInTurn ==
    /\ mpc \in GoingUp => todo = <<>> /\ \A o \in Object : freed[o] = 0
    /\ mpc = "cleanup" => todo = <<>>
    /\ mpc \in {"validation", "act"} => returned
    /\ mpc \in GoingUp \ {"validation", "act"} => ~returned
    /\ mpc = "unwind" => ~returned
    /\ \A i, j \in DOMAIN todo : i < j => Turn[todo[i]] < Turn[todo[j]]
    /\ \A o \in Object : freed[o] = 1 => o \in built /\ ~IsDue(o)
    /\ mpc = "unwind" => ~IsDue("logger")
    /\ mpc \in {"unwind", "cleanup"} => "logger" \in built /\ freed["logger"] = 0
    /\ \A o \in built : freed[o] = 0 =>
          /\ mpc = "unwind" => o = "logger" \/ IsDue(o)
          /\ mpc = "cleanup" => o = "logger" \/ returned
          /\ mpc = "deinit" => IsDue(o)
          /\ mpc # "exit"

\* Where main is on its way decides what its status may be.
StatusSoFar ==
    /\ mpc \in {"device", "function", "test", "engine", "plugin"} => config = Loaded(4)
    /\ mpc \in GoingUp \union {"unwind"} => status = Failure
    /\ mpc \in {"runtime", "config", "load", "device", "function", "test", "engine",
                "plugin", "validation", "act", "unwind"} => Options(arguments) # Invalid
    /\ mpc \notin {"logger", "arguments"} =>
          (status = UsageError <=> "logger" \in built /\ Options(arguments) = Invalid)
    /\ status = Success =>
          /\ config = Loaded(4)
          /\ Object \ {"engine"} \subseteq built
          /\ Options(arguments).action \in {"run", "run-all"} => HasEngine

\* The invariant the theorems below rest on.
StartupInv ==
    ControlOK /\ BuiltInOrder /\ RuntimeIsWhole /\ DueInTurn /\ PointersStayValid /\ StatusSoFar

----------------------------------------------------------------------------
(***************************************************************************)
(* Facts about the two tables Keeps and Turn.                               *)
(***************************************************************************)

\* Whose pointers an object keeps, case by case.
LEMMA KeepsOf ==
    /\ Keeps["engine"] = {"runtime", "device", "function", "test", "logger"}
    /\ Keeps["validation"] = {"runtime", "test", "function", "logger"}
    /\ Keeps["logger"] = {}
    /\ \A o \in Object \ {"engine", "validation", "logger"} : Keeps[o] = {"logger"}
  BY DEF Keeps, Object

\* A place in a take-down is taken by one object.
LEMMA TurnOf ==
    /\ Turn["validation"] = 1 /\ Turn["plugin"] = 2 /\ Turn["engine"] = 3
    /\ Turn["test"] = 4 /\ Turn["function"] = 5 /\ Turn["device"] = 6
    /\ Turn["config"] = 7 /\ Turn["runtime"] = 8 /\ Turn["logger"] = 9
    /\ \A o \in Object : Turn[o] \in 1 .. 9
  <1>1. /\ Turn["validation"] = 1 /\ Turn["plugin"] = 2 /\ Turn["engine"] = 3
        /\ Turn["test"] = 4 /\ Turn["function"] = 5 /\ Turn["device"] = 6
        /\ Turn["config"] = 7 /\ Turn["runtime"] = 8 /\ Turn["logger"] = 9
    BY DEF Turn, Object
  <1>2. QED
    BY <1>1 DEF Object

\* Whoever keeps a pointer to another has the earlier turn: the order main takes down in is
\* one of the orders the pointers allow.
LEMMA UsersHaveTheirTurnFirst ==
    \A o \in Object : \A u \in Keeps[o] : u \in Object /\ Turn[o] < Turn[u]
  <1> SUFFICES ASSUME NEW o \in Object, NEW u \in Keeps[o]
               PROVE  u \in Object /\ Turn[o] < Turn[u]
    OBVIOUS
  <1>1. CASE o = "engine"
    BY <1>1, KeepsOf, TurnOf DEF Object
  <1>2. CASE o = "validation"
    BY <1>2, KeepsOf, TurnOf DEF Object
  <1>3. CASE o = "logger"
    BY <1>3, KeepsOf
  <1>4. CASE o \notin {"engine", "validation", "logger"}
    <2>1. u = "logger"
      BY <1>4, KeepsOf
    <2>2. Turn[o] < 9
      BY <1>4, TurnOf DEF Object
    <2>3. QED
      BY <2>1, <2>2, TurnOf DEF Object
  <1>5. QED
    BY <1>1, <1>2, <1>3, <1>4

----------------------------------------------------------------------------
(***************************************************************************)
(* The steps of the way up.                                                *)
(***************************************************************************)

LEMMA InitInv == Init => StartupInv
  <1> SUFFICES ASSUME Init PROVE StartupInv
    OBVIOUS
  <1>1. ControlOK
    <2>1. freed \in [Object -> 0 .. 1]
      BY DEF Init
    <2>2. todo \in Seq(Object)
      BY DEF Init
    <2>3. QED
      BY <2>1, <2>2 DEF Init, ControlOK, GoingUp, Object
  <1>2. BuiltInOrder /\ PointersStayValid
    BY DEF Init, BuiltInOrder, PointersStayValid
  <1>3. RuntimeIsWhole
    BY DEF Init, RuntimeIsWhole
  <1>4. DueInTurn
    BY DEF Init, DueInTurn, GoingUp, Object
  <1>5. StatusSoFar
    BY DEF Init, StatusSoFar, GoingUp, Success, Failure, UsageError
  <1>6. QED
    BY <1>1, <1>2, <1>3, <1>4, <1>5 DEF StartupInv

\* The configuration is what was read of the files, and stays it.
LEMMA ConfigurationStays ==
    ASSUME UNCHANGED <<files, config>>
    PROVE  /\ config' = config
           /\ Loaded(4)' = Loaded(4)
  <1>1. config' = config
    OBVIOUS
  <1>2. Loaded(4)' = Loaded(4)
    BY DEF Loaded
  <1>3. QED
    BY <1>1, <1>2

\* What a step of the way up that adds at most the object o leaves true.
LEMMA UpInv ==
    ASSUME StartupInv, NEW o \in Object, NEW next \in GoingUp,
           mpc = o, mpc' = next,
           built' \in {built \union {o}, IF o = "engine" THEN built ELSE built \union {o}},
           \/ o = "logger" /\ next = "arguments"
           \/ o = "runtime" /\ next = "config"
           \/ o = "config" /\ next = "load"
           \/ o = "device" /\ next = "function"
           \/ o = "function" /\ next = "test"
           \/ o = "test" /\ next = "engine"
           \/ o = "engine" /\ next = "plugin"
           \/ o = "plugin" /\ next = "validation"
           \/ o = "validation" /\ next = "act",
           returned' = IF o = "plugin" THEN TRUE ELSE returned,
           UNCHANGED <<files, config, arguments, freed, todo, status>>
    PROVE  StartupInv'
  <1> USE DEF StartupInv
  <1>1. ControlOK'
    BY DEF ControlOK
  <1>2. BuiltInOrder'
    BY DEF BuiltInOrder, Base, Core, Managers, Ready, Object, ControlOK
  <1>3. config' = config /\ Loaded(4)' = Loaded(4)
    BY ConfigurationStays
  <1>4. todo = <<>> /\ \A x \in Object : freed[x] = 0
    BY DEF DueInTurn, GoingUp, Object
  <1>5. RuntimeIsWhole'
    <2>1. CASE o \in {"logger", "runtime", "config", "device", "function", "test", "engine"}
      BY <1>3, <1>4, <2>1 DEF RuntimeIsWhole, DueInTurn, GoingUp, Object
    <2>2. CASE o = "plugin"
      BY <1>3, <1>4, <2>2 DEF RuntimeIsWhole, StatusSoFar, BuiltInOrder, Ready, Managers, Core, Base
    <2>3. CASE o = "validation"
      BY <1>3, <1>4, <2>3 DEF RuntimeIsWhole, DueInTurn
    <2>4. QED
      BY <2>1, <2>2, <2>3 DEF Object
  <1>6. DueInTurn'
    <2>1. \A x \in Object : freed'[x] = 0
      BY <1>4
    <2>2. \A i, j \in DOMAIN todo' : i < j => Turn[todo'[i]] < Turn[todo'[j]]
      BY <1>4
    <2>3. /\ mpc' \in {"validation", "act"} => returned'
          /\ mpc' \in GoingUp \ {"validation", "act"} => ~returned'
      BY DEF DueInTurn, GoingUp, Object
    <2>4. mpc' \notin {"unwind", "cleanup", "deinit", "exit"}
      BY DEF GoingUp, Object
    <2>5. QED
      BY <1>1, <1>4, <2>1, <2>2, <2>3, <2>4 DEF DueInTurn, ControlOK
  <1>7. PointersStayValid'
    <2> SUFFICES ASSUME NEW x \in Object, x \in built', NEW u \in Keeps[x]
                 PROVE  u \in built' /\ freed'[u] = 0
      BY DEF PointersStayValid
    <2>1. freed'[u] = 0
      BY <1>4, UsersHaveTheirTurnFirst
    <2>2. CASE x \in built
      BY <1>4, <2>1, <2>2 DEF PointersStayValid
    <2>3. CASE x \notin built
      <3>1. x = o
        BY <2>3
      <3>2. CASE o = "engine"
        BY <2>1, <3>1, <3>2, KeepsOf DEF BuiltInOrder, Managers, Core, Base
      <3>3. CASE o = "validation"
        BY <2>1, <3>1, <3>3, KeepsOf DEF BuiltInOrder, Ready, Managers, Core, Base
      <3>4. CASE o = "logger"
        BY <3>1, <3>4, KeepsOf
      <3>5. CASE o \notin {"engine", "validation", "logger"}
        <4>1. u = "logger"
          BY <3>1, <3>5, KeepsOf
        <4>2. "logger" \in built
          BY <3>5 DEF BuiltInOrder, Object, Ready, Managers, Core, Base
        <4>3. QED
          BY <2>1, <4>1, <4>2
      <3>6. QED
        BY <3>2, <3>3, <3>4, <3>5
    <2>4. QED
      BY <2>2, <2>3
  <1>8. StatusSoFar'
    <2>1. status' = Failure /\ status = Failure
      BY DEF StatusSoFar, GoingUp
    <2>2. mpc' \in {"device", "function", "test", "engine", "plugin"} => config' = Loaded(4)'
      BY <1>3 DEF StatusSoFar
    <2>3. Options(arguments)' = Options(arguments)
      BY DEF Options
    <2>4. o # "logger" => Options(arguments) # Invalid
      BY DEF StatusSoFar, Object
    <2>5. QED
      BY <2>1, <2>2, <2>3, <2>4 DEF StatusSoFar, GoingUp, Success, Failure, UsageError, Invalid
  <1>9. QED
    BY <1>1, <1>2, <1>5, <1>6, <1>7, <1>8

\* A null engine is passed by: the same step without the object.
LEMMA BuildingInv ==
    ASSUME StartupInv,
           \/ BuildLogger \/ BuildRuntime \/ BuildConfig \/ BuildDevices \/ BuildFunctions
           \/ BuildTests \/ BuildEngine \/ NoEngine \/ BuildPlugins \/ BuildValidations
    PROVE  StartupInv'
  <1> USE DEF data
  <1>1. CASE BuildLogger
    BY <1>1, UpInv DEF BuildLogger, Build, GoingUp, Object
  <1>2. CASE BuildRuntime
    BY <1>2, UpInv DEF BuildRuntime, Build, GoingUp, Object
  <1>3. CASE BuildConfig
    BY <1>3, UpInv DEF BuildConfig, Build, GoingUp, Object
  <1>4. CASE BuildDevices
    BY <1>4, UpInv DEF BuildDevices, LoadDevices, Build, GoingUp, Object
  <1>5. CASE BuildFunctions
    BY <1>5, UpInv DEF BuildFunctions, LoadFunctions, Build, GoingUp, Object
  <1>6. CASE BuildTests
    BY <1>6, UpInv DEF BuildTests, LoadTests, Build, GoingUp, Object
  <1>7. CASE BuildEngine
    BY <1>7, UpInv DEF BuildEngine, Build, GoingUp, Object
  <1>8. CASE NoEngine
    BY <1>8, UpInv DEF NoEngine, GoingUp, Object
  <1>9. CASE BuildPlugins
    BY <1>9, UpInv DEF BuildPlugins, GoingUp, Object
  <1>10. CASE BuildValidations
    BY <1>10, UpInv DEF BuildValidations, LoadValidations, Build, GoingUp, Object
  <1>11. QED
    BY <1>1, <1>2, <1>3, <1>4, <1>5, <1>6, <1>7, <1>8, <1>9, <1>10

\* Without a logger main is done.
LEMMA NoLoggerInv == ASSUME StartupInv, NoLogger PROVE StartupInv'
  <1> USE DEF StartupInv, NoLogger, data
  <1>1. built = {} /\ built' = {} /\ todo = <<>> /\ ~returned /\ status = Failure
    BY DEF BuiltInOrder, DueInTurn, StatusSoFar, GoingUp, Object
  <1>2. ControlOK'
    BY DEF ControlOK
  <1>3. BuiltInOrder' /\ PointersStayValid'
    BY <1>1 DEF BuiltInOrder, PointersStayValid
  <1>4. RuntimeIsWhole'
    BY <1>1 DEF RuntimeIsWhole
  <1>5. DueInTurn'
    <2>1. \A o \in Object : freed'[o] = 0
      BY DEF DueInTurn, GoingUp, Object
    <2>2. QED
      BY <1>1, <1>2, <2>1 DEF DueInTurn, GoingUp, Object, ControlOK
  <1>6. StatusSoFar'
    BY <1>1 DEF StatusSoFar, Success, Failure, UsageError, GoingUp, Object
  <1>7. QED
    BY <1>2, <1>3, <1>4, <1>5, <1>6

\* What a step to the cleanup leaves true: from the arguments, from the failed
\* validation system, from what main was asked for, from an unwound init.
LEMMA ToCleanupInv ==
    ASSUME StartupInv, mpc \in {"arguments", "validation", "act", "unwind"},
           mpc = "unwind" => todo = <<>>,
           mpc' = "cleanup",
           UNCHANGED <<files, config, arguments, built, freed, todo, returned>>,
           status' \in {Success, Failure, UsageError},
           status' = UsageError <=> Options(arguments) = Invalid,
           status' = Success =>
              /\ mpc = "act"
              /\ Options(arguments).action \in {"run", "run-all"} => HasEngine
    PROVE  StartupInv'
  <1> USE DEF StartupInv
  <1>1. config' = config /\ Loaded(4)' = Loaded(4)
    BY ConfigurationStays
  <1>2. ControlOK'
    BY DEF ControlOK
  <1>3. BuiltInOrder' /\ PointersStayValid'
    BY DEF BuiltInOrder, PointersStayValid
  <1>4. RuntimeIsWhole'
    BY <1>1 DEF RuntimeIsWhole
  <1>5. "logger" \in built
    BY DEF BuiltInOrder, DueInTurn, Ready, Managers, Core, Base
  <1>6. todo = <<>> /\ freed["logger"] = 0
    BY DEF DueInTurn, GoingUp, Object
  <1>7. DueInTurn'
    <2>1. ASSUME NEW o \in built, freed[o] = 0 PROVE o = "logger" \/ returned
      <3>1. CASE mpc = "arguments"
        BY <2>1, <3>1 DEF BuiltInOrder, Base
      <3>2. CASE mpc \in {"validation", "act"}
        BY <3>2 DEF DueInTurn
      <3>3. CASE mpc = "unwind"
        BY <1>6, <2>1, <3>3 DEF DueInTurn, IsDue
      <3>4. QED
        BY <3>1, <3>2, <3>3
    <2>2. \A o \in Object : freed'[o] = 1 => o \in built' /\ ~IsDue(o)'
      BY DEF DueInTurn, IsDue
    <2>3. QED
      BY <1>5, <1>6, <2>1, <2>2 DEF DueInTurn, GoingUp, Object
  <1>8. StatusSoFar'
    <2>1. Options(arguments)' = Options(arguments)
      BY DEF Options
    <2>2. status' = Success => config' = Loaded(4)' /\ Object \ {"engine"} \subseteq built'
      <3>1. mpc = "act" => returned
        BY DEF DueInTurn
      <3>2. QED
        BY <1>1, <3>1 DEF RuntimeIsWhole, BuiltInOrder, Object, Ready, Managers, Core, Base
    <2>3. QED
      BY <1>5, <2>1, <2>2 DEF StatusSoFar, GoingUp, Object, HasEngine, Invalid
  <1>9. QED
    BY <1>2, <1>3, <1>4, <1>7, <1>8

\* main's own branches that end in its cleanup.
LEMMA MainEndsInv ==
    ASSUME StartupInv, NoValidations \/ List \/ Run \/ RunAll \/ Unwound
    PROVE  StartupInv'
  <1> USE DEF data, outputs, Success, Failure, UsageError
  <1>1. mpc \in {"validation", "act", "unwind"} =>
           status = Failure /\ Options(arguments) # Invalid
    BY DEF StartupInv, StatusSoFar, GoingUp, Object
  <1>2. CASE NoValidations
    BY <1>1, <1>2, ToCleanupInv DEF NoValidations
  <1>3. CASE List
    BY <1>1, <1>3, ToCleanupInv DEF List, ListTests
  <1>4. CASE Run
    <2>1. UNCHANGED <<files, config>>
      BY <1>4 DEF Run, RegisterOne
    <2>2. /\ status' \in {Success, Failure}
          /\ status' = Success => HasEngine
      BY <1>1, <1>4 DEF Run
    <2>3. QED
      BY <1>1, <1>4, <2>1, <2>2, ToCleanupInv DEF Run
  <1>5. CASE RunAll
    <2>1. UNCHANGED <<files, config>>
      BY <1>5 DEF RunAll, RegisterAll
    <2>2. /\ status' \in {Success, Failure}
          /\ status' = Success => HasEngine
      BY <1>1, <1>5 DEF RunAll
    <2>3. QED
      BY <1>1, <1>5, <2>1, <2>2, ToCleanupInv DEF RunAll
  <1>6. CASE Unwound
    BY <1>1, <1>6, ToCleanupInv DEF Unwound
  <1>7. QED
    BY <1>2, <1>3, <1>4, <1>5, <1>6

\* Refused arguments go to the cleanup with the one status that says so.
LEMMA ParseArgumentsInv == ASSUME StartupInv, ParseArguments PROVE StartupInv'
  <1> USE DEF data
  <1>1. CASE Options(arguments) = Invalid
    BY <1>1, ToCleanupInv DEF ParseArguments, Success, Failure, UsageError
  <1>2. CASE Options(arguments) # Invalid
    <2> USE <1>2 DEF StartupInv, ParseArguments
    <2>1. mpc = "arguments" /\ mpc' = "runtime"
      OBVIOUS
    <2>2. config' = config /\ Loaded(4)' = Loaded(4)
      BY ConfigurationStays
    <2>3. todo = <<>> /\ ~returned /\ \A o \in Object : freed[o] = 0
      BY DEF DueInTurn, GoingUp, Object
    <2>4. ControlOK'
      BY DEF ControlOK, GoingUp, Object
    <2>5. BuiltInOrder' /\ PointersStayValid'
      BY DEF BuiltInOrder, PointersStayValid
    <2>6. RuntimeIsWhole'
      BY <2>2, <2>3 DEF RuntimeIsWhole
    <2>7. DueInTurn'
      BY <2>1, <2>3, <2>4 DEF DueInTurn, ControlOK
    <2>8. StatusSoFar'
      <3>1. Options(arguments)' = Options(arguments)
        BY DEF Options
      <3>2. status' = Failure
        BY DEF StatusSoFar, GoingUp
      <3>3. QED
        BY <2>1, <3>1, <3>2 DEF StatusSoFar, Success, Failure, UsageError, Invalid
    <2>9. QED
      BY <2>4, <2>5, <2>6, <2>7, <2>8
  <1>3. QED
    BY <1>1, <1>2

----------------------------------------------------------------------------
(***************************************************************************)
(* The way down.                                                           *)
(***************************************************************************)

\* A list of deinit calls for the objects whose turns are m to n.
TakesDown(s, m, n) ==
    /\ s \in Seq(Object)
    /\ Len(s) = n + 1 - m
    /\ \A k \in 1 .. Len(s) : Turn[s[k]] = (k + m) - 1

\* No two objects have the same turn.
LEMMA TurnTells ==
    \A x, y \in Object : Turn[x] = Turn[y] => x = y
  BY TurnOf DEF Object

\* Such a list calls each of these objects, no other one, and in turn.
LEMMA TakesDownInTurn ==
    ASSUME NEW s, NEW m \in 1 .. 9, NEW n \in 8 .. 9, TakesDown(s, m, n)
    PROVE  /\ \A i, j \in DOMAIN s : i < j => Turn[s[i]] < Turn[s[j]]
           /\ \A o \in Object : (\E k \in DOMAIN s : s[k] = o) <=> Turn[o] \in m .. n
  <1> USE DEF TakesDown
  <1>1. DOMAIN s = 1 .. Len(s) /\ \A k \in DOMAIN s : s[k] \in Object
    OBVIOUS
  <1>2. \A i, j \in DOMAIN s : i < j => Turn[s[i]] < Turn[s[j]]
    BY <1>1
  <1>3. ASSUME NEW o \in Object, NEW k \in DOMAIN s, s[k] = o PROVE Turn[o] \in m .. n
    BY <1>1, <1>3
  <1>4. ASSUME NEW o \in Object, Turn[o] \in m .. n PROVE \E k \in DOMAIN s : s[k] = o
    <2> DEFINE k == (Turn[o] + 1) - m
    <2>1. k \in DOMAIN s
      BY <1>1, <1>4
    <2>2. Turn[s[k]] = Turn[o]
      BY <1>1, <1>4, <2>1
    <2>3. s[k] = o
      BY <1>1, <2>1, <2>2, TurnTells
    <2>4. QED
      BY <2>1, <2>3
  <1>5. QED
    BY <1>2, <1>3, <1>4

\* What giving up leaves true, when the list covers what is there.
LEMMA UnwindInv ==
    ASSUME StartupInv, NEW objects, NEW m \in 1 .. 9,
           mpc \in {"runtime", "config", "load", "device", "function", "test", "plugin"},
           TakesDown(objects, m, 8),
           \A o \in built : Turn[o] >= m,
           mpc' = "unwind", todo' = objects,
           UNCHANGED <<arguments, built, freed, returned, status>>
    PROVE  StartupInv'
  <1> USE DEF StartupInv
  <1>1. ControlOK'
    BY DEF ControlOK, TakesDown
  <1>2. BuiltInOrder' /\ PointersStayValid'
    BY DEF BuiltInOrder, PointersStayValid
  <1>3. ~returned /\ \A o \in Object : freed[o] = 0
    BY DEF DueInTurn, GoingUp, Object
  <1>4. RuntimeIsWhole'
    BY <1>3 DEF RuntimeIsWhole
  <1>5. DueInTurn'
    <2>1. \A i, j \in DOMAIN todo' : i < j => Turn[todo'[i]] < Turn[todo'[j]]
      BY TakesDownInTurn
    <2>2. \A o \in Object : IsDue(o)' <=> Turn[o] \in m .. 8
      BY TakesDownInTurn DEF IsDue
    <2>3. ~IsDue("logger")'
      BY <2>2, TurnOf DEF Object
    <2>4. "logger" \in built
      BY DEF BuiltInOrder, Managers, Core, Base
    <2>5. ASSUME NEW o \in built, o # "logger" PROVE IsDue(o)'
      <3>1. o \in Object /\ Turn[o] # 9
        BY <2>5, TurnOf, TurnTells DEF ControlOK, Object
      <3>2. Turn[o] \in m .. 8
        BY <3>1, TurnOf
      <3>3. QED
        BY <2>2, <3>1, <3>2
    <2>6. \A o \in Object : freed'[o] = 0
      BY <1>3
    <2>7. QED
      BY <1>3, <2>1, <2>3, <2>4, <2>5, <2>6 DEF DueInTurn, GoingUp, Object
  <1>6. StatusSoFar'
    <2>1. Options(arguments)' = Options(arguments)
      BY DEF Options
    <2>2. status' = Failure /\ Options(arguments) # Invalid
      BY DEF StatusSoFar, GoingUp, Object
    <2>3. QED
      BY <2>1, <2>2 DEF StatusSoFar, Success, Failure, UsageError, GoingUp, Object, Invalid
  <1>7. QED
    BY <1>1, <1>2, <1>4, <1>5, <1>6

\* The six branches in which an object of the runtime is not had.
LEMMA InitFailsInv == ASSUME StartupInv, InitFails PROVE StartupInv'
  <1> USE DEF GiveUp
  <1>1. BuiltInOrder
    BY DEF StartupInv
  <1>2. CASE GiveUp("runtime", <<>>)
    <2>1. TakesDown(<<>>, 9, 8)
      BY DEF TakesDown
    <2>2. \A o \in built : Turn[o] >= 9
      BY <1>1, <1>2, TurnOf DEF BuiltInOrder, Base
    <2>3. QED
      BY <1>2, <2>1, <2>2, UnwindInv
  <1>3. CASE GiveUp("config", <<"runtime">>)
    <2>1. TakesDown(<<"runtime">>, 8, 8)
      BY TurnOf DEF TakesDown, Object
    <2>2. \A o \in built : Turn[o] >= 8
      BY <1>1, <1>3, TurnOf DEF BuiltInOrder, Base
    <2>3. QED
      BY <1>3, <2>1, <2>2, UnwindInv
  <1>4. CASE GiveUp("device", <<"config", "runtime">>)
    <2>1. TakesDown(<<"config", "runtime">>, 7, 8)
      BY TurnOf DEF TakesDown, Object
    <2>2. \A o \in built : Turn[o] >= 7
      BY <1>1, <1>4, TurnOf DEF BuiltInOrder, Core, Base
    <2>3. QED
      BY <1>4, <2>1, <2>2, UnwindInv
  <1>5. CASE GiveUp("function", <<"device", "config", "runtime">>)
    <2>1. TakesDown(<<"device", "config", "runtime">>, 6, 8)
      BY TurnOf DEF TakesDown, Object
    <2>2. \A o \in built : Turn[o] >= 6
      BY <1>1, <1>5, TurnOf DEF BuiltInOrder, Core, Base
    <2>3. QED
      BY <1>5, <2>1, <2>2, UnwindInv
  <1>6. CASE GiveUp("test", <<"function", "device", "config", "runtime">>)
    <2>1. TakesDown(<<"function", "device", "config", "runtime">>, 5, 8)
      BY TurnOf DEF TakesDown, Object
    <2>2. \A o \in built : Turn[o] >= 5
      BY <1>1, <1>6, TurnOf DEF BuiltInOrder, Core, Base
    <2>3. QED
      BY <1>6, <2>1, <2>2, UnwindInv
  <1>7. CASE GiveUp("plugin",
                    <<"engine", "test", "function", "device", "config", "runtime">>)
    <2>1. TakesDown(<<"engine", "test", "function", "device", "config", "runtime">>, 3, 8)
      BY TurnOf DEF TakesDown, Object
    <2>2. \A o \in built : Turn[o] >= 3
      <3>1. mpc = "plugin"
        BY <1>7
      <3>2. built \subseteq Managers \union {"engine"}
        BY <1>1, <3>1 DEF BuiltInOrder
      <3>3. QED
        BY <3>2, TurnOf DEF Managers, Core, Base
    <2>3. QED
      BY <1>7, <2>1, <2>2, UnwindInv
  <1>8. QED
    BY <1>2, <1>3, <1>4, <1>5, <1>6, <1>7 DEF InitFails

\* The load goes on with the whole configuration, or gives up with a part.
LEMMA LoadConfigInv == ASSUME StartupInv, LoadConfig PROVE StartupInv'
  <1> USE DEF LoadConfig
  <1>1. PICK n \in 0 .. 4 : /\ config' = Loaded(n)
                            /\ mpc' = IF n = 4 THEN "device" ELSE "unwind"
                            /\ todo' = IF n = 4 THEN <<>> ELSE <<"config", "runtime">>
    OBVIOUS
  <1>2. mpc = "load" /\ built = Core
    BY DEF StartupInv, BuiltInOrder
  <1>3. CASE n # 4
    <2>1. TakesDown(<<"config", "runtime">>, 7, 8)
      BY TurnOf DEF TakesDown, Object
    <2>2. \A o \in built : Turn[o] >= 7
      BY <1>2, TurnOf DEF Core, Base
    <2>3. QED
      BY <1>1, <1>2, <1>3, <2>1, <2>2, UnwindInv
  <1>4. CASE n = 4
    <2> USE DEF StartupInv
    <2>1. mpc' = "device" /\ todo' = <<>> /\ config' = Loaded(4)
      BY <1>1, <1>4
    <2>2. Loaded(4)' = Loaded(4)
      BY DEF Loaded
    <2>3. ~returned /\ \A o \in Object : freed[o] = 0
      BY <1>2 DEF DueInTurn, GoingUp, Object
    <2>4. ControlOK'
      BY <2>1 DEF ControlOK, GoingUp, Object
    <2>5. BuiltInOrder' /\ PointersStayValid'
      BY <1>2, <2>1 DEF BuiltInOrder, PointersStayValid
    <2>6. RuntimeIsWhole'
      BY <2>3 DEF RuntimeIsWhole
    <2>7. DueInTurn'
      BY <2>1, <2>3, <2>4 DEF DueInTurn, ControlOK
    <2>8. StatusSoFar'
      <3>1. Options(arguments)' = Options(arguments)
        BY DEF Options
      <3>2. status' = Failure /\ Options(arguments) # Invalid
        BY <1>2 DEF StatusSoFar, GoingUp
      <3>3. QED
        BY <2>1, <2>2, <3>1, <3>2
        DEF StatusSoFar, Success, Failure, UsageError, Invalid
    <2>9. QED
      BY <2>4, <2>5, <2>6, <2>7, <2>8
  <1>5. QED
    BY <1>3, <1>4

\* A list of calls and the list that takes up its turns make one list.
LEMMA TakesDownGoesOn ==
    ASSUME NEW s, NEW t, NEW l \in Nat, NEW m \in Nat, NEW n \in Nat, l <= m, m <= n,
           TakesDown(s, l, m), TakesDown(t, m + 1, n)
    PROVE  TakesDown(s \o t, l, n)
  <1>1. /\ s \in Seq(Object) /\ Len(s) = m + 1 - l
        /\ \A k \in 1 .. Len(s) : Turn[s[k]] = (k + l) - 1
    BY DEF TakesDown
  <1>2. /\ t \in Seq(Object) /\ Len(t) = n - m
        /\ \A k \in 1 .. Len(t) : Turn[t[k]] = k + m
    BY DEF TakesDown
  <1> DEFINE u == s \o t
  <1>3. /\ u \in Seq(Object) /\ Len(u) = Len(s) + Len(t)
        /\ \A k \in 1 .. Len(s) + Len(t) : u[k] = IF k <= Len(s) THEN s[k] ELSE t[k - Len(s)]
    BY <1>1, <1>2, ConcatProperties
  <1> HIDE DEF u
  <1>4. Len(u) = n + 1 - l
    BY <1>1, <1>2, <1>3
  <1>5. ASSUME NEW k \in 1 .. Len(u) PROVE Turn[u[k]] = (k + l) - 1
    <2>1. CASE k <= Len(s)
      BY <1>1, <1>2, <1>3, <2>1
    <2>2. CASE k > Len(s)
      <3>1. k - Len(s) \in 1 .. Len(t) /\ u[k] = t[k - Len(s)]
        BY <1>1, <1>2, <1>3, <2>2
      <3>2. Turn[t[k - Len(s)]] = (k - Len(s)) + m
        BY <1>2, <3>1
      <3>3. QED
        BY <1>1, <3>1, <3>2
    <2>3. QED
      BY <1>1, <2>1, <2>2
  <1>6. QED
    BY <1>3, <1>4, <1>5 DEF TakesDown, u

\* The calls of main's cleanup, with those of runtime_manager_deinit.
WholeTakeDown ==
    <<"validation">>
        \o <<"plugin", "engine", "test", "function", "device", "config", "runtime">>
        \o <<"logger">>

\* They are for all objects.
LEMMA WholeTakesDown == TakesDown(WholeTakeDown, 1, 9)
  <1> DEFINE first == <<"validation">>
             middle == <<"plugin", "engine", "test", "function", "device", "config", "runtime">>
             last == <<"logger">>
  <1>1. TakesDown(first, 1, 1)
    BY TurnOf DEF TakesDown, Object
  <1>2. TakesDown(middle, 2, 8)
    BY TurnOf DEF TakesDown, Object
  <1>3. TakesDown(last, 9, 9)
    BY TurnOf DEF TakesDown, Object
  <1>4. WholeTakeDown = (first \o middle) \o last
    BY DEF WholeTakeDown
  <1> HIDE DEF first, middle, last
  <1>5. TakesDown(first \o middle, 1, 8)
    BY <1>1, <1>2, TakesDownGoesOn
  <1>6. TakesDown((first \o middle) \o last, 1, 9)
    BY <1>3, <1>5, TakesDownGoesOn
  <1>7. QED
    BY <1>4, <1>6

\* Without a runtime only the two that main itself has.
LEMMA ShortTakeDown ==
    <<"validation">> \o <<>> \o <<"logger">> = <<"validation", "logger">>
  <1> DEFINE one == <<"validation">>
             two == <<"logger">>
             both == <<"validation", "logger">>
  <1>1. one \in Seq(Object) /\ Len(one) = 1 /\ one[1] = "validation"
    BY DEF Object
  <1>2. two \in Seq(Object) /\ Len(two) = 1 /\ two[1] = "logger"
    BY DEF Object
  <1>3. both \in Seq(Object) /\ Len(both) = 2 /\ both[1] = "validation" /\ both[2] = "logger"
    BY DEF Object
  <1> HIDE DEF one, two, both
  <1>4. one \o <<>> = one
    BY <1>1, ConcatEmptySeq
  <1>5. one \o two \in Seq(Object) /\ Len(one \o two) = 2
    BY <1>1, <1>2, ConcatProperties
  <1> DEFINE joined == one \o two
  <1>6. \A k \in 1 .. 2 : joined[k] = IF k <= 1 THEN one[k] ELSE two[k - 1]
    BY <1>1, <1>2, ConcatProperties
  <1> HIDE DEF joined
  <1>7. \A k \in 1 .. 2 : joined[k] = both[k]
    <2> SUFFICES ASSUME NEW k \in 1 .. 2 PROVE joined[k] = both[k]
      OBVIOUS
    <2>1. CASE k = 1
      BY <1>1, <1>3, <1>6, <2>1
    <2>2. CASE k = 2
      BY <1>2, <1>3, <1>6, <2>2
    <2>3. QED
      BY <2>1, <2>2
  <1>8. one \o two = both
    BY <1>3, <1>5, <1>7, SeqEqual DEF joined
  <1>9. QED
    BY <1>4, <1>8 DEF one, two, both

\* main's cleanup calls everything it may have, or without a runtime only
\* its own two.
LEMMA CleanupInv == ASSUME StartupInv, Cleanup PROVE StartupInv'
  <1> USE DEF StartupInv
  <1>0. /\ mpc = "cleanup" /\ mpc' = "deinit"
        /\ UNCHANGED <<arguments, built, freed, returned, status>>
    BY DEF Cleanup
  <1>1. config' = config /\ Loaded(4)' = Loaded(4)
    BY ConfigurationStays DEF Cleanup, data
  <1>2. returned => todo' = WholeTakeDown
    BY DEF Cleanup, WholeTakeDown
  <1>3. ~returned => todo' = <<"validation", "logger">>
    BY ShortTakeDown DEF Cleanup
  <1>4. TakesDown(WholeTakeDown, 1, 9)
    BY WholeTakesDown
  <1> USE <1>0
  <1>5. ControlOK'
    <2>1. CASE returned
      BY <1>2, <1>4, <2>1 DEF ControlOK, TakesDown
    <2>2. CASE ~returned
      <3>1. <<"validation", "logger">> \in Seq(Object)
        BY DEF Object
      <3>2. QED
        BY <1>3, <2>2, <3>1 DEF ControlOK
    <2>3. QED
      BY <2>1, <2>2
  <1>6. BuiltInOrder' /\ PointersStayValid'
    BY DEF BuiltInOrder, PointersStayValid
  <1>7. RuntimeIsWhole'
    BY <1>1 DEF RuntimeIsWhole
  <1>8. DueInTurn'
    <2>1. CASE returned
      <3>1. \A i, j \in DOMAIN todo' : i < j => Turn[todo'[i]] < Turn[todo'[j]]
        BY <1>2, <1>4, <2>1, TakesDownInTurn
      <3>2. \A o \in Object : IsDue(o)'
        BY <1>2, <1>4, <2>1, TakesDownInTurn, TurnOf DEF IsDue
      <3>3. \A o \in Object : freed'[o] = 0
        BY <2>1 DEF RuntimeIsWhole
      <3>4. built' \subseteq Object
        BY DEF ControlOK
      <3>5. QED
        BY <3>1, <3>2, <3>3, <3>4 DEF DueInTurn, GoingUp, Object
    <2>2. CASE ~returned
      <3>1. todo' = <<"validation", "logger">>
        BY <1>3, <2>2
      <3>2. DOMAIN todo' = {1, 2} /\ todo'[1] = "validation" /\ todo'[2] = "logger"
        BY <3>1
      <3>3. \A i, j \in DOMAIN todo' : i < j => Turn[todo'[i]] < Turn[todo'[j]]
        BY <3>2, TurnOf
      <3>4. \A o \in Object : IsDue(o)' <=> o \in {"validation", "logger"}
        BY <3>2 DEF IsDue
      <3>5. freed["logger"] = 0 /\ "validation" \notin built
        BY <2>2 DEF DueInTurn, RuntimeIsWhole
      <3>6. \A o \in Object : freed'[o] = 1 => o \in built' /\ ~IsDue(o)'
        BY <3>4, <3>5 DEF DueInTurn
      <3>7. \A o \in built' : freed'[o] = 0 => IsDue(o)'
        BY <2>2, <3>4 DEF DueInTurn, ControlOK
      <3>8. QED
        BY <3>3, <3>6, <3>7 DEF DueInTurn, GoingUp, Object
    <2>3. QED
      BY <2>1, <2>2
  <1>9. StatusSoFar'
    <2>1. Options(arguments)' = Options(arguments)
      BY DEF Options
    <2>2. QED
      BY <1>1, <2>1 DEF StatusSoFar, GoingUp, Object, HasEngine, Invalid
  <1>10. QED
    BY <1>5, <1>6, <1>7, <1>8, <1>9

\* One deinit call: no user of the object is left, and it is not called again.
LEMMA DeinitInv == ASSUME StartupInv, Deinit PROVE StartupInv'
  <1> USE DEF StartupInv, Deinit, data
  <1>1. config' = config /\ Loaded(4)' = Loaded(4)
    BY ConfigurationStays
  <1> DEFINE h == Head(todo)
  <1>2. /\ todo \in Seq(Object) /\ todo # <<>>
        /\ h = todo[1] /\ h \in Object /\ 1 \in DOMAIN todo
    BY DEF ControlOK
  <1>3. /\ todo' = Tail(todo) /\ todo' \in Seq(Object)
        /\ DOMAIN todo' = 1 .. Len(todo) - 1
        /\ \A k \in DOMAIN todo' : k + 1 \in DOMAIN todo /\ todo'[k] = todo[k + 1]
    BY <1>2
  <1>4. IsDue(h)
    BY <1>2 DEF IsDue
  <1>5. freed[h] = 0
    BY <1>2, <1>4 DEF DueInTurn, ControlOK
  <1>6. \A x \in Object : freed'[x] = IF x = h /\ h \in built THEN 1 ELSE freed[x]
    BY <1>2, <1>5 DEF ControlOK
  <1>7. ControlOK'
    <2>1. freed' \in [Object -> 0 .. 1]
      BY <1>2, <1>5 DEF ControlOK
    <2>2. QED
      BY <1>3, <2>1 DEF ControlOK
  <1>8. \A i, j \in DOMAIN todo : i < j => Turn[todo[i]] < Turn[todo[j]]
    BY DEF DueInTurn
  <1>9. \A x \in Object : IsDue(x)' <=> IsDue(x) /\ x # h
    <2>1. ASSUME NEW x \in Object, IsDue(x)' PROVE IsDue(x) /\ x # h
      <3>1. PICK k \in DOMAIN todo' : todo'[k] = x
        BY <2>1 DEF IsDue
      <3>2. k + 1 \in DOMAIN todo /\ todo[k + 1] = x /\ 1 < k + 1
        BY <1>3, <3>1
      <3>3. Turn[h] < Turn[x]
        BY <1>2, <1>8, <3>2
      <3>4. Turn[h] \in 1 .. 9
        BY <1>2, TurnOf
      <3>5. QED
        BY <3>2, <3>3, <3>4 DEF IsDue
    <2>2. ASSUME NEW x \in Object, IsDue(x), x # h PROVE IsDue(x)'
      <3>1. PICK k \in DOMAIN todo : todo[k] = x
        BY <2>2 DEF IsDue
      <3>2. k # 1
        BY <1>2, <2>2, <3>1
      <3>3. k - 1 \in DOMAIN todo' /\ todo'[k - 1] = x
        BY <1>2, <1>3, <3>1, <3>2
      <3>4. QED
        BY <3>3 DEF IsDue
    <2>3. QED
      BY <2>1, <2>2
  <1>10. BuiltInOrder'
    BY DEF BuiltInOrder
  <1>11. RuntimeIsWhole'
    <2>1. mpc' = "unwind" => ~returned'
      BY DEF DueInTurn
    <2>2. QED
      BY <1>1, <2>1 DEF RuntimeIsWhole
  <1>12. DueInTurn'
    <2>1. \A i, j \in DOMAIN todo' : i < j => Turn[todo'[i]] < Turn[todo'[j]]
      BY <1>3, <1>8
    <2>2. \A x \in Object : freed'[x] = 1 => x \in built' /\ ~IsDue(x)'
      BY <1>6, <1>9 DEF DueInTurn
    <2>3. mpc = "unwind" => ~IsDue("logger")' /\ ~returned /\ "logger" \in built /\ h # "logger"
      BY <1>4, <1>9 DEF DueInTurn, Object
    <2>4. mpc = "unwind" => freed'["logger"] = 0
      BY <1>6, <2>3 DEF DueInTurn, Object
    <2>5. \A x \in built' : freed'[x] = 0 =>
             (mpc = "unwind" => x = "logger" \/ IsDue(x)') /\ (mpc = "deinit" => IsDue(x)')
      BY <1>6, <1>9 DEF DueInTurn, ControlOK
    <2>6. mpc' = mpc /\ mpc \in {"unwind", "deinit"} /\ mpc \notin GoingUp
      BY DEF GoingUp, Object
    <2>7. QED
      BY <2>1, <2>2, <2>3, <2>4, <2>5, <2>6 DEF DueInTurn
  <1>13. PointersStayValid'
    <2> SUFFICES ASSUME NEW x \in Object, x \in built, freed'[x] = 0, NEW u \in Keeps[x]
                 PROVE  u \in built /\ freed'[u] = 0
      BY DEF PointersStayValid
    <2>1. x # h /\ freed[x] = 0
      BY <1>6
    <2>2. u \in Object /\ u \in built /\ freed[u] = 0 /\ Turn[x] < Turn[u]
      BY <2>1, UsersHaveTheirTurnFirst DEF PointersStayValid
    <2>3. x # "logger"
      BY KeepsOf
    <2>4. IsDue(x)
      BY <2>1, <2>3 DEF DueInTurn
    <2>5. PICK k \in DOMAIN todo : todo[k] = x
      BY <2>4 DEF IsDue
    <2>6. k \in DOMAIN todo /\ k > 1
      BY <1>2, <2>1, <2>5
    <2>7. Turn[h] < Turn[x]
      BY <1>2, <1>8, <2>5, <2>6
    <2>8. Turn[h] \in 1 .. 9 /\ Turn[x] \in 1 .. 9 /\ Turn[u] \in 1 .. 9
      BY <1>2, <2>2, TurnOf
    <2>9. u # h
      BY <2>2, <2>7, <2>8
    <2>10. QED
      BY <1>6, <2>2, <2>9
  <1>14. StatusSoFar'
    <2>1. Options(arguments)' = Options(arguments)
      BY DEF Options
    <2>2. QED
      BY <1>1, <2>1 DEF StatusSoFar, GoingUp, Object, HasEngine, Invalid
  <1>15. QED
    BY <1>7, <1>10, <1>11, <1>12, <1>13, <1>14

\* With no call left nothing is left to free.
LEMMA ExitInv == ASSUME StartupInv, Exit PROVE StartupInv'
  <1> USE DEF StartupInv, Exit, data
  <1>1. config' = config /\ Loaded(4)' = Loaded(4)
    BY ConfigurationStays
  <1>2. ControlOK'
    BY DEF ControlOK
  <1>3. BuiltInOrder' /\ PointersStayValid'
    BY DEF BuiltInOrder, PointersStayValid
  <1>4. RuntimeIsWhole'
    BY <1>1 DEF RuntimeIsWhole
  <1>5. DueInTurn'
    <2>1. \A o \in Object : IsDue(o)' <=> IsDue(o)
      BY DEF IsDue
    <2>2. \A o \in built : freed[o] # 0
      BY DEF DueInTurn, IsDue
    <2>3. QED
      BY <2>1, <2>2 DEF DueInTurn, GoingUp, Object
  <1>6. StatusSoFar'
    <2>1. Options(arguments)' = Options(arguments)
      BY DEF Options
    <2>2. QED
      BY <1>1, <2>1 DEF StatusSoFar, GoingUp, Object, HasEngine, Invalid
  <1>7. QED
    BY <1>2, <1>3, <1>4, <1>5, <1>6

\* Nothing that the invariant speaks of moves in a stuttering step.
LEMMA StutterInv == ASSUME StartupInv, UNCHANGED vars PROVE StartupInv'
  <1> USE DEF StartupInv, vars, control
  <1>1. config' = config /\ Loaded(4)' = Loaded(4)
    BY ConfigurationStays
  <1>2. Options(arguments)' = Options(arguments)
    BY DEF Options
  <1>3. \A o \in Object : IsDue(o)' <=> IsDue(o)
    BY DEF IsDue
  <1>4. ControlOK' /\ BuiltInOrder' /\ PointersStayValid'
    BY DEF ControlOK, BuiltInOrder, PointersStayValid
  <1>5. RuntimeIsWhole'
    BY <1>1 DEF RuntimeIsWhole
  <1>6. DueInTurn'
    <2>1. "logger" \in Object /\ built \subseteq Object
      BY DEF ControlOK, Object
    <2>2. QED
      BY <1>3, <2>1 DEF DueInTurn
  <1>7. StatusSoFar'
    BY <1>1, <1>2 DEF StatusSoFar, HasEngine, Invalid
  <1>8. QED
    BY <1>4, <1>5, <1>6, <1>7

----------------------------------------------------------------------------
(***************************************************************************)
(* The theorems about main's way.                                          *)
(***************************************************************************)

\* main.c and runtime.c, whichever allocation fails: main's place says what is
\* there, what is still due to be freed, and what the status may be.
THEOREM StartupInvariant == Spec => []StartupInv
  <1>1. Init => StartupInv
    BY InitInv
  <1>2. StartupInv /\ [Next]_vars => StartupInv'
    <2> SUFFICES ASSUME StartupInv, [Next]_vars PROVE StartupInv'
      OBVIOUS
    <2>1. CASE \/ BuildLogger \/ BuildRuntime \/ BuildConfig \/ BuildDevices
               \/ BuildFunctions \/ BuildTests \/ BuildEngine \/ NoEngine
               \/ BuildPlugins \/ BuildValidations
      BY <2>1, BuildingInv
    <2>2. CASE NoLogger
      BY <2>2, NoLoggerInv
    <2>3. CASE ParseArguments
      BY <2>3, ParseArgumentsInv
    <2>4. CASE LoadConfig
      BY <2>4, LoadConfigInv
    <2>5. CASE InitFails
      BY <2>5, InitFailsInv
    <2>6. CASE NoValidations \/ List \/ Run \/ RunAll \/ Unwound
      BY <2>6, MainEndsInv
    <2>7. CASE Cleanup
      BY <2>7, CleanupInv
    <2>8. CASE Deinit
      BY <2>8, DeinitInv
    <2>9. CASE Exit
      BY <2>9, ExitInv
    <2>10. CASE UNCHANGED vars
      BY <2>10, StutterInv
    <2>11. QED
      BY <2>1, <2>2, <2>3, <2>4, <2>5, <2>6, <2>7, <2>8, <2>9, <2>10 DEF Next
  <1>3. QED
    BY <1>1, <1>2, PTL DEF Spec

\* Every unwinding list of runtime_manager_init and main's cleanup together
\* free what was built once, and all of it by the exit.
THEOREM EachObjectIsFreedOnce == Spec => []FreedExactlyOnce
  <1>1. StartupInv => FreedExactlyOnce
    <2> SUFFICES ASSUME StartupInv PROVE FreedExactlyOnce
      OBVIOUS
    <2>1. \A o \in Object : freed[o] \in 0 .. 1
      BY DEF StartupInv, ControlOK
    <2>2. ASSUME mpc = "exit", NEW o \in built PROVE freed[o] = 1
      <3>1. o \in Object /\ freed[o] # 0
        BY <2>2 DEF StartupInv, ControlOK, DueInTurn
      <3>2. QED
        BY <2>1, <3>1
    <2>3. QED
      BY <2>1, <2>2 DEF FreedExactlyOnce
  <1>2. QED
    BY <1>1, StartupInvariant, PTL

\* main's cleanup frees the validation system and the engine before the
\* managers they point to, and the logger last.
THEOREM KeptPointersStayValid == Spec => []PointersStayValid
  <1>1. StartupInv => PointersStayValid
    BY DEF StartupInv
  <1>2. QED
    BY <1>1, StartupInvariant, PTL

\* What main returns: a usage error exactly for refused arguments, success
\* only after a whole start, and after a run only with an engine.
THEOREM ExitStatusIsTrue == Spec => []StatusTellsTheTruth
  <1>1. StartupInv => StatusTellsTheTruth
    BY DEF StartupInv, StatusSoFar, StatusTellsTheTruth
  <1>2. QED
    BY <1>1, StartupInvariant, PTL

----------------------------------------------------------------------------
(***************************************************************************)
(* Lists: flattening and filtering.  An induction over a list is the climb *)
(* from 0 to its length, below.                                            *)
(***************************************************************************)

\* A set that holds 0, and with each number below n the next, holds all to n.
LEMMA Climb ==
    ASSUME NEW n \in Nat, NEW S, 0 \in S,
           \A k \in 0 .. n : k < n /\ k \in S => k + 1 \in S
    PROVE  \A k \in 0 .. n : k \in S
  <1> DEFINE Bad == {k \in 0 .. n : k \notin S}
  <1>1. ASSUME Bad # {} PROVE FALSE
    <2>0. Bad \subseteq Nat
      OBVIOUS
    <2>1. PICK m \in Bad : \A k \in Bad : <<k, m>> \notin OpToRel(<, Nat)
      <3> HIDE DEF Bad
      <3> QED BY <1>1, <2>0, NatLessThanWellFounded, WFMin, Zenon
    <2>2. m \in 0 .. n /\ m \notin S /\ m - 1 \in 0 .. n
      OBVIOUS
    <2>3. m - 1 \in S
      <3>1. <<m - 1, m>> \in OpToRel(<, Nat)
        BY <2>2 DEF OpToRel
      <3> QED BY <3>1, <2>1, <2>2
    <2> QED BY <2>2, <2>3
  <1> QED BY <1>1

\* FlattenSeq, one list after the other.
LEMMA FlattenSteps ==
    ASSUME NEW T, NEW ss \in Seq(Seq(T))
    PROVE  \E f \in [0 .. Len(ss) -> Seq(T)] :
              /\ f[0] = <<>>
              /\ \A k \in 1 .. Len(ss) : f[k] = f[k - 1] \o ss[k]
              /\ f[Len(ss)] = FlattenSeq(ss)
  <1> DEFINE Grows(f, n) == f[0] = <<>> /\ \A k \in 1 .. n : f[k] = f[k - 1] \o ss[k]
             S == {n \in 0 .. Len(ss) : \E f \in [0 .. n -> Seq(T)] : Grows(f, n)}
  <1>0. Len(ss) \in Nat /\ \A k \in 1 .. Len(ss) : ss[k] \in Seq(T)
    OBVIOUS
  <1>1. \E f \in [0 .. Len(ss) -> Seq(T)] : Grows(f, Len(ss))
    <2>1. 0 \in S
      <3> DEFINE g == [k \in 0 .. 0 |-> <<>>]
      <3>1. g \in [0 .. 0 -> Seq(T)]
        BY EmptySeq
      <3>2. Grows(g, 0)
        OBVIOUS
      <3> HIDE DEF g, Grows
      <3>3. \E f \in [0 .. 0 -> Seq(T)] : Grows(f, 0)
        BY <3>1, <3>2
      <3> QED BY <1>0, <3>3
    <2>2. ASSUME NEW n \in 0 .. Len(ss), n < Len(ss) /\ n \in S
          PROVE  n + 1 \in S
      <3>1. PICK f \in [0 .. n -> Seq(T)] : Grows(f, n)
        BY <2>2
      <3> DEFINE g == [k \in 0 .. n + 1 |-> IF k <= n THEN f[k] ELSE f[n] \o ss[n + 1]]
      <3>2. ss[n + 1] \in Seq(T) /\ f[n] \in Seq(T)
        BY <1>0, <2>2
      <3>3. f[n] \o ss[n + 1] \in Seq(T)
        BY <3>2, ConcatProperties
      <3>4. g \in [0 .. n + 1 -> Seq(T)]
        BY <3>3
      <3>5. ASSUME NEW k \in 1 .. n + 1 PROVE g[k] = g[k - 1] \o ss[k]
        <4>1. CASE k <= n
          <5>1. k \in 1 .. n /\ g[k] = f[k] /\ g[k - 1] = f[k - 1]
            BY <4>1
          <5> QED BY <3>1, <5>1
        <4>2. CASE k = n + 1
          <5>1. g[k] = f[n] \o ss[n + 1] /\ g[k - 1] = f[n]
            BY <4>2
          <5> QED BY <4>2, <5>1
        <4>3. k <= n \/ k = n + 1
          BY <1>0
        <4> QED BY <4>1, <4>2, <4>3
      <3>6. g[0] = <<>>
        BY <3>1
      <3>7. Grows(g, n + 1)
        BY <3>5, <3>6
      <3> HIDE DEF g, Grows
      <3>8. \E e \in [0 .. n + 1 -> Seq(T)] : Grows(e, n + 1)
        BY <3>4, <3>7
      <3> QED BY <1>0, <2>2, <3>8
    <2>3. \A k \in 0 .. Len(ss) : k \in S
      <3> HIDE DEF S
      <3> QED BY <1>0, <2>1, <2>2, Climb
    <2> HIDE DEF Grows
    <2> QED BY <1>0, <2>3
  <1>2. PICK f \in [0 .. Len(ss) -> Seq(T)] : Grows(f, Len(ss))
    BY <1>1
  <1>3. \A k \in 1 .. Len(ss) : f[k] = f[k - 1] \o ss[k]
    BY <1>2
  <1>4. ASSUME Len(ss) # 0 PROVE f[1] = ss[1]
    <2>1. 1 \in 1 .. Len(ss) /\ 1 - 1 = 0
      BY <1>4
    <2>2. f[1] = f[0] \o ss[1]
      BY <1>3, <2>1
    <2>3. ss[1] \in Seq(T) /\ f[0] = <<>>
      BY <1>2, <2>1
    <2> QED BY <2>2, <2>3, ConcatEmptySeq
  <1> HIDE DEF Grows, S
  <1>5. CASE Len(ss) = 0
    <2>1. ss = <<>>
      BY <1>5, EmptySeq
    <2>2. f[0] = <<>>
      BY <1>2 DEF Grows
    <2> QED BY <1>3, <1>5, <2>1, <2>2 DEF FlattenSeq
  <1>6. CASE Len(ss) # 0
    <2> DEFINE Flat(g) == [i \in 1 .. Len(ss) |-> IF i = 1 THEN ss[i] ELSE g[i - 1] \o ss[i]]
               h == CHOOSE g : g = Flat(g)
    <2>1. FlattenSeq(ss) = h[Len(ss)]
      BY <1>6 DEF FlattenSeq
    <2>2. \E g : g = Flat(g)
      <3> DEFINE g == [i \in 1 .. Len(ss) |-> f[i]]
      <3>1. ASSUME NEW i \in 1 .. Len(ss)
            PROVE  f[i] = IF i = 1 THEN ss[i] ELSE g[i - 1] \o ss[i]
        <4>1. CASE i = 1
          BY <4>1, <1>4, <1>6
        <4>2. CASE i # 1
          <5>1. i - 1 \in 1 .. Len(ss)
            BY <4>2
          <5>2. g[i - 1] = f[i - 1]
            BY <5>1
          <5> QED BY <4>2, <5>2, <1>3
        <4> QED BY <4>1, <4>2
      <3>2. g = Flat(g)
        <4> HIDE DEF g
        <4>1. g = [i \in 1 .. Len(ss) |-> f[i]]
          BY DEF g
        <4> QED BY <3>1, <4>1
      <3> HIDE DEF g, Flat
      <3> QED BY <3>2
    <2>3. h = Flat(h)
      <3> HIDE DEF Flat
      <3> QED BY <2>2
    <2>4. \A i \in 1 .. Len(ss) : h[i] = IF i = 1 THEN ss[i] ELSE h[i - 1] \o ss[i]
      <3> HIDE DEF h
      <3> QED BY <2>3
    <2> HIDE DEF h, Flat
    <2> DEFINE E == {i \in 0 .. Len(ss) : i = 0 \/ h[i] = f[i]}
    <2>5. ASSUME NEW k \in 0 .. Len(ss), k < Len(ss), k \in E PROVE k + 1 \in E
      <3>0. k + 1 \in 1 .. Len(ss) /\ (k + 1) - 1 = k
        BY <2>5
      <3>1. CASE k = 0
        BY <3>0, <3>1, <1>4, <1>6, <2>4
      <3>2. CASE k # 0
        <4> DEFINE j == k + 1
        <4>0. j \in 1 .. Len(ss) /\ j - 1 = k /\ j # 1
          BY <3>0, <3>2
        <4>1. h[k] = f[k]
          BY <3>2, <2>5
        <4> HIDE DEF j
        <4>2. h[j] = h[k] \o ss[j]
          BY <4>0, <2>4
        <4>3. f[j] = f[k] \o ss[j]
          BY <4>0, <1>3
        <4>4. j \in E
          <5>1. h[j] = f[j]
            BY <4>1, <4>2, <4>3
          <5> QED BY <4>0, <5>1
        <4> QED BY <4>4 DEF j
      <3> QED BY <3>1, <3>2
    <2>6. Len(ss) \in E
      <3>1. 0 \in E /\ Len(ss) \in Nat
        OBVIOUS
      <3> HIDE DEF E
      <3>2. \A k \in 0 .. Len(ss) : k < Len(ss) /\ k \in E => k + 1 \in E
        BY <2>5
      <3>3. \A k \in 0 .. Len(ss) : k \in E
        BY <3>1, <3>2, Climb
      <3> QED BY <3>1, <3>3
    <2>7. h[Len(ss)] = f[Len(ss)]
      BY <1>6, <2>6
    <2>8. f[0] = <<>>
      BY <1>2 DEF Grows
    <2> QED BY <1>3, <2>1, <2>7, <2>8
  <1> QED BY <1>5, <1>6

\* What one list after another holds.
LEMMA ConcatHolds ==
    ASSUME NEW T, NEW s \in Seq(T), NEW t \in Seq(T)
    PROVE  \A x : x \in ToSet(s \o t) <=> x \in ToSet(s) \/ x \in ToSet(t)
  <1>1. /\ Len(s) \in Nat /\ Len(t) \in Nat /\ DOMAIN (s \o t) = 1 .. Len(s) + Len(t)
        /\ DOMAIN s = 1 .. Len(s) /\ DOMAIN t = 1 .. Len(t)
    OBVIOUS
  <1>2. ASSUME NEW k \in 1 .. Len(s) + Len(t)
        PROVE  (s \o t)[k] \in ToSet(s) \union ToSet(t)
    <2>1. CASE k <= Len(s)
      BY <2>1, <1>1 DEF ToSet
    <2>2. CASE ~(k <= Len(s))
      <3>1. k - Len(s) \in DOMAIN t /\ (s \o t)[k] = t[k - Len(s)]
        BY <2>2, <1>1
      <3> QED BY <3>1 DEF ToSet
    <2> QED BY <2>1, <2>2
  <1>3. ASSUME NEW k \in DOMAIN s PROVE s[k] \in ToSet(s \o t)
    <2>1. k \in DOMAIN (s \o t) /\ (s \o t)[k] = s[k]
      BY <1>1
    <2> QED BY <2>1 DEF ToSet
  <1>4. ASSUME NEW k \in DOMAIN t PROVE t[k] \in ToSet(s \o t)
    <2>1. Len(s) + k \in DOMAIN (s \o t) /\ (s \o t)[Len(s) + k] = t[k]
      BY <1>1
    <2> QED BY <2>1 DEF ToSet
  <1>5. ToSet(s \o t) \subseteq ToSet(s) \union ToSet(t)
    BY <1>1, <1>2 DEF ToSet
  <1>6. ToSet(s) \subseteq ToSet(s \o t) /\ ToSet(t) \subseteq ToSet(s \o t)
    BY <1>3, <1>4 DEF ToSet
  <1> QED BY <1>5, <1>6

\* A flattened list is one of the same entries, and holds what its parts hold.
LEMMA FlattenHolds ==
    ASSUME NEW T, NEW ss \in Seq(Seq(T))
    PROVE  /\ FlattenSeq(ss) \in Seq(T)
           /\ \A x : x \in ToSet(FlattenSeq(ss)) <=>
                        \E k \in 1 .. Len(ss) : x \in ToSet(ss[k])
  <1>1. PICK f \in [0 .. Len(ss) -> Seq(T)] :
                /\ f[0] = <<>>
                /\ \A k \in 1 .. Len(ss) : f[k] = f[k - 1] \o ss[k]
                /\ f[Len(ss)] = FlattenSeq(ss)
    BY FlattenSteps
  <1>2. Len(ss) \in Nat /\ \A k \in 1 .. Len(ss) : ss[k] \in Seq(T)
    OBVIOUS
  <1> DEFINE Held(n) == UNION {ToSet(ss[k]) : k \in 1 .. n}
             S == {n \in 0 .. Len(ss) : ToSet(f[n]) = Held(n)}
  <1>3. 0 \in S
    BY <1>1, <1>2 DEF ToSet
  <1>4. ASSUME NEW n \in 0 .. Len(ss), n < Len(ss) /\ n \in S PROVE n + 1 \in S
    <2> DEFINE m == n + 1
    <2>1. m \in 1 .. Len(ss) /\ m - 1 = n /\ 1 .. m = 1 .. n \union {m}
      BY <1>2, <1>4
    <2> HIDE DEF m
    <2>2. f[m] = f[n] \o ss[m]
      BY <1>1, <2>1
    <2>3. f[n] \in Seq(T) /\ ss[m] \in Seq(T)
      BY <1>2, <2>1
    <2>4. \A x : x \in ToSet(f[m]) <=> x \in ToSet(f[n]) \/ x \in ToSet(ss[m])
      BY <2>2, <2>3, ConcatHolds
    <2>5. Held(m) = Held(n) \union ToSet(ss[m])
      BY <2>1
    <2>6. ToSet(f[m]) = Held(m)
      <3>1. ToSet(f[n]) = Held(n)
        BY <1>4
      <3> HIDE DEF Held
      <3> QED BY <2>4, <2>5, <3>1
    <2> HIDE DEF Held
    <2>7. m \in S
      BY <2>1, <2>6
    <2> QED BY <2>7 DEF m
  <1>5. ToSet(FlattenSeq(ss)) = Held(Len(ss))
    <2>1. \A n \in 0 .. Len(ss) : n \in S
      <3> HIDE DEF S
      <3> QED BY <1>2, <1>3, <1>4, Climb
    <2> HIDE DEF Held
    <2> QED BY <2>1, <1>1, <1>2
  <1>6. FlattenSeq(ss) \in Seq(T)
    BY <1>1, <1>2
  <1> QED BY <1>5, <1>6

\* Parts without repetition that share nothing give a list without repetition.
LEMMA FlattenInjective ==
    ASSUME NEW T, NEW ss \in Seq(Seq(T)),
           \A k \in 1 .. Len(ss) : IsInjective(ss[k]),
           \A j, k \in 1 .. Len(ss) : j # k => ToSet(ss[j]) \cap ToSet(ss[k]) = {}
    PROVE  IsInjective(FlattenSeq(ss))
  <1>1. PICK f \in [0 .. Len(ss) -> Seq(T)] :
                /\ f[0] = <<>>
                /\ \A k \in 1 .. Len(ss) : f[k] = f[k - 1] \o ss[k]
                /\ f[Len(ss)] = FlattenSeq(ss)
    BY FlattenSteps
  <1>2. Len(ss) \in Nat /\ \A k \in 1 .. Len(ss) : ss[k] \in Seq(T)
    OBVIOUS
  <1> DEFINE S == {n \in 0 .. Len(ss) :
                      /\ IsInjective(f[n])
                      /\ \A k \in 1 .. Len(ss) : n < k => ToSet(f[n]) \cap ToSet(ss[k]) = {}}
  <1>3. 0 \in S
    BY <1>1, <1>2 DEF ToSet, IsInjective
  <1>4. ASSUME NEW n \in 0 .. Len(ss), n < Len(ss) /\ n \in S PROVE n + 1 \in S
    <2> DEFINE m == n + 1
    <2>1. m \in 1 .. Len(ss) /\ m - 1 = n /\ n < m /\ m \in Nat
      BY <1>2, <1>4
    <2> HIDE DEF m
    <2>2. f[m] = f[n] \o ss[m]
      BY <1>1, <2>1
    <2>3. f[n] \in Seq(T) /\ ss[m] \in Seq(T)
      BY <1>2, <2>1
    <2>4. \A x : x \in ToSet(f[m]) <=> x \in ToSet(f[n]) \/ x \in ToSet(ss[m])
      BY <2>2, <2>3, ConcatHolds
    <2>5. ASSUME NEW k \in 1 .. Len(ss), m < k
          PROVE  ToSet(f[m]) \cap ToSet(ss[k]) = {}
      <3>1. n < k /\ k # m
        BY <2>1, <2>5
      <3> QED BY <1>4, <2>1, <2>4, <3>1
    <2>6. ASSUME NEW i \in DOMAIN f[m], NEW j \in DOMAIN f[m], f[m][i] = f[m][j]
          PROVE  i = j
      <3>1. /\ DOMAIN f[m] = 1 .. Len(f[n]) + Len(ss[m])
            /\ Len(f[n]) \in Nat /\ Len(ss[m]) \in Nat
            /\ DOMAIN f[n] = 1 .. Len(f[n]) /\ DOMAIN ss[m] = 1 .. Len(ss[m])
        BY <2>2, <2>3
      <3>2. ASSUME NEW k \in DOMAIN f[m]
            PROVE  \/ k \in DOMAIN f[n] /\ f[m][k] = f[n][k]
                   \/ k - Len(f[n]) \in DOMAIN ss[m] /\ f[m][k] = ss[m][k - Len(f[n])]
        BY <2>2, <2>3, <3>1
      <3>3. IsInjective(f[n]) /\ IsInjective(ss[m]) /\ ToSet(f[n]) \cap ToSet(ss[m]) = {}
        BY <1>4, <2>1
      <3>4. \A a \in DOMAIN f[n], b \in DOMAIN ss[m] : f[n][a] # ss[m][b]
        BY <3>3 DEF ToSet
      <3>5. CASE i \in DOMAIN f[n] /\ f[m][i] = f[n][i]
        BY <2>6, <3>2, <3>3, <3>4, <3>5 DEF IsInjective
      <3>6. CASE i - Len(f[n]) \in DOMAIN ss[m] /\ f[m][i] = ss[m][i - Len(f[n])]
        <4>1. j - Len(f[n]) \in DOMAIN ss[m] /\ f[m][j] = ss[m][j - Len(f[n])]
          BY <2>6, <3>2, <3>4, <3>6
        <4>2. i - Len(f[n]) = j - Len(f[n])
          BY <2>6, <3>3, <3>6, <4>1 DEF IsInjective
        <4> QED BY <3>1, <4>2
      <3> QED BY <3>2, <3>5, <3>6
    <2>7. IsInjective(f[m])
      BY <2>6 DEF IsInjective
    <2>8. m \in S
      BY <1>2, <2>1, <2>5, <2>7
    <2> QED BY <2>8 DEF m
  <1>5. \A n \in 0 .. Len(ss) : n \in S
    <2> HIDE DEF S
    <2> QED BY <1>2, <1>3, <1>4, Climb
  <1> QED BY <1>1, <1>2, <1>5

\* Going through a list and taking the entries at some places: Selected, with
\* the places for the test.
Taken(s, I) == FlattenSeq([k \in DOMAIN s |-> IF k \in I THEN <<s[k]>> ELSE <<>>])

\* What is taken, and that it is taken once.
LEMMA TakenAt ==
    ASSUME NEW T, NEW s \in Seq(T), NEW I
    PROVE  /\ Taken(s, I) \in Seq(T)
           /\ \A x : x \in ToSet(Taken(s, I)) <=> \E k \in DOMAIN s : k \in I /\ s[k] = x
           /\ (\A j, k \in DOMAIN s : {j, k} \subseteq I /\ s[j] = s[k] => j = k)
                 => IsInjective(Taken(s, I))
  <1> DEFINE r == Taken(s, I)
             ss == [k \in DOMAIN s |-> IF k \in I THEN <<s[k]>> ELSE <<>>]
  <1>1. DOMAIN s = 1 .. Len(s) /\ Len(s) \in Nat /\ \A k \in DOMAIN s : s[k] \in T
    OBVIOUS
  <1>2. ASSUME NEW k \in DOMAIN s
        PROVE  /\ ss[k] \in Seq(T) /\ IsInjective(ss[k])
               /\ \A x : x \in ToSet(ss[k]) <=> k \in I /\ s[k] = x
    <2>1. CASE k \in I
      <3>1. ss[k] = <<s[k]>>
        BY <2>1
      <3>2. /\ <<s[k]>> \in Seq(T) /\ Len(<<s[k]>>) = 1 /\ <<s[k]>>[1] = s[k]
            /\ DOMAIN <<s[k]>> = {1}
        BY <1>1
      <3>3. ToSet(<<s[k]>>) = {s[k]} /\ IsInjective(<<s[k]>>)
        BY <3>2 DEF ToSet, IsInjective
      <3> QED BY <2>1, <3>1, <3>2, <3>3
    <2>2. CASE k \notin I
      <3>1. ss[k] = <<>>
        BY <2>2
      <3>2. <<>> \in Seq(T) /\ DOMAIN <<>> = {}
        OBVIOUS
      <3>3. ToSet(<<>>) = {} /\ IsInjective(<<>>)
        BY <3>2 DEF ToSet, IsInjective
      <3> QED BY <2>2, <3>1, <3>2, <3>3
    <2> QED BY <2>1, <2>2
  <1>3. ss \in Seq(Seq(T)) /\ Len(ss) = Len(s)
    BY <1>1, <1>2
  <1>4. r = FlattenSeq(ss)
    BY DEF Taken
  <1> HIDE DEF ss, r
  <1>5. r \in Seq(T) /\ \A x : x \in ToSet(r) <=> \E k \in 1 .. Len(ss) : x \in ToSet(ss[k])
    BY <1>3, <1>4, FlattenHolds
  <1>6. ASSUME \A j, k \in DOMAIN s : {j, k} \subseteq I /\ s[j] = s[k] => j = k
        PROVE  IsInjective(r)
    <2>1. ASSUME NEW j \in DOMAIN s, NEW k \in DOMAIN s, NEW x,
                 x \in ToSet(ss[j]), x \in ToSet(ss[k])
          PROVE  j = k
      <3>1. j \in I /\ s[j] = x /\ k \in I /\ s[k] = x
        BY <1>2, <2>1
      <3> QED BY <1>6, <3>1
    <2>2. \A j, k \in 1 .. Len(ss) : j # k => ToSet(ss[j]) \cap ToSet(ss[k]) = {}
      BY <1>1, <1>3, <2>1
    <2>3. \A k \in 1 .. Len(ss) : IsInjective(ss[k])
      BY <1>1, <1>2, <1>3
    <2>4. IsInjective(FlattenSeq(ss))
      BY <1>3, <2>2, <2>3, FlattenInjective
    <2> QED BY <1>4, <2>4
  <1>7. \A x : x \in ToSet(r) <=> \E k \in DOMAIN s : k \in I /\ s[k] = x
    BY <1>1, <1>2, <1>3, <1>5
  <1> QED BY <1>5, <1>6, <1>7 DEF r

----------------------------------------------------------------------------
(***************************************************************************)
(* What the parsers leave in the configuration.                            *)
(***************************************************************************)

\* A function on 1 .. m is a sequence of its entries.
LEMMA MappedIsSequence ==
    ASSUME NEW m \in Nat, NEW s, s = [k \in 1 .. m |-> s[k]]
    PROVE  /\ IsSequence(s) /\ DOMAIN s = 1 .. m /\ Len(s) = m
           /\ \A x : x \in ToSet(s) <=> \E k \in 1 .. m : s[k] = x
  <1>1. DOMAIN s = 1 .. m
    OBVIOUS
  <1>2. \A k \in 1 .. m : s[k] \in ToSet(s)
    BY <1>1 DEF ToSet
  <1>3. s \in Seq(ToSet(s))
    BY <1>2
  <1> QED BY <1>1, <1>3 DEF IsSequence, ToSet

\* A usable file has its elements at 1 .. Len.
LEMMA SequenceHasPlaces ==
    ASSUME NEW s, IsSequence(s)
    PROVE  Len(s) \in Nat /\ DOMAIN s = 1 .. Len(s)
  BY DEF IsSequence

\* What was absent is the empty string, which is not what nobody wrote.
LEMMA StringIsWritten == ASSUME NEW m, m # NULL PROVE StringOf(m) # NULL
  BY RegistryAssumption DEF StringOf

\* The filter: what it takes over is what passes.
LEMMA StringsOf ==
    ASSUME NEW s, IsSequence(s)
    PROVE  IsSequence(Strings(s)) /\ ToSet(Strings(s)) = {d \in ToSet(s) : d # Missing}
  <1> DEFINE I == {k \in DOMAIN s : s[k] # Missing}
             T == ToSet(s)
  <1>1. Strings(s) = Taken(s, I)
    <2>1. [k \in DOMAIN s |-> IF k \in I THEN <<s[k]>> ELSE <<>>]
             = [k \in DOMAIN s |-> IF s[k] # Missing THEN <<s[k]>> ELSE <<>>]
      OBVIOUS
    <2> HIDE DEF I
    <2> QED BY <2>1 DEF Strings, Selected, Taken
  <1>2. s \in Seq(T)
    BY DEF IsSequence
  <1> HIDE DEF I, T
  <1> DEFINE r == Taken(s, I)
  <1>3. r \in Seq(T) /\ \A x : x \in ToSet(r) <=> \E k \in DOMAIN s : k \in I /\ s[k] = x
    BY <1>2, TakenAt
  <1> HIDE DEF r
  <1>4. ToSet(r) = {d \in ToSet(s) : d # Missing}
    BY <1>3 DEF I, ToSet
  <1>5. IsSequence(r)
    <2>1. r = [k \in 1 .. Len(r) |-> r[k]] /\ Len(r) \in Nat
      BY <1>3
    <2> QED BY <2>1, MappedIsSequence
  <1> QED BY <1>1, <1>4, <1>5 DEF r

\* Whatever has been read is lists.
LEMMA ConfigIsLists ==
    ASSUME files \in Directory, NEW n \in 0 .. 4, UsableFiles(n), config = Loaded(n)
    PROVE  /\ IsSequence(config.devices) /\ IsSequence(config.functions)
           /\ IsSequence(config.tests) /\ IsSequence(config.bindings)
  <1>0. IsSequence(<<>>)
    BY DEF IsSequence
  <1>1. IsSequence(config.devices)
    <2>1. CASE n >= 1
      <3>1. IsSequence(files.device)
        BY <2>1, RegistryAssumption DEF UsableFiles
      <3>2. config.devices = [k \in 1 .. Len(files.device) |-> StringOf(files.device[k].name)]
        BY <2>1, <3>1, SequenceHasPlaces DEF Loaded, ParseDevices
      <3> QED BY <3>1, <3>2, SequenceHasPlaces, MappedIsSequence
    <2>2. CASE ~(n >= 1)
      BY <1>0, <2>2 DEF Loaded
    <2> QED BY <2>1, <2>2
  <1>2. IsSequence(config.functions)
    <2>1. CASE n >= 2
      <3>1. IsSequence(files.function)
        BY <2>1, RegistryAssumption DEF UsableFiles
      <3> DEFINE s == ParseFunctions(files.function)
      <3>2. s = [k \in 1 .. Len(files.function) |-> s[k]]
        BY <3>1, SequenceHasPlaces DEF ParseFunctions
      <3>3. config.functions = s
        BY <2>1 DEF Loaded
      <3> HIDE DEF s
      <3> QED BY <3>1, <3>2, <3>3, SequenceHasPlaces, MappedIsSequence
    <2>2. CASE ~(n >= 2)
      BY <1>0, <2>2 DEF Loaded
    <2> QED BY <2>1, <2>2
  <1>3. IsSequence(config.tests)
    <2>1. CASE n >= 3
      <3>1. IsSequence(files.test)
        BY <2>1, RegistryAssumption DEF UsableFiles
      <3> DEFINE s == ParseTests(files.test)
      <3>2. s = [k \in 1 .. Len(files.test) |-> s[k]]
        BY <3>1, SequenceHasPlaces DEF ParseTests
      <3>3. config.tests = s
        BY <2>1 DEF Loaded
      <3> HIDE DEF s
      <3> QED BY <3>1, <3>2, <3>3, SequenceHasPlaces, MappedIsSequence
    <2>2. CASE ~(n >= 3)
      BY <1>0, <2>2 DEF Loaded
    <2> QED BY <2>1, <2>2
  <1>4. IsSequence(config.bindings)
    <2>1. CASE n >= 4
      <3>1. IsSequence(files.platform)
        BY <2>1, RegistryAssumption DEF UsableFiles
      <3> DEFINE s == ParseBindings(files.platform)
      <3>2. s = [k \in 1 .. Len(files.platform) |-> s[k]]
        BY <3>1, SequenceHasPlaces DEF ParseBindings
      <3>3. config.bindings = s
        BY <2>1 DEF Loaded
      <3> HIDE DEF s
      <3> QED BY <3>1, <3>2, <3>3, SequenceHasPlaces, MappedIsSequence
    <2>2. CASE ~(n >= 4)
      BY <1>0, <2>2 DEF Loaded
    <2> QED BY <2>1, <2>2
  <1> QED BY <1>1, <1>2, <1>3, <1>4

\* All four files are there, and config is what the parsers make of them.
ConfigRead == files \in Directory /\ UsableFiles(4) /\ config = Loaded(4)

\* The devices of the k-th function fit.
Fits(k) == Len(Strings(files.function[k].devices)) <= MaxDevices

\* What config has to do with the files, list by list.
LEMMA ConfigIsFiles ==
    ASSUME ConfigRead
    PROVE  /\ IsSequence(config.devices) /\ IsSequence(config.functions)
           /\ IsSequence(config.tests) /\ IsSequence(config.bindings)
           /\ DOMAIN config.devices = DOMAIN files.device
           /\ \A k \in DOMAIN files.device :
                 config.devices[k] = StringOf(files.device[k].name)
           /\ DOMAIN config.functions = DOMAIN files.function
           /\ \A k \in DOMAIN files.function :
                 /\ config.functions[k].name = StringOf(files.function[k].name)
                 /\ Fits(k) => config.functions[k].devices = Strings(files.function[k].devices)
                 /\ IsSequence(Strings(files.function[k].devices))
                 /\ ToSet(Strings(files.function[k].devices))
                       = {d \in ToSet(files.function[k].devices) : d # Missing}
           /\ DOMAIN config.tests = DOMAIN files.test
           /\ \A k \in DOMAIN files.test :
                 /\ config.tests[k].name = StringOf(files.test[k].name)
                 /\ config.tests[k].function = StringOf(files.test[k].function)
           /\ DOMAIN config.bindings = DOMAIN files.platform
           /\ \A k \in DOMAIN files.platform :
                 /\ config.bindings[k].device = StringOf(files.platform[k].device)
                 /\ config.bindings[k].is_enabled <=> files.platform[k].enable = TRUE
  <1>1. /\ IsSequence(config.devices) /\ IsSequence(config.functions)
        /\ IsSequence(config.tests) /\ IsSequence(config.bindings)
    BY ConfigIsLists DEF ConfigRead
  <1>2. /\ config.devices = ParseDevices(files.device)
        /\ config.functions = ParseFunctions(files.function)
        /\ config.tests = ParseTests(files.test)
        /\ config.bindings = ParseBindings(files.platform)
    BY DEF ConfigRead, Loaded
  <1>3. ASSUME NEW k \in DOMAIN files.function
        PROVE  /\ config.functions[k].name = StringOf(files.function[k].name)
               /\ Fits(k) => config.functions[k].devices = Strings(files.function[k].devices)
               /\ IsSequence(Strings(files.function[k].devices))
               /\ ToSet(Strings(files.function[k].devices))
                     = {d \in ToSet(files.function[k].devices) : d # Missing}
    <2> DEFINE r == Strings(files.function[k].devices)
    <2>1. config.functions[k] = [name |-> StringOf(files.function[k].name), devices |-> Fitting(r)]
      BY <1>2 DEF ParseFunctions
    <2>2. IsSequence(files.function[k].devices)
      <3>1. files \in Directory /\ files.function # Unusable
        BY DEF ConfigRead, UsableFiles
      <3> QED BY <3>1, RegistryAssumption
    <2>3. IsSequence(r) /\ ToSet(r) = {d \in ToSet(files.function[k].devices) : d # Missing}
      BY <2>2, StringsOf
    <2>4. Fits(k) => Fitting(r) = r
      <3>1. Len(r) \in Nat
        BY <2>3, SequenceHasPlaces
      <3> QED BY <3>1, RegistryAssumption DEF Fits, Fitting
    <2> HIDE DEF r
    <2> QED BY <2>1, <2>3, <2>4 DEF r
  <1>4. DOMAIN config.functions = DOMAIN files.function
    BY <1>2 DEF ParseFunctions
  <1>5. /\ DOMAIN config.devices = DOMAIN files.device
        /\ \A k \in DOMAIN files.device :
              config.devices[k] = StringOf(files.device[k].name)
    BY <1>2 DEF ParseDevices
  <1>6. /\ DOMAIN config.tests = DOMAIN files.test
        /\ \A k \in DOMAIN files.test :
              /\ config.tests[k].name = StringOf(files.test[k].name)
              /\ config.tests[k].function = StringOf(files.test[k].function)
    BY <1>2 DEF ParseTests
  <1>7. /\ DOMAIN config.bindings = DOMAIN files.platform
        /\ \A k \in DOMAIN files.platform :
              /\ config.bindings[k].device = StringOf(files.platform[k].device)
              /\ config.bindings[k].is_enabled <=> files.platform[k].enable = TRUE
    <2>1. config.bindings = [k \in DOMAIN files.platform |->
               [device |-> StringOf(files.platform[k].device),
                is_enabled |-> BoolOf(files.platform[k].enable)]]
      BY <1>2 DEF ParseBindings
    <2>2. ASSUME NEW k \in DOMAIN files.platform
          PROVE  /\ config.bindings[k].device = StringOf(files.platform[k].device)
                 /\ config.bindings[k].is_enabled = BoolOf(files.platform[k].enable)
      BY <2>1
    <2>3. \A x : BoolOf(x) <=> x = TRUE
      BY DEF BoolOf
    <2>4. \A k \in DOMAIN files.platform :
             config.bindings[k].is_enabled <=> files.platform[k].enable = TRUE
      BY <2>2, <2>3, Zenon
    <2> QED BY <2>1, <2>2, <2>4
  <1> QED BY <1>1, <1>3, <1>4, <1>5, <1>6, <1>7

\* Names are written and tell the entries of a list apart.
LEMMA NamesAreUnique ==
    ASSUME ConfigRead
    PROVE  /\ IsInjective(config.devices)
           /\ \A j, k \in DOMAIN config.functions :
                 config.functions[j].name = config.functions[k].name => j = k
           /\ \A j, k \in DOMAIN config.tests :
                 config.tests[j].name = config.tests[k].name => j = k
           /\ \A k \in DOMAIN config.devices : config.devices[k] # NULL
           /\ \A k \in DOMAIN config.functions :
                 /\ config.functions[k].name # NULL
                 /\ NULL \notin ToSet(Strings(files.function[k].devices))
           /\ \A k \in DOMAIN config.tests :
                 config.tests[k].name # NULL /\ config.tests[k].function # NULL
  <1>1. /\ files \in Directory /\ files.device # Unusable /\ files.function # Unusable
        /\ files.test # Unusable
    BY DEF ConfigRead, UsableFiles
  <1>2. IsInjective(config.devices)
    <2>1. config.devices = ParseDevices(files.device)
      BY DEF ConfigRead, Loaded
    <2> QED BY <1>1, <2>1, RegistryAssumption
  <1>3. \A j, k \in DOMAIN config.functions :
            config.functions[j].name = config.functions[k].name => j = k
    <2> DEFINE names == [k \in DOMAIN files.function |-> StringOf(files.function[k].name)]
    <2>1. IsInjective(names)
      BY <1>1, RegistryAssumption
    <2>2. /\ DOMAIN names = DOMAIN config.functions
          /\ \A k \in DOMAIN config.functions : names[k] = config.functions[k].name
      BY ConfigIsFiles
    <2> HIDE DEF names
    <2> QED BY <2>1, <2>2 DEF IsInjective
  <1>4. \A j, k \in DOMAIN config.tests :
            config.tests[j].name = config.tests[k].name => j = k
    <2> DEFINE names == [k \in DOMAIN files.test |-> StringOf(files.test[k].name)]
    <2>1. IsInjective(names)
      BY <1>1, RegistryAssumption
    <2>2. /\ DOMAIN names = DOMAIN config.tests
          /\ \A k \in DOMAIN config.tests : names[k] = config.tests[k].name
      BY ConfigIsFiles
    <2> HIDE DEF names
    <2> QED BY <2>1, <2>2 DEF IsInjective
  <1>5. ASSUME NEW k \in DOMAIN config.devices PROVE config.devices[k] # NULL
    <2>1. k \in DOMAIN files.device /\ config.devices[k] = StringOf(files.device[k].name)
      BY <1>5, ConfigIsFiles
    <2>2. files.device[k].name # NULL
      BY <1>1, <2>1, RegistryAssumption
    <2> QED BY <2>1, <2>2, StringIsWritten
  <1>6. ASSUME NEW k \in DOMAIN config.functions
        PROVE  /\ config.functions[k].name # NULL
               /\ NULL \notin ToSet(Strings(files.function[k].devices))
    <2>1. /\ k \in DOMAIN files.function
          /\ config.functions[k].name = StringOf(files.function[k].name)
          /\ ToSet(Strings(files.function[k].devices))
                = {d \in ToSet(files.function[k].devices) : d # Missing}
      BY <1>6, ConfigIsFiles
    <2>2. /\ files.function[k].name # NULL
          /\ IsSequence(files.function[k].devices)
          /\ ~Contains(files.function[k].devices, NULL)
      BY <1>1, <2>1, RegistryAssumption
    <2>3. NULL \notin ToSet(files.function[k].devices)
      BY <2>2, SequenceHasPlaces DEF Contains, ToSet
    <2> QED BY <2>1, <2>2, <2>3, StringIsWritten
  <1>7. ASSUME NEW k \in DOMAIN config.tests
        PROVE  config.tests[k].name # NULL /\ config.tests[k].function # NULL
    <2>1. /\ k \in DOMAIN files.test
          /\ config.tests[k].name = StringOf(files.test[k].name)
          /\ config.tests[k].function = StringOf(files.test[k].function)
      BY <1>7, ConfigIsFiles
    <2>2. files.test[k].name # NULL /\ files.test[k].function # NULL
      BY <1>1, <2>1, RegistryAssumption
    <2> QED BY <2>1, <2>2, StringIsWritten
  <1> QED BY <1>2, <1>3, <1>4, <1>5, <1>6, <1>7

----------------------------------------------------------------------------
(***************************************************************************)
(* The joins.                                                              *)
(***************************************************************************)

\* prepare_device_info: the devices that are defined and enabled.
LEMMA EnabledDevicesHold ==
    ASSUME ConfigRead
    PROVE  /\ EnabledDevices(config) \in Seq(ToSet(config.devices))
           /\ \A d : d \in ToSet(EnabledDevices(config)) <=> Enabled(d)
  <1> DEFINE T == ToSet(config.devices)
             I(k) == {j \in DOMAIN config.devices : config.devices[j] = config.bindings[k].device}
             One(k) == Selected(config.devices, LAMBDA d : d = config.bindings[k].device)
             ss == [k \in DOMAIN config.bindings |->
                       IF config.bindings[k].is_enabled THEN One(k) ELSE <<>>]
  <1>1. config.devices \in Seq(T) /\ IsSequence(config.bindings)
    BY ConfigIsFiles DEF IsSequence
  <1>2. ASSUME NEW k \in DOMAIN config.bindings
        PROVE  /\ One(k) \in Seq(T)
               /\ \A d : d \in ToSet(One(k)) <=> d \in T /\ d = config.bindings[k].device
    <2>1. One(k) = Taken(config.devices, I(k))
      <3>1. [j \in DOMAIN config.devices |-> IF j \in I(k) THEN <<config.devices[j]>> ELSE <<>>]
               = [j \in DOMAIN config.devices |->
                     IF config.devices[j] = config.bindings[k].device
                     THEN <<config.devices[j]>> ELSE <<>>]
        OBVIOUS
      <3> HIDE DEF I
      <3> QED BY <3>1 DEF Selected, Taken
    <2> HIDE DEF One, I, T
    <2>2. /\ Taken(config.devices, I(k)) \in Seq(T)
          /\ \A x : x \in ToSet(Taken(config.devices, I(k))) <=>
                       \E j \in DOMAIN config.devices : j \in I(k) /\ config.devices[j] = x
      BY <1>1, TakenAt
    <2>3. \A x : x \in T <=> \E j \in DOMAIN config.devices : config.devices[j] = x
      BY DEF T, ToSet
    <2> QED BY <2>1, <2>2, <2>3 DEF I
  <1> HIDE DEF One, T
  <1>3. ASSUME NEW k \in DOMAIN config.bindings
        PROVE  /\ ss[k] \in Seq(T)
               /\ \A d : d \in ToSet(ss[k]) <=>
                     config.bindings[k].is_enabled /\ d \in T /\ d = config.bindings[k].device
    <2>1. CASE config.bindings[k].is_enabled
      BY <1>2, <2>1
    <2>2. CASE ~config.bindings[k].is_enabled
      <3>1. ss[k] = <<>>
        BY <2>2
      <3> QED BY <2>2, <3>1 DEF ToSet
    <2> QED BY <2>1, <2>2
  <1>4. ss \in Seq(Seq(T)) /\ DOMAIN config.bindings = 1 .. Len(ss)
    <2>1. DOMAIN config.bindings = 1 .. Len(config.bindings) /\ Len(config.bindings) \in Nat
      BY <1>1, SequenceHasPlaces
    <2>2. ss = [k \in 1 .. Len(config.bindings) |-> ss[k]]
      BY <2>1
    <2>3. \A k \in DOMAIN config.bindings : ss[k] \in Seq(T)
      BY <1>3, Zenon
    <2> HIDE DEF ss
    <2> QED BY <2>1, <2>2, <2>3
  <1>5. EnabledDevices(config) = FlattenSeq(ss)
    BY DEF EnabledDevices, One
  <1> HIDE DEF ss
  <1>6. /\ FlattenSeq(ss) \in Seq(T)
        /\ \A d : d \in ToSet(FlattenSeq(ss)) <=> \E k \in 1 .. Len(ss) : d \in ToSet(ss[k])
    BY <1>4, FlattenHolds
  <1>7. ASSUME NEW d
        PROVE  d \in ToSet(EnabledDevices(config)) <=> Enabled(d)
    <2>1. d \in ToSet(EnabledDevices(config)) <=>
             /\ d \in T
             /\ \E k \in DOMAIN config.bindings :
                   config.bindings[k].is_enabled /\ config.bindings[k].device = d
      <3>1. d \in ToSet(FlattenSeq(ss)) <=> \E k \in DOMAIN config.bindings : d \in ToSet(ss[k])
        BY <1>4, <1>6
      <3>2. \A k \in DOMAIN config.bindings : d \in ToSet(ss[k]) <=>
               config.bindings[k].is_enabled /\ d \in T /\ d = config.bindings[k].device
        BY <1>3, Zenon
      <3> QED BY <1>5, <3>1, <3>2, Zenon
    <2>2. d \in T <=> \E k \in DOMAIN files.device : StringOf(files.device[k].name) = d
      BY ConfigIsFiles DEF T, ToSet
    <2>3. (\E k \in DOMAIN config.bindings :
              config.bindings[k].is_enabled /\ config.bindings[k].device = d)
          <=> \E k \in DOMAIN files.platform :
                 StringOf(files.platform[k].device) = d /\ files.platform[k].enable = TRUE
      BY ConfigIsFiles
    <2> QED BY <2>1, <2>2, <2>3 DEF Enabled
  <1> QED BY <1>5, <1>6, <1>7 DEF T

\* prepare_function_info: the functions all of whose devices are there.
LEMMA AvailableFunctionsHold ==
    ASSUME ConfigRead, NEW devices
    PROVE  /\ AvailableFunctions(config, devices) \in Seq(ToSet(config.functions))
           /\ \A f : f \in ToSet(AvailableFunctions(config, devices)) <=>
                 f \in ToSet(config.functions) /\ AllDevices(f, devices)
           /\ IsInjective(AvailableFunctions(config, devices))
  <1> DEFINE T == ToSet(config.functions)
             I == {j \in DOMAIN config.functions : AllDevices(config.functions[j], devices)}
  <1>1. config.functions \in Seq(T)
    BY ConfigIsFiles DEF IsSequence
  <1>2. AvailableFunctions(config, devices) = Taken(config.functions, I)
    <2>1. [j \in DOMAIN config.functions |-> IF j \in I THEN <<config.functions[j]>> ELSE <<>>]
             = [j \in DOMAIN config.functions |->
                   IF AllDevices(config.functions[j], devices)
                   THEN <<config.functions[j]>> ELSE <<>>]
      OBVIOUS
    <2> HIDE DEF I
    <2> QED BY <2>1 DEF AvailableFunctions, Selected, Taken
  <1> HIDE DEF T
  <1>3. \A j, k \in DOMAIN config.functions :
            {j, k} \subseteq I /\ config.functions[j] = config.functions[k] => j = k
    BY NamesAreUnique
  <1> HIDE DEF I
  <1>4. /\ Taken(config.functions, I) \in Seq(T)
        /\ \A x : x \in ToSet(Taken(config.functions, I)) <=>
                     \E j \in DOMAIN config.functions : j \in I /\ config.functions[j] = x
        /\ IsInjective(Taken(config.functions, I))
    BY <1>1, <1>3, TakenAt
  <1>5. \A f : f \in ToSet(AvailableFunctions(config, devices)) <=>
            f \in T /\ AllDevices(f, devices)
    BY <1>2, <1>4 DEF I, T, ToSet
  <1> QED BY <1>2, <1>4, <1>5 DEF T

\* prepare_test_manager_info: the tests of the functions, each once if the
\* functions have different names.
LEMMA TestsOfHold ==
    ASSUME ConfigRead, NEW F, NEW functions \in Seq(F)
    PROVE  /\ TestsOf(config, functions) \in Seq(ToSet(config.tests))
           /\ \A t : t \in ToSet(TestsOf(config, functions)) <=>
                 /\ t \in ToSet(config.tests)
                 /\ \E k \in DOMAIN functions : functions[k].name = t.function
           /\ (\A j, k \in DOMAIN functions :
                   (\E t \in ToSet(config.tests) : t.function = functions[j].name)
                   /\ functions[j].name = functions[k].name => j = k)
               => IsInjective(TestsOf(config, functions))
  <1> DEFINE T == ToSet(config.tests)
             I(k) == {j \in DOMAIN config.tests : config.tests[j].function = functions[k].name}
             ss == [k \in DOMAIN functions |->
                       Selected(config.tests, LAMBDA t : t.function = functions[k].name)]
  <1>1. config.tests \in Seq(T)
    BY ConfigIsFiles DEF IsSequence
  <1>2. ASSUME NEW k \in DOMAIN functions
        PROVE  /\ ss[k] \in Seq(T) /\ IsInjective(ss[k])
               /\ \A t : t \in ToSet(ss[k]) <=> t \in T /\ t.function = functions[k].name
    <2>1. ss[k] = Taken(config.tests, I(k))
      <3>1. [j \in DOMAIN config.tests |-> IF j \in I(k) THEN <<config.tests[j]>> ELSE <<>>]
               = [j \in DOMAIN config.tests |->
                     IF config.tests[j].function = functions[k].name
                     THEN <<config.tests[j]>> ELSE <<>>]
        OBVIOUS
      <3>2. ss[k] = Selected(config.tests, LAMBDA t : t.function = functions[k].name)
        OBVIOUS
      <3> HIDE DEF I, ss
      <3> QED BY <3>1, <3>2 DEF Selected, Taken
    <2>2. \A i, j \in DOMAIN config.tests :
              {i, j} \subseteq I(k) /\ config.tests[i] = config.tests[j] => i = j
      BY NamesAreUnique
    <2> HIDE DEF ss, I, T
    <2>3. /\ Taken(config.tests, I(k)) \in Seq(T)
          /\ \A x : x \in ToSet(Taken(config.tests, I(k))) <=>
                       \E j \in DOMAIN config.tests : j \in I(k) /\ config.tests[j] = x
          /\ IsInjective(Taken(config.tests, I(k)))
      BY <1>1, <2>2, TakenAt
    <2>4. \A x : x \in T <=> \E j \in DOMAIN config.tests : config.tests[j] = x
      BY DEF T, ToSet
    <2> QED BY <2>1, <2>3, <2>4 DEF I
  <1>3. TestsOf(config, functions) = FlattenSeq(ss)
    BY DEF TestsOf
  <1>4. ss \in Seq(Seq(T)) /\ Len(ss) = Len(functions) /\ DOMAIN functions = 1 .. Len(functions)
    <2>1. DOMAIN functions = 1 .. Len(functions) /\ Len(functions) \in Nat
      OBVIOUS
    <2>2. ss = [k \in 1 .. Len(functions) |-> ss[k]]
      BY <2>1
    <2> HIDE DEF ss
    <2> QED BY <1>2, <2>1, <2>2
  <1> HIDE DEF ss, T
  <1>5. /\ FlattenSeq(ss) \in Seq(T)
        /\ \A d : d \in ToSet(FlattenSeq(ss)) <=> \E k \in 1 .. Len(ss) : d \in ToSet(ss[k])
    BY <1>4, FlattenHolds
  <1>6. \A t : t \in ToSet(FlattenSeq(ss)) <=>
           t \in T /\ \E k \in DOMAIN functions : functions[k].name = t.function
    BY <1>2, <1>4, <1>5
  <1>7. ASSUME \A j, k \in DOMAIN functions :
                  (\E t \in T : t.function = functions[j].name)
                  /\ functions[j].name = functions[k].name => j = k
        PROVE  IsInjective(FlattenSeq(ss))
    <2>1. ASSUME NEW j \in 1 .. Len(ss), NEW k \in 1 .. Len(ss), NEW t,
                 t \in ToSet(ss[j]), t \in ToSet(ss[k])
          PROVE  j = k
      <3>1. j \in DOMAIN functions /\ k \in DOMAIN functions
        BY <1>4
      <3>2. t \in T /\ t.function = functions[j].name /\ t.function = functions[k].name
        BY <1>2, <2>1, <3>1
      <3> QED BY <1>7, <3>1, <3>2
    <2>2. \A j, k \in 1 .. Len(ss) : j # k => ToSet(ss[j]) \cap ToSet(ss[k]) = {}
      BY <2>1
    <2>3. \A k \in 1 .. Len(ss) : IsInjective(ss[k])
      BY <1>2, <1>4
    <2> QED BY <1>4, <2>2, <2>3, FlattenInjective
  <1> QED BY <1>3, <1>5, <1>6, <1>7 DEF T

\* A table is its entries, or a malloc'd rest of entries nobody wrote.
LEMMA TableHolds ==
    ASSUME NEW T, NEW entries \in Seq(T), NEW leftover, NEW t \in Table(entries, leftover)
    PROVE  /\ t \in Seq(T \union leftover)
           /\ t = entries \/ \A k \in DOMAIN t : t[k] \in leftover
           /\ \A x : x \notin leftover => (x \in ToSet(t) <=> x \in ToSet(entries))
  <1>1. CASE entries # <<>>
    <2>1. t = entries
      BY <1>1 DEF Table
    <2> QED BY <2>1
  <1>2. CASE entries = <<>>
    <2>1. PICK n \in HeapCount : t \in [1 .. n -> leftover]
      BY <1>2 DEF Table
    <2>2. n \in Nat
      BY RegistryAssumption
    <2>3. t \in Seq(T \union leftover) /\ \A k \in DOMAIN t : t[k] \in leftover
      BY <2>1, <2>2
    <2>4. ToSet(entries) = {}
      BY <1>2 DEF ToSet
    <2> QED BY <2>3, <2>4 DEF ToSet
  <1> QED BY <1>1, <1>2

\* What the three stages made of the configuration, and of one another.
DevicesLoaded == dm \in Table(EnabledDevices(config), Leftover)
FunctionsLoaded == fm \in Table(AvailableFunctions(config, dm), LeftoverFunction)
TestsLoaded == tm \in Table(TestsOf(config, fm), LeftoverTest)

\* device_manager_is_available: a device is in the table if it is enabled.
LEMMA DevicesAreEnabled ==
    ASSUME ConfigRead, DevicesLoaded
    PROVE  /\ dm \in Seq(ToSet(config.devices) \union Leftover)
           /\ \A d : d \notin Leftover => (Contains(dm, d) <=> Enabled(d))
  <1>1. /\ EnabledDevices(config) \in Seq(ToSet(config.devices))
        /\ \A d : d \in ToSet(EnabledDevices(config)) <=> Enabled(d)
    BY EnabledDevicesHold
  <1>2. /\ dm \in Seq(ToSet(config.devices) \union Leftover)
        /\ \A d : d \notin Leftover => (d \in ToSet(dm) <=> d \in ToSet(EnabledDevices(config)))
    BY <1>1, TableHolds DEF DevicesLoaded
  <1>3. \A d : Contains(dm, d) <=> d \in ToSet(dm)
    <2>1. DOMAIN dm = 1 .. Len(dm)
      BY <1>2
    <2> QED BY <2>1 DEF Contains, ToSet
  <1> QED BY <1>1, <1>2, <1>3

\* function_manager_is_available, from the configuration's functions.
LEMMA FunctionsAreThere ==
    ASSUME ConfigRead, FunctionsLoaded
    PROVE  /\ fm \in Seq(ToSet(config.functions) \union LeftoverFunction)
           /\ \A n : n \notin Leftover =>
                 (HasFunction(n) <=>
                     \E k \in DOMAIN config.functions :
                        config.functions[k].name = n /\ AllDevices(config.functions[k], dm))
           /\ \/ \A j, k \in DOMAIN fm : fm[j].name = fm[k].name => j = k
              \/ \A k \in DOMAIN fm : fm[k].name \in Leftover
  <1> DEFINE A == AvailableFunctions(config, dm)
             T == ToSet(config.functions)
  <1>1. /\ A \in Seq(T)
        /\ \A f : f \in ToSet(A) <=> f \in T /\ AllDevices(f, dm)
        /\ IsInjective(A)
    BY AvailableFunctionsHold
  <1> HIDE DEF A
  <1>2. /\ fm \in Seq(T \union LeftoverFunction)
        /\ fm = A \/ \A k \in DOMAIN fm : fm[k] \in LeftoverFunction
        /\ \A f : f \notin LeftoverFunction => (f \in ToSet(fm) <=> f \in ToSet(A))
    <2>1. fm \in Table(A, LeftoverFunction)
      BY DEF FunctionsLoaded, A
    <2> QED BY <1>1, <2>1, TableHolds
  <1>3. ASSUME NEW n, n \notin Leftover
        PROVE  HasFunction(n) <=>
                  \E k \in DOMAIN config.functions :
                     config.functions[k].name = n /\ AllDevices(config.functions[k], dm)
    <2>1. HasFunction(n) <=> \E f \in ToSet(fm) : f.name = n
      BY DEF HasFunction, ToSet
    <2>2. \A f : f.name = n => f \notin LeftoverFunction
      BY <1>3 DEF LeftoverFunction
    <2>3. (\E f \in ToSet(fm) : f.name = n) <=> \E f \in T : f.name = n /\ AllDevices(f, dm)
      BY <1>1, <1>2, <2>2
    <2> QED BY <2>1, <2>3 DEF ToSet
  <1>4. ASSUME fm = A, NEW j \in DOMAIN fm, NEW k \in DOMAIN fm, fm[j].name = fm[k].name
        PROVE  j = k
    <2>1. fm[j] \in T /\ fm[k] \in T
      BY <1>1, <1>4
    <2>2. PICK a \in DOMAIN config.functions : fm[j] = config.functions[a]
      BY <2>1 DEF ToSet
    <2>3. PICK b \in DOMAIN config.functions : fm[k] = config.functions[b]
      BY <2>1 DEF ToSet
    <2>4. a = b
      BY <1>4, <2>2, <2>3, NamesAreUnique
    <2>5. fm[j] = fm[k]
      BY <2>2, <2>3, <2>4
    <2> QED BY <1>1, <1>4, <2>5 DEF IsInjective
  <1>5. \A f \in LeftoverFunction : f.name \in Leftover
    BY DEF LeftoverFunction
  <1>6. \/ \A j, k \in DOMAIN fm : fm[j].name = fm[k].name => j = k
        \/ \A k \in DOMAIN fm : fm[k].name \in Leftover
    BY <1>2, <1>4, <1>5
  <1> QED BY <1>2, <1>3, <1>6 DEF T

\* test_manager_test_is_available, from the configuration's tests.
LEMMA TestsAreThere ==
    ASSUME ConfigRead, FunctionsLoaded, TestsLoaded
    PROVE  /\ tm \in Seq(ToSet(config.tests) \union LeftoverTest)
           /\ \A k \in DOMAIN tm : tm[k].name \notin Leftover =>
                 tm[k] \in ToSet(config.tests) /\ HasFunction(tm[k].function)
           /\ \A t \in ToSet(config.tests) : t.name \notin Leftover =>
                 (IsAvailable(t.name) <=> HasFunction(t.function))
           /\ \/ \A j, k \in DOMAIN tm :
                    tm[j].name \notin Leftover /\ tm[j].name = tm[k].name => j = k
              \/ \A n : HasFunction(n) => n \in Leftover
  <1> DEFINE A == TestsOf(config, fm)
             T == ToSet(config.tests)
             Apart == \A j, k \in DOMAIN fm : fm[j].name = fm[k].name => j = k
  <1>0. /\ fm \in Seq(ToSet(config.functions) \union LeftoverFunction)
        /\ Apart \/ \A k \in DOMAIN fm : fm[k].name \in Leftover
    BY FunctionsAreThere
  <1>1. /\ A \in Seq(T)
        /\ \A t : t \in ToSet(A) <=> t \in T /\ \E k \in DOMAIN fm : fm[k].name = t.function
        /\ (\A j, k \in DOMAIN fm :
                (\E t \in T : t.function = fm[j].name) /\ fm[j].name = fm[k].name => j = k)
              => IsInjective(A)
    BY <1>0, TestsOfHold
  <1>2. \A t : t \in ToSet(A) <=> t \in T /\ HasFunction(t.function)
    BY <1>1 DEF HasFunction
  <1>3. Apart => IsInjective(A)
    BY <1>1
  <1>4. ~Apart => \A n : HasFunction(n) => n \in Leftover
    BY <1>0 DEF HasFunction
  <1> HIDE DEF A, Apart
  <1>5. /\ tm \in Seq(T \union LeftoverTest)
        /\ tm = A \/ \A k \in DOMAIN tm : tm[k] \in LeftoverTest
        /\ \A t : t \notin LeftoverTest => (t \in ToSet(tm) <=> t \in ToSet(A))
    <2>1. tm \in Table(A, LeftoverTest)
      BY DEF TestsLoaded, A
    <2>2. A \in Seq(T)
      BY <1>1
    <2> HIDE DEF T
    <2> QED BY <2>1, <2>2, TableHolds
  <1>6. \A t, u \in T : t.name = u.name => t = u
    BY NamesAreUnique DEF ToSet
  <1> HIDE DEF T
  <1>7. \A t \in LeftoverTest : t.name \in Leftover
    BY DEF LeftoverTest
  <1>8. ASSUME NEW k \in DOMAIN tm, tm[k].name \notin Leftover
        PROVE  tm = A /\ tm[k] \in T /\ HasFunction(tm[k].function)
    <2>1. tm[k] \notin LeftoverTest /\ tm[k] \in ToSet(tm)
      BY <1>7, <1>8 DEF ToSet
    <2> QED BY <1>2, <1>5, <2>1
  <1>9. ASSUME NEW t \in T, t.name \notin Leftover
        PROVE  IsAvailable(t.name) <=> HasFunction(t.function)
    <2>1. t \notin LeftoverTest
      BY <1>7, <1>9
    <2>2. IsAvailable(t.name) <=> t \in ToSet(tm)
      <3>1. ASSUME IsAvailable(t.name) PROVE t \in ToSet(tm)
        <4>1. PICK k \in DOMAIN tm : tm[k].name = t.name
          BY <3>1 DEF IsAvailable
        <4>2. tm[k] \in T
          BY <1>8, <1>9, <4>1
        <4>3. tm[k] = t
          BY <1>6, <4>1, <4>2
        <4> QED BY <4>3 DEF ToSet
      <3>2. ASSUME t \in ToSet(tm) PROVE IsAvailable(t.name)
        BY <3>2 DEF IsAvailable, ToSet
      <3> QED BY <3>1, <3>2
    <2> QED BY <1>2, <1>5, <2>1, <2>2
  <1>10. ASSUME Apart, NEW j \in DOMAIN tm, NEW k \in DOMAIN tm,
                tm[j].name \notin Leftover, tm[j].name = tm[k].name
         PROVE  j = k
    <2>1. tm[j] = tm[k] /\ tm = A
      BY <1>6, <1>8, <1>10
    <2> QED BY <1>3, <1>10, <2>1 DEF IsInjective
  <1> QED BY <1>4, <1>5, <1>8, <1>9, <1>10 DEF T

\* What CompleteTestsAreSupported says, of the loaded tables.
LEMMA TestIsSupported ==
    ASSUME ConfigRead, DevicesLoaded, FunctionsLoaded, TestsLoaded,
           NEW t \in ToSet(config.tests), IsComplete(t)
    PROVE  IsAvailable(t.name) <=> Supported(t)
  <1>0. t.name \notin Leftover /\ t.function \notin Leftover
    <2>1. t.name # NULL /\ t.function # NULL
      BY NamesAreUnique DEF ToSet
    <2> QED BY <2>1 DEF Leftover, IsComplete
  <1>1. /\ DOMAIN config.functions = DOMAIN files.function
        /\ \A k \in DOMAIN files.function :
              config.functions[k].name = StringOf(files.function[k].name)
    BY ConfigIsFiles
  <1>2. IsAvailable(t.name) <=>
           \E k \in DOMAIN config.functions :
              config.functions[k].name = t.function /\ AllDevices(config.functions[k], dm)
    BY <1>0, TestsAreThere, FunctionsAreThere
  <1>3. ASSUME NEW k \in DOMAIN config.functions, config.functions[k].name = t.function
        PROVE  AllDevices(config.functions[k], dm) <=>
                  LET devices == {d \in ToSet(files.function[k].devices) : d # Missing}
                  IN  devices # {} /\ \A d \in devices : Enabled(d)
    <2> DEFINE D == Strings(files.function[k].devices)
    <2>1. /\ IsSequence(D) /\ NULL \notin ToSet(D)
          /\ ToSet(D) = {d \in ToSet(files.function[k].devices) : d # Missing}
      BY <1>1, ConfigIsFiles, NamesAreUnique
    <2>2. DOMAIN D = 1 .. Len(D) /\ Len(D) \in Nat
      BY <2>1, SequenceHasPlaces
    <2>3. Fits(k) /\ ~Contains(D, Unnamed)
      BY <1>1, <1>3 DEF IsComplete, Fits
    <2>4. config.functions[k].devices = D
      BY <1>1, <2>3, ConfigIsFiles
    <2> HIDE DEF D
    <2>5. \A d \in ToSet(D) : d \notin Leftover
      <3>1. Unnamed \notin ToSet(D)
        BY <2>2, <2>3 DEF Contains, ToSet
      <3> QED BY <2>1, <3>1 DEF Leftover
    <2>6. D # <<>> <=> ToSet(D) # {}
      <3>1. ASSUME ToSet(D) = {} PROVE D = <<>>
        <4>1. D \in Seq({})
          BY <2>1, <3>1 DEF IsSequence
        <4> QED BY <4>1
      <3>2. ASSUME D = <<>> PROVE ToSet(D) = {}
        BY <3>2 DEF ToSet
      <3> QED BY <3>1, <3>2
    <2>7. (\A j \in DOMAIN D : Contains(dm, D[j])) <=> \A d \in ToSet(D) : Enabled(d)
      <3>1. (\A j \in DOMAIN D : Contains(dm, D[j])) <=> \A d \in ToSet(D) : Contains(dm, d)
        BY DEF ToSet
      <3>2. \A d \in ToSet(D) : Contains(dm, d) <=> Enabled(d)
        BY <2>5, DevicesAreEnabled
      <3> QED BY <3>1, <3>2
    <2>8. AllDevices(config.functions[k], dm)
             <=> D # <<>> /\ \A j \in DOMAIN D : Contains(dm, D[j])
      BY <2>4 DEF AllDevices
    <2> QED BY <2>1, <2>6, <2>7, <2>8
  <1> QED BY <1>1, <1>2, <1>3 DEF Supported

\* validation_system_register_all_descriptors takes names of tests it was
\* given, and only those with an implementation.
LEMMA DescriptorsHold ==
    ASSUME NEW T, NEW tests \in Seq(T)
    PROVE  Descriptors(tests) \in
              Seq({tests[k].name : k \in {j \in DOMAIN tests : tests[j].name \in Implemented}})
  <1> DEFINE I == {j \in DOMAIN tests : tests[j].name \in Implemented}
             N == {tests[k].name : k \in I}
             known == Taken(tests, I)
             L == Len(known)
  <1>1. Selected(tests, LAMBDA t : t.name \in Implemented) = known
    <2>1. [k \in DOMAIN tests |-> IF k \in I THEN <<tests[k]>> ELSE <<>>]
             = [k \in DOMAIN tests |-> IF tests[k].name \in Implemented THEN <<tests[k]>> ELSE <<>>]
      OBVIOUS
    <2> HIDE DEF I
    <2> QED BY <2>1 DEF Selected, Taken
  <1> HIDE DEF known
  <1>2. /\ known \in Seq(T)
        /\ \A x : x \in ToSet(known) <=> \E k \in DOMAIN tests : k \in I /\ tests[k] = x
    <2> HIDE DEF I
    <2> QED BY TakenAt DEF known
  <1>3. L \in Nat /\ \A k \in 1 .. L : known[k].name \in N
    <2>1. DOMAIN known = 1 .. L /\ L \in Nat
      BY <1>2
    <2>2. \A k \in 1 .. L : known[k] \in ToSet(known)
      BY <2>1 DEF ToSet
    <2> QED BY <1>2, <2>1, <2>2
  <1> HIDE DEF N, L
  <1>4. \A s \in Seq(N), k \in 1 .. L : AddDescriptor(s, known[k]) \in Seq(N)
    BY <1>3 DEF AddDescriptor
  <1> DEFINE Step(s, k) == AddDescriptor(s, known[k])
             Rec(g) == [n \in 0 .. L |-> IF n = 0 THEN <<>> ELSE Step(g[n - 1], n)]
             h == CHOOSE g : g = Rec(g)
  <1>5. Descriptors(tests) = h[L]
    BY <1>1 DEF Descriptors, L
  <1>6. \A s \in Seq(N), k \in 1 .. L : Step(s, k) \in Seq(N)
    BY <1>4
  <1> HIDE DEF Step
  <1>7. \E f \in [0 .. L -> Seq(N)] : f = Rec(f)
    <2> DEFINE Grows(f, n) == f[0] = <<>> /\ \A k \in 1 .. n : f[k] = Step(f[k - 1], k)
               S == {n \in 0 .. L : \E f \in [0 .. n -> Seq(N)] : Grows(f, n)}
    <2>1. 0 \in S
      <3> DEFINE g == [k \in 0 .. 0 |-> <<>>]
      <3>1. g \in [0 .. 0 -> Seq(N)]
        BY EmptySeq
      <3>2. Grows(g, 0)
        OBVIOUS
      <3> HIDE DEF g, Grows
      <3>3. \E f \in [0 .. 0 -> Seq(N)] : Grows(f, 0)
        BY <3>1, <3>2
      <3> QED BY <1>3, <3>3
    <2>2. ASSUME NEW n \in 0 .. L, n < L /\ n \in S
          PROVE  n + 1 \in S
      <3>1. PICK f \in [0 .. n -> Seq(N)] : Grows(f, n)
        BY <2>2
      <3> DEFINE g == [k \in 0 .. n + 1 |-> IF k <= n THEN f[k] ELSE Step(f[n], n + 1)]
      <3>2. f[n] \in Seq(N) /\ n + 1 \in 1 .. L
        BY <1>3, <2>2
      <3>3. Step(f[n], n + 1) \in Seq(N)
        BY <1>6, <3>2
      <3>4. g \in [0 .. n + 1 -> Seq(N)]
        BY <3>3
      <3>5. ASSUME NEW k \in 1 .. n + 1 PROVE g[k] = Step(g[k - 1], k)
        <4>1. CASE k <= n
          <5>1. k \in 1 .. n /\ g[k] = f[k] /\ g[k - 1] = f[k - 1]
            BY <4>1
          <5> QED BY <3>1, <5>1
        <4>2. CASE k = n + 1
          <5>1. g[k] = Step(f[n], n + 1) /\ g[k - 1] = f[n]
            BY <4>2
          <5> QED BY <4>2, <5>1
        <4>3. k <= n \/ k = n + 1
          BY <1>3
        <4> QED BY <4>1, <4>2, <4>3
      <3>6. g[0] = <<>>
        BY <3>1
      <3>7. Grows(g, n + 1)
        BY <3>5, <3>6
      <3> HIDE DEF g, Grows
      <3>8. \E e \in [0 .. n + 1 -> Seq(N)] : Grows(e, n + 1)
        BY <3>4, <3>7
      <3> QED BY <1>3, <2>2, <3>8
    <2>3. \A n \in 0 .. L : n \in S
      <3> HIDE DEF S
      <3> QED BY <1>3, <2>1, <2>2, Climb
    <2>4. PICK f \in [0 .. L -> Seq(N)] : Grows(f, L)
      <3> HIDE DEF Grows
      <3> QED BY <1>3, <2>3
    <2>5. \A n \in 0 .. L : f[n] = IF n = 0 THEN <<>> ELSE Step(f[n - 1], n)
      <3> SUFFICES ASSUME NEW n \in 0 .. L
                   PROVE  f[n] = IF n = 0 THEN <<>> ELSE Step(f[n - 1], n)
        OBVIOUS
      <3>1. CASE n = 0
        BY <2>4, <3>1
      <3>2. CASE n # 0
        <4>1. n \in 1 .. L
          BY <1>3, <3>2
        <4> QED BY <2>4, <3>2, <4>1
      <3> QED BY <3>1, <3>2
    <2>6. f = [n \in 0 .. L |-> f[n]]
      OBVIOUS
    <2>7. f = Rec(f)
      BY <2>5, <2>6
    <2> HIDE DEF Rec
    <2> QED BY <2>7
  <1>8. h = Rec(h)
    <2> HIDE DEF Rec
    <2> QED BY <1>7
  <1>9. /\ h[0] = <<>>
        /\ \A k \in 1 .. L : h[k] = Step(h[k - 1], k)
    <2> HIDE DEF h
    <2> QED BY <1>3, <1>8
  <1> HIDE DEF h, Rec
  <1>10. h[L] \in Seq(N)
    <2> DEFINE S == {n \in 0 .. L : h[n] \in Seq(N)}
    <2>1. 0 \in S
      <3>1. h[0] = <<>> /\ <<>> \in Seq(N)
        BY <1>9, EmptySeq
      <3>2. h[0] \in Seq(N) /\ 0 \in 0 .. L
        BY <1>3, <3>1
      <3> QED BY <3>2
    <2>2. ASSUME NEW n \in 0 .. L, n < L /\ n \in S PROVE n + 1 \in S
      <3> DEFINE m == n + 1
      <3>1. m \in 1 .. L /\ m - 1 = n
        BY <1>3, <2>2
      <3> HIDE DEF m
      <3>2. h[n] \in Seq(N)
        BY <2>2
      <3>3. h[m] = Step(h[n], m)
        BY <1>9, <3>1
      <3>4. h[m] \in Seq(N)
        BY <1>6, <3>1, <3>2, <3>3
      <3>5. m \in S
        BY <1>3, <3>1, <3>4
      <3> QED BY <3>5 DEF m
    <2>3. \A n \in 0 .. L : n \in S
      <3> HIDE DEF S
      <3> QED BY <1>3, <2>1, <2>2, Climb
    <2> QED BY <1>3, <2>3
  <1> QED BY <1>5, <1>10 DEF N

----------------------------------------------------------------------------
(***************************************************************************)
(* The tables along main's way, and what is done with them at its end.     *)
(***************************************************************************)

\* Before the configuration is there, the tables and outputs are empty.
NothingLoaded ==
    /\ dm = <<>> /\ fm = <<>> /\ tm = <<>>
    /\ validations = <<>>
    /\ listed = [runnable |-> <<>>, unimplemented |-> <<>>, unavailable |-> <<>>]
    /\ registered = <<>>

\* What main has of the tables by the time it is at a place of its way up.
LoadedSoFar ==
    /\ mpc \in {"logger", "arguments", "runtime", "config", "load"} => NothingLoaded
    /\ mpc \in {"device", "function", "test", "engine", "plugin", "validation", "act"}
          => ConfigRead
    /\ mpc \in {"function", "test", "engine", "plugin", "validation", "act"} => DevicesLoaded
    /\ mpc \in {"test", "engine", "plugin", "validation", "act"} => FunctionsLoaded
    /\ mpc \in {"engine", "plugin", "validation", "act"} => TestsLoaded
    /\ mpc = "act" => ToSet(validations) \subseteq Implemented

\* What RunnableIsRegistered says once a run-all is over.
RegisteredAsListed ==
    /\ ToSet(registered) = ToSet(Runnable)
    /\ \A j, k \in DOMAIN registered :
          registered[j] = registered[k] /\ FunctionOf(registered[j]) # Unnamed => j = k
    /\ \A n \in ToSet(registered) : HasFunction(FunctionOf(n))

\* The invariant of the tables, which rests on StartupInv.
TablesInv ==
    /\ RegistryTypeOK
    /\ arguments \in CommandLine
    /\ status \in {Success, Failure, UsageError}
    /\ LoadedSoFar
    /\ RunnableIsRegistered

\* The configuration's test names, as a list.
LEMMA NamesOfTests ==
    ASSUME ConfigRead
    PROVE  Names \in Seq(TestName) /\ ToSet(Names) = TestName
  <1>1. DOMAIN config.tests = 1 .. Len(config.tests) /\ Len(config.tests) \in Nat
    BY ConfigIsFiles, SequenceHasPlaces
  <1>2. \A k \in DOMAIN config.tests : config.tests[k].name \in TestName
    BY DEF TestName
  <1>3. Names = [k \in 1 .. Len(config.tests) |-> config.tests[k].name]
    BY <1>1 DEF Names
  <1> QED BY <1>1, <1>2, <1>3 DEF TestName, ToSet

\* list_tests: each heading is a list of the configuration's tests.
LEMMA HeadingsHold ==
    ASSUME ConfigRead
    PROVE  /\ Runnable \in Seq(TestName)
           /\ Unimplemented \in Seq(TestName)
           /\ Unavailable \in Seq(TestName)
           /\ ToSet(Runnable) = {n \in TestName : IsAvailable(n) /\ IsImplemented(n)}
  <1> DEFINE T == TestName
             R == {k \in DOMAIN Names : IsAvailable(Names[k]) /\ IsImplemented(Names[k])}
             U == {k \in DOMAIN Names : IsAvailable(Names[k]) /\ ~IsImplemented(Names[k])}
             A == {k \in DOMAIN Names : ~IsAvailable(Names[k])}
  <1>1. Names \in Seq(T) /\ ToSet(Names) = T
    BY NamesOfTests
  <1>2. Runnable = Taken(Names, R)
    <2>1. [k \in DOMAIN Names |-> IF k \in R THEN <<Names[k]>> ELSE <<>>]
             = [k \in DOMAIN Names |-> IF IsAvailable(Names[k]) /\ IsImplemented(Names[k])
                                        THEN <<Names[k]>> ELSE <<>>]
      OBVIOUS
    <2> HIDE DEF R
    <2> QED BY <2>1 DEF Runnable, Selected, Taken
  <1>3. Unimplemented = Taken(Names, U)
    <2>1. [k \in DOMAIN Names |-> IF k \in U THEN <<Names[k]>> ELSE <<>>]
             = [k \in DOMAIN Names |-> IF IsAvailable(Names[k]) /\ ~IsImplemented(Names[k])
                                        THEN <<Names[k]>> ELSE <<>>]
      OBVIOUS
    <2> HIDE DEF U
    <2> QED BY <2>1 DEF Unimplemented, Selected, Taken
  <1>4. Unavailable = Taken(Names, A)
    <2>1. [k \in DOMAIN Names |-> IF k \in A THEN <<Names[k]>> ELSE <<>>]
             = [k \in DOMAIN Names |-> IF ~IsAvailable(Names[k]) THEN <<Names[k]>> ELSE <<>>]
      OBVIOUS
    <2> HIDE DEF A
    <2> QED BY <2>1 DEF Unavailable, Selected, Taken
  <1> HIDE DEF T, R, U, A
  <1>5. /\ Runnable \in Seq(T) /\ Unimplemented \in Seq(T) /\ Unavailable \in Seq(T)
        /\ \A x : x \in ToSet(Runnable) <=> \E k \in DOMAIN Names : k \in R /\ Names[k] = x
    BY <1>1, <1>2, <1>3, <1>4, TakenAt
  <1>6. ToSet(Runnable) = {n \in T : IsAvailable(n) /\ IsImplemented(n)}
    BY <1>1, <1>5 DEF R, ToSet
  <1> QED BY <1>5, <1>6 DEF T

\* A set of numbers has a least one.
LEMMA MinIsThere ==
    ASSUME NEW S \in SUBSET Nat, S # {}
    PROVE  Min(S) \in S
  <1>1. PICK x \in S : \A y \in S : <<y, x>> \notin OpToRel(<, Nat)
    BY NatLessThanWellFounded, WFMin, Zenon
  <1>2. ASSUME NEW y \in S, ~(x <= y)
        PROVE  FALSE
    <2>1. <<y, x>> \in Nat \X Nat /\ y < x
      BY <1>2
    <2>2. <<y, x>> \in OpToRel(<, Nat)
      BY <2>1 DEF OpToRel
    <2> QED BY <2>2, <1>1
  <1> QED BY <1>2 DEF Min

\* test_manager_get_test finds an entry with the name if there is one.
LEMMA LookupFinds ==
    ASSUME NEW T, tm \in Seq(T), NEW n, IsAvailable(n)
    PROVE  \E k \in DOMAIN tm : tm[k].name = n /\ FunctionOf(n) = tm[k].function
  <1> DEFINE I == {k \in 1 .. Len(tm) : tm[k].name = n}
  <1>0. DOMAIN tm = 1 .. Len(tm) /\ Len(tm) \in Nat
    OBVIOUS
  <1>1. I # {} /\ I \in SUBSET Nat
    BY <1>0 DEF IsAvailable
  <1>2. SelectInSeq(tm, LAMBDA t : t.name = n) = IF I # {} THEN Min(I) ELSE 0
    BY DEF SelectInSeq
  <1>3. Min(I) \in I
    <2> HIDE DEF I
    <2> QED BY <1>1, MinIsThere
  <1> QED BY <1>0, <1>1, <1>2, <1>3 DEF FunctionOf

\* A name with an implementation that the table holds is a configured test's,
\* and the lookup of its function succeeds.
LEMMA AvailableIsWhole ==
    ASSUME ConfigRead, FunctionsLoaded, TestsLoaded, NEW n, n \notin Leftover, IsAvailable(n)
    PROVE  n \in TestName /\ HasFunction(FunctionOf(n)) /\ FunctionOf(n) # NULL
  <1>1. PICK k \in DOMAIN tm : tm[k].name = n /\ FunctionOf(n) = tm[k].function
    BY TestsAreThere, LookupFinds
  <1>2. tm[k] \in ToSet(config.tests) /\ HasFunction(tm[k].function)
    BY <1>1, TestsAreThere
  <1>3. tm[k].function # NULL
    BY <1>2, NamesAreUnique DEF ToSet
  <1> QED BY <1>1, <1>2, <1>3 DEF TestName, ToSet

\* The configuration and its tables are read the same after a step that leaves
\* them alone.
LEMMA ReadingStays ==
    ASSUME UNCHANGED <<files, config>>
    PROVE  /\ (\E n \in 0 .. 4 : UsableFiles(n) /\ config = Loaded(n))
                 => (\E n \in 0 .. 4 : UsableFiles(n) /\ config = Loaded(n))'
           /\ ConfigRead' <=> ConfigRead
           /\ TestName' = TestName
  <1>1. ASSUME NEW n \in 0 .. 4
        PROVE  Loaded(n)' = Loaded(n) /\ (UsableFiles(n)' <=> UsableFiles(n))
    BY DEF Loaded, UsableFiles
  <1>2. TestName' = TestName
    BY DEF TestName
  <1>3. Loaded(4)' = Loaded(4) /\ (UsableFiles(4)' <=> UsableFiles(4))
    BY <1>1
  <1>4. ConfigRead' <=> ConfigRead
    BY <1>3 DEF ConfigRead
  <1> QED BY <1>1, <1>2, <1>4

\* What was registered stays what is listed while the tables stay.
LEMMA RegisteredStays ==
    ASSUME UNCHANGED data, RegisteredAsListed
    PROVE  RegisteredAsListed'
  <1>1. Runnable' = Runnable
    BY DEF Runnable, Selected, Names, IsAvailable, IsImplemented, data, tables
  <1>2. \A n : HasFunction(n)' <=> HasFunction(n)
    BY DEF HasFunction, data, tables
  <1>3. ASSUME NEW n PROVE FunctionOf(n)' = FunctionOf(n)
    <2> DEFINE place == SelectInSeq(tm, LAMBDA t : t.name = n)
    <2>1. tm' = tm
      BY DEF data, tables
    <2>2. place' = place
      BY <2>1 DEF SelectInSeq
    <2> QED BY <2>1, <2>2 DEF FunctionOf
  <1> QED BY <1>1, <1>2, <1>3 DEF RegisteredAsListed, data, outputs

\* run-all registers what list calls runnable.
LEMMA RegisterAllHolds ==
    ASSUME ConfigRead, FunctionsLoaded, TestsLoaded,
           ToSet(validations) \subseteq Implemented, validations \in Seq(TestName),
           RegisterAll
    PROVE  registered' \in Seq(TestName) /\ RegisteredAsListed'
  <1> DEFINE names == [k \in DOMAIN tm |-> tm[k].name]
             I == {k \in DOMAIN names : PassesChecks(names[k])}
             N == {tm[k].name : k \in DOMAIN tm}
             r == Taken(names, I)
  <1>1. registered' = r
    <2>1. [k \in DOMAIN names |-> IF k \in I THEN <<names[k]>> ELSE <<>>]
             = [k \in DOMAIN names |-> IF PassesChecks(names[k]) THEN <<names[k]>> ELSE <<>>]
      OBVIOUS
    <2>2. registered' = Selected(names, LAMBDA n : PassesChecks(n))
      BY DEF RegisterAll
    <2> HIDE DEF I, names
    <2> QED BY <2>1, <2>2 DEF Selected, Taken
  <1>2. names \in Seq(N) /\ \A k \in DOMAIN tm : k \in DOMAIN names /\ names[k] = tm[k].name
    <2>1. DOMAIN tm = 1 .. Len(tm) /\ Len(tm) \in Nat
      BY TestsAreThere
    <2>2. \A k \in DOMAIN tm : tm[k].name \in N
      OBVIOUS
    <2>3. names = [k \in 1 .. Len(tm) |-> tm[k].name]
      BY <2>1
    <2> HIDE DEF N
    <2> QED BY <2>1, <2>2, <2>3
  <1>3. DOMAIN names = DOMAIN tm
    OBVIOUS
  <1>4. \A n : IsImplemented(n) => n \in TestName /\ n \notin Leftover
    <2>1. \A n : IsImplemented(n) => n \in ToSet(validations)
      BY DEF IsImplemented, Contains, ToSet
    <2>2. \A n \in Implemented : n \notin Leftover
      BY RegistryAssumption DEF Leftover
    <2>3. ToSet(validations) \subseteq TestName
      BY DEF ToSet
    <2> QED BY <2>1, <2>2, <2>3
  <1>5. ASSUME NEW n
        PROVE  /\ PassesChecks(n) <=> n \in TestName /\ IsAvailable(n) /\ IsImplemented(n)
               /\ PassesChecks(n) => FunctionOf(n) # NULL
    <2>1. ASSUME IsAvailable(n), IsImplemented(n)
          PROVE  n \in TestName /\ HasFunction(FunctionOf(n)) /\ FunctionOf(n) # NULL
      BY <1>4, <2>1, AvailableIsWhole
    <2> QED BY <2>1 DEF PassesChecks
  <1>6. ASSUME \A j, k \in DOMAIN tm :
                   tm[j].name \notin Leftover /\ tm[j].name = tm[k].name => j = k
        PROVE  \A j, k \in DOMAIN names : {j, k} \subseteq I /\ names[j] = names[k] => j = k
    <2>1. \A j \in I : names[j] \notin Leftover
      BY <1>4 DEF PassesChecks
    <2> QED BY <1>2, <1>3, <1>6, <2>1
  <1> HIDE DEF names, I
  <1>7. /\ r \in Seq(N)
        /\ \A x : x \in ToSet(r) <=> \E k \in DOMAIN names : k \in I /\ names[k] = x
        /\ (\A j, k \in DOMAIN names : {j, k} \subseteq I /\ names[j] = names[k] => j = k)
              => IsInjective(r)
    BY <1>2, TakenAt
  <1> HIDE DEF r
  <1>8. \A n : n \in ToSet(r) <=> n \in TestName /\ IsAvailable(n) /\ IsImplemented(n)
    <2>1. \A n : n \in ToSet(r) <=> PassesChecks(n) /\ \E k \in DOMAIN tm : tm[k].name = n
      BY <1>2, <1>3, <1>7 DEF I
    <2> QED BY <1>5, <2>1 DEF IsAvailable
  <1>9. ToSet(r) = ToSet(Runnable)
    BY <1>8, HeadingsHold
  <1>10. \A n \in ToSet(r) : HasFunction(FunctionOf(n)) /\ FunctionOf(n) # NULL
    <2>1. \A n \in ToSet(r) : PassesChecks(n)
      BY <1>5, <1>8
    <2> QED BY <1>5, <2>1 DEF PassesChecks
  <1>16. ASSUME NEW j \in DOMAIN r, NEW k \in DOMAIN r, r[j] = r[k], FunctionOf(r[j]) # Unnamed
         PROVE  j = k
    <2>1. FunctionOf(r[j]) \notin Leftover /\ HasFunction(FunctionOf(r[j]))
      BY <1>10, <1>16 DEF ToSet, Leftover
    <2>2. IsInjective(r)
      BY <1>6, <1>7, <2>1, TestsAreThere
    <2> QED BY <1>16, <2>2 DEF IsInjective
  <1>11. r \in Seq(TestName)
    <2>1. DOMAIN r = 1 .. Len(r) /\ Len(r) \in Nat /\ r = [k \in 1 .. Len(r) |-> r[k]]
      BY <1>7
    <2>2. \A k \in 1 .. Len(r) : r[k] \in TestName
      BY <1>8, <2>1 DEF ToSet
    <2> QED BY <2>1, <2>2
  <1>12. Runnable' = Runnable
    BY DEF Runnable, Selected, Names, IsAvailable, IsImplemented, RegisterAll, tables
  <1>13. \A n : HasFunction(n)' <=> HasFunction(n)
    BY DEF HasFunction, RegisterAll, tables
  <1>14. ASSUME NEW n PROVE FunctionOf(n)' = FunctionOf(n)
    <2> DEFINE place == SelectInSeq(tm, LAMBDA t : t.name = n)
    <2>1. tm' = tm
      BY DEF RegisterAll, tables
    <2>2. place' = place
      BY <2>1 DEF SelectInSeq
    <2> QED BY <2>1, <2>2 DEF FunctionOf
  <1>15. TestName' = TestName
    BY DEF TestName, RegisterAll
  <1>17. \A n : FunctionOf(n)' = FunctionOf(n)
    BY <1>14
  <1>18. (\A j, k \in DOMAIN registered :
              registered[j] = registered[k] /\ FunctionOf(registered[j]) # Unnamed => j = k)'
    <2> SUFFICES ASSUME NEW j \in DOMAIN registered', NEW k \in DOMAIN registered',
                        registered'[j] = registered'[k], FunctionOf(registered[j])' # Unnamed
                 PROVE  j = k
      OBVIOUS
    <2>1. j \in DOMAIN r /\ k \in DOMAIN r /\ r[j] = r[k]
      BY <1>1
    <2>2. FunctionOf(registered[j])' = FunctionOf(r[j])
      BY <1>1, <1>17
    <2> QED BY <1>16, <2>1, <2>2
  <1>19. (\A n \in ToSet(registered) : HasFunction(FunctionOf(n)))'
    BY <1>1, <1>10, <1>13, <1>14
  <1>20. (ToSet(registered) = ToSet(Runnable))'
    BY <1>1, <1>9, <1>12
  <1> QED BY <1>1, <1>11, <1>15, <1>18, <1>19, <1>20 DEF RegisteredAsListed

\* The types after a step that changes tables or outputs.
LEMMA TypesFollow ==
    ASSUME RegistryTypeOK, UNCHANGED <<files, config>>,
           dm' \in Seq(ToSet(config.devices) \union Leftover),
           fm' \in Seq(ToSet(config.functions) \union LeftoverFunction),
           tm' \in Seq(ToSet(config.tests) \union LeftoverTest),
           validations' \in Seq(TestName),
           listed'.runnable \in Seq(TestName),
           listed'.unimplemented \in Seq(TestName),
           listed'.unavailable \in Seq(TestName),
           registered' \in Seq(TestName)
    PROVE  RegistryTypeOK'
  <1>1. TestName' = TestName /\ (\E n \in 0 .. 4 : UsableFiles(n) /\ config = Loaded(n))'
    BY ReadingStays DEF RegistryTypeOK
  <1>2. files' \in Directory
    BY DEF RegistryTypeOK
  <1> QED BY <1>1, <1>2 DEF RegistryTypeOK

\* The same types, before the step.
LEMMA TypesAreNow ==
    ASSUME RegistryTypeOK
    PROVE  /\ dm \in Seq(ToSet(config.devices) \union Leftover)
           /\ fm \in Seq(ToSet(config.functions) \union LeftoverFunction)
           /\ tm \in Seq(ToSet(config.tests) \union LeftoverTest)
           /\ validations \in Seq(TestName)
           /\ listed.runnable \in Seq(TestName)
           /\ listed.unimplemented \in Seq(TestName)
           /\ listed.unavailable \in Seq(TestName)
           /\ registered \in Seq(TestName)
  BY DEF RegistryTypeOK

\* Nothing has been loaded at the start.
LEMMA TablesInit == Init => TablesInv
  <1> SUFFICES ASSUME Init PROVE TablesInv
    OBVIOUS
  <1>1. NothingLoaded
    BY DEF Init, RegistryInit, NothingLoaded
  <1>2. config = Loaded(0) /\ UsableFiles(0)
    BY DEF Init, RegistryInit, Loaded, UsableFiles, Empty
  <1>3. RegistryTypeOK
    BY <1>1, <1>2 DEF Init, RegistryInit, RegistryTypeOK, NothingLoaded
  <1> QED BY <1>1, <1>3 DEF Init, TablesInv, LoadedSoFar, RunnableIsRegistered

\* A step that leaves the tables alone and does not go up further than they do.
LEMMA TablesStay ==
    ASSUME TablesInv, UNCHANGED data, UNCHANGED arguments,
           status' \in {Success, Failure, UsageError},
           \/ mpc' \in {"unwind", "cleanup", "deinit", "exit"}
           \/ mpc' = mpc
           \/ /\ mpc \in {"logger", "arguments", "runtime", "config"}
              /\ mpc' \in {"arguments", "runtime", "config", "load"}
           \/ mpc = "engine" /\ mpc' = "plugin"
           \/ mpc = "plugin" /\ mpc' = "validation",
           \/ Options(arguments).action # "run-all"
           \/ ~({"engine", "validation"} \subseteq built')
           \/ mpc' \notin {"cleanup", "deinit", "exit"}
           \/ built' = built /\ mpc \in {"cleanup", "deinit", "exit"}
    PROVE  TablesInv'
  <1>1. RegistryTypeOK'
    BY TypesAreNow, TypesFollow DEF TablesInv, data, tables, outputs
  <1>2. /\ ConfigRead' <=> ConfigRead
        /\ NothingLoaded' <=> NothingLoaded
        /\ DevicesLoaded' <=> DevicesLoaded
        /\ FunctionsLoaded' <=> FunctionsLoaded
        /\ TestsLoaded' <=> TestsLoaded
    BY ReadingStays DEF data, tables, outputs, NothingLoaded, DevicesLoaded, FunctionsLoaded,
       TestsLoaded
  <1>3. validations' = validations
    BY DEF data, tables
  <1>4. LoadedSoFar'
    BY <1>2, <1>3 DEF TablesInv, LoadedSoFar
  <1>5. Options(arguments)' = Options(arguments)
    BY DEF Options
  <1>6. RunnableIsRegistered'
    <2>1. ASSUME Options(arguments).action = "run-all", {"engine", "validation"} \subseteq built',
                 mpc' \in {"cleanup", "deinit", "exit"}
          PROVE  RegisteredAsListed
      BY <2>1 DEF TablesInv, RunnableIsRegistered, RegisteredAsListed
    <2> QED BY <1>5, <2>1, RegisteredStays DEF RunnableIsRegistered, RegisteredAsListed
  <1> QED BY <1>1, <1>4, <1>6 DEF TablesInv

\* The steps that only build, end or take down.
LEMMA ControlStepsKeepTables ==
    ASSUME TablesInv, StartupInv,
           \/ BuildLogger \/ NoLogger \/ ParseArguments \/ BuildRuntime \/ BuildConfig
           \/ BuildEngine \/ NoEngine \/ BuildPlugins \/ InitFails \/ NoValidations
           \/ Cleanup \/ Deinit \/ Unwound \/ Exit \/ UNCHANGED vars
    PROVE  TablesInv'
  <1> USE DEF TablesInv
  <1>0. /\ mpc = "arguments" => "engine" \notin built
        /\ mpc = "logger" => "engine" \notin built
        /\ mpc = "validation" => "validation" \notin built
        /\ mpc = "unwind" => "validation" \notin built
    BY DEF StartupInv, BuiltInOrder, RuntimeIsWhole, DueInTurn, Base, Core, Managers, Ready, GoingUp
  <1>1. CASE BuildLogger
    BY <1>1, TablesStay DEF BuildLogger, Build
  <1>2. CASE NoLogger
    BY <1>0, <1>2, TablesStay DEF NoLogger
  <1>3. CASE ParseArguments
    BY <1>0, <1>3, TablesStay DEF ParseArguments
  <1>4. CASE BuildRuntime
    BY <1>4, TablesStay DEF BuildRuntime, Build
  <1>5. CASE BuildConfig
    BY <1>5, TablesStay DEF BuildConfig, Build
  <1>6. CASE BuildEngine
    BY <1>6, TablesStay DEF BuildEngine, Build
  <1>7. CASE NoEngine
    BY <1>7, TablesStay DEF NoEngine
  <1>8. CASE BuildPlugins
    BY <1>8, TablesStay DEF BuildPlugins
  <1>9. CASE InitFails
    BY <1>9, TablesStay DEF InitFails, GiveUp
  <1>10. CASE NoValidations
    BY <1>0, <1>10, TablesStay DEF NoValidations
  <1>11. CASE Cleanup
    BY <1>11, TablesStay DEF Cleanup
  <1>12. CASE Deinit
    BY <1>12, TablesStay DEF Deinit
  <1>13. CASE Unwound
    BY <1>0, <1>13, TablesStay DEF Unwound
  <1>14. CASE Exit
    BY <1>14, TablesStay DEF Exit
  <1>15. CASE UNCHANGED vars
    BY <1>15, TablesStay DEF vars, control, data
  <1> QED BY <1>1, <1>2, <1>3, <1>4, <1>5, <1>6, <1>7, <1>8, <1>9, <1>10, <1>11, <1>12,
             <1>13, <1>14, <1>15

\* config_manager_load fills the lists while no table is there.
LEMMA LoadConfigKeepsTables == ASSUME TablesInv, LoadConfig PROVE TablesInv'
  <1>1. PICK n \in 0 .. 4 :
            /\ UsableFiles(n) /\ config' = Loaded(n)
            /\ mpc' = IF n = 4 THEN "device" ELSE "unwind"
    BY DEF LoadConfig
  <1>2. NothingLoaded /\ mpc = "load" /\ files \in Directory
    BY DEF LoadConfig, TablesInv, LoadedSoFar, RegistryTypeOK
  <1>3. UNCHANGED <<arguments, status, files, tables, outputs>>
    BY DEF LoadConfig
  <1>4. \A k \in 0 .. 4 : Loaded(k)' = Loaded(k) /\ (UsableFiles(k)' <=> UsableFiles(k))
    BY <1>3 DEF Loaded, UsableFiles
  <1>5. \E k \in 0 .. 4 : UsableFiles(k)' /\ config' = Loaded(k)'
    BY <1>1, <1>4
  <1>6. (\E k \in 0 .. 4 : UsableFiles(k) /\ config = Loaded(k))'
    BY <1>5
  <1>7. NothingLoaded' /\ files' \in Directory
    BY <1>2, <1>3 DEF NothingLoaded, tables, outputs
  <1>8. RegistryTypeOK'
    BY <1>6, <1>7 DEF RegistryTypeOK, NothingLoaded
  <1>9. n = 4 => ConfigRead'
    BY <1>1, <1>3, <1>4, <1>7 DEF ConfigRead
  <1>10. LoadedSoFar'
    BY <1>1, <1>7, <1>9 DEF LoadedSoFar
  <1> QED BY <1>1, <1>3, <1>8, <1>10 DEF TablesInv, RunnableIsRegistered

\* The four steps that fill a table.
LEMMA LoadingKeepsTables ==
    ASSUME TablesInv, BuildDevices \/ BuildFunctions \/ BuildTests \/ BuildValidations
    PROVE  TablesInv'
  <1>1. /\ UNCHANGED <<files, config, outputs, arguments, status>>
        /\ mpc' \notin {"cleanup", "deinit", "exit"}
        /\ ConfigRead
    BY DEF BuildDevices, BuildFunctions, BuildTests, BuildValidations, LoadDevices, LoadFunctions,
       LoadTests, LoadValidations, Build, TablesInv, LoadedSoFar
  <1>2. RunnableIsRegistered'
    BY <1>1 DEF RunnableIsRegistered
  <1>3. ConfigRead'
    BY <1>1, ReadingStays
  <1>4. RegistryTypeOK
    BY DEF TablesInv
  <1>5. CASE BuildDevices
    <2>1. /\ mpc = "device" /\ mpc' = "function"
          /\ dm' \in Table(EnabledDevices(config), Leftover)
          /\ UNCHANGED <<fm, tm, validations>>
      BY <1>5 DEF BuildDevices, Build, LoadDevices
    <2>2. DevicesLoaded'
      BY <1>1, <2>1 DEF DevicesLoaded
    <2>3. dm' \in Seq(ToSet(config.devices) \union Leftover)
      BY <1>1, <1>3, <2>2, TableHolds, EnabledDevicesHold, <2>1
    <2>4. RegistryTypeOK'
      BY <1>1, <1>4, <2>1, <2>3, TypesAreNow, TypesFollow DEF outputs
    <2>5. LoadedSoFar'
      BY <1>3, <2>1, <2>2 DEF LoadedSoFar
    <2> QED BY <1>1, <1>2, <2>4, <2>5 DEF TablesInv
  <1>6. CASE BuildFunctions
    <2>1. /\ mpc = "function" /\ mpc' = "test"
          /\ fm' \in Table(AvailableFunctions(config, dm), LeftoverFunction)
          /\ UNCHANGED <<dm, tm, validations>>
      BY <1>6 DEF BuildFunctions, Build, LoadFunctions
    <2>2. DevicesLoaded
      BY <2>1 DEF TablesInv, LoadedSoFar
    <2>3. DevicesLoaded' /\ FunctionsLoaded'
      BY <1>1, <2>1, <2>2 DEF DevicesLoaded, FunctionsLoaded
    <2>4. fm' \in Seq(ToSet(config.functions) \union LeftoverFunction)
      BY <1>1, <2>1, TableHolds, AvailableFunctionsHold
    <2>5. RegistryTypeOK'
      BY <1>1, <1>4, <2>1, <2>4, TypesAreNow, TypesFollow DEF outputs
    <2>6. LoadedSoFar'
      BY <1>3, <2>1, <2>3 DEF LoadedSoFar
    <2> QED BY <1>1, <1>2, <2>5, <2>6 DEF TablesInv
  <1>7. CASE BuildTests
    <2>1. /\ mpc = "test" /\ mpc' = "engine"
          /\ tm' \in Table(TestsOf(config, fm), LeftoverTest)
          /\ UNCHANGED <<dm, fm, validations>>
      BY <1>7 DEF BuildTests, Build, LoadTests
    <2>2. DevicesLoaded /\ FunctionsLoaded
      BY <2>1 DEF TablesInv, LoadedSoFar
    <2>3. DevicesLoaded' /\ FunctionsLoaded' /\ TestsLoaded'
      BY <1>1, <2>1, <2>2 DEF DevicesLoaded, FunctionsLoaded, TestsLoaded
    <2>4. tm' \in Seq(ToSet(config.tests) \union LeftoverTest)
      <3>1. fm \in Seq(ToSet(config.functions) \union LeftoverFunction)
        BY <1>1, <2>2, FunctionsAreThere
      <3>2. TestsOf(config, fm) \in Seq(ToSet(config.tests))
        BY <1>1, <3>1, TestsOfHold
      <3> QED BY <2>1, <3>2, TableHolds
    <2>5. RegistryTypeOK'
      BY <1>1, <1>4, <2>1, <2>4, TypesAreNow, TypesFollow DEF outputs
    <2>6. LoadedSoFar'
      BY <1>3, <2>1, <2>3 DEF LoadedSoFar
    <2> QED BY <1>1, <1>2, <2>5, <2>6 DEF TablesInv
  <1>8. CASE BuildValidations
    <2>1. /\ mpc = "validation" /\ mpc' = "act"
          /\ validations' = Descriptors(tm)
          /\ UNCHANGED <<dm, fm, tm>>
      BY <1>8 DEF BuildValidations, Build, LoadValidations
    <2>2. DevicesLoaded /\ FunctionsLoaded /\ TestsLoaded
      BY <2>1 DEF TablesInv, LoadedSoFar
    <2>3. DevicesLoaded' /\ FunctionsLoaded' /\ TestsLoaded'
      BY <1>1, <2>1, <2>2 DEF DevicesLoaded, FunctionsLoaded, TestsLoaded
    <2> DEFINE N == {tm[k].name : k \in {j \in DOMAIN tm : tm[j].name \in Implemented}}
    <2>4. validations' \in Seq(N)
      <3>1. tm \in Seq(ToSet(config.tests) \union LeftoverTest)
        BY <1>1, <2>2, TestsAreThere
      <3> QED BY <2>1, <3>1, DescriptorsHold
    <2>5. N \subseteq TestName /\ N \subseteq Implemented
      <3>1. ASSUME NEW k \in DOMAIN tm, tm[k].name \in Implemented
            PROVE  tm[k].name \in TestName
        <4>1. tm[k].name \notin Leftover
          BY <3>1, RegistryAssumption DEF Leftover
        <4>2. tm[k] \in ToSet(config.tests)
          BY <1>1, <2>2, <4>1, TestsAreThere
        <4> QED BY <4>2 DEF TestName, ToSet
      <3> QED BY <3>1
    <2> HIDE DEF N
    <2>6. validations' \in Seq(TestName) /\ ToSet(validations') \subseteq Implemented
      BY <2>4, <2>5 DEF ToSet
    <2>7. RegistryTypeOK'
      BY <1>1, <1>4, <2>1, <2>6, TypesAreNow, TypesFollow DEF outputs
    <2>8. LoadedSoFar'
      BY <1>3, <2>1, <2>3, <2>6 DEF LoadedSoFar
    <2> QED BY <1>1, <1>2, <2>7, <2>8 DEF TablesInv
  <1> QED BY <1>5, <1>6, <1>7, <1>8

\* What main was asked for: list, run and run-all.
LEMMA ActingKeepsTables ==
    ASSUME TablesInv, StartupInv, List \/ Run \/ RunAll
    PROVE  TablesInv'
  <1> USE DEF Success, Failure, UsageError
  <1>1. /\ mpc = "act" /\ mpc' = "cleanup"
        /\ UNCHANGED <<files, config, tables, arguments, built>>
        /\ status' \in {Success, Failure, UsageError}
    <2>1. \A name : RegisterOne(name) => UNCHANGED <<files, config, tables>>
      BY DEF RegisterOne
    <2>2. status \in {Success, Failure, UsageError}
      BY DEF TablesInv
    <2> QED BY <2>1, <2>2 DEF List, ListTests, Run, RunAll, RegisterAll, data
  <1>2. /\ ConfigRead /\ FunctionsLoaded /\ TestsLoaded
        /\ ToSet(validations) \subseteq Implemented
    BY <1>1 DEF TablesInv, LoadedSoFar
  <1>3. RegistryTypeOK
    BY DEF TablesInv
  <1>4. LoadedSoFar'
    BY <1>1 DEF LoadedSoFar
  <1>5. Options(arguments)' = Options(arguments)
    BY <1>1 DEF Options
  <1>6. CASE List
    <2>1. registered' = registered
      BY <1>6 DEF List, ListTests
    <2>2. /\ listed'.runnable \in Seq(TestName)
          /\ listed'.unimplemented \in Seq(TestName)
          /\ listed'.unavailable \in Seq(TestName)
      <3>1. <<>> \in Seq(TestName)
        OBVIOUS
      <3>2. /\ listed'.runnable \in {Runnable, <<>>}
            /\ listed'.unimplemented \in {Unimplemented, <<>>}
            /\ listed'.unavailable \in {Unavailable, <<>>}
        BY <1>6 DEF List, ListTests
      <3> QED BY <1>2, <3>1, <3>2, HeadingsHold
    <2>3. RegistryTypeOK'
      BY <1>1, <1>3, <2>1, <2>2, TypesAreNow, TypesFollow DEF tables
    <2>4. RunnableIsRegistered'
      BY <1>5, <1>6 DEF List, RunnableIsRegistered
    <2> QED BY <1>1, <1>4, <2>3, <2>4 DEF TablesInv
  <1>7. CASE Run
    <2>1. listed' = listed /\ registered' \in Seq(TestName)
      <3>1. CASE UNCHANGED data
        BY <1>3, <3>1, TypesAreNow DEF data, outputs
      <3>2. ASSUME NEW name, RegisterOne(name)
            PROVE  listed' = listed /\ registered' \in Seq(TestName)
        <4>1. ASSUME PassesChecks(name) PROVE name \in TestName
          <5>1. name \in ToSet(validations)
            BY <4>1 DEF PassesChecks, IsImplemented, Contains, ToSet
          <5>2. validations \in Seq(TestName)
            BY <1>3, TypesAreNow
          <5> QED BY <5>1, <5>2 DEF ToSet
        <4>2. registered' = IF PassesChecks(name) THEN <<name>> ELSE <<>>
          BY <3>2 DEF RegisterOne
        <4>3. listed' = listed
          BY <3>2 DEF RegisterOne
        <4> QED BY <4>1, <4>2, <4>3
      <3>3. UNCHANGED data \/ RegisterOne(Options(arguments).test)
        BY <1>7 DEF Run
      <3> QED BY <3>1, <3>2, <3>3
    <2>2. RegistryTypeOK'
      BY <1>1, <1>3, <2>1, TypesAreNow, TypesFollow DEF tables
    <2>3. RunnableIsRegistered'
      BY <1>5, <1>7 DEF Run, RunnableIsRegistered
    <2> QED BY <1>1, <1>4, <2>2, <2>3 DEF TablesInv
  <1>8. CASE RunAll
    <2>1. CASE HasEngine
      <3>1. RegisterAll
        BY <1>8, <2>1 DEF RunAll
      <3>2. listed' = listed
        BY <3>1 DEF RegisterAll
      <3>3. registered' \in Seq(TestName) /\ RegisteredAsListed'
        BY <1>2, <1>3, <3>1, TypesAreNow, RegisterAllHolds
      <3>4. RegistryTypeOK'
        BY <1>1, <1>3, <3>2, <3>3, TypesAreNow, TypesFollow DEF tables
      <3>5. RunnableIsRegistered'
        BY <3>3 DEF RegisteredAsListed, RunnableIsRegistered
      <3> QED BY <1>1, <1>4, <3>4, <3>5 DEF TablesInv
    <2>2. CASE ~HasEngine
      <3>1. UNCHANGED data
        BY <1>8, <2>2 DEF RunAll
      <3> QED BY <1>1, <2>2, <3>1, TablesStay DEF HasEngine
    <2> QED BY <2>1, <2>2
  <1> QED BY <1>6, <1>7, <1>8

----------------------------------------------------------------------------
(***************************************************************************)
(* The theorems about the tables.                                          *)
(***************************************************************************)

\* Whatever the files hold, the tables hold what main's place says.
LEMMA TablesAlways == Spec => [](StartupInv /\ TablesInv)
  <1>1. Init => TablesInv
    BY TablesInit
  <1>2. StartupInv /\ TablesInv /\ [Next]_vars => TablesInv'
    <2> SUFFICES ASSUME StartupInv, TablesInv, [Next]_vars PROVE TablesInv'
      OBVIOUS
    <2>1. CASE LoadConfig
      BY <2>1, LoadConfigKeepsTables
    <2>2. CASE BuildDevices \/ BuildFunctions \/ BuildTests \/ BuildValidations
      BY <2>2, LoadingKeepsTables
    <2>3. CASE List \/ Run \/ RunAll
      BY <2>3, ActingKeepsTables
    <2>4. CASE ~(\/ LoadConfig
                 \/ BuildDevices \/ BuildFunctions \/ BuildTests \/ BuildValidations
                 \/ List \/ Run \/ RunAll)
      BY <2>4, ControlStepsKeepTables DEF Next
    <2> QED BY <2>1, <2>2, <2>3, <2>4
  <1> QED BY <1>1, <1>2, StartupInvariant, PTL DEF Spec

\* The tables are lists of configured devices, functions and tests, or of
\* entries nobody wrote; what is listed and registered are test names.
THEOREM StartupTypeCorrect == Spec => []TypeOK
  <1>1. StartupInv /\ TablesInv => TypeOK
    <2> SUFFICES ASSUME StartupInv, TablesInv PROVE TypeOK
      OBVIOUS
    <2>1. freed \in [Object -> Nat]
      BY DEF StartupInv, ControlOK
    <2> QED BY <2>1 DEF StartupInv, ControlOK, GoingUp, TablesInv, TypeOK
  <1> QED BY <1>1, TablesAlways, PTL

\* The joins of dm.c, function-manager.c and test-manager.c lose and invent no
\* test that the files describe in full, whatever else the files and the memory
\* of the tables hold.
THEOREM CompleteTestsAreAvailable == Spec => []CompleteTestsAreSupported
  <1>1. TablesInv => CompleteTestsAreSupported
    <2> SUFFICES ASSUME TablesInv, mpc \in {"validation", "act"}
                 PROVE  CompleteTestsAreSupported
      BY DEF CompleteTestsAreSupported
    <2>1. ConfigRead /\ DevicesLoaded /\ FunctionsLoaded /\ TestsLoaded
      BY DEF TablesInv, LoadedSoFar
    <2> QED BY <2>1, TestIsSupported DEF CompleteTestsAreSupported
  <1> QED BY <1>1, TablesAlways, PTL

\* run-all hands the engine the tests that list calls runnable, each once that
\* names a function.
THEOREM RunAllRegistersRunnable == Spec => []RunnableIsRegistered
  <1>1. TablesInv => RunnableIsRegistered
    BY DEF TablesInv
  <1> QED BY <1>1, TablesAlways, PTL
=============================================================================
