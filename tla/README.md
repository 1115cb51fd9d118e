# A TLA+ development of the hardware test framework

The program validates a board: it reads four configuration files, works out
which tests the platform supports, and runs them on a pool of worker threads
that own devices while a test uses them. The modules here are translated from
the C sources under `src/src`; line numbers below refer to them. `PROJECT.json`
maps every definition to its lines.

## 1. The system

| Part | State | Operations | Who calls it |
|---|---|---|---|
| Configuration (`config/*.c`) | the four files' lists | load, get by index | managers, `main` |
| Device, function, test manager (`services/dm.c`, `function-manager.c`, `test-manager.c`) | a table and a count each | init (a join with the stage before), lookups by name | runtime, resource manager, scheduler, workers |
| Validation system (`validation/validation-system.c`) | descriptors by test name | init, register, register_all, is_implemented | `main` |
| Test engine (`services/test-engine.c`) | registered tests, instances, ring of instances, `running`, workers | init, register, execute, execute_all, get_result, deinit; worker loop | `main`, its own threads |
| Scheduler (`services/test-scheduler.c`) | slots, pending array and its count | submit, get_next_instance | `main` (through execute), workers |
| Resource manager (`services/resource-manager.c`) | device, state, owner | register, is_available, acquire, release | engine init, scheduler, workers |
| Logger (`common/logger.c`) | static ring, `running`, one worker | init, set_level, log, deinit | every thread |
| Runtime (`services/runtime.c`) | pointers to all managers | init (a cascade), deinit | `main` |
| Plugin manager (`services/plugin-manager.c`) | table of plugins with a lock, library handles | load, register, get, unload | nobody loads yet; tests look plugins up |
| Validation runtime (`services/validation-runtime.c`) | pointer to the runtime | open_gpio, close_gpio | tests |
| GPIO HAL and GPIO plugin (`hal/gpio`, `plugins/gpio_linux`) | context per handle: configuration, line requests, chips | open, configure, read, write, close | tests |
| I2C plugin (`plugins/i2c_linux`) | context: descriptor and configuration | open, set configuration, transfer, close | nobody yet |
| Status indication test (`validation/status_indication_test`) | its handle | setup, execute, cleanup | workers |
| Test reporter (`services/test-reporter.c`) | results, summary, a lock | collect, get_summary, print | nobody yet |
| CLI parser (`cli/cli-parser.c`) | none | cli_parse | `main` |

How they interact. `main` starts the logger's worker, parses its arguments,
builds the runtime (a call chain, one thread) and with it, in
`test_engine_init`, the pool. From then on `main`, the workers and the logger's
worker share: the ring with its lock and condition variable, the resource
manager with its lock, the scheduler without any lock, `running` without lock on
most paths, the logger's ring with its lock.

What is hard here: condition-variable waits against pushes and the stop; flags
read before they are written (`running`, `pending_count`, the managers' counts);
a pool that comes up while a creation fails; ownership of devices across
failing acquires and failing setups; the array of pending tests, changed from
all threads without a lock; a poll with a limit for results that may never come;
the join of sleeping threads. `PROJECT.json` lists them under `hazards`, each at
its line.

What makes each part correct:

- resource manager: exclusive ownership, all devices or none, nothing leaks,
  only the owner gives back;
- queue: first in, first out; no lost wake-up; nobody runs an unwritten slot;
- worker: whatever fails, cleanup and release follow, and every queued test
  with something to execute gets a verdict;
- engine: no use after free, bounded waits, and what is dispatched at all;
- scheduler: a worker is handed only what was submitted;
- logger: each accepted message is printed once, in order, before deinit
  returns; deinit returns;
- managers: a test that is described in full is available exactly when its
  function's devices are enabled, and what is listed as runnable is what gets
  registered;
- runtime and `main`: whatever step of the start fails, what was built is taken
  down once, no object loses a manager it keeps a pointer to, and the exit
  status is true;
- devices: the lines a test drives are those the platform file names, each
  configure takes all its lines or gives them back, what the plugin table names
  is mapped until it is unloaded itself, and an I2C transfer reaches the slave
  it was configured for;
- results: a summary is one of whole results, and success of a run of all tests
  is earned.

## 2. Modules and code

**`ResourceManager`** models `resource-manager.c`. Each operation runs in one
critical section and is one action. `offered`/`registered` are the table,
`state` and `owner` its columns, `phase[i]` the caller's protocol in
`test_engine_worker`: acquire, whose answer is ignored, then release, always.
`Grantable` is the scan of `is_available` and `acquire`, with its quirk that an
empty table objects to nothing. Devices are registered before the first worker
exists, so no acquire happens before `Started`.

**`WorkFifo`** is the abstract specification of the queue: a bounded line.
**`ExecutionQueue`** is the code: array, two indices, count, `running`, and each
worker's place: loop condition (read without the lock), pop, waiting, woken,
run, exited. `pthread_cond_wait` is split into releasing the lock (`PopWait`) and
the wake-up by `Signal` or without a reason (`SpuriousWakeup`). The module begins
where `test_engine_init` has created the workers: `running` holds anything until
`Start`, its last statement, and a worker that reads it false before that has
left for good, so any number of them may be gone when the engine is up. Pushes
come from anybody at any time after that; `life` tells how far the engine is.

**`TestEngine`** is the closed program: `main`, `test_engine_init` with one step
per created worker, a creation that may fail at any worker, registration,
execution, polls, and `test_engine_deinit`. `running` and `pending_count` start
with any value, because nothing writes them before they are read. `mpc` is
`main`'s place, `next` its loop index. In this module only the program itself
can push, so it shows what reaches the queue (nothing, see section 4).

**`WorkerPool`** composes `WorkFifo` and `ResourceManager` (by INSTANCE) into the
worker's iteration: take, acquire, setup, execute, cleanup, release, with setup
and execute free to fail. An instance outside `Executable` has no execute
operation: its state stays QUEUED unless the setup fails. Any of the workers may
have been lost at the start (`Init`). The pool is open: `Feed` pushes instances,
each once. The two levels fit because `ExecutionQueue` implements `WorkFifo`.
`verdict` is the state in the instance a worker was given, which is a copy.

**`TestScheduler`** is `test-scheduler.c`, one step per access to a shared field,
counters read and written in two steps, `uint32_t` arithmetic modulo `WordSize`.
`Submitter` (main) and `Asker` (workers) are any threads, and no step waits for
another's, since the code takes no lock. The count starts with any value of
`HeapCount`, a slot with null or a wild pointer. A store outside the array, or a
wild pointer that is followed, sets `crashed`, and the scheduler stops there.

**`Scheduling`** puts `TestScheduler` over `ResourceManager`: the scheduler's answers
come from the table of devices, while workers acquire and release between any
two steps of its scan, for instances it handed out and for others. One instance
that was handed to two workers is run by one after the other here:
`ResourceManager` follows a caller by its instance, so what this module says of
devices is said of runs of different instances.

**`Registry`** is the path from the files to runnable tests: the parsers, with
members that a file leaves out, the three joins, the lookups, the listing and
the registration. The joins are operators on sequences; their loops that keep the
entries that pass a test are `Selected`, in **`Lists`**. A function keeps its first
`MaxDevices` devices (`Fitting`). A table whose join found nothing has the count
that `malloc` left (`HeapCount`), with entries that were never written: their
names are empty, where memory is zero, or something no file has (`Leftover`).
**`Startup`** is `main` around it: `cli_parse`, the cascade of `runtime_manager_init`
with a failure at each step (`InitFails` lists what each takes down), the null
engine that it does not notice (`NoEngine`), the command, and the deinit calls,
one step each. `built` are the pointers that are set, `freed` counts deinits.

**`Reporting`** has the readers of results: the loop of `run_all_tests` with its
polls and counters, and `test_reporter_collect` and `get_summary` from any threads.
The engine is open: each `test_engine_get_result` is answered -1 or any state, so
the module does not rest on how results come about. What today's engine answers
is in `TestEngine` (`ResultFound`): never anything, because the workers run copies
and the instances that are searched keep their empty names. `told` records what
`main` heard.

**`Logger`** models `logger.c`: the ring, its worker, start, reset after the
start, level, log from any thread, stop, join. `accepted` and `printed` are
histories.

**`GpioDevice`** models `gpio-device.c` under `gpio-hal.c`: a context per handle with
its cached configuration and its line requests. Applying a configuration first
releases the old lines (`Configure`), then takes the new ones one by one, so
handles of several workers interleave between lines. `LineFails` stands for the six
failure branches of the loop, which all unwind in the same way. `holder` and
`opened` are the kernel's and libgpiod's side. `ReadLevel` is a read of a line.
**`Binding`** is how a `configuration` object of `platform.json` becomes a
configuration: `get_gpio` fills the table of parameters, with its limit
(`Parameters`), and `validation_runtime_open_gpio` reads it back (`GpioConfiguration`).
`IsBinding` is what the file may hold, of any length. Single members are put
behind a full table without a look; what is read back from there is any
parameter of `Stray` (`Tables`). `Fits` says that the table has room up to the
first polarity.

**`PluginManager`** has the table under its lock and loading without it, as its
callers would use them, with unload for a plugin in the table as well as for one
that was refused; **`I2cDevice`** the contexts over file descriptors, with
the two system calls of `i2c_open_bus` as steps that may fail.
**`DeviceAccess`** composes these four: a test opens a handle through the plugin
table, configures it as bound without looking at the answer (the setup of the
status indication test), writes and reconfigures, and closes. `BoundLines` and
`BoundPolarities` state what the file says in the terms of `gpio-hal.h`: a chip
for each line and a polarity for each line.

Each `MC...` module fixes small constants. Definitions marked *Slip* in a module
are wrong variants of the definition that follows them (a dropped test, a
forgotten signal); `PROJECT.json` pairs each property with one that breaks it.

### What the models leave out

- Data: names are model values, messages are numbers; log formatting, printing,
  times and `execution_time_ms` are absent.
- NULL arguments. Failing allocations are in `Startup`, one for each object.
- An instance is an identity. In `test_engine_execute` it is a local variable
  whose address goes to the scheduler: the pointer dangles once the call has
  returned. No module reads through it.
- The function of a test is always found by a worker: `Registry` shows it for
  tests that were registered (`RunnableIsRegistered`), which is why `WorkerPool`
  has no branch for the failing lookup (`test-engine.c:250`).
- `TestEngine` takes the devices of its tests to be one shared device
  (`ResourceFree`); with nothing dispatched they are free for any assignment.
- `TestEngine` does not go on after a failed `test_engine_init`; `Startup` does, with
  the null engine, whose operations all answer -1.
- `TestEngine` has no step for a full table of instances or a failed push in
  `test_engine_execute` (`test-engine.c:463`, `484`): both need an accepted test, and
  no test is ever accepted in the closed program.
- What the engine does with a run is any outcome in `Startup` and any answer in
  `Reporting`; `TestEngine` shows which of them the closed program has.
- Calls into a library that is no longer mapped: tests in `DeviceAccess` go on only
  while their plugin is `Callable`.
- A test's `execute` in `DeviceAccess` writes and reconfigures; that of the only
  test in the repository has its calls compiled out.
- The loads in `PluginManager` follow the protocol of `plugin-manager.h` (load,
  then register, unload once, when refused or when done). Nothing in the program
  calls them, and the plugins do not export the symbol that load looks for, so
  its failing branch is the one the present plugins take.
- A failing `plugin_manager_get` in a test's setup opens nothing; `DeviceAccess` has
  no step for it.
- The logger runs one life cycle, as in `main`.
- GPIO lines are outputs: the level of an input is its environment's. The levels
  of two tests that share a handle are not modelled, since no code shares one.
- Unlocked reads of `running` and `fifo.count` are atomic steps: they may see the
  value before or after any other thread's step, not a torn one.

## 3. Runs

| Run | Checks | Bounds |
|---|---|---|
| `scheduling` | ownership, leaks, give-back, what is handed out | 3 devices, 3 functions that overlap in a chain, 3 instances, one of them with the workers from the start; main and 2 workers, 2 pending slots, 4-valued words, every initial count (480 thousand states) |
| `queue` | waits, FIFO refinement, liveness | 3 workers, any of which may be lost at the start, 2 instances (pushed any number of times), 3 slots |
| `engine` | what the closed program does | 3 workers, 2 tests, 2 pending slots, 2 polls |
| `engine_submit`, `engine_deinit` | expected violations, section 5 | the same |
| `pool` | devices, cleanups and verdicts over whole runs | 2 workers, any of which may be gone, 4 instances, two of one function, one without an execute operation, 3 devices, queue of 2 (101 thousand states) |
| `pool_parallel` | expected violation | the same |
| `logger` | order, flush, termination | 2 levels, ring of 2, 5 messages |
| `startup` | take-down, status, availability, listing against registration | 2 x 4 x 3 x 5 contents of the four files and one directory for each unusable file, 2 devices to a function, 2 unwritten entries, 4 command lines, any failing step (2 million states) |
| `startup_order` | expected violation | the same |
| `access` | leaks, all or nothing, lines as bound, reading back, libraries, I2C slaves and descriptors | 2 handles, 2 chips of 2 lines, 2 lines to a configuration, 6 bindings and 3 configurations, a table of 8 parameters with 2 values for what lies behind it, 2 loads of one plugin; 2 I2C contexts, 2 configurations, 2 descriptors (264 thousand states) |
| `reporting` | summaries, counters, success | 3 tests, 2 runnable, 2 polls, any state as an answer, 2 collectors, 2 results (811 thousand states) |

Why the bounds suffice. The ring sizes let indices wrap and the ring fill; three
workers are one to wake, one that is busy and comes back, and one that sleeps
on, and with any of them lost at the start there is every smaller pool. In
`engine` two tests are enough for a second registration, two pending slots for
every answer of submit with `pending_count` starting at 0, 1 or 2. In `pool` two
of the three functions are disjoint and both meet the third. In `scheduling` the
count starts below, at and beyond the size of the array, main and two workers
meet at any statement, and answers go stale between the scan, the hand-out and
the acquire. In `startup` every list may lack an entry, have one too many, one
twice or one without a name, and a function may list more devices than fit. In
`access` one binding overfills the table with arrays, another one with single
members, a third names no chip for its second line, a fourth begins its chips
with an empty name, and each handle may want the lines of the other; the I2C
contexts share no variable with the rest, so `MCApart` lets one of the two move
while the other is at its start, which loses no state of either. In `reporting`
the table has room for one collector too few. `scheduling`, `access` and
`reporting` use symmetry of workers, handles, plugin objects, file descriptors
and collectors: no definition chooses among them, and no liveness is checked
there.

Deadlock is checked in `scheduling`, `queue` and `reporting`. The other systems
really end (engine freed, logger joined, `main` returned, all instances run,
every plugin failed to load), so their configurations switch the check off and
properties say what must have been reached.

### Fairness

- Workers (`WF` of each worker's own steps): a thread that can take a lock or
  run on is scheduled. A sleeper has no enabled step of its own and gets no
  fairness: `SpuriousWakeup` may happen, and nothing may depend on it.
- `main` (`WF_vars(MainStep)`) runs on when it can; a failing creation is never
  obliged to happen.
- Tests return: setup, execute and cleanup are steps of the worker. The code has
  no time limit for them (`timeout_ms` is stored and not read), so this is an
  assumption about tests.
- Nobody is obliged to push, log, submit or stop.

Weak fairness is enough because each lock is held for one action and the steps
of a thread stay enabled until it takes one; no starvation on a mutex beyond
that is modelled. In `queue` a worker returning to an always busy queue is
served because a queued instance keeps some worker's `Pop` enabled.

## 4. What is shown

Checked by TLC and, where marked *proved*, for all values of the constants:

- **Resources.** Granted instances own exactly their devices (*proved*:
  `HolderOwnsAll`, `NothingLeaks`, `GrantsAreDisjoint`, `OnlyOwnerGivesBack`), also when
  a scheduler hands them out on answers that are over (*proved*, for `Scheduling`).
  A release after a failed acquire takes nothing from the holder.
- **Queue.** `NoLostWakeup`: while a worker sleeps there are at least as many
  woken workers as queued instances (*proved*), so one signal per push is enough.
  The ring implements `WorkFifo` (*proved*: `ImplementsFifo`), and the oldest
  instance is taken if at least one worker has seen the engine start.
- **Engine.** Success is reported only by `list` and by `run-all` without tests
  (*proved*: `SuccessIsEmpty`), since nothing is dispatched, whatever memory
  held. The engine is freed only after all workers have left (*proved*). Every
  run gets as far as the first step of `test_engine_deinit`; it ends if no
  worker sleeps at that point.
- **Pool.** Devices are busy exactly while a granted run needs them, and are
  then that run's, on failing paths too (*proved*: `BusyMeansRunning`); a device
  is given back only after its owner's cleanup and, if there was anything to
  execute, its verdict (*proved*: `CleanedBeforeGivenBack`); every queued
  instance is run to its end unless the engine stops or every worker was lost at
  its start. A worker runs its test, and releases, without a grant too; still
  two granted runs share no device (*proved*: `GrantedRunsAreExclusive`). The
  guards that stand for the callers' good behaviour in the modules the pool is
  composed of never stop it (*proved*).
- **Scheduler.** Whatever main and the workers do to the unlocked array between
  each other's statements, and whatever its count and its slots held at first, a
  worker is handed only instances that were submitted (*proved*:
  `HandedWereSubmitted`). That the count is right, or that an instance is handed
  out once, is not so (section 5).
- **Devices.** Whatever fails in a configure, the kernel's table and the
  contexts agree, and a chip is open for each line (*proved*: `NothingLeaks`).
  Between calls a handle has all lines of its configuration or none, but for the
  two refusals of section 5 (*proved*: `AllOrNothing`). The lines of a test that
  has some are those of its binding in the platform file, in order, on the chips
  that `gpio-hal.h` gives each of them and up to the first line without a chip,
  if the parameter table has room as far as the first polarity and the list of
  chips does not begin with an empty name; the polarity is right if the binding
  has one for all its lines (*proved*: `LinesAsBound`). What was written is read
  back with either polarity, also after a write that failed half way (*proved*:
  `ReadsBack`).
- **Plugins and I2C.** Two loads of one plugin may pass the check for
  duplicates; still one of them is registered, and what the table names stays
  mapped until it is unloaded itself (*proved*: `LoadedOnce`). A context that
  has a descriptor transfers to the slave its settings name, and no descriptor
  is lost (*proved*: `TransfersReachTheSlave`).
- **Logger.** Accepted messages are printed once and in order (*proved*:
  `InOrderOnce`), all that were accepted before `logger_deinit` are out when it
  returns (*proved*: `FlushedAtDeinit`), and it returns. The late reset in
  `logger_init` does no harm, because nothing is logged before.
- **Start and end.** A test that is described in full, with its function and
  devices named and fitting, is available exactly when those devices are defined
  and enabled, whatever else the files leave out and unwritten memory holds
  (*proved*: `CompleteTestsAreSupported`); the listing and the registration agree,
  also when a manager's count was never written (*proved*: `RunnableIsRegistered`).
  Whatever fails, each object is taken down once, and no object loses a manager
  that it was given while it is there itself (*proved*: `FreedExactlyOnce`,
  `PointersStayValid`). What the engine's workers use through the tests is not
  among these: it goes too early (section 5). The exit status is 2 for refused
  arguments only, and never success with a null engine and a test to run
  (*proved*: `StatusTellsTheTruth`).
- **Results.** A summary is never half an update (*proved*: `SummaryIsOfResults`);
  whatever the engine answers, success of a run of all tests means that every
  runnable one was answered to have passed, and the counters of the last line are
  those of the answers (*proved*: `SuccessMeansAllPassed`).

## 5. Disagreements with the documentation

Each run with an expected violation shows one.

1. `engine_submit`: `test-scheduler.c:100` asks for `running_instances >=
   max_instances` before it tries the devices, against `test-scheduler.h:125`.
2. `engine_deinit`: `test-engine.c:395` clears `running` without a wake-up and joins
   sleepers.
3. `pool_parallel`: the answer of `resource_manager_acquire` is ignored
   (`test-engine.c:257`), against `test-engine.h:352`.
4. `startup_order`: `runtime.c:148` destroys the plugin manager before
   `test_engine_deinit` joins the workers, whose tests take plugins from it
   (`validation-runtime.c:54`), against `runtime.h:87-88`.

Seen while modelling, without a run of their own:

- Engine: the duplicate check of `test-engine.c:433` is inverted; `running` is set
  (`test-engine.c:386`) after the workers have started, and those that read zero
  before exit for good; a failed `pthread_create` joins workers with `running`
  unwritten (`test-engine.c:367`); results are looked for in instances that nobody
  writes (`test-engine.c:467`, `514`, against `test-engine.h:363`); results are
  written without `result_lock`, the verdict before the cleanup and before its time.
- Scheduler: the pending array has no lock, so that a count can be lost
  (`test-scheduler.c:113`) and an instance be handed to two workers (`137`), against
  `test-scheduler.h:77`, `166-167`; `pending_count` is never written before it is
  read (`test-scheduler.c:38`).
- Managers: their counts are never initialised (`dm.c:94`), and unwritten memory
  that is zero matches an empty name (`dm.c:69`); a device bound twice is entered
  twice (`dm.c:64`); devices of a function past its limit are ignored
  (`function.c:116`, against `function-manager.h:80-81`);
  `function_manager_get_device_count` returns 1 for success where
  `function-manager.h` says 0 (its callers expect 1); `device_manager_init` succeeds
  once per process (`dm.c:83`).
- GPIO: a configuration that is refused has already replaced the cached one, with
  its offsets and polarity (`gpio-device.c:167`); one without a chip name is refused
  with its first lines requested (`gpio-device.c:199`); of the polarities in a
  binding only the first is applied (`gpio-hal.h:73`); a `lines_chip` whose first
  entry is empty puts all lines on `chip` (`validation-runtime.c:131`, against
  `gpio-hal.h:63`); the single forms of a binding's members do not look at
  `MAX_CONFIG_PARAMETERS` (`platform.c:57`, `109`, `132`).
- Plugins: `plugin_manager_load` does not register, refuses a plugin that is loaded
  already and looks for `plugin_init`, while `plugin-manager.h:80-88` describes a
  registration, a success and a symbol `plugin` (the plugins export
  `gpio_plugin_init` and `i2c_plugin_init`); `plugin_manager_unload` closes the
  library of a registered plugin and leaves its entry in the table
  (`plugin-manager.c:149`, against `plugin-manager.h:129-130`);
  `plugin_manager_deinit` closes no library.
- Others: the usage text offers `-R` for the runnable tests (`cli-parser.c:60`), the
  parser takes `-r`; `validation_runtime_context.runtime` is not reset when the
  runtime is freed; a full reporter answers -1 where `test-reporter.h:139` says -2,
  and a result that is not final is counted in the total although the summary is
  for completed tests (`test-reporter.h:40-41`).

## 6. Proofs

Proof modules extend their component; the only assumptions are the named ones on
constants, which TLC evaluates in the runs.

- `Scheduling_proofs`, first part: `ResourceManager`. Assumptions: every function
  has devices of `Device`, finitely many, a positive limit. `TypeOK` and the
  invariants alone are not inductive: with an empty table anything is granted, so
  what a holder owns depends on the table. The strengthening says that the table
  is not empty once a device has been offered (`TableNotEmpty`) and that only
  devices in the table are owned (`OwnedAreRegistered`). `Inductive` has one step
  per action. Every step of the composition is a step of `ResourceManager` or
  leaves it alone, so `SchedulingSpec => Spec` and its theorems carry over.
- `Scheduling_proofs`, second part: the pending array, for any threads that submit
  and ask. Nobody can count on what another thread does to the array, so
  `PointersInv` says what holds of every slot and of what every caller has in hand
  whoever has written it last: a pointer nobody wrote, or an instance that was
  submitted. A caller past the check of the devices has followed its pointer, so
  what it has is the latter, and `HandedWereSubmitted` follows. Assumed
  (`SchedulingAssumption`): positive sizes, a word that can count past the end of
  the array, any initial counts, and a wild pointer that is no instance.
- `ExecutionQueue_proofs`. The inductive invariant adds to `RingConsistent` that the
  slots between the indices hold instances, and that a worker holds an instance,
  one that was pushed, exactly while it runs. `NoLostWakeup` needs the typing, the
  cardinalities of the sets of waiting and woken workers, and that the queue is
  empty until the engine has started (`EmptyUntilStarted`). The refinement
  shows each step to be a step of `WorkFifo` or a stutter, by lemmas on how
  `Contents` changes when the tail or the head moves around the ring.
- `TestEngine_proofs`. `NoDispatch` with the typing is inductive: submit accepts
  only when the slots are used up, and only an accepted test uses one
  (`SubmitNeverAccepts`), so queue, instances and slots stay empty. For
  `FreedAfterExit` the invariant says that the workers
  below the join index have left and those beyond `created` do not exist, and that
  the flag is set while main is between init and deinit. `SuccessIsEmpty` follows
  from the first: where no instance is, no result is found (`NoResultIsFound`), and
  without a result there is no success.
- `WorkerPool_proofs`. The resource manager trusts its caller to acquire once
  and then release. The heart of `PoolInv` is why the pool keeps to that: a fed
  instance is in one place, once in the queue or with one worker (`InOnePlace`),
  so it has acquired exactly while an active worker has it
  (`AcquiredAreActive`). With what a run has behind it at each step (`RunSoFar`:
  judged, if executable, from the cleanup on, and cleaned up at the release) and
  the resource manager's invariant, the properties follow; `BusyMeansRunning`
  takes `HolderOwnsAll` besides, which is again inductive because an acquire
  looks at all devices before it marks one. `WorkersKeepTheProtocol` says of the
  guards in `ResourceManager` and `WorkFifo` that ask for a well-behaved caller
  (acquire once, release after an acquire, hand back what was taken) that they
  hold wherever a worker calls, so these guards leave no behaviour of the code
  out. `PoolUsesTheLine` is the refinement of `WorkFifo` from above. Assumed
  (`PoolAssumption`): what `ResourceManager` assumes of the functions.
- `Logger_proofs`. `EachInPlace` is `InOrderOnce` one message at a time, with the
  ring's slots by their indices, which is what a step can be shown to preserve.
  `NothingBeforeUp` is needed for the reset of `logger_init`, which takes no lock:
  until it has returned nothing was logged, so there is nothing to wipe out.
  `ExitedHasPrinted` is why the flush is complete: the worker leaves its loop only
  with an empty ring after `running` was cleared.
- `Startup_proofs`. `BuiltInOrder` says what `main` has built at each step of its way
  up, `DueInTurn` that the deinit calls still to be made are those of objects that
  are there and not yet taken down, each in its `Turn`. `PointersStayValid` is part
  of the invariant `StartupInv`: an object's turn comes before that of every manager
  it keeps a pointer to (`KeepsOf`, `UsersHaveTheirTurnFirst`). Of the configuration
  that argument needs only that no step after the load changes it, so it holds
  for any contents of the files.
- `Startup_proofs`, the tables. The joins are loops over lists, and the library's
  induction theorems cannot be used here. What they compute is proved for lists
  of any length by `Climb`: of the places where a claim fails there is a smallest
  one, and the place before it satisfies the claim. `FlattenSeq` and the folds
  of the community modules are recursive functions, so one step of them is an
  equation (`FlattenSteps`); what a selection holds, that it keeps order and
  what is injective, and what a join's table says, follow. `TablesInv` then says
  which tables are loaded at which place of `main` (`LoadedSoFar`), and that what
  is registered is what is listed (`RegisteredAsListed`). A table whose join found
  nothing may hold entries that nobody wrote; they are no names of a file, or
  empty, and a test that is described in full has no empty name
  (`CompleteTestsAreSupported`). Assumed (`RegistryAssumption`): usable files are
  lists, names are unique in theirs, no file has more tests than the table of the
  validation system, limits and unwritten counts are numbers, no file names what
  stands for unwritten memory (`NULL`), and an implementation has a name.
- `DeviceAccess_proofs`, GPIO. `GpioInv` has four parts per handle: lines and chips
  are those the kernel has (`Leakless`), no line twice (`Differ`), the lines follow
  the cached configuration as far as the call has got (`FollowPlace`), and what is
  known to be written is at the line (`Reads`). It holds for any interleaving of
  handles, since a line has one holder.
- `DeviceAccess_proofs`, bindings. `ParametersLaidOut` says where the table of
  parameters has the valid values of each key, one key behind the other and
  each cut where the table is full; `TableRead` what reading it back by key
  gives (a selection by key is an interval of the table, `TakenInterval`, again by
  `Climb`). The same is proved with any parameters of `Stray` behind a table that
  was overfilled (`TablesRead`), so that every binding gives a configuration the
  device can take (`TableConfigured`); a binding that fits gives the lines and the
  polarity that the file names (`BindingConfigured`). With the GPIO invariant and
  `AllOrNothing`, `LinesAsBound` follows for whoever runs. Assumed
  (`BindingAssumption`): the members of a binding have the types the parser lets
  through, arrays of any length, and the table has room for one parameter.
- `DeviceAccess_proofs`, I2C and plugins. For I2C the invariant says which
  fields are set at each step of a control call, that a descriptor under way is
  open on the wanted bus without an address, and that contexts share none.
  Assumed: a configuration is a record of bus and address, and -1 is no
  descriptor. For the plugins it says that entries of the table are registered
  ones, unloaded since or not, and that a library is open once for each of its
  users; that the search finds a name that is there needs the least element of a
  set of numbers (`MinIsThere`). Assumed: finitely many plugin objects.
- `Reporting_proofs`. As long as nothing failed, the runnable tests that `main` has
  gone past were answered PASS, and it has heard nothing of the others
  (`HeardSoFar`); success comes only at the end and without a failure
  (`MainFollowsTests`); what a collector has copied is a state (`CopiesAreStates`).
  Nothing is asked of the engine's answers. The counts are cardinalities of sets
  of places: `CountInv` says that `main`'s counters count places it has gone past
  (`MainCounts`), and that the summary is that of the stored results, but for the
  one a collector is adding under the lock (`SummaryFollows`).

Every invariant and every action property of the runs that pass is stated by a
theorem. Only model-checked:

- all liveness (`OldestIsTaken`, `MainReachesDeinit`, `AwakePoolIsJoined`,
  `QueuedIsJudged`, the logger's `DeinitReturns`): fairness and ENABLED are outside
  the prover's reach;
- what the runs with an expected violation show.

## 7. Plan

Modelled: all parts of the table in section 1, in the modules of section 2.

Next, extending the model:

1. `WorkerPool` over `Scheduling`: a worker's get_next_instance and its push after
   the release. The array has no lock, so an instance may be run by two workers
   at once, which `ResourceManager`'s callers by instance cannot tell apart yet.
2. An abstract log stream that `Logger` implements.
3. `device_manager_enable` and `disable`, once something calls them.

Then, proving, for these two extensions: the pool's theorems over the
scheduler's, and the refinement of the log stream.

## 8. Not modelled

- The JSON text and the vendored library that parses it: a file is its elements.
- Descriptions, types and the parameters of I2C and V4L2 bindings, which nothing
  reads; copies of names that truncate.
- What a write past the table of parameters does to the binding behind it
  (`platform.c:57`, `109`, `132`): only what is read back is modelled; and writes past
  the device table (`dm.c:65`), from where on behaviour is undefined.
- Calls into a library after its unload.
- `device_manager_enable` and `disable`, which have no caller.
- The GPIO and kernel interfaces beyond what the plugins' calls assume of them.
