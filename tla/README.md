# TLA+ models of the CoreCDTL runtime

This directory holds TLA+ models of the concurrent core of the runtime in
`src/`. Each model is checked with TLC. It contains:

- the modules (`X.tla`);
- the modules that instantiate them for TLC (`MC_X.tla`);
- the TLC configurations (`*.cfg`);
- `PROJECT.json`, which records in machine-readable form:
  - every component;
  - every run;
  - the mutants that show each property can fail;
  - the source lines each definition models;
  - the findings;
  - the hazards.

## The system

`cored` (`src/src/core/cored.c`, `runtime.c`) is a host process that loads
plugins (shared libraries) and lets them talk through a small core API:

| Part | Source | What it does |
|---|---|---|
| plugin manager / loader | `plugin/plugin_manager.c`, `plugin/plugin_loader.c` | `plugin_init` scans the plugin directory, loads each candidate (manifest, data file, `dlopen`, JIT stubs), then calls each plugin's `initialize` and `start`. Later the control socket drives `plugin_shutdown`, `plugin_initialize`, `plugin_start`, `plugin_stop` and `pm_action_reboot` on a plugin id. |
| event bus | `core/event_bus.c` | A list of subscriptions (guarded by `sub_mutex`) and a ring of `MAX_TASKS` delivery tasks (guarded by the queue mutex and two condition variables), drained by a pool of worker threads that invoke the subscribed callbacks. `bus_publish` holds `sub_mutex` while it copies the payload and enqueues. |
| scheduler | `core/scheduler.c` | A due-time-sorted list of timers under `g_mtx`, served by one thread that waits on `g_cv` until the head's due time, runs the callback with the mutex released, and re-arms or frees the timer. |
| crash recovery | `core/crash_recovery.c` | A signal handler for SIGSEGV/SIGBUS/SIGILL/SIGFPE. It scans the faulting thread's stack for a marker record (`error_context_t`) that the worker copied onto its frame, fills it, and `siglongjmp`s back to the worker, which reports the fault and moves on. |
| critical error log | `core/log.c` | A 63-slot queue indexed by a `uint32_t` bitmap. Bus workers and the scheduler thread fill it after a contained fault. A detached consumer thread writes each record to a file (and to the gateway). |
| runtime | `core/runtime.c` | `core_init`: `core_log_init`, `plugin_init`, `bus_init`, `scheduler_init`, in that order. `core_shutdown`: `scheduler_shutdown`, `bus_shutdown`. |
| control socket | `core/cored.c` (`core_loop`), `core/core_ctl.c` | On SIGUSR1 a thread serves a Unix socket. It accepts one CLI connection at a time, with 30 s select timeouts, and runs `handle_ctl_command` on each command: `start`, `stop`, `restart`, `status`. |
| gateway | `gateway/gateway.c` | `gateway_init_lib` `dlopen`s an observer library and starts the dispatcher; `gateway_start_lib` starts the library. Producers (bus, scheduler, critical-error path, heapkit) that see `g_gateway_connected_flag` set call `gateway_msg_send`. |
| gateway dispatcher | `gateway/gateway_dispatcher.c` | A 64 KiB arena under `gateway_d_flush_mutex`. `gateway_d_msg_add` appends a line and its newline, or drops the line when the arena is full. A thread polls every 100 ms and hands the arena to the library's `on_data`, holding the mutex. |
| heapkit | `core/heapkit.c`, `plugin/plugin_loader.c` (`plugin_data_set`), `gateway/gateway.c` (`gateway_hk_get_type/set_type`) | A typed property store with no lock. During `plugin_load`, `plugin_data_set` registers each struct of the plugin's schema file under the plugin's id. Plugins then set fields through their stubs, and the gateway library reads an instance as `key=value;` text and writes text back. |
| JIT | `libs/jit/` | LLVM stub generation. Not modelled (see below). |
| utilities | `utils/utils_string.c` | `optimized_strcmp`: `strcmp` for names shorter than 16 bytes, else a NEON, SVE or RISC-V vector loop chosen at build time. `bus_publish` and the plugin lookup by name test its result against 0. |

How the parts interact:

- Plugin callbacks run on bus workers and on the scheduler thread, and they
  call back into the bus and the scheduler.
- A fault in a callback goes through crash recovery into the critical-error
  queue.
- Plugins may publish during `plugin_init`, before the bus exists.
- The control socket loads the gateway. From then on, every bus, scheduler
  and critical-error notice is also a line in the gateway's feed.

## Modules

| Module | Models | State (code variable) | Actions |
|---|---|---|---|
| `EventBus` | `event_bus.c`: subscribe, publish, `enqueue_task`, `bus_worker_thread`, `bus_shutdown` | `subs` (`g_head`), `subOwner` (`sub_mutex`), `tasks/head/tail/count/qOwner` (the ring and its mutex), `notEmptyWait/notFullWait` (condition variables as wait sets), `shutDown` (`g_bus_shut_down`), per-thread `pc`/`frame`/`task` | `SubscribeCall`, `Subscribe`, `PublishCall`, `PublishScan`, `PublishFault`, `EnqueueLock/Check/Wake`, `WorkerLock/Check/Wake`, `CallbackReturn/Fault/CallsBus`, `ClientCall`, `ShutdownSignal/Join` |
| `Scheduler` | `scheduler.c`: `scheduler_init`, `after_ms`, `every_ms`, `cancel`, `sched_thread`, `scheduler_shutdown` | `timers` (`g_timers`), `nextId` (`g_next_id`), `mtx` (`g_mtx`), `cvWait`/`deadline` (the timed wait on `g_cv`), `running`, `now` (`now_ms()` modulo `TimeMod`) | `TimerCall/Init/Insert/Return`, `CancelCall`, `Cancel`, `SchedLock/Loop/Wake/Post`, `CallbackReturn/Fault/Calls`, `ShutdownSignal/Join`, `Tick` |
| `PluginManager` | `plugin_manager.c` and the id numbering and outcomes of `plugin_load` | `recs` (`plugins[]`), `currentId` (`current_id`), `phase`/`next` (the loops of `plugin_init`) | `LoadAs(o)` for each outcome o (`LoadCandidate` is their disjunction), `EndDiscover`, `InitRecord`, `EndInit`, `PluginShutdown`, `PluginInitialize`, `PluginStart`, `PluginStop`, `Reboot` |
| `CriticalErrorQueue` | `log.c`: `add_*_critical_error`, `critical_error_consumer_thread` | `queues`, `bitmap` (`Width` bits; the bit of slot i is `2^(i % Width)`, which is what the build's `shl`/`lsl` computes for `1U << i`), `owner` (the mutex), `waiting`, the consumer's `cpc/ci/msg` | `AddCriticalError`, `ConsumerLock/Check/Wake/Scan/Write/Relock` |
| `CrashRecovery` | `crash_recovery.c` `crash_handler` with a worker's error branch (`event_bus.c` 217-250, `scheduler.c` 95-110) | `wpc`, `localCtx` (the stack copy `local_ctx`), `tlsCtx` (the `__thread` marker record) | `Dequeue`, `CallbackReturn`, `CallbackFault(sig, depth)`, `Report`, `Free` |
| `TaskQueue` | what the task ring promises: a bounded FIFO queue (spec 4.3, 8) | `queue` | `Put(x)`, `Get` |
| `FaultReporting` | `CrashRecovery` composed with `CriticalErrorQueue`: the worker's error branch calls `add_event_bus_critical_error` (`event_bus.c` 242-247) | the variables of both | `WorkerLocal`, `WorkerReport` (the worker's `Report` and the queue's `AddCriticalError` as one step), `ConsumerStep` |
| `Gateway` | `cored.c` `core_loop`/`signal_cli_handle`, `core_ctl.c`, `gateway.c` (`msg_send`, `init/start/stop/restart/close_lib`), `gateway_dispatcher.c` | `connected` (`g_gateway_connected_flag`), `alive` (`gateway.c`'s `gateway_is_alive`), `ctlRun`/`cpc` (the control thread), `reply`, `arena`/`offset`/`running`/`fOwner`/`dpc` (the dispatcher), per-producer `ppc`/`pmsg` | `Sigusr1`, `CoreLoop`, `CreateSocket`, `Accept`, `CloseClient`, `Command`, `Send`, `CheckArena`, `LockArena`, `CopyText`, `CopyNewline`, `UnlockArena`, `Poll`, `FlushLock`, `FlushHand`, `FlushUnlock` |
| `HeapKit` | `heapkit.c`: `find_registered`, `hk_type_register`, `hk_set_field`, `hk_serialize`, `hk_deserialize`; `gateway.c`: `gateway_hk_get_type/set_type` | `reg` (`g_type_registry[0..g_type_count-1]`: plugin id, struct name, field values), `gw` (the text the library last read), `hkOps` | `TypeRegister(p, t)` (a failed `calloc` registers nothing), `SetField`, `GetType`, `SetType`. Text is a sequence of symbols; `Serialize`, the recursive `Strtok`, `Atoi` and `Deserialize` (a fold over the tokens) follow the C functions. |
| `PluginStore` | `PluginManager` composed with `HeapKit`: `plugin_load` calls `plugin_data_set` (`plugin_loader.c` 183-263) after taking the id | the variables of both | `Load` (the manager's `LoadAs(o)` and the store `DataSet` leaves, as one step), `Manage` (the other manager steps), `PluginSet` (a started plugin's field write), `Gateway` (the library's get/set once `core_init` returned) |
| `StringCompare` | `utils_string.c`: `optimized_strcmp`, `simd_strcmp_arm`, `simd_strcmp_arm_sve`, `simd_strcmp_riscv` | `a`, `b` (the `Mem` bytes of memory each argument starts, a NUL among them and arbitrary bytes after it), `target` (the branch the build compiled), `pc`, `i` (the loop's byte offset), `res` | `Call` (the length test and `strcmp`), `NeonStep`, `SveStep`, `RiscvStep` (one loop iteration each); `Cmp` is `strcmp` as a recursive operator |
| `BusStartup` | `core_init`'s order (`runtime.c` 89-103) against `bus_init` (`event_bus.c` 38-71) | the ring as in `EventBus`, `mainPc` (where `core_init`/`bus_init` is), `created` workers | `PluginPublish`, `BusInit`, `CreateWorker`, `ResetHead/Tail/Count/Mutex`, `Publish`, `WorkerLock/Check/Take/Deliver` |

Modelling conventions:

- **Threads.** Each thread has a program counter. A step is one critical
  section, or one unsynchronised access where the code has no lock.
- **Mutexes and condition variables.** A mutex is an owner variable. A
  condition variable is a set of waiters that a signal or broadcast empties
  in part or in whole.
- **Payloads and timers.** These are numbered allocations. A history
  function counts how often each one is freed.
- **Text.** Strings, event names and record text are model values, except
  in `HeapKit`, where a property is about the text itself: there text is a
  sequence of symbols (a field name, an int's digits, one character, or a
  delimiter `=`, `;`, `"`).
- **Fixed-width integers.** A `size_t` or `uint64_t` whose wrap matters is
  counted modulo a small `SizeMod` or `TimeMod`.
- **Gateway lines.** A line is an id and a length. The arena is a sequence of
  chunks: the line's text, then its newline. Byte counts are kept for the
  capacity test.
- **Composition.** `FaultReporting` and `PluginStore` instantiate both
  components with shared variables. The call from one into the other is one
  joint step.
- **Refinement.** `EventBus` instantiates `TaskQueue` with
  `queue <- RingContents`, the `count` slots from `head`, oldest first.
  `TaskFifo == TQ!Spec` states that the ring refines a bounded FIFO queue.
  It holds under `bus_safety`'s constants, but no run checks it: given
  `TypeOK`, it follows from `QueueMatchesLog`, which the run checks.
- **History variables.** They are named under "history" in each module. No
  action reads them; only the properties do.

## Runs

A run's properties are exactly the INVARIANTs and PROPERTYs of its cfg.

| Run | Result | What it shows |
|---|---|---|
| `bus_safety` | pass | With reentrant callbacks that publish, subscribe and fault, the ring holds exactly the stored tasks not yet taken, in FIFO order, through wrap-around and full-queue waits (`QueueMatchesLog`). Every payload copy has exactly one owner until it is freed once (`PayloadOwnership`). |
| `bus_liveness` | pass | Every stored task is eventually delivered and its payload freed, also across `bus_shutdown`: workers drain before they exit (`EveryTaskDelivered`). |
| `sched_checks` | pass | With reentrant and faulting callbacks, a racing plugin thread and shutdown: no timer is lost, listed twice or freed twice (`TimerOwnership`), and timers fire in due order (`FiresInDueOrder`). A due timer eventually fires: no wake-up of the scheduler thread is lost (`DueTimerFires`). |
| `pm_safety` | pass | Runs `PluginStore`. Over every load and initialisation outcome, three control operations, plugin field writes and gateway text requests, no entry point other than `initialize` reaches a plugin whose `initialize` never succeeded (`StartedOnlyIfInitialized`). Schemas that overflow the store or declare a struct twice fail the load, so every plugin kept finds each struct of its schema under its own id (`LoadedTypesResolvable`), also when failed candidates left structs behind. |
| `fault_checks` | pass | A bus worker whose callbacks return or fault, composed with the critical-error queue. A producer's signal is never lost (`QueueDrains`). A reporting worker, which needs the mutex the consumer takes, always gets past the report (`ReportCompletes`). |
| `gw_checks` | pass | The control thread loads the gateway while two producers send lines and the dispatcher flushes. `on_data` receives exactly the lines written, in order, none lost or repeated (`FeedIntact`), and only as whole lines (`WholeLines`). The arena never overflows (`TypeOK`). Every accepted line is eventually handed over (`SentLineHanded`), and every `gateway_msg_send` returns (`SendReturns`). |
| `bus_wedge` | violation | See finding 1. |
| `sched_id_race` | violation | See finding 2. |
| `log_lost` | violation | See finding 3. |
| `strcmp_exact` | violation | See finding 4. |
| `startup_mutex` | violation | See finding 5. `BusStartup`'s actions are exercised by this run only. |
| `hk_mirror` | violation | See finding 6. |

Every property of a passing run has a mutant in `PROJECT.json`: the modelled
code changed the way a plausible bug would (for example a dropped `% MAX_TASKS`,
a missing `count++`, a missing free, a `<=` for `<` on the due time, a missing
signal, a bit test without the wrap). TLC finds the property violated with the
mutant in place.

## Findings

Each finding below was checked against TLC's counterexample.

1. **`bus_publish` wedges the bus** (`event_bus.c:195`). `bus_publish` holds
   `sub_mutex` while `enqueue_task` waits for room. With the queue full and
   every worker inside a callback that publishes or subscribes, all workers
   block on `sub_mutex` and nobody drains the queue (`NoDeliveryDeadlock`).
2. **Duplicate timer ids** (`scheduler.c:189`). `t->id = g_next_id++` runs
   outside `g_mtx`. A plugin thread and a timer callback can get the same id,
   and `scheduler_cancel` then unlinks the wrong timer. The cancelled timer
   fires even though cancel returned 0 (`CancelStopsTimer`).
3. **Lost critical errors** (`log.c:74`). The consumer tests `1U << i` up to
   i = 62 on a `uint32_t`. At i = 32 + j it clears slot j's bit and takes the
   always-empty slot 32 + j. A record a producer stored in slot j meanwhile is
   never written (`ErrorNeverLost`).
4. **`optimized_strcmp` is not an equality test on any vector build**
   (`utils_string.c:105`, `:51`, `:76`). `bus_publish` and the plugin lookup
   by name need an exact match (spec, publish). Names shorter than 16 bytes
   go to `strcmp`, which gives one. Longer ones go to the vector loop of the
   build, and TLC finds `MatchIsExact` violated on each:
   - **RISC-V.** `all_equal` is set when `vfirst` of the *equality* mask is
     -1, that is when no byte is equal. Two identical names return 1.
   - **NEON (default aarch64).** All 16 bytes of the chunk holding the NUL
     are compared. Equal names compare unequal when the memory after the NUL
     differs.
   - **SVE.** `svptest_last` tests only the last active lane, and
     `svwhilelt_b8(i, svcntb())` is empty from the second vector on. Equal
     names can compare unequal, and different names of one length equal.

   With `FairSpec`, `CompareReturns` holds on the NEON, SVE and generic builds.
   On RISC-V it fails: `vl = strlen(a_ptr)` never loads the NUL, and with
   every byte different the loop spins with `vl = 0`. The AVX2 branch calls
   `simd_strcmp_x86`, which is never defined, so that build does not link.
5. **`bus_init` re-initialises a held mutex** (`event_bus.c:68`). `bus_init`
   starts the workers, then resets `head/tail/count` and calls
   `pthread_mutex_init` on the mutex a worker may hold. A publisher and a
   second worker enter the critical section together, `count` underflows, and
   a payload is delivered (and freed) twice (`DeliveredAtMostOnce`).
6. **Gateway text does not survive a round trip** (`heapkit.c:224`).
   `hk_serialize` formats a char field with `%c`. The zeroed char of a freshly
   registered struct is `'\0'`, which ends the field's text at `mode=`, so
   `strcat` drops its `;`. The next field follows directly:
   `mode=label="";count=0;`. `hk_deserialize` reads the token `mode=label=""`
   as key `mode`, stores `l`, and never assigns `label`. A gateway that reads a
   struct with `gateway_hk_get_type` and writes the same text back with
   `gateway_hk_set_type` changes it (`MirrorStable`, violated two steps after
   registration). A char `';'` or a string holding `';'` loses data the same way.

### Observed without a run

**Empty fault records** (`event_bus.c:245`, likewise `scheduler.c:107`).
`crash_handler` fills the stack copy `local_ctx`, but the worker reports the
thread-local record, whose signal, code and address are still 0.
`CrashRecovery!FaultDetailRecorded` states it. TLC finds it violated on
`MC_CrashRecovery` with `Signals = {SIGSEGV, SIGFPE}`, `Depths <- MCDepths`,
`RawBufferSize = 512`, `CtxSize = 24` and `MaxTasks = 2`. Its run gave way to `strcmp_exact`, and the hazard is
listed.

**The control socket cannot see or stop the gateway** (`core_ctl.c:32`).
`Gateway!StatusTellsTruth` states it; TLC finds it violated under
`gw_checks.cfg`'s constants with `INVARIANT StatusTellsTruth`. It is not a run
because the run list is full; the hazard is listed in `PROJECT.json`.

`core_ctl.c` declares its own `static int gateway_is_alive`. It shadows
the global of `gateway.c` and nothing ever assigns it. So:
- after a successful `start`, `status` answers "Stopped"
  (`StatusTellsTruth`);
- `stop` always answers "Failed to stop";
- `start` and `restart` call `gateway_init_lib` again, which refuses with
  "already initialized".

`gateway_stop_lib`, `gateway_restart_lib`, `gateway_close_lib` and
`gateway_dispatcher_close` are unreachable. `Gateway` still models them,
behind `CtlGatewayIsAlive`. With that definition changed to `alive`, TLC
shows a second fault: `stop` still does not stop the gateway.
`gateway_stop_lib` clears the connected flag, so `gateway_close_lib`, which
tests that flag, does nothing. `gateway_is_alive` stays 1 and the
dispatcher keeps running. Every later `start` is refused.

### Properties that hold but are not checked

These are defined in the modules but not run, because they say nothing that
the checked properties or the model's shape do not already say:

- **`EventBus!TaskFifo`.** It follows from `QueueMatchesLog` and `TypeOK`.
- **`Scheduler!NoEarlyFire` at `sched_checks`' bounds.** The clock is
  monotonic there and a due time cannot wrap, so it only restates the guard
  of `DueReached`. With a delay of `TimeMod - 1` it fails (table below).
- **`PluginManager!IdsUnique`.** There is one loader thread, so it restates
  `current_id++`. The real id fault is `IdResolvesToOwnRecord` (below).
- **`CrashRecovery!OneRecordPerContainedFault`.** `Report` is the only step
  out of the error branch. `recorded` counts calls, including records the
  queue drops.
- **`CriticalErrorQueue!BitsMatchSlots`.** It pairs bit b only with slot b,
  which `Take` and `AddCriticalError` always write together. It misses the
  consumer finding bit 0 set at i = 2 over the empty slot 2; `ErrorNeverLost`
  (run `log_lost`) catches that case.
- **The queue's bitmap bound in `FaultReporting!TypeOK`.** It holds by the C
  type of `g_critical_error_bitmap`, and no change to the code can break it.

### Violated properties without a run

The modules also define the properties below. TLC finds each one violated
with the constants given. They are not runs of the project because the run
list keeps one question per run; each is listed as a hazard in `PROJECT.json`.

| Module | Property | Constants | What TLC shows |
|---|---|---|---|
| `MC_EventBus` | `AcceptedIsEnqueued` | as in `bus_liveness`, `Spec` | `bus_publish` returns 0 for a task `enqueue_task` refused at shutdown (`event_bus.c:195`) |
| `MC_EventBus` | `DuplicateSubscribersInvoked` | same | only the first matching subscription of a plugin gets the task (`:183`) |
| `MC_EventBus` | `SubMutexHeldOnlyByPublisher` | same, `CallbackActs <- PublishingCallbacks` | a fault inside `bus_publish`'s `memcpy` leaves `sub_mutex` locked forever (`:192`) |
| `MC_Scheduler` | `ReturnedIdNamesTimer` | as `sched_checks`, `SafeCallbacks`, `Spec` | `after_ms` reads `t->id` after unlocking, when the timer may have fired and been freed (`scheduler.c:211`) |
| `MC_Scheduler` | `NoEarlyFire` | `Delays = {0, 7}`, `TimeMod = 8`, `SafeCallbacks` | `now_ms() + ms` wraps for a delay near 2^64 and the timer fires at once (`:191`) |
| `MC_PluginManager` | `KilledIsTerminal` | `MaxOps = 2` | `plugin_start` and `pm_action_reboot` move a Killed plugin back to Alive (`plugin_manager.c:193`, `:266`) |
| `MC_PluginManager` | `IdResolvesToOwnRecord` | `MaxOps = 0` | a candidate failing after `current_id++` shifts every later id by one (`plugin_loader.c:178`) |
| `MC_PluginManager` | `FailedPluginNotListed` | `MaxOps = 0` | a plugin whose `initialize` failed stays in the table as a zeroed record (`plugin_manager.c:86`) |
| `MC_PluginManager` | `TornDownPluginsShutDown` | `MaxOps = 0` | the `initialize`-failure path frees the plugin without calling its `shutdown` (`:84`) |
| `MC_CriticalErrorQueue` | `NoDropWhileRoom` | `MaxErrors = 4` | slots 32..62 alias bits 0..30, so only 32 slots are ever used (`log.c:257`) |
| `MC_CrashRecovery` | `CallbackFaultContained` | `MaxTasks = 2` | a fault more than 487 bytes below the worker's frame ends the process (`crash_recovery.c:59`) |
| `MC_BusStartup` | `DeliveredAtMostOnce` | `PreTasks = 2`, `MaxPub = 3` | a task published during `plugin_init` is taken, `head` is reset, and it is taken again (`event_bus.c:65`) |
| `MC_BusStartup` | `PublishedDelivered` | `PreTasks = 1`, `MaxPub = 1`, `FairSpec` | `bus_init`'s `count = 0` discards a task published during `plugin_init` (`event_bus.c:67`) |

## Bounds

- **Event bus.**
  - 2 workers: the pool has 5, but 2 are enough for two callbacks at once and
    for the wedge.
  - Ring of 2 (1 for the wedge), so it fills and both indices wrap.
  - 2 plugins, 1 event, 2 subscriptions: enough for a duplicate (plugin,
    event) pair.
  - 3-4 payloads.
  - Worker symmetry in the safety run.
- **Scheduler.**
  - 1 plugin, 1 client thread plus the scheduler thread, whose callbacks also
    call the API.
  - Delays {0, 1}, and a clock of 2 ticks modulo 8. Every delay is then due
    within the run, and a wrap is reachable when a large delay is added.
  - 2 timers in the checked run: two timers are what ordering and ownership
    need.
- **Plugin manager.**
  - 3 directories, so that a failed candidate sits between two good ones.
  - Up to 3 control operations after start-up.
  - With `PluginStore`: a store of 2 structs (`MAX_REGISTERED_TYPES` scaled
    down) and schemas `cfg`, `state` and `cfg, cfg`. The third is a duplicate
    struct, and three candidates need more than two slots, so both failures
    of `hk_type_register` happen, after earlier structs were registered.
    Up to 2 field writes and gateway requests, ints {0, 1}, one character.
- **Heapkit (`hk_mirror`).** One plugin, two structs (a char, a string and
  an int; a bool and a ptr), ints {0, 1}, characters `a` and `;`, up to 3
  operations. Every field kind is present, and a zeroed char is one step away.
- **Critical-error queue.**
  - `Width` 2 and `Size` 3 keep the code's proportion: 63 slots, 32 bits.
  - Up to 5 records.
- **Crash recovery.**
  - Depths 96 and 1100 bytes: one inside and one outside the 488-byte scan
    window.
  - Up to 4 tasks.
- **Fault reporting.** Crash recovery as above, with a queue of `Width` 2 and
  `Size` 3. The worker's 4 tasks bound the records.
- **Gateway.**
  - 2 producers.
  - Lines of 1 or 2 bytes and an arena of 6, so the arena fills and a line is
    dropped.
  - 3 lines in all.
  - Three load failures (missing file, `dlopen`, missing symbol); the five
    symbol errors differ only in text.
- **String compare.**
  - Bytes {1, 2} and a NUL, 4 bytes of memory per argument.
  - 16 is scaled to `W = 2`, `svcntb()` to 4 and the RISC-V `vl` limit to 2.
  - So names of 2 or 3 bytes reach the vector loops, and every branch sees
    a chunk that holds the NUL and bytes after it.
  - All four targets that link.
- **Start-up.**
  - 2 workers, a ring of 3, `size_t` modulo 8.
  - Up to 2 publishes during `plugin_init` and 3 in all.

No cfg checks deadlock. Every system here stops legitimately: idle workers
and the consumer block on their condition variables once the bounded
producers are done, and the scheduler stops after shutdown. A deadlock that
matters is stated as a property (`NoDeliveryDeadlock`).

## Fairness

Only the liveness runs use fairness:

- `bus_liveness`: `EventBus!FairSpec`;
- `sched_checks`: `Scheduler!FairSpec`;
- `fault_checks`: `WF` of the worker's report and of the consumer thread;
- `gw_checks`: `Gateway!FairSpec`, `WF` of the dispatcher thread and of each
  producer inside `gateway_msg_send`.

Weak fairness is given to:

- each worker thread, the scheduler thread, the consumer thread and the
  gateway dispatcher thread;
- a thread that is inside a bus or scheduler call, until it returns;
- the host's shutdown join, once it has started.

The OS scheduler keeps running threads that can proceed. Plugin threads and
the host get no fairness for *starting* a call, because the code does not
require them to make one. Neither do SIGUSR1, CLI connections and control
commands: they come from outside.

## Not modelled

- **Heapkit, in part.** Left out are:
  - float and double fields (`%f` formatting);
  - the 1024-byte serialisation buffer and its `-3` overflow result;
  - the `[set]` gateway line of `hk_set_field`;
  - `hk_get_field` (a read) and `hk_get_list` (an enumeration).
  Plugins' own threads could race the gateway on the lock-free store. The
  model makes each call one step, so a torn write is not represented.
- **JIT stubs and manifest parsing.** LLVM code generation and text parsing.
  Their effects enter `PluginManager` as load outcomes.
- **`utils_id.h`.** It holds `rand()`-based id macros and a `printf`, with
  no state. Elsewhere, `EventBus` and `PluginManager` compare event and
  plugin names by equality. `StringCompare` shows where the build's
  `optimized_strcmp` departs from that.
- **The text logs, the response texts and the `corecdtl-ctl` client.**
  Formatting and socket I/O.
- **The `gateway_entry` callbacks** that the gateway library calls into
  (heapkit, plugin list, reboot). They run on the library's threads.
- **`event_bus_get_list`.** It walks the list without the lock (a hazard is
  listed).
- **`core_shutdown`.** It never stops the plugins (listed).
- **Allocation failures.** Only the `realloc` of the plugin table matters
  (listed).

## Plan for later work

- An abstract timer service refined by `Scheduler`.
- `core_shutdown` with running plugin threads.
- `hk_get_list` and the gateway's `gateway_entry` callbacks racing plugin
  threads on the lock-free heapkit store.
