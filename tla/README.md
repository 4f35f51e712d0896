# A verified model of Dockkeep

Dockkeep runs restic backups, workflows and rclone syncs from a web UI, a command
line and a built-in cron scheduler.  This directory holds TLA+ models of its core,
the TLC configurations that check them on small instances, and proofs of their main
properties that hold for every instance.  Paths below are relative to the Python
package `src/src/` unless they begin with `README` or `docs`.

    tlasany M.tla                      parse
    tlc -config X.cfg MCM.tla          model-check (section 3)
    tlapm MProofs.tla                  check the proofs

## 1. The system and its parts

A *run* is one execution of a backup, a workflow, an rclone task or a restore.  Up
to three kinds of processes execute runs: the GUI process (FastAPI on one asyncio
loop, with the scheduler on a second loop in a thread of its own), a headless
scheduler process, and one-shot command line processes.  They share files only: the
configuration file, lock files, a SQLite database (`appdata.db`), a status file and
a Unix socket.

| Part | Keeps | Operations | Talks to |
|---|---|---|---|
| Run manager `services/run_manager.py` | `_runs`, `_tasks`, `_finish_tasks`, `_terminal_events`, `_cancel_requested`, `_stopping` | `start`, `cancel`, `join`, `shutdown`, the task of a run, done-callbacks | hooks given by its owner; the operation it is handed |
| Run history `services/run_history.py` | tables `runs`, `run_steps` | `create_run`, `finish_run`/`record_run`, steps, start-up sweep, pruning, queries | worker threads (`asyncio.to_thread`), SQLite |
| Terminal hooks, wiring `services/terminal_hooks.py`, `services/factory.py`, `gui/app.py` | – | history row, then notification; lifespan of the GUI | run manager, history, notifications |
| Resource locks `core/locking.py` | flock(2) files per repository or rclone endpoint | ordered non-blocking acquisition, release; the scheduler's singleton lock | other processes, through the kernel |
| Job runner `core/job_runner.py` | step ids and statistics of a run | lock with retry, run, mark operational completion, collect statistics | locks, workflow engine, artifact store |
| Workflow engine `core/workflow.py` | step results | steps in order, abort on failure, hooks | executors |
| Executors `executors/`, `core/stream_logging.py` | – | restic and rclone command lines | subprocess runner |
| Subprocess runner `core/subprocesses.py` | a process, two pumps | timeout, cancellation, SIGTERM then SIGKILL, bounded drain | OS |
| Cron scheduler `scheduler/cron.py` | `config`, mtime and digest, `_last_check_time`, `_start_time`, report buffer | tick: reload, report, due items, log cleanup; `stop` | its own run manager and history, the configuration file |
| Scheduler owner, status, run control `scheduler/owner.py`, `scheduler/status.py`, `services/run_control.py` | scheduler thread, heartbeat file, socket | start and stop with timeouts, restart, remote cancel | cron scheduler, GUI |
| Run service `services/runs.py`, `gui/routers/runs.py` | – | deduplicated start, cancel across processes, merged views | managers, history, run control |
| Restore `services/restore.py` | registry, `_pending_restores` | `start_restore`, progress | run manager, history (same rows) |
| Configuration store and editor `services/config.py`, `services/config_editor.py` | the file, an edit lock | raw save, structured edits, backup copy | the file the scheduler polls |
| Configuration model `models/`, `utils/validation.py` | – | validation, inheritance (global → job → task) | everything |
| Artifact store, statistics `services/repository_artifact_store.py`, `services/backup_stats_collector.py` | tables of snapshots and their presence | register, reconcile, retain | job runner, history pruning |
| Repository browser `services/repository_browser.py` | listing cache with a time to live | list, replace, expire | restic |
| Application database `services/appdata_schema.py` | schema version | check, reset | every process |
| Rclone configuration `services/rclone.py` | – | create, update, delete remotes | rclone |
| Notifications `notifications/` | – | one message to each provider | SMTP, HTTP |
| Logs, dashboard, CLI, web shell | – | reading and formatting | – |

### Where it is hard

*Interleaving on one loop.*  Code between two awaits is not interrupted, but every
await lets other runs, cancellations and the shutdown in.  A cancellation may hit a
run before its first step (its body then never executes), in the hook that writes
the history row, in the operation, or after it.  *Between processes* nothing is
atomic but flock and a SQLite transaction.  *Failure:* any process may die at any
point; a history statement may fail; a file may vanish for a while.  *Time:* the
scheduler compares instants of cron expressions with the times of its own ticks.

### What makes each part correct

- Run manager with history and hooks: every run reaches one outcome; whoever is told
  that it is over finds the outcome in the history; an outcome is never rewritten;
  shutdown leaves nothing behind; a cancellation is honoured; records neither leak
  nor disappear while somebody holds on to them.
- Resource locks: two runs never work on one repository; no lock is left behind; runs
  that refuse each other do not all fail.
- Scheduler: no due instant is missed or used twice; every change of the
  configuration takes effect; every run is in one report.
- Scheduler owner, status, run control: a scheduler works only while somebody will stop
  it; a stop is heard whenever it comes; a scheduler works again after crashes and with
  the leftovers of the dead; the web process does not end under a working scheduler.
- Run service with two managers and one history: a list shows every run once and none
  that is alive as interrupted; the sweep of one process spares the runs of another.
- Restore: the row of a restore ends in the outcome of its run, whoever wrote it last; the
  registry's lock is given on; requests agree on what they report.
- Workflow engine, job runner, executors: every level of hooks that was opened is closed;
  the row of a step tells how it ended; statistics belong to the step they are stored
  under, and no success is left out; after a cancellation nothing starts.
- Subprocesses: no command outlives its call, and no wait of a cancelled run is unbounded.
- Configuration: whatever sequence of edits, the file can be loaded; no edit undoes
  another; forms, views and runs agree on every inherited value; the editor's lock is
  given back.
- Artifact store, statistics: after a full reconciliation exactly the snapshots that exist
  are present; a snapshot keeps its run; retention and merging lose nothing in use; and each
  of these also when the configuration is edited meanwhile, as far as the code can keep it.

`PROJECT.json` lists the parts with their status and every hazard at its line.

## 2. Modules

| Module | Models | Status |
|---|---|---|
| `RunLifecycle` | abstract: what a client is told about a run | specification, refined by `RunManager` |
| `RunManager`, `MCRunManager`, `RunManagerProofs` | run manager, its hooks and the rows of the `runs` table, process death and restart | checked, proved |
| `ResourceLocks`, `MCResourceLocks`, `ResourceLocksProofs` | lock files, lock retries, the locked part of a run | checked, proved |
| `Subprocess` | one external command, its group of processes, its pipes, the call that waits | checked and proved with `Execution` |
| `Execution`, `MCExecution`, `ExecutionProofs` | what a run does under its locks: hooks, steps, rows, collection; extends `Subprocess` | checked, safety proved |
| `Scheduler`, `MCScheduler`, `SchedulerProofs` | the scheduler's tick, reload and report | checked, safety proved |
| `SchedulerOwner` | owner thread, scheduler threads and processes, their lock and socket, status readings | checked and proved with `RunService` |
| `RunService`, `MCServing`, `ServingProofs` | runs in two managers and one history, and requests that list them; extends `SchedulerOwner` | checked, safety proved |
| `Restore`, `MCRestore`, `RestoreProofs` | restores: their registry and its lock, their operation, requests that look at or cancel them; composes `RunManager` | checked, proved |
| `ConfigModel` | the configuration as a value: tables, inheritance in its three translations, validation | checked and proved with `ConfigEditor` |
| `ConfigEditor`, `MCConfig`, `ConfigProofs` | structured edits, raw saves, hands on the file; extends `ConfigModel` | checked, safety proved |
| `ArtifactStore` | the tables of repositories and snapshots, their transactions as operators | checked and proved with `StatsCollector` |
| `StatsCollector`, `MCCollector`, `CollectorProofs` | collections of runs and refreshes against everything else; extends `ArtifactStore` | checked, proved |

How they fit together: `Scheduler` and requests start runs in a `RunManager`; a run takes
its locks as in `ResourceLocks`, executes as in `Execution` and lets `StatsCollector` store
what it did.  What one module assumes of another is shown there: that a cancelled operation
unwinds (fairness in `RunManager`) is `CancelledExecutionEnds`; that a run has its
repository for itself (`Holders` in `StatsCollector`) is `ExclusiveWork`; that
collection ends (`Collect` in `Execution` is one step) is the bound on every restic command.

Each module gives one stretch of code between two awaits (or two system calls, where
other processes can see the difference) as one action.  Names are the source's names
where TLA+ allows it; every definition is tied to its lines by `map` in
`PROJECT.json`.  Definitions whose comment begins with "Mutant:" are not part of the
model: they are the same operation with a plausible mistake, and each shows that a
property notices it.

### RunManager

| Code | Model |
|---|---|
| `_runs`, `_tasks`, `_finish_tasks`, `_terminal_events` (dictionaries) | `runs`, `tasks`, `finishTasks`, `events`: their keys; an event that is set is removed by the code in the same step |
| `RunRecord.status`, `.cancellable` | `status`, `cancellable` |
| the coroutine `_execute` of a run | `pc`: created, startHook, operation, finishing, …; `gone` after `_on_task_done` |
| `task.cancel()` before it is delivered | `pending` |
| the coroutine `_finish(CANCELLED)` created by `_on_task_done` | `fpc` |
| started and terminal hook in their worker thread | `hook` |
| the row in `runs`, dispatched notifications | `row`, `notified` |
| callers of `join()`, `shutdown()` | `jpc`; `spc`, `awaited`, `timedOut` |

`Start`, `Cancel`, `Join*`, `Shutdown*` are the methods; `Begin`, `NeverBegin`,
`StartHookDone`, `MarkNotCancellable`, `OperationEnds`, `OperationCancelled`,
`FinishDone`, `TaskDone` the task of a run; `FinishTask*` the second task;
`CreateRow`, `RecordRow`, `Notify` the hooks; `Exit` and `Boot` death and restart with
`mark_active_runs_interrupted`.  `Exit` is possible in every state.  Runs of both
origins are in one manager: GUI and scheduler have one each, with fewer kinds of runs,
and behave like a part of this one; that the two share one table, and that each sweeps
only rows of its own origins, is in `RunService`.  The operation itself is
abstract: it ends by itself in any of its results, or by a delivered cancellation; what
its unwinding raises takes the place of the cancellation, and the run then ends as
`unexpected_error` (`OperationCancelled`, `run_manager.py:278`).
History statements fail only for the runs in `FaultyRuns`; the properties about
durability speak of the others (`Reliable`).

### ResourceLocks

`holder` is the kernel's view of the lock files.  A run takes the locks of `Needs` one
by one in the order of the ids (`Take`), gives up at a conflict (`Blocked`) or at a
file it cannot open (`CannotOpen`), releases in reverse order (`Release`), sleeps and
retries (`Retry`, `Wake`), works (`Enter`, `OperationEnds`, `OperationRaises`),
collects its statistics under the locks (`CollectEnds`), or dies (`Crash`).  A loop
that takes or releases locks runs nothing else meanwhile (`Busy`), other loops and
processes interleave lock by lock.  Submission, lookup of the target and early
returns before the first attempt are not modelled.  flock itself is external: it is
exclusive and vanishes with the process.

### Restore

The module has the variables of `RunManager` and takes its steps from an instance of it.
`StartRestore` is `RunManager.Start` together with the pending record and the place in line
for `registry.add`, since `start` does not suspend.  In the same way `OperationBegins`
extends the end of the started hook, `CommandEnds` extends `MarkNotCancellable`, and the
ends of a restore's operation extend those of `RunManager`.  When the last update of a
cancelled restore fails or finds no record, or a pump fails while restic is killed
(`CommandRaises`), the exception replaces the cancellation: the second way in which
`RunManager.OperationCancelled` ends (`UnwindResumes`).

| Code | Model |
|---|---|
| table `run_restores` | `details` (the table `runs` is `row`) |
| `RestoreRegistry._lock`, an asyncio.Lock, which is fair | `line`: its holder, then those who wait, in order |
| the holder's call in its worker thread | `desk`: nothing read yet, read, done; result and status found |
| an upsert whose awaiting task was cancelled | `orphans` |
| `_pending_restores` | `pendingRestores` |
| `start_restore` after `start`; the operation of a run; a request | `starter`; `op`; `request` |
| statuses shown to users | `told` |

`Read` and `Write` are the statements of the holder, `StartResumes`, `ClaimResumes`,
`ReportResumes`, `ErrorResumes`, `UnwindResumes`, `LookResumes`, `CancelResumes`,
`SettleResumes` are what each caller does when it goes on, up to its next await.
`HookCreates` and `HookRecords` are the terminal hooks of the run, which write the same row
without the lock.  Two history variables name the exceptions of the properties: `failed`,
a statement of this restore has failed; `overtaken`, the outcome was written while a call
of the registry that knows nothing of it was under way (the insertion, a request that
has read `running`, an upsert without its caller, an update that was cancelled in an
exception handler), or another restore had already pruned the row that the operation had
written.  The first two are disagreements 2 and 3 below.  A record that is not in the table
is looked up in `_pending_restores` (`Found`, `HasOne`).  Only the registry prunes restores:
the prune of the run history is about the other kind of runs.  The three statements
of an upsert commit one by one; the model takes them apart only where one of them fails
(`UpsertedInPart`).  Validation, command lines, previews and list views are left out.

### Scheduler

Time is a clock of abstract instants; a cron expression is the set of instants it
stands for, and croniter's `get_prev` is the latest of them that is not later than
`now` (that there is one whenever it matters is the lemma `LatestExists`).  The tick is
`BeginTick` (stat), `Digest`, `Parse` (load), `Check` (read the time, is a report due),
`Query`, `Send`, `Trigger` (the three loops over backups, workflows and rclone tasks,
which never suspend because `RunManager.start` does not), `EndTick`; `TickFails` is the
`except Exception` around all of it, after an arbitrary part of the due items has
been started.  The file is written (`Edit`) or becomes unreachable and returns
(`VanishOrReturn`) between any two of these, runs finish (`RunFinishes`) and are stored
by their terminal hook (`StoreRun`) at any moment, and time passes.  `gui` says whether
the owner has a history (report by window) or not (report from a buffer).
The clock is the host's and may be set back (`ClockGoesBack`).
Each configuration has its own report schedule (`Reporting`); `reschedules` counts the
reloads that changed it, since the windows of two schedules overlap (`ReportedOnce`).
Simplifications: every write has a new mtime; `REPORT_BUFFER_LIMIT`, the guard that
cleans logs once a day, `stop()` and start-up failures are left out.
`Exposed` names two short moments in which the file may change; the code is not
proof against them (see "Disagreements"), so the passing run closes them.

### Subprocess and Execution

| Code | Model |
|---|---|
| where `run_command`/`stream_command` waits | `stage`: starting, waiting, draining, then terminating, killing, reaping, flushing during the cleanup |
| the process; who holds its pipes | `running`; `writers`: the command, a child in its group, one outside |
| SIGKILL sent, transports closed, pump tasks | `killed`, `closed`, `pumps` |
| place of the run in engine and runner | `at`: level (1 job, 2 workflow, 3 unit), phase of hooks, unit, substep, command |
| rows of `run_steps`, results of steps | `steps` (`row`, `verdict`, `summary`) |
| `_last_successful_step_ids`, `completed_backup_artifacts` | `stepIds`, `artifacts`: queues per task and substep |
| contexts handed to the statistics | `collected` |

A timer may fire at any moment after its start; a process ignores SIGTERM if it likes, but
not SIGKILL.  `SlowWait` is the behaviour of asyncio in some versions of Python in which
`proc.wait()` waits for the pipes too; the run sets it, since it is the worse case.  A
target is a sequence of units with their substeps; a hook, a look for the repository, its
creation, the work and a look for a remote are each a `Call`.  `mode` tells dry runs, runs
without history (command line) and runs with a faulty history: `create_step` and
`finish_step` swallow a statement that fails, so that a row may be missing (`NewRows`) or
left as it is (`EndRows`).  `CancelCall` is
`task.cancel()` at any await; a cancellation during the cleanup is remembered.  An exception
of an operation and a cancellation leave all levels without on_error hooks (`Escapes`): the
documentation of `on_error_hooks` (README.md:826) speaks of failures, the test
`test_cancellation_skips_job_on_error` of cancellations.  A statement of the history that is
cancelled may leave its step row `running` (`StatementCancelled`).  `RowsTellTheResult` says
what is left: no row shows an end that its step did not have, and where the statements work
only the step that a cancellation has met may lack its end.

### SchedulerOwner and RunService

| Code | Model |
|---|---|
| `SchedulerOwnerManager.run` and the scheduler it has just started | `owner` |
| `_scheduler`, `_scheduler_thread`; the owner's `_stop_event` | `published`; `stopping` |
| `stop()` with its two rounds of signals | `stopper` |
| `CronScheduler` with `_stop_event`, `_async_stop`, start result | `sched`: `stop`, `event`, `told` |
| `stop()` between its two halves | `posting` |
| `dockkeep-scheduler.lock`, `run-control.sock` | `lock` (a scheduler or a reading of the status), `socket` |
| a bounded join that ended without the thread | `gaveUp` |
| records in the manager of each process, history rows | `run`, `row` |
| a request between its three questions | `listing` |

`Fresh` to `Unwound` follow a scheduler through `start()`; `Start` to `JoinTimesOut` are the
owner, `AskStop` to `ThreadJoinTimesOut` are `stop()`.  `faults` bounds the disturbances:
slow starts, failures, crashes, daemons, readings of the status.  The second round of
signals in `stop()` never finds a scheduler that the first has missed, because the owner
checks `_stop_event` under the lock that publishes (`Withdraw`).  A request asks its own
manager, then the scheduler's through the socket, then the history.  Runs are of different
targets; the search for a running duplicate in `start_run` is left out, and documented in
the code as not exclusive.

### ConfigModel and ConfigEditor

A document maps the paths of its tables to the fields set in them; a field stands for a
class of fields with one behaviour (flags, retention numbers, lists, password choices).
`ConfigModel` has the inheritance as the resolver does it (`Resolve`, `ResolveSecret`), as
the forms show it (`Parent`, `PasswordHint`) and as the effective view names its source
(`SourceOf`, `SecretSource`), and what makes a document loadable (`Messages`).  A request
submits a form or a text and goes through `Begin` (read under `_write_lock`, edit),
`Validate`, `Write` or `WriteFails`, or `Blame`, which reads the file again to tell whether
it was broken before.  A raw save does the same without the lock; `HandWrites` and
`FilesChange` are somebody else.  `overtaken` marks an edit whose file was replaced without
the lock after it was read: the one case in which edits are lost.  Forms are edits too:
`Forms` are the pages of a document saved as they are shown, `FormAgain` is the page after a
refusal.

A file written by hand may hold values that load as others than they are written, or that no
page can show as they are (`Odd`): an empty text where a text is optional (`Loads` makes it
"no value", but the field counts as set), a flag given as a text, a fraction where a whole
number is asked for, a list with a blank line or with space around a line.  `FieldView` and
`ApplyFields` convert them as the pages do.  The properties hold with exceptions that name
these values: `Emptied` in `ViewsAgree`, and `Unshown`, fractions and quoted flags in
`PagesRoundTrip`; section 5 says what happens there.

### ArtifactStore and StatsCollector

`ArtifactStore` gives each transaction as an operator from a database to a database, with
the cascades of the foreign keys.  A collection (`calls`) is one record per run or refresh:
`Identify` (restic cat config), `Stats`, `List` (restic snapshots; a cleanup has
`ListNothing`), `Resolve` and `Rebound` (the location, in two transactions), `Relist`,
`CheckDue` (reads the configuration for retention), `Persists`.  Everything else happens
between any two of them: other collections, `RemoveLocation`, `Merge`, `Recreate`, `Copy`,
`Reconfigure`, `NewDay`.

`config` is the repository that config.toml gives each backup.  A run has read it when it
starts: it locks that repository and works there (`locked`).  The collector knows the name
of the backup only, and each of its restic commands looks the repository up again (`Target`,
`RepositoryService._backup`).  Two history variables name the exceptions: `strayed`, the
runs of which a command went to a repository they had not locked; `exact` (in `calls`), the
repository has not changed since it was listed, and the observation is for it.  A refresh
takes no lock, so it may mark a newer snapshot missing until the next full one: it is
`exact` or not judged.  A backup may make no snapshot (`--skip-if-unchanged`), and a run may
back up twice before anything is collected.

Simplifications: a run works on one repository; a policy keeps the newest snapshot; calls
are for different backups, so the lock per backup excludes nothing; the link of a snapshot
is to its run, not to the step.  Assumed: nobody else backs up, forgets or replaces a
repository while a run holds its lock (`Holders` in `Recreate` and `Copy`); Dockkeep's lock
says nothing to others, and restic's own does not cover the collection.

## 3. Runs

`PROJECT.json` names the mutant that breaks each property.  All passing runs are
exhaustive.

| Run | Configuration | Shows |
|---|---|---|
| `manager_safety` | two runs, one with failing history statements; one restart; 3.3 million states | `AnnouncedIsDurable`: an announced outcome is in the history; `ShutdownIsComplete`; `NotifiedOnceAfterRecord`; `HistoryIsFinal`; `CancellationWins`; `ImplementsLifecycle`: every step of the manager is a step of `RunLifecycle` or leaves the client's view of a reliable run alone |
| `manager_live` | one run, no restart; 1,142 | `CancelledRunEnds`, `ShutdownDrains` |
| `locks` | three runs on three loops, needs in a cycle, one retry, a lock file that cannot be opened; 15 thousand | `ExclusiveWork`, `SomebodyWins`, `AcquisitionEnds` |
| `execution` | a backup that creates its repository; a workflow with one task twice; a workflow with a remote copy and a cleanup; one hook per list; two cancellations; 751 thousand | `StatsBelongToTheirStep`, `EverySuccessIsCollected`, `LevelsUnwind`, `RowsTellTheResult`, `CommandsAreStopped`, `NothingStartsAfterCancel`, `CancelledExecutionEnds` |
| `scheduler_ticks` | one item, three instants, three contents (one invalid, two with different report schedules), one edit, one failing tick, both owners; one run, or a clock that is set back once; 1.5 million | `TriggeredOnce`, `NothingMissed`, `NothingOverlooked`, `EditsArrive` |
| `scheduler_startup` | as `scheduler_ticks`, with the exposed moments | violation: `NothingOverlooked` |
| `serving` | two scheduler threads and a daemon, two disturbances; or one listing and one run over a restart; 282 thousand | `NoOrphanScheduler`, `ExitIsClean`, `SweepSparesLiveRuns`, `ListingIsTrue`, `StopIsHeard`, `SchedulerComesBack` |
| `restore_safety` | one restore whose statements may fail, two requests, one restart; 2.7 million | `RestoresAreFound`: no call misses its record, although no code orders insertion and first update; `RestoreEndsAsItsRun`; `AnswersAgree` |
| `restore_queued` | one request, nothing fails | violation: `CancelledRestoreEnds` |
| `restore_poll` | the same | violation: `SuccessIsKept` |
| `config` | two requests, each any of fifteen edits or seven texts, one change from outside; 171 thousand | `FileStaysLoadable`, `ViewsAgree`, `PagesRoundTrip`, `EditsDoNotInterfere`, `EditsAreAnswered` |
| `repository` | two locations, two backups, three snapshots, two calls at once; two runs and a refresh with one change or failure, a run and a refresh with two; 2.9 million | `SnapshotsKeepTheirRun`, `ReconcileIsExact`, `RetentionSparesWhatIsUsed`, `MergeLosesNothing` |

The type invariants hold in the same instances, and so do invariants for which a theorem
stands instead of a run: `RecordsOwned`, `NoLockLeftBehind`, `CollectUndisturbed`,
`ReportedOnce`, `OneScheduler`, and `WorkIsShown`, `PendingIsGivenUp` and `EachWaitsOnce` of
`Restore`.

### Bounds, and why they suffice

- *Run manager.*  Runs interact only through `shutdown()`, `join()`, pruning and the
  life of the process; two runs show every pair.  `MaxBoots = 2` gives the state a
  predecessor left behind, its sweep, and another death.  Ids are never reused.
- *Locks.*  Three runs whose needs form a cycle over three resources are the smallest
  instance in which unsorted acquisition can refuse everybody.
- *Execution.*  The pairing by position needs one task twice in a workflow; the levels need
  one unit with hooks of its own and one without, in both kinds of units that have them; a
  second cancellation hits the cleanup of the first.  More hooks in a list repeat what the
  first one does.
- *Serving.*  Two threads are the one that is going and the one that replaces it; a daemon
  is everybody else who wants lock and socket.  Two disturbances give a slow start that
  comes up later, or a crash with its stale socket next to a reading of the status.  Runs
  and schedulers meet in the listing and in the sweep only, so the listing is checked with
  the restarts that stop and exit give, not with every disturbance.
- *Configuration.*  Two requests show every interference through the file, and the edits
  cover each handler in a form that collides with another; the texts are a sound document,
  one for each kind of mistake, one with lists and passwords that end the inheritance, and
  one with a value of every kind that loads but is not shown as it is.
- *Repository.*  Two locations are needed to merge, copy and retain; two calls at once are a
  run and a refresh, or two runs; a third snapshot is the one made after a list was read.
  `LocationLimit = 0` puts every other location beyond the ten that retention keeps, as if
  ten younger ones were there.
- *Restore.*  Restores meet in the line of the registry, where a second request
  stands for the call of another restore, and in its prune, which takes two of them and is
  left to the proof; two requests are needed to let answers disagree and to have one of
  them correct the row while the other looks.
- *Scheduler.*  Three instants give an instant before, on and after the edge of two windows;
  two valid configurations with different schedules and an invalid one give every kind of
  reload, also one between two report schedules; one failing tick gives a repeated one.
  Runs that finish and a clock that is set back are in different behaviours (`Bounds`): the
  properties of this run are about items and the file, which runs do not touch.  Items never
  read each other's state, so one suffices; the proofs cover any number of everything.
- Deadlock is not checked: in every model all runs may be over, all clients idle or
  the clock at its bound.

### Fairness

- *Run manager:* weak fairness of each run's task, finish task, worker thread and
  joining caller, and of `shutdown()`: the event loop resumes every task that can be
  resumed, and database statements return.  `OperationEnds` is not fair, an operation
  may run for ever; a cancelled operation does unwind (`OperationCancelled`), which
  the subprocess runner's kill after a grace period justifies.  Nobody has to cancel,
  join, shut down or restart anything.
- *Locks:* weak fairness while locks are taken or released (a thread between two
  awaits runs on), strong fairness for what the loop resumes, because another task of
  the loop may be busy in between.  Operations may run for ever.
- *Execution:* weak fairness of the run and of the call, timers included; a process that got
  SIGKILL exits.  Commands may run for ever, children may keep the pipes for ever.
- *Serving:* weak fairness of each scheduler thread, of the owner thread and of the halves
  of `stop()`; status readings end, runs that began end or are cut off.  Nothing says that
  anybody starts, stops or asks, nor that a timeout expires.
- *Configuration:* weak fairness of each request: worker threads run on.
- *Scheduler:* weak fairness of the loop's thread: the wait between two ticks has a
  timeout, the report's providers have timeouts, the log cleanup reads a directory.
  Clock, editor and file system owe nothing.

## 4. Proofs

Every theorem holds for any values of the constants that satisfy the module's
assumption: any number of runs, loops, resources, items, configurations, restarts,
edits and failing ticks.  The assumptions only say what kind of thing a constant is and
which names are different; the few that say more are named with their proof.  Each module
has an invariant `IInv` that is inductive (`InductiveInvariant`); most of its parts were
checked by TLC on the instances of section 3 before they were proved.

**RunManagerProofs.**  `InductiveInvariant`, `TypeCorrect`, `RecordsAreOwned`,
`AnnouncedOutcomesAreDurable`, `ShutdownLeavesNothing`, `NotifiedOnce`,
`OutcomesAreFinal`, `CancellationIsHonoured` (cancelled, or an unexpected error of the
unwinding, and nothing else).  None of the properties is inductive:
that a record exists says nothing of where its tasks stand.  The invariant `IInv` gives
for each run the tables (`TablesInv`), status and hook (`StatusInv`), row and
notifications (`HistoryInv`) and waiting callers (`JoinInv`) that belong to each place
of its tasks, what a shutdown has already waited for (`ShutdownInv`: since `_stopping`
refuses new runs, the tasks it saw cover those that are left), and that a dead process
has no volatile state.  The two action properties follow from `IInv` and a look at the
actions that write a row or an outcome.

`ManagerImplementsLifecycle` is the refinement.  What clients see of a reliable run is
`Seen`: the status of its record while there is one, then its row; `Settled` are the runs
whose row has an outcome, `Told` those a caller of `join()` got back.  There is one lemma
for each action that changes one of the three (`StartRefines`, ..., `BootRefines`), and
`HiddenSteps` for the others.  `IInv` is needed where a record is dropped (its row
must say the same) and where a process dies or starts (every row that is swept was seen as
active).

**ResourceLocksProofs.**  `InductiveInvariant`, `TypeCorrect`, `WorkIsExclusive`,
`LocksAreReturned`, `CollectingIsUndisturbed`, `ContentionHasAWinner`.  The last one is
the interesting one.  `WinnerInv` says that once a run was refused, and as long as no
run has all its locks, some run is taking locks and holds one above every lock about
to be given back.  When that run is refused itself, the lock it wants is above all it
holds (`Ascending`: locks are taken in the order of the ids), so its holder is not
giving it back, and is the next such run.  Without the sorting the step fails, and
the mutant `IsNext_Unsorted` shows a run of the model where everybody loses.

**SchedulerProofs.**  `InductiveInvariant`, `TypeCorrect`, `InstantsTriggerOnce`,
`NoInstantIsMissed`, `RunsAreReportedOnce`, `NoChangeIsOverlooked`.  `TriggerInv` counts the
uses of an instant against the failed ticks, the times the clock was set back, and whether
it lies behind the lower edge of the window; a setback counts only when the edge has
followed the clock (`Pending` is what it still has to follow), otherwise the step is not
inductive; `CoveredInv` says of a tick that has started its items that none was left out,
which needs that a latest due instant exists (`LatestExists`, by well-foundedness of the
natural numbers); `HistoryInv` and `BufferInv` follow a run into a report in the two modes,
and counts the reloads that changed the report schedule next to failed ticks and setbacks: a
run behind the last instant of the active schedule may be due again after such a reload.
`FileInv` says that a time stamp the scheduler holds is never ahead of the file, and that an
equal one belongs to the file's content; `NoChangeIsOverlooked` is stated for `Exposed =
{}`, and `scheduler_startup` shows that it needs this assumption.

**ServingProofs** (`SchedulerOwner`, `RunService`).  `TypeCorrect`, `OneSchedulerWorks`,
`SchedulersHaveAnOwner`, `ProcessExitIsClean`, `SweepIsSafe`, `ListingsAreTrue`.  `LockInv`:
whoever is between taking and releasing the lock file has it.  `OrphanInv` and `HandsInv`:
a thread that has not ended is published, in the hands of the owner, or was waited for in
vain.  The delicate moment is a stop between start and publication; `StopInv` says that
who stops has seen all that was published, since the owner looks at `_stop_event` under the
same lock.  `RunInv` adds that a run that is alive is in a process that may have one;
`ListingInv` follows a request: a run that it has seen in no manager has a row, and if it is
alive, it is in a scheduler that the request has yet to ask or that is cancelling it.

**ExecutionProofs** (`Subprocess`, `Execution`).  `TypeCorrect`, `LevelsCloseInOrder`,
`RowsAreTrue`, `ContextsAreTheirSteps`, `SuccessesAreCollected`,
`CancelledRunsStartNothing`, `NoCommandIsLeft`, for any target and any number of hooks.  The
parts of `IInv` say what goes with the place of the run (`Placed`): the state of the command
(`SubInv`), the hooks that were begun inside those around them (`LevelInv`), the steps
(`StepsInv`) and their rows (`RowInv`), where a cancellation has got to (`CancelInv`).  The
work is in the statistics, which pair ids and summaries by their position in two queues.
`QueueInv` says what the queues are at every moment: the ids of the successful steps of a
task and substep that were not collected yet, each once and in their order, and beside them
the summaries of the same steps.  `CollectInv` then counts how far the collection has come
(`Until`), and both properties follow.

**RestoreProofs.**  `TypeCorrect`, `RestoresCanBeFound`, `RestoresEndAsTheirRuns`,
`AnswersDoAgree`, `WorkingRestoresAreShown`, `PendingRestoresAreGivenUp`, `CallersWaitOnce`,
`ManagerKeepsItsRecords`, `CancelledRestoresEndCancelled`,
for any number of restores, requests and restarts.  The assumption adds that there is a run
id, and that no request has the name of one of the other callers of the registry.

- The line: entering, leaving, asking again and abandoning a place keep each caller in the
  line once, and only while it waits (`LineInv`).  The insertion of a restore is in front of
  all its other calls (`OrderInv`), since `start` does not suspend before `add` gets in
  line; this is why no call misses its record.
- The manager: its actions are cut down to what the registry can notice of them (the `Frame`
  lemmas): most are `Quiet`, some give a run its outcome (`Ending`), and three write rows.
  `Life` is the part of the manager's own invariant that holds whatever is in the rows; the
  rest of it does not, because three parties write them.  `ManagerKeepsItsRecords`, the
  manager's `RecordsOwned` under restores, follows from `Life`.
- The row: `SoundInv`, `KeptInv`, `RowInv` and `RecordedInv` say what is in it before the
  outcome, at the last update of the operation, and after `finish_run`, each for a run of
  which no statement failed, the last three for one that overtook nothing.  `DeskInv` and
  `OrphanInv` bound what the calls under way may still write.
- The answers: a run of this process is reported as its record says (`LiveInv`), one of an
  earlier process as its row says (`PastInv`), also while one request corrects the row
  and another has read it before.
- The cancellation: `CancelInv` says that one that was asked for is still to be raised as
  long as the run works.  It goes further than the manager's own `CancellationWins`, which
  admits an unexpected error of any unwinding: the end of a restore is one only if a
  statement of this restore has failed or something was raised while restic was killed.

Every action of the operation and of a request is proved from a few lemmas on what such a
step leaves alone (`OperationGoesOn`, `RequestMoves`, `SyncMoves`, `OthersKept`).

**ConfigProofs** (`ConfigModel`, `ConfigEditor`).  `TypeCorrect`, `FileIsLoadable`,
`EditsKeepTheRest`, `ViewsAreRight`, `PagesAreRight`, for any operations and texts of the
shapes that `EditorAssumption` gives.  `EditFrame`: an edit leaves every table alone that it
is not about; with `Consistent` (what a request is about to write is the file as it is now,
edited, unless it was overtaken) this is the property of the edits.  `LoadableMonotone`: a
text that was validated stays loadable while files appear.  `SourcesAreRight` and
`HintsAreRight` go through the three translations of the inheritance: the first of three
tables that has a field is the one the resolver takes it from, unless it has an empty text
there, and of two ways to give a password the same one is named.  `PagesAreRight` is the
round trip of a page.  `ViewTable`: the fields of a page, put back into its table, leave a
table with the same values (`SameTable`); an empty list that only overrides nothing may go,
and what `Unshown` names is excepted.  `ViewCredential`: the password that a page cannot
show is kept, and a hint of another kind names what is there.  Documents whose tables are
the same (`Alike`: outside of the page itself, on it but for the values it cannot show) are
loadable together, resolve alike and have alike secrets and steps (`AlikeLoads`,
`AlikeResolve`, `AlikeSecret`, `AlikeSteps`), and there is one lemma per kind of page
(`GlobalPage`, `JobPage`, `DefaultsPage`, `BackupPage`, `RclonePage`, `WorkflowPage`).
`IsDocument` says what a loaded text holds: no value that the models of `models/config.py`
refuse, and a table of each job, which TOML makes for the tables below it.

**CollectorProofs** (`ArtifactStore`, `StatsCollector`).  `RunsAreTold`,
`LocationsAreUnique`, `ListsAreReconciled`, `RetentionSparesTheConfigured`,
`MergersLoseNothing`.  Each transaction has a lemma that says what it does to the tables:
the keys and ids of locations stay unique (`IsDb`), no snapshot gets a run that did not make
it (`Attributed`), deletions spare what is present (`Spares`), and after
`_persist_observation` exactly what was listed is present. `LockInv` says that the newest
snapshot of a repository belongs to the run that works on it, once that has made one, and
`Consistent` that its list is still true; both rest on the repository's lock (`Holders`),
which refreshes do without, and both leave out the runs of `strayed`.  `Told` are the names
a snapshot may get: its own run, one that has strayed, and one that made no snapshot.

**Only model-checked.**  Liveness under fairness (`CancelledRunEnds`, `ShutdownDrains`,
`AcquisitionEnds`, `CancelledExecutionEnds`, `EditsArrive`, `EditsAreAnswered`,
`StopIsHeard`, `SchedulerComesBack`, `CancelledRestoreEnds`) is out of the prover's reach.
Every other property of a passing run, all safety properties among them, has a theorem.

## 5. Disagreements between code and documentation

1. *A configuration saved while the scheduler starts is not picked up*
   (`scheduler_startup`).  The file is loaded by `owner.py:143` or the command line;
   `cron.py:179-180` records its time stamp and digest later.  A save in between is taken
   for the active configuration and stays without effect until the next save, although
   README.md:667 says that "Saved changes apply on their own".  The same happens when the
   file can be read for the digest but not for the load that follows (`cron.py:392-395`).
2. *A restore cancelled early can come back as running* (`restore_queued`).  The upsert of
   `registry.add` (`restore.py:481`) writes `running` without an end; it may come after
   `finish_run` of a run that was cancelled before its operation began.  The operation
   never ran, so nothing removes the pending record, and `restore.py:627-629` leaves the
   row as it is until the process restarts.  `tests/test_services/test_restore.py:651`
   asserts that such a restore ends; it cancels after the insertion.
3. *A request can overwrite a success* (`restore_poll`).  `get_restore` reads the row, then
   asks the run manager (`restore.py:489`, `:626`).  A run that ends and is dropped in
   between is taken for lost, and its row becomes `unexpected_error` (`:630-642`).
   `tests/test_services/test_restore.py:582` polls in this way and asserts `SUCCESS`.

Observations made while modelling, without a run of their own:

- A run that finishes just before a report instant and is written after the query at
  `scheduler/cron.py:533` is in no periodic report; README.md:774 promises "the runs that
  finished in the last complete interval".
- `core/job_runner.py:130-132` documents the completion callback as invoked "while resource
  locks are still held"; when the operation raises, `:272-274` calls it after their release.
- A clock that is set back behind an instant makes the scheduler start its items a second
  time (`_last_check_time` follows the clock, `scheduler/cron.py:304`): at most once for
  each time it is set back, and no instant is lost by it (`InstantsTriggerOnce`,
  `NoInstantIsMissed`).
- A cancelled run ends as `unexpected_error` when its operation raises while it unwinds
  (`run_manager.py:278`): a pump that fails while the command is killed
  (`subprocesses.py:343`), or the last update of a cancelled restore, which replaces the
  cancellation when it fails or finds no record.  The handler `except KeyError`
  (`restore.py:1158`) would ignore a missing record, but the await of the shielded update in
  the loop above it raises the KeyError first; the run manager's two loops of this kind
  leave it by `except Exception: break`.
- A run of the scheduler is shown as "Interrupted" while it is alive when the scheduler
  cannot be asked; a run that begins between the questions of a request likewise
  (`ListingIsTrue` excludes both).
- While one reading of the status holds the scheduler's lock for its moment, another one
  shows a scheduler that is not there, and a scheduler that starts needs another attempt.
- A refused page of the configuration does not show a newly typed direct password again;
  where one was set before, saving the page then keeps the old one.
- An empty list set at the global level goes when its page is saved; its effect is the same.
- `keep_within = ""` and `bwlimit = ""` load as no value (`models/config.py:70`, `:95`) but
  count as set: the effective view names their level as the source of a value that comes
  from further up (`services/config.py:130-133`), and the pages below show nothing as
  inherited.
- A flag given as a text (`retention = "no"`) is loaded as false and shown as true
  (`config_editor_schema.py:779`): saving its page unchanged turns it on, or is refused when
  there is no retention policy.  A page that shows `keep_last = 7.0` is refused as it is;
  `exclude = [""]` vanishes and `exclude = [" x"]` loses its space when their page is saved.
- A request without `credential__mode` leaves the password alone; when it is refused, the
  page shows "inherit" (`config_editor.py:2114`), and saving that removes the password.
- Two configurations with different report schedules have report windows that overlap: after
  a reload a run may be in one report of each (`cron.py:516`, `:876-879`).
- An UPDATE of a step row that fails is logged and forgotten (`run_history.py:117`): the row
  says "running" of a step, and of a run, that is over, for good.
- When the repository of a backup is edited during its run, the rest of the collection goes
  to the new repository, whose lock the run does not hold (`repositories.py:275`): its
  newest snapshot may be linked to this run, and a list read there may be overtaken.  Id,
  statistics and list of one collection may come from different repositories.
- A backup that makes no snapshot is collected like one that does: its run is named for the
  newest snapshot if that has no run yet.  Two backups of one run are collected after both,
  each as the newest snapshot.
- Retention protects the configured locations when it is due before the transaction; one
  that becomes due in between protects only the location of the collection
  (`backup_stats_collector.py:213-218`), and a location that is configured in between is not
  protected either.
- A cleanup that finds another repository at its location reconciles it with an empty
  list; the next full collection repairs it.
- `finish_run` inserts the row of a restore again, without its details, when another restore
  has pruned it after the operation's last update (`restore.py:271`, `run_history.py:239`).
  It takes a retention of fewer restores than end at once; such a restore is then not found.

## 6. Not modelled

- *Parts without a module.*  Repository browser (read-only listings behind a cache that is
  lost with the process), rclone configuration (rclone keeps its own file), notifications
  (network and formatting; `RunManager` has when they are sent), logs and dashboard (they
  read), web shell (templates).  The command line is modelled where it runs a scheduler.
- *Left out of the modelled parts.*  Check and reset of the database schema when two
  processes start at once; status file and heartbeat, which only decide what is shown;
  paging, filters and viewmodels of lists; the duplicate check of `start_run`; texts,
  layouts and suggestions of the forms; provider sections and the syntax of values that the
  models refuse in the configuration; arguments and output of restic and rclone; previews of
  restores; `REPORT_BUFFER_LIMIT`.
- *The environment.*  SQLite's atomic commit, flock, asyncio, croniter, tomlkit, restic
  and rclone are assumed to do what the code relies on; the map marks what stands for them.

## 7. Plan

Proofs:

1. Theorems where section 2 has prose: that every step of `Restore` is a step of
   `RunManager` or leaves its variables alone, apart from the rows; that the collection of
   an execution runs under the lock that `StatsCollector` takes for granted.

Models: the start of the database by two processes; the cache of the browser.
