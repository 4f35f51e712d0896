----------------------------- MODULE RunManager -----------------------------
(***************************************************************************)
(* services/run_manager.py: the asyncio manager that owns every operational*)
(* run of one Dockkeep process (backup, workflow, rclone sync, restore),   *)
(* with the hooks the GUI and the scheduler give it: run_history.create_run*)
(* when a run starts, terminal_run_hook (history row, then notification)   *)
(* when it ends, and the sweep that closes stale rows at the next start.   *)
(*                                                                         *)
(* Code between two awaits runs without interruption on the event loop, so *)
(* one action is one such stretch.  Everything the loop may do in between  *)
(* interleaves: another run, a cancellation, the shutdown, a database      *)
(* write in a worker thread, the death of the process.                     *)
(***************************************************************************)
EXTENDS Naturals, FiniteSets

CONSTANTS
    Runs,            \* run ids
    SchedulerRuns,   \* the runs with RunOrigin.SCHEDULER, the others are MANUAL
    FaultyRuns,      \* runs whose history statements may fail (disk, lock)
    Retention,       \* TRUE: history retention is configured, old rows are pruned
    MaxBoots         \* bound: how often the process is started

ASSUME ConstantsAssumption ==
    /\ SchedulerRuns \subseteq Runs
    /\ FaultyRuns \subseteq Runs
    /\ Retention \in BOOLEAN
    /\ MaxBoots \in Nat

Active   == {"queued", "running"}
Terminal == {"success", "failed", "cancelled", "skipped", "lock_error",
             "config_error", "unexpected_error"}

\* How an operation ends by itself: its Boolean result, or the exception classes
\* that _execute tells apart.
Results == {"true", "false", "already_running", "config_error", "unexpected"}

VARIABLES
    up,               \* the process is running
    boots,            \* how often it was started
    used,             \* run ids that uuid4 has handed out
    stopping,         \* _stopping
    runs,             \* keys of _runs
    tasks,            \* keys of _tasks
    finishTasks,      \* keys of _finish_tasks
    events,           \* keys of _terminal_events (all of them still pending)
    cancelRequested,  \* _cancel_requested
    status,           \* RunRecord.status
    cancellable,      \* the records with RunRecord.cancellable
    pc,               \* where the task of a run stands
    pending,          \* tasks with a CancelledError still to be delivered
    fpc,              \* where the finish task of a run stands
    hook,             \* where the start or terminal hook of a run stands
    row,              \* status in the runs table of appdata.db
    notified,         \* how many terminal notifications were dispatched
    jpc,              \* where a caller of join(run) stands
    spc,              \* where shutdown() stands
    awaited,          \* the tasks, then the events, shutdown() waits for
    timedOut          \* shutdown() gave up waiting

manager  == <<up, boots, used, stopping>>
tables   == <<runs, tasks, finishTasks, events, cancelRequested>>
records  == <<status, cancellable>>
threads  == <<pc, pending, fpc, hook>>
history  == <<row, notified>>
clients  == <<jpc, spc, awaited, timedOut>>
vars     == <<manager, tables, records, threads, history, clients>>

TypeOK ==
    /\ up \in BOOLEAN
    /\ boots \in Nat
    /\ used \subseteq Runs
    /\ stopping \in BOOLEAN
    /\ runs \subseteq Runs
    /\ tasks \subseteq Runs
    /\ finishTasks \subseteq Runs
    /\ events \subseteq Runs
    /\ cancelRequested \subseteq Runs
    /\ status \in [Runs -> {"absent"} \cup Active \cup Terminal]
    /\ cancellable \subseteq Runs
    /\ pc \in [Runs -> {"none", "created", "startHook", "operation", "finishing",
                        "finishingCancelled", "returned", "cancelled", "gone"}]
    /\ pending \subseteq Runs
    /\ fpc \in [Runs -> {"none", "created", "finishing", "ended"}]
    /\ hook \in [Runs -> {"none", "create", "created", "record", "notify", "done"}]
    /\ row \in [Runs -> {"none", "running", "pruned"} \cup Terminal]
    /\ notified \in [Runs -> Nat]
    /\ jpc \in [Runs -> {"idle", "task", "event", "returned"}]
    /\ spc \in {"none", "tasks", "events", "returned"}
    /\ awaited \subseteq Runs
    /\ timedOut \in BOOLEAN

Everywhere(value) == [r \in Runs |-> value]

Init ==
    /\ up = TRUE /\ boots = 1 /\ used = {} /\ stopping = FALSE
    /\ runs = {} /\ tasks = {} /\ finishTasks = {} /\ events = {} /\ cancelRequested = {}
    /\ status = Everywhere("absent") /\ cancellable = {}
    /\ pc = Everywhere("none") /\ pending = {}
    /\ fpc = Everywhere("none") /\ hook = Everywhere("none")
    /\ jpc = Everywhere("idle") /\ spc = "none" /\ awaited = {} /\ timedOut = FALSE
    /\ row = Everywhere("none") /\ notified = Everywhere(0)

-----------------------------------------------------------------------------
(* Bookkeeping shared by the actions.                                      *)

\* _drop_completed_record: the keys of _runs once everything that holds on to
\* the record is gone.  The arguments are the tables after the current step.
AfterDrop(r, st, t, f, e) ==
    IF st \in Active \/ r \in t \/ r \in f \/ r \in e THEN runs ELSE runs \ {r}

\* _cancel_task for every run of a set: task.cancel() once per run, without
\* effect on a task that is already done.
CancelTasks(rs) ==
    /\ cancelRequested' = cancelRequested \cup rs
    /\ pending' = pending \cup {r \in rs \ cancelRequested :
                                   pc[r] \notin {"returned", "cancelled"}}

\* _execute: the status an operation's own end leads to.
Outcome(r, result) ==
    CASE result = "true"            -> "success"
      [] result = "false"           -> "failed"
      [] result = "already_running" -> IF r \in SchedulerRuns THEN "skipped" ELSE "lock_error"
      [] result = "config_error"    -> "config_error"
      [] result = "unexpected"      -> "unexpected_error"

\* _finish on an active record: the outcome is set before the hook is started.
SetOutcome(r, st) ==
    /\ status' = [status EXCEPT ![r] = st]
    /\ hook' = [hook EXCEPT ![r] = "record"]

\* terminal_notification_hook: statuses that have a notification.
Notifies(st) == st \in Terminal \ {"cancelled"}

-----------------------------------------------------------------------------
(* The callers: routers, scheduler tick, control socket, CLI.              *)

\* start(): no await, so the stopping check and the insertion are one step.
\* The id is a fresh uuid4.
Start(r) ==
    /\ up /\ ~stopping
    /\ r \notin used
    /\ used' = used \cup {r}
    /\ status' = [status EXCEPT ![r] = "queued"]
    /\ cancellable' = cancellable \cup {r}
    /\ runs' = runs \cup {r}
    /\ events' = events \cup {r}
    /\ tasks' = tasks \cup {r}
    /\ pc' = [pc EXCEPT ![r] = "created"]
    /\ UNCHANGED <<up, boots, stopping, finishTasks, cancelRequested, pending, fpc, hook,
                   history, clients>>

\* cancel(): only an active, cancellable run with a task.
Cancel(r) ==
    /\ up /\ r \in runs
    /\ status[r] \in Active /\ r \in cancellable
    /\ r \in tasks
    /\ CancelTasks({r})
    /\ UNCHANGED <<manager, runs, tasks, finishTasks, events, records, pc, fpc, hook,
                   history, clients>>

\* join(): wait for the task if there is one, then for the terminal event if
\* there still is one.
Join(r) ==
    /\ up /\ r \in runs /\ jpc[r] = "idle"
    /\ jpc' = [jpc EXCEPT ![r] = IF r \in tasks THEN "task"
                                 ELSE IF r \in events THEN "event" ELSE "returned"]
    /\ UNCHANGED <<manager, tables, records, threads, history, spc, awaited, timedOut>>

\* Mutant: join() trusts the end of the task and ignores the terminal event.
JoinTaskDone_NoEvent(r) ==
    /\ up /\ jpc[r] = "task" /\ r \notin tasks
    /\ jpc' = [jpc EXCEPT ![r] = "returned"]
    /\ UNCHANGED <<manager, tables, records, threads, history, spc, awaited, timedOut>>

JoinTaskDone(r) ==
    /\ up /\ jpc[r] = "task" /\ r \notin tasks
    /\ jpc' = [jpc EXCEPT ![r] = IF r \in events THEN "event" ELSE "returned"]
    /\ UNCHANGED <<manager, tables, records, threads, history, spc, awaited, timedOut>>

JoinEventDone(r) ==
    /\ up /\ jpc[r] = "event" /\ r \notin events
    /\ jpc' = [jpc EXCEPT ![r] = "returned"]
    /\ UNCHANGED <<manager, tables, records, threads, history, spc, awaited, timedOut>>

-----------------------------------------------------------------------------
(* The task of a run: _execute.                                            *)

\* First step of the task: status RUNNING, then the started hook.
Begin(r) ==
    /\ up /\ pc[r] = "created" /\ r \notin pending
    /\ status' = [status EXCEPT ![r] = "running"]
    /\ pc' = [pc EXCEPT ![r] = "startHook"]
    /\ hook' = [hook EXCEPT ![r] = "create"]
    /\ UNCHANGED <<manager, tables, cancellable, pending, fpc, history, clients>>

\* Cancelled before its first step: the body of _execute never runs.
NeverBegin(r) ==
    /\ up /\ pc[r] = "created" /\ r \in pending
    /\ pc' = [pc EXCEPT ![r] = "cancelled"]
    /\ pending' = pending \ {r}
    /\ UNCHANGED <<manager, tables, records, fpc, hook, history, clients>>

\* Mutant: the cancellation kept during the started hook is not raised after it.
StartHookDone_Swallows(r) ==
    /\ up /\ pc[r] = "startHook" /\ hook[r] = "created"
    /\ pc' = [pc EXCEPT ![r] = "operation"]
    /\ pending' = pending \ {r}
    /\ hook' = [hook EXCEPT ![r] = "none"]
    /\ UNCHANGED <<manager, tables, records, fpc, history, clients>>

\* _persist_started_resisting_cancellation: the hook always completes; a
\* cancellation that arrived meanwhile is raised after it, outside the try.
StartHookDone(r) ==
    /\ up /\ pc[r] = "startHook" /\ hook[r] = "created"
    /\ pc' = [pc EXCEPT ![r] = IF r \in pending THEN "cancelled" ELSE "operation"]
    /\ pending' = pending \ {r}
    /\ hook' = [hook EXCEPT ![r] = "none"]
    /\ UNCHANGED <<manager, tables, records, fpc, history, clients>>

\* The operation calls mark_not_cancellable when its operative part is over.
MarkNotCancellable(r) ==
    /\ up /\ pc[r] = "operation" /\ r \notin pending
    /\ status[r] \in Active
    /\ r \in cancellable
    /\ cancellable' = cancellable \ {r}
    /\ UNCHANGED <<manager, tables, status, threads, history, clients>>

OperationEnds(r) ==
    /\ up /\ pc[r] = "operation" /\ r \notin pending
    /\ \E result \in Results : SetOutcome(r, Outcome(r, result))
    /\ pc' = [pc EXCEPT ![r] = "finishing"]
    /\ UNCHANGED <<manager, tables, cancellable, pending, fpc, history, clients>>

\* A pending cancellation is thrown at the operation's next resumption; the
\* operation unwinds (kills its process group) and _execute finishes CANCELLED.
\* An exception that the unwinding raises takes the place of CancelledError: a pump
\* that fails while a process group is killed, the last update of a restore.
OperationCancelled(r) ==
    /\ up /\ pc[r] = "operation" /\ r \in pending
    /\ pending' = pending \ {r}
    /\ \/ SetOutcome(r, "cancelled") /\ pc' = [pc EXCEPT ![r] = "finishingCancelled"]
       \/ SetOutcome(r, "unexpected_error") /\ pc' = [pc EXCEPT ![r] = "finishing"]
    /\ UNCHANGED <<manager, tables, cancellable, fpc, history, clients>>

\* End of _finish in the task.  A cancellation during the terminal hook is raised
\* after it, so the task then ends cancelled although its outcome is set.
FinishDone(r) ==
    /\ up /\ pc[r] \in {"finishing", "finishingCancelled"} /\ hook[r] = "done"
    /\ events' = events \ {r}
    /\ runs' = AfterDrop(r, status[r], tasks, finishTasks, events')
    /\ pc' = [pc EXCEPT ![r] = IF pc[r] = "finishingCancelled" \/ r \in pending
                               THEN "cancelled" ELSE "returned"]
    /\ pending' = pending \ {r}
    /\ hook' = [hook EXCEPT ![r] = "none"]
    /\ UNCHANGED <<manager, tasks, finishTasks, cancelRequested, records, fpc, history, clients>>

\* Mutant: a cancelled task gets no finish task.
TaskDone_NoFinishTask(r) ==
    /\ up /\ pc[r] \in {"returned", "cancelled"}
    /\ tasks' = tasks \ {r}
    /\ cancelRequested' = cancelRequested \ {r}
    /\ runs' = AfterDrop(r, status[r], tasks', finishTasks, events)
    /\ pc' = [pc EXCEPT ![r] = "gone"]
    /\ UNCHANGED <<manager, finishTasks, events, records, pending, fpc, hook, history, clients>>

\* _on_task_done.  Its third case, a task that ended with an exception, cannot
\* occur: _execute and the hooks catch every Exception.
TaskDone(r) ==
    /\ up /\ pc[r] \in {"returned", "cancelled"}
    /\ finishTasks' = IF pc[r] = "cancelled" THEN finishTasks \cup {r} ELSE finishTasks
    /\ fpc' = IF pc[r] = "cancelled" THEN [fpc EXCEPT ![r] = "created"] ELSE fpc
    /\ tasks' = tasks \ {r}
    /\ cancelRequested' = cancelRequested \ {r}
    /\ runs' = AfterDrop(r, status[r], tasks', finishTasks', events)
    /\ pc' = [pc EXCEPT ![r] = "gone"]
    /\ UNCHANGED <<manager, events, records, pending, hook, history, clients>>

-----------------------------------------------------------------------------
(* The finish task of a run whose task ended cancelled: _finish(CANCELLED).*)

\* Mutant: _finish without its guard on an outcome that is already set.
FinishTaskRuns_NoGuard(r) ==
    /\ up /\ fpc[r] = "created"
    /\ SetOutcome(r, "cancelled")
    /\ fpc' = [fpc EXCEPT ![r] = "finishing"]
    /\ UNCHANGED <<manager, tables, cancellable, pc, pending, history, clients>>

FinishTaskRuns(r) ==
    /\ up /\ fpc[r] = "created"
    /\ IF status[r] \in Active
       THEN /\ SetOutcome(r, "cancelled")
            /\ fpc' = [fpc EXCEPT ![r] = "finishing"]
            /\ UNCHANGED <<runs, events>>
       ELSE /\ events' = events \ {r}
            /\ runs' = AfterDrop(r, status[r], tasks, finishTasks, events')
            /\ fpc' = [fpc EXCEPT ![r] = "ended"]
            /\ UNCHANGED <<status, hook>>
    /\ UNCHANGED <<manager, tasks, finishTasks, cancelRequested, cancellable, pc, pending,
                   history, clients>>

FinishTaskHookDone(r) ==
    /\ up /\ fpc[r] = "finishing" /\ hook[r] = "done"
    /\ events' = events \ {r}
    /\ runs' = AfterDrop(r, status[r], tasks, finishTasks, events')
    /\ fpc' = [fpc EXCEPT ![r] = "ended"]
    /\ hook' = [hook EXCEPT ![r] = "none"]
    /\ UNCHANGED <<manager, tasks, finishTasks, cancelRequested, records, pc, pending,
                   history, clients>>

\* _on_finish_task_done
FinishTaskDone(r) ==
    /\ up /\ fpc[r] = "ended"
    /\ finishTasks' = finishTasks \ {r}
    /\ runs' = AfterDrop(r, status[r], tasks, finishTasks', events)
    /\ fpc' = [fpc EXCEPT ![r] = "none"]
    /\ UNCHANGED <<manager, tasks, events, cancelRequested, records, pc, pending, hook,
                   history, clients>>

-----------------------------------------------------------------------------
(* The hooks' worker threads.                                              *)

\* _create_run_sync: an upsert that always writes a running row.
CreateRow(r) ==
    /\ up /\ hook[r] = "create"
    /\ \E written \in IF r \in FaultyRuns THEN BOOLEAN ELSE {TRUE} :
          row' = IF written THEN [row EXCEPT ![r] = "running"] ELSE row
    /\ hook' = [hook EXCEPT ![r] = "created"]
    /\ UNCHANGED <<manager, tables, records, pc, pending, fpc, notified, clients>>

\* Mutant: the prune statements do not exclude active rows.
Prunable_AnyRow(table) == IF Retention THEN {r \in Runs : table[r] # "none"} ELSE {}

\* _prune_sync deletes terminal rows only.  Which ones (age, count, protection of
\* rows with artifacts, restore rows) is left open here.
Prunable(table) == IF Retention THEN {r \in Runs : table[r] \in Terminal} ELSE {}

Pruned(table, gone) == [r \in Runs |-> IF r \in gone THEN "pruned" ELSE table[r]]

\* RunHistoryService.record: _finish_run_sync upserts the outcome, then prunes.
RecordRow(r) ==
    /\ up /\ hook[r] = "record"
    /\ \/ LET written == [row EXCEPT ![r] = status[r]]
          IN  \E gone \in SUBSET Prunable(written) : row' = Pruned(written, gone)
       \/ r \in FaultyRuns /\ row' = row
    /\ hook' = [hook EXCEPT ![r] = "notify"]
    /\ UNCHANGED <<manager, tables, records, pc, pending, fpc, notified, clients>>

\* terminal_run_hook: the notification comes after the history row, whether or not
\* the row could be written.
Notify(r) ==
    /\ up /\ hook[r] = "notify"
    /\ notified' = IF Notifies(status[r]) THEN [notified EXCEPT ![r] = @ + 1] ELSE notified
    /\ hook' = [hook EXCEPT ![r] = "done"]
    /\ UNCHANGED <<manager, tables, records, pc, pending, fpc, row, clients>>

-----------------------------------------------------------------------------
(* shutdown(timeout) and the life of the process.                          *)

\* Mutant: shutdown() cancels running runs and forgets the queued ones.
Shutdown_RunningOnly ==
    /\ up /\ spc = "none"
    /\ stopping' = TRUE
    /\ CancelTasks({r \in tasks \cap cancellable : status[r] = "running"})
    /\ spc' = "tasks"
    /\ awaited' = tasks
    /\ UNCHANGED <<up, boots, used, runs, tasks, finishTasks, events, records, pc, fpc, hook,
                   history, jpc, timedOut>>

Shutdown ==
    /\ up /\ spc = "none"
    /\ stopping' = TRUE
    /\ CancelTasks({r \in tasks \cap cancellable : pc[r] \notin {"returned", "cancelled"}})
    /\ spc' = "tasks"
    /\ awaited' = tasks
    /\ UNCHANGED <<up, boots, used, runs, tasks, finishTasks, events, records, pc, fpc, hook,
                   history, jpc, timedOut>>

\* Mutant: shutdown() returns when the tasks are done.
ShutdownTasks_NoEvents ==
    /\ up /\ spc = "tasks"
    /\ timedOut' = (awaited \cap tasks # {})
    /\ spc' = "returned"
    /\ awaited' = {}
    /\ UNCHANGED <<manager, tables, records, threads, history, jpc>>

\* The tasks are done, or the timeout passed: now wait for the pending events.
ShutdownTasks ==
    /\ up /\ spc = "tasks"
    /\ timedOut' = (awaited \cap tasks # {})
    /\ spc' = "events"
    /\ awaited' = events
    /\ UNCHANGED <<manager, tables, records, threads, history, jpc>>

ShutdownEvents ==
    /\ up /\ spc = "events"
    /\ timedOut' = (timedOut \/ awaited \cap events # {})
    /\ spc' = "returned"
    /\ awaited' = {}
    /\ UNCHANGED <<manager, tables, records, threads, history, jpc>>

\* The process dies, or ends after shutdown() returned.  A database write that was
\* under way landed (CreateRow, RecordRow before this step) or did not.  When
\* shutdown() had returned, asyncio.run cancels the tasks left over, cancellable
\* or not, and their CANCELLED may still reach the history.
Exit ==
    /\ up
    /\ up' = FALSE /\ stopping' = FALSE
    /\ \E cancelled \in SUBSET {r \in Runs : spc = "returned" /\ status[r] \in Active} :
          row' = [r \in Runs |-> IF r \in cancelled THEN "cancelled" ELSE row[r]]
    /\ runs' = {} /\ tasks' = {} /\ finishTasks' = {} /\ events' = {} /\ cancelRequested' = {}
    /\ status' = Everywhere("absent") /\ cancellable' = {}
    /\ pc' = Everywhere("none") /\ pending' = {}
    /\ fpc' = Everywhere("none") /\ hook' = Everywhere("none")
    /\ jpc' = Everywhere("idle") /\ spc' = "none" /\ awaited' = {} /\ timedOut' = FALSE
    /\ UNCHANGED <<boots, used, notified>>

\* Mutant: the sweep's UPDATE has no WHERE on the status.
Boot_SweepsAll ==
    /\ ~up /\ boots < MaxBoots
    /\ up' = TRUE
    /\ boots' = boots + 1
    /\ row' = [r \in Runs |-> IF row[r] = "none" THEN "none" ELSE "unexpected_error"]
    /\ UNCHANGED <<used, stopping, tables, records, threads, notified, clients>>

\* Restart: mark_active_runs_interrupted closes the rows left open, then prunes if
\* it changed any.
Boot ==
    /\ ~up /\ boots < MaxBoots
    /\ up' = TRUE
    /\ boots' = boots + 1
    /\ \E skipped \in SUBSET FaultyRuns :
         LET open  == {r \in Runs \ skipped : row[r] = "running"}
             swept == [r \in Runs |-> IF r \in open THEN "unexpected_error" ELSE row[r]]
         IN  IF open = {} THEN row' = row
             ELSE \E gone \in SUBSET Prunable(swept) : row' = Pruned(swept, gone)
    /\ UNCHANGED <<used, stopping, tables, records, threads, notified, clients>>

-----------------------------------------------------------------------------

ClientStep(r) == Start(r) \/ Cancel(r) \/ Join(r) \/ JoinTaskDone(r) \/ JoinEventDone(r)
TaskStep(r)   == \/ Begin(r) \/ NeverBegin(r) \/ StartHookDone(r)
                 \/ OperationCancelled(r) \/ FinishDone(r) \/ TaskDone(r)
FinishStep(r) == FinishTaskRuns(r) \/ FinishTaskHookDone(r) \/ FinishTaskDone(r)
ThreadStep(r) == CreateRow(r) \/ RecordRow(r) \/ Notify(r)
ShutdownStep  == ShutdownTasks \/ ShutdownEvents

Next ==
    \/ \E r \in Runs : \/ ClientStep(r) \/ TaskStep(r) \/ FinishStep(r) \/ ThreadStep(r)
                       \/ MarkNotCancellable(r) \/ OperationEnds(r)
    \/ Shutdown \/ ShutdownStep
    \/ Exit \/ Boot

Spec == Init /\ [][Next]_vars

\* The event loop runs what is ready, worker threads finish, and shutdown() waits
\* with a timeout.  Nothing is assumed about callers, and an operation need not
\* end by itself: only the unwinding of a cancelled one is bounded (SIGTERM, grace
\* period, SIGKILL in core/subprocesses.py).
Fairness ==
    /\ \A r \in Runs : /\ WF_vars(TaskStep(r))
                       /\ WF_vars(FinishStep(r))
                       /\ WF_vars(ThreadStep(r))
                       /\ WF_vars(JoinTaskDone(r) \/ JoinEventDone(r))
    /\ WF_vars(ShutdownStep)

FairSpec == Spec /\ Fairness

-----------------------------------------------------------------------------
(* Properties.                                                             *)

Reliable == Runs \ FaultyRuns

\* A record stays in _runs exactly as long as a task or a finish task of the run
\* exists, every unfinished run has one, and so does every pending terminal event:
\* no record leaks, no waiter of join() is stranded, and shutdown() and cancel()
\* never look up a record that _drop_completed_record has removed too early.
RecordsOwned ==
    /\ runs = tasks \cup finishTasks
    /\ events \subseteq runs
    /\ \A r \in Runs : status[r] \in Active => r \in events

\* Whoever is told that a run is over (its terminal event is set, or join()
\* returned) finds the same outcome in the history database, even if the process
\* dies at that moment: _finish releases waiters only after the terminal hook.
AnnouncedIsDurable ==
    \A r \in Reliable :
       jpc[r] = "returned" \/ (status[r] \in Terminal /\ r \notin events)
          => status[r] \in Terminal /\ row[r] \in {status[r], "pruned"}

\* When shutdown() returns without having timed out, no run of the process is
\* unfinished or missing in the history.  The hard case is a run cancelled while
\* queued: its task is done before its finish task has even been created.
ShutdownIsComplete ==
    spc = "returned" /\ ~timedOut =>
       \A r \in Reliable : status[r] # "absent" =>
          status[r] \in Terminal /\ row[r] \in {status[r], "pruned"}

\* At most one terminal notification per run over all restarts, and only for an
\* outcome that the history already shows (terminal_run_hook's order).
NotifiedOnceAfterRecord ==
    \A r \in Runs :
       /\ notified[r] <= 1
       /\ notified[r] = 1 /\ r \in Reliable => row[r] \in (Terminal \ {"cancelled"}) \cup {"pruned"}

\* An outcome in the history is final: no late create_run, second _finish or sweep
\* of a restarted process ever rewrites it; only pruning removes it.
HistoryIsFinal ==
    [][\A r \in Runs : row[r] \in Terminal \cup {"pruned"} => row'[r] \in {row[r], "pruned"}]_vars

\* Once cancel() or shutdown() has requested the cancellation of an active run, it does
\* not come to an end of its own any more: it ends as cancelled, wherever its task stood
\* (queued, in the started hook that resists cancellation, in the operation).  Only when
\* the operation's unwinding raises is the end an unexpected error, but never a success,
\* a failure or a skip.
CancellationWins ==
    [][\A r \in Runs : r \in cancelRequested /\ status[r] \in Active /\ status'[r] \in Terminal
          => status'[r] \in IF pc[r] = "operation" THEN {"cancelled", "unexpected_error"}
                            ELSE {"cancelled"}]_vars

\* A run whose cancellation was requested leaves the manager, with its hook run.
CancelledRunEnds == \A r \in Runs : r \in cancelRequested ~> r \notin runs

\* After shutdown() began, every run that was still cancellable leaves the manager.
ShutdownDrains == \A r \in Runs : stopping /\ r \in runs \cap cancellable ~> r \notin runs

\* What a client sees of a reliable run: its live record, else its history row.
View(r) == IF r \in runs THEN status[r]
           ELSE CASE row[r] = "none" -> "absent" [] row[r] = "pruned" -> "expired"
                  [] OTHER -> row[r]

Lifecycle == INSTANCE RunLifecycle WITH
    Runs      <- Reliable,
    phase     <- [r \in Reliable |-> View(r)],
    durable   <- {r \in Reliable : row[r] \in Terminal \cup {"pruned"}},
    announced <- {r \in Reliable : jpc[r] = "returned"},
    down      <- ~up

\* The manager with its history keeps the promise of RunLifecycle to every client
\* of a run whose history statements succeed.
ImplementsLifecycle == Lifecycle!Spec
=============================================================================
