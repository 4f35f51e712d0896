------------------------------- MODULE Restore -------------------------------
(***************************************************************************)
(* services/restore.py: restores are runs of the RunManager, and keep their*)
(* details in a table of their own.  RestoreRegistry writes these details  *)
(* together with the row of the run in the table `runs`, one call at a time*)
(* behind an asyncio.Lock.  The hooks of the run manager write the same row*)
(* and do not know of that lock.  Three parties use the registry: whoever  *)
(* starts a restore, the operation of its run, and the requests of the web *)
(* UI that look at a restore or cancel it, and may correct its row.        *)
(*                                                                         *)
(* The run manager's variables and steps are those of RunManager.  A step  *)
(* is a stretch of code between two awaits; the statements of the registry *)
(* run in worker threads, so a statement that nobody waits for any more may*)
(* still land.                                                             *)
(***************************************************************************)
EXTENDS Naturals, FiniteSets, Sequences

CONSTANTS Runs, FaultyRuns, Retention, MaxBoots,    \* as in RunManager
          Requests                                  \* requests of the web UI

ASSUME RestoreAssumption ==
    /\ Runs # {} /\ FaultyRuns \subseteq Runs /\ Retention \in BOOLEAN /\ MaxBoots \in Nat
    /\ {"start", "op"} \cap Requests = {}

VARIABLES up, boots, used, stopping, runs, tasks, finishTasks, events, cancelRequested,
          status, cancellable, pc, pending, fpc, hook, row, notified, jpc, spc, awaited,
          timedOut                                  \* as in RunManager

RM == INSTANCE RunManager WITH SchedulerRuns <- {}

VARIABLES
    details,    \* run ids in the table run_restores
    pendingRestores,  \* keys of _pending_restores
    line,       \* who holds _lock of the registry (head) and who waits for it, in order
    desk,       \* how far the head's call is: its statements, what they returned
    orphans,    \* upserts whose caller was cancelled, still in their threads
    starter,    \* where start_restore(run) stands
    op,         \* where the operation of a restore stands, and its result
    request,    \* where a request stands
    told,       \* outcomes that requests have reported for a run
    failed,     \* history: runs for which a statement has failed
    overtaken   \* history: runs whose outcome was written past a call of the registry

managerButRow == <<up, boots, used, stopping, runs, tasks, finishTasks, events,
                   cancelRequested, status, cancellable, pc, pending, fpc, hook, notified,
                   jpc, spc, awaited, timedOut>>
manager  == <<managerButRow, row>>
registry == <<details, line, desk, orphans>>
restores == <<pendingRestores, starter, op>>
answers  == <<request, told>>
ghosts   == <<failed, overtaken>>
vars     == <<manager, registry, restores, answers, ghosts>>

Callers == ({"start", "op"} \cup Requests) \X Runs
Status  == {"running"} \cup RM!Terminal
NoCall  == [stage |-> "open", result |-> "ok", found |-> "none"]

TypeOK ==
    /\ RM!TypeOK
    /\ details \subseteq Runs
    /\ pendingRestores \subseteq Runs
    /\ line \in Seq(Callers)
    /\ desk \in [stage : {"open", "read", "done"}, result : {"ok", "missing", "error"},
                 found : {"none"} \cup Status]
    /\ orphans \subseteq Runs \X Status
    /\ starter \in [Runs -> {"none", "add", "discard", "done"}]
    /\ op \in [Runs -> [at : {"none", "claim", "command", "report", "error", "unwind",
                              "replaced", "ended"}, result : RM!Results]]
    /\ request \in [Requests -> [at : {"idle", "look", "settle"}, cancels : BOOLEAN,
                                 run : Runs, status : Status]]
    /\ told \in [Runs -> SUBSET RM!Terminal]
    /\ failed \subseteq Runs /\ overtaken \subseteq Runs

NoOp == [at |-> "none", result |-> "true"]
Idle == [at |-> "idle", cancels |-> FALSE, run |-> CHOOSE r \in Runs : TRUE,
         status |-> "running"]

Init ==
    /\ RM!Init
    /\ details = {} /\ failed = {} /\ overtaken = {}
    /\ pendingRestores = {} /\ line = <<>> /\ desk = NoCall /\ orphans = {}
    /\ starter = RM!Everywhere("none") /\ op = RM!Everywhere(NoOp)
    /\ request = [q \in Requests |-> Idle] /\ told = RM!Everywhere({})

-----------------------------------------------------------------------------
(* RestoreRegistry: an asyncio.Lock serves its callers in the order in     *)
(* which they asked.                                                       *)

Enter(c) == line' = Append(line, c) /\ UNCHANGED desk

\* The head's statements are done and it goes on (the other end of its await).
Served(c) == up /\ line # <<>> /\ Head(line) = c /\ desk.stage = "done"

Leave    == line' = Tail(line) /\ desk' = NoCall
Again(c) == line' = Append(Tail(line), c) /\ desk' = NoCall

\* The line when one caller has gone.
Without(c) ==
    IF \E i \in DOMAIN line : line[i] = c
    THEN LET i == CHOOSE i \in DOMAIN line : line[i] = c
         IN  SubSeq(line, 1, i - 1) \o SubSeq(line, i + 1, Len(line))
    ELSE line

\* A cancelled caller gives up the lock or its place; `next` gets in line behind the others.
Abandon(c, next) ==
    /\ line' = Without(c) \o next
    /\ desk' = IF line # <<>> /\ Head(line) = c THEN NoCall ELSE desk

\* The upsert a cancelled caller leaves in its thread, unless it has not begun there.
Orphaned(c, st) ==
    orphans' \in {orphans} \cup
        IF line # <<>> /\ Head(line) = c /\ desk.stage = "read"
        THEN {orphans \cup {<<c[2], st>>}} ELSE {}

\* The head's call is a get, and not an update.
Looks(c) == c[1] \in Requests /\ request[c[1]].at = "look"

\* The status that the head's upsert writes: its own change, or what it has read.
Writes(c) ==
    CASE c[1] = "start"    -> "running"
      [] c[1] \in Requests -> request[c[1]].status
      [] c[1] = "op" /\ op[c[2]].at = "claim" -> "running"
      [] c[1] = "op" /\ op[c[2]].at \in {"error", "replaced"} -> RM!Outcome(c[2], op[c[2]].result)
      [] OTHER -> desk.found

\* A pruned or deleted row takes its details along (ON DELETE CASCADE).
Cascade(known) == details' = {r \in known : row'[r] \in Status}

\* _upsert_sync and its _prune_sync, which deletes terminal rows; at least one is kept, so
\* the newest one stays.
Upsert(r, st) ==
    /\ LET written == [row EXCEPT ![r] = st]
       IN  \E gone \in SUBSET (RM!Prunable(written) \ {r}) : row' = RM!Pruned(written, gone)
    /\ Cascade(details \cup {r})

MayFail(r) ==
    /\ r \in FaultyRuns
    /\ desk' = [desk EXCEPT !.stage = "done", !.result = "error"]
    /\ failed' = failed \cup {r}

\* The three statements of an upsert commit one by one: those before the failing one stay.
UpsertedInPart(r, st) ==
    \/ UNCHANGED <<row, details>>
    \/ row' = [row EXCEPT ![r] = st] /\ details' \in {details, details \cup {r}}

\* _get_sync, alone (get) or as the first half of update.
Read ==
    /\ up /\ line # <<>> /\ desk.stage = "open" /\ Head(line)[1] # "start"
    /\ LET c == Head(line)  r == c[2]  there == r \in details
       IN  \/ /\ desk' = [stage  |-> IF there /\ ~Looks(c) THEN "read" ELSE "done",
                          result |-> IF there THEN "ok" ELSE "missing",
                          found  |-> IF there THEN row[r] ELSE "none"]
              /\ UNCHANGED failed
           \/ MayFail(r)
    /\ UNCHANGED <<row, details>>
    /\ UNCHANGED <<managerButRow, line, orphans, restores, answers, overtaken>>

\* _upsert_sync of add and of the second half of update; the DELETE of discard_run.
Write ==
    /\ up /\ line # <<>>
    /\ LET c == Head(line)  r == c[2]  discards == c[1] = "start" /\ starter[r] = "discard"
       IN  /\ desk.stage = IF c[1] = "start" THEN "open" ELSE "read"
           /\ \/ /\ IF discards
                    THEN row' = [row EXCEPT ![r] = "none"] /\ Cascade(details)
                    ELSE Upsert(r, Writes(c))
                 /\ desk' = [desk EXCEPT !.stage = "done"]
                 /\ UNCHANGED failed
              \/ /\ MayFail(r)
                 /\ IF discards THEN UNCHANGED <<row, details>>
                    ELSE UpsertedInPart(r, Writes(c))
    /\ UNCHANGED <<managerButRow, line, orphans, restores, answers, overtaken>>

OrphanLands ==
    /\ up
    /\ \E o \in orphans : Upsert(o[1], o[2]) /\ orphans' = orphans \ {o}
    /\ UNCHANGED <<managerButRow, line, desk, restores, answers, ghosts>>

-----------------------------------------------------------------------------
(* start_restore                                                           *)

\* Mutant: the insertion is left to somebody else.
StartRestore_NoAdd(r) ==
    /\ RM!Start(r)
    /\ pendingRestores' = pendingRestores \cup {r}
    /\ starter' = [starter EXCEPT ![r] = "done"]
    /\ UNCHANGED <<line, desk, details, orphans, op, answers, ghosts>>

\* RunManager.start does not suspend, so the run, its pending record and the place in
\* line for registry.add come in one step, before anybody can know the run's id.
\* (When the manager is stopping nothing is left of the attempt.)
StartRestore(r) ==
    /\ RM!Start(r)
    /\ pendingRestores' = pendingRestores \cup {r}
    /\ starter' = [starter EXCEPT ![r] = "add"]
    /\ Enter(<<"start", r>>)
    /\ UNCHANGED <<details, orphans, op, answers, ghosts>>

StartResumes(r) ==
    LET c == <<"start", r>>
    IN  /\ Served(c)
        /\ IF starter[r] = "add" /\ desk.result # "ok"
           THEN /\ pendingRestores' = pendingRestores \ {r}
                /\ starter' = [starter EXCEPT ![r] = "discard"]
                /\ Again(c)
           ELSE /\ starter' = [starter EXCEPT ![r] = "done"]
                /\ Leave
                /\ UNCHANGED pendingRestores
        /\ UNCHANGED <<manager, details, orphans, op, answers, ghosts>>

-----------------------------------------------------------------------------
(* The operation of a run: _execute_tagged and _run_locked_restore.        *)

Goto(r, place)        == op' = [op EXCEPT ![r].at = place]
Fails(r, place, why)  == op' = [op EXCEPT ![r] = [at |-> place, result |-> why]]
OpServed(r, place)    == Served(<<"op", r>>) /\ op[r].at = place /\ r \notin pending

\* The operation is over (the finally clause).
Ended(r)              == /\ Goto(r, "ended")
                         /\ pendingRestores' = pendingRestores \ {r}

\* The end of the started hook, and the operation's first stretch: it takes the two
\* resource locks and gets in line to mark the restore running, or reports a conflict.
OperationBegins(r) ==
    /\ RM!StartHookDone(r)
    /\ IF pc'[r] = "operation"
       THEN /\ \/ Goto(r, "claim")
               \/ \E why \in {"already_running", "unexpected"} : Fails(r, "error", why)
            /\ Enter(<<"op", r>>)
       ELSE UNCHANGED <<op, line, desk>>
    /\ UNCHANGED <<details, orphans, pendingRestores, starter, answers, ghosts>>

ClaimResumes(r) ==
    /\ OpServed(r, "claim")
    /\ IF desk.result = "ok"
       THEN Goto(r, "command") /\ Leave
       ELSE Fails(r, "error", "unexpected") /\ Again(<<"op", r>>)
    /\ UNCHANGED <<manager, details, orphans, pendingRestores, starter, answers, ghosts>>

\* restic is through: from here the run cannot be cancelled.
CommandEnds(r) ==
    /\ op[r].at = "command"
    /\ RM!MarkNotCancellable(r)
    /\ \E result \in {"true", "false"} : Fails(r, "report", result)
    /\ Enter(<<"op", r>>)
    /\ UNCHANGED <<details, orphans, pendingRestores, starter, answers, ghosts>>

\* Something raised: the environment, the job's logger.  A pump that fails while the
\* command of a cancelled restore is killed raises in place of the cancellation.
CommandRaises(r) ==
    /\ up /\ op[r].at = "command"
    /\ Fails(r, IF r \in pending THEN "replaced" ELSE "error", "unexpected")
    /\ Enter(<<"op", r>>)
    /\ UNCHANGED <<manager, details, orphans, pendingRestores, starter, answers, ghosts>>

\* The operation returns or raises; the run manager sets the outcome.
Returns(r, result) ==
    /\ RM!OperationEnds(r) /\ status'[r] = RM!Outcome(r, result)
    /\ Ended(r) /\ Leave

ReportResumes(r) ==
    /\ OpServed(r, "report")
    /\ IF desk.result = "ok"
       THEN Returns(r, op[r].result)
       ELSE /\ Fails(r, "error", "unexpected") /\ Again(<<"op", r>>)
            /\ UNCHANGED <<manager, pendingRestores>>
    /\ UNCHANGED <<details, orphans, starter, answers, ghosts>>

ErrorResumes(r) ==
    /\ OpServed(r, "error")
    /\ Returns(r, IF desk.result = "ok" THEN op[r].result ELSE "unexpected")
    /\ UNCHANGED <<details, orphans, starter, answers, ghosts>>

\* A cancellation is delivered: before or in the command it is answered with a last
\* update in a task of its own; the CancelledError goes on when that is done.
CancelDelivered(r) ==
    /\ up /\ r \in pending /\ op[r].at \in {"claim", "command"}
    /\ Goto(r, "unwind")
    /\ Abandon(<<"op", r>>, <<<<"op", r>>>>)
    /\ Orphaned(<<"op", r>>, "running")
    /\ UNCHANGED <<manager, details, pendingRestores, starter, answers, ghosts>>

\* In the update of an exception handler nothing catches it.
CancelEscapes(r) ==
    /\ op[r].at = "error" /\ RM!OperationCancelled(r) /\ status'[r] = "cancelled"
    /\ Ended(r)
    /\ Abandon(<<"op", r>>, <<>>)
    /\ Orphaned(<<"op", r>>, RM!Outcome(r, op[r].result))
    /\ overtaken' = overtaken \cup {r}
    /\ UNCHANGED <<details, starter, answers, failed>>

\* A failure of the update replaces the cancellation.  So does a missing record: awaiting
\* the shielded update raises the KeyError before the handler that would ignore it.
UnwindResumes(r) ==
    /\ Served(<<"op", r>>) /\ op[r].at \in {"unwind", "replaced"}
    /\ RM!OperationCancelled(r)
    /\ status'[r] = IF desk.result = "ok" /\ op[r].at = "unwind" THEN "cancelled"
                    ELSE "unexpected_error"
    /\ Ended(r) /\ Leave
    /\ UNCHANGED <<details, orphans, starter, answers, ghosts>>

-----------------------------------------------------------------------------
(* The web UI: get_restore, cancel_restore and _sync_run_record.           *)

Ask(q, r) ==
    /\ up /\ request[q].at = "idle" /\ r \in used
    /\ \E cancels \in BOOLEAN :
          request' = [request EXCEPT ![q] = [at |-> "look", cancels |-> cancels, run |-> r,
                                             status |-> "running"]]
    /\ Enter(<<q, r>>)
    /\ UNCHANGED <<manager, details, orphans, restores, told, ghosts>>

\* The request is answered; the UI shows the status.
Answer(q, st) ==
    /\ request' = [request EXCEPT ![q] = Idle]
    /\ told' = IF st \in RM!Terminal THEN [told EXCEPT ![request[q].run] = @ \cup {st}]
               ELSE told
    /\ Leave

\* Correct the row: registry.update with the status.
Settle(q, st) ==
    /\ request' = [request EXCEPT ![q].at = "settle", ![q].status = st]
    /\ Again(<<q, request[q].run>>)
    /\ UNCHANGED told

\* The status in the record that get_restore goes on with: the one it has read, or the
\* pending record of a restore that is not in the table.
Found    == IF desk.result = "missing" THEN "running" ELSE desk.found
HasOne(r) == desk.result = "ok" \/ (desk.result = "missing" /\ r \in pendingRestores)

\* Mutant: a live record with an outcome counts as lost.
Sync_Lost(q, r) ==
    IF Found # "running" THEN Answer(q, Found) /\ pendingRestores' = pendingRestores \ {r}
    ELSE /\ IF r \in runs /\ status[r] \in RM!Active THEN Answer(q, status[r])
            ELSE Settle(q, "unexpected_error")
         /\ UNCHANGED pendingRestores

\* _sync_run_record with the record that was read and the live one, if there is one.
\* A restore that is still pending is only reported; the row of another one is set.
Sync(q, r) ==
    CASE Found # "running" ->
           Answer(q, Found) /\ pendingRestores' = pendingRestores \ {r}
      [] Found = "running" /\ r \in pendingRestores ->
           LET st == IF r \in runs THEN status[r] ELSE "running"
           IN  /\ Answer(q, st)
               /\ pendingRestores' = IF st \in RM!Active THEN pendingRestores
                                     ELSE pendingRestores \ {r}
      [] Found = "running" /\ r \notin pendingRestores ->
           /\ CASE r \notin runs             -> Settle(q, "unexpected_error")
                [] r \in runs /\ status[r] \in RM!Active   -> Answer(q, status[r])
                [] r \in runs /\ status[r] \in RM!Terminal -> Settle(q, status[r])
           /\ UNCHANGED pendingRestores

\* get_restore has a record, or the request ends in an error.
LookResumes(q) ==
    LET r == request[q].run
    IN  /\ Served(<<q, r>>) /\ request[q].at = "look" /\ ~request[q].cancels
        /\ IF HasOne(r) THEN Sync(q, r)
           ELSE /\ request' = [request EXCEPT ![q] = Idle] /\ Leave
                /\ UNCHANGED <<told, pendingRestores>>
        /\ UNCHANGED <<manager, details, orphans, starter, op, ghosts>>

\* cancel_restore: cancel the run if it can be cancelled, then synchronize; without a
\* live record, do what get_restore does.
CancelResumes(q) ==
    LET r == request[q].run
    IN  /\ Served(<<q, r>>) /\ request[q].at = "look" /\ request[q].cancels
        /\ IF ~HasOne(r)
           THEN /\ request' = [request EXCEPT ![q] = Idle] /\ Leave
                /\ UNCHANGED <<manager, told, pendingRestores>>
           ELSE IF r \notin runs
           THEN /\ request' = [request EXCEPT ![q].cancels = FALSE] /\ Again(<<q, r>>)
                /\ UNCHANGED <<manager, told, pendingRestores>>
           ELSE /\ Sync(q, r)
                /\ IF status[r] \in RM!Active /\ r \in cancellable /\ r \in tasks
                   THEN RM!Cancel(r) ELSE UNCHANGED manager
        /\ UNCHANGED <<details, orphans, starter, op, ghosts>>

SettleResumes(q) ==
    /\ Served(<<q, request[q].run>>) /\ request[q].at = "settle"
    /\ IF desk.result = "ok" THEN Answer(q, request[q].status)
       ELSE request' = [request EXCEPT ![q] = Idle] /\ Leave /\ UNCHANGED told
    /\ UNCHANGED <<manager, details, orphans, restores, ghosts>>

-----------------------------------------------------------------------------
(* The rest of the run manager: other cancellations (the page of all runs, *)
(* the shutdown), the task of the run, the hooks, and the process.         *)

own == <<registry, restores, answers, ghosts>>

\* Steps of the manager that are none of the registry's business.
ManagerStep(r) ==
    /\ \/ RM!Cancel(r) \/ RM!Begin(r) \/ RM!NeverBegin(r) \/ RM!FinishDone(r) \/ RM!TaskDone(r)
       \/ RM!FinishStep(r) \/ RM!Notify(r)
    /\ UNCHANGED own

HookCreates(r) ==
    /\ RM!CreateRow(r)
    /\ failed' = IF row'[r] = "running" THEN failed ELSE failed \cup {r}
    /\ UNCHANGED <<registry, restores, answers, overtaken>>

\* The registry has a call for this run under way that does not expect the outcome: the
\* insertion, a request that has read the running row, an upsert without its caller.  Or
\* the outcome was there already and has been pruned, with the details, by another restore.
Overtakes(r) ==
    \/ row[r] = "pruned"
    \/ starter[r] = "add" /\ ~Served(<<"start", r>>)
    \/ \E q \in Requests : Served(<<q, r>>) /\ request[q].at = "look" /\ desk.found = "running"
    \/ \E o \in orphans : o[1] = r

\* finish_run writes the outcome; its prune, like that of the sweep, spares restores.
HookRecords(r) ==
    /\ RM!RecordRow(r)
    /\ \/ row' = [row EXCEPT ![r] = status[r]]
       \/ r \in FaultyRuns /\ row' = row
    /\ Cascade(details)
    /\ failed' = IF row'[r] = status[r] THEN failed ELSE failed \cup {r}
    /\ overtaken' = IF Overtakes(r) THEN overtaken \cup {r} ELSE overtaken
    /\ UNCHANGED <<line, desk, orphans, restores, answers>>

Exit ==
    /\ RM!Exit
    /\ pendingRestores' = {} /\ line' = <<>> /\ desk' = NoCall /\ orphans' = {}
    /\ starter' = RM!Everywhere("none") /\ op' = RM!Everywhere(NoOp)
    /\ request' = [q \in Requests |-> Idle] /\ told' = RM!Everywhere({})
    /\ UNCHANGED <<details, ghosts>>

Boot ==
    /\ RM!Boot
    /\ \A r \in Runs : row'[r] = "pruned" => row[r] = "pruned"
    /\ Cascade(details)
    /\ UNCHANGED <<line, desk, orphans, restores, answers, ghosts>>

OperationStep(r) ==
    \/ OperationBegins(r) \/ ClaimResumes(r) \/ CommandEnds(r) \/ CommandRaises(r)
    \/ ReportResumes(r) \/ ErrorResumes(r)
    \/ CancelDelivered(r) \/ CancelEscapes(r) \/ UnwindResumes(r)
RequestStep(q)  == LookResumes(q) \/ CancelResumes(q) \/ SettleResumes(q)

Next ==
    \/ \E r \in Runs : \/ StartRestore(r) \/ StartResumes(r)
                       \/ OperationStep(r) \/ ManagerStep(r)
                       \/ HookCreates(r) \/ HookRecords(r)
    \/ \E q \in Requests : RequestStep(q) \/ \E r \in Runs : Ask(q, r)
    \/ Read \/ Write \/ OrphanLands
    \/ (RM!Shutdown \/ RM!ShutdownStep) /\ UNCHANGED own
    \/ Exit \/ Boot

Spec == Init /\ [][Next]_vars

-----------------------------------------------------------------------------
(* Properties.  They speak of runs whose statements have not failed.       *)

\* No call of the registry misses its record: the operation's first update comes after
\* the insertion, although nothing in the code makes it wait for it; and a request finds
\* every restore of this process that was not pruned, so nobody needs _pending_restores to
\* find one.
RestoresAreFound ==
    line # <<>> /\ desk.stage = "open" /\ Head(line)[1] # "start" =>
       LET c == Head(line)  r == c[2]
       IN  \/ r \in details \cup failed
           \/ /\ c[1] \in Requests
              /\ r \in overtaken \/ row[r] = "pruned" \/ starter[r] = "none"

\* While restic works, the database shows a running restore with its details: retention
\* does not touch it, and no request takes it for lost.
WorkIsShown ==
    \A r \in Runs \ failed : op[r].at = "command" => row[r] = "running" /\ r \in details

\* Once a restore is over, the row that three parties wrote shows the outcome of its run,
\* unless the outcome overtook one of the registry's calls.
RestoreEndsAsItsRun ==
    \A r \in Runs \ (failed \cup overtaken) :
       status[r] \in RM!Terminal /\ r \notin events => row[r] \in {status[r], "pruned"}

\* Two requests never report different outcomes of a restore, and none reports another
\* one than its run has, with the same exception.
AnswersAgree ==
    \A r \in Runs \ (failed \cup overtaken) :
       \A st \in told[r] : told[r] = {st} /\ (status[r] \in RM!Terminal => status[r] = st)

\* A restore whose operation has begun does not stay pending after its run.
PendingIsGivenUp == \A r \in pendingRestores : r \in runs \/ op[r].at = "none"

\* The registry's lock and the places in its line belong to callers that are waiting for
\* their call, each once: a cancelled caller leaves none behind, or all others would wait
\* for ever.
EachWaitsOnce ==
    LET waiting == {<<"start", r>> : r \in {x \in Runs : starter[x] \in {"add", "discard"}}}
              \cup {<<"op", r>> : r \in {x \in Runs :
                                         op[x].at \in {"claim", "report", "error", "unwind",
                                                       "replaced"}}}
              \cup {<<q, request[q].run>> : q \in {x \in Requests : request[x].at # "idle"}}
    IN  /\ {line[i] : i \in DOMAIN line} = waiting
        /\ Len(line) = Cardinality(waiting)

\* What test_restore_cancel_queued_task_reaches_terminal_status_without_starting_command
\* asserts of a restore that is cancelled before its operation begins: its row does not
\* stay with "running" when the run is over.
CancelledRestoreEnds ==
    \A r \in Runs \ failed :
       status[r] = "cancelled" /\ r \notin runs /\ op[r].at = "none" => row[r] # "running"

\* What test_restore_start_tracks_status_transitions asserts of a restore that is polled
\* until it ends: a successful one is shown as such, and does not turn into a lost one.
SuccessIsKept ==
    \A r \in Runs \ failed : status[r] = "success" => row[r] # "unexpected_error"
=============================================================================
