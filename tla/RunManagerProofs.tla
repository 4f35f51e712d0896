-------------------------- MODULE RunManagerProofs --------------------------
(***************************************************************************)
(* Proofs about RunManager for every set of runs: types, ownership of the  *)
(* records, durability of announced outcomes, completeness of a shutdown   *)
(* that did not time out, one notification per run, finality of the        *)
(* history, and the precedence of a cancellation.                          *)
(*                                                                         *)
(* None of these is inductive by itself.  IInv ties every variable of a run*)
(* to the place where its task, its finish task and its hook stand.        *)
(***************************************************************************)
EXTENDS RunManager, TLAPS

HookRunning == {"record", "notify", "done"}
TaskAlive   == {"created", "startHook", "operation", "finishing", "finishingCancelled",
                "returned", "cancelled"}

\* The tables of the manager say where the tasks of r stand.
TablesInv(r) ==
    /\ r \in tasks <=> pc[r] \in TaskAlive
    /\ r \in finishTasks <=> fpc[r] # "none"
    /\ r \in runs <=> r \in tasks \/ r \in finishTasks
    /\ r \in events <=> status[r] \in Active \/ hook[r] \in HookRunning
    /\ r \in cancelRequested => r \in tasks
    /\ fpc[r] # "none" => pc[r] = "gone"

\* The status of r and its hook fit the place where its tasks stand.
StatusInv(r) ==
    /\ status[r] = "absent" <=> pc[r] = "none"
    /\ pc[r] = "created" => status[r] = "queued"
    /\ pc[r] \in {"startHook", "operation"} => status[r] = "running"
    /\ pc[r] \in {"finishing", "finishingCancelled", "returned"} => status[r] \in Terminal
    /\ pc[r] = "gone" /\ fpc[r] # "created" => status[r] \in Terminal
    /\ hook[r] \in {"create", "created"} <=> pc[r] = "startHook"
    /\ hook[r] \in HookRunning
          <=> pc[r] \in {"finishing", "finishingCancelled"} \/ fpc[r] = "finishing"
    /\ r \in cancelRequested /\ status[r] \in Active => r \in pending \/ pc[r] = "cancelled"

\* The history is written in order, and only while the process owes the write.
HistoryInv(r) ==
    /\ r \notin used => status[r] = "absent" /\ row[r] = "none" /\ notified[r] = 0
    /\ status[r] \in Active \/ hook[r] = "record" => row[r] \in {"none", "running"}
    /\ status[r] \in Active \/ hook[r] \in {"record", "notify"} => notified[r] = 0
    /\ notified[r] \in {0, 1}
    /\ r \in Reliable =>
         /\ status[r] \in Terminal /\ hook[r] # "record" => row[r] \in {status[r], "pruned"}
         /\ notified[r] = 1 => row[r] \in (Terminal \ {"cancelled"}) \cup {"pruned"}

\* A caller of join() waits for a run of this process, and returns after its event.
JoinInv(r) ==
    /\ jpc[r] # "idle" => status[r] # "absent"
    /\ jpc[r] = "event" => r \notin tasks
    /\ jpc[r] = "returned" => status[r] \in Terminal /\ r \notin events

\* No run starts once shutdown() began, so what it waits for covers what is left.
ShutdownInv ==
    /\ spc # "none" => stopping
    /\ spc \in {"none", "tasks"} => ~timedOut
    /\ spc = "tasks" => tasks \subseteq awaited
    /\ spc = "events" /\ ~timedOut => tasks = {} /\ events \subseteq awaited
    /\ spc = "returned" /\ ~timedOut => tasks = {} /\ events = {}

\* A dead process has no volatile state.
DownInv == ~up => /\ ~stopping /\ spc = "none"
                  /\ \A r \in Runs : status[r] = "absent" /\ hook[r] = "none"

IInv == /\ TypeOK
        /\ \A r \in Runs : TablesInv(r) /\ StatusInv(r) /\ HistoryInv(r) /\ JoinInv(r)
        /\ ShutdownInv
        /\ DownInv

\* The values of the runs table.
Rows == {"none", "running", "pruned"} \cup Terminal

\* Pruning replaces terminal rows only.
LEMMA PrunedRow ==
    ASSUME NEW table \in [Runs -> Rows], NEW gone \in SUBSET Prunable(table)
    PROVE  /\ Pruned(table, gone) \in [Runs -> Rows]
           /\ \A q \in Runs :
                 \/ Pruned(table, gone)[q] = table[q]
                 \/ table[q] \in Terminal /\ Pruned(table, gone)[q] = "pruned"
<1>1. \A q \in gone : q \in Runs /\ table[q] \in Terminal
  BY DEF Prunable
<1>2. \A q \in Runs : Pruned(table, gone)[q] = IF q \in gone THEN "pruned" ELSE table[q]
  BY DEF Pruned
<1>3. Pruned(table, gone) \in [Runs -> Rows]
  BY DEF Pruned, Rows
<1> QED
  BY <1>1, <1>2, <1>3

-----------------------------------------------------------------------------
(* Every action preserves IInv.                                            *)

LEMMA StartKeepsIInv == ASSUME IInv, NEW r \in Runs, Start(r) PROVE IInv'
<1>1. TypeOK'
  BY DEF IInv, TypeOK, Start, history, clients, Active
<1>2. ASSUME NEW q \in Runs PROVE TablesInv(q)'
  BY DEF IInv, TypeOK, Start, TablesInv, StatusInv, HistoryInv, TaskAlive, Active
<1>3. ASSUME NEW q \in Runs PROVE StatusInv(q)'
  BY DEF IInv, TypeOK, Start, TablesInv, StatusInv, HistoryInv, TaskAlive
<1>4. ASSUME NEW q \in Runs PROVE HistoryInv(q)'
  BY DEF IInv, Start, history, HistoryInv, Terminal
<1>5. ASSUME NEW q \in Runs PROVE JoinInv(q)'
  BY DEF IInv, Start, clients, HistoryInv, JoinInv
<1>6. ShutdownInv'
  BY DEF IInv, Start, clients, ShutdownInv
<1>7. DownInv'
  BY DEF Start, DownInv
<1> QED
  BY <1>1, <1>2, <1>3, <1>4, <1>5, <1>6, <1>7 DEF IInv

LEMMA CancelKeepsIInv == ASSUME IInv, NEW r \in Runs, Cancel(r) PROVE IInv'
<1>1. TypeOK'
  BY DEF IInv, TypeOK, Cancel, CancelTasks, manager, records, history, clients
<1>2. ASSUME NEW q \in Runs PROVE TablesInv(q)'
  BY DEF IInv, Cancel, CancelTasks, records, TablesInv
<1>3. ASSUME NEW q \in Runs PROVE StatusInv(q)'
  BY DEF IInv, Cancel, CancelTasks, records, StatusInv, Active, Terminal
<1>4. ShutdownInv' /\ DownInv' /\ \A q \in Runs : HistoryInv(q)' /\ JoinInv(q)'
  BY DEF IInv, Cancel, manager, records, history, clients, HistoryInv, JoinInv, ShutdownInv,
         DownInv
<1> QED
  BY <1>1, <1>2, <1>3, <1>4 DEF IInv

LEMMA JoinKeepsIInv == ASSUME IInv, NEW r \in Runs, Join(r) PROVE IInv'
<1>1. TypeOK'
  BY DEF IInv, TypeOK, Join, manager, tables, records, threads, history
<1>2. ASSUME NEW q \in Runs PROVE JoinInv(q)'
  BY DEF IInv, TypeOK, Join, tables, records, TablesInv, StatusInv, JoinInv, TaskAlive
<1>3. ShutdownInv' /\ DownInv' /\ \A q \in Runs : TablesInv(q)' /\ StatusInv(q)' /\ HistoryInv(q)'
  BY DEF IInv, Join, manager, tables, records, threads, history, TablesInv, StatusInv,
         HistoryInv, ShutdownInv, DownInv
<1> QED
  BY <1>1, <1>2, <1>3 DEF IInv

LEMMA JoinTaskDoneKeepsIInv == ASSUME IInv, NEW r \in Runs, JoinTaskDone(r) PROVE IInv'
<1>1. TypeOK'
  BY DEF IInv, TypeOK, JoinTaskDone, manager, tables, records, threads, history
<1>2. ASSUME NEW q \in Runs PROVE JoinInv(q)'
  BY DEF IInv, TypeOK, JoinTaskDone, tables, records, TablesInv, JoinInv
<1>3. ShutdownInv' /\ DownInv' /\ \A q \in Runs : TablesInv(q)' /\ StatusInv(q)' /\ HistoryInv(q)'
  BY DEF IInv, JoinTaskDone, manager, tables, records, threads, history, TablesInv, StatusInv,
         HistoryInv, ShutdownInv, DownInv
<1> QED
  BY <1>1, <1>2, <1>3 DEF IInv

LEMMA JoinEventDoneKeepsIInv == ASSUME IInv, NEW r \in Runs, JoinEventDone(r) PROVE IInv'
<1>1. TypeOK'
  BY DEF IInv, TypeOK, JoinEventDone, manager, tables, records, threads, history
<1>2. ASSUME NEW q \in Runs PROVE JoinInv(q)'
  BY DEF IInv, TypeOK, JoinEventDone, tables, records, TablesInv, JoinInv
<1>3. ShutdownInv' /\ DownInv' /\ \A q \in Runs : TablesInv(q)' /\ StatusInv(q)' /\ HistoryInv(q)'
  BY DEF IInv, JoinEventDone, manager, tables, records, threads, history, TablesInv, StatusInv,
         HistoryInv, ShutdownInv, DownInv
<1> QED
  BY <1>1, <1>2, <1>3 DEF IInv

LEMMA BeginKeepsIInv == ASSUME IInv, NEW r \in Runs, Begin(r) PROVE IInv'
<1>1. TypeOK'
  BY DEF IInv, TypeOK, Begin, manager, tables, history, clients, Active
<1>2. ASSUME NEW q \in Runs PROVE TablesInv(q)'
  BY DEF IInv, Begin, tables, TablesInv, StatusInv, TaskAlive, Active
<1>3. ASSUME NEW q \in Runs PROVE StatusInv(q)'
  BY DEF IInv, TypeOK, Begin, tables, TablesInv, StatusInv, HookRunning, Active
<1>4. ASSUME NEW q \in Runs PROVE HistoryInv(q)'
  BY DEF IInv, TypeOK, Begin, manager, history, StatusInv, HistoryInv, Terminal
<1>5. ASSUME NEW q \in Runs PROVE JoinInv(q)'
  BY DEF IInv, Begin, tables, clients, StatusInv, JoinInv, Terminal
<1>6. DownInv'
  BY DEF Begin, manager, DownInv
<1>7. ShutdownInv'
  BY DEF IInv, Begin, manager, tables, clients, ShutdownInv
<1> QED
  BY <1>1, <1>2, <1>3, <1>4, <1>5, <1>6, <1>7 DEF IInv

LEMMA NeverBeginKeepsIInv == ASSUME IInv, NEW r \in Runs, NeverBegin(r) PROVE IInv'
<1>1. TypeOK'
  BY DEF IInv, TypeOK, NeverBegin, manager, tables, records, history, clients
<1>2. ASSUME NEW q \in Runs PROVE TablesInv(q)'
  BY DEF IInv, NeverBegin, tables, records, TablesInv, TaskAlive
<1>3. ASSUME NEW q \in Runs PROVE StatusInv(q)'
  BY DEF IInv, TypeOK, NeverBegin, tables, records, StatusInv
<1>4. ShutdownInv' /\ DownInv' /\ \A q \in Runs : HistoryInv(q)' /\ JoinInv(q)'
  BY DEF IInv, NeverBegin, manager, tables, records, history, clients, HistoryInv, JoinInv,
         ShutdownInv, DownInv
<1> QED
  BY <1>1, <1>2, <1>3, <1>4 DEF IInv

LEMMA StartHookDoneKeepsIInv == ASSUME IInv, NEW r \in Runs, StartHookDone(r) PROVE IInv'
<1>1. TypeOK'
  BY DEF IInv, TypeOK, StartHookDone, manager, tables, records, history, clients
<1>2. ASSUME NEW q \in Runs PROVE TablesInv(q)'
  BY DEF IInv, StartHookDone, tables, records, TablesInv, TaskAlive, HookRunning
<1>3. ASSUME NEW q \in Runs PROVE StatusInv(q)'
  BY DEF IInv, TypeOK, StartHookDone, tables, records, StatusInv, HookRunning
<1>4. ASSUME NEW q \in Runs PROVE HistoryInv(q)'
  BY DEF IInv, StartHookDone, manager, records, history, HistoryInv
<1>5. DownInv'
  BY DEF StartHookDone, manager, DownInv
<1>6. ShutdownInv' /\ \A q \in Runs : JoinInv(q)'
  BY DEF IInv, StartHookDone, manager, tables, records, clients, JoinInv, ShutdownInv
<1> QED
  BY <1>1, <1>2, <1>3, <1>4, <1>5, <1>6 DEF IInv

LEMMA MarkNotCancellableKeepsIInv ==
    ASSUME IInv, NEW r \in Runs, MarkNotCancellable(r)
    PROVE  IInv'
<1>1. TypeOK'
  BY DEF IInv, TypeOK, MarkNotCancellable, manager, tables, threads, history, clients
<1>2. /\ ShutdownInv' /\ DownInv'
      /\ \A q \in Runs : TablesInv(q)' /\ StatusInv(q)' /\ HistoryInv(q)' /\ JoinInv(q)'
  BY DEF IInv, MarkNotCancellable, manager, tables, threads, history, clients, TablesInv,
         StatusInv, HistoryInv, JoinInv, ShutdownInv, DownInv
<1> QED
  BY <1>1, <1>2 DEF IInv

LEMMA OperationEndsKeepsIInv == ASSUME IInv, NEW r \in Runs, OperationEnds(r) PROVE IInv'
<1>1. TypeOK'
  BY DEF IInv, TypeOK, OperationEnds, Outcome, Results, SetOutcome, manager, tables, history,
         clients, Terminal
<1>2. ASSUME NEW q \in Runs PROVE TablesInv(q)'
  BY DEF IInv, TypeOK, OperationEnds, SetOutcome, tables, TablesInv, StatusInv, TaskAlive,
         HookRunning, Active
<1>3. ASSUME NEW q \in Runs PROVE StatusInv(q)'
  BY DEF IInv, TypeOK, OperationEnds, Outcome, Results, SetOutcome, tables, StatusInv,
         HookRunning, Terminal
<1>4. ASSUME NEW q \in Runs PROVE HistoryInv(q)'
  BY DEF IInv, TypeOK, OperationEnds, SetOutcome, manager, history, StatusInv, HistoryInv,
         Active
<1>5. ASSUME NEW q \in Runs PROVE JoinInv(q)'
  BY DEF IInv, OperationEnds, Outcome, Results, SetOutcome, tables, clients, JoinInv, Terminal
<1>6. DownInv'
  BY DEF OperationEnds, manager, DownInv
<1>7. ShutdownInv'
  BY DEF IInv, OperationEnds, manager, tables, clients, ShutdownInv
<1> QED
  BY <1>1, <1>2, <1>3, <1>4, <1>5, <1>6, <1>7 DEF IInv

LEMMA OperationCancelledKeepsIInv == ASSUME IInv, NEW r \in Runs, OperationCancelled(r) PROVE IInv'
<1>1. TypeOK'
  BY DEF IInv, TypeOK, OperationCancelled, SetOutcome, manager, tables, history, clients,
         Terminal
<1>2. ASSUME NEW q \in Runs PROVE TablesInv(q)'
  BY DEF IInv, TypeOK, OperationCancelled, SetOutcome, tables, TablesInv, StatusInv, TaskAlive,
         HookRunning, Active
<1>3. ASSUME NEW q \in Runs PROVE StatusInv(q)'
  BY DEF IInv, TypeOK, OperationCancelled, SetOutcome, tables, StatusInv, HookRunning, Active,
         Terminal
<1>4. ASSUME NEW q \in Runs PROVE HistoryInv(q)'
  BY DEF IInv, TypeOK, OperationCancelled, SetOutcome, manager, history, StatusInv, HistoryInv,
         Active
<1>5. ASSUME NEW q \in Runs PROVE JoinInv(q)'
  BY DEF IInv, TypeOK, OperationCancelled, SetOutcome, tables, clients, JoinInv, Terminal
<1>6. DownInv'
  BY DEF OperationCancelled, manager, DownInv
<1>7. ShutdownInv'
  BY DEF IInv, OperationCancelled, manager, tables, clients, ShutdownInv
<1> QED
  BY <1>1, <1>2, <1>3, <1>4, <1>5, <1>6, <1>7 DEF IInv

LEMMA FinishDoneKeepsIInv == ASSUME IInv, NEW r \in Runs, FinishDone(r) PROVE IInv'
<1>1. TypeOK'
  BY DEF IInv, TypeOK, FinishDone, AfterDrop, manager, records, history, clients
<1>2. ASSUME NEW q \in Runs PROVE TablesInv(q)'
  BY DEF IInv, TypeOK, FinishDone, AfterDrop, records, TablesInv, StatusInv, TaskAlive,
         HookRunning, Active, Terminal
<1>3. ASSUME NEW q \in Runs PROVE StatusInv(q)'
  BY DEF IInv, TypeOK, FinishDone, records, TablesInv, StatusInv, HookRunning
<1>4. ASSUME NEW q \in Runs PROVE HistoryInv(q)'
  BY DEF IInv, FinishDone, manager, records, history, HistoryInv
<1>5. ASSUME NEW q \in Runs PROVE JoinInv(q)'
  BY DEF IInv, FinishDone, records, clients, JoinInv
<1>6. ShutdownInv'
  BY DEF IInv, FinishDone, manager, clients, ShutdownInv
<1>7. DownInv'
  BY DEF FinishDone, manager, DownInv
<1> QED
  BY <1>1, <1>2, <1>3, <1>4, <1>5, <1>6, <1>7 DEF IInv

LEMMA TaskDoneKeepsIInv == ASSUME IInv, NEW r \in Runs, TaskDone(r) PROVE IInv'
<1>1. TypeOK'
  BY DEF IInv, TypeOK, TaskDone, AfterDrop, manager, records, history, clients
<1>2. ASSUME NEW q \in Runs PROVE TablesInv(q)'
  BY DEF IInv, TypeOK, TaskDone, AfterDrop, records, TablesInv, StatusInv, TaskAlive, Active,
         Terminal
<1>3. ASSUME NEW q \in Runs PROVE StatusInv(q)'
  BY DEF IInv, TypeOK, TaskDone, records, TablesInv, StatusInv
<1>4. ASSUME NEW q \in Runs PROVE JoinInv(q)'
  BY DEF IInv, TaskDone, records, clients, JoinInv
<1>5. ShutdownInv'
  BY DEF IInv, TaskDone, manager, clients, ShutdownInv
<1>6. DownInv' /\ \A q \in Runs : HistoryInv(q)'
  BY DEF IInv, TaskDone, manager, records, history, HistoryInv, DownInv
<1> QED
  BY <1>1, <1>2, <1>3, <1>4, <1>5, <1>6 DEF IInv

LEMMA FinishTaskRunsKeepsIInv == ASSUME IInv, NEW r \in Runs, FinishTaskRuns(r) PROVE IInv'
<1>1. TypeOK'
  BY DEF IInv, TypeOK, FinishTaskRuns, AfterDrop, SetOutcome, manager, history, clients,
         Terminal
<1>2. ASSUME NEW q \in Runs PROVE TablesInv(q)'
  BY DEF IInv, TypeOK, FinishTaskRuns, AfterDrop, SetOutcome, TablesInv, StatusInv, HookRunning
<1>3. ASSUME NEW q \in Runs PROVE StatusInv(q)'
  BY DEF IInv, TypeOK, FinishTaskRuns, SetOutcome, TablesInv, StatusInv, HookRunning, Terminal
<1>4. ASSUME NEW q \in Runs PROVE HistoryInv(q)'
  BY DEF IInv, TypeOK, FinishTaskRuns, SetOutcome, manager, history, HistoryInv, Active
<1>5. ASSUME NEW q \in Runs PROVE JoinInv(q)'
  BY DEF IInv, TypeOK, FinishTaskRuns, SetOutcome, clients, JoinInv, Terminal
<1>6. ShutdownInv'
  BY DEF IInv, FinishTaskRuns, manager, clients, ShutdownInv
<1>7. DownInv'
  BY DEF FinishTaskRuns, manager, DownInv
<1> QED
  BY <1>1, <1>2, <1>3, <1>4, <1>5, <1>6, <1>7 DEF IInv

LEMMA FinishTaskHookDoneKeepsIInv == ASSUME IInv, NEW r \in Runs, FinishTaskHookDone(r) PROVE IInv'
<1>1. TypeOK'
  BY DEF IInv, TypeOK, FinishTaskHookDone, AfterDrop, manager, records, history, clients
<1>2. ASSUME NEW q \in Runs PROVE TablesInv(q)'
  BY DEF IInv, TypeOK, FinishTaskHookDone, AfterDrop, records, TablesInv, StatusInv,
         HookRunning, Active, Terminal
<1>3. ASSUME NEW q \in Runs PROVE StatusInv(q)'
  BY DEF IInv, TypeOK, FinishTaskHookDone, records, TablesInv, StatusInv, HookRunning
<1>4. ASSUME NEW q \in Runs PROVE HistoryInv(q)'
  BY DEF IInv, FinishTaskHookDone, manager, records, history, HistoryInv
<1>5. ASSUME NEW q \in Runs PROVE JoinInv(q)'
  BY DEF IInv, FinishTaskHookDone, records, clients, JoinInv
<1>6. ShutdownInv'
  BY DEF IInv, FinishTaskHookDone, manager, clients, ShutdownInv
<1>7. DownInv'
  BY DEF FinishTaskHookDone, manager, DownInv
<1> QED
  BY <1>1, <1>2, <1>3, <1>4, <1>5, <1>6, <1>7 DEF IInv

LEMMA FinishTaskDoneKeepsIInv == ASSUME IInv, NEW r \in Runs, FinishTaskDone(r) PROVE IInv'
<1>1. TypeOK'
  BY DEF IInv, TypeOK, FinishTaskDone, AfterDrop, manager, records, history, clients
<1>2. ASSUME NEW q \in Runs PROVE TablesInv(q)'
  BY DEF IInv, TypeOK, FinishTaskDone, AfterDrop, records, TablesInv, StatusInv, Active,
         Terminal
<1>3. ASSUME NEW q \in Runs PROVE StatusInv(q)'
  BY DEF IInv, FinishTaskDone, records, StatusInv
<1>4. ShutdownInv' /\ DownInv' /\ \A q \in Runs : HistoryInv(q)' /\ JoinInv(q)'
  BY DEF IInv, FinishTaskDone, manager, records, history, clients, HistoryInv, JoinInv,
         ShutdownInv, DownInv
<1> QED
  BY <1>1, <1>2, <1>3, <1>4 DEF IInv

LEMMA CreateRowKeepsIInv == ASSUME IInv, NEW r \in Runs, CreateRow(r) PROVE IInv'
<1>1. TypeOK'
  BY DEF IInv, TypeOK, CreateRow, manager, tables, records, clients
<1>2. ASSUME NEW q \in Runs PROVE TablesInv(q)'
  BY DEF IInv, CreateRow, tables, records, TablesInv, HookRunning
<1>3. ASSUME NEW q \in Runs PROVE StatusInv(q)'
  BY DEF IInv, CreateRow, tables, records, StatusInv, HookRunning
<1>4. ASSUME NEW q \in Runs PROVE HistoryInv(q)'
  BY DEF IInv, TypeOK, CreateRow, manager, records, StatusInv, HistoryInv
<1>5. DownInv'
  BY DEF CreateRow, manager, DownInv
<1>6. ShutdownInv' /\ \A q \in Runs : JoinInv(q)'
  BY DEF IInv, CreateRow, manager, tables, records, clients, JoinInv, ShutdownInv
<1> QED
  BY <1>1, <1>2, <1>3, <1>4, <1>5, <1>6 DEF IInv

LEMMA RecordRowKeepsIInv == ASSUME IInv, NEW r \in Runs, RecordRow(r) PROVE IInv'
<1>1. TypeOK'
  <2> DEFINE written == [row EXCEPT ![r] = status[r]]
  <2>1. row' = row \/ \E gone \in SUBSET Prunable(written) : row' = Pruned(written, gone)
    BY DEF RecordRow
  <2>2. status[r] \in Terminal /\ row \in [Runs -> Rows]
    BY DEF IInv, TypeOK, RecordRow, TablesInv, StatusInv, HookRunning, Rows
  <2>3. written \in [Runs -> Rows]
    BY <2>2 DEF Rows
  <2> HIDE DEF written
  <2>4. row' \in [Runs -> Rows]
    BY <2>1, <2>2, <2>3, PrunedRow
  <2> QED
    BY <2>4 DEF IInv, TypeOK, RecordRow, Rows, manager, tables, records, clients
<1>2. ASSUME NEW q \in Runs PROVE TablesInv(q)'
  BY DEF IInv, RecordRow, tables, records, TablesInv, HookRunning
<1>3. ASSUME NEW q \in Runs PROVE StatusInv(q)'
  BY DEF IInv, RecordRow, tables, records, StatusInv, HookRunning
<1>4. ASSUME NEW q \in Runs PROVE HistoryInv(q)'
  BY DEF IInv, TypeOK, RecordRow, Prunable, Pruned, manager, records, TablesInv, StatusInv,
         HistoryInv, HookRunning, Active, Terminal, Reliable
<1>5. DownInv'
  BY DEF RecordRow, manager, DownInv
<1>6. ShutdownInv' /\ \A q \in Runs : JoinInv(q)'
  BY DEF IInv, RecordRow, manager, tables, records, clients, JoinInv, ShutdownInv
<1> QED
  BY <1>1, <1>2, <1>3, <1>4, <1>5, <1>6 DEF IInv

LEMMA NotifyKeepsIInv == ASSUME IInv, NEW r \in Runs, Notify(r) PROVE IInv'
<1>1. TypeOK'
  BY DEF IInv, TypeOK, Notify, manager, tables, records, clients
<1>2. ASSUME NEW q \in Runs PROVE TablesInv(q)'
  BY DEF IInv, Notify, tables, records, TablesInv, HookRunning
<1>3. ASSUME NEW q \in Runs PROVE StatusInv(q)'
  BY DEF IInv, Notify, tables, records, StatusInv, HookRunning
<1>4. ASSUME NEW q \in Runs PROVE HistoryInv(q)'
  BY DEF IInv, TypeOK, Notify, Notifies, manager, records, HistoryInv, Active, Terminal
<1>5. DownInv'
  BY DEF Notify, manager, DownInv
<1>6. ShutdownInv' /\ \A q \in Runs : JoinInv(q)'
  BY DEF IInv, Notify, manager, tables, records, clients, JoinInv, ShutdownInv
<1> QED
  BY <1>1, <1>2, <1>3, <1>4, <1>5, <1>6 DEF IInv

LEMMA ShutdownKeepsIInv == ASSUME IInv, Shutdown PROVE IInv'
<1>1. TypeOK'
  BY DEF IInv, TypeOK, Shutdown, CancelTasks, records, history
<1>2. ASSUME NEW q \in Runs PROVE TablesInv(q)'
  BY DEF IInv, Shutdown, CancelTasks, records, TablesInv
<1>3. ASSUME NEW q \in Runs PROVE StatusInv(q)'
  BY DEF IInv, Shutdown, CancelTasks, records, StatusInv
<1>4. ShutdownInv'
  BY DEF IInv, Shutdown, ShutdownInv
<1>5. DownInv'
  BY DEF Shutdown, DownInv
<1>6. \A q \in Runs : HistoryInv(q)' /\ JoinInv(q)'
  BY DEF IInv, Shutdown, records, history, HistoryInv, JoinInv
<1> QED
  BY <1>1, <1>2, <1>3, <1>4, <1>5, <1>6 DEF IInv

LEMMA ShutdownTasksKeepsIInv == ASSUME IInv, ShutdownTasks PROVE IInv'
<1>1. TypeOK'
  BY DEF IInv, TypeOK, ShutdownTasks, manager, tables, records, threads, history
<1>2. ShutdownInv'
  <2>1. /\ spc' = "events" /\ awaited' = events
        /\ tasks' = tasks /\ events' = events /\ stopping' = stopping
    BY DEF ShutdownTasks, manager, tables
  <2>2. ~timedOut' => tasks = {}
    BY DEF IInv, ShutdownTasks, ShutdownInv
  <2> QED
    BY <2>1, <2>2 DEF IInv, ShutdownTasks, ShutdownInv
<1>3. DownInv'
  BY DEF ShutdownTasks, manager, DownInv
<1>4. \A q \in Runs : TablesInv(q)' /\ StatusInv(q)' /\ HistoryInv(q)' /\ JoinInv(q)'
  BY DEF IInv, ShutdownTasks, manager, tables, records, threads, history, TablesInv, StatusInv,
         HistoryInv, JoinInv
<1> QED
  BY <1>1, <1>2, <1>3, <1>4 DEF IInv

LEMMA ShutdownEventsKeepsIInv == ASSUME IInv, ShutdownEvents PROVE IInv'
<1>1. TypeOK'
  BY DEF IInv, TypeOK, ShutdownEvents, manager, tables, records, threads, history
<1>2. ShutdownInv'
  <2>1. spc' = "returned" /\ tasks' = tasks /\ events' = events /\ stopping' = stopping
    BY DEF ShutdownEvents, manager, tables
  <2>2. ~timedOut' => ~timedOut /\ awaited \cap events = {}
    BY DEF ShutdownEvents
  <2>3. ~timedOut' => tasks = {} /\ events = {}
    BY <2>2 DEF IInv, ShutdownEvents, ShutdownInv
  <2> QED
    BY <2>1, <2>3 DEF IInv, ShutdownEvents, ShutdownInv
<1>3. DownInv'
  BY DEF ShutdownEvents, manager, DownInv
<1>4. \A q \in Runs : TablesInv(q)' /\ StatusInv(q)' /\ HistoryInv(q)' /\ JoinInv(q)'
  BY DEF IInv, ShutdownEvents, manager, tables, records, threads, history, TablesInv, StatusInv,
         HistoryInv, JoinInv
<1> QED
  BY <1>1, <1>2, <1>3, <1>4 DEF IInv

LEMMA ExitKeepsIInv == ASSUME IInv, Exit PROVE IInv'
<1>1. TypeOK'
  <2>1. row' \in [Runs -> Rows]
    BY DEF IInv, TypeOK, Exit, Rows, Terminal
  <2>2. notified' \in [Runs -> Nat] /\ boots' \in Nat /\ used' \subseteq Runs
    BY DEF IInv, TypeOK, Exit
  <2> QED
    BY <2>1, <2>2 DEF TypeOK, Exit, Everywhere, Rows
<1>2. ASSUME NEW q \in Runs PROVE TablesInv(q)'
  BY DEF Exit, Everywhere, TablesInv, TaskAlive, HookRunning, Active
<1>3. ASSUME NEW q \in Runs PROVE StatusInv(q)'
  BY DEF Exit, Everywhere, StatusInv, HookRunning
<1>4. ASSUME NEW q \in Runs PROVE HistoryInv(q)'
  BY DEF IInv, Exit, Everywhere, HistoryInv, Active, Terminal
<1>5. ASSUME NEW q \in Runs PROVE JoinInv(q)'
  BY DEF Exit, Everywhere, JoinInv
<1>6. ShutdownInv'
  BY DEF Exit, ShutdownInv
<1>7. DownInv'
  BY DEF Exit, Everywhere, DownInv
<1> QED
  BY <1>1, <1>2, <1>3, <1>4, <1>5, <1>6, <1>7 DEF IInv

LEMMA BootKeepsIInv == ASSUME IInv, Boot PROVE IInv'
<1>1. TypeOK'
  BY DEF IInv, TypeOK, Boot, Pruned, tables, records, threads, clients, Terminal
<1>2. ASSUME NEW q \in Runs PROVE HistoryInv(q)'
  <2>1. row \in [Runs -> Rows] /\ UNCHANGED <<used, status, hook, notified>>
    BY DEF IInv, TypeOK, Boot, Rows, records, threads
  <2>2. status[q] = "absent" /\ hook[q] = "none"
    BY DEF IInv, DownInv, Boot
  <2>3. \/ row'[q] = row[q]
        \/ row[q] \in {"running"} \cup Terminal /\ row'[q] \in {"unexpected_error", "pruned"}
    <3>1. PICK skipped \in SUBSET FaultyRuns :
            LET open  == {r \in Runs \ skipped : row[r] = "running"}
                swept == [r \in Runs |-> IF r \in open THEN "unexpected_error" ELSE row[r]]
            IN  IF open = {} THEN row' = row
                ELSE \E gone \in SUBSET Prunable(swept) : row' = Pruned(swept, gone)
      BY DEF Boot
    <3> DEFINE open  == {r \in Runs \ skipped : row[r] = "running"}
               swept == [r \in Runs |-> IF r \in open THEN "unexpected_error" ELSE row[r]]
    <3>2. CASE open = {}
      BY <3>1, <3>2
    <3>3. CASE open # {}
      <4>1. PICK gone \in SUBSET Prunable(swept) : row' = Pruned(swept, gone)
        BY <3>1, <3>3
      <4>2. swept \in [Runs -> Rows]
        BY <2>1 DEF Rows, Terminal
      <4>3. row'[q] = swept[q] \/ (swept[q] \in Terminal /\ row'[q] = "pruned")
        BY <4>1, <4>2, PrunedRow
      <4> QED
        BY <4>3
    <3> QED
      BY <3>2, <3>3
  <2> QED
    BY <2>1, <2>2, <2>3 DEF IInv, HistoryInv, Active, Terminal
<1>3. DownInv'
  BY DEF Boot, DownInv
<1>4. ShutdownInv' /\ \A q \in Runs : TablesInv(q)' /\ StatusInv(q)' /\ JoinInv(q)'
  BY DEF IInv, Boot, tables, records, threads, clients, TablesInv, StatusInv, JoinInv,
         ShutdownInv
<1> QED
  BY <1>1, <1>2, <1>3, <1>4 DEF IInv

LEMMA InitEstablishesIInv == ASSUME Init PROVE IInv
<1>1. TypeOK
  BY DEF Init, TypeOK, Everywhere
<1>2. \A r \in Runs : TablesInv(r) /\ StatusInv(r)
  BY DEF Init, Everywhere, TablesInv, StatusInv, TaskAlive, HookRunning, Active
<1>3. \A r \in Runs : HistoryInv(r) /\ JoinInv(r)
  BY DEF Init, Everywhere, HistoryInv, JoinInv, Active, Terminal
<1>4. ShutdownInv /\ DownInv
  BY DEF Init, ShutdownInv, DownInv
<1> QED
  BY <1>1, <1>2, <1>3, <1>4 DEF IInv

LEMMA StutterKeepsIInv == ASSUME IInv, UNCHANGED vars PROVE IInv'
<1> USE DEF vars, manager, tables, records, threads, history, clients
<1>1. TypeOK'
  BY DEF IInv, TypeOK
<1>2. \A r \in Runs : TablesInv(r)' /\ StatusInv(r)' /\ HistoryInv(r)' /\ JoinInv(r)'
  BY DEF IInv, TablesInv, StatusInv, HistoryInv, JoinInv
<1>3. ShutdownInv' /\ DownInv'
  BY DEF IInv, ShutdownInv, DownInv
<1> QED
  BY <1>1, <1>2, <1>3 DEF IInv

LEMMA NextKeepsIInv == ASSUME IInv, [Next]_vars PROVE IInv'
<1>1. ASSUME NEW r \in Runs, ClientStep(r) PROVE IInv'
  BY <1>1, StartKeepsIInv, CancelKeepsIInv, JoinKeepsIInv, JoinTaskDoneKeepsIInv,
     JoinEventDoneKeepsIInv DEF ClientStep
<1>2. ASSUME NEW r \in Runs, TaskStep(r) PROVE IInv'
  BY <1>2, BeginKeepsIInv, NeverBeginKeepsIInv, StartHookDoneKeepsIInv,
     OperationCancelledKeepsIInv, FinishDoneKeepsIInv, TaskDoneKeepsIInv DEF TaskStep
<1>3. ASSUME NEW r \in Runs, FinishStep(r) PROVE IInv'
  BY <1>3, FinishTaskRunsKeepsIInv, FinishTaskHookDoneKeepsIInv, FinishTaskDoneKeepsIInv
     DEF FinishStep
<1>4. ASSUME NEW r \in Runs, ThreadStep(r) PROVE IInv'
  BY <1>4, CreateRowKeepsIInv, RecordRowKeepsIInv, NotifyKeepsIInv DEF ThreadStep
<1>5. ASSUME NEW r \in Runs, MarkNotCancellable(r) \/ OperationEnds(r) PROVE IInv'
  BY <1>5, MarkNotCancellableKeepsIInv, OperationEndsKeepsIInv
<1>6. ASSUME Shutdown \/ ShutdownStep PROVE IInv'
  BY <1>6, ShutdownKeepsIInv, ShutdownTasksKeepsIInv, ShutdownEventsKeepsIInv DEF ShutdownStep
<1>7. ASSUME Exit \/ Boot PROVE IInv'
  BY <1>7, ExitKeepsIInv, BootKeepsIInv
<1> QED
  BY <1>1, <1>2, <1>3, <1>4, <1>5, <1>6, <1>7, StutterKeepsIInv DEF Next

\* IInv is an invariant of the manager: the inductive core of everything below.
THEOREM InductiveInvariant == Spec => []IInv
<1>1. Init => IInv
  BY InitEstablishesIInv
<1>2. IInv /\ [Next]_vars => IInv'
  BY NextKeepsIInv
<1> QED
  BY <1>1, <1>2, PTL DEF Spec

-----------------------------------------------------------------------------
(* The invariants.                                                         *)

\* Every variable keeps to its type; statuses and rows are the documented ones.
THEOREM TypeCorrect == Spec => []TypeOK
<1>1. IInv => TypeOK
  BY DEF IInv
<1> QED
  BY <1>1, InductiveInvariant, PTL

\* _drop_completed_record removes a record exactly when its tasks are gone, and no
\* unfinished run or pending terminal event is left without a task.
THEOREM RecordsAreOwned == Spec => []RecordsOwned
<1>1. ASSUME IInv PROVE RecordsOwned
  <2>1. runs = tasks \cup finishTasks
    BY <1>1 DEF IInv, TypeOK, TablesInv
  <2>2. \A r \in Runs : status[r] \in Active => r \in events
    BY <1>1 DEF IInv, TablesInv
  <2>3. \A r \in Runs : r \in events => r \in runs
    BY <1>1 DEF IInv, TypeOK, TablesInv, StatusInv, TaskAlive, HookRunning, Active, Terminal
  <2> QED
    BY <1>1, <2>1, <2>2, <2>3 DEF RecordsOwned, IInv, TypeOK
<1> QED
  BY <1>1, InductiveInvariant, PTL

\* Who is told that a run is over finds that outcome in the history: _finish sets
\* the terminal event only after the terminal hook has written the row.
THEOREM AnnouncedOutcomesAreDurable == Spec => []AnnouncedIsDurable
<1>1. ASSUME IInv PROVE AnnouncedIsDurable
  <2> SUFFICES ASSUME NEW r \in Reliable,
                      jpc[r] = "returned" \/ (status[r] \in Terminal /\ r \notin events)
               PROVE  status[r] \in Terminal /\ row[r] \in {status[r], "pruned"}
    BY DEF AnnouncedIsDurable
  <2>1. r \in Runs /\ status[r] \in Terminal /\ r \notin events
    BY <1>1 DEF IInv, JoinInv, Reliable
  <2>2. hook[r] # "record"
    BY <1>1, <2>1 DEF IInv, TablesInv, HookRunning
  <2> QED
    BY <1>1, <2>1, <2>2 DEF IInv, HistoryInv
<1> QED
  BY <1>1, InductiveInvariant, PTL

\* A shutdown() that did not time out leaves no unfinished run and no outcome that
\* the history lacks, however runs were cancelled, queued or finishing before it.
THEOREM ShutdownLeavesNothing == Spec => []ShutdownIsComplete
<1>1. ASSUME IInv PROVE ShutdownIsComplete
  <2> SUFFICES ASSUME spc = "returned", ~timedOut, NEW r \in Reliable, status[r] # "absent"
               PROVE  status[r] \in Terminal /\ row[r] \in {status[r], "pruned"}
    BY DEF ShutdownIsComplete
  <2>1. r \in Runs /\ r \notin events
    BY <1>1 DEF IInv, ShutdownInv, Reliable
  <2>2. status[r] \notin Active /\ hook[r] # "record"
    BY <1>1, <2>1 DEF IInv, TablesInv, HookRunning
  <2>3. status[r] \in Terminal
    BY <1>1, <2>1, <2>2 DEF IInv, TypeOK
  <2> QED
    BY <1>1, <2>1, <2>2, <2>3 DEF IInv, HistoryInv
<1> QED
  BY <1>1, InductiveInvariant, PTL

\* terminal_run_hook dispatches at most one notification per run over all restarts,
\* and only after the outcome is in the history.
THEOREM NotifiedOnce == Spec => []NotifiedOnceAfterRecord
<1>1. ASSUME IInv PROVE NotifiedOnceAfterRecord
  BY <1>1 DEF IInv, HistoryInv, NotifiedOnceAfterRecord
<1> QED
  BY <1>1, InductiveInvariant, PTL

-----------------------------------------------------------------------------
(* The action properties.                                                  *)

\* What one step may do to a row: nothing to an outcome but prune it.
RowKept == \A q \in Runs : row[q] \in Terminal \cup {"pruned"} => row'[q] \in {row[q], "pruned"}

LEMMA CreateRowKeepsOutcomes == ASSUME IInv, NEW r \in Runs, CreateRow(r) PROVE RowKept
<1>1. row[r] \in {"none", "running"}
  BY DEF IInv, CreateRow, StatusInv, HistoryInv, Active
<1>2. \A q \in Runs \ {r} : row'[q] = row[q]
  BY DEF IInv, TypeOK, CreateRow
<1> QED
  BY <1>1, <1>2 DEF RowKept, Terminal

LEMMA RecordRowKeepsOutcomes == ASSUME IInv, NEW r \in Runs, RecordRow(r) PROVE RowKept
<1> DEFINE written == [row EXCEPT ![r] = status[r]]
<1>1. row[r] \in {"none", "running"} /\ status[r] \in Terminal
  BY DEF IInv, RecordRow, TablesInv, StatusInv, HistoryInv, HookRunning
<1>2. row' = row \/ \E gone \in SUBSET Prunable(written) : row' = Pruned(written, gone)
  BY DEF RecordRow
<1>3. /\ written \in [Runs -> Rows]
      /\ \A q \in Runs \ {r} : written[q] = row[q]
  BY <1>1 DEF IInv, TypeOK, Rows
<1> HIDE DEF written
<1>4. \A q \in Runs \ {r} : row'[q] \in {row[q], "pruned"}
  BY <1>2, <1>3, PrunedRow
<1> QED
  BY <1>1, <1>4 DEF RowKept, Terminal

LEMMA ExitKeepsOutcomes == ASSUME IInv, Exit PROVE RowKept
<1>1. \A q \in Runs : row'[q] = row[q] \/ status[q] \in Active
  BY DEF Exit
<1>2. \A q \in Runs : status[q] \in Active => row[q] \in {"none", "running"}
  BY DEF IInv, HistoryInv
<1> QED
  BY <1>1, <1>2 DEF RowKept, Terminal

LEMMA BootKeepsOutcomes == ASSUME IInv, Boot PROVE RowKept
<1> SUFFICES ASSUME NEW q \in Runs, row[q] \in Terminal \cup {"pruned"}
             PROVE  row'[q] \in {row[q], "pruned"}
  BY DEF RowKept
<1>1. PICK skipped \in SUBSET FaultyRuns :
        LET open  == {r \in Runs \ skipped : row[r] = "running"}
            swept == [r \in Runs |-> IF r \in open THEN "unexpected_error" ELSE row[r]]
        IN  IF open = {} THEN row' = row
            ELSE \E gone \in SUBSET Prunable(swept) : row' = Pruned(swept, gone)
  BY DEF Boot
<1> DEFINE open  == {r \in Runs \ skipped : row[r] = "running"}
           swept == [r \in Runs |-> IF r \in open THEN "unexpected_error" ELSE row[r]]
<1>2. CASE open = {}
  BY <1>1, <1>2
<1>3. CASE open # {}
  <2>1. PICK gone \in SUBSET Prunable(swept) : row' = Pruned(swept, gone)
    BY <1>1, <1>3
  <2>2. swept \in [Runs -> Rows]
    BY DEF IInv, TypeOK, Rows, Terminal
  <2>3. swept[q] = row[q]
    BY DEF Terminal
  <2> QED
    BY <2>1, <2>2, <2>3, PrunedRow
<1> QED
  BY <1>2, <1>3

LEMMA NextKeepsOutcomes == ASSUME IInv, [Next]_vars PROVE RowKept
<1>1. ASSUME UNCHANGED row PROVE RowKept
  BY <1>1 DEF RowKept
<1>2. ASSUME NEW r \in Runs, ClientStep(r) \/ TaskStep(r) PROVE UNCHANGED row
  BY <1>2 DEF ClientStep, TaskStep, Start, Cancel, Join, JoinTaskDone, JoinEventDone, Begin,
     NeverBegin, StartHookDone, OperationCancelled, FinishDone, TaskDone, history
<1>3. ASSUME NEW r \in Runs, FinishStep(r) \/ MarkNotCancellable(r) \/ OperationEnds(r)
      PROVE  UNCHANGED row
  BY <1>3 DEF FinishStep, FinishTaskRuns, FinishTaskHookDone, FinishTaskDone,
     MarkNotCancellable, OperationEnds, history
<1>4. ASSUME NEW r \in Runs, ThreadStep(r) PROVE RowKept
  BY <1>1, <1>4, CreateRowKeepsOutcomes, RecordRowKeepsOutcomes DEF ThreadStep, Notify
<1>5. ASSUME Shutdown \/ ShutdownStep PROVE UNCHANGED row
  BY <1>5 DEF Shutdown, ShutdownStep, ShutdownTasks, ShutdownEvents, history
<1>6. ASSUME UNCHANGED vars PROVE UNCHANGED row
  BY <1>6 DEF vars, history
<1> QED
  BY <1>1, <1>2, <1>3, <1>4, <1>5, <1>6, ExitKeepsOutcomes, BootKeepsOutcomes DEF Next

\* An outcome in the history is never rewritten, not by a late create_run, a second
\* _finish or the sweep of a restarted process.
THEOREM OutcomesAreFinal == Spec => HistoryIsFinal
<1>1. IInv /\ [Next]_vars =>
        [\A r \in Runs : row[r] \in Terminal \cup {"pruned"} => row'[r] \in {row[r], "pruned"}]_vars
  BY NextKeepsOutcomes DEF RowKept
<1> QED
  BY <1>1, InductiveInvariant, PTL DEF Spec, HistoryIsFinal

\* What one step may do to a run whose cancellation was requested.
Honoured ==
    \A q \in Runs : q \in cancelRequested /\ status[q] \in Active /\ status'[q] \in Terminal
                       => status'[q] \in IF pc[q] = "operation"
                                         THEN {"cancelled", "unexpected_error"} ELSE {"cancelled"}

LEMMA NextHonoursCancellation == ASSUME IInv, [Next]_vars PROVE Honoured
<1>1. ASSUME UNCHANGED status PROVE Honoured
  BY <1>1 DEF Honoured, Active, Terminal
<1>2. ASSUME NEW r \in Runs, NEW st, status' = [status EXCEPT ![r] = st],
             \/ st \in Active \cup {"cancelled"}
             \/ r \notin cancelRequested
             \/ pc[r] = "operation" /\ st = "unexpected_error"
      PROVE  Honoured
  BY <1>2 DEF Honoured, IInv, TypeOK, Active, Terminal
<1>3. ASSUME NEW r \in Runs, ClientStep(r) PROVE Honoured
  BY <1>1, <1>2, <1>3 DEF ClientStep, Start, Cancel, Join, JoinTaskDone, JoinEventDone, records,
     Active
<1>4. ASSUME NEW r \in Runs, TaskStep(r) PROVE Honoured
  <2>1. CASE OperationCancelled(r)
    BY <1>2, <2>1 DEF OperationCancelled, SetOutcome
  <2>2. CASE Begin(r)
    BY <1>2, <2>2 DEF Begin, Active
  <2>3. CASE NeverBegin(r) \/ StartHookDone(r) \/ FinishDone(r) \/ TaskDone(r)
    BY <1>1, <2>3 DEF NeverBegin, StartHookDone, FinishDone, TaskDone, records
  <2> QED
    BY <1>4, <2>1, <2>2, <2>3 DEF TaskStep
<1>5. ASSUME NEW r \in Runs, FinishStep(r) PROVE Honoured
  BY <1>1, <1>2, <1>5 DEF FinishStep, FinishTaskRuns, FinishTaskHookDone, FinishTaskDone,
     SetOutcome, records
<1>6. ASSUME NEW r \in Runs, ThreadStep(r) \/ MarkNotCancellable(r) PROVE Honoured
  BY <1>1, <1>6 DEF ThreadStep, CreateRow, RecordRow, Notify, MarkNotCancellable, records
<1>7. ASSUME NEW r \in Runs, OperationEnds(r) PROVE Honoured
  <2>1. r \notin cancelRequested
    BY <1>7 DEF OperationEnds, IInv, StatusInv, Active
  <2> QED
    BY <1>2, <1>7, <2>1 DEF OperationEnds, SetOutcome
<1>8. ASSUME Shutdown \/ ShutdownStep \/ Boot \/ UNCHANGED vars PROVE UNCHANGED status
  BY <1>8 DEF Shutdown, ShutdownStep, ShutdownTasks, ShutdownEvents, Boot, vars, records
<1>9. ASSUME Exit PROVE Honoured
  BY <1>9 DEF Exit, Everywhere, Honoured, Terminal
<1> QED
  BY <1>1, <1>3, <1>4, <1>5, <1>6, <1>7, <1>8, <1>9 DEF Next

\* A run whose cancellation was requested while it was unfinished ends as cancelled, wherever
\* its task stood when cancel() or shutdown() asked for it, or, if its operation raises
\* while it unwinds, with an unexpected error.
THEOREM CancellationIsHonoured == Spec => CancellationWins
<1>1. IInv /\ [Next]_vars =>
        [\A r \in Runs : r \in cancelRequested /\ status[r] \in Active /\ status'[r] \in Terminal
              => status'[r] \in IF pc[r] = "operation"
                                THEN {"cancelled", "unexpected_error"} ELSE {"cancelled"}]_vars
  BY NextHonoursCancellation DEF Honoured
<1> QED
  BY <1>1, InductiveInvariant, PTL DEF Spec, CancellationWins

-----------------------------------------------------------------------------
(***************************************************************************)
(* The refinement: what clients see of the reliable runs behaves like      *)
(* RunLifecycle.  Seen, Settled and Told are the abstract variables.       *)
(***************************************************************************)
Seen    == [r \in Reliable |-> View(r)]
Settled == {r \in Reliable : row[r] \in Terminal \cup {"pruned"}}
Told    == {r \in Reliable : jpc[r] = "returned"}

\* What the history says of a run.
Shown(value) == CASE value = "none" -> "absent" [] value = "pruned" -> "expired"
                  [] OTHER -> value

LEMMA ViewIs ==
    /\ \A q : View(q) = IF q \in runs THEN status[q] ELSE Shown(row[q])
    /\ \A q : View(q)' = IF q \in runs' THEN status'[q] ELSE Shown(row'[q])
  BY DEF View, Shown

LEMMA SeenIs ==
    /\ Seen = [q \in Reliable |-> IF q \in runs THEN status[q] ELSE Shown(row[q])]
    /\ Seen' = [q \in Reliable |-> IF q \in runs' THEN status'[q] ELSE Shown(row'[q])]
  BY ViewIs DEF Seen

\* The steps of RunLifecycle in terms of what is seen, settled and told.
LEMMA AbstractSteps ==
    /\ Seen' = Seen /\ Settled' = Settled /\ Told' = Told /\ up' = up
         => UNCHANGED Lifecycle!vars
    /\ \A r \in Reliable :
         /\ up /\ up' /\ Seen[r] = "absent" /\ Seen' = [Seen EXCEPT ![r] = "queued"]
            /\ Settled' = Settled /\ Told' = Told => Lifecycle!Submit(r)
         /\ up /\ up' /\ Seen[r] = "queued" /\ Seen' = [Seen EXCEPT ![r] = "running"]
            /\ Settled' = Settled /\ Told' = Told => Lifecycle!Begin(r)
         /\ up /\ up' /\ Settled' = Settled /\ Told' = Told
            /\ Seen[r] \in Active
            /\ (\E outcome \in IF Seen[r] = "queued" THEN {"cancelled"} ELSE Terminal :
                   Seen' = [Seen EXCEPT ![r] = outcome]) => Lifecycle!Conclude(r)
         /\ up /\ up' /\ Seen[r] \in Terminal /\ r \notin Settled
            /\ Settled' = Settled \cup {r} /\ Told' = Told
            /\ (\E gone \in SUBSET Settled :
                   Seen' = [q \in Reliable |-> IF q \in gone THEN "expired" ELSE Seen[q]])
               => Lifecycle!Persist(r)
         /\ up /\ up' /\ r \in Settled /\ Told' = Told \cup {r} /\ Seen' = Seen
            /\ Settled' = Settled => Lifecycle!Announce(r)
    /\ up /\ up' /\ Settled' = Settled /\ Told' = Told
       /\ (\E gone \in SUBSET Settled :
              Seen' = [q \in Reliable |-> IF q \in gone THEN "expired" ELSE Seen[q]])
          => Lifecycle!Expire
<1>1. Lifecycle!Active = Active /\ Lifecycle!Terminal = Terminal
  BY DEF Lifecycle!Active, Lifecycle!Terminal, Active, Terminal
<1>2. Seen' = Seen /\ Settled' = Settled /\ Told' = Told /\ up' = up => UNCHANGED Lifecycle!vars
  BY DEF Lifecycle!vars, Seen, Settled, Told
<1>3. ASSUME NEW r \in Reliable, up, up', Seen[r] = "absent",
             Seen' = [Seen EXCEPT ![r] = "queued"], Settled' = Settled, Told' = Told
      PROVE  Lifecycle!Submit(r)
  BY <1>3 DEF Lifecycle!Submit, Seen, Settled, Told
<1>4. ASSUME NEW r \in Reliable, up, up', Seen[r] = "queued",
             Seen' = [Seen EXCEPT ![r] = "running"], Settled' = Settled, Told' = Told
      PROVE  Lifecycle!Begin(r)
  BY <1>4 DEF Lifecycle!Begin, Seen, Settled, Told
<1>5. ASSUME NEW r \in Reliable, up, up', Settled' = Settled, Told' = Told, Seen[r] \in Active,
             NEW outcome \in IF Seen[r] = "queued" THEN {"cancelled"} ELSE Terminal,
             Seen' = [Seen EXCEPT ![r] = outcome]
      PROVE  Lifecycle!Conclude(r)
  BY <1>1, <1>5 DEF Lifecycle!Conclude, Seen, Settled, Told
<1>6. ASSUME NEW gone \in SUBSET Settled,
             Seen' = [q \in Reliable |-> IF q \in gone THEN "expired" ELSE Seen[q]]
      PROVE  Seen' = Lifecycle!Expired(gone)
  BY <1>6 DEF Lifecycle!Expired, Seen
<1>7. ASSUME NEW r \in Reliable, up, up', Seen[r] \in Terminal, r \notin Settled,
             Settled' = Settled \cup {r}, Told' = Told, NEW gone \in SUBSET Settled,
             Seen' = [q \in Reliable |-> IF q \in gone THEN "expired" ELSE Seen[q]]
      PROVE  Lifecycle!Persist(r)
  BY <1>1, <1>6, <1>7 DEF Lifecycle!Persist, Seen, Settled, Told
<1>8. ASSUME NEW r \in Reliable, up, up', r \in Settled, Told' = Told \cup {r}, Seen' = Seen,
             Settled' = Settled
      PROVE  Lifecycle!Announce(r)
  BY <1>8 DEF Lifecycle!Announce, Seen, Settled, Told
<1>9. ASSUME up, up', Settled' = Settled, Told' = Told, NEW gone \in SUBSET Settled,
             Seen' = [q \in Reliable |-> IF q \in gone THEN "expired" ELSE Seen[q]]
      PROVE  Lifecycle!Expire
  BY <1>6, <1>9 DEF Lifecycle!Expire, Seen, Settled, Told
<1> QED
  BY <1>2, <1>3, <1>4, <1>5, <1>7, <1>8, <1>9

AbstractStep == Lifecycle!Next \/ UNCHANGED Lifecycle!vars

LEMMA InAbstractNext ==
    ASSUME \/ \E r \in Reliable : Lifecycle!Submit(r) \/ Lifecycle!Begin(r)
                 \/ Lifecycle!Conclude(r) \/ Lifecycle!Persist(r) \/ Lifecycle!Announce(r)
           \/ Lifecycle!Expire \/ Lifecycle!Crash \/ Lifecycle!Recover
           \/ UNCHANGED Lifecycle!vars
    PROVE  AbstractStep
  BY DEF AbstractStep, Lifecycle!Next

LEMMA ReliableRuns ==
    ASSUME IInv, NEW q \in Reliable
    PROVE  /\ q \in Runs /\ Seen[q] = (IF q \in runs THEN status[q] ELSE Shown(row[q]))
           /\ status[q] \in {"absent"} \cup Active \cup Terminal
           /\ row[q] \in {"none", "running", "pruned"} \cup Terminal
           /\ status[q] \in Active => q \in runs /\ row[q] \in {"none", "running"}
           /\ q \in runs <=> q \in tasks \/ q \in finishTasks
           /\ q \in runs => status[q] # "absent"
           /\ status[q] \in Terminal /\ hook[q] # "record" => row[q] \in {status[q], "pruned"}
           /\ hook[q] = "record" => /\ row[q] \in {"none", "running"}
                                    /\ q \in runs /\ status[q] \in Terminal
           /\ q \in Settled <=> row[q] \in Terminal \cup {"pruned"}
<1>1. q \in Runs /\ TablesInv(q) /\ StatusInv(q) /\ HistoryInv(q)
  BY DEF IInv, Reliable
<1>2. /\ status[q] \in {"absent"} \cup Active \cup Terminal
      /\ row[q] \in {"none", "running", "pruned"} \cup Terminal
      /\ pc[q] \in {"none", "created", "startHook", "operation", "finishing",
                    "finishingCancelled", "returned", "cancelled", "gone"}
      /\ fpc[q] \in {"none", "created", "finishing", "ended"}
  BY <1>1 DEF IInv, TypeOK
<1>3. Seen[q] = IF q \in runs THEN status[q] ELSE Shown(row[q])
  BY SeenIs
<1>4. /\ status[q] \in Active => q \in runs /\ row[q] \in {"none", "running"}
      /\ q \in runs <=> q \in tasks \/ q \in finishTasks
      /\ q \in runs => status[q] # "absent"
  BY <1>1, <1>2 DEF TablesInv, StatusInv, HistoryInv, TaskAlive, Active, HookRunning, Terminal
<1>5. status[q] \in Terminal /\ hook[q] # "record" => row[q] \in {status[q], "pruned"}
  BY <1>1 DEF HistoryInv
<1>6. hook[q] = "record" => /\ row[q] \in {"none", "running"}
                            /\ q \in runs /\ status[q] \in Terminal
  BY <1>1, <1>2 DEF TablesInv, StatusInv, HistoryInv, TaskAlive, HookRunning
<1>7. q \in Settled <=> row[q] \in Terminal \cup {"pruned"}
  BY DEF Settled
<1> QED
  BY <1>1, <1>2, <1>3, <1>4, <1>5, <1>6, <1>7

\* Steps that change nothing a client sees.
LEMMA HiddenSteps ==
    ASSUME UNCHANGED <<runs, status, row, jpc, up>>
    PROVE  AbstractStep
<1>1. Seen' = Seen /\ Settled' = Settled /\ Told' = Told
  BY SeenIs DEF Settled, Told
<1> QED
  BY <1>1, AbstractSteps, InAbstractNext

LEMMA StartRefines == ASSUME IInv, NEW r \in Runs, Start(r) PROVE AbstractStep
<1>1. /\ up /\ up' /\ UNCHANGED <<row, jpc>> /\ status' = [status EXCEPT ![r] = "queued"]
      /\ runs' = runs \cup {r} /\ r \notin used
  BY DEF Start, history, clients
<1>2. Settled' = Settled /\ Told' = Told
      /\ status \in [Runs -> {"absent"} \cup Active \cup Terminal]
  BY <1>1 DEF Settled, Told, IInv, TypeOK
<1>3. CASE r \in Reliable
  <2>1. status[r] = "absent" /\ row[r] = "none" /\ r \notin runs
    <3>1. status[r] = "absent" /\ row[r] = "none"
      BY <1>1 DEF IInv, HistoryInv
    <3> QED
      BY <1>3, <3>1, ReliableRuns
  <2>2. Seen[r] = "absent"
    BY <1>3, <2>1, SeenIs DEF Shown
  <2>3. Seen' = [Seen EXCEPT ![r] = "queued"]
    BY <1>1, <1>2, <1>3, SeenIs DEF Reliable
  <2> QED
    BY <1>1, <1>2, <1>3, <2>2, <2>3, AbstractSteps, InAbstractNext
<1>4. CASE r \notin Reliable
  <2>1. Seen' = Seen
    BY <1>1, <1>2, <1>4, SeenIs DEF Reliable
  <2> QED
    BY <1>1, <1>2, <2>1, AbstractSteps, InAbstractNext
<1> QED
  BY <1>3, <1>4

\* The status of one run changes while its record is there.
LEMMA StatusStep ==
    ASSUME IInv, NEW r \in Runs, NEW st, status' = [status EXCEPT ![r] = st],
           UNCHANGED <<runs, row, jpc>>, up, up', status[r] \in Active,
           \/ status[r] = "queued" /\ st = "running"
           \/ st = "cancelled"
           \/ status[r] = "running" /\ st \in Terminal
    PROVE  AbstractStep
<1>1. Settled' = Settled /\ Told' = Told
      /\ status \in [Runs -> {"absent"} \cup Active \cup Terminal]
  BY DEF Settled, Told, IInv, TypeOK
<1>2. CASE r \in Reliable
  <2>1. r \in runs /\ Seen[r] = status[r]
    BY <1>2, ReliableRuns
  <2>2. Seen' = [Seen EXCEPT ![r] = st]
    BY <1>1, <1>2, <2>1, SeenIs DEF Reliable
  <2>3. CASE status[r] = "queued" /\ st = "running"
    BY <1>1, <1>2, <2>1, <2>2, <2>3, AbstractSteps, InAbstractNext
  <2>4. CASE st \in IF Seen[r] = "queued" THEN {"cancelled"} ELSE Terminal
    BY <1>1, <1>2, <2>1, <2>2, <2>4, AbstractSteps, InAbstractNext
  <2> QED
    BY <2>1, <2>3, <2>4 DEF Terminal, Active
<1>3. CASE r \notin Reliable
  <2>1. Seen' = Seen
    BY <1>1, <1>3, SeenIs DEF Reliable
  <2> QED
    BY <1>1, <2>1, AbstractSteps, InAbstractNext
<1> QED
  BY <1>2, <1>3

LEMMA BeginRefines == ASSUME IInv, NEW r \in Runs, Begin(r) PROVE AbstractStep
<1>1. status[r] = "queued"
  BY DEF Begin, IInv, StatusInv
<1> QED
  BY <1>1, StatusStep DEF Begin, manager, tables, history, clients, Active

LEMMA OutcomeRefines ==
    ASSUME IInv, NEW r \in Runs, OperationEnds(r) \/ OperationCancelled(r) PROVE AbstractStep
<1>1. status[r] = "running"
  BY DEF OperationEnds, OperationCancelled, IInv, StatusInv
<1>2. \A result \in Results : Outcome(r, result) \in Terminal
  BY DEF Outcome, Results, Terminal
<1>3. PICK st \in Terminal : status' = [status EXCEPT ![r] = st]
  <2>1. CASE OperationEnds(r)
    BY <1>2, <2>1 DEF OperationEnds, SetOutcome
  <2>2. CASE OperationCancelled(r)
    BY <2>2 DEF OperationCancelled, SetOutcome, Terminal
  <2> QED
    BY <2>1, <2>2
<1>4. up /\ up' /\ UNCHANGED <<runs, row, jpc>>
  BY DEF OperationEnds, OperationCancelled, manager, tables, history, clients
<1>5. status[r] \in Active
  BY <1>1 DEF Active
<1> QED
  BY <1>1, <1>3, <1>4, <1>5, StatusStep

LEMMA FinishTaskRefines == ASSUME IInv, NEW r \in Runs, FinishTaskRuns(r) PROVE AbstractStep
<1>1. up /\ up' /\ UNCHANGED <<row, jpc>>
  BY DEF FinishTaskRuns, manager, history, clients
<1>2. CASE status[r] \in Active
  BY <1>1, <1>2, StatusStep DEF FinishTaskRuns, SetOutcome
<1>3. CASE status[r] \notin Active
  <2>1. r \in finishTasks /\ runs' = runs /\ UNCHANGED status
    BY <1>3 DEF FinishTaskRuns, AfterDrop, IInv, TablesInv
  <2> QED
    BY <1>1, <2>1, HiddenSteps
<1> QED
  BY <1>2, <1>3

LEMMA FinishDoneRefines ==
    ASSUME IInv, NEW r \in Runs, FinishDone(r) \/ FinishTaskHookDone(r) PROVE AbstractStep
<1>1. r \in tasks \/ r \in finishTasks
  BY DEF FinishDone, FinishTaskHookDone, IInv, TablesInv, TaskAlive
<1>2. UNCHANGED <<runs, status, row, jpc, up>>
  BY <1>1 DEF FinishDone, FinishTaskHookDone, AfterDrop, manager, records, history, clients
<1> QED
  BY <1>2, HiddenSteps

LEMMA JoinRefines ==
    ASSUME IInv, IInv', NEW r \in Runs, Join(r) \/ JoinTaskDone(r) \/ JoinEventDone(r)
    PROVE  AbstractStep
<1>1. /\ up /\ up' /\ UNCHANGED <<runs, status, row, events, hook>>
      /\ jpc[r] # "returned"
  BY DEF Join, JoinTaskDone, JoinEventDone, manager, tables, records, threads, history
<1>2. /\ \A q \in Runs : q # r => jpc'[q] = jpc[q]
  BY DEF Join, JoinTaskDone, JoinEventDone, IInv, TypeOK
<1>3. Seen' = Seen /\ Settled' = Settled
  BY <1>1, SeenIs DEF Settled
<1>4. CASE r \in Reliable /\ jpc'[r] = "returned"
  <2>1. status[r] \in Terminal /\ r \notin events
    BY <1>1, <1>4 DEF IInv, JoinInv
  <2>2. hook[r] # "record"
    BY <2>1 DEF IInv, TablesInv, HookRunning
  <2>3. r \in Settled
    BY <1>4, <2>1, <2>2, ReliableRuns
  <2>4. Told' = Told \cup {r}
    BY <1>2, <1>4 DEF Told, Reliable
  <2> QED
    BY <1>1, <1>3, <1>4, <2>3, <2>4, AbstractSteps, InAbstractNext
<1>5. CASE ~ (r \in Reliable /\ jpc'[r] = "returned")
  <2>1. Told' = Told
    BY <1>1, <1>2, <1>5 DEF Told, Reliable
  <2> QED
    BY <1>1, <1>3, <2>1, AbstractSteps, InAbstractNext
<1> QED
  BY <1>4, <1>5

LEMMA CreateRowRefines == ASSUME IInv, NEW r \in Runs, CreateRow(r) PROVE AbstractStep
<1>1. /\ UNCHANGED <<runs, status, jpc, up>>
      /\ row' = row \/ row' = [row EXCEPT ![r] = "running"]
  BY DEF CreateRow, manager, tables, records, clients
<1>2. r \in runs /\ row[r] \in {"none", "running"}
  <2>1. status[r] = "running"
    BY DEF CreateRow, IInv, StatusInv
  <2> QED
    BY <2>1 DEF CreateRow, IInv, HistoryInv, TablesInv, StatusInv, TaskAlive, Active
<1>3. row \in [Runs -> {"none", "running", "pruned"} \cup Terminal]
  BY DEF IInv, TypeOK
<1>4. Seen' = Seen /\ Told' = Told
  BY <1>1, <1>2, <1>3, SeenIs DEF Told, Reliable
<1>5. Settled' = Settled
  BY <1>1, <1>2, <1>3 DEF Settled, Terminal, Reliable
<1> QED
  BY <1>1, <1>4, <1>5, AbstractSteps, InAbstractNext

\* Pruning is seen of the runs whose record is gone.
LEMMA PruningIsSeen ==
    ASSUME IInv, NEW table \in [Runs -> Rows], NEW gone \in SUBSET Prunable(table),
           row' = Pruned(table, gone), UNCHANGED <<runs, status>>,
           NEW but, \A q \in Runs : (q = but /\ q \in runs) \/ table[q] = row[q]
    PROVE  /\ \E some \in SUBSET Settled :
                 Seen' = [q \in Reliable |-> IF q \in some THEN "expired" ELSE Seen[q]]
           /\ \A q \in Reliable : q # but => (q \in Settled' <=> q \in Settled)
<1> DEFINE some == {q \in Reliable : q \notin runs /\ row'[q] = "pruned"}
<1>1. \A q \in Runs : \/ row'[q] = table[q]
                      \/ table[q] \in Terminal /\ row'[q] = "pruned"
  BY PrunedRow
<1>2. some \in SUBSET Settled
  <2> SUFFICES ASSUME NEW q \in some PROVE q \in Settled
    OBVIOUS
  <2>1. q \in Runs /\ q \in Reliable /\ q \notin runs /\ row'[q] = "pruned"
    BY DEF Reliable
  <2>2. row[q] \in Terminal \cup {"pruned"}
    BY <1>1, <2>1
  <2> QED
    BY <2>1, <2>2 DEF Settled
<1>3. ASSUME NEW q \in Reliable
      PROVE  (IF q \in runs' THEN status'[q] ELSE Shown(row'[q]))
                = IF q \in some THEN "expired" ELSE Seen[q]
  <2>1. q \in Runs /\ Seen[q] = (IF q \in runs THEN status[q] ELSE Shown(row[q]))
    BY ReliableRuns
  <2>2. CASE q \in runs
    BY <2>1, <2>2
  <2>3. CASE q \notin runs /\ row'[q] = "pruned"
    BY <2>1, <2>3 DEF Shown
  <2>4. CASE q \notin runs /\ row'[q] # "pruned"
    <3>1. row'[q] = row[q]
      BY <1>1, <2>1, <2>4
    <3> QED
      BY <2>1, <2>4, <3>1
  <2> QED
    BY <2>2, <2>3, <2>4
<1>4. Seen' = [q \in Reliable |-> IF q \in some THEN "expired" ELSE Seen[q]]
  BY <1>3, SeenIs
<1>5. ASSUME NEW q \in Reliable, q # but PROVE q \in Settled' <=> q \in Settled
  <2>1. q \in Runs /\ table[q] = row[q]
    BY <1>5 DEF Reliable
  <2>2. row'[q] = row[q] \/ (row[q] \in Terminal /\ row'[q] = "pruned")
    BY <1>1, <2>1
  <2> QED
    BY <1>5, <2>2 DEF Settled
<1> QED
  BY <1>2, <1>4, <1>5

LEMMA RecordRowRefines == ASSUME IInv, NEW r \in Runs, RecordRow(r) PROVE AbstractStep
<1>1. up /\ up' /\ UNCHANGED <<runs, status, jpc>> /\ hook[r] = "record" /\ Told' = Told
  BY DEF RecordRow, manager, tables, records, clients, Told
<1>2. row \in [Runs -> Rows] /\ status[r] \in Terminal /\ r \in runs
  <2>1. row \in [Runs -> Rows] /\ status \in [Runs -> {"absent"} \cup Active \cup Terminal]
    BY DEF IInv, TypeOK, Rows
  <2>2. pc[r] \in {"finishing", "finishingCancelled"} \/ fpc[r] = "finishing"
    BY <1>1 DEF IInv, StatusInv, HookRunning
  <2> QED
    BY <2>1, <2>2 DEF IInv, StatusInv, TablesInv, TaskAlive
<1>3. CASE row' = row
  BY <1>1, <1>3, HiddenSteps
<1>4. CASE row' # row
  <2> DEFINE written == [row EXCEPT ![r] = status[r]]
  <2>1. PICK gone \in SUBSET Prunable(written) : row' = Pruned(written, gone)
    BY <1>4 DEF RecordRow
  <2>2. /\ written \in [Runs -> Rows]
        /\ \A q \in Runs : (q = r /\ q \in runs) \/ written[q] = row[q]
        /\ written[r] \in Terminal
    BY <1>2 DEF Rows
  <2> HIDE DEF written
  <2>3. /\ \E some \in SUBSET Settled :
              Seen' = [q \in Reliable |-> IF q \in some THEN "expired" ELSE Seen[q]]
        /\ \A q \in Reliable : q # r => (q \in Settled' <=> q \in Settled)
    BY <1>1, <2>1, <2>2, PruningIsSeen
  <2>4. CASE r \in Reliable
    <3>1. Seen[r] \in Terminal /\ r \notin Settled
      BY <1>1, <1>2, <2>4, ReliableRuns DEF Terminal
    <3>2. row'[r] \in Terminal \cup {"pruned"}
      BY <2>1, <2>2, PrunedRow
    <3>3. Settled' = Settled \cup {r}
      BY <2>3, <2>4, <3>2 DEF Settled
    <3> QED
      BY <1>1, <2>3, <2>4, <3>1, <3>3, AbstractSteps, InAbstractNext
  <2>5. CASE r \notin Reliable
    <3>1. Settled' = Settled
      BY <2>3, <2>5 DEF Settled
    <3> QED
      BY <1>1, <2>3, <3>1, AbstractSteps, InAbstractNext
  <2> QED
    BY <2>4, <2>5
<1> QED
  BY <1>3, <1>4

\* A record may be dropped; what is seen of the run then is its row.
LEMMA DropRefines ==
    ASSUME IInv, NEW r \in Runs, TaskDone(r) \/ FinishTaskDone(r) PROVE AbstractStep
<1>1. /\ up /\ up' /\ UNCHANGED <<status, row, jpc, events>>
      /\ runs' = runs \/ (runs' = runs \ {r} /\ status[r] \notin Active /\ r \notin events)
  BY DEF TaskDone, FinishTaskDone, AfterDrop, manager, records, history, clients
<1>2. CASE runs' = runs \/ r \notin Reliable
  <2>1. Seen' = Seen
    BY <1>1, <1>2, SeenIs DEF Reliable
  <2>2. Settled' = Settled /\ Told' = Told
    BY <1>1 DEF Settled, Told
  <2> QED
    BY <1>1, <2>1, <2>2, AbstractSteps, InAbstractNext
<1>3. CASE runs' = runs \ {r} /\ status[r] \notin Active /\ r \notin events /\ r \in Reliable
  <2>1. r \in runs
    BY DEF TaskDone, FinishTaskDone, IInv, TablesInv, TaskAlive
  <2>2. hook[r] # "record"
    BY <1>3 DEF IInv, TablesInv, HookRunning
  <2>3. Seen[r] = status[r] /\ row[r] \in {status[r], "pruned"} /\ status[r] \in Terminal
    BY <1>3, <2>1, <2>2, ReliableRuns
  <2>4. Settled' = Settled /\ Told' = Told /\ r \in Settled
    BY <1>1, <1>3, <2>3 DEF Settled, Told
  <2> DEFINE gone == {q \in {r} : row[q] = "pruned"}
  <2>5. Shown(row[r]) = IF r \in gone THEN "expired" ELSE Seen[r]
    BY <2>3 DEF Shown, Terminal
  <2>6. \A q \in Reliable : (IF q \in runs' THEN status'[q] ELSE Shown(row'[q]))
                               = IF q \in gone THEN "expired" ELSE Seen[q]
    <3> SUFFICES ASSUME NEW q \in Reliable
                 PROVE  (IF q \in runs' THEN status'[q] ELSE Shown(row'[q]))
                           = IF q \in gone THEN "expired" ELSE Seen[q]
      OBVIOUS
    <3>1. Seen[q] = IF q \in runs THEN status[q] ELSE Shown(row[q])
      BY ReliableRuns
    <3>2. CASE q = r
      <4>1. q \notin runs'
        BY <1>3, <3>2
      <4> QED
        BY <1>1, <2>5, <3>2, <4>1
    <3>3. CASE q # r
      <4>1. (q \in runs' <=> q \in runs) /\ q \notin gone
        BY <1>3, <3>3
      <4> QED
        BY <1>1, <3>1, <4>1
    <3> QED
      BY <3>2, <3>3
  <2>7. Seen' = [q \in Reliable |-> IF q \in gone THEN "expired" ELSE Seen[q]]
    BY <2>6, SeenIs
  <2>8. gone \in SUBSET Settled
    BY <2>4
  <2> HIDE DEF gone
  <2> QED
    BY <1>1, <2>4, <2>7, <2>8, AbstractSteps, InAbstractNext
<1> QED
  BY <1>1, <1>2, <1>3

LEMMA ExitRefines == ASSUME IInv, Exit PROVE AbstractStep
<1>1. /\ up /\ ~ up' /\ runs' = {} /\ jpc' = Everywhere("idle")
      /\ \E cancelled \in SUBSET {r \in Runs : spc = "returned" /\ status[r] \in Active} :
            row' = [r \in Runs |-> IF r \in cancelled THEN "cancelled" ELSE row[r]]
  BY DEF Exit
<1>2. Told' = {}
  BY <1>1 DEF Told, Everywhere, Reliable
<1>3. ASSUME NEW q \in Reliable
      PROVE  /\ Seen'[q] = Shown(row'[q])
             /\ row'[q] \in Rows
             /\ q \in Settled => row'[q] = row[q]
             /\ row'[q] = row[q] \/ row'[q] = "cancelled"
  <2>1. q \in Runs /\ Seen'[q] = Shown(row'[q])
    BY <1>1, SeenIs DEF Reliable
  <2>4. row[q] \in Rows
    BY <2>1 DEF IInv, TypeOK, Rows
  <2>2. /\ row[q] \in Rows
        /\ row'[q] = row[q] \/ (row'[q] = "cancelled" /\ status[q] \in Active)
    BY <1>1, <2>1, <2>4
  <2>3. q \in Settled => status[q] \notin Active
    BY ReliableRuns DEF Terminal
  <2> QED
    BY <2>1, <2>2, <2>3 DEF Rows, Terminal
<1>4. ASSUME NEW q \in Reliable, q \in Settled
      PROVE  q \in Settled' /\ Seen'[q] \in {Seen[q], "expired"}
  <2>1. row'[q] = row[q] /\ row[q] \in Terminal \cup {"pruned"}
        /\ Seen[q] = (IF q \in runs THEN status[q] ELSE Shown(row[q]))
    BY <1>3, <1>4, ReliableRuns
  <2>2. q \in runs => row[q] \in {status[q], "pruned"}
    BY <1>4, ReliableRuns DEF Terminal, Active
  <2> QED
    BY <1>3, <1>4, <2>1, <2>2 DEF Shown, Settled, Terminal
<1>5. ASSUME NEW q \in Reliable
      PROVE  /\ q \in Settled' <=> row'[q] \in Terminal \cup {"pruned"}
             /\ Seen'[q] \in Lifecycle!Phases \ {"queued"}
             /\ q \in Settled' /\ q \notin Settled => Seen'[q] \in Terminal
             /\ q \notin Settled' => Seen'[q] \in {"absent", "running"}
  <2>1. q \in Settled' <=> row'[q] \in Terminal \cup {"pruned"}
    BY <1>5 DEF Settled
  <2>2. Seen'[q] \in Lifecycle!Phases \ {"queued"}
    BY <1>3 DEF Shown, Rows, Terminal, Lifecycle!Phases, Lifecycle!Active, Lifecycle!Terminal
  <2>3. q \in Settled' /\ q \notin Settled => Seen'[q] \in Terminal
    BY <1>3, <1>5, <2>1 DEF Settled, Shown, Terminal
  <2>4. q \notin Settled' => Seen'[q] \in {"absent", "running"}
    BY <1>3, <2>1 DEF Rows, Shown
  <2> QED
    BY <2>1, <2>2, <2>3, <2>4
<1>6. Seen' \in [Reliable -> Lifecycle!Phases \ {"queued"}]
  BY <1>5, SeenIs
<1>7. Settled \subseteq Settled' /\ Settled' \subseteq Reliable /\ Settled \subseteq Reliable
  BY <1>4 DEF Settled
<1>8. Lifecycle!Terminal = Terminal
  BY DEF Lifecycle!Terminal, Terminal
<1>9. Lifecycle!Crash
  BY <1>1, <1>2, <1>4, <1>5, <1>6, <1>7, <1>8 DEF Lifecycle!Crash, Seen, Settled, Told
<1> QED
  BY <1>9, InAbstractNext

LEMMA BootRefines == ASSUME IInv, Boot PROVE AbstractStep
<1>1. /\ ~ up /\ up' /\ UNCHANGED <<runs, jpc>>
  BY DEF Boot, tables, clients
<1>2. Told' = Told
  BY <1>1 DEF Told
<1>3. /\ row \in [Runs -> Rows] /\ \A q \in Runs : q \notin runs
  <2>1. row \in [Runs -> Rows]
    BY DEF IInv, TypeOK, Rows
  <2>2. ASSUME NEW q \in Runs PROVE q \notin runs
    <3>1. TablesInv(q) /\ StatusInv(q) /\ status[q] = "absent"
      BY <1>1 DEF IInv, DownInv
    <3> QED
      BY <3>1 DEF TablesInv, StatusInv, TaskAlive
  <2> QED
    BY <2>1, <2>2
<1>4. PICK skipped \in SUBSET FaultyRuns :
         LET open  == {r \in Runs \ skipped : row[r] = "running"}
             swept == [r \in Runs |-> IF r \in open THEN "unexpected_error" ELSE row[r]]
         IN  IF open = {} THEN row' = row
             ELSE \E gone \in SUBSET Prunable(swept) : row' = Pruned(swept, gone)
  BY DEF Boot
<1> DEFINE swept == [r \in Runs |-> IF r \in Runs \ skipped /\ row[r] = "running"
                                    THEN "unexpected_error" ELSE row[r]]
<1>5. swept \in [Runs -> Rows]
  BY <1>3 DEF Rows, Terminal
<1>6. \A q \in Runs : row'[q] = swept[q] \/ (swept[q] \in Terminal /\ row'[q] = "pruned")
  <2> DEFINE open == {r \in Runs \ skipped : row[r] = "running"}
             other == [r \in Runs |-> IF r \in open THEN "unexpected_error" ELSE row[r]]
  <2>1. other = swept
    OBVIOUS
  <2>2. CASE open = {}
    <3>1. row' = row
      BY <1>4, <2>2
    <3>2. \A q \in Runs : swept[q] = row[q]
      BY <2>2
    <3> QED
      BY <3>1, <3>2
  <2>3. CASE open # {}
    <3>1. PICK gone \in SUBSET Prunable(other) : row' = Pruned(other, gone)
      BY <1>4, <2>3
    <3> HIDE DEF other, open, swept
    <3> QED
      BY <1>5, <2>1, <3>1, PrunedRow
  <2> QED
    BY <2>2, <2>3
<1> DEFINE opened == {r \in Reliable : Seen[r] = "running"}
           gone == {r \in Reliable : row'[r] = "pruned"}
<1>7. ASSUME NEW q \in Reliable
      PROVE  /\ Seen[q] = Shown(row[q]) /\ Seen'[q] = Shown(row'[q]) /\ row[q] \in Rows
             /\ row[q] = "running" => row'[q] \in {"unexpected_error", "pruned"}
             /\ row[q] # "running" =>
                  row'[q] = row[q] \/ (row[q] \in Terminal /\ row'[q] = "pruned")
             /\ q \in opened <=> row[q] = "running"
  <2>1. q \in Runs /\ q \notin skipped /\ q \notin runs /\ q \notin runs' /\ row[q] \in Rows
    BY <1>1, <1>3 DEF Reliable
  <2>2. Seen[q] = Shown(row[q]) /\ Seen'[q] = Shown(row'[q])
    BY <2>1, SeenIs
  <2>3. q \in opened <=> row[q] = "running"
    BY <2>1, <2>2 DEF Shown, Rows, Terminal
  <2>4. swept[q] = IF row[q] = "running" THEN "unexpected_error" ELSE row[q]
    BY <2>1
  <2> HIDE DEF swept, opened
  <2>5. row'[q] = swept[q] \/ (swept[q] \in Terminal /\ row'[q] = "pruned")
    BY <1>6, <2>1
  <2>6. /\ row[q] = "running" => row'[q] \in {"unexpected_error", "pruned"}
        /\ row[q] # "running" => row'[q] = row[q] \/ (row[q] \in Terminal /\ row'[q] = "pruned")
    BY <2>4, <2>5
  <2> QED
    BY <2>1, <2>2, <2>3, <2>6
<1> HIDE DEF swept
<1>8. Seen' = [q \in Reliable |-> IF q \in gone THEN "expired"
                                  ELSE IF q \in opened THEN "unexpected_error" ELSE Seen[q]]
  <2>1. ASSUME NEW q \in Reliable
        PROVE  Seen'[q] = IF q \in gone THEN "expired"
                          ELSE IF q \in opened THEN "unexpected_error" ELSE Seen[q]
    <3>1. q \in gone <=> row'[q] = "pruned"
      OBVIOUS
    <3> HIDE DEF gone, opened
    <3> QED
      BY <1>7, <3>1 DEF Shown
  <2>2. Seen' = [q \in Reliable |-> Seen'[q]]
    BY SeenIs
  <2> HIDE DEF gone, opened
  <2> QED
    BY <2>1, <2>2
<1>9. Settled' = Settled \cup opened
  <2>1. \A q \in Reliable : /\ q \in Settled' <=> row'[q] \in Terminal \cup {"pruned"}
                            /\ q \in Settled <=> row[q] \in Terminal \cup {"pruned"}
    BY DEF Settled
  <2>2. \A q \in Reliable : q \in Settled' <=> q \in Settled \/ q \in opened
    <3> HIDE DEF opened
    <3> QED
      BY <1>7, <2>1 DEF Terminal, Rows
  <2> QED
    BY <2>2 DEF Settled
<1>10. gone \in SUBSET (Settled \cup opened)
  <2> SUFFICES ASSUME NEW q \in gone PROVE q \in Settled \cup opened
    OBVIOUS
  <2>1. q \in Reliable /\ row'[q] = "pruned"
    OBVIOUS
  <2> HIDE DEF gone, opened
  <2> QED
    BY <1>7, <2>1 DEF Settled
<1> HIDE DEF gone
<1>11. Lifecycle!Recover
  BY <1>1, <1>2, <1>8, <1>9, <1>10 DEF Lifecycle!Recover, Seen, Settled, Told
<1> QED
  BY <1>11, InAbstractNext

LEMMA NextRefines == ASSUME IInv, IInv', [Next]_vars PROVE AbstractStep
<1>1. ASSUME NEW r \in Runs, Cancel(r) \/ NeverBegin(r) \/ StartHookDone(r)
                             \/ MarkNotCancellable(r) \/ Notify(r)
      PROVE  AbstractStep
  BY <1>1, HiddenSteps DEF Cancel, NeverBegin, StartHookDone, MarkNotCancellable, Notify,
     manager, tables, records, threads, history, clients
<1>2. ASSUME Shutdown \/ ShutdownStep \/ UNCHANGED vars PROVE AbstractStep
  BY <1>2, HiddenSteps DEF Shutdown, ShutdownStep, ShutdownTasks, ShutdownEvents, vars,
     manager, tables, records, threads, history, clients
<1>3. ASSUME NEW r \in Runs, ClientStep(r) PROVE AbstractStep
  BY <1>1, <1>3, StartRefines, JoinRefines DEF ClientStep
<1>4. ASSUME NEW r \in Runs, TaskStep(r) PROVE AbstractStep
  BY <1>1, <1>4, BeginRefines, OutcomeRefines, FinishDoneRefines, DropRefines DEF TaskStep
<1>5. ASSUME NEW r \in Runs, FinishStep(r) PROVE AbstractStep
  BY <1>5, FinishTaskRefines, FinishDoneRefines, DropRefines DEF FinishStep
<1>6. ASSUME NEW r \in Runs, ThreadStep(r) PROVE AbstractStep
  BY <1>1, <1>6, CreateRowRefines, RecordRowRefines DEF ThreadStep
<1> QED
  BY <1>1, <1>2, <1>3, <1>4, <1>5, <1>6, OutcomeRefines, ExitRefines, BootRefines DEF Next

LEMMA InitRefines == ASSUME Init PROVE Lifecycle!Init
<1>1. /\ up /\ runs = {} /\ row = Everywhere("none") /\ jpc = Everywhere("idle")
  BY DEF Init
<1>2. Seen = [r \in Reliable |-> "absent"]
  BY <1>1, SeenIs DEF Shown, Everywhere, Reliable
<1>3. Settled = {} /\ Told = {}
  BY <1>1 DEF Settled, Told, Everywhere, Terminal, Reliable
<1> QED
  BY <1>1, <1>2, <1>3 DEF Lifecycle!Init, Seen, Settled, Told

\* What clients see of the runs whose history statements succeed is a behaviour of
\* RunLifecycle, whatever the other runs, the callers and the process do.
THEOREM ManagerImplementsLifecycle == Spec => ImplementsLifecycle
<1>1. Init => Lifecycle!Init
  BY InitRefines
<1>2. IInv /\ IInv' /\ [Next]_vars => [Lifecycle!Next]_Lifecycle!vars
  BY NextRefines DEF AbstractStep
<1> QED
  BY <1>1, <1>2, InductiveInvariant, PTL DEF Spec, ImplementsLifecycle, Lifecycle!Spec
=============================================================================
