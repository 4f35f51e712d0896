----------------------------- MODULE RestoreProofs -----------------------------
(***************************************************************************)
(* Proofs about Restore for any number of restores, requests and restarts, *)
(* and any set of runs whose statements may fail.                          *)
(*                                                                         *)
(* Life says where the tasks of a run stand, whatever is in its row, which *)
(* three parties write.  LineInv and OrderInv are about the line of the    *)
(* registry: who waits, once each, and that the insertion of a restore is  *)
(* in front of every other call for it.  The others tell what the row, the *)
(* details, the record that the head of the line has read and the answers  *)
(* of requests have to do with the outcome of the run.  CancelInv, last,   *)
(* follows a requested cancellation to where it is raised.                 *)
(***************************************************************************)
EXTENDS Restore, SequenceTheorems, FunctionTheorems, FiniteSetTheorems, TLAPS

Active      == RM!Active
Terminal    == RM!Terminal
HookRunning == {"record", "notify", "done"}
TaskAlive   == {"created", "startHook", "operation", "finishing", "finishingCancelled",
                "returned", "cancelled"}
Waiting     == {"claim", "report", "error", "unwind", "replaced"}
Busy        == Waiting \cup {"command"}

\* The tables of the manager, the status and the hook of r fit the place of its tasks.
Life(r) ==
    /\ r \in tasks <=> pc[r] \in TaskAlive
    /\ r \in finishTasks <=> fpc[r] # "none"
    /\ r \in runs <=> r \in tasks \/ r \in finishTasks
    /\ r \in events <=> status[r] \in Active \/ hook[r] \in HookRunning
    /\ fpc[r] # "none" => pc[r] = "gone"
    /\ status[r] = "absent" <=> pc[r] = "none"
    /\ pc[r] = "created" => status[r] = "queued"
    /\ pc[r] \in {"startHook", "operation"} => status[r] = "running"
    /\ pc[r] \in {"finishing", "finishingCancelled", "returned"} => status[r] \in Terminal
    /\ pc[r] = "gone" /\ fpc[r] # "created" => status[r] \in Terminal
    /\ hook[r] \in {"create", "created"} <=> pc[r] = "startHook"
    /\ hook[r] \in HookRunning
          <=> pc[r] \in {"finishing", "finishingCancelled"} \/ fpc[r] = "finishing"
    /\ ~up => status[r] = "absent"
    /\ r \notin used => status[r] = "absent"

-----------------------------------------------------------------------------
(* The line.                                                                *)

InLine(l, c) == \E i \in DOMAIN l : l[i] = c
Once(l)      == \A i, j \in DOMAIN l : l[i] = l[j] => i = j

Waits(c) ==
    \/ c[1] = "start" /\ starter[c[2]] \in {"add", "discard"}
    \/ c[1] = "op" /\ op[c[2]].at \in Waiting
    \/ c[1] \in Requests /\ request[c[1]].at # "idle" /\ request[c[1]].run = c[2]

LineInv == Once(line) /\ \A c \in Callers : InLine(line, c) <=> Waits(c)

\* Nobody is in front of the insertion of a restore.
InFront(l, r) ==
    \A i, j \in DOMAIN l : l[i] = <<"start", r>> /\ l[j][2] = r => i <= j
OrderInv == \A r \in Runs : starter[r] = "add" => InFront(line, r)

-----------------------------------------------------------------------------
(* The places of a restore and of the requests.                             *)

OpInv(r) ==
    /\ op[r].at \in Busy <=> pc[r] = "operation"
    /\ pc[r] \in {"none", "created", "startHook"} => op[r].at = "none"
    /\ op[r].at = "ended" => r \notin pendingRestores
    /\ op[r].at = "replaced" => op[r].result = "unexpected"
    /\ op[r].at \in {"command", "report"} => starter[r] # "add"
    /\ starter[r] = "none" <=> status[r] = "absent"
    /\ starter[r] = "discard" => r \in failed
    /\ r \in overtaken => r \in used /\ status[r] \notin Active
    /\ r \notin used => row[r] = "none"
    /\ r \in details => row[r] \in Status

OrphanInv == \A o \in orphans : /\ op[o[1]].at \in {"unwind", "ended"}
                                /\ o[2] = "running" \/ o[1] \in overtaken

RequestInv(q) ==
    /\ request[q].at # "idle" => up /\ request[q].run \in used
    /\ request[q].at = "settle" => /\ request[q].status \in Terminal
                                   /\ status[request[q].run] \notin Active

-----------------------------------------------------------------------------
(* The desk: what the head of the line has done.                            *)

DeskInv ==
    /\ line = <<>> => desk = NoCall
    /\ desk.stage = "open" => desk = NoCall
    /\ line # <<>> =>
         LET c == Head(line)  r == c[2]
         IN  /\ desk.result = "error" => desk.stage = "done" /\ r \in failed
             /\ desk.result = "missing" =>
                  desk.stage = "done" /\ c[1] # "start" /\ (c[1] = "op" => r \in failed)
             /\ desk.stage = "read" => /\ c[1] # "start" /\ ~Looks(c) /\ desk.result = "ok"
                                       /\ desk.found \in Status
                                       /\ c[1] = "op" /\ r \notin failed => desk.found = "running"
             /\ desk.stage = "done" /\ desk.result = "ok" /\ Looks(c) => desk.found \in Status

-----------------------------------------------------------------------------
(* The row, the details and the answers.                                    *)

Inserted(r) == starter[r] = "add" => Served(<<"start", r>>)

\* The operation's last update has written the outcome that it will return.
Reported(r) == op[r].at \in {"error", "replaced"} /\ Served(<<"op", r>>)

\* What the head has read of r.
HasRead(r, st) ==
    /\ line # <<>> /\ Head(line)[2] = r /\ Looks(Head(line))
    /\ desk.stage = "done" /\ desk.result = "ok" /\ desk.found = st

\* Runs whose statements did not fail.
SoundInv(r) ==
    /\ status[r] \in Active /\ pc[r] # "operation" => row[r] \in {"none", "running"}
    /\ hook[r] = "created" \/ op[r].at \in Busy =>
          \/ row[r] = "running"
          \/ Reported(r) /\ row[r] \in {RM!Outcome(r, op[r].result), "pruned"}

\* And whose outcome overtook no call of the registry.
KeptInv(r) == starter[r] # "none" /\ Inserted(r) => r \in details \/ row[r] = "pruned"

RowInv(r) ==
    row[r] \in Terminal =>
       \/ status[r] \in {row[r], "absent"}
       \/ Reported(r) /\ row[r] = RM!Outcome(r, op[r].result)

RecordedInv(r) ==
    status[r] \in Terminal /\ hook[r] # "record" =>
       /\ row[r] \in {status[r], "pruned"}
       /\ Inserted(r)
       /\ \A o \in orphans : o[1] # r
       /\ ~HasRead(r, "running")

\* A run of this process: its status is what everybody reports.
LiveInv(r) ==
    status[r] # "absent" =>
       /\ told[r] \subseteq {status[r]}
       /\ \A st \in Terminal : HasRead(r, st) => status[r] = st
       /\ \A q \in Requests : request[q].at = "settle" /\ request[q].run = r
                                 => request[q].status = status[r]

\* A run of an earlier process: its row is.
PastInv(r) ==
    status[r] = "absent" =>
       /\ \A s, t \in told[r] : s = t
       /\ told[r] # {} => row[r] \in told[r] \cup {"pruned"}
       /\ \A st \in Terminal : HasRead(r, st) => /\ told[r] \subseteq {st}
                                                 /\ row[r] \in {st, "pruned"}
       /\ HasRead(r, "running") => row[r] = "running"
       /\ \A q \in Requests : request[q].at = "settle" /\ request[q].run = r =>
             /\ request[q].status = "unexpected_error"
             /\ row[r] \in {"running", "unexpected_error", "pruned"}
             /\ told[r] \subseteq {"unexpected_error"}
             /\ \A st \in Terminal : HasRead(r, st) => st = "unexpected_error"
             /\ Served(<<q, r>>) /\ desk.result = "ok" =>
                   row[r] \in {"unexpected_error", "pruned"}

TruthInv(r) ==
    /\ r \notin failed => SoundInv(r)
    /\ r \notin failed \cup overtaken => KeptInv(r) /\ RowInv(r) /\ RecordedInv(r)

AnswerInv(r) ==
    /\ told[r] # {} => up /\ r \in used
    /\ r \notin failed \cup overtaken => LiveInv(r) /\ PastInv(r)

IInv == /\ TypeOK
        /\ \A r \in Runs : Life(r) /\ OpInv(r) /\ TruthInv(r) /\ AnswerInv(r)
        /\ LineInv /\ OrderInv
        /\ OrphanInv /\ DeskInv
        /\ \A q \in Requests : RequestInv(q)


ManagerOK == RM!TypeOK /\ \A r \in Runs : Life(r)

\* Steps of the manager in which no outcome appears, and which write nothing.
Quiet ==
    /\ UNCHANGED <<up, used, row>>
    /\ \A q \in Runs :
         /\ status'[q] = status[q] \/ {status[q], status'[q]} \subseteq Active
         /\ pc'[q] = "operation" <=> pc[q] = "operation"
         /\ pc'[q] \in {"none", "created", "startHook"}
                => pc[q] \in {"none", "created", "startHook"}
         /\ hook'[q] = "record" <=> hook[q] = "record"
         /\ hook'[q] = "created" <=> hook[q] = "created"

\* The run r gets the outcome st, and nothing else changes that the registry looks at.
Ending(r, st) ==
    /\ UNCHANGED <<up, used, row>>
    /\ st \in Terminal /\ status' = [status EXCEPT ![r] = st]
    /\ pc'[r] # "operation" /\ pc'[r] \notin {"none", "created", "startHook"}
    /\ hook'[r] = "record"
    /\ \A q \in Runs \ {r} : pc'[q] = pc[q] /\ hook'[q] = hook[q]

LEMMA StartFrame ==
    ASSUME ManagerOK, NEW r \in Runs, RM!Start(r)
    PROVE  /\ ManagerOK'
           /\ up /\ r \notin used /\ used' = used \cup {r}
           /\ status' = [status EXCEPT ![r] = "queued"] /\ pc' = [pc EXCEPT ![r] = "created"]
           /\ UNCHANGED <<up, hook, row>>
<1>1. RM!TypeOK'
  BY DEF ManagerOK, RM!TypeOK, RM!Start, RM!history, RM!clients, RM!Active
<1>2. ASSUME NEW q \in Runs PROVE Life(q)'
  BY DEF ManagerOK, RM!TypeOK, RM!Start, Life, TaskAlive, Active, RM!Active, HookRunning
<1>3. /\ up /\ r \notin used /\ used' = used \cup {r}
      /\ status' = [status EXCEPT ![r] = "queued"] /\ pc' = [pc EXCEPT ![r] = "created"]
      /\ UNCHANGED <<up, hook, row>>
  BY DEF RM!Start, RM!history
<1> QED
  BY <1>1, <1>2, <1>3 DEF ManagerOK

LEMMA CancelFrame == ASSUME ManagerOK, NEW r \in Runs, RM!Cancel(r) PROVE ManagerOK' /\ Quiet
<1>1. RM!TypeOK'
  BY DEF ManagerOK, RM!TypeOK, RM!Cancel, RM!CancelTasks, RM!manager, RM!records, RM!history,
         RM!clients
<1>2. ASSUME NEW q \in Runs PROVE Life(q)'
  BY DEF ManagerOK, RM!Cancel, RM!CancelTasks, RM!manager, RM!records, Life
<1>3. Quiet
  BY DEF RM!Cancel, RM!manager, RM!records, RM!history, Quiet
<1> QED
  BY <1>1, <1>2, <1>3 DEF ManagerOK

LEMMA BeginFrame == ASSUME ManagerOK, NEW r \in Runs, RM!Begin(r) PROVE ManagerOK' /\ Quiet
<1>1. RM!TypeOK'
  BY DEF ManagerOK, RM!TypeOK, RM!Begin, RM!manager, RM!tables, RM!history, RM!clients,
         RM!Active
<1>2. ASSUME NEW q \in Runs PROVE Life(q)'
  BY DEF ManagerOK, RM!TypeOK, RM!Begin, RM!manager, RM!tables, Life, TaskAlive, Active,
         RM!Active, HookRunning
<1>3. Quiet
  BY DEF ManagerOK, RM!TypeOK, RM!Begin, RM!manager, RM!history, Life, HookRunning, Active,
         RM!Active, Quiet
<1> QED
  BY <1>1, <1>2, <1>3 DEF ManagerOK

LEMMA NeverBeginFrame ==
    ASSUME ManagerOK, NEW r \in Runs, RM!NeverBegin(r)
    PROVE  ManagerOK' /\ Quiet
<1>1. RM!TypeOK'
  BY DEF ManagerOK, RM!TypeOK, RM!NeverBegin, RM!manager, RM!tables, RM!records, RM!history,
         RM!clients
<1>2. ASSUME NEW q \in Runs PROVE Life(q)'
  BY DEF ManagerOK, RM!TypeOK, RM!NeverBegin, RM!manager, RM!tables, RM!records, Life,
         TaskAlive
<1>3. Quiet
  BY DEF ManagerOK, RM!TypeOK, RM!NeverBegin, RM!manager, RM!records, RM!history, Quiet
<1> QED
  BY <1>1, <1>2, <1>3 DEF ManagerOK

LEMMA StartHookDoneFrame ==
    ASSUME ManagerOK, NEW r \in Runs, RM!StartHookDone(r)
    PROVE  /\ ManagerOK'
           /\ pc[r] = "startHook" /\ hook[r] = "created" /\ pc'[r] \in {"operation", "cancelled"}
           /\ hook'[r] = "none"
           /\ \A q \in Runs \ {r} : pc'[q] = pc[q] /\ hook'[q] = hook[q]
           /\ up /\ UNCHANGED <<up, used, status, row>>
<1>1. RM!TypeOK'
  BY DEF ManagerOK, RM!TypeOK, RM!StartHookDone, RM!manager, RM!tables, RM!records,
         RM!history, RM!clients
<1>2. ASSUME NEW q \in Runs PROVE Life(q)'
  BY DEF ManagerOK, RM!TypeOK, RM!StartHookDone, RM!manager, RM!tables, RM!records, Life,
         TaskAlive, HookRunning
<1>3. /\ pc[r] = "startHook" /\ hook[r] = "created" /\ pc'[r] \in {"operation", "cancelled"}
      /\ hook'[r] = "none"
      /\ \A q \in Runs \ {r} : pc'[q] = pc[q] /\ hook'[q] = hook[q]
      /\ up /\ UNCHANGED <<up, used, status, row>>
  BY DEF ManagerOK, RM!TypeOK, RM!StartHookDone, RM!manager, RM!records, RM!history
<1> QED
  BY <1>1, <1>2, <1>3 DEF ManagerOK

LEMMA MarkNotCancellableFrame ==
    ASSUME ManagerOK, NEW r \in Runs, RM!MarkNotCancellable(r)
    PROVE  ManagerOK' /\ up /\ pc[r] = "operation" /\ UNCHANGED <<up, used, status, pc, hook, row>>
<1>1. RM!TypeOK'
  BY DEF ManagerOK, RM!TypeOK, RM!MarkNotCancellable, RM!manager, RM!tables, RM!threads,
         RM!history, RM!clients
<1>2. ASSUME NEW q \in Runs PROVE Life(q)'
  BY DEF ManagerOK, RM!MarkNotCancellable, RM!manager, RM!tables, RM!threads, Life
<1>3. up /\ pc[r] = "operation" /\ UNCHANGED <<up, used, status, pc, hook, row>>
  BY DEF RM!MarkNotCancellable, RM!manager, RM!threads, RM!history
<1> QED
  BY <1>1, <1>2, <1>3 DEF ManagerOK

\* An operation is over, by itself or cancelled.
LEMMA OutcomeFrame ==
    ASSUME ManagerOK, NEW r \in Runs, NEW st \in Terminal, NEW place,
           up, pc[r] = "operation", RM!SetOutcome(r, st),
           place \in {"finishing", "finishingCancelled"}, pc' = [pc EXCEPT ![r] = place],
           pending' \subseteq pending,
           UNCHANGED <<RM!manager, RM!tables, cancellable, fpc, RM!history, RM!clients>>
    PROVE  ManagerOK' /\ Ending(r, st)
<1>1. RM!TypeOK'
  BY DEF ManagerOK, RM!TypeOK, RM!SetOutcome, RM!manager, RM!tables, RM!history, RM!clients,
         Terminal
<1>2. ASSUME NEW q \in Runs PROVE Life(q)'
  BY DEF ManagerOK, RM!TypeOK, RM!SetOutcome, RM!manager, RM!tables, Life, TaskAlive, Active,
         Terminal, RM!Active, RM!Terminal, HookRunning
<1>3. Ending(r, st)
  BY DEF ManagerOK, RM!TypeOK, RM!SetOutcome, RM!manager, RM!history, Ending
<1> QED
  BY <1>1, <1>2, <1>3 DEF ManagerOK

LEMMA Outcomes == ASSUME NEW r, NEW result \in RM!Results PROVE RM!Outcome(r, result) \in Terminal
BY DEF RM!Results, RM!Outcome, RM!Terminal, Terminal

LEMMA OperationEndsFrame ==
    ASSUME ManagerOK, NEW r \in Runs, RM!OperationEnds(r)
    PROVE  ManagerOK' /\ pc[r] = "operation" /\ Ending(r, status'[r])
<1>1. PICK result \in RM!Results : RM!SetOutcome(r, RM!Outcome(r, result))
  BY DEF RM!OperationEnds
<1>2. /\ up /\ pc[r] = "operation" /\ pc' = [pc EXCEPT ![r] = "finishing"]
      /\ pending' = pending
      /\ UNCHANGED <<RM!manager, RM!tables, cancellable, fpc, RM!history, RM!clients>>
  BY DEF RM!OperationEnds
<1>3. ManagerOK' /\ Ending(r, RM!Outcome(r, result))
  BY <1>1, <1>2, Outcomes, OutcomeFrame
<1>4. status'[r] = RM!Outcome(r, result)
  BY <1>1 DEF ManagerOK, RM!TypeOK, RM!SetOutcome
<1> QED
  BY <1>2, <1>3, <1>4

LEMMA OperationCancelledFrame ==
    ASSUME ManagerOK, NEW r \in Runs, RM!OperationCancelled(r), NEW st, st = status'[r]
    PROVE  ManagerOK' /\ pc[r] = "operation" /\ Ending(r, st)
<1>1. /\ up /\ pc[r] = "operation" /\ pending' \subseteq pending
      /\ UNCHANGED <<RM!manager, RM!tables, cancellable, fpc, RM!history, RM!clients>>
  BY DEF RM!OperationCancelled
<1>2. PICK end \in {"cancelled", "unexpected_error"},
           place \in {"finishing", "finishingCancelled"} :
         RM!SetOutcome(r, end) /\ pc' = [pc EXCEPT ![r] = place]
  BY DEF RM!OperationCancelled
<1>3. end \in Terminal
  BY DEF Terminal, RM!Terminal
<1>4. st = end
  BY <1>2 DEF ManagerOK, RM!TypeOK, RM!SetOutcome
<1> QED
  BY <1>1, <1>2, <1>3, <1>4, OutcomeFrame

LEMMA FinishDoneFrame ==
    ASSUME ManagerOK, NEW r \in Runs, RM!FinishDone(r)
    PROVE  ManagerOK' /\ Quiet
<1>1. RM!TypeOK'
  BY DEF ManagerOK, RM!TypeOK, RM!FinishDone, RM!AfterDrop, RM!manager, RM!records,
         RM!history, RM!clients
<1>2. ASSUME NEW q \in Runs PROVE Life(q)'
  BY DEF ManagerOK, RM!TypeOK, RM!FinishDone, RM!AfterDrop, RM!manager, RM!records, Life,
         TaskAlive, HookRunning, Active, Terminal, RM!Active, RM!Terminal
<1>3. Quiet
  BY DEF ManagerOK, RM!TypeOK, RM!FinishDone, RM!manager, RM!records, RM!history, Quiet
<1> QED
  BY <1>1, <1>2, <1>3 DEF ManagerOK

LEMMA TaskDoneFrame == ASSUME ManagerOK, NEW r \in Runs, RM!TaskDone(r) PROVE ManagerOK' /\ Quiet
<1>1. RM!TypeOK'
  BY DEF ManagerOK, RM!TypeOK, RM!TaskDone, RM!AfterDrop, RM!manager, RM!records, RM!history,
         RM!clients
<1>2. ASSUME NEW q \in Runs PROVE Life(q)'
  BY DEF ManagerOK, RM!TypeOK, RM!TaskDone, RM!AfterDrop, RM!manager, RM!records, Life,
         TaskAlive, Active, Terminal, RM!Active, RM!Terminal, HookRunning
<1>3. Quiet
  BY DEF ManagerOK, RM!TypeOK, RM!TaskDone, RM!manager, RM!records, RM!history, Quiet
<1> QED
  BY <1>1, <1>2, <1>3 DEF ManagerOK

LEMMA FinishTaskRunsFrame ==
    ASSUME ManagerOK, NEW r \in Runs, RM!FinishTaskRuns(r)
    PROVE  /\ ManagerOK' /\ pc[r] = "gone"
           /\ Quiet \/ (status[r] \in Active /\ Ending(r, "cancelled"))
<1>1. RM!TypeOK'
  BY DEF ManagerOK, RM!TypeOK, RM!FinishTaskRuns, RM!AfterDrop, RM!SetOutcome, RM!manager,
         RM!history, RM!clients, RM!Terminal
<1>2. ASSUME NEW q \in Runs PROVE Life(q)'
  BY DEF ManagerOK, RM!TypeOK, RM!FinishTaskRuns, RM!AfterDrop, RM!SetOutcome, RM!manager,
         Life, Active, Terminal, RM!Active, RM!Terminal, HookRunning
<1>3. pc[r] = "gone"
  BY DEF ManagerOK, RM!FinishTaskRuns, Life
<1>4. ASSUME status[r] \in RM!Active PROVE status[r] \in Active /\ Ending(r, "cancelled")
  BY <1>3, <1>4 DEF ManagerOK, RM!TypeOK, RM!FinishTaskRuns, RM!SetOutcome, RM!manager,
         RM!history, Active, Terminal, RM!Terminal, Ending
<1>5. ASSUME status[r] \notin RM!Active PROVE Quiet
  BY <1>5 DEF RM!FinishTaskRuns, RM!manager, RM!history, Quiet
<1> QED
  BY <1>1, <1>2, <1>3, <1>4, <1>5 DEF ManagerOK

LEMMA FinishTaskHookDoneFrame ==
    ASSUME ManagerOK, NEW r \in Runs, RM!FinishTaskHookDone(r)
    PROVE  ManagerOK' /\ Quiet
<1>1. RM!TypeOK'
  BY DEF ManagerOK, RM!TypeOK, RM!FinishTaskHookDone, RM!AfterDrop, RM!manager, RM!records,
         RM!history, RM!clients
<1>2. ASSUME NEW q \in Runs PROVE Life(q)'
  BY DEF ManagerOK, RM!TypeOK, RM!FinishTaskHookDone, RM!AfterDrop, RM!manager, RM!records,
         Life, HookRunning, Active, Terminal, RM!Active, RM!Terminal
<1>3. Quiet
  BY DEF ManagerOK, RM!TypeOK, RM!FinishTaskHookDone, RM!manager, RM!records, RM!history, Quiet
<1> QED
  BY <1>1, <1>2, <1>3 DEF ManagerOK

LEMMA FinishTaskDoneFrame ==
    ASSUME ManagerOK, NEW r \in Runs, RM!FinishTaskDone(r)
    PROVE  ManagerOK' /\ Quiet
<1>1. RM!TypeOK'
  BY DEF ManagerOK, RM!TypeOK, RM!FinishTaskDone, RM!AfterDrop, RM!manager, RM!records,
         RM!history, RM!clients
<1>2. ASSUME NEW q \in Runs PROVE Life(q)'
  BY DEF ManagerOK, RM!TypeOK, RM!FinishTaskDone, RM!AfterDrop, RM!manager, RM!records, Life,
         TaskAlive, Active, Terminal, RM!Active, RM!Terminal, HookRunning
<1>3. Quiet
  BY DEF RM!FinishTaskDone, RM!manager, RM!records, RM!history, Quiet
<1> QED
  BY <1>1, <1>2, <1>3 DEF ManagerOK

LEMMA NotifyFrame == ASSUME ManagerOK, NEW r \in Runs, RM!Notify(r) PROVE ManagerOK' /\ Quiet
<1>1. RM!TypeOK'
  BY DEF ManagerOK, RM!TypeOK, RM!Notify, RM!manager, RM!tables, RM!records, RM!clients
<1>2. ASSUME NEW q \in Runs PROVE Life(q)'
  BY DEF ManagerOK, RM!TypeOK, RM!Notify, RM!manager, RM!tables, RM!records, Life, HookRunning
<1>3. Quiet
  BY DEF ManagerOK, RM!TypeOK, RM!Notify, RM!manager, RM!records, Quiet
<1> QED
  BY <1>1, <1>2, <1>3 DEF ManagerOK

LEMMA ShutdownFrame == ASSUME ManagerOK, RM!Shutdown \/ RM!ShutdownStep PROVE ManagerOK' /\ Quiet
<1>1. CASE RM!Shutdown
  <2>1. RM!TypeOK'
    BY <1>1 DEF ManagerOK, RM!TypeOK, RM!Shutdown, RM!CancelTasks, RM!records, RM!history
  <2>2. ASSUME NEW q \in Runs PROVE Life(q)'
    BY <1>1 DEF ManagerOK, RM!Shutdown, RM!CancelTasks, RM!records, Life
  <2>3. Quiet
    BY <1>1 DEF RM!Shutdown, RM!records, RM!history, Quiet
  <2> QED
    BY <2>1, <2>2, <2>3 DEF ManagerOK
<1>2. CASE RM!ShutdownStep
  <2>1. RM!TypeOK'
    BY <1>2 DEF ManagerOK, RM!TypeOK, RM!ShutdownStep, RM!ShutdownTasks, RM!ShutdownEvents,
           RM!manager, RM!tables, RM!records, RM!threads, RM!history
  <2>2. ASSUME NEW q \in Runs PROVE Life(q)'
    BY <1>2 DEF ManagerOK, RM!ShutdownStep, RM!ShutdownTasks, RM!ShutdownEvents, RM!manager,
           RM!tables, RM!records, RM!threads, Life
  <2>3. Quiet
    BY <1>2 DEF RM!ShutdownStep, RM!ShutdownTasks, RM!ShutdownEvents, RM!manager, RM!records,
           RM!threads, RM!history, Quiet
  <2> QED
    BY <2>1, <2>2, <2>3 DEF ManagerOK
<1> QED
  BY <1>1, <1>2

\* The values of the table `runs`.
Rows == {"none", "running", "pruned"} \cup Terminal

\* A statement for another row does no more to the row of q than prune it.
PrunedAtMost(q) == row'[q] = row[q] \/ (row[q] \in Terminal /\ row'[q] = "pruned")

\* Pruning touches terminal rows only.
LEMMA PrunedTable ==
    ASSUME NEW table \in [Runs -> Rows], NEW gone \in SUBSET RM!Prunable(table)
    PROVE  /\ RM!Pruned(table, gone) \in [Runs -> Rows]
           /\ \A q \in Runs :
                 \/ q \notin gone /\ RM!Pruned(table, gone)[q] = table[q]
                 \/ q \in gone /\ table[q] \in Terminal /\ RM!Pruned(table, gone)[q] = "pruned"
<1>1. \A q \in gone : q \in Runs /\ table[q] \in Terminal
  BY DEF RM!Prunable, Terminal
<1>2. \A q \in Runs : RM!Pruned(table, gone)[q] = IF q \in gone THEN "pruned" ELSE table[q]
  BY DEF RM!Pruned
<1>3. RM!Pruned(table, gone) \in [Runs -> Rows]
  BY DEF RM!Pruned, Rows
<1> QED
  BY <1>1, <1>2, <1>3

\* An upsert writes the row of r, and prunes others at most.
LEMMA UpsertFrame ==
    ASSUME row \in [Runs -> Rows], NEW r \in Runs, NEW st \in Status, Upsert(r, st)
    PROVE  /\ row' \in [Runs -> Rows] /\ row'[r] = st
           /\ \A q \in Runs \ {r} : PrunedAtMost(q)
           /\ details' = {q \in details \cup {r} : row'[q] \in Status}
<1> DEFINE written == [row EXCEPT ![r] = st]
<1>1. written \in [Runs -> Rows] /\ written[r] = st /\ \A q \in Runs \ {r} : written[q] = row[q]
  BY DEF Status, Rows, Terminal
<1>2. PICK gone \in SUBSET (RM!Prunable(written) \ {r}) : row' = RM!Pruned(written, gone)
  BY DEF Upsert
<1>3. details' = {q \in details \cup {r} : row'[q] \in Status}
  BY DEF Upsert, Cascade
<1> HIDE DEF written
<1>4. gone \in SUBSET RM!Prunable(written) /\ r \notin gone
  BY <1>2
<1> QED
  BY <1>1, <1>2, <1>3, <1>4, PrunedTable DEF PrunedAtMost

LEMMA CreateRowFrame ==
    ASSUME ManagerOK, NEW r \in Runs, RM!CreateRow(r)
    PROVE  /\ ManagerOK' /\ pc[r] = "startHook" /\ hook' = [hook EXCEPT ![r] = "created"]
           /\ up /\ UNCHANGED <<up, used, status, pc>>
           /\ row' = [row EXCEPT ![r] = "running"] \/ row' = row
<1>1. row' = [row EXCEPT ![r] = "running"] \/ row' = row
  BY DEF RM!CreateRow
<1>2. RM!TypeOK'
  BY <1>1 DEF ManagerOK, RM!TypeOK, RM!CreateRow, RM!manager, RM!tables, RM!records, RM!clients
<1>3. ASSUME NEW q \in Runs PROVE Life(q)'
  BY DEF ManagerOK, RM!TypeOK, RM!CreateRow, RM!manager, RM!tables, RM!records, Life,
         HookRunning
<1>4. pc[r] = "startHook"
  BY DEF ManagerOK, RM!CreateRow, Life
<1>5. hook' = [hook EXCEPT ![r] = "created"] /\ up /\ UNCHANGED <<up, used, status, pc>>
  BY DEF RM!CreateRow, RM!manager, RM!records
<1> QED
  BY <1>1, <1>2, <1>3, <1>4, <1>5 DEF ManagerOK

LEMMA RecordRowFrame ==
    ASSUME ManagerOK, NEW r \in Runs, RM!RecordRow(r)
    PROVE  /\ ManagerOK' /\ hook[r] = "record" /\ hook' = [hook EXCEPT ![r] = "notify"]
           /\ status[r] \in Terminal
           /\ up /\ UNCHANGED <<up, used, status, pc>>
           /\ \A q \in Runs \ {r} : PrunedAtMost(q)
           /\ row'[r] \in {status[r], "pruned"} \/ row' = row
<1>1. /\ hook[r] = "record" /\ hook' = [hook EXCEPT ![r] = "notify"]
      /\ up /\ UNCHANGED <<up, used, status, pc>>
  BY DEF RM!RecordRow, RM!manager, RM!records
<1>2. status[r] \in Terminal
  BY <1>1 DEF ManagerOK, RM!TypeOK, Life, HookRunning
<1>3. /\ row' \in [Runs -> Rows]
      /\ \A q \in Runs \ {r} : PrunedAtMost(q)
      /\ row'[r] \in {status[r], "pruned"} \/ row' = row
  <2> DEFINE written == [row EXCEPT ![r] = status[r]]
  <2>1. row \in [Runs -> Rows]
    BY DEF ManagerOK, RM!TypeOK, Rows, Terminal
  <2>2. /\ written \in [Runs -> Rows] /\ written[r] = status[r]
        /\ \A q \in Runs \ {r} : written[q] = row[q]
    BY <1>2, <2>1 DEF Rows
  <2>3. CASE \E gone \in SUBSET RM!Prunable(written) : row' = RM!Pruned(written, gone)
    <3> HIDE DEF written
    <3>1. PICK gone \in SUBSET RM!Prunable(written) : row' = RM!Pruned(written, gone)
      BY <2>3
    <3> QED
      BY <2>2, <3>1, PrunedTable DEF PrunedAtMost
  <2>4. CASE row' = row
    BY <2>1, <2>4 DEF PrunedAtMost
  <2> QED
    BY <2>3, <2>4 DEF RM!RecordRow
<1>4. RM!TypeOK'
  BY <1>3 DEF ManagerOK, RM!TypeOK, RM!RecordRow, RM!manager, RM!tables, RM!records,
              RM!clients, Rows, Terminal
<1>5. ASSUME NEW q \in Runs PROVE Life(q)'
  BY DEF ManagerOK, RM!TypeOK, RM!RecordRow, RM!manager, RM!tables, RM!records, Life,
         HookRunning
<1> QED
  BY <1>1, <1>2, <1>3, <1>4, <1>5 DEF ManagerOK

LEMMA ExitFrame ==
    ASSUME ManagerOK, RM!Exit
    PROVE  /\ ManagerOK' /\ ~up' /\ used' = used
           /\ \A q \in Runs : status'[q] = "absent" /\ pc'[q] = "none" /\ hook'[q] = "none"
           /\ \A q \in Runs : \/ row'[q] = row[q]
                              \/ status[q] \in Active /\ row'[q] = "cancelled"
<1>1. /\ row' \in [Runs -> Rows]
      /\ \A q \in Runs : row'[q] = row[q] \/ (status[q] \in Active /\ row'[q] = "cancelled")
  <2>1. row \in [Runs -> Rows] /\ "cancelled" \in Rows
    BY DEF ManagerOK, RM!TypeOK, Rows, Terminal, RM!Terminal
  <2> QED
    BY <2>1 DEF RM!Exit, Active
<1>2. RM!TypeOK'
  BY <1>1 DEF ManagerOK, RM!TypeOK, RM!Exit, RM!Everywhere, Rows, Terminal
<1>3. ASSUME NEW q \in Runs PROVE Life(q)'
  BY DEF RM!Exit, RM!Everywhere, Life, TaskAlive, HookRunning, Active, RM!Active
<1>4. /\ ~up' /\ used' = used
      /\ \A q \in Runs : status'[q] = "absent" /\ pc'[q] = "none" /\ hook'[q] = "none"
  BY DEF RM!Exit, RM!Everywhere
<1> QED
  BY <1>1, <1>2, <1>3, <1>4 DEF ManagerOK

\* What the sweep of a new process does to a row.
Swept(q) == \/ PrunedAtMost(q)
            \/ row[q] = "running" /\ row'[q] \in {"unexpected_error", "pruned"}

LEMMA BootFrame ==
    ASSUME ManagerOK, RM!Boot
    PROVE  /\ ManagerOK' /\ ~up /\ UNCHANGED <<used, status, pc, hook>>
           /\ \A q \in Runs : Swept(q)
<1>1. /\ ~up /\ up' /\ boots' = boots + 1
      /\ UNCHANGED <<used, stopping, RM!tables, RM!records, RM!threads, notified, RM!clients>>
  BY DEF RM!Boot
<1>2. row \in [Runs -> Rows]
  BY DEF ManagerOK, RM!TypeOK, Rows, Terminal
<1>3. row' \in [Runs -> Rows] /\ \A q \in Runs : Swept(q)
  <2>1. CASE row' = row
    BY <1>2, <2>1 DEF Swept, PrunedAtMost
  <2>2. CASE \E open \in SUBSET Runs :
                LET swept == [q \in Runs |-> IF q \in open THEN "unexpected_error" ELSE row[q]]
                IN  /\ \A q \in open : row[q] = "running"
                    /\ \E gone \in SUBSET RM!Prunable(swept) : row' = RM!Pruned(swept, gone)
    <3>1. PICK open \in SUBSET Runs :
             LET swept == [q \in Runs |-> IF q \in open THEN "unexpected_error" ELSE row[q]]
             IN  /\ \A q \in open : row[q] = "running"
                 /\ \E gone \in SUBSET RM!Prunable(swept) : row' = RM!Pruned(swept, gone)
      BY <2>2
    <3> DEFINE swept == [q \in Runs |-> IF q \in open THEN "unexpected_error" ELSE row[q]]
    <3>2. \A q \in Runs : swept[q] = IF q \in open THEN "unexpected_error" ELSE row[q]
      OBVIOUS
    <3>3. swept \in [Runs -> Rows]
      BY <1>2 DEF Rows, Terminal, RM!Terminal
    <3> HIDE DEF swept
    <3>4. PICK gone \in SUBSET RM!Prunable(swept) : row' = RM!Pruned(swept, gone)
      BY <3>1 DEF swept
    <3> QED
      BY <3>1, <3>2, <3>3, <3>4, PrunedTable DEF Swept, PrunedAtMost
  <2>3. row' = row \/ \E open \in SUBSET Runs :
           LET swept == [q \in Runs |-> IF q \in open THEN "unexpected_error" ELSE row[q]]
           IN  /\ \A q \in open : row[q] = "running"
               /\ \E gone \in SUBSET RM!Prunable(swept) : row' = RM!Pruned(swept, gone)
    <3>1. PICK skipped \in SUBSET FaultyRuns :
             LET open  == {q \in Runs \ skipped : row[q] = "running"}
                 swept == [q \in Runs |-> IF q \in open THEN "unexpected_error" ELSE row[q]]
             IN  IF open = {} THEN row' = row
                 ELSE \E gone \in SUBSET RM!Prunable(swept) : row' = RM!Pruned(swept, gone)
      BY DEF RM!Boot
    <3> DEFINE open == {q \in Runs \ skipped : row[q] = "running"}
    <3>2. open \in SUBSET Runs /\ \A q \in open : row[q] = "running"
      OBVIOUS
    <3> QED
      BY <3>1, <3>2
  <2> QED
    BY <2>1, <2>2, <2>3
<1>4. RM!TypeOK'
  BY <1>1, <1>3 DEF ManagerOK, RM!TypeOK, RM!tables, RM!records, RM!threads, RM!clients, Rows,
                    Terminal
<1>5. ASSUME NEW q \in Runs PROVE Life(q)'
  BY <1>1 DEF ManagerOK, RM!tables, RM!records, RM!threads, Life
<1> QED
  BY <1>1, <1>3, <1>4, <1>5 DEF ManagerOK, RM!records, RM!threads

-----------------------------------------------------------------------------
(* The line grows at its end, and loses callers anywhere.                   *)

LEMMA LineDomain ==
    ASSUME NEW l \in Seq(Callers)
    PROVE  Len(l) \in Nat /\ DOMAIN l = 1 .. Len(l) /\ \A i \in DOMAIN l : l[i] \in Callers
<1>1. Len(l) \in Nat /\ DOMAIN l = 1 .. Len(l)
  BY LenProperties
<1> QED
  BY <1>1, ElementOfSeq

LEMMA HeadOfLine ==
    ASSUME NEW l \in Seq(Callers), l # <<>>
    PROVE  1 \in DOMAIN l /\ Head(l) = l[1] /\ Head(l) \in Callers /\ InLine(l, Head(l))
<1>1. Len(l) \in Nat /\ DOMAIN l = 1 .. Len(l) /\ \A i \in DOMAIN l : l[i] \in Callers
  BY LineDomain
<1>2. Len(l) # 0
  BY EmptySeq
<1>3. 1 \in DOMAIN l
  BY <1>1, <1>2
<1>4. Head(l) = l[1]
  OBVIOUS
<1> QED
  BY <1>1, <1>3, <1>4 DEF InLine

LEMMA NobodyInLine == ASSUME NEW c PROVE ~InLine(<<>>, c)
BY DEF InLine

LEMMA LineGrows ==
    ASSUME NEW l \in Seq(Callers), NEW c \in Callers, Once(l), ~InLine(l, c)
    PROVE  /\ Append(l, c) \in Seq(Callers) /\ Append(l, c) # <<>> /\ Once(Append(l, c))
           /\ \A d : InLine(Append(l, c), d) <=> InLine(l, d) \/ d = c
           /\ Head(Append(l, c)) = IF l = <<>> THEN c ELSE Head(l)
           /\ \A r : InFront(l, r) /\ c # <<"start", r>> => InFront(Append(l, c), r)
           /\ \A r : (\A i \in DOMAIN l : l[i][2] # r) => InFront(Append(l, c), r)
<1> DEFINE m == Append(l, c)
           n == Len(l)
<1>1. n \in Nat /\ DOMAIN l = 1 .. n /\ \A i \in DOMAIN l : l[i] \in Callers
  BY LineDomain
<1>2. /\ m \in Seq(Callers) /\ m # <<>> /\ Len(m) = n + 1
      /\ \A i \in 1 .. n : m[i] = l[i]
      /\ m[n + 1] = c
  BY AppendProperties
<1>3. DOMAIN m = 1 .. n + 1
  BY <1>2, LineDomain
<1>4. Head(m) = IF l = <<>> THEN c ELSE Head(l)
  BY HeadTailAppend
<1> HIDE DEF m, n
<1>5. \A i \in DOMAIN m : i \in DOMAIN l \/ i = n + 1
  BY <1>1, <1>3
<1>6. \A i \in DOMAIN l : i \in DOMAIN m /\ m[i] = l[i] /\ i <= n + 1 /\ i \in Int
  BY <1>1, <1>2, <1>3
<1>7. n + 1 \in DOMAIN m /\ n + 1 <= n + 1
  BY <1>1, <1>3
<1>8. ASSUME NEW d PROVE InLine(m, d) <=> InLine(l, d) \/ d = c
  BY <1>2, <1>5, <1>6, <1>7 DEF InLine
<1>9. Once(m)
  BY <1>2, <1>5, <1>6 DEF Once, InLine
<1>10. ASSUME NEW r, InFront(l, r), c # <<"start", r>> PROVE InFront(m, r)
  BY <1>2, <1>5, <1>6, <1>10 DEF InFront
<1>11. ASSUME NEW r, \A i \in DOMAIN l : l[i][2] # r PROVE InFront(m, r)
  <2>1. \A i \in DOMAIN m : m[i][2] = r => i = n + 1
    BY <1>5, <1>6, <1>11
  <2> QED
    BY <1>7, <2>1 DEF InFront
<1> QED
  BY <1>2, <1>4, <1>8, <1>9, <1>10, <1>11 DEF m

LEMMA LineMoves ==
    ASSUME NEW l \in Seq(Callers), l # <<>>, Once(l)
    PROVE  /\ Tail(l) \in Seq(Callers) /\ Once(Tail(l))
           /\ \A d : InLine(Tail(l), d) <=> InLine(l, d) /\ d # Head(l)
           /\ \A r : InFront(l, r) => InFront(Tail(l), r)
<1> DEFINE m == Tail(l)
           n == Len(l)
<1>1. n \in Nat /\ DOMAIN l = 1 .. n
  BY LineDomain
<1>2. m \in Seq(Callers) /\ Len(m) = n - 1 /\ \A i \in 1 .. Len(m) : m[i] = l[i + 1]
  BY HeadTailProperties
<1>3. DOMAIN m = 1 .. n - 1
  BY <1>2, LineDomain
<1>4. 1 \in DOMAIN l /\ Head(l) = l[1]
  BY HeadOfLine
<1> HIDE DEF m, n
<1>5. \A i \in DOMAIN m : i \in Int /\ i + 1 \in DOMAIN l /\ i + 1 # 1 /\ m[i] = l[i + 1]
  BY <1>1, <1>2, <1>3
<1>6. \A i \in DOMAIN l \ {1} : i - 1 \in DOMAIN m /\ (i - 1) + 1 = i
  BY <1>1, <1>3
<1>7. ASSUME NEW d PROVE InLine(m, d) <=> InLine(l, d) /\ d # Head(l)
  <2>1. ASSUME InLine(m, d) PROVE InLine(l, d) /\ d # Head(l)
    BY <1>4, <1>5, <2>1 DEF InLine, Once
  <2>2. ASSUME InLine(l, d), d # Head(l) PROVE InLine(m, d)
    <3>1. PICK i \in DOMAIN l : l[i] = d
      BY <2>2 DEF InLine
    <3>2. i - 1 \in DOMAIN m /\ (i - 1) + 1 = i
      BY <1>4, <1>6, <2>2, <3>1
    <3> QED
      BY <1>5, <3>1, <3>2 DEF InLine
  <2> QED
    BY <2>1, <2>2
<1>8. Once(m)
  <2>1. ASSUME NEW i \in DOMAIN m, NEW j \in DOMAIN m, m[i] = m[j] PROVE i = j
    <3>1. i + 1 = j + 1
      BY <1>5, <2>1 DEF Once
    <3> QED
      BY <1>5, <3>1
  <2> QED
    BY <2>1 DEF Once
<1>9. ASSUME NEW r, InFront(l, r) PROVE InFront(m, r)
  <2>1. ASSUME NEW i \in DOMAIN m, NEW j \in DOMAIN m, m[i] = <<"start", r>>, m[j][2] = r
        PROVE  i <= j
    <3>1. i + 1 <= j + 1
      BY <1>5, <1>9, <2>1 DEF InFront
    <3> QED
      BY <1>5, <3>1
  <2> QED
    BY <2>1 DEF InFront
<1> QED
  BY <1>2, <1>7, <1>8, <1>9 DEF m

\* A caller that is in the line is taken out of it, wherever it stands.
LEMMA CallerLeaves ==
    ASSUME line \in Seq(Callers), Once(line), NEW c
    PROVE  /\ Without(c) \in Seq(Callers) /\ Once(Without(c))
           /\ \A d : InLine(Without(c), d) <=> InLine(line, d) /\ d # c
           /\ line # <<>> /\ Head(line) # c => /\ Without(c) # <<>>
                                               /\ Head(Without(c)) = Head(line)
           /\ \A r : InFront(line, r) => InFront(Without(c), r)
<1>1. CASE ~InLine(line, c)
  <2>1. Without(c) = line
    BY <1>1 DEF Without, InLine
  <2>2. \A d : InLine(line, d) => d # c
    BY <1>1
  <2> QED
    BY <2>1, <2>2
<1>2. CASE InLine(line, c)
  <2> DEFINE k == CHOOSE i \in DOMAIN line : line[i] = c
             n == Len(line)
             m == Without(c)
             before == SubSeq(line, 1, k - 1)
             after  == SubSeq(line, k + 1, n)
  <2>1. n \in Nat /\ DOMAIN line = 1 .. n /\ \A i \in DOMAIN line : line[i] \in Callers
    BY LineDomain
  <2>2. k \in DOMAIN line /\ line[k] = c
    BY <1>2 DEF InLine
  <2>3. m = before \o after
    BY <1>2 DEF InLine, Without
  <2> HIDE DEF k, n
  <2>4. k \in Int /\ 1 <= k /\ k <= n
    BY <2>1, <2>2
  <2>5. /\ before \in Seq(Callers) /\ Len(before) = k - 1
        /\ \A i \in 1 .. k - 1 : before[i] = line[i]
    <3>1. 1 \in Int /\ k - 1 \in Int /\ \A i \in 1 .. k - 1 : line[i] \in Callers
      BY <2>1, <2>4
    <3>2. /\ before \in Seq(Callers) /\ Len(before) = IF 1 <= k - 1 THEN (k - 1) - 1 + 1 ELSE 0
          /\ \A i \in 1 .. (k - 1) - 1 + 1 : before[i] = line[1 + i - 1]
      BY <3>1, SubSeqProperties
    <3> HIDE DEF before
    <3> QED
      BY <2>4, <3>2
  <2>6. /\ after \in Seq(Callers) /\ Len(after) = n - k
        /\ \A i \in 1 .. n - k : after[i] = line[k + i]
    <3>1. k + 1 \in Int /\ n \in Int /\ \A i \in k + 1 .. n : line[i] \in Callers
      BY <2>1, <2>4
    <3>2. /\ after \in Seq(Callers) /\ Len(after) = IF k + 1 <= n THEN n - (k + 1) + 1 ELSE 0
          /\ \A i \in 1 .. n - (k + 1) + 1 : after[i] = line[(k + 1) + i - 1]
      BY <3>1, SubSeqProperties
    <3> HIDE DEF after
    <3>3. n - (k + 1) + 1 = n - k
      BY <2>1, <2>4
    <3>4. Len(after) = n - k
      BY <2>1, <2>4, <3>2, <3>3
    <3>5. ASSUME NEW i \in 1 .. n - k PROVE after[i] = line[k + i]
      <4>1. i \in 1 .. n - (k + 1) + 1
        BY <3>3
      <4>2. after[i] = line[(k + 1) + i - 1]
        BY <3>2, <4>1
      <4>3. (k + 1) + i - 1 = k + i
        BY <2>4
      <4> QED
        BY <4>2, <4>3
    <3> QED
      BY <3>2, <3>4, <3>5
  <2> HIDE DEF before, after
  <2>7. /\ m \in Seq(Callers) /\ Len(m) = Len(before) + Len(after)
        /\ \A i \in 1 .. Len(before) + Len(after) :
              m[i] = IF i <= Len(before) THEN before[i] ELSE after[i - Len(before)]
    BY <2>3, <2>5, <2>6, ConcatProperties
  <2> HIDE DEF m
  <2>8. DOMAIN m = 1 .. n - 1
    <3>1. Len(m) = n - 1
      BY <2>1, <2>4, <2>5, <2>6, <2>7
    <3> QED
      BY <2>7, <3>1, LineDomain
  <2> DEFINE f(i) == IF i < k THEN i ELSE i + 1
  <2>9. ASSUME NEW i \in DOMAIN m PROVE f(i) \in DOMAIN line \ {k} /\ m[i] = line[f(i)]
    <3>1. i \in Int /\ 1 <= i /\ i <= n - 1
      BY <2>1, <2>8
    <3>2. f(i) \in DOMAIN line \ {k}
      BY <2>1, <2>4, <3>1
    <3>3. CASE i < k
      <4>1. i \in 1 .. Len(before) + Len(after) /\ i <= Len(before) /\ i \in 1 .. k - 1
        BY <2>1, <2>4, <2>5, <2>6, <3>1, <3>3
      <4> QED
        BY <2>5, <2>7, <3>2, <3>3, <4>1
    <3>4. CASE ~(i < k)
      <4>1. /\ i \in 1 .. Len(before) + Len(after) /\ ~(i <= Len(before))
            /\ i - Len(before) \in 1 .. n - k /\ k + (i - Len(before)) = i + 1
        BY <2>1, <2>4, <2>5, <2>6, <3>1, <3>4
      <4>2. m[i] = after[i - Len(before)]
        BY <2>7, <4>1
      <4>3. m[i] = line[i + 1]
        BY <2>6, <4>1, <4>2
      <4> QED
        BY <3>2, <3>4, <4>3
    <3> QED
      BY <3>3, <3>4
  <2>10. \A i \in DOMAIN m : i \in Int
    BY <2>8
  <2>11. ASSUME NEW j \in DOMAIN line \ {k} PROVE \E i \in DOMAIN m : f(i) = j
    <3>1. CASE j < k
      <4>1. j \in DOMAIN m
        BY <2>1, <2>4, <2>8, <3>1
      <4> QED
        BY <3>1, <4>1
    <3>2. CASE ~(j < k)
      <4>1. j - 1 \in DOMAIN m /\ ~(j - 1 < k) /\ (j - 1) + 1 = j
        BY <2>1, <2>4, <2>8, <3>2
      <4> QED
        BY <4>1
    <3> QED
      BY <3>1, <3>2
  <2>12. \A i, j \in DOMAIN m : /\ f(i) = f(j) => i = j
                                /\ f(i) <= f(j) => i <= j
    BY <2>4, <2>10
  <2> HIDE DEF f
  <2>13. ASSUME NEW d PROVE InLine(m, d) <=> InLine(line, d) /\ d # c
    <3>1. ASSUME InLine(m, d) PROVE InLine(line, d) /\ d # c
      <4>1. PICK i \in DOMAIN m : m[i] = d
        BY <3>1 DEF InLine
      <4>2. f(i) \in DOMAIN line \ {k} /\ line[f(i)] = d
        BY <2>9, <4>1
      <4> QED
        BY <2>2, <4>2 DEF InLine, Once
    <3>2. ASSUME InLine(line, d), d # c PROVE InLine(m, d)
      <4>1. PICK j \in DOMAIN line \ {k} : line[j] = d
        BY <2>2, <3>2 DEF InLine
      <4>2. PICK i \in DOMAIN m : f(i) = j
        BY <2>11
      <4> QED
        BY <2>9, <4>1, <4>2 DEF InLine
    <3> QED
      BY <3>1, <3>2
  <2>14. Once(m)
    BY <2>9, <2>12 DEF Once
  <2>15. ASSUME NEW r, InFront(line, r) PROVE InFront(m, r)
    <3>1. ASSUME NEW i \in DOMAIN m, NEW j \in DOMAIN m, m[i] = <<"start", r>>, m[j][2] = r
          PROVE  i <= j
      <4>1. f(i) <= f(j)
        BY <2>9, <2>15, <3>1 DEF InFront
      <4> QED
        BY <2>12, <4>1
    <3> QED
      BY <3>1 DEF InFront
  <2>16. ASSUME line # <<>>, Head(line) # c PROVE m # <<>> /\ Head(m) = Head(line)
    <3>1. 1 \in DOMAIN line /\ Head(line) = line[1]
      BY <2>16, HeadOfLine
    <3>2. 1 < k
      BY <2>2, <2>4, <2>16, <3>1
    <3>3. 1 \in DOMAIN m
      BY <2>1, <2>4, <2>8, <3>2
    <3>4. m # <<>>
      BY <3>3
    <3>5. f(1) = 1
      BY <3>2 DEF f
    <3>6. m[1] = line[1]
      BY <2>9, <3>3, <3>5
    <3> QED
      BY <2>7, <3>1, <3>4, <3>6, HeadOfLine
  <2> QED
    BY <2>7, <2>13, <2>14, <2>15, <2>16 DEF m
<1> QED
  BY <1>1, <1>2

-----------------------------------------------------------------------------
(* Each way in which a call enters the line, leaves it, or goes to its end. *)

\* The head goes on with its call.
HeadStays == line # <<>> /\ line' # <<>> /\ Head(line') = Head(line) /\ desk' = desk

\* Nobody has done anything yet in the call of the head.
Freed == desk' = NoCall

LEMMA EnterKeepsLine ==
    ASSUME line \in Seq(Callers), LineInv, OrderInv, DeskInv, NEW c \in Callers, Enter(c),
           ~Waits(c), \A d \in Callers : Waits(d)' <=> Waits(d) \/ d = c,
           \A r \in Runs : starter'[r] = "add" =>
              \/ starter[r] = "add" /\ c # <<"start", r>>
              \/ \A i \in DOMAIN line : line[i][2] # r
    PROVE  /\ line' \in Seq(Callers) /\ LineInv' /\ OrderInv'
           /\ HeadStays \/ (line = <<>> /\ Freed)
<1>1. line' = Append(line, c) /\ desk' = desk
  BY DEF Enter
<1>2. Once(line) /\ ~InLine(line, c)
  BY DEF LineInv
<1>3. /\ line' \in Seq(Callers) /\ line' # <<>> /\ Once(line')
      /\ \A d : InLine(line', d) <=> InLine(line, d) \/ d = c
      /\ Head(line') = IF line = <<>> THEN c ELSE Head(line)
      /\ \A r : InFront(line, r) /\ c # <<"start", r>> => InFront(line', r)
      /\ \A r : (\A i \in DOMAIN line : line[i][2] # r) => InFront(line', r)
  BY <1>1, <1>2, LineGrows
<1>4. LineInv'
  BY <1>3 DEF LineInv
<1>5. OrderInv'
  BY <1>3 DEF OrderInv
<1>6. HeadStays \/ (line = <<>> /\ Freed)
  BY <1>1, <1>3 DEF HeadStays, Freed, DeskInv
<1> QED
  BY <1>3, <1>4, <1>5, <1>6

LEMMA LeaveKeepsLine ==
    ASSUME line \in Seq(Callers), LineInv, OrderInv, line # <<>>, Leave,
           \A d \in Callers : Waits(d)' <=> Waits(d) /\ d # Head(line),
           \A r \in Runs : starter'[r] = "add" => starter[r] = "add"
    PROVE  line' \in Seq(Callers) /\ LineInv' /\ OrderInv' /\ Freed
<1>1. line' = Tail(line) /\ Freed
  BY DEF Leave, Freed
<1>2. /\ line' \in Seq(Callers) /\ Once(line')
      /\ \A d : InLine(line', d) <=> InLine(line, d) /\ d # Head(line)
      /\ \A r : InFront(line, r) => InFront(line', r)
  BY <1>1, LineMoves DEF LineInv
<1>3. LineInv'
  BY <1>2 DEF LineInv
<1>4. OrderInv'
  BY <1>2 DEF OrderInv
<1> QED
  BY <1>1, <1>2, <1>3, <1>4

LEMMA AgainKeepsLine ==
    ASSUME line \in Seq(Callers), LineInv, OrderInv, line # <<>>, Again(Head(line)),
           \A d \in Callers : Waits(d)' <=> Waits(d),
           \A r \in Runs : starter'[r] = "add" =>
                              starter[r] = "add" /\ Head(line) # <<"start", r>>
    PROVE  line' \in Seq(Callers) /\ LineInv' /\ OrderInv' /\ Freed
<1> DEFINE rest == Tail(line)
<1>1. line' = Append(rest, Head(line)) /\ Freed
  BY DEF Again, Freed
<1>2. /\ rest \in Seq(Callers) /\ Once(rest)
      /\ \A d : InLine(rest, d) <=> InLine(line, d) /\ d # Head(line)
      /\ \A r : InFront(line, r) => InFront(rest, r)
  BY LineMoves DEF LineInv
<1>3. Head(line) \in Callers /\ InLine(line, Head(line))
  BY HeadOfLine
<1> HIDE DEF rest
<1>4. /\ line' \in Seq(Callers) /\ Once(line')
      /\ \A d : InLine(line', d) <=> InLine(rest, d) \/ d = Head(line)
      /\ \A r : InFront(rest, r) /\ Head(line) # <<"start", r>> => InFront(line', r)
  BY <1>1, <1>2, <1>3, LineGrows
<1>5. LineInv'
  BY <1>2, <1>3, <1>4 DEF LineInv
<1>6. OrderInv'
  BY <1>2, <1>4 DEF OrderInv
<1> QED
  BY <1>1, <1>4, <1>5, <1>6

\* A cancelled operation gives up its place, and takes a new one if `next` is its caller.
LEMMA AbandonKeepsLine ==
    ASSUME line \in Seq(Callers), LineInv, OrderInv, DeskInv, NEW x \in Runs, NEW next,
           Abandon(<<"op", x>>, next), next \in {<<>>, <<<<"op", x>>>>},
           \A d \in Callers : Waits(d)' <=> \/ Waits(d) /\ d # <<"op", x>>
                                            \/ d = <<"op", x>> /\ next # <<>>,
           \A r \in Runs : starter'[r] = "add" => starter[r] = "add"
    PROVE  /\ line' \in Seq(Callers) /\ LineInv' /\ OrderInv'
           /\ \/ HeadStays /\ Head(line) # <<"op", x>>
              \/ Freed /\ (line = <<>> \/ Head(line) = <<"op", x>>)
<1> DEFINE c    == <<"op", x>>
           rest == Without(c)
<1>1. line' = rest \o next /\ desk' = IF line # <<>> /\ Head(line) = c THEN NoCall ELSE desk
  BY DEF Abandon
<1>2. c \in Callers /\ \A r : c # <<"start", r>>
  BY DEF Callers
<1>3. /\ rest \in Seq(Callers) /\ Once(rest)
      /\ \A d : InLine(rest, d) <=> InLine(line, d) /\ d # c
      /\ line # <<>> /\ Head(line) # c => rest # <<>> /\ Head(rest) = Head(line)
      /\ \A r : InFront(line, r) => InFront(rest, r)
  BY CallerLeaves DEF LineInv
<1> HIDE DEF c, rest
<1>4. /\ line' \in Seq(Callers) /\ Once(line')
      /\ \A d : InLine(line', d) <=> InLine(rest, d) \/ (d = c /\ next # <<>>)
      /\ rest # <<>> => line' # <<>> /\ Head(line') = Head(rest)
      /\ \A r : InFront(rest, r) => InFront(line', r)
  <2>1. CASE next = <<>>
    <3>1. line' = rest
      BY <1>1, <1>3, <2>1, ConcatEmptySeq
    <3> QED
      BY <1>3, <2>1, <3>1
  <2>2. CASE next = <<c>>
    <3>1. line' = Append(rest, c)
      BY <1>1, <1>2, <1>3, <2>2, AppendIsConcat
    <3>2. ~InLine(rest, c) /\ next # <<>>
      BY <1>3, <2>2
    <3> QED
      BY <1>2, <1>3, <3>1, <3>2, LineGrows
  <2> QED
    BY <2>1, <2>2 DEF c
<1>5. LineInv'
  BY <1>2, <1>3, <1>4 DEF LineInv, c
<1>6. OrderInv'
  BY <1>3, <1>4 DEF OrderInv
<1>7. \/ HeadStays /\ Head(line) # c
      \/ Freed /\ (line = <<>> \/ Head(line) = c)
  BY <1>1, <1>3, <1>4 DEF HeadStays, Freed, DeskInv
<1> QED
  BY <1>4, <1>5, <1>6, <1>7 DEF c

LEMMA SameLine ==
    ASSUME LineInv, OrderInv, line' = line, \A d \in Callers : Waits(d)' <=> Waits(d),
           \A r \in Runs : starter'[r] = "add" => starter[r] = "add"
    PROVE  LineInv' /\ OrderInv'
BY DEF LineInv, OrderInv

\* The head of the line waits, and nobody overtakes an insertion.
LEMMA HeadWaits ==
    ASSUME line \in Seq(Callers), LineInv, line # <<>>
    PROVE  Head(line) \in Callers /\ Waits(Head(line))
BY HeadOfLine DEF LineInv

LEMMA InsertionComesFirst ==
    ASSUME line \in Seq(Callers), LineInv, OrderInv, line # <<>>, NEW r \in Runs,
           Head(line)[2] = r, starter[r] = "add"
    PROVE  Head(line) = <<"start", r>>
<1>1. <<"start", r>> \in Callers /\ Waits(<<"start", r>>)
  BY DEF Callers, Waits
<1>2. PICK i \in DOMAIN line : line[i] = <<"start", r>>
  BY <1>1 DEF LineInv, InLine
<1>3. 1 \in DOMAIN line /\ Head(line) = line[1]
  BY HeadOfLine
<1>4. i <= 1
  BY <1>2, <1>3 DEF OrderInv, InFront
<1>5. i \in Int /\ 1 <= i
  BY LineDomain
<1>6. i = 1
  BY <1>4, <1>5
<1> QED
  BY <1>2, <1>3, <1>6

-----------------------------------------------------------------------------
(* What a step does not do to a run, and what it then cannot break.         *)

\* The types of what Restore adds to the manager, but for the line.
RestOK ==
    /\ details \subseteq Runs
    /\ pendingRestores \subseteq Runs
    /\ desk \in [stage : {"open", "read", "done"}, result : {"ok", "missing", "error"},
                 found : {"none"} \cup Status]
    /\ orphans \subseteq Runs \X Status
    /\ starter \in [Runs -> {"none", "add", "discard", "done"}]
    /\ op \in [Runs -> [at : {"none", "claim", "command", "report", "error", "unwind",
                              "replaced", "ended"}, result : RM!Results]]
    /\ request \in [Requests -> [at : {"idle", "look", "settle"}, cancels : BOOLEAN,
                                 run : Runs, status : Status]]
    /\ told \in [Runs -> SUBSET RM!Terminal]
    /\ failed \subseteq Runs /\ overtaken \subseteq Runs

LEMMA Types == ASSUME ManagerOK', line' \in Seq(Callers), RestOK' PROVE TypeOK'
BY DEF ManagerOK, TypeOK, RestOK

\* The manager and the registry leave r alone, but for pruning its row.
SameState(r) ==
    /\ up' = up /\ (r \in used' <=> r \in used)
    /\ status'[r] = status[r] \/ {status[r], status'[r]} \subseteq Active
    /\ pc'[r] = "operation" <=> pc[r] = "operation"
    /\ pc'[r] \in {"none", "created", "startHook"} => pc[r] \in {"none", "created", "startHook"}
    /\ hook'[r] = "record" <=> hook[r] = "record"
    /\ hook'[r] = "created" <=> hook[r] = "created"
    /\ \/ row'[r] = row[r] /\ (r \in details' <=> r \in details)
       \/ row[r] \in Terminal /\ row'[r] = "pruned" /\ r \notin details'
    /\ starter'[r] = starter[r] /\ op'[r] = op[r]
    /\ r \in pendingRestores' => r \in pendingRestores
    /\ r \in failed => r \in failed'
    /\ r \in overtaken' <=> r \in overtaken
    /\ \A o \in orphans' : o[1] = r => o \in orphans

\* Whoever stands at the desk is as far for r as before, or has given up the desk.
DeskFor(r) ==
    /\ \A st \in Status : HasRead(r, st)' => HasRead(r, st)
    /\ Inserted(r)' <=> Inserted(r)
    /\ Reported(r) => Reported(r)'

\* Nobody is told something new of r, or begins to set its row.
Settles(q, r)   == request[q].at = "settle" /\ request[q].run = r
HasSettled(q, r) == Served(<<q, r>>) /\ Settles(q, r) /\ desk.result = "ok"
SameAnswers(r) ==
    /\ told'[r] = told[r]
    /\ \A q \in Requests : /\ Settles(q, r)' => Settles(q, r) /\ request'[q] = request[q]
                           /\ HasSettled(q, r)' => HasSettled(q, r)

LEMMA OpKept ==
    ASSUME NEW r \in Runs, OpInv(r), SameState(r)
    PROVE  OpInv(r)'
<1>1. /\ status'[r] \in Active <=> status[r] \in Active
      /\ status'[r] = "absent" <=> status[r] = "absent"
  BY DEF SameState, Active, RM!Active
<1>2. r \notin used' => row'[r] = "none"
  BY DEF OpInv, SameState, Terminal, RM!Terminal
<1> QED
  BY <1>1, <1>2 DEF OpInv, SameState, Busy

LEMMA TruthKept ==
    ASSUME NEW r \in Runs, TruthInv(r), SameState(r), DeskFor(r)
    PROVE  TruthInv(r)'
<1>1. /\ status'[r] \in Active <=> status[r] \in Active
      /\ status'[r] = "absent" <=> status[r] = "absent"
      /\ status'[r] = status[r] \/ status[r] \in Active
      /\ status'[r] \in Terminal => status'[r] = status[r]
  BY DEF SameState, Active, RM!Active, Terminal, RM!Terminal
<1>2. "running" \notin Terminal /\ "none" \notin Terminal /\ "pruned" \notin Terminal
  BY DEF Terminal, RM!Terminal
<1>3. ASSUME SoundInv(r) PROVE SoundInv(r)'
  <2>1. CASE row'[r] = row[r]
    BY <1>1, <1>3, <2>1 DEF SoundInv, SameState, DeskFor
  <2>2. CASE row[r] \in Terminal /\ row'[r] = "pruned"
    BY <1>1, <1>2, <1>3, <2>2 DEF SoundInv, SameState, DeskFor
  <2> QED
    BY <2>1, <2>2 DEF SameState
<1>4. ASSUME KeptInv(r) PROVE KeptInv(r)'
  BY <1>4 DEF KeptInv, SameState, DeskFor
<1>5. ASSUME RowInv(r) PROVE RowInv(r)'
  BY <1>1, <1>2, <1>5 DEF RowInv, SameState, DeskFor, Active, RM!Active, Terminal, RM!Terminal
<1>6. ASSUME RecordedInv(r) PROVE RecordedInv(r)'
  <2>1. "running" \in Status
    BY DEF Status
  <2> QED
    BY <1>1, <1>6, <2>1 DEF RecordedInv, SameState, DeskFor
<1> QED
  BY <1>3, <1>4, <1>5, <1>6 DEF TruthInv, SameState

LEMMA AnswersKept ==
    ASSUME NEW r \in Runs, told[r] \subseteq Terminal, AnswerInv(r), SameState(r), DeskFor(r),
           SameAnswers(r), \A q \in Requests : RequestInv(q)
    PROVE  AnswerInv(r)'
<1>1. /\ status'[r] = "absent" <=> status[r] = "absent"
      /\ status'[r] # status[r] => status[r] \in Active /\ status'[r] \in Active
  BY DEF SameState, Active, RM!Active
<1>2. /\ "running" \notin Terminal /\ Terminal \subseteq Status /\ "running" \in Status
      /\ \A st \in Active : st \notin Terminal
  BY DEF Terminal, RM!Terminal, Status, Active, RM!Active
<1>3. ASSUME LiveInv(r) PROVE LiveInv(r)'
  <2>1. CASE status'[r] = status[r]
    BY <1>2, <1>3, <2>1 DEF LiveInv, DeskFor, SameAnswers, Settles
  <2>2. CASE status'[r] # status[r]
    <3>1. told[r] = {} /\ \A st \in Terminal : ~HasRead(r, st)
      BY <1>1, <1>2, <1>3, <2>2 DEF LiveInv, Active, RM!Active
    <3>2. \A q \in Requests : ~Settles(q, r)
      BY <1>1, <2>2 DEF RequestInv, Settles
    <3> QED
      BY <1>2, <3>1, <3>2 DEF LiveInv, DeskFor, SameAnswers, Settles
  <2> QED
    BY <2>1, <2>2
<1>4. ASSUME PastInv(r), status'[r] = "absent" PROVE PastInv(r)'
  <2>1. /\ status[r] = "absent"
        /\ \A s, t \in told[r] : s = t
        /\ told[r] # {} => row[r] \in told[r] \cup {"pruned"}
        /\ \A st \in Terminal : HasRead(r, st) => /\ told[r] \subseteq {st}
                                                  /\ row[r] \in {st, "pruned"}
        /\ HasRead(r, "running") => row[r] = "running"
        /\ \A q \in Requests : Settles(q, r) =>
              /\ request[q].status = "unexpected_error"
              /\ row[r] \in {"running", "unexpected_error", "pruned"}
              /\ told[r] \subseteq {"unexpected_error"}
              /\ \A st \in Terminal : HasRead(r, st) => st = "unexpected_error"
              /\ HasSettled(q, r) => row[r] \in {"unexpected_error", "pruned"}
    BY <1>1, <1>4 DEF PastInv, Settles, HasSettled
  <2>2. told'[r] = told[r] /\ (row'[r] = row[r] \/ (row[r] \in Terminal /\ row'[r] = "pruned"))
    BY DEF SameState, SameAnswers
  <2>3. \A s, t \in told'[r] : s = t
    BY <2>1, <2>2
  <2>4. told'[r] # {} => row'[r] \in told'[r] \cup {"pruned"}
    BY <2>1, <2>2
  <2>5. \A st \in Terminal : HasRead(r, st)' => /\ told'[r] \subseteq {st}
                                                /\ row'[r] \in {st, "pruned"}
    BY <1>2, <2>1, <2>2 DEF DeskFor
  <2>6. HasRead(r, "running")' => row'[r] = "running"
    BY <1>2, <2>1, <2>2 DEF DeskFor
  <2>7. ASSUME NEW q \in Requests, Settles(q, r)'
        PROVE  /\ request'[q].status = "unexpected_error"
               /\ row'[r] \in {"running", "unexpected_error", "pruned"}
               /\ told'[r] \subseteq {"unexpected_error"}
               /\ \A st \in Terminal : HasRead(r, st)' => st = "unexpected_error"
               /\ HasSettled(q, r)' => row'[r] \in {"unexpected_error", "pruned"}
    <3>1. Settles(q, r) /\ request'[q] = request[q]
      BY <2>7 DEF SameAnswers
    <3>2. HasSettled(q, r)' => HasSettled(q, r)
      BY DEF SameAnswers
    <3> QED
      BY <1>2, <2>1, <2>2, <3>1, <3>2 DEF DeskFor
  <2> QED
    BY <2>3, <2>4, <2>5, <2>6, <2>7 DEF PastInv, Settles, HasSettled
<1>5. told'[r] # {} => up' /\ r \in used'
  BY DEF AnswerInv, SameState, SameAnswers
<1>6. r \notin failed' \cup overtaken' => r \notin failed \cup overtaken
  BY DEF SameState
<1>7. status'[r] # "absent" => PastInv(r)'
  BY DEF PastInv
<1> QED
  BY <1>3, <1>4, <1>5, <1>6, <1>7 DEF AnswerInv

LEMMA FreedDesk ==
    ASSUME Freed
    PROVE  /\ DeskInv'
           /\ \A c : ~Served(c)'
           /\ \A r, st : ~HasRead(r, st)'
           /\ \A r : ~Reported(r)'
BY DEF Freed, NoCall, DeskInv, Served, HasRead, Reported

LEMMA FreedFor ==
    ASSUME NEW r \in Runs, Freed, starter'[r] = starter[r], op'[r] = op[r],
           line # <<>> => Head(line) \notin {<<"start", r>>, <<"op", r>>}
    PROVE  DeskFor(r)
<1>1. ~Served(<<"start", r>>) /\ ~Reported(r)
  BY DEF Served, Reported
<1> QED
  BY <1>1, FreedDesk DEF DeskFor, Inserted

LEMMA StayingDesk ==
    ASSUME HeadStays, DeskInv, up' = up, failed \subseteq failed',
           Head(line)[1] \in Requests => request'[Head(line)[1]] = request[Head(line)[1]],
           \A r \in Runs : op'[r] = op[r] \/ Head(line) # <<"op", r>>,
           line \in Seq(Callers)
    PROVE  /\ DeskInv'
           /\ \A c : Served(c)' <=> Served(c)
           /\ \A r, st : HasRead(r, st)' <=> HasRead(r, st)
<1>1. Looks(Head(line))' <=> Looks(Head(line))
  BY DEF HeadStays, Looks
<1>2. \A c : Served(c)' <=> Served(c)
  BY DEF HeadStays, Served
<1>3. \A r, st : HasRead(r, st)' <=> HasRead(r, st)
  BY DEF HeadStays, HasRead, Looks
<1>4. DeskInv'
  BY DEF HeadStays, DeskInv, Looks
<1> QED
  BY <1>2, <1>3, <1>4

LEMMA StayingFor ==
    ASSUME NEW r \in Runs, HeadStays, up' = up, starter'[r] = starter[r], op'[r] = op[r],
           \A c : Served(c)' <=> Served(c),
           \A st : HasRead(r, st)' <=> HasRead(r, st)
    PROVE  DeskFor(r)
BY DEF HeadStays, DeskFor, Inserted, Reported

LEMMA AnswersStay ==
    ASSUME NEW r \in Runs, told' = told, request' = request, up' = up, HeadStays \/ Freed
    PROVE  SameAnswers(r)
<1>1. \A q \in Requests : Settles(q, r)' <=> Settles(q, r)
  BY DEF Settles
<1>2. CASE HeadStays
  BY <1>1, <1>2 DEF HeadStays, SameAnswers, HasSettled, Served
<1>3. CASE Freed
  BY <1>1, <1>3, FreedDesk DEF SameAnswers, HasSettled
<1> QED
  BY <1>2, <1>3

\* What the head does at the desk for one run is nothing to the others.
LEMMA DeskOfOthers ==
    ASSUME NEW r \in Runs, line # <<>>, Head(line)[2] # r, line' = line,
           starter'[r] = starter[r], op'[r] = op[r], request' = request, told' = told
    PROVE  DeskFor(r) /\ SameAnswers(r)
<1>1. /\ ~Served(<<"start", r>>) /\ ~Served(<<"start", r>>)' /\ ~Reported(r)
      /\ \A st : ~HasRead(r, st)'
      /\ \A q : ~Served(<<q, r>>)'
  BY DEF Served, Reported, HasRead
<1> QED
  BY <1>1 DEF DeskFor, Inserted, SameAnswers, Settles, HasSettled

-----------------------------------------------------------------------------
(* Every action preserves IInv.  First the steps of the manager alone.      *)

LEMMA ManagerIsOK == ASSUME IInv PROVE ManagerOK
BY DEF IInv, TypeOK, ManagerOK

\* Nothing moves at the registry.
LEMMA OwnStays ==
    ASSUME IInv, up' = up, UNCHANGED own
    PROVE  /\ \A r \in Runs : DeskFor(r) /\ SameAnswers(r)
           /\ LineInv' /\ OrderInv' /\ DeskInv' /\ line' \in Seq(Callers) /\ RestOK'
<1>1. UNCHANGED <<details, line, desk, orphans, pendingRestores, starter, op, request, told,
                  failed, overtaken>>
  BY DEF own, registry, restores, answers, ghosts
<1>2. \A c : Served(c)' <=> Served(c)
  BY <1>1 DEF Served
<1>3. \A r, st : HasRead(r, st)' <=> HasRead(r, st)
  BY <1>1 DEF HasRead, Looks
<1>4. ASSUME NEW r \in Runs PROVE DeskFor(r) /\ SameAnswers(r)
  BY <1>1, <1>2, <1>3 DEF DeskFor, Inserted, Reported, SameAnswers, Settles, HasSettled
<1>5. LineInv' /\ OrderInv'
  <2>1. \A d \in Callers : Waits(d)' <=> Waits(d)
    BY <1>1 DEF Waits
  <2> QED
    BY <1>1, <2>1, SameLine DEF IInv
<1>6. DeskInv'
  BY <1>1 DEF IInv, DeskInv, Looks
<1>7. line' \in Seq(Callers) /\ RestOK'
  BY <1>1 DEF IInv, TypeOK, RestOK
<1> QED
  BY <1>4, <1>5, <1>6, <1>7

LEMMA QuietKeepsIInv == ASSUME IInv, ManagerOK', Quiet, UNCHANGED own PROVE IInv'
<1>1. up' = up
  BY DEF Quiet
<1>2. /\ \A r \in Runs : DeskFor(r) /\ SameAnswers(r)
      /\ LineInv' /\ OrderInv' /\ DeskInv' /\ line' \in Seq(Callers) /\ RestOK'
  BY <1>1, OwnStays
<1>3. UNCHANGED <<details, orphans, pendingRestores, starter, op, request, told, failed,
                  overtaken>>
  BY DEF own, registry, restores, answers, ghosts
<1>4. ASSUME NEW r \in Runs PROVE SameState(r)
  BY <1>3 DEF Quiet, SameState
<1>5. ASSUME NEW r \in Runs PROVE OpInv(r)' /\ TruthInv(r)' /\ AnswerInv(r)'
  <2>1. OpInv(r) /\ TruthInv(r) /\ AnswerInv(r) /\ \A q \in Requests : RequestInv(q)
    BY DEF IInv
  <2>2. told[r] \subseteq Terminal
    BY DEF IInv, TypeOK, Terminal
  <2> QED
    BY <1>2, <1>4, <2>1, <2>2, OpKept, TruthKept, AnswersKept
<1>6. OrphanInv'
  BY <1>3 DEF IInv, OrphanInv
<1>7. ASSUME NEW q \in Requests PROVE RequestInv(q)'
  BY <1>3 DEF IInv, TypeOK, RequestInv, Quiet, Active, RM!Active
<1>8. TypeOK' /\ \A r \in Runs : Life(r)'
  BY <1>2, Types DEF ManagerOK
<1> QED
  BY <1>2, <1>5, <1>6, <1>7, <1>8 DEF IInv

\* A run of this process that was active: no outcome of it is known, and with the one that
\* it gets its row either agrees already or is still to be written by the terminal hook.
LEMMA EndingKeepsTruth ==
    ASSUME IInv, NEW r \in Runs, NEW st, Ending(r, st), status[r] \in Active,
           UNCHANGED <<details, starter, request, told, failed>>, overtaken \subseteq overtaken',
           op'[r].at \notin Busy, Inserted(r)' => Inserted(r),
           \A t \in Terminal : HasRead(r, t)' => HasRead(r, t),
           r \notin failed \cup overtaken' => row[r] \notin Terminal \/ row[r] = st
    PROVE  TruthInv(r)' /\ AnswerInv(r)'
<1>1. /\ UNCHANGED <<up, used, row>> /\ st \in Terminal /\ status'[r] = st
      /\ hook'[r] = "record" /\ pc'[r] # "operation"
  BY DEF Ending, IInv, TypeOK, RM!TypeOK
<1>2. TruthInv(r) /\ AnswerInv(r) /\ \A q \in Requests : RequestInv(q)
  BY DEF IInv
<1>3. told[r] \subseteq Terminal /\ \A t \in Active : t \notin Terminal /\ t # "absent"
  BY DEF IInv, TypeOK, Terminal, RM!Terminal, Active, RM!Active
<1>4. "absent" \notin Terminal
  BY DEF Terminal, RM!Terminal
<1>5. SoundInv(r)'
  BY <1>1, <1>3 DEF SoundInv
<1>6. ASSUME r \notin failed \cup overtaken'
      PROVE  KeptInv(r)' /\ RowInv(r)' /\ RecordedInv(r)' /\ LiveInv(r)' /\ PastInv(r)'
  <2>1. KeptInv(r) /\ LiveInv(r)
    BY <1>2, <1>6 DEF TruthInv, AnswerInv
  <2>2. KeptInv(r)'
    BY <1>1, <2>1 DEF KeptInv
  <2>3. RowInv(r)' /\ RecordedInv(r)' /\ PastInv(r)'
    BY <1>1, <1>4, <1>6 DEF RowInv, RecordedInv, PastInv
  <2>4. told[r] = {} /\ \A t \in Terminal : ~HasRead(r, t)
    BY <1>3, <2>1 DEF LiveInv
  <2>5. \A q \in Requests : ~Settles(q, r)
    BY <1>2 DEF RequestInv, Settles
  <2>6. LiveInv(r)'
    BY <2>4, <2>5 DEF LiveInv, Settles
  <2> QED
    BY <2>2, <2>3, <2>6
<1>7. told'[r] # {} => up' /\ r \in used'
  BY <1>1, <1>2 DEF AnswerInv
<1> QED
  BY <1>5, <1>6, <1>7 DEF TruthInv, AnswerInv

LEMMA EndingOthers ==
    ASSUME NEW r \in Runs, NEW st, Ending(r, st), IInv, NEW q \in Runs \ {r},
           UNCHANGED <<details, starter, failed>>, op'[q] = op[q],
           q \in pendingRestores' => q \in pendingRestores,
           q \in overtaken' <=> q \in overtaken,
           \A o \in orphans' : o[1] = q => o \in orphans
    PROVE  SameState(q)
<1>1. status'[q] = status[q]
  BY DEF Ending, IInv, TypeOK, RM!TypeOK
<1> QED
  BY <1>1 DEF Ending, SameState

LEMMA FinishTaskRunsKeepsIInv ==
    ASSUME IInv, NEW r \in Runs, RM!FinishTaskRuns(r), UNCHANGED own
    PROVE  IInv'
<1>1. /\ ManagerOK' /\ pc[r] = "gone"
      /\ Quiet \/ (status[r] \in Active /\ Ending(r, "cancelled"))
  BY ManagerIsOK, FinishTaskRunsFrame
<1>2. CASE Quiet
  BY <1>1, <1>2, QuietKeepsIInv
<1>3. CASE status[r] \in Active /\ Ending(r, "cancelled")
  <2>1. UNCHANGED <<up, used, row>>
    BY <1>3 DEF Ending
  <2>2. /\ \A q \in Runs : DeskFor(q) /\ SameAnswers(q)
        /\ LineInv' /\ OrderInv' /\ DeskInv' /\ line' \in Seq(Callers) /\ RestOK'
    BY <2>1, OwnStays
  <2>3. UNCHANGED <<details, orphans, pendingRestores, starter, op, request, told, failed,
                    overtaken>>
    BY DEF own, registry, restores, answers, ghosts
  <2>4. OpInv(r) /\ TruthInv(r) /\ Life(r)
    BY DEF IInv
  <2>5. op[r].at \notin Busy
    BY <1>1, <2>4 DEF OpInv
  <2>6. row[r] \notin Terminal \/ r \in failed
    <3>1. row[r] \in Terminal => row[r] \notin {"none", "running"}
      BY DEF Terminal, RM!Terminal
    <3> QED
      BY <1>1, <1>3, <2>4, <3>1 DEF TruthInv, SoundInv
  <2>7. \A t \in Terminal : t \in Status
    BY DEF Terminal, Status
  <2>8. TruthInv(r)' /\ AnswerInv(r)'
    BY <1>3, <2>2, <2>3, <2>5, <2>6, <2>7, EndingKeepsTruth DEF DeskFor
  <2>9. OpInv(r)'
    <3>1. status'[r] = "cancelled" /\ "cancelled" \notin Active /\ status[r] # "absent"
      BY <1>3 DEF Ending, IInv, TypeOK, RM!TypeOK, Active, RM!Active
    <3>2. pc'[r] # "operation" /\ pc'[r] \notin {"none", "created", "startHook"}
      BY <1>3 DEF Ending
    <3> QED
      BY <2>1, <2>3, <2>4, <2>5, <3>1, <3>2 DEF OpInv
  <2>10. ASSUME NEW q \in Runs \ {r} PROVE OpInv(q)' /\ TruthInv(q)' /\ AnswerInv(q)'
    <3>1. SameState(q)
      BY <1>3, <2>3, EndingOthers
    <3>2. OpInv(q) /\ TruthInv(q) /\ AnswerInv(q) /\ \A x \in Requests : RequestInv(x)
      BY DEF IInv
    <3>3. told[q] \subseteq Terminal
      BY DEF IInv, TypeOK, Terminal
    <3> QED
      BY <2>2, <3>1, <3>2, <3>3, OpKept, TruthKept, AnswersKept
  <2>11. OrphanInv'
    BY <2>3 DEF IInv, OrphanInv
  <2>12. ASSUME NEW q \in Requests PROVE RequestInv(q)'
    BY <1>3, <2>1, <2>3 DEF IInv, TypeOK, RM!TypeOK, RequestInv, Ending, Active, RM!Active
  <2>13. TypeOK' /\ \A q \in Runs : Life(q)'
    BY <1>1, <2>2, Types DEF ManagerOK
  <2> QED
    BY <2>2, <2>8, <2>9, <2>10, <2>11, <2>12, <2>13 DEF IInv
<1> QED
  BY <1>1, <1>2, <1>3

LEMMA ManagerKeepsIInv ==
    ASSUME IInv, \/ \E r \in Runs : ManagerStep(r)
                 \/ (RM!Shutdown \/ RM!ShutdownStep) /\ UNCHANGED own
    PROVE  IInv'
<1>1. ASSUME NEW r \in Runs, ManagerStep(r), ~RM!FinishTaskRuns(r) PROVE IInv'
  <2>1. UNCHANGED own
    BY <1>1 DEF ManagerStep
  <2>2. ManagerOK
    BY ManagerIsOK
  <2>3. ManagerOK' /\ Quiet
    BY <1>1, <2>2, CancelFrame, BeginFrame, NeverBeginFrame, FinishDoneFrame, TaskDoneFrame,
       FinishTaskHookDoneFrame, FinishTaskDoneFrame, NotifyFrame DEF ManagerStep, RM!FinishStep
  <2> QED
    BY <2>1, <2>3, QuietKeepsIInv
<1>2. ASSUME NEW r \in Runs, ManagerStep(r), RM!FinishTaskRuns(r) PROVE IInv'
  BY <1>2, FinishTaskRunsKeepsIInv DEF ManagerStep
<1>3. ASSUME (RM!Shutdown \/ RM!ShutdownStep) /\ UNCHANGED own PROVE IInv'
  BY <1>3, ManagerIsOK, ShutdownFrame, QuietKeepsIInv
<1> QED
  BY <1>1, <1>2, <1>3

-----------------------------------------------------------------------------
(* The statements of the registry.                                          *)

LEMMA ManagerStays ==
    ASSUME ManagerOK, UNCHANGED managerButRow, row' \in [Runs -> Rows]
    PROVE  ManagerOK'
<1>1. RM!TypeOK'
  BY DEF ManagerOK, RM!TypeOK, managerButRow, Rows, Terminal
<1>2. ASSUME NEW q \in Runs PROVE Life(q)'
  BY DEF ManagerOK, managerButRow, Life
<1> QED
  BY <1>1, <1>2 DEF ManagerOK

LEMMA RowTypes == ASSUME IInv PROVE row \in [Runs -> Rows]
BY DEF IInv, TypeOK, RM!TypeOK, Rows, Terminal

LEMMA FoundInTable == ASSUME IInv PROVE RestoresAreFound
<1> DEFINE c == Head(line)
           r == c[2]
<1> SUFFICES ASSUME line # <<>>, desk.stage = "open", c[1] # "start", r \notin details \cup failed
             PROVE  /\ c[1] \in Requests
                    /\ r \in overtaken \/ row[r] = "pruned" \/ starter[r] = "none"
  BY DEF RestoresAreFound
<1>1. c \in Callers /\ Waits(c)
  BY HeadWaits DEF IInv, TypeOK
<1>2. r \in Runs
  BY <1>1 DEF Callers
<1>3. OpInv(r) /\ TruthInv(r) /\ Life(r)
  BY <1>2 DEF IInv
<1>4. starter[r] # "add"
  <2>1. ASSUME starter[r] = "add" PROVE c = <<"start", r>>
    BY <1>2, <2>1, InsertionComesFirst DEF IInv, TypeOK
  <2> QED
    BY <2>1
<1>5. r \in overtaken \/ row[r] = "pruned" \/ starter[r] = "none"
  BY <1>3, <1>4 DEF TruthInv, KeptInv, Inserted
<1>6. c[1] \in Requests
  <2>1. ASSUME c[1] = "op" PROVE FALSE
    <3>1. op[r].at \in Waiting
      BY <1>1, <2>1, RestoreAssumption DEF Waits
    <3>2. pc[r] = "operation" /\ op[r].at \in Busy
      BY <1>3, <3>1 DEF OpInv, Busy
    <3>3. status[r] \in Active /\ status[r] # "absent"
      BY <1>3, <3>2 DEF Life, Active, RM!Active
    <3>4. row[r] = "running"
      BY <1>3, <3>2 DEF TruthInv, SoundInv, Reported, Served
    <3> QED
      BY <1>3, <1>5, <3>3, <3>4 DEF OpInv
  <2> QED
    BY <1>1, <2>1 DEF Callers
<1> QED
  BY <1>5, <1>6

LEMMA ReadKeepsIInv == ASSUME IInv, Read PROVE IInv'
<1>1. /\ up /\ line # <<>> /\ desk.stage = "open" /\ Head(line)[1] # "start"
      /\ UNCHANGED <<row, details>>
      /\ UNCHANGED <<managerButRow, line, orphans, restores, answers, overtaken>>
  BY DEF Read
<1>2. UNCHANGED <<up, used, status, pc, hook, row, details, line, orphans, pendingRestores,
                  starter, op, request, told, overtaken>>
  BY <1>1 DEF managerButRow, restores, answers
<1>3. PICK c \in Callers, r \in Runs : c = Head(line) /\ r = c[2] /\ Waits(c)
  BY <1>1, HeadWaits DEF IInv, TypeOK, Callers
<1>4. \/ /\ desk' = [stage  |-> IF r \in details /\ ~Looks(c) THEN "read" ELSE "done",
                     result |-> IF r \in details THEN "ok" ELSE "missing",
                     found  |-> IF r \in details THEN row[r] ELSE "none"]
         /\ failed' = failed
      \/ /\ desk' = [stage |-> "done", result |-> "error", found |-> "none"]
         /\ failed' = failed \cup {r}
  <2>1. desk = [stage |-> "open", result |-> "ok", found |-> "none"]
    BY <1>1 DEF IInv, DeskInv, NoCall
  <2> QED
    BY <1>3, <2>1 DEF Read, MayFail
<1>5. OpInv(r) /\ TruthInv(r) /\ AnswerInv(r) /\ Life(r)
  BY <1>3 DEF IInv
<1>6. failed \subseteq failed' /\ failed' \subseteq failed \cup {r}
  BY <1>4
<1>7. row \in [Runs -> Rows] /\ row' = row
  BY <1>2, RowTypes
<1>8. ManagerOK'
  BY <1>1, <1>7, ManagerIsOK, ManagerStays
<1>9. r \in details => row[r] \in Status
  BY <1>5 DEF OpInv
<1>10. RestOK'
  <2>1. /\ details \subseteq Runs /\ pendingRestores \subseteq Runs
        /\ orphans \subseteq Runs \X Status
        /\ starter \in [Runs -> {"none", "add", "discard", "done"}]
        /\ told \in [Runs -> SUBSET RM!Terminal]
        /\ failed' \subseteq Runs /\ overtaken \subseteq Runs
    BY <1>3, <1>6 DEF IInv, TypeOK
  <2>2. /\ op \in [Runs -> [at : {"none", "claim", "command", "report", "error", "unwind",
                                  "replaced", "ended"}, result : RM!Results]]
        /\ request \in [Requests -> [at : {"idle", "look", "settle"}, cancels : BOOLEAN,
                                     run : Runs, status : Status]]
    BY DEF IInv, TypeOK
  <2>3. desk' \in [stage : {"open", "read", "done"}, result : {"ok", "missing", "error"},
                   found : {"none"} \cup Status]
    BY <1>4, <1>9
  <2> QED
    BY <1>2, <2>1, <2>2, <2>3 DEF RestOK
<1>11. LineInv' /\ OrderInv'
  <2>1. \A d \in Callers : Waits(d)' <=> Waits(d)
    BY <1>2 DEF Waits
  <2> QED
    BY <1>2, <2>1, SameLine DEF IInv
<1>12. DeskInv'
  <2>1. r \in details \/ r \in failed \/ c[1] # "op"
    BY <1>1, <1>3, FoundInTable, RestoreAssumption DEF RestoresAreFound
  <2>2. c[1] = "op" /\ r \notin failed => row[r] = "running"
    <3>1. c[1] = "op" => op[r].at \in Busy
      BY <1>3, RestoreAssumption DEF Waits, Waiting, Busy
    <3> QED
      BY <1>1, <1>5, <3>1 DEF TruthInv, SoundInv, Reported, Served
  <2>3. Looks(c)' <=> Looks(c)
    BY <1>2 DEF Looks
  <2> QED
    BY <1>1, <1>2, <1>3, <1>4, <1>9, <2>1, <2>2, <2>3 DEF DeskInv
<1>13. ASSUME NEW q \in Runs PROVE SameState(q)
  BY <1>2, <1>6 DEF SameState
<1>14. ASSUME NEW q \in Runs \ {r} PROVE OpInv(q)' /\ TruthInv(q)' /\ AnswerInv(q)'
  <2>1. DeskFor(q) /\ SameAnswers(q)
    BY <1>1, <1>2, <1>3, DeskOfOthers
  <2>2. OpInv(q) /\ TruthInv(q) /\ AnswerInv(q) /\ \A x \in Requests : RequestInv(x)
    BY DEF IInv
  <2>3. told[q] \subseteq Terminal
    BY DEF IInv, TypeOK, Terminal
  <2> QED
    BY <1>13, <2>1, <2>2, <2>3, OpKept, TruthKept, AnswersKept
<1>15. OpInv(r)'
  BY <1>3, <1>5, <1>13, OpKept
<1>16. TruthInv(r)' /\ AnswerInv(r)'
  <2>1. ~Served(<<"start", r>>) /\ ~Served(<<"start", r>>)' /\ ~Reported(r)
    BY <1>1, <1>2, <1>3 DEF Served, Reported
  <2>2. \A st : HasRead(r, st)' => row[r] = st \/ r \in failed'
    BY <1>2, <1>3, <1>4 DEF HasRead
  <2>3. \A q : Served(<<q, r>>)' /\ Settles(q, r)' /\ q \in Requests => desk'.result # "ok"
    BY <1>2, <1>3, <1>4 DEF Served, Settles, Looks
  <2>4. CASE r \in failed'
    BY <1>2, <1>5, <2>4 DEF TruthInv, AnswerInv
  <2>5. CASE r \notin failed'
    <3>1. r \notin failed
      BY <1>6, <2>5
    <3>2. SoundInv(r)'
      BY <1>2, <1>5, <2>1, <3>1 DEF TruthInv, SoundInv
    <3>3. ASSUME r \notin overtaken
          PROVE  KeptInv(r)' /\ RowInv(r)' /\ RecordedInv(r)' /\ LiveInv(r)' /\ PastInv(r)'
      <4>1. KeptInv(r) /\ RowInv(r) /\ RecordedInv(r) /\ LiveInv(r) /\ PastInv(r)
        BY <1>5, <3>1, <3>3 DEF TruthInv, AnswerInv
      <4>2. KeptInv(r)'
        BY <1>2, <2>1, <4>1 DEF KeptInv, Inserted
      <4>3. RowInv(r)'
        BY <1>2, <2>1, <4>1 DEF RowInv
      <4>4. RecordedInv(r)'
        BY <1>2, <2>1, <2>2, <2>5, <4>1 DEF RecordedInv, Inserted, Terminal, RM!Terminal
      <4>5. LiveInv(r)'
        BY <1>2, <2>1, <2>2, <2>5, <4>1 DEF LiveInv, RowInv
      <4>6. PastInv(r)'
        <5>1. CASE status[r] # "absent"
          BY <1>2, <5>1 DEF PastInv
        <5>2. CASE status[r] = "absent"
          <6>1. /\ \A s, t \in told[r] : s = t
                /\ told[r] # {} => row[r] \in told[r] \cup {"pruned"}
                /\ \A q \in Requests : Settles(q, r) =>
                      /\ request[q].status = "unexpected_error"
                      /\ row[r] \in {"running", "unexpected_error", "pruned"}
                      /\ told[r] \subseteq {"unexpected_error"}
            BY <4>1, <5>2 DEF PastInv, Settles
          <6>2. /\ "pruned" \notin Terminal /\ "running" \notin Terminal
            BY DEF Terminal, RM!Terminal
          <6>3. \A st \in Terminal : HasRead(r, st)' => told[r] \subseteq {st} /\ row[r] = st
            BY <2>2, <2>5, <6>1, <6>2
          <6>4. HasRead(r, "running")' => row[r] = "running"
            BY <2>2, <2>5
          <6>5. ASSUME NEW q \in Requests, request[q].at = "settle", request[q].run = r
                PROVE  /\ request[q].status = "unexpected_error"
                       /\ row[r] \in {"running", "unexpected_error", "pruned"}
                       /\ told[r] \subseteq {"unexpected_error"}
                       /\ \A st \in Terminal : HasRead(r, st)' => st = "unexpected_error"
                       /\ ~(Served(<<q, r>>)' /\ desk'.result = "ok")
            <7>1. Settles(q, r) /\ Settles(q, r)'
              BY <1>2, <6>5 DEF Settles
            <7> QED
              BY <2>2, <2>3, <2>5, <6>1, <6>2, <7>1
          <6> QED
            BY <1>2, <6>1, <6>3, <6>4, <6>5 DEF PastInv
        <5> QED
          BY <5>1, <5>2
      <4> QED
        BY <4>2, <4>3, <4>4, <4>5, <4>6
    <3>4. told'[r] # {} => up' /\ r \in used'
      BY <1>2, <1>5 DEF AnswerInv
    <3> QED
      BY <1>2, <3>2, <3>3, <3>4 DEF TruthInv, AnswerInv
  <2> QED
    BY <2>4, <2>5
<1>17. OrphanInv'
  BY <1>2 DEF IInv, OrphanInv
<1>18. ASSUME NEW q \in Requests PROVE RequestInv(q)'
  BY <1>2 DEF IInv, RequestInv
<1>19. line' \in Seq(Callers)
  BY <1>2 DEF IInv, TypeOK
<1>20. TypeOK' /\ \A q \in Runs : Life(q)'
  BY <1>8, <1>10, <1>19, Types DEF ManagerOK
<1> QED
  BY <1>11, <1>12, <1>14, <1>15, <1>16, <1>17, <1>18, <1>20 DEF IInv

\* What a statement for another run does to the row and the details of q.
LEMMA OthersAreSame ==
    ASSUME IInv, NEW q \in Runs, PrunedAtMost(q),
           q \in details' <=> q \in details /\ row'[q] \in Status
    PROVE  \/ row'[q] = row[q] /\ (q \in details' <=> q \in details)
           \/ row[q] \in Terminal /\ row'[q] = "pruned" /\ q \notin details'
<1>1. q \in details => row[q] \in Status
  BY DEF IInv, OpInv
<1>2. "pruned" \notin Status
  BY DEF Status, RM!Terminal
<1> QED
  BY <1>1, <1>2 DEF PrunedAtMost

\* The status that the head of the line is about to write.
LEMMA WrittenStatus ==
    ASSUME IInv, line # <<>>, NEW c, c = Head(line), NEW r \in Runs, r = c[2],
           desk.stage = IF c[1] = "start" THEN "open" ELSE "read"
    PROVE  /\ Writes(c) \in Status
           /\ c[1] = "start" => Writes(c) = "running" /\ starter[r] \in {"add", "discard"}
           /\ c[1] = "op" /\ r \notin failed =>
                 \/ Writes(c) = "running"
                 \/ /\ op[r].at \in {"error", "replaced"}
                    /\ Writes(c) = RM!Outcome(r, op[r].result)
           /\ c[1] = "op" => pc[r] = "operation"
           /\ c[1] \in Requests => /\ Settles(c[1], r) /\ Writes(c) = request[c[1]].status
                                   /\ status[r] \notin Active /\ Writes(c) \in Terminal
<1>1. c \in Callers /\ Waits(c)
  BY HeadWaits DEF IInv, TypeOK
<1>2. c[1] = "start" \/ c[1] = "op" \/ c[1] \in Requests
  BY <1>1 DEF Callers
<1>3. CASE c[1] = "start"
  BY <1>1, <1>3, RestoreAssumption DEF Writes, Waits, Status
<1>4. CASE c[1] \in Requests
  <2>1. request[c[1]].at # "idle" /\ request[c[1]].run = r
    BY <1>1, <1>4, RestoreAssumption DEF Waits
  <2>2. ~Looks(c)
    BY <1>4, RestoreAssumption DEF IInv, DeskInv
  <2>3. Settles(c[1], r)
    BY <1>4, <2>1, <2>2 DEF Looks, Settles, IInv, TypeOK
  <2>4. Writes(c) = request[c[1]].status
    BY <1>4, RestoreAssumption DEF Writes
  <2>5. status[r] \notin Active /\ request[c[1]].status \in Terminal
    BY <1>4, <2>3 DEF IInv, RequestInv, Settles
  <2>6. request[c[1]].status \in Status
    BY <1>4 DEF IInv, TypeOK
  <2> QED
    BY <1>4, <2>3, <2>4, <2>5, <2>6, RestoreAssumption
<1>5. CASE c[1] = "op"
  <2>1. op[r].at \in Waiting /\ c[1] # "start" /\ c[1] \notin Requests
    BY <1>1, <1>5, RestoreAssumption DEF Waits
  <2>2. pc[r] = "operation"
    BY <2>1 DEF IInv, OpInv, Busy
  <2>3. desk.found \in Status /\ (r \notin failed => desk.found = "running")
    BY <1>5, <2>1 DEF IInv, DeskInv
  <2>4. op[r].result \in RM!Results
    BY DEF IInv, TypeOK
  <2>5. RM!Outcome(r, op[r].result) \in Terminal
    BY <2>4, Outcomes
  <2>6. CASE op[r].at = "claim"
    BY <1>5, <2>1, <2>2, <2>6 DEF Writes, Status
  <2>7. CASE op[r].at \in {"error", "replaced"}
    BY <1>5, <2>1, <2>2, <2>5, <2>7 DEF Writes, Status, Terminal
  <2>8. CASE op[r].at \notin {"claim", "error", "replaced"}
    BY <1>5, <2>1, <2>2, <2>3, <2>8 DEF Writes
  <2> QED
    BY <2>6, <2>7, <2>8
<1> QED
  BY <1>2, <1>3, <1>4, <1>5

\* A statement of the head has written st in the row of r.
LEMMA WrittenTruth ==
    ASSUME IInv, line # <<>>, NEW c, c = Head(line), NEW r \in Runs, r = c[2], up,
           desk.stage = IF c[1] = "start" THEN "open" ELSE "read",
           desk' = [desk EXCEPT !.stage = "done"],
           UNCHANGED <<up, used, status, pc, hook, line, orphans, starter, op, request, told,
                       failed, overtaken>>,
           row'[r] = Writes(c), r \in details', r \notin failed
    PROVE  TruthInv(r)' /\ AnswerInv(r)'
<1> DEFINE st == Writes(c)
<1>1. /\ st \in Status
      /\ c[1] = "start" => st = "running" /\ starter[r] \in {"add", "discard"}
      /\ c[1] = "op" => \/ st = "running"
                        \/ op[r].at \in {"error", "replaced"} /\ st = RM!Outcome(r, op[r].result)
      /\ c[1] = "op" => pc[r] = "operation"
      /\ c[1] \in Requests => /\ Settles(c[1], r) /\ st = request[c[1]].status
                              /\ status[r] \notin Active /\ st \in Terminal
  BY WrittenStatus
<1> HIDE DEF st
<1>2. row'[r] = st
  BY DEF st
<1>3. c \in Callers /\ Waits(c)
  BY HeadWaits DEF IInv, TypeOK
<1>4. c[1] = "start" \/ c[1] = "op" \/ c[1] \in Requests
  BY <1>3 DEF Callers
<1>5. OpInv(r) /\ TruthInv(r) /\ AnswerInv(r) /\ Life(r)
  BY DEF IInv
<1>6. /\ c' = c
      /\ \A d : ~Served(d)
      /\ \A d : Served(d)' <=> d = c
      /\ \A t : ~HasRead(r, t)
  BY DEF Served, HasRead, IInv, TypeOK
<1>7. \A t : ~HasRead(r, t)'
  <2>1. ~Looks(c)
    BY <1>1, <1>4, RestoreAssumption DEF Looks, Settles
  <2> QED
    BY <2>1 DEF HasRead, Looks
<1>8. "running" \notin Terminal /\ "pruned" \notin Terminal /\ "absent" \notin Terminal
  BY DEF Terminal, RM!Terminal
<1>9. /\ c = <<"start", r>> <=> c[1] = "start"
      /\ c = <<"op", r>> <=> c[1] = "op"
      /\ \A q \in Requests : c = <<q, r>> <=> c[1] = q
  BY <1>3 DEF Callers
<1>10. Reported(r)' <=> c[1] = "op" /\ op[r].at \in {"error", "replaced"}
  BY <1>6, <1>9 DEF Reported
<1>11. ~Reported(r)
  BY <1>6 DEF Reported
<1>12. op[r].at \in Busy <=> pc[r] = "operation"
  BY <1>5 DEF OpInv
<1>13. SoundInv(r)'
  <2>1. CASE c[1] = "start"
    BY <1>1, <1>2, <2>1 DEF SoundInv
  <2>2. CASE c[1] = "op"
    <3>1. hook[r] # "created"
      BY <1>1, <1>5, <2>2 DEF Life
    <3> QED
      BY <1>1, <1>2, <1>10, <2>2, <3>1 DEF SoundInv
  <2>3. CASE c[1] \in Requests
    <3>1. status[r] \notin Active /\ pc[r] # "operation" /\ hook[r] # "created"
      BY <1>1, <1>5, <2>3 DEF Life, Active, RM!Active
    <3> QED
      BY <1>12, <3>1 DEF SoundInv
  <2> QED
    BY <1>4, <2>1, <2>2, <2>3
<1>14. ASSUME r \notin overtaken
       PROVE  KeptInv(r)' /\ RowInv(r)' /\ RecordedInv(r)' /\ LiveInv(r)' /\ PastInv(r)'
  <2>1. KeptInv(r) /\ RowInv(r) /\ RecordedInv(r) /\ LiveInv(r) /\ PastInv(r)
    BY <1>5, <1>14 DEF TruthInv, AnswerInv
  <2>2. KeptInv(r)'
    BY DEF KeptInv
  <2>3. LiveInv(r)'
    BY <1>7, <2>1 DEF LiveInv
  <2>4. CASE c[1] = "start"
    <3>1. starter[r] = "add"
      BY <1>1, <1>5, <2>4 DEF OpInv
    <3>2. ~Inserted(r) /\ status[r] # "absent"
      BY <1>5, <1>6, <3>1 DEF Inserted, OpInv
    <3>3. RowInv(r)'
      BY <1>1, <1>2, <1>8, <2>4 DEF RowInv
    <3>4. RecordedInv(r)'
      BY <2>1, <3>2 DEF RecordedInv
    <3>5. PastInv(r)'
      BY <3>2 DEF PastInv
    <3> QED
      BY <2>2, <2>3, <3>3, <3>4, <3>5
  <2>5. CASE c[1] = "op"
    <3>1. status[r] = "running"
      BY <1>1, <1>5, <2>5 DEF Life
    <3>2. RowInv(r)'
      BY <1>1, <1>2, <1>8, <1>10, <2>5 DEF RowInv
    <3>3. RecordedInv(r)'
      BY <1>8, <3>1 DEF RecordedInv
    <3>4. PastInv(r)'
      BY <3>1 DEF PastInv
    <3> QED
      BY <2>2, <2>3, <3>2, <3>3, <3>4
  <2>6. CASE c[1] \in Requests
    <3>1. st \in Terminal /\ st = request[c[1]].status /\ Settles(c[1], r)
      BY <1>1, <2>6
    <3>2. CASE status[r] # "absent"
      <4>1. status[r] = st
        BY <2>1, <2>6, <3>1, <3>2 DEF LiveInv, Settles
      <4>2. RowInv(r)'
        BY <1>2, <4>1 DEF RowInv
      <4>3. Inserted(r) => Inserted(r)'
        BY <1>6 DEF Inserted
      <4>4. RecordedInv(r)'
        BY <1>2, <1>7, <2>1, <4>1, <4>3 DEF RecordedInv
      <4>5. PastInv(r)'
        BY <3>2 DEF PastInv
      <4> QED
        BY <2>2, <2>3, <4>2, <4>4, <4>5
    <3>3. CASE status[r] = "absent"
      <4>1. /\ \A s, t \in told[r] : s = t
            /\ \A q \in Requests : Settles(q, r) =>
                  /\ request[q].status = "unexpected_error"
                  /\ told[r] \subseteq {"unexpected_error"}
        BY <2>1, <3>3 DEF PastInv, Settles
      <4>2. st = "unexpected_error" /\ told[r] \subseteq {"unexpected_error"}
        BY <2>6, <3>1, <4>1
      <4>3. RowInv(r)' /\ RecordedInv(r)'
        BY <1>8, <3>3 DEF RowInv, RecordedInv
      <4>4. told[r] # {} => row'[r] \in told[r] \cup {"pruned"}
        BY <1>2, <4>2
      <4>5. PastInv(r)'
        BY <1>2, <1>7, <4>1, <4>2, <4>4 DEF PastInv, Settles, Terminal, RM!Terminal
      <4> QED
        BY <2>2, <2>3, <4>3, <4>5
    <3> QED
      BY <3>2, <3>3
  <2> QED
    BY <1>4, <2>4, <2>5, <2>6
<1>15. told'[r] # {} => up' /\ r \in used'
  BY <1>5 DEF AnswerInv
<1> QED
  BY <1>13, <1>14, <1>15 DEF TruthInv, AnswerInv

LEMMA WriteKeepsIInv == ASSUME IInv, Write PROVE IInv'
<1>1. /\ up /\ line # <<>> /\ desk.stage = IF Head(line)[1] = "start" THEN "open" ELSE "read"
      /\ UNCHANGED <<managerButRow, line, orphans, restores, answers, overtaken>>
  BY DEF Write
<1>2. UNCHANGED <<up, used, status, pc, hook, line, orphans, pendingRestores, starter, op,
                  request, told, overtaken>>
  BY <1>1 DEF managerButRow, restores, answers
<1>3. PICK c \in Callers, r \in Runs : c = Head(line) /\ r = c[2] /\ Waits(c)
  BY <1>1, HeadWaits DEF IInv, TypeOK, Callers
<1> DEFINE st == Writes(c)
           discards == c[1] = "start" /\ starter[r] = "discard"
<1>4. st \in Status
  BY <1>1, <1>3, WrittenStatus
<1>5. OpInv(r) /\ TruthInv(r) /\ AnswerInv(r) /\ Life(r)
  BY <1>3 DEF IInv
<1>6. row \in [Runs -> Rows]
  BY RowTypes
<1>7. Status \subseteq Rows /\ "none" \in Rows /\ "none" \notin Status /\ "pruned" \notin Status
  BY DEF Status, Rows, Terminal, RM!Terminal
<1>8. \A q \in Runs : q \in details => row[q] \in Status
  BY DEF IInv, OpInv
<1>9. details \subseteq Runs
  BY DEF IInv, TypeOK
<1>10. status[r] # "absent"
       \/ c[1] \in Requests
  <2>1. c[1] = "start" => starter[r] # "none"
    BY <1>3, RestoreAssumption DEF Waits
  <2>2. c[1] = "op" => pc[r] = "operation"
    BY <1>1, <1>3, WrittenStatus
  <2> QED
    BY <1>3, <1>5, <2>1, <2>2 DEF Callers, OpInv, Life
<1>11. r \in used
  <2>1. CASE c[1] \in Requests
    BY <1>3, <2>1, RestoreAssumption DEF Waits, IInv, RequestInv
  <2>2. CASE c[1] \notin Requests
    BY <1>5, <1>10, <2>2 DEF Life
  <2> QED
    BY <2>1, <2>2
<1>12. \/ /\ discards /\ row' = [row EXCEPT ![r] = "none"] /\ Cascade(details)
       \/ ~discards /\ Upsert(r, st)
       \/ UNCHANGED <<row, details>> /\ MayFail(r)
       \/ /\ row' = [row EXCEPT ![r] = st] /\ details' \in {details, details \cup {r}}
          /\ MayFail(r)
  BY <1>3 DEF Write, UpsertedInPart
<1>13. \/ desk' = [desk EXCEPT !.stage = "done"] /\ failed' = failed /\ (discards \/ Upsert(r, st))
       \/ MayFail(r)
  BY <1>3 DEF Write
<1>14. /\ \/ desk' = [desk EXCEPT !.stage = "done"] /\ failed' = failed
          \/ /\ desk' = [desk EXCEPT !.stage = "done", !.result = "error"]
             /\ failed' = failed \cup {r}
       /\ failed \subseteq failed' /\ failed' \subseteq failed \cup {r}
  BY <1>13 DEF MayFail
<1> HIDE DEF st
<1>15. /\ row' \in [Runs -> Rows] /\ details' \subseteq Runs
       /\ r \in details' => row'[r] \in Status
       /\ \A q \in Runs \ {r} : /\ PrunedAtMost(q)
                                /\ q \in details' <=> q \in details /\ row'[q] \in Status
  <2>1. CASE discards /\ row' = [row EXCEPT ![r] = "none"] /\ Cascade(details)
    BY <1>6, <1>7, <1>9, <2>1 DEF Cascade, PrunedAtMost
  <2>2. CASE Upsert(r, st)
    BY <1>4, <1>6, <1>9, <2>2, UpsertFrame
  <2>3. CASE UNCHANGED <<row, details>>
    BY <1>3, <1>6, <1>8, <1>9, <2>3 DEF PrunedAtMost
  <2>4. CASE row' = [row EXCEPT ![r] = st] /\ details' \in {details, details \cup {r}}
    BY <1>4, <1>6, <1>7, <1>8, <1>9, <2>4 DEF PrunedAtMost
  <2> QED
    BY <1>12, <2>1, <2>2, <2>3, <2>4
<1>16. ManagerOK'
  BY <1>1, <1>15, ManagerIsOK, ManagerStays
<1>17. RestOK'
  <2>1. /\ details' \subseteq Runs /\ pendingRestores \subseteq Runs
        /\ orphans \subseteq Runs \X Status
        /\ starter \in [Runs -> {"none", "add", "discard", "done"}]
        /\ told \in [Runs -> SUBSET RM!Terminal]
        /\ failed' \subseteq Runs /\ overtaken \subseteq Runs
    BY <1>3, <1>14, <1>15 DEF IInv, TypeOK
  <2>2. /\ op \in [Runs -> [at : {"none", "claim", "command", "report", "error", "unwind",
                                  "replaced", "ended"}, result : RM!Results]]
        /\ request \in [Requests -> [at : {"idle", "look", "settle"}, cancels : BOOLEAN,
                                     run : Runs, status : Status]]
    BY DEF IInv, TypeOK
  <2>3. desk' \in [stage : {"open", "read", "done"}, result : {"ok", "missing", "error"},
                   found : {"none"} \cup Status]
    BY <1>14 DEF IInv, TypeOK
  <2> QED
    BY <1>2, <2>1, <2>2, <2>3 DEF RestOK
<1>18. LineInv' /\ OrderInv'
  <2>1. \A d \in Callers : Waits(d)' <=> Waits(d)
    BY <1>2 DEF Waits
  <2> QED
    BY <1>2, <2>1, SameLine DEF IInv
<1>19. DeskInv'
  <2>1. Looks(c)' <=> Looks(c)
    BY <1>2 DEF Looks
  <2>2. /\ desk.result = "ok"
        /\ ~Looks(c)
    <3>1. CASE c[1] = "start"
      BY <1>1, <1>3, <3>1, RestoreAssumption DEF IInv, DeskInv, NoCall, Looks
    <3>2. CASE c[1] # "start"
      BY <1>1, <1>3, <3>2 DEF IInv, DeskInv
    <3> QED
      BY <3>1, <3>2
  <2>3. /\ desk'.stage = "done" /\ desk'.result \in {"ok", "error"}
        /\ desk'.result = "error" => r \in failed'
    BY <1>14, <2>2 DEF IInv, TypeOK
  <2> QED
    BY <1>1, <1>2, <1>3, <2>1, <2>2, <2>3 DEF DeskInv
<1>20. ASSUME NEW q \in Runs \ {r} PROVE OpInv(q)' /\ TruthInv(q)' /\ AnswerInv(q)'
  <2>1. DeskFor(q) /\ SameAnswers(q)
    BY <1>1, <1>2, <1>3, DeskOfOthers
  <2>2. \/ row'[q] = row[q] /\ (q \in details' <=> q \in details)
        \/ row[q] \in Terminal /\ row'[q] = "pruned" /\ q \notin details'
    BY <1>15, OthersAreSame
  <2>3. SameState(q)
    BY <1>2, <1>14, <2>2 DEF SameState
  <2>4. OpInv(q) /\ TruthInv(q) /\ AnswerInv(q) /\ \A x \in Requests : RequestInv(x)
    BY DEF IInv
  <2>5. told[q] \subseteq Terminal
    BY DEF IInv, TypeOK, Terminal
  <2> QED
    BY <2>1, <2>3, <2>4, <2>5, OpKept, TruthKept, AnswersKept
<1>21. OpInv(r)'
  BY <1>2, <1>5, <1>11, <1>14, <1>15 DEF OpInv
<1>22. TruthInv(r)' /\ AnswerInv(r)'
  <2>1. CASE r \in failed'
    BY <1>2, <1>5, <2>1 DEF TruthInv, AnswerInv
  <2>2. CASE r \notin failed'
    <3>1. ~discards
      BY <1>5, <1>14, <2>2 DEF OpInv
    <3>2. /\ desk' = [desk EXCEPT !.stage = "done"] /\ failed' = failed /\ Upsert(r, st)
      BY <1>13, <2>2, <3>1 DEF MayFail
    <3>3. row'[r] = Writes(c) /\ r \in details'
      BY <1>4, <1>6, <3>2, UpsertFrame DEF st
    <3> QED
      BY <1>1, <1>2, <1>3, <2>2, <3>2, <3>3, WrittenTruth
  <2> QED
    BY <2>1, <2>2
<1>23. OrphanInv'
  BY <1>2 DEF IInv, OrphanInv
<1>24. ASSUME NEW q \in Requests PROVE RequestInv(q)'
  BY <1>2 DEF IInv, RequestInv
<1>25. line' \in Seq(Callers)
  BY <1>2 DEF IInv, TypeOK
<1>26. TypeOK' /\ \A q \in Runs : Life(q)'
  BY <1>16, <1>17, <1>25, Types DEF ManagerOK
<1> QED
  BY <1>18, <1>19, <1>20, <1>21, <1>22, <1>23, <1>24, <1>26 DEF IInv

\* An upsert without its caller writes "running" while its operation unwinds, or a status
\* of a run that does not count any more.
LEMMA OrphanLandsKeepsIInv == ASSUME IInv, OrphanLands PROVE IInv'
<1>1. /\ up /\ \E o \in orphans : Upsert(o[1], o[2]) /\ orphans' = orphans \ {o}
      /\ UNCHANGED <<managerButRow, line, desk, restores, answers, ghosts>>
  BY DEF OrphanLands
<1>2. UNCHANGED <<up, used, status, pc, hook, line, desk, pendingRestores, starter, op,
                  request, told, failed, overtaken>>
  BY <1>1 DEF managerButRow, restores, answers, ghosts
<1>3. PICK r \in Runs, st \in Status :
         <<r, st>> \in orphans /\ Upsert(r, st) /\ orphans' = orphans \ {<<r, st>>}
  <2>1. PICK o \in orphans : Upsert(o[1], o[2]) /\ orphans' = orphans \ {o}
    BY <1>1
  <2>2. o \in Runs \X Status
    BY DEF IInv, TypeOK
  <2>3. o[1] \in Runs /\ o[2] \in Status /\ o = <<o[1], o[2]>>
    BY <2>2
  <2> QED
    BY <2>1, <2>3
<1>4. /\ row' \in [Runs -> Rows] /\ row'[r] = st
      /\ \A q \in Runs \ {r} : PrunedAtMost(q)
      /\ details' = {q \in details \cup {r} : row'[q] \in Status}
  BY <1>3, RowTypes, UpsertFrame
<1>5. OpInv(r) /\ TruthInv(r) /\ AnswerInv(r) /\ Life(r)
  BY DEF IInv
<1>6. op[r].at \in {"unwind", "ended"} /\ (st = "running" \/ r \in overtaken)
  BY <1>3 DEF IInv, OrphanInv
<1>7. status[r] # "absent"
  BY <1>5, <1>6 DEF OpInv, Life
<1>8. ManagerOK'
  BY <1>1, <1>4, ManagerIsOK, ManagerStays
<1>9. RestOK'
  BY <1>2, <1>3, <1>4 DEF IInv, TypeOK, RestOK
<1>10. LineInv' /\ OrderInv'
  <2>1. \A d \in Callers : Waits(d)' <=> Waits(d)
    BY <1>2 DEF Waits
  <2> QED
    BY <1>2, <2>1, SameLine DEF IInv
<1>11. DeskInv'
  BY <1>2 DEF IInv, DeskInv, Looks
<1>12. /\ \A c : Served(c)' <=> Served(c)
       /\ \A q, t : HasRead(q, t)' <=> HasRead(q, t)
  BY <1>2 DEF Served, HasRead, Looks
<1>13. ASSUME NEW q \in Runs PROVE DeskFor(q) /\ SameAnswers(q)
  BY <1>2, <1>12 DEF DeskFor, Inserted, Reported, SameAnswers, Settles, HasSettled
<1>14. ASSUME NEW q \in Runs \ {r} PROVE OpInv(q)' /\ TruthInv(q)' /\ AnswerInv(q)'
  <2>1. q \in details' <=> q \in details /\ row'[q] \in Status
    BY <1>4
  <2>2. \/ row'[q] = row[q] /\ (q \in details' <=> q \in details)
        \/ row[q] \in Terminal /\ row'[q] = "pruned" /\ q \notin details'
    BY <1>4, <2>1, OthersAreSame
  <2>3. SameState(q)
    BY <1>2, <1>3, <2>2 DEF SameState
  <2>4. OpInv(q) /\ TruthInv(q) /\ AnswerInv(q) /\ \A x \in Requests : RequestInv(x)
    BY DEF IInv
  <2>5. told[q] \subseteq Terminal
    BY DEF IInv, TypeOK, Terminal
  <2> QED
    BY <1>13, <2>3, <2>4, <2>5, OpKept, TruthKept, AnswersKept
<1>15. OpInv(r)'
  BY <1>2, <1>4, <1>5, <1>7 DEF OpInv, Life
<1>16. TruthInv(r)' /\ AnswerInv(r)'
  <2>1. SoundInv(r)'
    <3>1. status[r] \in Active => row'[r] = "running"
      BY <1>4, <1>5, <1>6 DEF OpInv
    <3>2. hook[r] # "created" \/ pc[r] = "startHook"
      BY <1>5 DEF Life
    <3>3. pc[r] # "startHook"
      BY <1>5, <1>6 DEF OpInv
    <3>4. op[r].at \in Busy => status[r] \in Active
      BY <1>5 DEF OpInv, Life, Active, RM!Active
    <3> QED
      BY <1>2, <3>1, <3>2, <3>3, <3>4 DEF SoundInv
  <2>2. ASSUME r \notin failed \cup overtaken
        PROVE  KeptInv(r)' /\ RowInv(r)' /\ RecordedInv(r)' /\ LiveInv(r)' /\ PastInv(r)'
    <3>1. RecordedInv(r) /\ LiveInv(r)
      BY <1>5, <2>2 DEF TruthInv, AnswerInv
    <3>2. KeptInv(r)'
      BY <1>4 DEF KeptInv
    <3>3. row'[r] = "running" /\ "running" \notin Terminal
      BY <1>4, <1>6, <2>2 DEF Terminal, RM!Terminal
    <3>4. ~(status[r] \in Terminal /\ hook[r] # "record")
      BY <1>3, <3>1 DEF RecordedInv
    <3>5. RowInv(r)' /\ RecordedInv(r)'
      BY <1>2, <3>3, <3>4 DEF RowInv, RecordedInv
    <3>6. LiveInv(r)'
      BY <1>2, <1>12, <3>1 DEF LiveInv
    <3>7. PastInv(r)'
      BY <1>2, <1>7 DEF PastInv
    <3> QED
      BY <3>2, <3>5, <3>6, <3>7
  <2>3. told'[r] # {} => up' /\ r \in used'
    BY <1>2, <1>5 DEF AnswerInv
  <2> QED
    BY <1>2, <2>1, <2>2, <2>3 DEF TruthInv, AnswerInv
<1>17. OrphanInv'
  BY <1>2, <1>3 DEF IInv, OrphanInv
<1>18. ASSUME NEW q \in Requests PROVE RequestInv(q)'
  BY <1>2 DEF IInv, RequestInv
<1>19. line' \in Seq(Callers)
  BY <1>2 DEF IInv, TypeOK
<1>20. TypeOK' /\ \A q \in Runs : Life(q)'
  BY <1>8, <1>9, <1>19, Types DEF ManagerOK
<1> QED
  BY <1>10, <1>11, <1>14, <1>15, <1>16, <1>17, <1>18, <1>20 DEF IInv

-----------------------------------------------------------------------------
(* start_restore.                                                           *)

\* A run that is not used yet is in nobody's hands.
LEMMA UnusedRun ==
    ASSUME IInv, NEW r \in Runs, r \notin used
    PROVE  /\ status[r] = "absent" /\ pc[r] = "none" /\ row[r] = "none"
           /\ starter[r] = "none" /\ op[r].at = "none" /\ told[r] = {}
           /\ \A q \in Requests : request[q].at # "idle" => request[q].run # r
           /\ \A i \in DOMAIN line : line[i][2] # r
           /\ r \notin overtaken
<1>1. OpInv(r) /\ AnswerInv(r) /\ Life(r) /\ \A q \in Requests : RequestInv(q)
  BY DEF IInv
<1>2. /\ status[r] = "absent" /\ pc[r] = "none" /\ row[r] = "none"
      /\ starter[r] = "none" /\ op[r].at = "none" /\ told[r] = {} /\ r \notin overtaken
  BY <1>1 DEF OpInv, AnswerInv, Life
<1>3. \A q \in Requests : request[q].at # "idle" => request[q].run # r
  BY <1>1 DEF RequestInv
<1>4. ASSUME NEW i \in DOMAIN line, line[i][2] = r PROVE FALSE
  <2>1. line[i] \in Callers
    BY LineDomain DEF IInv, TypeOK
  <2>2. Waits(line[i])
    BY <2>1 DEF IInv, LineInv, InLine
  <2> QED
    BY <1>2, <1>3, <1>4, <2>2 DEF Waits, Waiting
<1> QED
  BY <1>2, <1>3, <1>4

LEMMA StartRestoreKeepsIInv == ASSUME IInv, NEW r \in Runs, StartRestore(r) PROVE IInv'
<1> DEFINE c == <<"start", r>>
<1>1. /\ RM!Start(r) /\ pendingRestores' = pendingRestores \cup {r}
      /\ starter' = [starter EXCEPT ![r] = "add"] /\ Enter(c)
      /\ UNCHANGED <<details, orphans, op, request, told, failed, overtaken>>
  BY DEF StartRestore, answers, ghosts
<1>2. /\ ManagerOK'
      /\ up /\ r \notin used /\ used' = used \cup {r}
      /\ status' = [status EXCEPT ![r] = "queued"] /\ pc' = [pc EXCEPT ![r] = "created"]
      /\ UNCHANGED <<up, hook, row>>
  BY <1>1, ManagerIsOK, StartFrame
<1>3. /\ status \in [Runs -> {"absent"} \cup RM!Active \cup RM!Terminal]
      /\ pc \in [Runs -> {"none", "created", "startHook", "operation", "finishing",
                          "finishingCancelled", "returned", "cancelled", "gone"}]
      /\ starter \in [Runs -> {"none", "add", "discard", "done"}]
  BY DEF IInv, TypeOK, RM!TypeOK
<1>4. /\ status'[r] = "queued" /\ pc'[r] = "created" /\ starter'[r] = "add"
      /\ \A q \in Runs \ {r} : /\ status'[q] = status[q] /\ pc'[q] = pc[q]
                               /\ starter'[q] = starter[q] /\ (q \in used' <=> q \in used)
                               /\ q \in pendingRestores' <=> q \in pendingRestores
  BY <1>1, <1>2, <1>3
<1>5. /\ status[r] = "absent" /\ pc[r] = "none" /\ row[r] = "none"
      /\ starter[r] = "none" /\ op[r].at = "none" /\ told[r] = {}
      /\ \A q \in Requests : request[q].at # "idle" => request[q].run # r
      /\ \A i \in DOMAIN line : line[i][2] # r
      /\ r \notin overtaken
  BY <1>2, UnusedRun
<1>6. c \in Callers /\ ~Waits(c)
  BY <1>5, RestoreAssumption DEF Callers, Waits
<1>7. \A d \in Callers : Waits(d)' <=> Waits(d) \/ d = c
  BY <1>1, <1>4, <1>5, RestoreAssumption DEF Waits, Callers
<1>8. \A q \in Runs : starter'[q] = "add" =>
         \/ starter[q] = "add" /\ c # <<"start", q>>
         \/ \A i \in DOMAIN line : line[i][2] # q
  BY <1>4, <1>5
<1>9. /\ line' \in Seq(Callers) /\ LineInv' /\ OrderInv'
      /\ HeadStays \/ (line = <<>> /\ Freed)
  <2>1. line \in Seq(Callers) /\ LineInv /\ OrderInv /\ DeskInv
    BY DEF IInv, TypeOK
  <2> HIDE DEF c
  <2> QED
    BY <1>1, <1>6, <1>7, <1>8, <2>1, EnterKeepsLine
<1>10. /\ DeskInv'
       /\ HeadStays => /\ \A d : Served(d)' <=> Served(d)
                       /\ \A q, st : HasRead(q, st)' <=> HasRead(q, st)
  <2>1. line \in Seq(Callers) /\ DeskInv
    BY DEF IInv, TypeOK
  <2> QED
    BY <1>1, <1>2, <1>9, <2>1, StayingDesk, FreedDesk
<1>11. ASSUME NEW q \in Runs \ {r} PROVE OpInv(q)' /\ TruthInv(q)' /\ AnswerInv(q)'
  <2>1. DeskFor(q)
    BY <1>1, <1>2, <1>4, <1>9, <1>10, StayingFor, FreedFor
  <2>2. SameAnswers(q)
    BY <1>1, <1>2, <1>9, AnswersStay
  <2>3. SameState(q)
    BY <1>1, <1>2, <1>4 DEF SameState
  <2>4. OpInv(q) /\ TruthInv(q) /\ AnswerInv(q) /\ \A x \in Requests : RequestInv(x)
    BY DEF IInv
  <2>5. told[q] \subseteq Terminal
    BY DEF IInv, TypeOK, Terminal
  <2> QED
    BY <2>1, <2>2, <2>3, <2>4, <2>5, OpKept, TruthKept, AnswersKept
<1>12. OpInv(r)'
  <2>1. OpInv(r)
    BY DEF IInv
  <2> QED
    BY <1>1, <1>2, <1>4, <1>5, <2>1 DEF OpInv, Busy, Waiting
<1>13. TruthInv(r)' /\ AnswerInv(r)'
  <2>1. ~Served(c)' /\ \A st : ~HasRead(r, st)'
    <3>1. CASE Freed
      BY <3>1, FreedDesk
    <3>2. CASE HeadStays
      <4>1. Head(line)[2] # r
        BY <1>5, <3>2, HeadOfLine DEF HeadStays, IInv, TypeOK
      <4> QED
        BY <1>10, <3>2, <4>1 DEF HasRead, Served
    <3> QED
      BY <1>9, <3>1, <3>2
  <2>2. row'[r] = "none" /\ told'[r] = {} /\ status'[r] = "queued" /\ starter'[r] = "add"
    BY <1>1, <1>2, <1>4, <1>5
  <2>3. hook'[r] # "created" /\ op'[r].at \notin Busy
    BY <1>1, <1>2, <1>5 DEF IInv, Life, Busy, Waiting
  <2>4. "none" \notin Terminal /\ "queued" \notin Terminal
    BY DEF Terminal, RM!Terminal
  <2>5. SoundInv(r)' /\ KeptInv(r)' /\ RowInv(r)' /\ RecordedInv(r)' /\ PastInv(r)'
    BY <2>1, <2>2, <2>3, <2>4 DEF SoundInv, KeptInv, Inserted, RowInv, RecordedInv, PastInv
  <2>6. LiveInv(r)'
    BY <1>1, <1>5, <2>1, <2>2 DEF LiveInv
  <2> QED
    BY <2>2, <2>5, <2>6 DEF TruthInv, AnswerInv
<1>14. OrphanInv'
  BY <1>1 DEF IInv, OrphanInv
<1>15. ASSUME NEW q \in Requests PROVE RequestInv(q)'
  <2>1. RequestInv(q) /\ request[q].run \in Runs
    BY DEF IInv, TypeOK
  <2> QED
    BY <1>1, <1>2, <1>4, <1>5, <2>1 DEF RequestInv
<1>16. RestOK'
  <2>1. DeskInv' /\ desk' = desk
    BY <1>1, <1>10 DEF Enter
  <2> QED
    BY <1>1, <1>3, <2>1 DEF IInv, TypeOK, RestOK
<1>17. TypeOK' /\ \A q \in Runs : Life(q)'
  BY <1>2, <1>9, <1>16, Types DEF ManagerOK
<1> QED
  BY <1>9, <1>10, <1>11, <1>12, <1>13, <1>14, <1>15, <1>17 DEF IInv

LEMMA StartResumesKeepsIInv == ASSUME IInv, NEW r \in Runs, StartResumes(r) PROVE IInv'
<1> DEFINE c == <<"start", r>>
           fails == starter[r] = "add" /\ desk.result # "ok"
<1>1. /\ Served(c)
      /\ \/ fails /\ starter' = [starter EXCEPT ![r] = "discard"] /\ Again(c)
         \/ ~fails /\ starter' = [starter EXCEPT ![r] = "done"] /\ Leave
      /\ pendingRestores' \subseteq pendingRestores
      /\ UNCHANGED <<manager, details, orphans, op, request, told, failed, overtaken>>
  BY DEF StartResumes, answers, ghosts
<1>2. UNCHANGED <<up, used, status, pc, hook, row>>
  BY <1>1 DEF manager, managerButRow
<1>3. /\ up /\ line # <<>> /\ Head(line) = c /\ desk.stage = "done"
      /\ line \in Seq(Callers) /\ LineInv /\ OrderInv /\ DeskInv
      /\ starter \in [Runs -> {"none", "add", "discard", "done"}]
  BY <1>1 DEF Served, IInv, TypeOK
<1>4. OpInv(r) /\ TruthInv(r) /\ AnswerInv(r) /\ Life(r)
  BY DEF IInv
<1>5. c \in Callers /\ Waits(c)
  BY <1>3, HeadWaits
<1>6. starter[r] \in {"add", "discard"}
  BY <1>5, RestoreAssumption DEF Waits
<1>7. fails => r \in failed
  <2>1. desk.result \in {"ok", "missing", "error"}
    BY DEF IInv, TypeOK
  <2> QED
    BY <1>3, <2>1 DEF DeskInv
<1>8. \A q \in Runs \ {r} : starter'[q] = starter[q]
  BY <1>1, <1>3
<1>9. line' \in Seq(Callers) /\ LineInv' /\ OrderInv' /\ Freed
  <2>1. CASE fails
    <3>1. \A d \in Callers : Waits(d)' <=> Waits(d)
      BY <1>1, <1>3, <1>6, <2>1 DEF Waits, Callers
    <3>2. \A q \in Runs : starter'[q] = "add" => starter[q] = "add" /\ c # <<"start", q>>
      BY <1>1, <1>3, <2>1
    <3> HIDE DEF c
    <3> QED
      BY <1>1, <1>3, <2>1, <3>1, <3>2, AgainKeepsLine
  <2>2. CASE ~fails
    <3>1. \A d \in Callers : Waits(d)' <=> Waits(d) /\ d # c
      BY <1>1, <1>3, <1>6, <2>2, RestoreAssumption DEF Waits, Callers
    <3>2. \A q \in Runs : starter'[q] = "add" => starter[q] = "add"
      BY <1>1, <1>3, <2>2
    <3> HIDE DEF c
    <3> QED
      BY <1>1, <1>3, <2>2, <3>1, <3>2, LeaveKeepsLine
  <2> QED
    BY <2>1, <2>2
<1>10. /\ DeskInv' /\ \A d : ~Served(d)' /\ \A q, st : ~HasRead(q, st)'
  BY <1>9, FreedDesk
<1>11. \A q \in Runs : SameAnswers(q)
  BY <1>1, <1>2, <1>9, AnswersStay
<1>12. ASSUME NEW q \in Runs \ {r} PROVE OpInv(q)' /\ TruthInv(q)' /\ AnswerInv(q)'
  <2>1. DeskFor(q)
    BY <1>1, <1>3, <1>8, <1>9, FreedFor
  <2>2. SameState(q)
    BY <1>1, <1>2, <1>8 DEF SameState
  <2>3. OpInv(q) /\ TruthInv(q) /\ AnswerInv(q) /\ \A x \in Requests : RequestInv(x)
    BY DEF IInv
  <2>4. told[q] \subseteq Terminal
    BY DEF IInv, TypeOK, Terminal
  <2> QED
    BY <1>11, <2>1, <2>2, <2>3, <2>4, OpKept, TruthKept, AnswersKept
<1>13. starter'[r] \in {"discard", "done"} /\ (starter'[r] = "discard" => r \in failed)
  BY <1>1, <1>3, <1>7
<1>14. OpInv(r)'
  BY <1>1, <1>2, <1>4, <1>6, <1>13 DEF OpInv
<1>15. TruthInv(r)' /\ AnswerInv(r)'
  <2>1. ~Reported(r)
    BY <1>3 DEF Reported, Served
  <2>2. r \notin failed => SoundInv(r)'
    BY <1>1, <1>2, <1>4, <2>1 DEF TruthInv, SoundInv
  <2>3. ASSUME r \notin failed \cup overtaken
        PROVE  KeptInv(r)' /\ RowInv(r)' /\ RecordedInv(r)' /\ LiveInv(r)' /\ PastInv(r)'
    <3>1. KeptInv(r) /\ RowInv(r) /\ RecordedInv(r) /\ LiveInv(r) /\ PastInv(r)
      BY <1>4, <2>3 DEF TruthInv, AnswerInv
    <3>2. Inserted(r) /\ starter[r] # "none" /\ Inserted(r)'
      BY <1>1, <1>6, <1>13 DEF Inserted
    <3>3. KeptInv(r)'
      BY <1>1, <1>2, <3>1, <3>2 DEF KeptInv
    <3>4. RowInv(r)'
      BY <1>2, <2>1, <3>1 DEF RowInv
    <3>5. RecordedInv(r)'
      BY <1>1, <1>2, <1>10, <3>1, <3>2 DEF RecordedInv
    <3>6. LiveInv(r)' /\ PastInv(r)'
      <4>1. status[r] # "absent"
        BY <1>4, <1>6 DEF OpInv
      <4> QED
        BY <1>1, <1>2, <1>10, <3>1, <4>1 DEF LiveInv, PastInv
    <3> QED
      BY <3>3, <3>4, <3>5, <3>6
  <2>4. told'[r] # {} => up' /\ r \in used'
    BY <1>1, <1>2, <1>4 DEF AnswerInv
  <2> QED
    BY <1>1, <2>2, <2>3, <2>4 DEF TruthInv, AnswerInv
<1>16. OrphanInv'
  BY <1>1 DEF IInv, OrphanInv
<1>17. ASSUME NEW q \in Requests PROVE RequestInv(q)'
  BY <1>1, <1>2 DEF IInv, RequestInv
<1>18. RestOK'
  <2>1. desk' = NoCall
    BY <1>9 DEF Freed
  <2>2. starter' \in [Runs -> {"none", "add", "discard", "done"}]
    BY <1>1, <1>3
  <2> QED
    BY <1>1, <2>1, <2>2 DEF NoCall, IInv, TypeOK, RestOK
<1>19. ManagerOK'
  <2>1. row' \in [Runs -> Rows] /\ UNCHANGED managerButRow
    BY <1>1, <1>2, RowTypes DEF manager
  <2> QED
    BY <2>1, ManagerIsOK, ManagerStays
<1>20. TypeOK' /\ \A q \in Runs : Life(q)'
  BY <1>9, <1>18, <1>19, Types DEF ManagerOK
<1> QED
  BY <1>9, <1>10, <1>12, <1>14, <1>15, <1>16, <1>17, <1>20 DEF IInv

-----------------------------------------------------------------------------
(* The operation of a run.                                                  *)

\* The places of an operation and their results.
Places == [at : {"none", "claim", "command", "report", "error", "unwind", "replaced", "ended"},
           result : RM!Results]

\* The line after a step of the operation of r.
LineAfter(r) ==
    /\ line' \in Seq(Callers) /\ LineInv' /\ OrderInv'
    /\ \/ HeadStays /\ Head(line) # <<"op", r>>
       \/ Freed /\ (line = <<>> \/ Head(line) = <<"op", r>>)

\* The desk after such a step.
LEMMA DeskAfter ==
    ASSUME IInv, NEW r \in Runs, LineAfter(r), UNCHANGED <<up, starter, request>>,
           failed' = failed, \A q \in Runs \ {r} : op'[q] = op[q]
    PROVE  /\ DeskInv'
           /\ \A q, st : HasRead(q, st)' => HasRead(q, st)
           /\ \A q \in Runs : Inserted(q)' => Inserted(q)
           /\ \A q \in Runs \ {r} : DeskFor(q)
           /\ \A c : Served(c)' => Served(c)
<1>1. line \in Seq(Callers) /\ DeskInv
  BY DEF IInv, TypeOK
<1>2. CASE HeadStays /\ Head(line) # <<"op", r>>
  <2>1. \A q \in Runs : op'[q] = op[q] \/ Head(line) # <<"op", q>>
    BY <1>2
  <2>2. /\ DeskInv'
        /\ \A c : Served(c)' <=> Served(c)
        /\ \A q, st : HasRead(q, st)' <=> HasRead(q, st)
    BY <1>1, <1>2, <2>1, StayingDesk
  <2>3. \A q \in Runs : Inserted(q)' => Inserted(q)
    BY <2>2 DEF Inserted
  <2>4. \A q \in Runs \ {r} : DeskFor(q)
    BY <1>2, <2>2, StayingFor
  <2> QED
    BY <2>2, <2>3, <2>4
<1>3. CASE Freed /\ (line = <<>> \/ Head(line) = <<"op", r>>)
  <2>1. /\ DeskInv'
        /\ \A c : ~Served(c)'
        /\ \A q, st : ~HasRead(q, st)'
    BY <1>3, FreedDesk
  <2>2. \A q \in Runs : Inserted(q)' => Inserted(q)
    BY <2>1 DEF Inserted
  <2>3. \A q \in Runs \ {r} : DeskFor(q)
    BY <1>3, FreedFor
  <2> QED
    BY <2>1, <2>2, <2>3
<1> QED
  BY <1>2, <1>3 DEF LineAfter

\* The other runs, when an operation does something.
LEMMA OthersKept ==
    ASSUME IInv, NEW r \in Runs, LineAfter(r), UNCHANGED <<up, starter, request, told>>,
           failed' = failed, \A x \in Runs \ {r} : op'[x] = op[x],
           NEW q \in Runs \ {r}, SameState(q)
    PROVE  OpInv(q)' /\ TruthInv(q)' /\ AnswerInv(q)'
<1>1. DeskFor(q)
  BY DeskAfter
<1>2. SameAnswers(q)
  BY AnswersStay DEF LineAfter
<1>3. OpInv(q) /\ TruthInv(q) /\ AnswerInv(q) /\ \A x \in Requests : RequestInv(x)
  BY DEF IInv
<1>4. told[q] \subseteq Terminal
  BY DEF IInv, TypeOK, Terminal
<1> QED
  BY <1>1, <1>2, <1>3, <1>4, OpKept, TruthKept, AnswersKept

\* An operation goes from one place to the next, while its row says "running".
LEMMA OperationGoesOn ==
    ASSUME IInv, NEW r \in Runs, ManagerOK', LineAfter(r),
           UNCHANGED <<up, used, status, row, details, pendingRestores, starter, request, told,
                       failed, overtaken>>,
           \A q \in Runs \ {r} : pc'[q] = pc[q] /\ hook'[q] = hook[q] /\ op'[q] = op[q],
           pc[r] \in {"startHook", "operation"}, pc'[r] \in {"operation", "cancelled"},
           hook'[r] \notin {"record", "created"}, r \notin failed => row[r] = "running",
           op' \in [Runs -> Places], op'[r].at \in Busy <=> pc'[r] = "operation",
           op[r].at \notin {"unwind", "ended"}, op'[r].at # "ended",
           op'[r].at = "replaced" => op'[r].result = "unexpected",
           op'[r].at \in {"command", "report"} => starter[r] # "add",
           orphans' \subseteq Runs \X Status,
           \A o \in orphans' : o \in orphans \/ (o = <<r, "running">> /\ op'[r].at = "unwind")
    PROVE  IInv'
<1>1. OpInv(r) /\ TruthInv(r) /\ AnswerInv(r) /\ Life(r) /\ OrphanInv
  BY DEF IInv
<1>2. status[r] = "running" /\ status[r] \in Active /\ status[r] # "absent"
  BY <1>1 DEF Life, Active, RM!Active
<1>3. /\ DeskInv'
      /\ \A q, st : HasRead(q, st)' => HasRead(q, st)
      /\ \A q \in Runs : Inserted(q)' => Inserted(q)
  BY DeskAfter
<1>4. \A q \in Runs \ {r} : \A o \in orphans' : o[1] = q => o \in orphans
  OBVIOUS
<1>5. ASSUME NEW q \in Runs \ {r} PROVE OpInv(q)' /\ TruthInv(q)' /\ AnswerInv(q)'
  <2>1. SameState(q)
    BY <1>4 DEF SameState
  <2> QED
    BY <2>1, OthersKept
<1>6. OpInv(r)'
  BY <1>1, <1>2 DEF OpInv
<1>7. TruthInv(r)' /\ AnswerInv(r)'
  <2>1. "running" \notin Terminal
    BY DEF Terminal, RM!Terminal
  <2>2. r \notin failed => SoundInv(r)' /\ RowInv(r)' /\ RecordedInv(r)'
    BY <1>2, <2>1 DEF SoundInv, RowInv, RecordedInv
  <2>3. r \notin failed \cup overtaken => KeptInv(r)' /\ LiveInv(r)' /\ PastInv(r)'
    BY <1>1, <1>2, <1>3 DEF TruthInv, AnswerInv, KeptInv, LiveInv, PastInv
  <2>4. told'[r] # {} => up' /\ r \in used'
    BY <1>1 DEF AnswerInv
  <2> QED
    BY <2>2, <2>3, <2>4 DEF TruthInv, AnswerInv
<1>8. OrphanInv'
  <2>1. ASSUME NEW o \in orphans', o \in orphans
        PROVE  op'[o[1]].at \in {"unwind", "ended"} /\ (o[2] = "running" \/ o[1] \in overtaken)
    <3>1. o[1] \in Runs /\ o[1] # r
      BY <1>1, <2>1 DEF OrphanInv, IInv, TypeOK
    <3> QED
      BY <1>1, <2>1, <3>1 DEF OrphanInv
  <2> QED
    BY <2>1 DEF OrphanInv
<1>9. ASSUME NEW q \in Requests PROVE RequestInv(q)'
  BY DEF IInv, RequestInv
<1>10. RestOK'
  <2>1. desk' \in [stage : {"open", "read", "done"}, result : {"ok", "missing", "error"},
                   found : {"none"} \cup Status]
    BY DEF LineAfter, HeadStays, Freed, NoCall, IInv, TypeOK
  <2> QED
    BY <2>1 DEF IInv, TypeOK, RestOK, Places
<1>11. TypeOK' /\ \A q \in Runs : Life(q)'
  BY <1>10, Types DEF LineAfter, ManagerOK
<1> QED
  BY <1>3, <1>5, <1>6, <1>7, <1>8, <1>9, <1>11 DEF IInv, LineAfter

\* An operation is over.  Its last update has written the outcome, or the hook will, or the
\* cancellation has overtaken it.
LEMMA OperationIsOver ==
    ASSUME IInv, NEW r \in Runs, NEW st, ManagerOK', Ending(r, st), LineAfter(r),
           pc[r] = "operation", UNCHANGED <<details, starter, request, told, failed>>,
           op' = [op EXCEPT ![r].at = "ended"], pendingRestores' = pendingRestores \ {r},
           overtaken' \in {overtaken, overtaken \cup {r}},
           orphans' \subseteq Runs \X Status,
           \A o \in orphans' : o \in orphans \/ (o[1] = r /\ r \in overtaken'),
           r \notin failed \cup overtaken' => row[r] \notin Terminal \/ row[r] = st
    PROVE  IInv'
<1>1. OpInv(r) /\ TruthInv(r) /\ AnswerInv(r) /\ Life(r) /\ OrphanInv
  BY DEF IInv
<1>2. op \in [Runs -> Places]
  BY DEF IInv, TypeOK, Places
<1>3. /\ op' \in [Runs -> Places] /\ op'[r].at = "ended"
      /\ \A q \in Runs \ {r} : op'[q] = op[q]
  BY <1>2 DEF Places
<1>4. /\ UNCHANGED <<up, used, row>> /\ st \in Terminal
      /\ status'[r] = st /\ hook'[r] = "record"
      /\ pc'[r] # "operation" /\ pc'[r] \notin {"none", "created", "startHook"}
      /\ \A q \in Runs \ {r} : status'[q] = status[q] /\ pc'[q] = pc[q] /\ hook'[q] = hook[q]
  BY DEF Ending, IInv, TypeOK, RM!TypeOK
<1>5. status[r] \in Active /\ status[r] # "absent" /\ r \in used
  BY <1>1 DEF Life, Active, RM!Active
<1>6. st \notin Active /\ st # "absent"
  BY <1>4 DEF Terminal, RM!Terminal, Active, RM!Active
<1>7. /\ DeskInv'
      /\ \A q, t : HasRead(q, t)' => HasRead(q, t)
      /\ \A q \in Runs : Inserted(q)' => Inserted(q)
  BY <1>3, <1>4, DeskAfter
<1>8. ASSUME NEW q \in Runs \ {r} PROVE OpInv(q)' /\ TruthInv(q)' /\ AnswerInv(q)'
  <2>1. SameState(q)
    BY <1>3, EndingOthers
  <2> QED
    BY <1>3, <1>4, <2>1, OthersKept
<1>9. OpInv(r)'
  BY <1>1, <1>3, <1>4, <1>5, <1>6 DEF OpInv, Busy, Waiting
<1>10. TruthInv(r)' /\ AnswerInv(r)'
  <2>1. op'[r].at \notin Busy
    BY <1>3 DEF Busy, Waiting
  <2> QED
    BY <1>5, <1>7, <2>1, EndingKeepsTruth
<1>11. OrphanInv'
  <2>1. ASSUME NEW o \in orphans'
        PROVE  op'[o[1]].at \in {"unwind", "ended"} /\ (o[2] = "running" \/ o[1] \in overtaken')
    <3>1. o[1] \in Runs
      OBVIOUS
    <3> QED
      BY <1>1, <1>3, <3>1 DEF OrphanInv
  <2> QED
    BY <2>1 DEF OrphanInv
<1>12. ASSUME NEW q \in Requests PROVE RequestInv(q)'
  <2>1. RequestInv(q) /\ request[q].run \in Runs
    BY DEF IInv, TypeOK
  <2> QED
    BY <1>4, <1>6, <2>1 DEF RequestInv
<1>13. RestOK'
  <2>1. desk' \in [stage : {"open", "read", "done"}, result : {"ok", "missing", "error"},
                   found : {"none"} \cup Status]
    BY DEF LineAfter, HeadStays, Freed, NoCall, IInv, TypeOK
  <2> QED
    BY <1>3, <2>1 DEF IInv, TypeOK, RestOK, Places
<1>14. TypeOK' /\ \A q \in Runs : Life(q)'
  BY <1>13, Types DEF LineAfter, ManagerOK
<1> QED
  BY <1>7, <1>8, <1>9, <1>10, <1>11, <1>12, <1>14 DEF IInv, LineAfter

\* Who waits, when only the operation of r has moved.
LEMMA OpWaits ==
    ASSUME NEW r \in Runs, UNCHANGED <<starter, request>>,
           \A q \in Runs \ {r} : op'[q] = op[q], NEW d \in Callers
    PROVE  /\ d # <<"op", r>> => (Waits(d)' <=> Waits(d))
           /\ Waits(<<"op", r>>) <=> op[r].at \in Waiting
           /\ Waits(<<"op", r>>)' <=> op'[r].at \in Waiting
<1>1. Waits(<<"op", r>>) <=> op[r].at \in Waiting
  BY RestoreAssumption DEF Waits
<1>2. Waits(<<"op", r>>)' <=> op'[r].at \in Waiting
  BY RestoreAssumption DEF Waits
<1>3. ASSUME d # <<"op", r>> PROVE Waits(d)' <=> Waits(d)
  <2>1. d[1] = "op" => d[2] \in Runs \ {r}
    BY <1>3 DEF Callers
  <2> QED
    BY <2>1 DEF Waits
<1> QED
  BY <1>1, <1>2, <1>3

LEMMA OpEnters ==
    ASSUME IInv, NEW r \in Runs, Enter(<<"op", r>>), op[r].at \notin Waiting,
           op'[r].at \in Waiting, \A q \in Runs \ {r} : op'[q] = op[q],
           UNCHANGED <<starter, request>>
    PROVE  LineAfter(r)
<1> DEFINE c == <<"op", r>>
<1>1. c \in Callers /\ \A q : c # <<"start", q>>
  BY DEF Callers
<1>2. ~Waits(c) /\ \A d \in Callers : Waits(d)' <=> Waits(d) \/ d = c
  BY <1>1, OpWaits
<1>3. line \in Seq(Callers) /\ LineInv /\ OrderInv /\ DeskInv
  BY DEF IInv, TypeOK
<1> HIDE DEF c
<1>4. /\ line' \in Seq(Callers) /\ LineInv' /\ OrderInv'
      /\ HeadStays \/ (line = <<>> /\ Freed)
  BY <1>1, <1>2, <1>3, EnterKeepsLine DEF c
<1>5. HeadStays => Head(line) # c
  BY <1>2, <1>3, HeadWaits DEF HeadStays
<1> QED
  BY <1>4, <1>5 DEF LineAfter, c

LEMMA OpLeaves ==
    ASSUME IInv, NEW r \in Runs, line # <<>>, Head(line) = <<"op", r>>, Leave,
           op'[r].at \notin Waiting, \A q \in Runs \ {r} : op'[q] = op[q],
           UNCHANGED <<starter, request>>
    PROVE  LineAfter(r)
<1> DEFINE c == <<"op", r>>
<1>1. c \in Callers
  BY DEF Callers
<1>2. \A d \in Callers : Waits(d)' <=> Waits(d) /\ d # c
  BY <1>1, OpWaits
<1>3. line \in Seq(Callers) /\ LineInv /\ OrderInv
  BY DEF IInv, TypeOK
<1> HIDE DEF c
<1>4. line' \in Seq(Callers) /\ LineInv' /\ OrderInv' /\ Freed
  BY <1>2, <1>3, LeaveKeepsLine DEF c
<1> QED
  BY <1>4 DEF LineAfter

LEMMA OpGetsInLineAgain ==
    ASSUME IInv, NEW r \in Runs, line # <<>>, Head(line) = <<"op", r>>, Again(<<"op", r>>),
           op[r].at \in Waiting, op'[r].at \in Waiting, \A q \in Runs \ {r} : op'[q] = op[q],
           UNCHANGED <<starter, request>>
    PROVE  LineAfter(r)
<1> DEFINE c == <<"op", r>>
<1>1. c \in Callers /\ \A q : c # <<"start", q>>
  BY DEF Callers
<1>2. \A d \in Callers : Waits(d)' <=> Waits(d)
  BY <1>1, OpWaits
<1>3. line \in Seq(Callers) /\ LineInv /\ OrderInv
  BY DEF IInv, TypeOK
<1> HIDE DEF c
<1>4. line' \in Seq(Callers) /\ LineInv' /\ OrderInv' /\ Freed
  BY <1>1, <1>2, <1>3, AgainKeepsLine DEF c
<1> QED
  BY <1>4 DEF LineAfter

LEMMA OpAbandons ==
    ASSUME IInv, NEW r \in Runs, NEW next, Abandon(<<"op", r>>, next),
           next \in {<<>>, <<<<"op", r>>>>}, op'[r].at \in Waiting <=> next # <<>>,
           \A q \in Runs \ {r} : op'[q] = op[q], UNCHANGED <<starter, request>>
    PROVE  LineAfter(r)
<1>1. <<"op", r>> \in Callers
  BY DEF Callers
<1>2. \A d \in Callers : Waits(d)' <=> \/ Waits(d) /\ d # <<"op", r>>
                                       \/ d = <<"op", r>> /\ next # <<>>
  BY <1>1, OpWaits
<1>3. line \in Seq(Callers) /\ LineInv /\ OrderInv /\ DeskInv
  BY DEF IInv, TypeOK
<1> QED
  BY <1>2, <1>3, AbandonKeepsLine DEF LineAfter

\* What the invariant says of an operation that is under way.
LEMMA OperationRuns ==
    ASSUME IInv, NEW r \in Runs, op[r].at \in Busy
    PROVE  /\ pc[r] = "operation" /\ hook[r] \notin {"record", "created"}
           /\ r \notin failed => row[r] = "running" \/ Reported(r)
           /\ r \notin failed =>
                 \/ row[r] = "running"
                 \/ /\ op[r].at \in {"error", "replaced"}
                    /\ row[r] \in {RM!Outcome(r, op[r].result), "pruned"}
           /\ op \in [Runs -> Places]
<1>1. OpInv(r) /\ TruthInv(r) /\ Life(r)
  BY DEF IInv
<1>2. pc[r] = "operation"
  BY <1>1 DEF OpInv
<1>3. fpc[r] = "none"
  BY <1>1, <1>2 DEF Life
<1>4. hook[r] \notin {"record", "created"}
  BY <1>1, <1>2, <1>3 DEF Life, HookRunning
<1>5. op \in [Runs -> Places]
  BY DEF IInv, TypeOK, Places
<1> QED
  BY <1>1, <1>2, <1>4, <1>5 DEF TruthInv, SoundInv, Reported

LEMMA ManagerUntouched == ASSUME IInv, UNCHANGED manager PROVE ManagerOK'
<1>1. row' \in [Runs -> Rows] /\ UNCHANGED managerButRow
  BY RowTypes DEF manager
<1> QED
  BY <1>1, ManagerIsOK, ManagerStays

LEMMA OperationBeginsKeepsIInv == ASSUME IInv, NEW r \in Runs, OperationBegins(r) PROVE IInv'
<1>1. /\ ManagerOK'
      /\ pc[r] = "startHook" /\ hook[r] = "created" /\ pc'[r] \in {"operation", "cancelled"}
      /\ hook'[r] = "none"
      /\ \A q \in Runs \ {r} : pc'[q] = pc[q] /\ hook'[q] = hook[q]
      /\ up /\ UNCHANGED <<up, used, status, row>>
  BY ManagerIsOK, StartHookDoneFrame DEF OperationBegins
<1>2. UNCHANGED <<details, orphans, pendingRestores, starter, request, told, failed, overtaken>>
  BY DEF OperationBegins, answers, ghosts
<1>3. OpInv(r) /\ TruthInv(r) /\ op \in [Runs -> Places]
  BY DEF IInv, TypeOK, Places
<1>4. op[r].at = "none"
  BY <1>1, <1>3 DEF OpInv
<1>5. r \notin failed => row[r] = "running"
  BY <1>1, <1>3, <1>4 DEF TruthInv, SoundInv, Reported
<1>6. \A q \in Runs \ {r} : op'[q] = op[q]
  BY <1>3 DEF OperationBegins, Goto, Fails
<1>7. LineAfter(r) /\ op' \in [Runs -> Places] /\ (op'[r].at \in Busy <=> pc'[r] = "operation")
      /\ op'[r].at \notin {"command", "report", "ended", "unwind", "replaced"}
  <2>1. CASE pc'[r] = "operation"
    <3>1. op'[r].at \in {"claim", "error"} /\ op' \in [Runs -> Places] /\ Enter(<<"op", r>>)
      BY <1>3, <2>1 DEF OperationBegins, Goto, Fails, Places, RM!Results
    <3>2. op[r].at \notin Waiting /\ op'[r].at \in Waiting
      BY <1>4, <3>1 DEF Waiting
    <3>3. LineAfter(r)
      BY <1>2, <1>6, <3>1, <3>2, OpEnters
    <3> QED
      BY <2>1, <3>1, <3>2, <3>3 DEF Busy
  <2>2. CASE pc'[r] # "operation"
    <3>1. UNCHANGED <<op, line, desk>>
      BY <2>2 DEF OperationBegins
    <3>2. line \in Seq(Callers) /\ LineInv /\ OrderInv /\ DeskInv
      BY DEF IInv, TypeOK
    <3>3. \A d \in Callers : Waits(d)' <=> Waits(d)
      BY <1>2, <3>1 DEF Waits
    <3>4. LineInv' /\ OrderInv'
      BY <1>2, <3>1, <3>2, <3>3, SameLine
    <3>5. line # <<>> => Head(line) # <<"op", r>>
      BY <1>4, <3>2, HeadWaits, RestoreAssumption DEF Waits, Waiting
    <3>6. HeadStays \/ (Freed /\ line = <<>>)
      BY <3>1, <3>2 DEF HeadStays, Freed, DeskInv
    <3> QED
      BY <1>3, <1>4, <2>2, <3>1, <3>2, <3>4, <3>5, <3>6 DEF LineAfter, HeadStays, Busy, Waiting
  <2> QED
    BY <2>1, <2>2
<1>8. orphans \subseteq Runs \X Status
  BY DEF IInv, TypeOK
<1> QED
  BY <1>1, <1>2, <1>4, <1>5, <1>6, <1>7, <1>8, OperationGoesOn

LEMMA ClaimResumesKeepsIInv == ASSUME IInv, NEW r \in Runs, ClaimResumes(r) PROVE IInv'
<1>1. /\ Served(<<"op", r>>) /\ op[r].at = "claim"
      /\ UNCHANGED <<manager, details, orphans, pendingRestores, starter, request, told, failed,
                     overtaken>>
  BY DEF ClaimResumes, OpServed, answers, ghosts
<1>2. op[r].at \in Busy /\ op[r].at \in Waiting
  BY <1>1 DEF Busy, Waiting
<1>3. /\ pc[r] = "operation" /\ hook[r] \notin {"record", "created"}
      /\ r \notin failed => row[r] = "running"
      /\ op \in [Runs -> Places]
  BY <1>1, <1>2, OperationRuns
<1>4. up /\ line # <<>> /\ Head(line) = <<"op", r>>
  BY <1>1 DEF Served
<1>5. op' \in [Runs -> Places] /\ \A q \in Runs \ {r} : op'[q] = op[q]
  BY <1>3 DEF ClaimResumes, Goto, Fails, Places, RM!Results
<1>6. starter[r] # "add"
  <2>1. ASSUME starter[r] = "add" PROVE Head(line) = <<"start", r>>
    BY <1>4, <2>1, InsertionComesFirst DEF IInv, TypeOK
  <2> QED
    BY <1>4, <2>1
<1>7. LineAfter(r) /\ op'[r].at \in {"command", "error"}
  <2>1. CASE desk.result = "ok"
    <3>1. op'[r].at = "command" /\ Leave
      BY <1>3, <2>1 DEF ClaimResumes, Goto, Places
    <3> QED
      BY <1>1, <1>4, <1>5, <3>1, OpLeaves DEF Waiting
  <2>2. CASE desk.result # "ok"
    <3>1. op'[r].at = "error" /\ Again(<<"op", r>>)
      BY <1>3, <2>2 DEF ClaimResumes, Fails, Places
    <3> QED
      BY <1>1, <1>2, <1>4, <1>5, <3>1, OpGetsInLineAgain DEF Waiting
  <2> QED
    BY <2>1, <2>2
<1>8. ManagerOK' /\ UNCHANGED <<up, used, status, pc, hook, row>>
  BY <1>1, ManagerUntouched DEF manager, managerButRow
<1>9. orphans \subseteq Runs \X Status
  BY DEF IInv, TypeOK
<1>10. op'[r].at \in Busy /\ op'[r].at # "ended" /\ op[r].at \notin {"unwind", "ended"}
  BY <1>1, <1>7 DEF Busy, Waiting
<1> QED
  BY <1>1, <1>3, <1>5, <1>6, <1>7, <1>8, <1>9, <1>10, OperationGoesOn

LEMMA CommandEndsKeepsIInv == ASSUME IInv, NEW r \in Runs, CommandEnds(r) PROVE IInv'
<1>1. /\ op[r].at = "command" /\ RM!MarkNotCancellable(r) /\ Enter(<<"op", r>>)
      /\ UNCHANGED <<details, orphans, pendingRestores, starter, request, told, failed,
                     overtaken>>
  BY DEF CommandEnds, answers, ghosts
<1>2. op[r].at \in Busy /\ op[r].at \notin Waiting
  BY <1>1 DEF Busy, Waiting
<1>3. /\ pc[r] = "operation" /\ hook[r] \notin {"record", "created"}
      /\ r \notin failed => row[r] = "running"
      /\ op \in [Runs -> Places]
  BY <1>1, <1>2, OperationRuns
<1>4. /\ op' \in [Runs -> Places] /\ \A q \in Runs \ {r} : op'[q] = op[q]
      /\ op'[r].at = "report"
  BY <1>3 DEF CommandEnds, Fails, Places, RM!Results
<1>5. op'[r].at \in Waiting /\ op'[r].at \in Busy
  BY <1>4 DEF Busy, Waiting
<1>6. LineAfter(r)
  BY <1>1, <1>2, <1>4, <1>5, OpEnters
<1>7. ManagerOK' /\ UNCHANGED <<up, used, status, pc, hook, row>>
  BY <1>1, ManagerIsOK, MarkNotCancellableFrame
<1>8. starter[r] # "add" /\ orphans \subseteq Runs \X Status
  BY <1>1 DEF IInv, OpInv, TypeOK
<1> QED
  BY <1>1, <1>3, <1>4, <1>5, <1>6, <1>7, <1>8, OperationGoesOn

LEMMA CommandRaisesKeepsIInv == ASSUME IInv, NEW r \in Runs, CommandRaises(r) PROVE IInv'
<1>1. /\ op[r].at = "command" /\ Enter(<<"op", r>>)
      /\ UNCHANGED <<manager, details, orphans, pendingRestores, starter, request, told, failed,
                     overtaken>>
  BY DEF CommandRaises, answers, ghosts
<1>2. op[r].at \in Busy /\ op[r].at \notin Waiting
  BY <1>1 DEF Busy, Waiting
<1>3. /\ pc[r] = "operation" /\ hook[r] \notin {"record", "created"}
      /\ r \notin failed => row[r] = "running"
      /\ op \in [Runs -> Places]
  BY <1>1, <1>2, OperationRuns
<1>4. /\ op' \in [Runs -> Places] /\ \A q \in Runs \ {r} : op'[q] = op[q]
      /\ op'[r].at \in {"error", "replaced"} /\ op'[r].result = "unexpected"
  BY <1>3 DEF CommandRaises, Fails, Places, RM!Results
<1>5. op'[r].at \in Waiting /\ op'[r].at \in Busy
  BY <1>4 DEF Busy, Waiting
<1>6. LineAfter(r)
  BY <1>1, <1>2, <1>4, <1>5, OpEnters
<1>7. ManagerOK' /\ UNCHANGED <<up, used, status, pc, hook, row>>
  BY <1>1, ManagerUntouched DEF manager, managerButRow
<1>8. orphans \subseteq Runs \X Status
  BY DEF IInv, TypeOK
<1> QED
  BY <1>1, <1>3, <1>4, <1>5, <1>6, <1>7, <1>8, OperationGoesOn

\* The steps in which the operation comes to its end.
LEMMA ReportResumesKeepsIInv == ASSUME IInv, NEW r \in Runs, ReportResumes(r) PROVE IInv'
<1>1. /\ Served(<<"op", r>>) /\ op[r].at = "report"
      /\ UNCHANGED <<details, orphans, starter, request, told, failed, overtaken>>
  BY DEF ReportResumes, OpServed, answers, ghosts
<1>2. op[r].at \in Busy /\ op[r].at \in Waiting
  BY <1>1 DEF Busy, Waiting
<1>3. /\ pc[r] = "operation" /\ hook[r] \notin {"record", "created"}
      /\ r \notin failed => row[r] = "running"
      /\ op \in [Runs -> Places]
  BY <1>1, <1>2, OperationRuns
<1>4. up /\ line # <<>> /\ Head(line) = <<"op", r>>
  BY <1>1 DEF Served
<1>5. orphans \subseteq Runs \X Status /\ starter[r] # "add"
  BY <1>1 DEF IInv, TypeOK, OpInv
<1>6. CASE desk.result = "ok"
  <2>1. /\ RM!OperationEnds(r) /\ op' = [op EXCEPT ![r].at = "ended"] /\ Leave
        /\ pendingRestores' = pendingRestores \ {r}
    BY <1>6 DEF ReportResumes, Returns, Ended, Goto
  <2>2. ManagerOK' /\ Ending(r, status'[r])
    BY <2>1, ManagerIsOK, OperationEndsFrame
  <2>3. op'[r].at = "ended" /\ \A q \in Runs \ {r} : op'[q] = op[q]
    BY <1>3, <2>1 DEF Places
  <2>4. LineAfter(r)
    BY <1>1, <1>4, <2>1, <2>3, OpLeaves DEF Waiting
  <2>5. r \notin failed \cup overtaken' => row[r] \notin Terminal
    BY <1>3 DEF Terminal, RM!Terminal
  <2>6. PICK st : st = status'[r]
    OBVIOUS
  <2> QED
    BY <1>1, <1>3, <1>5, <2>1, <2>2, <2>4, <2>5, <2>6, OperationIsOver
<1>7. CASE desk.result # "ok"
  <2>1. /\ op' = [op EXCEPT ![r] = [at |-> "error", result |-> "unexpected"]]
        /\ Again(<<"op", r>>)
        /\ UNCHANGED <<manager, pendingRestores>>
    BY <1>7 DEF ReportResumes, Fails
  <2>2. /\ op' \in [Runs -> Places] /\ op'[r].at = "error"
        /\ \A q \in Runs \ {r} : op'[q] = op[q]
    BY <1>3, <2>1 DEF Places, RM!Results
  <2>3. op'[r].at \in Busy /\ op'[r].at \in Waiting
    BY <2>2 DEF Busy, Waiting
  <2>4. LineAfter(r)
    BY <1>1, <1>2, <1>4, <2>1, <2>2, <2>3, OpGetsInLineAgain
  <2>5. ManagerOK' /\ UNCHANGED <<up, used, status, pc, hook, row>>
    BY <2>1, ManagerUntouched DEF manager, managerButRow
  <2> QED
    BY <1>1, <1>3, <1>5, <2>1, <2>2, <2>3, <2>4, <2>5, OperationGoesOn
<1> QED
  BY <1>6, <1>7

LEMMA ErrorResumesKeepsIInv == ASSUME IInv, NEW r \in Runs, ErrorResumes(r) PROVE IInv'
<1>1. /\ Served(<<"op", r>>) /\ op[r].at = "error"
      /\ UNCHANGED <<details, orphans, starter, request, told, failed, overtaken>>
  BY DEF ErrorResumes, OpServed, answers, ghosts
<1>2. op[r].at \in Busy /\ op[r].at \in Waiting
  BY <1>1 DEF Busy, Waiting
<1>3. /\ pc[r] = "operation"
      /\ r \notin failed =>
            \/ row[r] = "running"
            \/ row[r] \in {RM!Outcome(r, op[r].result), "pruned"}
      /\ op \in [Runs -> Places]
  BY <1>1, <1>2, OperationRuns
<1>4. up /\ line # <<>> /\ Head(line) = <<"op", r>>
  BY <1>1 DEF Served
<1>5. desk.result # "ok" => r \in failed
  <2>1. desk.result \in {"ok", "missing", "error"} /\ DeskInv
    BY DEF IInv, TypeOK
  <2>2. desk.result = "error" => r \in failed
    BY <1>4, <2>1 DEF DeskInv
  <2>3. desk.result = "missing" => r \in failed
    BY <1>4, <2>1 DEF DeskInv
  <2> QED
    BY <2>1, <2>2, <2>3
<1>6. PICK st : st = status'[r]
  OBVIOUS
<1>7. /\ RM!OperationEnds(r) /\ op' = [op EXCEPT ![r].at = "ended"] /\ Leave
      /\ pendingRestores' = pendingRestores \ {r}
      /\ r \notin failed => st = RM!Outcome(r, op[r].result)
  BY <1>5, <1>6 DEF ErrorResumes, Returns, Ended, Goto
<1>8. ManagerOK' /\ Ending(r, st)
  BY <1>6, <1>7, ManagerIsOK, OperationEndsFrame
<1>9. op'[r].at = "ended" /\ \A q \in Runs \ {r} : op'[q] = op[q]
  BY <1>3, <1>7 DEF Places
<1>10. LineAfter(r)
  <2>1. up' = up
    BY <1>8 DEF Ending
  <2> QED
    BY <1>1, <1>4, <1>7, <1>9, OpLeaves DEF Waiting
<1>11. r \notin failed \cup overtaken' => row[r] \notin Terminal \/ row[r] = st
  BY <1>3, <1>7 DEF Terminal, RM!Terminal
<1>12. orphans \subseteq Runs \X Status
  BY DEF IInv, TypeOK
<1> QED
  BY <1>1, <1>3, <1>7, <1>8, <1>10, <1>11, <1>12, OperationIsOver

LEMMA CancelDeliveredKeepsIInv == ASSUME IInv, NEW r \in Runs, CancelDelivered(r) PROVE IInv'
<1>1. /\ op[r].at \in {"claim", "command"} /\ op' = [op EXCEPT ![r].at = "unwind"]
      /\ Abandon(<<"op", r>>, <<<<"op", r>>>>)
      /\ orphans' \in {orphans, orphans \cup {<<r, "running">>}}
      /\ UNCHANGED <<manager, details, pendingRestores, starter, request, told, failed,
                     overtaken>>
  BY DEF CancelDelivered, Goto, Orphaned, answers, ghosts
<1>2. op[r].at \in Busy
  BY <1>1 DEF Busy, Waiting
<1>3. /\ pc[r] = "operation" /\ hook[r] \notin {"record", "created"}
      /\ r \notin failed => row[r] = "running"
      /\ op \in [Runs -> Places]
  BY <1>1, <1>2, OperationRuns
<1>4. /\ op' \in [Runs -> Places] /\ op'[r].at = "unwind"
      /\ \A q \in Runs \ {r} : op'[q] = op[q]
  BY <1>1, <1>3 DEF Places
<1>5. op'[r].at \in Busy /\ op'[r].at \in Waiting
  BY <1>4 DEF Busy, Waiting
<1>6. LineAfter(r)
  <2>1. PICK next : next = <<<<"op", r>>>>
    OBVIOUS
  <2>2. next # <<>>
    BY <2>1
  <2> QED
    BY <1>1, <1>4, <1>5, <2>1, <2>2, OpAbandons
<1>7. ManagerOK' /\ UNCHANGED <<up, used, status, pc, hook, row>>
  BY <1>1, ManagerUntouched DEF manager, managerButRow
<1>8. orphans' \subseteq Runs \X Status
  BY <1>1 DEF IInv, TypeOK, Status
<1>9. \A o \in orphans' : o \in orphans \/ (o = <<r, "running">> /\ op'[r].at = "unwind")
  BY <1>1, <1>4
<1>10. op[r].at \notin {"unwind", "ended"} /\ op'[r].at \notin {"ended", "command", "report"}
  BY <1>1, <1>4
<1> QED
  BY <1>1, <1>3, <1>4, <1>5, <1>6, <1>7, <1>8, <1>9, <1>10, OperationGoesOn

LEMMA CancelEscapesKeepsIInv == ASSUME IInv, NEW r \in Runs, CancelEscapes(r) PROVE IInv'
<1> DEFINE left == <<r, RM!Outcome(r, op[r].result)>>
<1>1. /\ op[r].at = "error" /\ RM!OperationCancelled(r) /\ status'[r] = "cancelled"
      /\ op' = [op EXCEPT ![r].at = "ended"] /\ pendingRestores' = pendingRestores \ {r}
      /\ Abandon(<<"op", r>>, <<>>)
      /\ orphans' \in {orphans, orphans \cup {left}}
      /\ overtaken' = overtaken \cup {r}
      /\ UNCHANGED <<details, starter, request, told, failed>>
  BY DEF CancelEscapes, Ended, Goto, Orphaned, answers
<1>2. ManagerOK' /\ pc[r] = "operation" /\ Ending(r, "cancelled")
  BY <1>1, ManagerIsOK, OperationCancelledFrame
<1>3. op \in [Runs -> Places] /\ orphans \subseteq Runs \X Status
  BY DEF IInv, TypeOK, Places
<1>4. op'[r].at = "ended" /\ \A q \in Runs \ {r} : op'[q] = op[q]
  BY <1>1, <1>3 DEF Places
<1>5. LineAfter(r)
  <2>1. op'[r].at \notin Waiting
    BY <1>4 DEF Waiting
  <2>2. PICK next : next = <<>>
    OBVIOUS
  <2> QED
    BY <1>1, <1>4, <2>1, <2>2, OpAbandons
<1>6. left \in Runs \X Status
  <2>1. op[r].result \in RM!Results
    BY <1>3 DEF Places
  <2>2. RM!Outcome(r, op[r].result) \in Terminal
    BY <2>1, Outcomes
  <2> QED
    BY <2>2 DEF Terminal, Status
<1>7. left[1] = r
  OBVIOUS
<1> HIDE DEF left
<1>8. /\ orphans' \subseteq Runs \X Status
      /\ \A o \in orphans' : o \in orphans \/ (o[1] = r /\ r \in overtaken')
  BY <1>1, <1>3, <1>6, <1>7
<1>9. r \notin failed \cup overtaken' => row[r] \notin Terminal
  BY <1>1
<1>10. PICK st : st = "cancelled"
  OBVIOUS
<1> QED
  BY <1>1, <1>2, <1>5, <1>8, <1>9, <1>10, OperationIsOver

LEMMA UnwindResumesKeepsIInv == ASSUME IInv, NEW r \in Runs, UnwindResumes(r) PROVE IInv'
<1>1. /\ Served(<<"op", r>>) /\ op[r].at \in {"unwind", "replaced"} /\ RM!OperationCancelled(r)
      /\ op' = [op EXCEPT ![r].at = "ended"] /\ pendingRestores' = pendingRestores \ {r}
      /\ Leave
      /\ UNCHANGED <<details, orphans, starter, request, told, failed, overtaken>>
  BY DEF UnwindResumes, Ended, Goto, answers, ghosts
<1>2. op[r].at \in Busy
  BY <1>1 DEF Busy, Waiting
<1>3. /\ pc[r] = "operation"
      /\ r \notin failed =>
            \/ row[r] = "running"
            \/ /\ op[r].at = "replaced"
               /\ row[r] \in {RM!Outcome(r, op[r].result), "pruned"}
      /\ op \in [Runs -> Places]
  BY <1>1, <1>2, OperationRuns
<1>4. up /\ line # <<>> /\ Head(line) = <<"op", r>>
  BY <1>1 DEF Served
<1>5. PICK st : st = status'[r]
  OBVIOUS
<1>6. ManagerOK' /\ Ending(r, st)
  BY <1>1, <1>5, ManagerIsOK, OperationCancelledFrame
<1>7. op'[r].at = "ended" /\ \A q \in Runs \ {r} : op'[q] = op[q]
  BY <1>1, <1>3 DEF Places
<1>8. LineAfter(r)
  BY <1>1, <1>4, <1>7, OpLeaves DEF Waiting
<1>9. r \notin failed \cup overtaken' => row[r] \notin Terminal \/ row[r] = st
  <2>1. op[r].at = "replaced" => RM!Outcome(r, op[r].result) = "unexpected_error"
    BY DEF IInv, OpInv, RM!Outcome
  <2>2. op[r].at = "replaced" => st = "unexpected_error"
    BY <1>5 DEF UnwindResumes
  <2> QED
    BY <1>3, <2>1, <2>2 DEF Terminal, RM!Terminal
<1>10. orphans \subseteq Runs \X Status
  BY DEF IInv, TypeOK
<1> QED
  BY <1>1, <1>3, <1>6, <1>8, <1>9, <1>10, OperationIsOver

LEMMA OperationStepKeepsIInv == ASSUME IInv, NEW r \in Runs, OperationStep(r) PROVE IInv'
BY OperationBeginsKeepsIInv, ClaimResumesKeepsIInv, CommandEndsKeepsIInv,
   CommandRaisesKeepsIInv, ReportResumesKeepsIInv, ErrorResumesKeepsIInv,
   CancelDeliveredKeepsIInv, CancelEscapesKeepsIInv, UnwindResumesKeepsIInv DEF OperationStep

-----------------------------------------------------------------------------
(* The requests of the web UI.                                              *)

Asked == [at : {"idle", "look", "settle"}, cancels : BOOLEAN, run : Runs, status : Status]

\* The request at the head of the line is over, or gets in line again for the same run.
Moves(q, r) ==
    /\ request' \in [Requests -> Asked]
    /\ \A x \in Requests \ {q} : request'[x] = request[x]
    /\ \/ Leave /\ request'[q].at = "idle"
       \/ Again(<<q, r>>) /\ request'[q].at # "idle" /\ request'[q].run = r

\* What a request may report of r, and what it may make of its row.
Right(r, st) ==
    /\ status[r] # "absent" => st = status[r]
    /\ status[r] = "absent" =>
         /\ told[r] \subseteq {st} /\ row[r] \in {st, "pruned"}
         /\ \A q \in Requests : Settles(q, r) => st = "unexpected_error"
MaySettle(r, st) ==
    /\ status[r] # "absent" => st = status[r]
    /\ status[r] = "absent" => st = "unexpected_error" /\ row[r] = "running" /\ told[r] = {}

LEMMA RequestLine ==
    ASSUME IInv, NEW q \in Requests, NEW r \in Runs, Served(<<q, r>>), request[q].run = r,
           request[q].at # "idle", UNCHANGED <<starter, op>>, Moves(q, r)
    PROVE  line' \in Seq(Callers) /\ LineInv' /\ OrderInv' /\ Freed
<1> DEFINE c == <<q, r>>
<1>1. line # <<>> /\ Head(line) = c
  BY DEF Served
<1>2. c \in Callers /\ (\A x : c # <<"start", x>>) /\ Waits(c)
  BY RestoreAssumption DEF Callers, Waits
<1>3. ASSUME NEW d \in Callers, d # c PROVE Waits(d)' <=> Waits(d)
  <2>1. CASE d[1] \in Requests \ {q}
    BY <2>1, RestoreAssumption DEF Moves, Waits
  <2>2. CASE d[1] = q
    <3>1. d[2] # r
      BY <1>3, <2>2 DEF Callers
    <3> QED
      BY <2>2, <3>1, RestoreAssumption DEF Moves, Waits
  <2>3. CASE d[1] \in {"start", "op"}
    BY <2>3, RestoreAssumption DEF Waits
  <2> QED
    BY <2>1, <2>2, <2>3 DEF Callers
<1>4. line \in Seq(Callers) /\ LineInv /\ OrderInv
  BY DEF IInv, TypeOK
<1>5. CASE Leave /\ request'[q].at = "idle"
  <2>1. ~Waits(c)'
    BY <1>5, RestoreAssumption DEF Waits
  <2>2. \A d \in Callers : Waits(d)' <=> Waits(d) /\ d # c
    BY <1>3, <2>1
  <2> HIDE DEF c
  <2> QED
    BY <1>1, <1>4, <1>5, <2>2, LeaveKeepsLine
<1>6. CASE Again(<<q, r>>) /\ request'[q].at # "idle" /\ request'[q].run = r
  <2>1. Waits(c)' /\ Again(c)
    BY <1>6 DEF Waits
  <2>2. \A d \in Callers : Waits(d)' <=> Waits(d)
    BY <1>2, <1>3, <2>1
  <2> HIDE DEF c
  <2> QED
    BY <1>1, <1>2, <1>4, <2>1, <2>2, AgainKeepsLine
<1> QED
  BY <1>5, <1>6 DEF Moves

\* A request that reports or settles what it may keeps the invariant.
LEMMA RequestMoves ==
    ASSUME IInv, NEW q \in Requests, NEW r \in Runs, Served(<<q, r>>), request[q].run = r,
           request[q].at # "idle", Moves(q, r), ManagerOK', Quiet,
           UNCHANGED <<status, details, orphans, starter, op, failed, overtaken>>,
           pendingRestores' \subseteq pendingRestores,
           request'[q].at = "settle" => /\ request'[q].status \in Terminal
                                        /\ status[r] \notin Active
                                        /\ told' = told
                                        /\ r \notin failed \cup overtaken
                                              => MaySettle(r, request'[q].status),
           \/ told' = told
           \/ \E st \in Terminal : /\ told' = [told EXCEPT ![r] = @ \cup {st}]
                                   /\ r \notin failed \cup overtaken => Right(r, st)
    PROVE  IInv'
<1>1. UNCHANGED <<up, used, row>>
  BY DEF Quiet
<1>2. line' \in Seq(Callers) /\ LineInv' /\ OrderInv' /\ Freed
  BY RequestLine
<1>3. /\ DeskInv'
      /\ \A c : ~Served(c)'
      /\ \A x, st : ~HasRead(x, st)'
  BY <1>2, FreedDesk
<1>4. told \in [Runs -> SUBSET Terminal]
  BY DEF IInv, TypeOK, Terminal
<1>5. told' \in [Runs -> SUBSET Terminal] /\ \A x \in Runs \ {r} : told'[x] = told[x]
  BY <1>4
<1>6. ASSUME NEW x \in Runs PROVE OpInv(x)' /\ TruthInv(x)'
  <2>1. SameState(x)
    BY <1>1 DEF Quiet, SameState
  <2>2. Head(line) \notin {<<"start", x>>, <<"op", x>>}
    BY RestoreAssumption DEF Served
  <2>3. DeskFor(x)
    BY <1>2, <2>2, FreedFor
  <2>4. OpInv(x) /\ TruthInv(x)
    BY DEF IInv
  <2> QED
    BY <2>1, <2>3, <2>4, OpKept, TruthKept
<1>7. ASSUME NEW x \in Runs \ {r} PROVE AnswerInv(x)'
  <2>1. SameState(x)
    BY <1>1 DEF Quiet, SameState
  <2>2. Head(line) \notin {<<"start", x>>, <<"op", x>>}
    BY RestoreAssumption DEF Served
  <2>3. DeskFor(x)
    BY <1>2, <2>2, FreedFor
  <2>4. SameAnswers(x)
    <3>1. ASSUME NEW y \in Requests, Settles(y, x)' PROVE Settles(y, x) /\ request'[y] = request[y]
      <4>1. y # q
        BY <3>1 DEF Settles, Moves
      <4> QED
        BY <3>1, <4>1 DEF Settles, Moves
    <3>2. \A y \in Requests : ~HasSettled(y, x)'
      BY <1>3 DEF HasSettled
    <3> QED
      BY <1>5, <3>1, <3>2 DEF SameAnswers
  <2>5. AnswerInv(x) /\ (\A y \in Requests : RequestInv(y)) /\ told[x] \subseteq Terminal
    BY <1>4 DEF IInv
  <2> QED
    BY <2>1, <2>3, <2>4, <2>5, AnswersKept
<1>8. AnswerInv(r)'
  <2>1. AnswerInv(r) /\ RequestInv(q)
    BY DEF IInv
  <2>2. told'[r] # {} => up' /\ r \in used'
    BY <1>1, <2>1 DEF RequestInv
  <2>3. ASSUME r \notin failed \cup overtaken PROVE LiveInv(r)' /\ PastInv(r)'
    <3>1. LiveInv(r) /\ PastInv(r)
      BY <2>1, <2>3 DEF AnswerInv
    <3>2. request'[q].at = "settle" => told' = told /\ MaySettle(r, request'[q].status)
      BY <2>3
    <3>3. told'[r] = told[r] \/ \E st \in Terminal : told'[r] = told[r] \cup {st} /\ Right(r, st)
      BY <1>4, <2>3
    <3>4. LiveInv(r)'
      <4>1. CASE status[r] = "absent"
        BY <4>1 DEF LiveInv
      <4>2. CASE status[r] # "absent"
        <5>1. told'[r] \subseteq {status[r]}
          BY <3>1, <3>3, <4>2 DEF LiveInv, Right
        <5>2. ASSUME NEW x \in Requests, Settles(x, r)' PROVE request'[x].status = status[r]
          BY <3>1, <3>2, <4>2, <5>2 DEF LiveInv, Settles, MaySettle, Moves
        <5> QED
          BY <1>3, <5>1, <5>2 DEF LiveInv, Settles
      <4> QED
        BY <4>1, <4>2
    <3>5. ASSUME status[r] = "absent" PROVE PastInv(r)'
      <4>1. /\ \A s, t \in told[r] : s = t
            /\ told[r] # {} => row[r] \in told[r] \cup {"pruned"}
            /\ \A x \in Requests : Settles(x, r) =>
                  /\ request[x].status = "unexpected_error"
                  /\ row[r] \in {"running", "unexpected_error", "pruned"}
                  /\ told[r] \subseteq {"unexpected_error"}
        BY <3>1, <3>5 DEF PastInv, Settles
      <4>2. /\ \A s, t \in told'[r] : s = t
            /\ told'[r] # {} => row[r] \in told'[r] \cup {"pruned"}
        <5>1. CASE told'[r] = told[r]
          BY <4>1, <5>1
        <5>2. CASE \E st \in Terminal : told'[r] = told[r] \cup {st} /\ Right(r, st)
          BY <3>5, <5>2 DEF Right
        <5> QED
          BY <3>3, <5>1, <5>2
      <4>3. ASSUME NEW x \in Requests, Settles(x, r)'
            PROVE  /\ request'[x].status = "unexpected_error"
                   /\ row[r] \in {"running", "unexpected_error", "pruned"}
                   /\ told'[r] \subseteq {"unexpected_error"}
        <5>1. CASE x = q
          BY <3>2, <3>5, <4>3, <5>1 DEF Settles, MaySettle
        <5>2. CASE x # q
          <6>1. request'[x] = request[x] /\ Settles(x, r)
            BY <4>3, <5>2 DEF Settles, Moves
          <6> QED
            BY <3>3, <3>5, <4>1, <6>1 DEF Right
        <5> QED
          BY <5>1, <5>2
      <4> QED
        BY <1>1, <1>3, <4>2, <4>3 DEF PastInv, Settles
    <3>6. status[r] # "absent" => PastInv(r)'
      BY DEF PastInv
    <3> QED
      BY <3>4, <3>5, <3>6
  <2> QED
    BY <2>2, <2>3 DEF AnswerInv
<1>9. OrphanInv'
  BY DEF IInv, OrphanInv
<1>10. ASSUME NEW x \in Requests PROVE RequestInv(x)'
  <2>1. RequestInv(x) /\ RequestInv(q)
    BY DEF IInv
  <2>2. CASE x = q
    BY <1>1, <2>1, <2>2 DEF Moves, RequestInv
  <2>3. CASE x # q
    BY <1>1, <2>1, <2>3 DEF Moves, RequestInv
  <2> QED
    BY <2>2, <2>3
<1>11. RestOK'
  <2>1. desk' = NoCall
    BY <1>2 DEF Freed
  <2> QED
    BY <1>5, <2>1 DEF NoCall, IInv, TypeOK, RestOK, Terminal, Moves, Asked
<1>12. TypeOK' /\ \A x \in Runs : Life(x)'
  BY <1>2, <1>11, Types DEF ManagerOK
<1> QED
  BY <1>2, <1>3, <1>6, <1>7, <1>8, <1>9, <1>10, <1>12 DEF IInv

\* A request that is answered, or goes on to settle the row.
LEMMA Answered ==
    ASSUME IInv, NEW q \in Requests, NEW r \in Runs, request[q].run = r, NEW st, Answer(q, st)
    PROVE  /\ Moves(q, r) /\ request'[q].at = "idle"
           /\ st \notin Terminal => told' = told
           /\ st \in Terminal => told' = [told EXCEPT ![r] = @ \cup {st}]
<1>1. Idle \in Asked /\ Idle.at = "idle"
  BY DEF Idle, Asked, Status
<1>2. request \in [Requests -> Asked]
  BY DEF IInv, TypeOK, Asked
<1>3. request' = [request EXCEPT ![q] = Idle] /\ Leave
  BY DEF Answer
<1> QED
  BY <1>1, <1>2, <1>3 DEF Answer, Moves, Terminal

LEMMA Settling ==
    ASSUME IInv, NEW q \in Requests, NEW r \in Runs, request[q].run = r, NEW st \in Status,
           Settle(q, st)
    PROVE  Moves(q, r) /\ request'[q].at = "settle" /\ request'[q].status = st /\ told' = told
<1>1. request \in [Requests -> Asked]
  BY DEF IInv, TypeOK, Asked
<1>2. /\ request' = [request EXCEPT ![q].at = "settle", ![q].status = st]
      /\ Again(<<q, r>>) /\ told' = told
  BY DEF Settle
<1>3. request' \in [Requests -> Asked]
  BY <1>1, <1>2 DEF Asked
<1>4. /\ request'[q].at = "settle" /\ request'[q].status = st /\ request'[q].run = r
      /\ \A x \in Requests \ {q} : request'[x] = request[x]
  BY <1>1, <1>2 DEF Asked
<1> QED
  BY <1>2, <1>3, <1>4 DEF Moves

\* What a request has read of a restore.
LEMMA WhatIsFound ==
    ASSUME IInv, NEW q \in Requests, NEW r \in Runs, request[q].run = r, Served(<<q, r>>),
           request[q].at = "look", HasOne(r)
    PROVE  /\ Found \in Status
           /\ desk.result = "ok" => Found = desk.found /\ HasRead(r, Found)
           /\ desk.result # "ok" => Found = "running" /\ r \in pendingRestores
<1>1. line # <<>> /\ Head(line) = <<q, r>> /\ desk.stage = "done" /\ Looks(Head(line))
  BY DEF Served, Looks
<1>2. CASE desk.result = "ok"
  <2>1. Found = desk.found /\ HasRead(r, desk.found)
    BY <1>1, <1>2 DEF Found, HasRead
  <2>2. desk.found \in Status
    BY <1>1, <1>2 DEF IInv, DeskInv
  <2> QED
    BY <1>2, <2>1, <2>2
<1>3. CASE desk.result # "ok"
  BY <1>3 DEF HasOne, Found, Status
<1> QED
  BY <1>2, <1>3

\* Synchronizing reports and settles what it may.
LEMMA SyncMoves ==
    ASSUME IInv, NEW q \in Requests, NEW r \in Runs, request[q].run = r, Served(<<q, r>>),
           request[q].at = "look", HasOne(r), Sync(q, r)
    PROVE  /\ Moves(q, r) /\ pendingRestores' \subseteq pendingRestores
           /\ request'[q].at = "settle" => /\ request'[q].status \in Terminal
                                           /\ status[r] \notin Active
                                           /\ told' = told
                                           /\ r \notin failed \cup overtaken
                                                 => MaySettle(r, request'[q].status)
           /\ \/ told' = told
              \/ \E st \in Terminal : /\ told' = [told EXCEPT ![r] = @ \cup {st}]
                                      /\ r \notin failed \cup overtaken => Right(r, st)
<1>1. /\ Found \in Status
      /\ desk.result = "ok" => Found = desk.found /\ HasRead(r, Found)
      /\ desk.result # "ok" => Found = "running" /\ r \in pendingRestores
  BY WhatIsFound
<1>2. Life(r) /\ TruthInv(r) /\ AnswerInv(r)
  BY DEF IInv
<1>3. /\ told \in [Runs -> SUBSET Terminal]
      /\ status[r] \in {"absent"} \cup Active \cup Terminal
      /\ pc[r] \in {"none", "created", "startHook", "operation", "finishing",
                    "finishingCancelled", "returned", "cancelled", "gone"}
  BY DEF IInv, TypeOK, RM!TypeOK, Terminal, Active
<1>4. /\ "running" \notin Terminal /\ "absent" \notin Terminal /\ "absent" \notin Active
      /\ \A st \in Active : st \notin Terminal
      /\ Status = {"running"} \cup Terminal /\ "unexpected_error" \in Terminal
  BY DEF Terminal, RM!Terminal, Status, Active, RM!Active
<1>5. r \in runs => status[r] # "absent"
  BY <1>2 DEF Life, TaskAlive
<1>6. r \notin runs => /\ status[r] \notin Active
                       /\ hook[r] # "record"
  <2>1. r \notin runs => pc[r] \notin TaskAlive /\ fpc[r] = "none"
    BY <1>2 DEF Life
  <2>2. r \notin runs => status[r] \notin Active
    BY <1>2, <1>3, <1>4, <2>1 DEF Life, TaskAlive
  <2>3. r \notin runs => hook[r] # "record"
    BY <1>2, <2>1 DEF Life, TaskAlive, HookRunning
  <2> QED
    BY <2>2, <2>3
<1>7. CASE Found # "running"
  <2>1. Answer(q, Found) /\ pendingRestores' = pendingRestores \ {r}
    BY <1>7 DEF Sync
  <2>2. HasRead(r, Found) /\ Found \in Terminal
    BY <1>1, <1>4, <1>7
  <2>3. PICK st : st = Found
    OBVIOUS
  <2>4. /\ Moves(q, r) /\ request'[q].at = "idle"
        /\ told' = [told EXCEPT ![r] = @ \cup {st}]
    BY <2>1, <2>2, <2>3, Answered
  <2>5. ASSUME r \notin failed \cup overtaken PROVE Right(r, st)
    <3>1. LiveInv(r) /\ PastInv(r)
      BY <1>2, <2>5 DEF AnswerInv
    <3>2. status[r] # "absent" => st = status[r]
      BY <2>2, <2>3, <3>1 DEF LiveInv
    <3>3. status[r] = "absent" =>
            /\ told[r] \subseteq {st} /\ row[r] \in {st, "pruned"}
            /\ \A x \in Requests : Settles(x, r) => st = "unexpected_error"
      BY <2>2, <2>3, <3>1 DEF PastInv, Settles
    <3> QED
      BY <3>2, <3>3 DEF Right
  <2> QED
    BY <2>1, <2>2, <2>3, <2>4, <2>5
<1>8. CASE Found = "running" /\ r \in pendingRestores
  <2>1. PICK st : st = IF r \in runs THEN status[r] ELSE "running"
    OBVIOUS
  <2>2. Answer(q, st) /\ pendingRestores' \subseteq pendingRestores
    BY <1>8, <2>1 DEF Sync
  <2>3. /\ Moves(q, r) /\ request'[q].at = "idle"
        /\ st \notin Terminal => told' = told
        /\ st \in Terminal => told' = [told EXCEPT ![r] = @ \cup {st}]
    BY <2>2, Answered
  <2>4. ASSUME st \in Terminal PROVE Right(r, st)
    BY <1>4, <2>1, <2>4 DEF Right
  <2> QED
    BY <2>2, <2>3, <2>4
<1>9. CASE Found = "running" /\ r \notin pendingRestores
  <2>1. HasRead(r, "running")
    BY <1>1, <1>9
  <2>2. pendingRestores' = pendingRestores
    BY <1>9 DEF Sync
  <2>3. CASE r \notin runs
    <3>1. Settle(q, "unexpected_error")
      BY <1>9, <2>3 DEF Sync
    <3>2. /\ Moves(q, r) /\ request'[q].at = "settle" /\ told' = told
          /\ request'[q].status = "unexpected_error"
      BY <1>4, <3>1, Settling
    <3>3. ASSUME r \notin failed \cup overtaken PROVE MaySettle(r, "unexpected_error")
      <4>1. RecordedInv(r) /\ PastInv(r)
        BY <1>2, <3>3 DEF TruthInv, AnswerInv
      <4>2. status[r] = "absent"
        BY <1>3, <1>6, <2>1, <2>3, <4>1 DEF RecordedInv
      <4>3. row[r] = "running"
        BY <2>1, <4>1, <4>2 DEF PastInv
      <4>4. told[r] = {}
        BY <1>3, <1>4, <4>1, <4>2, <4>3 DEF PastInv
      <4> QED
        BY <4>2, <4>3, <4>4 DEF MaySettle
    <3> QED
      BY <1>4, <1>6, <2>2, <2>3, <3>2, <3>3
  <2>4. CASE r \in runs /\ status[r] \in Active
    <3>1. Answer(q, status[r])
      BY <1>4, <1>9, <2>4 DEF Sync, Active, Terminal
    <3>2. PICK st : st = status[r]
      OBVIOUS
    <3>3. Moves(q, r) /\ request'[q].at = "idle" /\ told' = told
      BY <1>4, <2>4, <3>1, <3>2, Answered
    <3> QED
      BY <2>2, <3>3
  <2>5. CASE r \in runs /\ status[r] \in Terminal
    <3>1. Settle(q, status[r])
      BY <1>4, <1>9, <2>5 DEF Sync, Active, Terminal
    <3>2. PICK st \in Terminal : st = status[r]
      BY <2>5
    <3>3. Moves(q, r) /\ request'[q].at = "settle" /\ told' = told /\ request'[q].status = st
      BY <1>4, <3>1, <3>2, Settling
    <3>4. MaySettle(r, st) /\ status[r] \notin Active
      BY <1>4, <3>2 DEF MaySettle
    <3> QED
      BY <2>2, <3>3, <3>4
  <2> QED
    BY <1>3, <1>5, <2>3, <2>4, <2>5
<1> QED
  BY <1>7, <1>8, <1>9

LEMMA ManagerQuiet == ASSUME UNCHANGED manager PROVE Quiet /\ status' = status
BY DEF manager, managerButRow, Quiet

LEMMA LookResumesKeepsIInv ==
    ASSUME IInv, NEW q \in Requests, LookResumes(q) PROVE IInv'
<1>1. PICK r \in Runs : r = request[q].run
  BY DEF IInv, TypeOK
<1>2. /\ Served(<<q, r>>) /\ request[q].at = "look"
      /\ UNCHANGED <<manager, details, orphans, starter, op, failed, overtaken>>
  BY <1>1 DEF LookResumes, ghosts
<1>3. ManagerOK' /\ Quiet /\ status' = status
  BY <1>2, ManagerUntouched, ManagerQuiet
<1>4. CASE HasOne(r)
  <2>1. Sync(q, r)
    BY <1>1, <1>4 DEF LookResumes
  <2> QED
    BY <1>1, <1>2, <1>3, <1>4, <2>1, SyncMoves, RequestMoves
<1>5. CASE ~HasOne(r)
  <2>1. /\ request' = [request EXCEPT ![q] = Idle] /\ Leave
        /\ UNCHANGED <<told, pendingRestores>>
    BY <1>1, <1>5 DEF LookResumes
  <2>2. Answer(q, "none")
    BY <2>1 DEF Answer, RM!Terminal
  <2>3. Moves(q, r) /\ request'[q].at = "idle"
    BY <1>1, <2>2, Answered
  <2> QED
    BY <1>1, <1>2, <1>3, <2>1, <2>3, RequestMoves
<1> QED
  BY <1>4, <1>5

LEMMA CancelResumesKeepsIInv ==
    ASSUME IInv, NEW q \in Requests, CancelResumes(q) PROVE IInv'
<1>1. PICK r \in Runs : r = request[q].run
  BY DEF IInv, TypeOK
<1>2. /\ Served(<<q, r>>) /\ request[q].at = "look"
      /\ UNCHANGED <<details, orphans, starter, op, failed, overtaken>>
  BY <1>1 DEF CancelResumes, ghosts
<1>3. CASE ~HasOne(r)
  <2>1. /\ request' = [request EXCEPT ![q] = Idle] /\ Leave
        /\ UNCHANGED <<manager, told, pendingRestores>>
    BY <1>1, <1>3 DEF CancelResumes
  <2>2. Answer(q, "none")
    BY <2>1 DEF Answer, RM!Terminal
  <2>3. Moves(q, r) /\ request'[q].at = "idle"
    BY <1>1, <2>2, Answered
  <2>4. ManagerOK' /\ Quiet /\ status' = status
    BY <2>1, ManagerUntouched, ManagerQuiet
  <2> QED
    BY <1>1, <1>2, <2>1, <2>3, <2>4, RequestMoves
<1>4. CASE HasOne(r) /\ r \notin runs
  <2>1. /\ request' = [request EXCEPT ![q].cancels = FALSE] /\ Again(<<q, r>>)
        /\ UNCHANGED <<manager, told, pendingRestores>>
    BY <1>1, <1>4 DEF CancelResumes
  <2>2. Moves(q, r) /\ request'[q].at = "look"
    <3>1. request \in [Requests -> Asked]
      BY DEF IInv, TypeOK, Asked
    <3>2. request' \in [Requests -> Asked]
      BY <2>1, <3>1 DEF Asked
    <3>3. /\ request'[q].at = "look" /\ request'[q].run = r
          /\ \A x \in Requests \ {q} : request'[x] = request[x]
      BY <1>1, <1>2, <2>1, <3>1 DEF Asked
    <3> QED
      BY <2>1, <3>2, <3>3 DEF Moves
  <2>3. ManagerOK' /\ Quiet /\ status' = status
    BY <2>1, ManagerUntouched, ManagerQuiet
  <2> QED
    BY <1>1, <1>2, <2>1, <2>2, <2>3, RequestMoves
<1>5. CASE HasOne(r) /\ r \in runs
  <2>1. Sync(q, r) /\ (RM!Cancel(r) \/ UNCHANGED manager)
    BY <1>1, <1>5 DEF CancelResumes
  <2>2. ManagerOK' /\ Quiet /\ status' = status
    <3>1. CASE RM!Cancel(r)
      <4>1. status' = status
        BY <3>1 DEF RM!Cancel, RM!records
      <4> QED
        BY <3>1, <4>1, ManagerIsOK, CancelFrame
    <3>2. CASE UNCHANGED manager
      BY <3>2, ManagerUntouched, ManagerQuiet
    <3> QED
      BY <2>1, <3>1, <3>2
  <2> QED
    BY <1>1, <1>2, <1>5, <2>1, <2>2, SyncMoves, RequestMoves
<1> QED
  BY <1>3, <1>4, <1>5

LEMMA SettleResumesKeepsIInv ==
    ASSUME IInv, NEW q \in Requests, SettleResumes(q) PROVE IInv'
<1>1. PICK r \in Runs : r = request[q].run
  BY DEF IInv, TypeOK
<1>2. /\ Served(<<q, r>>) /\ request[q].at = "settle" /\ Settles(q, r)
      /\ UNCHANGED <<manager, details, orphans, pendingRestores, starter, op, failed, overtaken>>
  BY <1>1 DEF SettleResumes, restores, ghosts, Settles
<1>3. ManagerOK' /\ Quiet /\ status' = status
  BY <1>2, ManagerUntouched, ManagerQuiet
<1>4. CASE desk.result = "ok"
  <2>1. PICK st : st = request[q].status
    OBVIOUS
  <2>2. Answer(q, st)
    BY <1>4, <2>1 DEF SettleResumes
  <2>3. st \in Terminal
    BY <1>2, <2>1 DEF IInv, RequestInv
  <2>4. /\ Moves(q, r) /\ request'[q].at = "idle"
        /\ told' = [told EXCEPT ![r] = @ \cup {st}]
    BY <1>1, <2>2, <2>3, Answered
  <2>5. ASSUME r \notin failed \cup overtaken PROVE Right(r, st)
    <3>1. LiveInv(r) /\ PastInv(r)
      BY <2>5 DEF IInv, AnswerInv
    <3>2. status[r] # "absent" => st = status[r]
      BY <1>2, <2>1, <3>1 DEF LiveInv, Settles
    <3>3. status[r] = "absent" =>
            /\ told[r] \subseteq {st} /\ row[r] \in {st, "pruned"} /\ st = "unexpected_error"
      BY <1>2, <1>4, <2>1, <3>1 DEF PastInv, Settles
    <3> QED
      BY <3>2, <3>3 DEF Right
  <2> QED
    BY <1>1, <1>2, <1>3, <2>3, <2>4, <2>5, RequestMoves
<1>5. CASE desk.result # "ok"
  <2>1. request' = [request EXCEPT ![q] = Idle] /\ Leave /\ UNCHANGED told
    BY <1>5 DEF SettleResumes
  <2>2. Answer(q, "none")
    BY <2>1 DEF Answer, RM!Terminal
  <2>3. Moves(q, r) /\ request'[q].at = "idle"
    BY <1>1, <2>2, Answered
  <2> QED
    BY <1>1, <1>2, <1>3, <2>1, <2>3, RequestMoves
<1> QED
  BY <1>4, <1>5

LEMMA AskKeepsIInv ==
    ASSUME IInv, NEW q \in Requests, NEW r \in Runs, Ask(q, r) PROVE IInv'
<1> DEFINE c == <<q, r>>
<1>1. /\ up /\ request[q].at = "idle" /\ r \in used /\ Enter(c)
      /\ UNCHANGED <<manager, details, orphans, pendingRestores, starter, op, told, failed,
                     overtaken>>
  BY DEF Ask, restores, ghosts
<1>2. request \in [Requests -> Asked]
  BY DEF IInv, TypeOK, Asked
<1>3. /\ request' \in [Requests -> Asked] /\ request'[q].at = "look" /\ request'[q].run = r
      /\ \A x \in Requests \ {q} : request'[x] = request[x]
  <2>1. PICK cancels \in BOOLEAN :
           request' = [request EXCEPT ![q] = [at |-> "look", cancels |-> cancels, run |-> r,
                                              status |-> "running"]]
    BY DEF Ask
  <2> QED
    BY <1>2, <2>1 DEF Asked, Status
<1>4. ManagerOK' /\ Quiet /\ status' = status
  BY <1>1, ManagerUntouched, ManagerQuiet
<1>5. UNCHANGED <<up, used, row>>
  BY <1>4 DEF Quiet
<1>6. c \in Callers /\ (\A x : c # <<"start", x>>) /\ ~Waits(c)
  BY <1>1, RestoreAssumption DEF Callers, Waits
<1>7. ASSUME NEW d \in Callers PROVE Waits(d)' <=> Waits(d) \/ d = c
  <2>1. CASE d[1] \in Requests \ {q}
    BY <1>3, <2>1, RestoreAssumption DEF Waits
  <2>2. CASE d[1] = q
    <3>1. ~Waits(d)
      BY <1>1, <2>2, RestoreAssumption DEF Waits
    <3>2. Waits(d)' <=> d[2] = r
      BY <1>3, <2>2, RestoreAssumption DEF Waits
    <3>3. d[2] = r <=> d = c
      BY <2>2 DEF Callers
    <3> QED
      BY <3>1, <3>2, <3>3
  <2>3. CASE d[1] \in {"start", "op"}
    <3>1. d # c
      BY <2>3, RestoreAssumption
    <3> QED
      BY <1>1, <2>3, <3>1, RestoreAssumption DEF Waits
  <2> QED
    BY <2>1, <2>2, <2>3 DEF Callers
<1>8. /\ line' \in Seq(Callers) /\ LineInv' /\ OrderInv'
      /\ HeadStays \/ (line = <<>> /\ Freed)
  <2>1. line \in Seq(Callers) /\ LineInv /\ OrderInv /\ DeskInv
    BY DEF IInv, TypeOK
  <2>2. \A x \in Runs : starter'[x] = "add" => starter[x] = "add" /\ c # <<"start", x>>
    BY <1>1, <1>6
  <2> HIDE DEF c
  <2> QED
    BY <1>1, <1>6, <1>7, <2>1, <2>2, EnterKeepsLine
<1>9. /\ DeskInv'
      /\ \A x \in Runs : DeskFor(x) /\ SameAnswers(x)
  <2>1. CASE HeadStays
    <3>1. Head(line)[1] # q
      <4>1. Head(line) \in Callers /\ Waits(Head(line))
        BY <2>1, HeadWaits DEF HeadStays, IInv, TypeOK
      <4> QED
        BY <1>1, <4>1, RestoreAssumption DEF Waits
    <3>2. Head(line)[1] \in Requests => request'[Head(line)[1]] = request[Head(line)[1]]
      BY <1>3, <3>1
    <3>3. /\ DeskInv'
          /\ \A d : Served(d)' <=> Served(d)
          /\ \A x, st : HasRead(x, st)' <=> HasRead(x, st)
      <4>1. DeskInv /\ line \in Seq(Callers)
        BY DEF IInv, TypeOK
      <4> QED
        BY <1>1, <1>5, <2>1, <3>2, <4>1, StayingDesk
    <3>4. \A x \in Runs : DeskFor(x)
      BY <1>1, <1>5, <2>1, <3>3, StayingFor
    <3>5. ASSUME NEW x \in Runs PROVE SameAnswers(x)
      <4>1. ASSUME NEW y \in Requests, Settles(y, x)'
            PROVE  Settles(y, x) /\ request'[y] = request[y]
        BY <1>3, <4>1 DEF Settles
      <4>2. ASSUME NEW y \in Requests, HasSettled(y, x)' PROVE HasSettled(y, x)
        <5>1. Settles(y, x)'
          BY <4>2 DEF HasSettled
        <5> QED
          BY <2>1, <3>3, <4>1, <4>2, <5>1 DEF HasSettled, HeadStays
      <4> QED
        BY <1>1, <4>1, <4>2 DEF SameAnswers
    <3> QED
      BY <3>3, <3>4, <3>5
  <2>2. CASE line = <<>> /\ Freed
    <3>1. DeskInv' /\ \A d : ~Served(d)'
      BY <2>2, FreedDesk
    <3>2. \A x \in Runs : DeskFor(x)
      BY <1>1, <2>2, FreedFor
    <3>3. ASSUME NEW x \in Runs PROVE SameAnswers(x)
      <4>1. ASSUME NEW y \in Requests, Settles(y, x)'
            PROVE  Settles(y, x) /\ request'[y] = request[y]
        BY <1>3, <4>1 DEF Settles
      <4>2. \A y \in Requests : ~HasSettled(y, x)'
        BY <3>1 DEF HasSettled
      <4> QED
        BY <1>1, <4>1, <4>2 DEF SameAnswers
    <3> QED
      BY <3>1, <3>2, <3>3
  <2> QED
    BY <1>8, <2>1, <2>2
<1>10. ASSUME NEW x \in Runs PROVE OpInv(x)' /\ TruthInv(x)' /\ AnswerInv(x)'
  <2>1. SameState(x)
    BY <1>1, <1>4, <1>5 DEF Quiet, SameState
  <2>2. OpInv(x) /\ TruthInv(x) /\ AnswerInv(x) /\ \A y \in Requests : RequestInv(y)
    BY DEF IInv
  <2>3. told[x] \subseteq Terminal
    BY DEF IInv, TypeOK, Terminal
  <2> QED
    BY <1>9, <2>1, <2>2, <2>3, OpKept, TruthKept, AnswersKept
<1>11. OrphanInv'
  BY <1>1 DEF IInv, OrphanInv
<1>12. ASSUME NEW x \in Requests PROVE RequestInv(x)'
  <2>1. RequestInv(x)
    BY DEF IInv
  <2>2. CASE x = q
    BY <1>1, <1>3, <1>5, <2>2 DEF RequestInv
  <2>3. CASE x # q
    BY <1>3, <1>4, <1>5, <2>1, <2>3 DEF RequestInv
  <2> QED
    BY <2>2, <2>3
<1>13. RestOK'
  <2>1. desk' = desk
    BY <1>1 DEF Enter
  <2> QED
    BY <1>1, <1>3, <2>1 DEF IInv, TypeOK, RestOK, Asked
<1>14. TypeOK' /\ \A x \in Runs : Life(x)'
  BY <1>4, <1>8, <1>13, Types DEF ManagerOK
<1> QED
  BY <1>8, <1>9, <1>10, <1>11, <1>12, <1>14 DEF IInv

-----------------------------------------------------------------------------
(* The hooks of the manager, which write the table, and the process.        *)

\* The line and the desk do not move when a hook writes.
LEMMA DeskStays ==
    ASSUME UNCHANGED <<up, line, desk, starter, op, request, told>>
    PROVE  /\ \A c : Served(c)' <=> Served(c)
           /\ \A r, st : HasRead(r, st)' <=> HasRead(r, st)
           /\ \A r \in Runs : DeskFor(r) /\ SameAnswers(r)
<1>1. /\ \A c : Served(c)' <=> Served(c)
      /\ \A r, st : HasRead(r, st)' <=> HasRead(r, st)
  BY DEF Served, HasRead, Looks
<1> QED
  BY <1>1 DEF DeskFor, Inserted, Reported, SameAnswers, Settles, HasSettled

\* What the steps of the hooks leave of the invariant.
LEMMA HookKeeps ==
    ASSUME IInv, ManagerOK', UNCHANGED <<up, used, status, line, desk, starter, op, orphans,
                                         pendingRestores, request, told>>,
           details' \subseteq Runs, failed \subseteq failed', failed' \subseteq Runs,
           overtaken \subseteq overtaken', overtaken' \subseteq Runs
    PROVE  /\ TypeOK' /\ LineInv' /\ OrderInv' /\ DeskInv' /\ OrphanInv'
           /\ (\A q \in Requests : RequestInv(q)') /\ \A x \in Runs : Life(x)'
<1>1. LineInv' /\ OrderInv'
  <2>1. \A d \in Callers : Waits(d)' <=> Waits(d)
    BY DEF Waits
  <2> QED
    BY <2>1, SameLine DEF IInv
<1>2. DeskInv'
  BY DEF IInv, DeskInv, Looks
<1>3. OrphanInv'
  BY DEF IInv, OrphanInv
<1>4. \A q \in Requests : RequestInv(q)'
  BY DEF IInv, RequestInv
<1>5. RestOK' /\ line' \in Seq(Callers)
  BY DEF IInv, TypeOK, RestOK
<1>6. TypeOK' /\ \A x \in Runs : Life(x)'
  BY <1>5, Types DEF ManagerOK
<1> QED
  BY <1>1, <1>2, <1>3, <1>4, <1>6

LEMMA HookCreatesKeepsIInv == ASSUME IInv, NEW r \in Runs, HookCreates(r) PROVE IInv'
<1>1. /\ RM!CreateRow(r)
      /\ failed' = IF row'[r] = "running" THEN failed ELSE failed \cup {r}
      /\ UNCHANGED <<details, line, desk, orphans, pendingRestores, starter, op, request, told,
                     overtaken>>
  BY DEF HookCreates, registry, restores, answers
<1>2. /\ ManagerOK' /\ pc[r] = "startHook" /\ hook' = [hook EXCEPT ![r] = "created"]
      /\ up /\ UNCHANGED <<up, used, status, pc>>
      /\ row' = [row EXCEPT ![r] = "running"] \/ row' = row
  BY <1>1, ManagerIsOK, CreateRowFrame
<1>3. /\ failed \subseteq Runs /\ overtaken \subseteq Runs /\ details \subseteq Runs
      /\ failed \subseteq failed' /\ failed' \subseteq failed \cup {r}
  BY <1>1 DEF IInv, TypeOK
<1>4. /\ TypeOK' /\ LineInv' /\ OrderInv' /\ DeskInv' /\ OrphanInv'
      /\ (\A q \in Requests : RequestInv(q)') /\ \A x \in Runs : Life(x)'
  BY <1>1, <1>2, <1>3, HookKeeps
<1>5. /\ \A c : Served(c)' <=> Served(c)
      /\ \A x, st : HasRead(x, st)' <=> HasRead(x, st)
      /\ \A x \in Runs : DeskFor(x) /\ SameAnswers(x)
  BY <1>1, <1>2, DeskStays
<1>6. /\ \A x \in Runs \ {r} : row'[x] = row[x] /\ hook'[x] = hook[x]
      /\ row'[r] = "running" \/ row'[r] = row[r]
  BY <1>2 DEF IInv, TypeOK, RM!TypeOK
<1>7. ASSUME NEW x \in Runs \ {r} PROVE OpInv(x)' /\ TruthInv(x)' /\ AnswerInv(x)'
  <2>1. SameState(x)
    BY <1>1, <1>2, <1>3, <1>6 DEF SameState
  <2>2. OpInv(x) /\ TruthInv(x) /\ AnswerInv(x) /\ \A q \in Requests : RequestInv(q)
    BY DEF IInv
  <2>3. told[x] \subseteq Terminal
    BY DEF IInv, TypeOK, Terminal
  <2> QED
    BY <1>5, <2>1, <2>2, <2>3, OpKept, TruthKept, AnswersKept
<1>8. OpInv(r) /\ TruthInv(r) /\ AnswerInv(r) /\ Life(r)
  BY DEF IInv
<1>9. status[r] = "running" /\ status[r] \in Active /\ r \in used
  BY <1>2, <1>8 DEF Life, Active, RM!Active
<1>10. /\ "running" \in Status /\ "running" \notin Terminal
       /\ "running" # "absent"
  BY DEF Status, Terminal, RM!Terminal
<1>11. OpInv(r)'
  BY <1>1, <1>2, <1>3, <1>6, <1>8, <1>9, <1>10 DEF OpInv
<1>12. TruthInv(r)' /\ AnswerInv(r)'
  <2>1. r \notin failed' => row'[r] = "running" /\ r \notin failed
    BY <1>1
  <2>2. r \notin failed' => SoundInv(r)'
    BY <1>10, <2>1 DEF SoundInv
  <2>3. ASSUME r \notin failed' \cup overtaken'
        PROVE  KeptInv(r)' /\ RowInv(r)' /\ RecordedInv(r)' /\ LiveInv(r)' /\ PastInv(r)'
    <3>1. SoundInv(r) /\ KeptInv(r) /\ LiveInv(r)
      BY <1>1, <1>8, <2>1, <2>3 DEF TruthInv, AnswerInv
    <3>2. row[r] # "pruned"
      BY <1>2, <1>9, <3>1 DEF SoundInv
    <3>3. KeptInv(r)'
      BY <1>1, <1>5, <3>1, <3>2 DEF KeptInv, Inserted
    <3>4. RowInv(r)' /\ RecordedInv(r)' /\ PastInv(r)'
      BY <1>2, <1>9, <1>10, <2>1, <2>3 DEF RowInv, RecordedInv, PastInv
    <3>5. LiveInv(r)'
      BY <1>1, <1>2, <1>5, <3>1 DEF LiveInv
    <3> QED
      BY <3>3, <3>4, <3>5
  <2>4. told'[r] # {} => up' /\ r \in used'
    BY <1>1, <1>2, <1>8 DEF AnswerInv
  <2> QED
    BY <2>2, <2>3, <2>4 DEF TruthInv, AnswerInv
<1> QED
  BY <1>4, <1>7, <1>11, <1>12 DEF IInv

LEMMA HookRecordsKeepsIInv == ASSUME IInv, NEW r \in Runs, HookRecords(r) PROVE IInv'
<1>1. /\ RM!RecordRow(r)
      /\ row' = [row EXCEPT ![r] = status[r]] \/ row' = row
      /\ Cascade(details)
      /\ failed' = IF row'[r] = status[r] THEN failed ELSE failed \cup {r}
      /\ overtaken' = IF Overtakes(r) THEN overtaken \cup {r} ELSE overtaken
      /\ UNCHANGED <<line, desk, orphans, pendingRestores, starter, op, request, told>>
  BY DEF HookRecords, restores, answers
<1>2. /\ ManagerOK' /\ hook[r] = "record" /\ hook' = [hook EXCEPT ![r] = "notify"]
      /\ status[r] \in Terminal
      /\ up /\ UNCHANGED <<up, used, status, pc>>
      /\ \A q \in Runs \ {r} : PrunedAtMost(q)
      /\ row'[r] \in {status[r], "pruned"} \/ row' = row
  BY <1>1, ManagerIsOK, RecordRowFrame
<1>3. /\ failed \subseteq Runs /\ overtaken \subseteq Runs /\ details \subseteq Runs
      /\ failed \subseteq failed' /\ failed' \subseteq failed \cup {r}
      /\ overtaken \subseteq overtaken' /\ overtaken' \subseteq overtaken \cup {r}
      /\ details' \subseteq Runs
      /\ \A q \in Runs : q \in details' <=> q \in details /\ row'[q] \in Status
  BY <1>1 DEF IInv, TypeOK, Cascade
<1>4. /\ TypeOK' /\ LineInv' /\ OrderInv' /\ DeskInv' /\ OrphanInv'
      /\ (\A q \in Requests : RequestInv(q)') /\ \A x \in Runs : Life(x)'
  BY <1>1, <1>2, <1>3, HookKeeps
<1>5. /\ \A c : Served(c)' <=> Served(c)
      /\ \A x, st : HasRead(x, st)' <=> HasRead(x, st)
      /\ \A x \in Runs : DeskFor(x) /\ SameAnswers(x)
  BY <1>1, <1>2, DeskStays
<1>6. hook'[r] = "notify" /\ \A x \in Runs \ {r} : hook'[x] = hook[x]
  BY <1>2 DEF IInv, TypeOK, RM!TypeOK
<1>7. ASSUME NEW x \in Runs \ {r} PROVE OpInv(x)' /\ TruthInv(x)' /\ AnswerInv(x)'
  <2>1. \/ row'[x] = row[x] /\ (x \in details' <=> x \in details)
        \/ row[x] \in Terminal /\ row'[x] = "pruned" /\ x \notin details'
    BY <1>2, <1>3, OthersAreSame
  <2>2. SameState(x)
    BY <1>1, <1>2, <1>3, <1>6, <2>1 DEF SameState
  <2>3. OpInv(x) /\ TruthInv(x) /\ AnswerInv(x) /\ \A q \in Requests : RequestInv(q)
    BY DEF IInv
  <2>4. told[x] \subseteq Terminal
    BY DEF IInv, TypeOK, Terminal
  <2> QED
    BY <1>5, <2>2, <2>3, <2>4, OpKept, TruthKept, AnswersKept
<1>8. OpInv(r) /\ TruthInv(r) /\ AnswerInv(r) /\ Life(r)
  BY DEF IInv
<1>9. status[r] \notin Active /\ status[r] # "absent" /\ status[r] \in Status
  BY <1>2 DEF Active, RM!Active, Terminal, RM!Terminal, Status
<1>10. r \in used
  BY <1>8, <1>9 DEF Life
<1>11. op[r].at \notin Busy
  <2>1. pc[r] # "operation"
    BY <1>2, <1>8 DEF Life, HookRunning
  <2> QED
    BY <1>8, <2>1 DEF OpInv
<1>12. OpInv(r)'
  BY <1>1, <1>2, <1>3, <1>8, <1>9, <1>10 DEF OpInv
<1>13. TruthInv(r)' /\ AnswerInv(r)'
  <2>1. SoundInv(r)'
    BY <1>1, <1>2, <1>6, <1>9, <1>11 DEF SoundInv
  <2>2. ASSUME r \notin failed' \cup overtaken'
        PROVE  KeptInv(r)' /\ RowInv(r)' /\ RecordedInv(r)' /\ LiveInv(r)' /\ PastInv(r)'
    <3>1. row'[r] = status[r] /\ ~Overtakes(r) /\ r \notin failed \cup overtaken
      BY <1>1, <2>2
    <3>2. KeptInv(r) /\ LiveInv(r)
      BY <1>8, <3>1 DEF TruthInv, AnswerInv
    <3>3. Inserted(r) /\ (\A o \in orphans : o[1] # r) /\ row[r] # "pruned"
      BY <3>1 DEF Overtakes, Inserted
    <3>4. ~HasRead(r, "running")
      <4>1. SUFFICES ASSUME HasRead(r, "running") PROVE FALSE
        OBVIOUS
      <4>2. PICK c \in Callers : c = Head(line) /\ c[2] = r /\ Looks(c)
        BY <4>1, HeadOfLine DEF HasRead, IInv, TypeOK
      <4>3. c[1] \in Requests /\ request[c[1]].at = "look" /\ c = <<c[1], r>>
        BY <4>2 DEF Looks, Callers
      <4>4. Served(<<c[1], r>>) /\ desk.found = "running"
        BY <1>2, <4>1, <4>2, <4>3 DEF Served, HasRead
      <4> QED
        BY <3>1, <4>3, <4>4 DEF Overtakes
    <3>5. KeptInv(r)'
      BY <1>1, <1>3, <1>5, <1>9, <3>1, <3>2, <3>3 DEF KeptInv, Inserted
    <3>6. RowInv(r)' /\ PastInv(r)'
      BY <1>2, <1>9, <3>1 DEF RowInv, PastInv
    <3>7. RecordedInv(r)'
      BY <1>1, <1>2, <1>5, <3>1, <3>3, <3>4 DEF RecordedInv, Inserted
    <3>8. LiveInv(r)'
      BY <1>1, <1>2, <1>5, <3>2 DEF LiveInv
    <3> QED
      BY <3>5, <3>6, <3>7, <3>8
  <2>3. told'[r] # {} => up' /\ r \in used'
    BY <1>1, <1>2, <1>8 DEF AnswerInv
  <2> QED
    BY <2>1, <2>2, <2>3 DEF TruthInv, AnswerInv
<1> QED
  BY <1>4, <1>7, <1>12, <1>13 DEF IInv

\* Without a process nothing is under way.
NobodyCalls ==
    /\ line = <<>> /\ desk = NoCall /\ orphans = {}
    /\ starter = RM!Everywhere("none") /\ op = RM!Everywhere(NoOp)
    /\ \A q \in Requests : request[q].at = "idle"
    /\ told = RM!Everywhere({})

NoRuns == ManagerOK /\ \A r \in Runs : status[r] = "absent" /\ pc[r] = "none"

\* The parts of IInv that then hold whatever is in the tables.
NothingOpen ==
    /\ LineInv /\ OrderInv /\ DeskInv /\ OrphanInv
    /\ \A q \in Requests : RequestInv(q)
    /\ \A r \in Runs : TruthInv(r) /\ AnswerInv(r)

LEMMA NobodyKeeps == NoRuns /\ NobodyCalls => NothingOpen
<1> SUFFICES ASSUME NoRuns, NobodyCalls PROVE NothingOpen
  OBVIOUS
<1>1. \A r \in Runs : starter[r] = "none" /\ op[r].at = "none" /\ told[r] = {}
  BY DEF NobodyCalls, RM!Everywhere, NoOp
<1>2. LineInv
  <2>1. \A d \in Callers : ~Waits(d)
    BY <1>1, RestoreAssumption DEF Waits, Waiting, NobodyCalls, Callers
  <2>2. \A d : ~InLine(line, d)
    BY NobodyInLine DEF NobodyCalls
  <2>3. Once(line)
    BY DEF NobodyCalls, Once
  <2> QED
    BY <2>1, <2>2, <2>3 DEF LineInv
<1>3. OrderInv /\ DeskInv /\ OrphanInv /\ \A q \in Requests : RequestInv(q)
  BY <1>1 DEF OrderInv, DeskInv, OrphanInv, RequestInv, NobodyCalls, NoCall
<1>4. ASSUME NEW r \in Runs PROVE TruthInv(r) /\ AnswerInv(r)
  <2>1. \A st : ~HasRead(r, st)
    BY DEF HasRead, NobodyCalls
  <2>2. "absent" \notin Terminal /\ "absent" \notin Active
    BY DEF Terminal, RM!Terminal, Active, RM!Active
  <2>3. op[r].at \notin Busy
    BY <1>1 DEF Busy, Waiting
  <2>4. hook[r] # "created"
    BY DEF NoRuns, ManagerOK, Life
  <2>5. SoundInv(r)
    BY <2>2, <2>3, <2>4 DEF NoRuns, SoundInv
  <2>6. KeptInv(r) /\ RowInv(r) /\ RecordedInv(r) /\ LiveInv(r)
    BY <1>1, <2>2 DEF NoRuns, KeptInv, RowInv, RecordedInv, LiveInv
  <2>7. PastInv(r)
    BY <1>1, <2>1 DEF PastInv, NobodyCalls
  <2> QED
    BY <1>1, <2>5, <2>6, <2>7 DEF TruthInv, AnswerInv
<1> QED
  BY <1>2, <1>3, <1>4 DEF NothingOpen

\* The types then.
RestTables ==
    /\ details \subseteq Runs /\ pendingRestores \subseteq Runs
    /\ request \in [Requests -> Asked] /\ failed \subseteq Runs /\ overtaken \subseteq Runs

LEMMA NobodyTypes == NobodyCalls /\ RestTables => RestOK /\ line \in Seq(Callers)
<1> SUFFICES ASSUME NobodyCalls, RestTables PROVE RestOK /\ line \in Seq(Callers)
  OBVIOUS
<1>1. line \in Seq(Callers)
  BY EmptySeq DEF NobodyCalls
<1>2. NoOp \in Places
  BY DEF NoOp, Places, RM!Results
<1>3. op \in [Runs -> Places] /\ starter \in [Runs -> {"none"}] /\ told \in [Runs -> {{}}]
  BY <1>2 DEF NobodyCalls, RM!Everywhere
<1> QED
  BY <1>1, <1>3 DEF NobodyCalls, RestTables, NoCall, RestOK, Places, Asked

LEMMA InitIInv == ASSUME Init PROVE IInv
<1>1. /\ RM!Init
      /\ details = {} /\ failed = {} /\ overtaken = {} /\ pendingRestores = {}
      /\ request = [q \in Requests |-> Idle]
  BY DEF Init
<1>2. RM!TypeOK
  BY <1>1, RestoreAssumption DEF RM!Init, RM!TypeOK, RM!Everywhere
<1>3. /\ \A r \in Runs : Life(r)
      /\ \A r \in Runs : status[r] = "absent" /\ pc[r] = "none" /\ row[r] = "none"
  BY <1>1 DEF RM!Init, RM!Everywhere, Life, TaskAlive, HookRunning, Active, RM!Active
<1>4. request \in [Requests -> Asked] /\ \A q \in Requests : request[q].at = "idle"
  <2>1. Idle \in Asked /\ Idle.at = "idle"
    BY RestoreAssumption DEF Idle, Asked, Status
  <2> QED
    BY <1>1, <2>1
<1>5. NobodyCalls
  BY <1>4 DEF Init, NobodyCalls
<1>6. ManagerOK
  BY <1>2, <1>3 DEF ManagerOK
<1>7. NothingOpen
  BY <1>3, <1>5, <1>6, NobodyKeeps DEF NoRuns
<1>8. ASSUME NEW r \in Runs PROVE OpInv(r)
  <2>1. starter[r] = "none" /\ op[r].at = "none"
    BY DEF Init, RM!Everywhere, NoOp
  <2> QED
    BY <1>1, <1>3, <2>1 DEF OpInv, Busy, Waiting
<1>9. TypeOK
  <2>1. RestOK /\ line \in Seq(Callers)
    BY <1>1, <1>4, <1>5, NobodyTypes DEF RestTables
  <2> QED
    BY <1>2, <2>1 DEF RestOK, TypeOK
<1> QED
  BY <1>3, <1>7, <1>8, <1>9 DEF IInv, NothingOpen

LEMMA ExitKeepsIInv == ASSUME IInv, Exit PROVE IInv'
<1>1. /\ RM!Exit /\ pendingRestores' = {} /\ line' = <<>> /\ desk' = NoCall /\ orphans' = {}
      /\ starter' = RM!Everywhere("none") /\ op' = RM!Everywhere(NoOp)
      /\ request' = [q \in Requests |-> Idle] /\ told' = RM!Everywhere({})
      /\ UNCHANGED <<details, failed, overtaken>>
  BY DEF Exit, ghosts, RM!Everywhere
<1>2. /\ ManagerOK' /\ ~up' /\ used' = used
      /\ \A q \in Runs : status'[q] = "absent" /\ pc'[q] = "none" /\ hook'[q] = "none"
      /\ \A q \in Runs : \/ row'[q] = row[q]
                         \/ status[q] \in Active /\ row'[q] = "cancelled"
  BY <1>1, ManagerIsOK, ExitFrame
<1>3. Idle \in Asked /\ Idle.at = "idle"
  BY RestoreAssumption DEF Idle, Asked, Status
<1>4. request' \in [Requests -> Asked] /\ NobodyCalls'
  BY <1>1, <1>3 DEF NobodyCalls, RM!Everywhere
<1>5. NothingOpen'
  <2>1. NoRuns'
    BY <1>2 DEF NoRuns
  <2>2. (NoRuns /\ NobodyCalls => NothingOpen)'
    BY NobodyKeeps, PTL
  <2> QED
    BY <1>4, <2>1, <2>2
<1>6. (RestOK /\ line \in Seq(Callers))'
  <2>1. RestTables'
    BY <1>1, <1>4 DEF RestTables, IInv, TypeOK
  <2>2. (NobodyCalls /\ RestTables => RestOK /\ line \in Seq(Callers))'
    BY NobodyTypes, PTL
  <2> QED
    BY <1>4, <2>1, <2>2
<1>7. ASSUME NEW r \in Runs PROVE OpInv(r)'
  <2>1. OpInv(r) /\ Life(r)
    BY DEF IInv
  <2>2. starter'[r] = "none" /\ op'[r].at = "none"
    BY <1>1 DEF RM!Everywhere, NoOp
  <2>3. r \notin used => row'[r] = "none"
    BY <1>2, <2>1 DEF OpInv, Life, Active, RM!Active
  <2>4. r \in details => row'[r] \in Status
    BY <1>2, <2>1 DEF OpInv, Status, RM!Terminal
  <2>5. status'[r] \notin Active
    BY <1>2 DEF Active, RM!Active
  <2> QED
    BY <1>1, <1>2, <2>1, <2>2, <2>3, <2>4, <2>5 DEF OpInv, Busy, Waiting
<1>8. TypeOK' /\ \A r \in Runs : Life(r)'
  BY <1>2, <1>6, Types DEF ManagerOK
<1> QED
  BY <1>5, <1>7, <1>8 DEF IInv, NothingOpen

LEMMA BootKeepsIInv == ASSUME IInv, Boot PROVE IInv'
<1>1. /\ RM!Boot /\ Cascade(details)
      /\ UNCHANGED <<line, desk, orphans, pendingRestores, starter, op, request, told, failed,
                     overtaken>>
  BY DEF Boot, restores, answers, ghosts
<1>2. /\ ManagerOK' /\ ~up /\ UNCHANGED <<used, status, pc, hook>>
      /\ \A q \in Runs : Swept(q)
  BY <1>1, ManagerIsOK, BootFrame
<1>3. \A r \in Runs : status[r] = "absent" /\ pc[r] = "none" /\ starter[r] = "none"
                      /\ op[r].at = "none" /\ told[r] = {}
  BY <1>2 DEF IInv, Life, OpInv, AnswerInv
<1>4. \A q \in Requests : request[q].at = "idle"
  BY <1>2 DEF IInv, RequestInv, TypeOK
<1>5. LineInv' /\ OrderInv'
  <2>1. \A d \in Callers : Waits(d)' <=> Waits(d)
    BY <1>1 DEF Waits
  <2> QED
    BY <1>1, <2>1, SameLine DEF IInv
<1>6. line = <<>>
  <2>1. SUFFICES ASSUME line # <<>> PROVE FALSE
    OBVIOUS
  <2>2. Head(line) \in Callers /\ Waits(Head(line))
    BY <2>1, HeadWaits DEF IInv, TypeOK
  <2> QED
    BY <1>3, <1>4, <2>2 DEF Waits, Waiting, Callers
<1>7. DeskInv' /\ OrphanInv' /\ \A q \in Requests : RequestInv(q)'
  <2>1. DeskInv'
    BY <1>1, <1>6 DEF IInv, DeskInv
  <2>2. OrphanInv'
    BY <1>1 DEF IInv, OrphanInv
  <2>3. \A q \in Requests : RequestInv(q)'
    BY <1>1, <1>4 DEF RequestInv
  <2> QED
    BY <2>1, <2>2, <2>3
<1>8. ASSUME NEW r \in Runs PROVE OpInv(r)' /\ TruthInv(r)' /\ AnswerInv(r)'
  <2>1. OpInv(r) /\ Life(r)
    BY DEF IInv
  <2>2. /\ starter'[r] = "none" /\ op'[r].at = "none" /\ told'[r] = {}
        /\ status'[r] = "absent" /\ pc'[r] = "none" /\ hook'[r] # "created"
    BY <1>1, <1>2, <1>3, <2>1 DEF Life
  <2>3. "absent" \notin Terminal /\ "absent" \notin Active /\ "none" \notin Terminal
    BY DEF Terminal, RM!Terminal, Active, RM!Active
  <2>4. OpInv(r)'
    <3>1. r \notin used' => row'[r] = "none"
      BY <1>2, <2>1, <2>3 DEF OpInv, Swept, PrunedAtMost
    <3>2. r \in details' => row'[r] \in Status
      BY <1>1 DEF Cascade
    <3> QED
      BY <1>1, <1>2, <2>1, <2>2, <2>3, <3>1, <3>2 DEF OpInv, Busy, Waiting
  <2>5. op'[r].at \notin Busy
    BY <2>2 DEF Busy, Waiting
  <2>6. SoundInv(r)' /\ KeptInv(r)' /\ RowInv(r)' /\ RecordedInv(r)' /\ LiveInv(r)'
    BY <2>2, <2>3, <2>5 DEF SoundInv, KeptInv, RowInv, RecordedInv, LiveInv
  <2>7. PastInv(r)'
    <3>1. \A st : ~HasRead(r, st)'
      BY <1>1, <1>6 DEF HasRead
    <3> QED
      BY <1>1, <1>4, <2>2, <3>1 DEF PastInv
  <2> QED
    BY <2>2, <2>4, <2>6, <2>7 DEF TruthInv, AnswerInv
<1>9. RestOK' /\ line' \in Seq(Callers)
  BY <1>1 DEF IInv, TypeOK, RestOK, Cascade
<1>10. TypeOK' /\ \A r \in Runs : Life(r)'
  BY <1>2, <1>9, Types DEF ManagerOK
<1> QED
  BY <1>5, <1>7, <1>8, <1>10 DEF IInv

LEMMA StutterKeepsIInv == ASSUME IInv, UNCHANGED vars PROVE IInv'
<1>1. UNCHANGED manager /\ UNCHANGED own
  BY DEF vars, own
<1> QED
  BY <1>1, ManagerUntouched, ManagerQuiet, QuietKeepsIInv

LEMMA NextKeepsIInv == ASSUME IInv, [Next]_vars PROVE IInv'
<1>1. ASSUME NEW r \in Runs, StartRestore(r) \/ StartResumes(r) \/ OperationStep(r)
                             \/ HookCreates(r) \/ HookRecords(r)
      PROVE  IInv'
  BY <1>1, StartRestoreKeepsIInv, StartResumesKeepsIInv, OperationStepKeepsIInv,
     HookCreatesKeepsIInv, HookRecordsKeepsIInv
<1>2. ASSUME \/ \E r \in Runs : ManagerStep(r)
             \/ (RM!Shutdown \/ RM!ShutdownStep) /\ UNCHANGED own
      PROVE  IInv'
  BY <1>2, ManagerKeepsIInv
<1>3. ASSUME NEW q \in Requests, RequestStep(q) \/ \E r \in Runs : Ask(q, r) PROVE IInv'
  BY <1>3, LookResumesKeepsIInv, CancelResumesKeepsIInv, SettleResumesKeepsIInv, AskKeepsIInv
     DEF RequestStep
<1>4. ASSUME Read \/ Write \/ OrphanLands \/ Exit \/ Boot PROVE IInv'
  BY <1>4, ReadKeepsIInv, WriteKeepsIInv, OrphanLandsKeepsIInv, ExitKeepsIInv, BootKeepsIInv
<1>5. ASSUME UNCHANGED vars PROVE IInv'
  BY <1>5, StutterKeepsIInv
<1> QED
  BY <1>1, <1>2, <1>3, <1>4, <1>5 DEF Next

-----------------------------------------------------------------------------
(* The theorems.                                                            *)

\* The invariant of the line, the desk, the rows and the answers holds in every state of
\* every execution, with any number of restores, requests and restarts and with statements
\* that fail.
THEOREM InductiveInvariant == Spec => []IInv
<1>1. Init => IInv
  BY InitIInv
<1>2. IInv /\ [Next]_vars => IInv'
  BY NextKeepsIInv
<1> QED
  BY <1>1, <1>2, PTL DEF Spec

\* Every variable of the restores keeps its type, the line of the registry included, in
\* which only callers of the registry stand.
THEOREM TypeCorrect == Spec => []TypeOK
<1>1. IInv => TypeOK
  BY DEF IInv
<1> QED
  BY <1>1, InductiveInvariant, PTL

\* No call of the registry misses its record: the insertion is in front of every other
\* call for its restore, so the operation finds what it updates and a request finds every
\* restore of this process that was not pruned (restore.py: _execute_tagged, get_restore).
THEOREM RestoresCanBeFound == Spec => []RestoresAreFound
<1>1. IInv => RestoresAreFound
  BY FoundInTable
<1> QED
  BY <1>1, InductiveInvariant, PTL

\* The manager keeps its books under restores too: a run has a record exactly while a
\* task of it is left, and neither an unfinished run nor an event that is still to be set
\* is without one, although restores end their runs from the middle of a registry call
\* and are cancelled in it (core/run_manager.py: _drop_completed_record).
THEOREM ManagerKeepsItsRecords == Spec => []RM!RecordsOwned
<1>1. ASSUME IInv PROVE RM!RecordsOwned
  <2>1. runs \subseteq Runs /\ tasks \subseteq Runs /\ finishTasks \subseteq Runs
        /\ events \subseteq Runs
    BY <1>1 DEF IInv, TypeOK, RM!TypeOK
  <2>2. \A r \in Runs : Life(r)
    BY <1>1 DEF IInv
  <2>3. runs = tasks \cup finishTasks
    BY <2>1, <2>2 DEF Life
  <2>4. \A r \in Runs : status[r] \in Active => r \in events
    BY <2>2 DEF Life
  <2>5. ASSUME NEW r \in events PROVE r \in runs
    <3>1. r \in Runs /\ Life(r) /\ pc[r] \in TaskAlive \cup {"none", "gone"}
      BY <1>1, <2>1, <2>2 DEF IInv, TypeOK, RM!TypeOK, TaskAlive
    <3>2. CASE hook[r] \in HookRunning
      BY <3>1, <3>2 DEF Life, TaskAlive
    <3>3. CASE status[r] \in Active
      <4>1. pc[r] # "none" /\ status[r] \notin Terminal
        BY <3>1, <3>3 DEF Life, Active, RM!Active, Terminal, RM!Terminal
      <4>2. pc[r] = "gone" => fpc[r] = "created"
        BY <3>1, <4>1 DEF Life
      <4> QED
        BY <3>1, <4>1, <4>2 DEF Life
    <3> QED
      BY <3>1, <3>2, <3>3 DEF Life
  <2> QED
    BY <2>3, <2>4, <2>5 DEF RM!RecordsOwned, Active
<1> QED
  BY <1>1, InductiveInvariant, PTL

\* A restore that is over has a row that shows the outcome of its run, although the
\* operation, the terminal hook and the requests wrote it without knowing of each other,
\* unless the outcome overtook one of the registry's calls.
THEOREM RestoresEndAsTheirRuns == Spec => []RestoreEndsAsItsRun
<1>1. ASSUME IInv PROVE RestoreEndsAsItsRun
  <2> SUFFICES ASSUME NEW r \in Runs \ (failed \cup overtaken),
                      status[r] \in RM!Terminal, r \notin events
               PROVE  row[r] \in {status[r], "pruned"}
    BY DEF RestoreEndsAsItsRun
  <2>1. Life(r) /\ TruthInv(r)
    BY <1>1 DEF IInv
  <2>2. hook[r] # "record"
    BY <2>1 DEF Life, HookRunning
  <2>3. RecordedInv(r)
    BY <2>1 DEF TruthInv
  <2> QED
    BY <2>2, <2>3 DEF RecordedInv, Terminal
<1> QED
  BY <1>1, InductiveInvariant, PTL

\* Whoever asks for a restore, however often and in whichever process, is never told two
\* different outcomes, nor another one than the run has, with the same exception.
THEOREM AnswersDoAgree == Spec => []AnswersAgree
<1>1. ASSUME IInv PROVE AnswersAgree
  <2> SUFFICES ASSUME NEW r \in Runs \ (failed \cup overtaken), NEW st \in told[r]
               PROVE  told[r] = {st} /\ (status[r] \in RM!Terminal => status[r] = st)
    BY DEF AnswersAgree
  <2>1. LiveInv(r) /\ PastInv(r)
    BY <1>1 DEF IInv, AnswerInv
  <2>2. CASE status[r] = "absent"
    BY <2>1, <2>2 DEF PastInv, RM!Terminal
  <2>3. CASE status[r] # "absent"
    BY <2>1, <2>3 DEF LiveInv
  <2> QED
    BY <2>2, <2>3
<1> QED
  BY <1>1, InductiveInvariant, PTL

\* While restic works, retention does not touch the row and no request takes the restore
\* for lost: the database shows it running, with its details.
THEOREM WorkingRestoresAreShown == Spec => []WorkIsShown
<1>1. ASSUME IInv PROVE WorkIsShown
  <2> SUFFICES ASSUME NEW r \in Runs \ failed, op[r].at = "command"
               PROVE  row[r] = "running" /\ r \in details
    BY DEF WorkIsShown
  <2>1. Life(r) /\ OpInv(r) /\ TruthInv(r)
    BY <1>1 DEF IInv
  <2>2. op[r].at \in Busy /\ pc[r] = "operation"
    BY <2>1 DEF OpInv, Busy
  <2>3. row[r] = "running"
    BY <2>1, <2>2 DEF TruthInv, SoundInv, Reported
  <2>4. status[r] = "running" /\ r \notin overtaken
    BY <2>1, <2>2 DEF Life, OpInv, Active, RM!Active
  <2>5. starter[r] \notin {"none", "add"}
    BY <2>1, <2>4 DEF OpInv
  <2> QED
    BY <2>1, <2>3, <2>4, <2>5 DEF TruthInv, KeptInv, Inserted
<1> QED
  BY <1>1, InductiveInvariant, PTL

\* No restore stays in _pending_restores when the operation has begun and the run is gone:
\* every way out of _execute_tagged, the cancelled ones included, gives it up.
THEOREM PendingRestoresAreGivenUp == Spec => []PendingIsGivenUp
<1>1. ASSUME IInv PROVE PendingIsGivenUp
  <2> SUFFICES ASSUME NEW r \in pendingRestores, op[r].at # "none" PROVE r \in runs
    BY DEF PendingIsGivenUp
  <2>1. r \in Runs /\ op \in [Runs -> Places]
    BY <1>1 DEF IInv, TypeOK, Places
  <2>2. Life(r) /\ OpInv(r)
    BY <1>1, <2>1 DEF IInv
  <2>3. op[r].at \in Busy
    BY <2>1, <2>2 DEF OpInv, Busy, Waiting, Places
  <2> QED
    BY <2>2, <2>3 DEF Life, OpInv, TaskAlive
<1> QED
  BY <1>1, InductiveInvariant, PTL

\* The members of a line, when everybody stands in it once, are as many as it is long.
LEMMA LengthOfLine ==
    ASSUME NEW l \in Seq(Callers), Once(l)
    PROVE  Cardinality({l[i] : i \in DOMAIN l}) = Len(l)
<1> DEFINE members == {l[i] : i \in DOMAIN l}
           place   == [i \in 1 .. Len(l) |-> l[i]]
<1>1. Len(l) \in Nat /\ DOMAIN l = 1 .. Len(l)
  BY LineDomain
<1>2. place \in Bijection(1 .. Len(l), members)
  <2>1. place \in [1 .. Len(l) -> members]
    BY <1>1
  <2>2. \A i, j \in 1 .. Len(l) : place[i] = place[j] => i = j
    BY <1>1 DEF Once
  <2>3. \A c \in members : \E i \in 1 .. Len(l) : place[i] = c
    BY <1>1
  <2> HIDE DEF place, members
  <2> QED
    BY <2>1, <2>2, <2>3, Fun_IsBij
<1>3. IsFiniteSet(1 .. Len(l)) /\ Cardinality(1 .. Len(l)) = Len(l)
  BY <1>1, FS_Interval
<1>4. Cardinality(1 .. Len(l)) = Cardinality(members)
  BY <1>2, <1>3, FS_Bijection DEF ExistsBijection
<1> QED
  BY <1>3, <1>4

\* The lock and the places in its line belong to the callers that are waiting for their
\* call, each once: neither a cancelled operation nor one that is served leaves a place
\* behind in which nobody stands, with everybody else waiting for it (asyncio.Lock).
THEOREM CallersWaitOnce == Spec => []EachWaitsOnce
<1>1. ASSUME IInv PROVE EachWaitsOnce
  <2> DEFINE starts   == {<<"start", r>> : r \in {x \in Runs : starter[x] \in {"add", "discard"}}}
             ops      == {<<"op", r>> : r \in {x \in Runs :
                                         op[x].at \in {"claim", "report", "error", "unwind",
                                                       "replaced"}}}
             requests == {<<q, request[q].run>> : q \in {x \in Requests : request[x].at # "idle"}}
             members  == {line[i] : i \in DOMAIN line}
  <2>1. line \in Seq(Callers) /\ LineInv
    BY <1>1 DEF IInv, TypeOK
  <2>2. \A d \in Callers : d \in members <=> Waits(d)
    BY <2>1 DEF LineInv, InLine
  <2>3. members \subseteq Callers
    BY <2>1, LineDomain
  <2>4. starts \cup ops \cup requests \subseteq Callers
    BY <1>1 DEF IInv, TypeOK, Callers
  <2>5. ASSUME NEW d \in Callers PROVE Waits(d) <=> d \in starts \cup ops \cup requests
    <3>1. CASE d[1] = "start"
      BY <3>1, RestoreAssumption DEF Waits, Callers
    <3>2. CASE d[1] = "op"
      BY <3>2, RestoreAssumption DEF Waits, Waiting, Callers
    <3>3. CASE d[1] \in Requests
      BY <3>3, RestoreAssumption DEF Waits, Callers
    <3> QED
      BY <3>1, <3>2, <3>3 DEF Callers
  <2>6. members = starts \cup ops \cup requests
    <3> HIDE DEF starts, ops, requests, members
    <3> QED
      BY <2>2, <2>3, <2>4, <2>5
  <2>7. Cardinality(members) = Len(line)
    BY <2>1, LengthOfLine DEF LineInv
  <2> QED
    BY <2>6, <2>7 DEF EachWaitsOnce
<1> QED
  BY <1>1, InductiveInvariant, PTL
-----------------------------------------------------------------------------
(* Cancellation, from the request to the outcome.                           *)

\* A cancellation that was asked for is still to be raised as long as the run works.
CancelInv ==
    \A r \in Runs : r \in cancelRequested =>
       /\ status[r] # "absent"
       /\ pc[r] \in {"created", "startHook", "operation"} => r \in pending

\* The operation of r raises something else than its cancellation.
Raises(r) == r \in failed \/ op[r].at = "replaced"

\* What one step may do to a restore whose cancellation was requested.
CancelHonoured ==
    \A r \in Runs :
       r \in cancelRequested /\ status[r] \in Active /\ status'[r] \in Terminal
          => \/ status'[r] = "cancelled"
             \/ Raises(r) /\ status'[r] = "unexpected_error"

LEMMA CancelUntouched ==
    ASSUME CancelInv, UNCHANGED <<cancelRequested, status, pc, pending>>
    PROVE  CancelInv' /\ CancelHonoured
BY DEF CancelInv, CancelHonoured, Active, Terminal, RM!Active, RM!Terminal

\* The status moves by one run at most.
LEMMA OneStatus ==
    ASSUME IInv, NEW r \in Runs, NEW st, status' = [status EXCEPT ![r] = st],
           \/ st \in Active \cup {"cancelled"} \/ r \notin cancelRequested
           \/ Raises(r) /\ st = "unexpected_error"
    PROVE  CancelHonoured
BY DEF CancelHonoured, IInv, TypeOK, RM!TypeOK, Active, Terminal, RM!Active, RM!Terminal

LEMMA SameStatus == ASSUME UNCHANGED status PROVE CancelHonoured
BY DEF CancelHonoured, Active, Terminal, RM!Active, RM!Terminal

\* The operation ends by itself only when nobody has asked to cancel it.
LEMMA EndHonoursCancellation ==
    ASSUME IInv, CancelInv, NEW r \in Runs, RM!OperationEnds(r)
    PROVE  CancelInv' /\ CancelHonoured
<1>1. /\ pc[r] = "operation" /\ r \notin pending /\ pc' = [pc EXCEPT ![r] = "finishing"]
      /\ UNCHANGED <<cancelRequested, pending>>
  BY DEF RM!OperationEnds, RM!tables
<1>2. r \notin cancelRequested
  BY <1>1 DEF CancelInv
<1>3. PICK result \in RM!Results : status' = [status EXCEPT ![r] = RM!Outcome(r, result)]
  BY DEF RM!OperationEnds, RM!SetOutcome
<1>4. CancelHonoured
  BY <1>2, <1>3, OneStatus
<1>5. CancelInv'
  BY <1>1, <1>2, <1>3 DEF CancelInv, IInv, TypeOK, RM!TypeOK
<1> QED
  BY <1>4, <1>5

LEMMA OutcomeHonoursCancellation ==
    ASSUME IInv, CancelInv, NEW r \in Runs, NEW st \in Terminal, RM!SetOutcome(r, st),
           st = "cancelled" \/ (Raises(r) /\ st = "unexpected_error"),
           NEW place \in {"finishing", "finishingCancelled"}, pc' = [pc EXCEPT ![r] = place],
           pending' = pending \ {r}, UNCHANGED cancelRequested
    PROVE  CancelInv' /\ CancelHonoured
<1>1. status' = [status EXCEPT ![r] = st]
  BY DEF RM!SetOutcome
<1>2. CancelHonoured
  BY <1>1, OneStatus
<1>3. CancelInv'
  BY <1>1 DEF CancelInv, IInv, TypeOK, RM!TypeOK, Terminal, RM!Terminal
<1> QED
  BY <1>2, <1>3

LEMMA CancelHonoursCancellation ==
    ASSUME IInv, CancelInv, NEW rs \in SUBSET Runs, RM!CancelTasks(rs),
           \A r \in rs : r \in tasks, UNCHANGED <<status, pc>>
    PROVE  CancelInv' /\ CancelHonoured
<1>1. \A r \in rs : status[r] # "absent"
  BY DEF IInv, Life, TaskAlive
<1>2. CancelInv'
  BY <1>1 DEF CancelInv, RM!CancelTasks
<1> QED
  BY <1>2, SameStatus

LEMMA ManagerHonoursCancellation ==
    ASSUME IInv, CancelInv,
           \/ \E r \in Runs : ManagerStep(r)
           \/ RM!Shutdown \/ RM!ShutdownStep
    PROVE  CancelInv' /\ CancelHonoured
<1>1. ASSUME NEW r \in Runs, RM!Cancel(r) PROVE CancelInv' /\ CancelHonoured
  <2>1. RM!CancelTasks({r}) /\ r \in tasks /\ UNCHANGED <<status, pc>>
    BY <1>1 DEF RM!Cancel, RM!records
  <2> QED
    BY <2>1, CancelHonoursCancellation
<1>2. ASSUME NEW r \in Runs, RM!Begin(r) PROVE CancelInv' /\ CancelHonoured
  <2>1. CancelHonoured
    BY <1>2, OneStatus DEF RM!Begin, Active, RM!Active
  <2>2. CancelInv'
    BY <1>2 DEF CancelInv, RM!Begin, RM!tables, IInv, TypeOK, RM!TypeOK
  <2> QED
    BY <2>1, <2>2
<1>3. ASSUME NEW r \in Runs, RM!NeverBegin(r) \/ RM!FinishDone(r) \/ RM!TaskDone(r)
      PROVE  CancelInv' /\ CancelHonoured
  <2>1. /\ UNCHANGED status /\ cancelRequested' \subseteq cancelRequested
        /\ pending \ {r} \subseteq pending'
        /\ \E place \in {"returned", "cancelled", "gone"} : pc' = [pc EXCEPT ![r] = place]
    BY <1>3 DEF RM!NeverBegin, RM!FinishDone, RM!TaskDone, RM!tables, RM!records
  <2>2. CancelInv'
    BY <2>1 DEF CancelInv, IInv, TypeOK, RM!TypeOK
  <2> QED
    BY <2>1, <2>2, SameStatus
<1>4. ASSUME NEW r \in Runs, RM!FinishStep(r) PROVE CancelInv' /\ CancelHonoured
  <2>1. UNCHANGED <<cancelRequested, pc, pending>>
    BY <1>4 DEF RM!FinishStep, RM!FinishTaskRuns, RM!FinishTaskHookDone, RM!FinishTaskDone
  <2>2. status' = status \/ status' = [status EXCEPT ![r] = "cancelled"]
    BY <1>4 DEF RM!FinishStep, RM!FinishTaskRuns, RM!FinishTaskHookDone, RM!FinishTaskDone,
       RM!SetOutcome, RM!records
  <2>3. CancelHonoured
    BY <2>2, OneStatus, SameStatus
  <2>4. CancelInv'
    BY <2>1, <2>2 DEF CancelInv, IInv, TypeOK, RM!TypeOK
  <2> QED
    BY <2>3, <2>4
<1>5. ASSUME NEW r \in Runs, RM!Notify(r) PROVE CancelInv' /\ CancelHonoured
  BY <1>5, CancelUntouched DEF RM!Notify, RM!tables, RM!records
<1>6. ASSUME RM!Shutdown PROVE CancelInv' /\ CancelHonoured
  <2>1. /\ RM!CancelTasks({r \in tasks \cap cancellable : pc[r] \notin {"returned", "cancelled"}})
        /\ UNCHANGED <<status, pc>>
    BY <1>6 DEF RM!Shutdown, RM!records
  <2>2. tasks \subseteq Runs
    BY DEF IInv, TypeOK, RM!TypeOK
  <2> QED
    BY <2>1, <2>2, CancelHonoursCancellation
<1>7. ASSUME RM!ShutdownStep PROVE CancelInv' /\ CancelHonoured
  BY <1>7, CancelUntouched DEF RM!ShutdownStep, RM!ShutdownTasks, RM!ShutdownEvents, RM!tables,
     RM!records, RM!threads
<1> QED
  BY <1>1, <1>2, <1>3, <1>4, <1>5, <1>6, <1>7 DEF ManagerStep

LEMMA OperationHonoursCancellation ==
    ASSUME IInv, CancelInv, NEW r \in Runs, OperationStep(r)
    PROVE  CancelInv' /\ CancelHonoured
<1>1. ASSUME RM!StartHookDone(r) PROVE CancelInv' /\ CancelHonoured
  <2>1. /\ pc[r] = "startHook" /\ pending' = pending \ {r}
        /\ pc' = [pc EXCEPT ![r] = IF r \in pending THEN "cancelled" ELSE "operation"]
        /\ UNCHANGED <<cancelRequested, status>>
    BY <1>1 DEF RM!StartHookDone, RM!tables, RM!records
  <2>2. CancelInv'
    BY <2>1 DEF CancelInv, IInv, TypeOK, RM!TypeOK
  <2> QED
    BY <2>1, <2>2, SameStatus
<1>2. ASSUME UNCHANGED manager \/ RM!MarkNotCancellable(r) PROVE CancelInv' /\ CancelHonoured
  BY <1>2, CancelUntouched DEF manager, managerButRow, RM!MarkNotCancellable, RM!tables,
     RM!threads
<1>3. ASSUME RM!OperationCancelled(r), CancelEscapes(r) \/ UnwindResumes(r)
      PROVE  CancelInv' /\ CancelHonoured
  <2>1. pending' = pending \ {r} /\ UNCHANGED cancelRequested
    BY <1>3 DEF RM!OperationCancelled, RM!tables
  <2>2. PICK end \in {"cancelled", "unexpected_error"},
             place \in {"finishing", "finishingCancelled"} :
           RM!SetOutcome(r, end) /\ pc' = [pc EXCEPT ![r] = place]
    BY <1>3 DEF RM!OperationCancelled
  <2>3. end = status'[r] /\ end \in Terminal
    BY <2>2 DEF IInv, TypeOK, RM!TypeOK, RM!SetOutcome, Terminal, RM!Terminal
  <2>4. end = "cancelled" \/ (Raises(r) /\ end = "unexpected_error")
    <3>1. CASE CancelEscapes(r)
      BY <2>3, <3>1 DEF CancelEscapes
    <3>2. CASE UnwindResumes(r) /\ desk.result = "ok"
      BY <2>3, <3>2 DEF UnwindResumes, Raises
    <3>3. CASE UnwindResumes(r) /\ desk.result # "ok"
      <4>1. Head(line) = <<"op", r>> /\ line # <<>> /\ desk.result \in {"missing", "error"}
        BY <3>3 DEF UnwindResumes, IInv, TypeOK, Served
      <4>2. r \in failed
        BY <4>1 DEF IInv, DeskInv
      <4> QED
        BY <2>3, <3>3, <4>2 DEF UnwindResumes, Raises
    <3> QED
      BY <1>3, <3>1, <3>2, <3>3
  <2> QED
    BY <2>1, <2>2, <2>3, <2>4, OutcomeHonoursCancellation
<1>5. ASSUME ReportResumes(r) \/ ErrorResumes(r)
      PROVE  RM!OperationEnds(r) \/ UNCHANGED manager
  BY <1>5 DEF ReportResumes, ErrorResumes, Returns
<1> QED
  BY <1>1, <1>2, <1>3, <1>5, EndHonoursCancellation DEF OperationStep, OperationBegins,
     ClaimResumes, CommandEnds, CommandRaises, CancelDelivered, CancelEscapes, UnwindResumes

LEMMA RestHonoursCancellation ==
    ASSUME IInv, CancelInv,
           \/ \E r \in Runs : \/ StartRestore(r) \/ StartResumes(r)
                              \/ HookCreates(r) \/ HookRecords(r)
           \/ \E q \in Requests : RequestStep(q) \/ \E r \in Runs : Ask(q, r)
           \/ Read \/ Write \/ OrphanLands \/ Exit \/ Boot \/ UNCHANGED vars
    PROVE  CancelInv' /\ CancelHonoured
<1>1. ASSUME NEW r \in Runs, StartRestore(r) PROVE CancelInv' /\ CancelHonoured
  <2>1. /\ status' = [status EXCEPT ![r] = "queued"] /\ pc' = [pc EXCEPT ![r] = "created"]
        /\ r \notin used /\ UNCHANGED <<cancelRequested, pending>>
    BY <1>1 DEF StartRestore, RM!Start
  <2>2. r \notin cancelRequested
    BY <2>1 DEF CancelInv, IInv, Life
  <2>3. CancelInv'
    BY <2>1, <2>2 DEF CancelInv, IInv, TypeOK, RM!TypeOK
  <2> QED
    BY <2>1, <2>3, OneStatus DEF Active, RM!Active
<1>2. ASSUME NEW r \in Runs, StartResumes(r) \/ HookCreates(r) \/ HookRecords(r)
      PROVE  CancelInv' /\ CancelHonoured
  BY <1>2, CancelUntouched DEF StartResumes, HookCreates, HookRecords, RM!CreateRow,
     RM!RecordRow, RM!tables, RM!records, manager, managerButRow
<1>3. ASSUME NEW q \in Requests, RequestStep(q) \/ \E r \in Runs : Ask(q, r)
      PROVE  CancelInv' /\ CancelHonoured
  <2>1. request[q].run \in Runs
    BY DEF IInv, TypeOK
  <2>2. ASSUME RM!Cancel(request[q].run) PROVE CancelInv' /\ CancelHonoured
    <3>1. /\ RM!CancelTasks({request[q].run}) /\ request[q].run \in tasks
          /\ UNCHANGED <<status, pc>>
      BY <2>2 DEF RM!Cancel, RM!records
    <3> QED
      BY <2>1, <3>1, CancelHonoursCancellation
  <2>3. ASSUME UNCHANGED manager PROVE CancelInv' /\ CancelHonoured
    BY <2>3, CancelUntouched DEF manager, managerButRow
  <2> QED
    BY <1>3, <2>2, <2>3 DEF RequestStep, LookResumes, CancelResumes, SettleResumes, Ask
<1>4. ASSUME Read \/ Write \/ OrphanLands \/ UNCHANGED vars PROVE CancelInv' /\ CancelHonoured
  <2>1. UNCHANGED managerButRow
    BY <1>4 DEF Read, Write, OrphanLands, vars, manager
  <2> QED
    BY <2>1, CancelUntouched DEF managerButRow
<1>5. ASSUME Exit PROVE CancelInv' /\ CancelHonoured
  <2>1. cancelRequested' = {} /\ status' = [q \in Runs |-> "absent"]
    BY <1>5 DEF Exit, RM!Exit, RM!Everywhere
  <2> QED
    BY <2>1 DEF CancelInv, CancelHonoured, Terminal, RM!Terminal
<1>6. ASSUME Boot PROVE CancelInv' /\ CancelHonoured
  BY <1>6, CancelUntouched DEF Boot, RM!Boot, RM!tables, RM!records, RM!threads
<1> QED
  BY <1>1, <1>2, <1>3, <1>4, <1>5, <1>6

\* A restore whose cancellation was requested ends as cancelled, wherever it stands: waiting
\* for the registry, in restic, or in the update that reports an error.  It ends with an
\* unexpected error if a statement of this restore has failed (the last update then fails
\* or finds no record) or if something was raised while restic was killed: such an exception
\* takes the place of the cancellation.  It never ends as a success or a failure.
THEOREM CancelledRestoresEndCancelled == Spec => [][CancelHonoured]_vars
<1>1. Init => CancelInv
  BY DEF Init, RM!Init, CancelInv
<1>2. IInv /\ CancelInv /\ [Next]_vars => CancelInv' /\ CancelHonoured
  BY ManagerHonoursCancellation, OperationHonoursCancellation, RestHonoursCancellation DEF Next
<1> QED
  BY <1>1, <1>2, InductiveInvariant, PTL DEF Spec

=============================================================================
