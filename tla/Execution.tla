------------------------------ MODULE Execution -------------------------------
(***************************************************************************)
(* What a run does while it holds its locks: job hooks around a backup, a  *)
(* single step or a workflow (core/job_runner.py, core/workflow.py), with  *)
(* the hooks of each level (executors/hooks.py), the tracked substeps      *)
(* (executors/), their rows in run_steps (services/run_history.py), and at *)
(* the end the collection of statistics, which takes step ids and backup   *)
(* summaries from two sets of queues.  Every hook and every substep runs   *)
(* commands, which are those of Subprocess; a cancellation reaches the run *)
(* wherever it waits.                                                      *)
(*                                                                         *)
(* A target is a sequence of units: a full backup or an rclone task has    *)
(* hooks of its own ("scoped"), a step that names one substep has none; a  *)
(* backup may look for its repository first ("autoInit").                  *)
(* Levels: 1 the job, 2 the workflow, 3 the unit.                          *)
(***************************************************************************)
EXTENDS Subprocess, Naturals, Sequences

CONSTANTS
  Tasks,        \* tasks by their names
  Targets,      \* possible targets: a workflow or a single unit
  Modes,        \* "normal", "faultyHistory", "dryRun", "noHistory" (command line)
  HookCount,    \* [1..3 -> Nat]: number of hooks in each list of a level
  MaxCancels    \* bound: cancellations of the run

VARIABLES
  mode,         \* dry run? history?
  target,       \* what is run
  at,           \* where the run is: doing, level, phase, unit, sub, index
  steps,        \* the tracked steps so far, with their rows
  stepIds,      \* _last_successful_step_ids
  artifacts,    \* completed_backup_artifacts
  collected,    \* contexts given to the statistics
  begun,        \* history variable: lists of hooks that were begun
  outcome,      \* how the run ended
  cancels       \* cancellations so far

vars == <<stage, running, writers, killed, closed, pumps, cause, result,
          mode, target, at, steps, stepIds, artifacts, collected, begun, outcome, cancels>>

Levels == 1 .. 3
Phases == {"pre", "post", "on_error"}
BackupSubsteps == {"backup", "retention", "cleanup"}

Substeps == BackupSubsteps \cup {"rclone"}
Unit == [task : Tasks, subs : Seq(Substeps) \ {<< >>}, scoped : BOOLEAN, autoInit : BOOLEAN]

ASSUME ExecutionAssumption ==
  /\ HookCount \in [Levels -> Nat]
  /\ Modes \subseteq {"normal", "faultyHistory", "dryRun", "noHistory"}
  /\ MaxCancels \in Nat
  /\ Targets \subseteq [workflow : BOOLEAN, units : Seq(Unit) \ {<< >>}]

units == target.units
UnitAt == units[at.unit]
SubAt == UnitAt.subs[at.sub]
Queues == {<<units[i].task, s>> : i \in DOMAIN units, s \in BackupSubsteps}
MaxOf(S) == CHOOSE m \in S : \A n \in S : n <= m
MinOf(S) == CHOOSE m \in S : \A n \in S : m <= n

---------------------------------------------------------------------------
(* The way through the levels.                                             *)

\* The levels around unit u that have hooks.
Around(u) == {1} \cup {m \in {2} : target.workflow} \cup {m \in {3} : units[u].scoped}

HookList(l, phase, u) ==
  [doing |-> "ready", level |-> l, phase |-> phase, unit |-> u, sub |-> 1, index |-> 1]

\* The substep's row is created; on its way back the run executes its commands.
SubstepAt(u, s) ==
  [doing |-> "create", level |-> 3, phase |-> "work", unit |-> u, sub |-> s, index |-> 1]

\* The operation is complete: post-processing walks over the steps of the target again.
Collecting == [doing |-> "collect", level |-> 0, phase |-> "work", unit |-> 1, sub |-> 1,
               index |-> 1]

Over == [doing |-> "over", level |-> 0, phase |-> "work", unit |-> 1, sub |-> 1, index |-> 1]

\* Everything outside of level l is prepared: its pre_hooks, or the next level's, or the work.
Begins(l, u) ==
  LET inner == {m \in Around(u) : m >= l} IN
  IF inner # {} THEN HookList(MinOf(inner), "pre", u) ELSE SubstepAt(u, 1)

\* What has hooks at or outside of level l has failed: on_error_hooks, innermost first.
Fails(l, u) ==
  LET outer == {m \in Around(u) : m <= l} IN
  IF outer # {} THEN HookList(MaxOf(outer), "on_error", u) ELSE Collecting

\* Level l of unit u is done with its hooks: the next unit, or the level outside of it.
Succeeds(l, u) ==
  LET outer == {m \in Around(u) : m < l} IN
  IF l = 3 /\ u < Len(units) THEN Begins(3, u + 1)
  ELSE IF outer # {} THEN HookList(MaxOf(outer), "post", u) ELSE Collecting

\* Mutant: a failing unit does not run the workflow's on_error_hooks.
AfterHooks_SkipsLevel(ok) ==
  CASE at.phase = "pre" -> IF ok THEN Begins(at.level + 1, at.unit) ELSE Fails(at.level, at.unit)
    [] at.phase = "post" -> Succeeds(at.level, at.unit)
    [] at.phase = "on_error" -> Fails(IF at.level = 3 THEN 1 ELSE at.level - 1, at.unit)

\* A list of hooks has come to its end.  post_hooks that fail cost a warning, the result of
\* on_error_hooks is not looked at.
AfterHooks(ok) ==
  CASE at.phase = "pre" -> IF ok THEN Begins(at.level + 1, at.unit) ELSE Fails(at.level, at.unit)
    [] at.phase = "post" -> Succeeds(at.level, at.unit)
    [] at.phase = "on_error" -> Fails(at.level - 1, at.unit)

\* The substep was successful: the next one of its unit, or the unit's post_hooks.
AfterSubstep ==
  IF at.sub < Len(UnitAt.subs) THEN SubstepAt(at.unit, at.sub + 1)
  ELSE IF UnitAt.scoped THEN HookList(3, "post", at.unit) ELSE Succeeds(3, at.unit)

\* Hooks are skipped in a dry run.
Hooks == IF mode = "dryRun" THEN 0 ELSE HookCount[at.level]

\* A list of hooks of level 1 and 2 exists once, of level 3 once for each unit.
ListAt == <<at.level, IF at.level = 3 THEN at.unit ELSE 0, at.phase>>

---------------------------------------------------------------------------
TypeOK ==
  /\ SubprocessTypeOK
  /\ mode \in Modes /\ target \in Targets
  /\ at \in [doing : {"ready", "hook", "create", "start", "command", "finish", "collect", "over"},
             level : 0 .. 3, phase : Phases \cup {"work"}, unit : DOMAIN units,
             sub : Nat \ {0}, index : Nat \ {0}]
  /\ at.sub \in DOMAIN UnitAt.subs
  /\ \A i \in DOMAIN steps :
       steps[i] \in [task : {units[u].task : u \in DOMAIN units},
                     sub : Substeps,
                     row : {"none", "running", "success", "failed", "cancelled"},
                     verdict : {"none", "success", "failed", "cancelled", "raised"},
                     summary : {0, i}]
  /\ stepIds \in [Queues -> Seq(DOMAIN steps)]
  /\ artifacts \in [{q[1] : q \in Queues} -> Seq({0} \cup DOMAIN steps)]
  /\ begun \subseteq Levels \X (0 .. Len(units)) \X Phases
  /\ outcome \in {"none", "success", "failed", "cancelled", "raised"}
  /\ cancels \in 0 .. MaxCancels

Init ==
  /\ SubprocessInit
  /\ mode \in Modes /\ target \in Targets
  /\ at = HookList(1, "pre", 1)
  /\ steps = << >>
  /\ stepIds = [q \in Queues |-> << >>]
  /\ artifacts = [t \in {q[1] : q \in Queues} |-> << >>]
  /\ collected = << >>
  /\ begun = {}
  /\ outcome = "none"
  /\ cancels = 0

\* An exception leaves all levels: no list of on_error_hooks runs for it.
Escapes(how) ==
  /\ at' = Over
  /\ outcome' = how

---------------------------------------------------------------------------
(* Hooks (HookExecutor.run).                                               *)

\* What a command that failed, ran too long or did not start gives its caller.
Unsuccessful == {"exit1", "timeout", "oserror"}

\* A hook that is no script below scripts_dir is refused.
HookRefused == at' = AfterHooks(FALSE) /\ UNCHANGED subprocessVars

NextHook ==
  /\ at.doing = "ready" /\ at.index <= Hooks
  /\ begun' = begun \cup {ListAt}
  /\ \/ Call /\ at' = [at EXCEPT !.doing = "hook"]
     \/ HookRefused
  /\ UNCHANGED <<mode, target, steps, stepIds, artifacts, collected, outcome, cancels>>

HooksDone ==
  /\ at.doing = "ready" /\ at.index > Hooks
  /\ begun' = begun \cup {ListAt}
  /\ at' = AfterHooks(TRUE)
  /\ UNCHANGED subprocessVars
  /\ UNCHANGED <<mode, target, steps, stepIds, artifacts, collected, outcome, cancels>>

\* The hook's command has ended; the first that fails ends the list.
HookEnds ==
  /\ at.doing = "hook" /\ stage = "idle"
  /\ \/ /\ result = "exit0"
        /\ at' = [at EXCEPT !.doing = "ready", !.index = @ + 1]
        /\ UNCHANGED outcome
     \/ /\ result \in Unsuccessful
        /\ at' = AfterHooks(FALSE)
        /\ UNCHANGED outcome
     \/ result = "cancelled" /\ Escapes("cancelled")
     \/ result = "error" /\ Escapes("raised")
  /\ UNCHANGED subprocessVars
  /\ UNCHANGED <<mode, target, steps, stepIds, artifacts, collected, begun, cancels>>

---------------------------------------------------------------------------
(* Tracked substeps (WorkflowEngine._run_tracked_step).                    *)

\* The row of a new step: none without a history, or when its INSERT fails, silently.
NewRows ==
  (IF mode \in {"noHistory", "faultyHistory"} THEN {"none"} ELSE {})
    \cup (IF mode # "noHistory" THEN {"running"} ELSE {})

NewStep(row) ==
  [task |-> UnitAt.task, sub |-> SubAt, row |-> row, verdict |-> "none", summary |-> 0]

\* The operation has a command before the one that does the work.
Prepares == SubAt = "rclone" \/ (SubAt = "backup" /\ UnitAt.autoInit)

\* create_step has returned; index counts the commands of the operation: 1 looks whether the
\* repository or the remote is there, 2 creates the repository, 3 does the work.
StepCreated ==
  /\ at.doing = "create"
  /\ \E row \in NewRows : steps' = Append(steps, NewStep(row))
  /\ at' = [at EXCEPT !.doing = "start",
                      !.index = IF Prepares THEN 1 ELSE 3]
  /\ UNCHANGED subprocessVars
  /\ UNCHANGED <<mode, target, stepIds, artifacts, collected, begun, outcome, cancels>>

\* The operation has this result; on_step_finished comes next.
Verdict(v, summary) ==
  /\ at' = [at EXCEPT !.doing = "finish"]
  /\ steps' = [steps EXCEPT ![Len(steps)].verdict = v, ![Len(steps)].summary = summary]

\* rclone sync with deletion is refused for a source that is missing or empty.
SourceRefused == at.index = 3 /\ SubAt = "rclone" /\ Verdict("failed", 0)

\* The next command of the operation; the code before it may raise.
CommandStarts ==
  /\ at.doing = "start"
  /\ \/ Call /\ at' = [at EXCEPT !.doing = "command"] /\ UNCHANGED steps
     \/ SourceRefused /\ UNCHANGED subprocessVars
     \/ at.index = 3 /\ Verdict("raised", 0) /\ UNCHANGED subprocessVars
  /\ UNCHANGED <<mode, target, stepIds, artifacts, collected, begun, outcome, cancels>>

OnTo(index) == at' = [at EXCEPT !.doing = "start", !.index = index] /\ UNCHANGED steps

\* restic cat config: a repository that does not answer is taken for a new one.
RepositoryChecked ==
  /\ at.index = 1 /\ SubAt = "backup"
  /\ \/ result = "exit0" /\ OnTo(3)
     \/ result \in Unsuccessful /\ OnTo(2)

\* restic init.
RepositoryCreated ==
  /\ at.index = 2
  /\ \/ result = "exit0" /\ OnTo(3)
     \/ result \in Unsuccessful /\ Verdict("failed", 0)

\* rclone listremotes, whose failure looks like an empty list.
RemoteChecked ==
  /\ at.index = 1 /\ SubAt = "rclone"
  /\ \/ result = "exit0" /\ OnTo(3)
     \/ result \in {"exit0"} \cup Unsuccessful /\ Verdict("failed", 0)

\* A successful backup has printed a summary, or none that can be read.
Summaries == IF SubAt = "backup" THEN {0, Len(steps)} ELSE {0}

WorkEnds ==
  /\ at.index = 3
  /\ \/ result = "exit0" /\ \E summary \in Summaries : Verdict("success", summary)
     \/ result \in Unsuccessful /\ Verdict("failed", 0)

\* A command of the operation has ended.
CommandEnds ==
  /\ at.doing = "command" /\ stage = "idle"
  /\ \/ RepositoryChecked \/ RepositoryCreated \/ RemoteChecked \/ WorkEnds
     \/ result = "cancelled" /\ Verdict("cancelled", 0)
     \/ result = "error" /\ Verdict("raised", 0)
  /\ UNCHANGED subprocessVars
  /\ UNCHANGED <<mode, target, stepIds, artifacts, collected, begun, outcome, cancels>>

LastStep == steps[Len(steps)]
RowFor(verdict) == IF verdict = "raised" THEN "failed" ELSE verdict

\* Mutant: an exception does not close the row.
EndRows_NotRaised ==
  IF LastStep.row = "none" \/ LastStep.verdict = "raised" THEN {LastStep.row}
  ELSE {RowFor(LastStep.verdict)} \cup (IF mode = "faultyHistory" THEN {LastStep.row} ELSE {})

\* finish_step: an UPDATE of the row, if there is one.  One that fails leaves the row as it
\* is, and nothing tries again: nobody else writes the rows of steps.
EndRows ==
  IF LastStep.row = "none" THEN {"none"}
  ELSE {RowFor(LastStep.verdict)} \cup (IF mode = "faultyHistory" THEN {LastStep.row} ELSE {})

\* Mutant: a summary that could not be read is not queued.
Queue_SkipsEmpty ==
  /\ stepIds' = IF SubAt \in BackupSubsteps /\ LastStep.verdict = "success"
                   /\ mode # "noHistory"
                THEN [stepIds EXCEPT ![<<UnitAt.task, SubAt>>] = Append(@, Len(steps))]
                ELSE stepIds
  /\ artifacts' = IF SubAt = "backup" /\ LastStep.verdict = "success" /\ mode # "dryRun"
                     /\ LastStep.summary # 0
                  THEN [artifacts EXCEPT ![UnitAt.task] = Append(@, LastStep.summary)]
                  ELSE artifacts

\* The id of a successful substep and the summary of a backup wait to be collected.
Queue ==
  /\ stepIds' = IF SubAt \in BackupSubsteps /\ LastStep.verdict = "success"
                   /\ mode # "noHistory"
                THEN [stepIds EXCEPT ![<<UnitAt.task, SubAt>>] = Append(@, Len(steps))]
                ELSE stepIds
  /\ artifacts' = IF SubAt = "backup" /\ LastStep.verdict = "success" /\ mode # "dryRun"
                  THEN [artifacts EXCEPT ![UnitAt.task] = Append(@, LastStep.summary)]
                  ELSE artifacts

\* on_step_finished has returned: on with the next substep, with the error hooks, or out.
StepFinished ==
  /\ at.doing = "finish"
  /\ \E row \in EndRows : steps' = [steps EXCEPT ![Len(steps)].row = row]
  /\ Queue
  /\ CASE LastStep.verdict = "success" -> at' = AfterSubstep /\ UNCHANGED outcome
       [] LastStep.verdict = "failed" -> at' = Fails(3, at.unit) /\ UNCHANGED outcome
       [] OTHER -> Escapes(LastStep.verdict)
  /\ UNCHANGED subprocessVars
  /\ UNCHANGED <<mode, target, collected, begun, cancels>>

---------------------------------------------------------------------------
(* Collection of statistics (JobRunner._collect...).                         *)

\* A run was successful when the job's post_hooks were begun.
Successful == <<1, 0, "post">> \in begun

Head0(queue) == IF queue = << >> THEN 0 ELSE Head(queue)
Tail0(queue) == IF queue = << >> THEN << >> ELSE Tail(queue)

\* The walk goes on to the next substep of the target.
NextToCollect ==
  CASE at.sub < Len(UnitAt.subs) -> [at EXCEPT !.sub = @ + 1]
    [] at.sub = Len(UnitAt.subs) /\ at.unit < Len(units) ->
         [at EXCEPT !.unit = @ + 1, !.sub = 1]
    [] OTHER -> Over

\* Mutant: nothing is collected from a failed run.
Wanted_AllOrNothing(id, summary) == Successful /\ mode # "dryRun"

\* The statistics are told of a substep with a step id or a summary, and of every substep of a
\* successful run.
Wanted(id, summary) == (id # 0 \/ summary # 0 \/ Successful) /\ mode # "dryRun"

\* One substep of the target: the oldest step id and the oldest summary of its queue are its
\* context.
Collect ==
  /\ at.doing = "collect"
  /\ at' = NextToCollect
  /\ outcome' = IF NextToCollect = Over THEN IF Successful THEN "success" ELSE "failed"
                ELSE outcome
  /\ IF SubAt = "rclone" THEN UNCHANGED <<stepIds, artifacts, collected>>
     ELSE LET queue == <<UnitAt.task, SubAt>>
              id == Head0(stepIds[queue])
              isBackup == SubAt = "backup"
              summary == IF isBackup THEN Head0(artifacts[UnitAt.task]) ELSE 0
          IN /\ stepIds' = [stepIds EXCEPT ![queue] = Tail0(@)]
             /\ artifacts' = [artifacts EXCEPT ![UnitAt.task] =
                                IF isBackup THEN Tail0(@) ELSE @]
             /\ collected' = IF Wanted(id, summary)
                             THEN Append(collected, [task |-> UnitAt.task, sub |-> SubAt,
                                                     id |-> id, summary |-> summary])
                             ELSE collected
  /\ UNCHANGED subprocessVars
  /\ UNCHANGED <<mode, target, steps, begun, cancels>>

---------------------------------------------------------------------------
(* Cancellation (RunManager.cancel, until the operation is complete).      *)

\* The thread of a statement goes on without its caller, or was not started yet.
StatementCancelled ==
  /\ Escapes("cancelled")
  /\ \/ /\ at.doing = "create"
        /\ \E row \in {"none"} \cup NewRows : steps' = Append(steps, NewStep(row))
     \/ /\ at.doing = "finish"
        /\ \E row \in {LastStep.row} \cup EndRows : steps' = [steps EXCEPT ![Len(steps)].row = row]
  /\ UNCHANGED subprocessVars

Cancel ==
  /\ cancels < MaxCancels
  /\ cancels' = cancels + 1
  /\ \/ StatementCancelled
     \/ /\ at.doing \in {"hook", "command"}
        /\ CancelCall
        /\ UNCHANGED <<at, steps, outcome>>
  /\ UNCHANGED <<mode, target, stepIds, artifacts, collected, begun>>

RunStep ==
  \/ NextHook \/ HooksDone \/ HookEnds
  \/ StepCreated \/ CommandStarts \/ CommandEnds \/ StepFinished
  \/ Collect

CommandStep ==
  /\ CallStep
  /\ UNCHANGED <<mode, target, at, steps, stepIds, artifacts, collected, begun, outcome, cancels>>

Processing ==
  /\ ProcessStep
  /\ UNCHANGED <<mode, target, at, steps, stepIds, artifacts, collected, begun, outcome, cancels>>

Next == RunStep \/ CommandStep \/ Processing \/ Cancel

\* Statements return, the loop resumes the run, calls end as Subprocess says.
Fairness ==
  /\ WF_vars(RunStep) /\ WF_vars(CommandStep)
  /\ WF_vars(/\ killed /\ Exit
             /\ UNCHANGED <<mode, target, at, steps, stepIds, artifacts, collected, begun,
                            outcome, cancels>>)

Spec == Init /\ [][Next]_vars /\ Fairness

---------------------------------------------------------------------------
(* Properties.                                                             *)

Ended == at.doing = "over"
Contexts == {collected[i] : i \in DOMAIN collected}

\* What the statistics are told of a step is that step's own: a context with a step id belongs
\* to a successful step of that task and substep and carries the summary this step printed;
\* one without carries the summary of a successful backup of the task.
StatsBelongToTheirStep ==
  \A c \in Contexts :
    /\ c.id # 0 => LET s == steps[c.id] IN
         s.task = c.task /\ s.sub = c.sub /\ s.verdict = "success" /\ s.summary = c.summary
    /\ c.summary # 0 => steps[c.summary].task = c.task /\ steps[c.summary].verdict = "success"

\* When a run with a history has come to its end without an exception, each of its successful
\* backup substeps was collected once, those before a failure too; without a history this
\* holds for successful runs.
EverySuccessIsCollected ==
  LET successes == {i \in DOMAIN steps : /\ steps[i].verdict = "success"
                                         /\ steps[i].sub \in BackupSubsteps}
  IN /\ Ended /\ mode \in {"normal", "faultyHistory"} /\ outcome \in {"success", "failed"} =>
          \A i \in successes : Cardinality({n \in DOMAIN collected : collected[n].id = i}) = 1
     /\ Ended /\ mode = "noHistory" /\ outcome = "success" =>
          Len(collected) = Cardinality(successes)

\* The levels close as they were opened: when a run ends without an exception every level
\* whose pre_hooks were begun has run either its post_hooks or its on_error_hooks, and a level
\* is never closed while one inside of it is open.
LevelsUnwind ==
  LET opened == {b \in begun : b[3] = "pre"}
      Closings(b) == {p \in {"post", "on_error"} : <<b[1], b[2], p>> \in begun}
  IN /\ \A b \in opened : Cardinality(Closings(b)) <= 1
     /\ \A b, c \in opened : b[1] < c[1] /\ Closings(b) # {} => Closings(c) # {}
     /\ at.doing = "collect" => \A b \in opened : Closings(b) # {}

\* Once a run is cancelled it starts nothing any more, neither a command nor a list of hooks
\* nor a step, and what it reports is the cancellation, unless a pump failed.  After a step
\* without success no further step begins.
NothingStartsAfterCancel ==
  [][/\ cancels > 0 =>
          /\ stage = "idle" => stage' = "idle"
          /\ begun' = begun
          /\ outcome' # outcome => outcome' \in {"cancelled", "raised"}
     /\ cancels > 0 \/ (steps # << >> /\ LastStep.verdict # "success") =>
          Len(steps') = Len(steps)]_vars

\* The rows of steps tell the truth.  Whatever fails or is cancelled, a row that shows an end
\* shows the end of its own step.  When a run whose statements work has ended, each step has
\* its row, and it shows the end: also after a failure, an exception or a cancellation, which
\* spares all rows but that of the step it has met.  Where an UPDATE may fail, a row may go
\* on saying "running" of a step, and of a run, that is over.
RowsTellTheResult ==
  \A i \in DOMAIN steps :
    /\ steps[i].row \in {"none", "running", RowFor(steps[i].verdict)}
    /\ Ended /\ mode \in {"normal", "dryRun"} /\ (cancels = 0 \/ i < Len(steps)) =>
         steps[i].row = RowFor(steps[i].verdict)

\* A cancelled run ends, whatever its commands, their children and their pipes do.
CancelledExecutionEnds == cancels > 0 ~> Ended
=============================================================================
