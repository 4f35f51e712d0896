------------------------------ MODULE Subprocess ------------------------------
(***************************************************************************)
(* One external command (core/subprocesses.py, run_command and             *)
(* stream_command): a process in a group of its own, two tasks that pump   *)
(* its output, and the call that waits for them.  A timeout, a            *)
(* cancellation or a failing pump makes the call terminate the group:      *)
(* SIGTERM, a grace period, SIGKILL, then waits that are bounded except    *)
(* the last.  The cleanup runs in a task of its own, which cancellations   *)
(* of the caller do not reach.                                             *)
(*                                                                         *)
(* A timer may fire at any moment after it was started.  Signals act       *)
(* through the processes: one that got SIGTERM may ignore it, one that got *)
(* SIGKILL exits (fairness of Exit).                                       *)
(***************************************************************************)
EXTENDS FiniteSets

CONSTANTS
  HasTimeout,   \* is the command limited in time?
  Failing,      \* pumps whose callback may raise
  SlowWait      \* does proc.wait() wait for the pipes too (older versions of asyncio)?

VARIABLES
  stage,        \* where the call is; "idle": no call, or its result is there
  running,      \* the process exists
  writers,      \* processes that hold the output pipes open: it and its descendants
  killed,       \* the group has got SIGKILL
  closed,       \* the call has closed its ends of the pipes
  pumps,        \* the two pump tasks
  cause,        \* the exception that made the call clean up
  result        \* what the call returned or raised

subprocessVars == <<stage, running, writers, killed, closed, pumps, cause, result>>

ASSUME SubprocessAssumption ==
  /\ HasTimeout \in BOOLEAN /\ SlowWait \in BOOLEAN
  /\ Failing \subseteq {"stdout", "stderr"}

Pumps == {"stdout", "stderr"}

\* The command, a child in its group, and one that has left the group.
Group == {"leader", "member"}
Processes == Group \cup {"detached"}

Raised == {"timeout", "cancelled", "error"}
Stages == {"idle", "starting", "waiting", "draining", "terminating", "killing", "reaping",
           "flushing"}

SubprocessTypeOK ==
  /\ stage \in Stages
  /\ writers \subseteq Processes /\ ("leader" \in writers => running)
  /\ running \in BOOLEAN /\ killed \in BOOLEAN /\ closed \in BOOLEAN
  /\ pumps \in [Pumps -> {"none", "reading", "eof", "failed"}]
  /\ cause \in Raised \cup {"none"}
  /\ result \in Raised \cup {"none", "oserror", "exit0", "exit1"}

SubprocessInit ==
  /\ stage = "idle"
  /\ running = FALSE /\ writers = {}
  /\ killed = FALSE /\ closed = FALSE
  /\ pumps = [p \in Pumps |-> "none"]
  /\ cause = "none" /\ result = "none"

Reading == {p \in Pumps : pumps[p] = "reading"}
SomePumpFailed == \E p \in Pumps : pumps[p] = "failed"

\* proc.wait() returns.
ProcessWaited ==
  /\ ~running
  /\ SlowWait => closed \/ writers = {}

---------------------------------------------------------------------------
(* The call.                                                               *)

\* The call returns or raises, and forgets its processes, pipes and pumps.
Ends(r) ==
  /\ stage' = "idle" /\ result' = r
  /\ writers' = {} /\ killed' = FALSE /\ closed' = FALSE
  /\ pumps' = [p \in Pumps |-> "none"]
  /\ cause' = "none"

\* Exceptions of the wait and of the drain start the cleanup: SIGTERM to the group.
Terminates(c) ==
  /\ stage' = "terminating"
  /\ cause' = c

\* run_command(...): the process is being created.
Call ==
  /\ stage = "idle"
  /\ stage' = "starting" /\ result' = "none"
  /\ UNCHANGED <<running, writers, killed, closed, pumps, cause>>

Started ==
  /\ stage = "starting"
  /\ stage' = "waiting"
  /\ running' = TRUE /\ writers' = {"leader"}
  /\ pumps' = [p \in Pumps |-> "reading"]
  /\ UNCHANGED <<killed, closed, cause, result>>

\* The binary is missing or cannot be executed.
CannotStart ==
  /\ stage = "starting"
  /\ Ends("oserror")
  /\ UNCHANGED running

\* The polling wait sees the return code; the pumps get a grace period to finish.
SeesExit ==
  /\ stage = "waiting"
  /\ ~running
  /\ stage' = "draining"
  /\ UNCHANGED <<running, writers, killed, closed, pumps, cause, result>>

\* The deadline has passed.  While a pump is active the code does not look at the return
\* code again: a command that exits in its last 50 ms may still count as timed out.
TimesOut ==
  /\ stage = "waiting" /\ HasTimeout
  /\ running \/ Reading # {}
  /\ Terminates("timeout")
  /\ UNCHANGED <<running, writers, killed, closed, pumps, result>>

\* task.result() of a finished pump raises, in the wait or in the drain after it.
SeesPumpFailure ==
  /\ stage \in {"waiting", "draining"}
  /\ SomePumpFailed
  /\ Terminates("error")
  /\ UNCHANGED <<running, writers, killed, closed, pumps, result>>

\* The command is over.  When a process outside of the reach of the call still holds the
\* pipes, the grace period ends the wait, the pipes are closed and the pumps cancelled.
DrainEnds ==
  /\ stage = "draining" /\ ~SomePumpFailed
  /\ \E r \in {"exit0", "exit1"} : Ends(r)
  /\ UNCHANGED running

\* Within the grace period the process and both pumps have come to their end.
TerminationEnds ==
  /\ stage = "terminating"
  /\ ProcessWaited /\ Reading = {}
  /\ Ends(cause)
  /\ UNCHANGED running

\* The grace period is over: SIGKILL to the group.
Kill ==
  /\ stage = "terminating"
  /\ ~(ProcessWaited /\ Reading = {})
  /\ stage' = "killing"
  /\ killed' = TRUE
  /\ UNCHANGED <<running, writers, closed, pumps, cause, result>>

\* Mutant: the pipes stay open.
ClosePipes_Waits ==
  /\ stage = "killing" /\ ~ProcessWaited
  /\ stage' = "reaping"
  /\ UNCHANGED <<running, writers, killed, closed, pumps, cause, result>>

\* wait_for(shield(process_wait)) times out: without the pipes the wait can only be for the
\* process itself, and has no bound any more.
ClosePipes ==
  /\ stage = "killing" /\ ~ProcessWaited
  /\ closed' = TRUE
  /\ stage' = "reaping"
  /\ UNCHANGED <<running, writers, killed, pumps, cause, result>>

ProcessGone ==
  /\ stage \in {"killing", "reaping"} /\ ProcessWaited
  /\ stage' = "flushing"
  /\ UNCHANGED <<running, writers, killed, closed, pumps, cause, result>>

\* The pumps have finished, or their grace period is over and they are cancelled.  The
\* exception of a pump replaces the one that is on its way.
FlushEnds ==
  /\ stage = "flushing"
  /\ Ends(IF SomePumpFailed THEN "error" ELSE cause)
  /\ UNCHANGED running

\* Mutant: a cancellation during the cleanup is forgotten, the timeout is reported.
CancelCall_Forgets ==
  \/ /\ stage \in {"waiting", "draining"}
     /\ Terminates("cancelled")
     /\ UNCHANGED <<running, writers, killed, closed, pumps, result>>
  \/ /\ stage \in {"terminating", "killing", "reaping", "flushing"}
     /\ UNCHANGED subprocessVars

\* Mutant: a cancellation during the cleanup interrupts it.
CancelCall_Interrupts ==
  \/ /\ stage \in {"waiting", "draining"}
     /\ Terminates("cancelled")
     /\ UNCHANGED <<running, writers, killed, closed, pumps, result>>
  \/ /\ stage \in {"terminating", "killing", "reaping", "flushing"}
     /\ Ends("cancelled")
     /\ UNCHANGED running

\* The caller's task is cancelled while it is in the call.  Before the process is there
\* asyncio gives it up itself.  The cleanup goes on, whoever is cancelled meanwhile, and
\* the cancellation is raised when it is over.
CancelCall ==
  \/ /\ stage = "starting"
     /\ Ends("cancelled")
     /\ UNCHANGED running
  \/ /\ stage \in {"waiting", "draining"}
     /\ Terminates("cancelled")
     /\ UNCHANGED <<running, writers, killed, closed, pumps, result>>
  \/ /\ stage \in {"terminating", "killing", "reaping", "flushing"}
     /\ cause' = "cancelled"
     /\ UNCHANGED <<stage, running, writers, killed, closed, pumps, result>>

---------------------------------------------------------------------------
(* Pumps and processes.                                                    *)

\* A pump reads the end of its stream, or its callback raises.
PumpEnds(p) ==
  /\ pumps[p] = "reading"
  /\ \/ (writers = {} \/ closed) /\ pumps' = [pumps EXCEPT ![p] = "eof"]
     \/ p \in Failing /\ ~closed /\ pumps' = [pumps EXCEPT ![p] = "failed"]
  /\ UNCHANGED <<stage, running, writers, killed, closed, cause, result>>

\* The command starts a child, which inherits what it has of the pipes.
Fork(p) ==
  /\ stage = "waiting" /\ p # "leader" /\ p \notin writers
  /\ "leader" \in writers
  /\ writers' = writers \cup {p}
  /\ UNCHANGED <<stage, running, killed, closed, pumps, cause, result>>

\* A process redirects its output and lives on, or it exits.
CloseOutput(p) ==
  /\ stage # "idle" /\ p \in writers
  /\ writers' = writers \ {p}
  /\ UNCHANGED <<stage, running, killed, closed, pumps, cause, result>>

Exit ==
  /\ stage # "idle" /\ running
  /\ running' = FALSE /\ writers' = writers \ {"leader"}
  /\ UNCHANGED <<stage, killed, closed, pumps, cause, result>>

\* What the call does by itself.
CallStep ==
  \/ Started \/ CannotStart
  \/ SeesExit \/ TimesOut \/ SeesPumpFailure \/ DrainEnds
  \/ TerminationEnds \/ Kill \/ ClosePipes \/ ProcessGone \/ FlushEnds

\* What processes and pumps do.
ProcessStep ==
  \/ \E p \in Pumps : PumpEnds(p)
  \/ \E p \in Processes : Fork(p) \/ CloseOutput(p)
  \/ Exit

---------------------------------------------------------------------------
\* A call that ends leaves no command running: its process has been waited for, and after
\* an exception every child of its group that still had the pipes has got SIGKILL (unless a
\* pump failed, which makes the code think that its pipe is at its end).
CommandsAreStopped ==
  [][stage # "idle" /\ stage' = "idle" =>
       /\ ~running'
       /\ result' \in Raised /\ ~SomePumpFailed => killed \/ "member" \notin writers
    ]_subprocessVars
=============================================================================
