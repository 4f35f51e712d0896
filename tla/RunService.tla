----------------------------- MODULE RunService -----------------------------
(***************************************************************************)
(* What a request of the web interface sees of the runs (RunService).      *)
(* Manual runs are in the run manager of the web process, those of the     *)
(* scheduler in a manager of its own behind the socket, and both leave a   *)
(* row in the history; a scheduler of the command line keeps no history.   *)
(* A request asks one after the other, while runs begin and end, and while *)
(* schedulers come and go as SchedulerOwner.tla describes.                 *)
(***************************************************************************)
EXTENDS SchedulerOwner

CONSTANTS ManualRuns, ScheduledRuns

Runs == ManualRuns \cup ScheduledRuns
Gui  == "gui"               \* the run manager of the web process

ASSUME ServiceAssumption ==
    /\ ManualRuns \cap ScheduledRuns = {}
    /\ Gui \notin Schedulers \cup {Nobody}

VARIABLES
    run,        \* run[r]: how far it is, and whose run manager has it
    row,        \* row[r]: its row in the history
    listing     \* a request for runs: where it is, what it has seen

vars == <<hosts, run, row, listing>>
views == <<run, row, listing>>

Request(at) ==
    [at |-> at, what |-> "list", known |-> {}, live |-> {}, reached |-> FALSE]

RunsTypeOK ==
    /\ run \in [Runs -> [at : {"none", "queued", "running", "recorded", "over"},
                         by : Schedulers \cup {Gui, Nobody}]]
    /\ row \in [Runs -> {"none", "running", "done", "interrupted"}]
    /\ listing \in [at : {"no", "scheduler", "history", "answered"},
                    what : {"list", "active", "look"}, known : SUBSET Runs,
                    live : SUBSET Runs, reached : BOOLEAN]

Init ==
    /\ HostsInit
    /\ run = [r \in Runs |-> [at |-> "none", by |-> Nobody]]
    /\ row = [r \in Runs |-> "none"]
    /\ listing = Request("no")

\* The runs a manager holds, and those whose task is not over.
HeldBy(manager) == {r \in Runs : run[r].by = manager /\ run[r].at \notin {"none", "over"}}
InHistory(r)    == run[r].by \in Threads \cup {Gui}

-----------------------------------------------------------------------------
(* Runs, as their manager moves them; RunManager.tla has the details.       *)

\* The web process takes manual runs until it shuts down, a scheduler its own in a tick.
Submit(r, manager) ==
    /\ run[r].at = "none"
    /\ \/ r \in ManualRuns /\ manager = Gui /\ owner.at # "off" /\ stopper.at = "no"
       \/ r \in ScheduledRuns /\ manager \in Schedulers /\ sched[manager].at = "loop"
    /\ run' = [run EXCEPT ![r] = [at |-> "queued", by |-> manager]]
    /\ UNCHANGED <<hosts, row, listing>>

Begin(r) ==
    /\ run[r].at = "queued"
    /\ run' = [run EXCEPT ![r].at = "running"]
    /\ row' = IF InHistory(r) THEN [row EXCEPT ![r] = "running"] ELSE row
    /\ UNCHANGED <<hosts, listing>>

\* The outcome is recorded before the manager forgets the run.
Record(r) ==
    /\ run[r].at \in {"queued", "running"}
    /\ run' = [run EXCEPT ![r].at = "recorded"]
    /\ row' = IF InHistory(r) THEN [row EXCEPT ![r] = "done"] ELSE row
    /\ UNCHANGED <<hosts, listing>>

Forget(r) ==
    /\ run[r].at = "recorded"
    /\ run' = [run EXCEPT ![r].at = "over"]
    /\ UNCHANGED <<hosts, row, listing>>

\* The end of a loop cancels what outlasted the shutdown; its hook may be cancelled too.
CutOff(r) ==
    /\ run[r].by \in Schedulers /\ run[r].at \in {"queued", "running"}
    /\ sched[run[r].by].at = "unwinding"
    /\ run' = [run EXCEPT ![r].at = "over"]
    /\ UNCHANGED <<hosts, row, listing>>

Killed(managers) ==
    run' = [r \in Runs |-> IF run[r].by \in managers THEN [run[r] EXCEPT !.at = "over"]
                           ELSE run[r]]

-----------------------------------------------------------------------------
(* Steps of the hosts that touch runs.                                      *)

Interrupted(runs) ==
    row' = [r \in Runs |-> IF r \in runs /\ row[r] = "running" THEN "interrupted" ELSE row[r]]

\* Mutant: mark_active_runs_interrupted() for every origin.
Sweep_AllOrigins(s) ==
    /\ SweepEnds(s)
    /\ IF s \in Threads THEN Interrupted(Runs) ELSE UNCHANGED row
    /\ UNCHANGED <<run, listing>>

\* A starting scheduler of the web process closes the rows of dead scheduler runs.
Sweep(s) ==
    /\ SweepEnds(s)
    /\ IF s \in Threads THEN Interrupted(ScheduledRuns) ELSE UNCHANGED row
    /\ UNCHANGED <<run, listing>>

\* create_services() closes the rows of manual runs, then the owner starts.
BootServices == Boot /\ Interrupted(ManualRuns) /\ UNCHANGED <<run, listing>>

LoopEnds(s) == Unwound(s) /\ HeldBy(s) = {} /\ UNCHANGED views

WebProcessEnds ==
    /\ Exit \/ Crash
    /\ Killed(Threads \cup {Gui})
    /\ listing' = IF listing.at = "no" THEN listing ELSE Request("answered")
    /\ UNCHANGED row

DaemonEnds(s) == DaemonDies(s) /\ Killed({s}) /\ UNCHANGED <<row, listing>>

-----------------------------------------------------------------------------
(* A request: the own manager, the scheduler's, then the history without the *)
(* runs that were live.  The list of all runs asks all three, that of the   *)
(* active runs no history, and a look at one run stops where it is found.   *)
(* known is what existed of it when it began.                               *)

Known == HeldBy(Gui) \cup {r \in Runs : row[r] # "none"}
Asks(what, about) ==
    listing' = [at |-> "scheduler", what |-> what, known |-> Known \cap about,
                live |-> HeldBy(Gui), reached |-> FALSE]

ListOwn ==
    /\ owner.at # "off" /\ listing.at = "no"
    /\ \E what \in {"list", "active"} : Asks(what, Runs)
    /\ UNCHANGED <<hosts, run, row>>

LookOwn(r) ==
    /\ owner.at # "off" /\ listing.at = "no"
    /\ r \in Known
    /\ IF r \in HeldBy(Gui) THEN listing' = Request("answered") ELSE Asks("look", {r})
    /\ UNCHANGED <<hosts, run, row>>

Answered(live) ==
    \/ listing.what = "active"
    \/ listing.what = "look" /\ listing.known \subseteq live

\* Mutant: only the own runs are kept out of the history.
ListScheduler_NotExcluded ==
    /\ listing.at = "scheduler"
    /\ Answers
    /\ listing' = IF Answered(listing.live \cup HeldBy(socket)) THEN Request("answered")
                  ELSE [listing EXCEPT !.at = "history", !.reached = TRUE]
    /\ UNCHANGED <<hosts, run, row>>

\* The socket leads to a scheduler, or the request fails or takes too long.
ListScheduler ==
    /\ listing.at = "scheduler"
    /\ Answers
    /\ LET live == listing.live \cup HeldBy(socket)
       IN  listing' = IF Answered(live) THEN Request("answered")
                      ELSE [listing EXCEPT !.at = "history", !.reached = TRUE, !.live = live]
    /\ UNCHANGED <<hosts, run, row>>

SchedulerUnavailable ==
    /\ listing.at = "scheduler"
    /\ listing' = IF Answered({}) THEN Request("answered") ELSE [listing EXCEPT !.at = "history"]
    /\ UNCHANGED <<hosts, run, row>>

\* Rows that are still running are shown as interrupted.
FromHistory == {r \in Runs \ listing.live : row[r] # "none"}
Stale       == {r \in FromHistory : row[r] = "running"}

ListHistory ==
    /\ listing.at = "history"
    /\ listing' = Request("answered")
    /\ UNCHANGED <<hosts, run, row>>

-----------------------------------------------------------------------------
RunStep(r) ==
    \/ \E m \in Schedulers \cup {Gui} : Submit(r, m)
    \/ Begin(r) \/ Record(r) \/ Forget(r) \/ CutOff(r)

Lists ==
    \/ ListOwn \/ (\E r \in Runs : LookOwn(r))
    \/ ListScheduler \/ SchedulerUnavailable \/ ListHistory

HostStep ==
    \/ (\E s \in Schedulers : Hosts(s)) /\ UNCHANGED views
    \/ (Owns \/ Stops \/ ProbeTakes \/ ProbeLeaves) /\ UNCHANGED views
    \/ \E s \in Schedulers : Sweep(s) \/ LoopEnds(s) \/ DaemonEnds(s)
    \/ BootServices \/ WebProcessEnds

Next == HostStep \/ Lists \/ \E r \in Runs : RunStep(r)

Spec == Init /\ [][Next]_vars

\* Threads and event loops run on; nothing says that somebody starts, stops or asks, or
\* that anything is slow.
Fairness ==
    /\ \A s \in Schedulers :
          WF_vars((\/ TakeLock(s) \/ Conflict(s) \/ CreateEvent(s) \/ ReadFlag(s) \/ Bind(s)
                   \/ LeaveLoop(s) \/ ShutdownEnds(s) \/ Close(s) \/ Release(s)) /\ UNCHANGED views)
    /\ \A s \in Schedulers : WF_vars(Post(s) /\ UNCHANGED views)
    /\ \A s \in Schedulers : WF_vars(Sweep(s)) /\ WF_vars(LoopEnds(s))
    /\ WF_vars((\/ \E s \in Threads : Start(s)
                \/ OwnerEnds \/ Publish \/ Withdraw \/ StartFailed \/ Joined) /\ UNCHANGED views)
    /\ WF_vars(ProbeLeaves /\ UNCHANGED views)
    /\ \A r \in Runs : WF_vars(Record(r) \/ Forget(r))

FairSpec == Spec /\ Fairness

-----------------------------------------------------------------------------
\* The sweep of a starting scheduler closes no row of a run that is alive in another
\* manager; what a scheduler without lock still unwinds is being cancelled.
Alive(r) ==
    /\ run[r].at \in {"queued", "running"}
    /\ run[r].by \in Schedulers => sched[run[r].by].at # "unwinding"

SweepSparesLiveRuns ==
    [][\A r \in Runs : row[r] = "running" /\ row'[r] = "interrupted" => ~Alive(r)]_vars

\* A list shows every run it could know of, and once, wherever the run goes while
\* the request waits, and so does a look at one run; a run shown as interrupted is not
\* alive, unless the scheduler could not be asked or the run began after the request.
\* The list of active runs has every run that was known and is still alive.
ListingIsTrue ==
    [][/\ ListHistory =>
            /\ listing.known \subseteq listing.live \cup FromHistory
            /\ listing.reached => \A r \in Stale \cap listing.known : ~Alive(r)
       /\ ListScheduler /\ listing.what = "active" =>
            \A r \in listing.known : Alive(r) => r \in listing.live \cup HeldBy(socket)]_vars
=============================================================================
