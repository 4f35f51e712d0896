------------------------------ MODULE Scheduler ------------------------------
(***************************************************************************)
(* scheduler/cron.py: the loop of the CronScheduler.  Every tick looks at  *)
(* the configuration file, sends the periodic report when it is due, starts*)
(* every backup, workflow and rclone task that became due since the last   *)
(* successful tick, and only then moves the lower edge of the due window.  *)
(*                                                                         *)
(* Time is a clock of abstract instants; a cron expression is the set of   *)
(* instants it stands for, so that croniter's get_prev is the latest of    *)
(* them.  It is the wall clock, which may be set back at any moment.  The  *)
(* configuration file is written by other processes and threads at any     *)
(* moment, between stat, digest and load as well; the awaits of a tick     *)
(* (report, log cleanup) let time pass and runs finish.                    *)
(***************************************************************************)
EXTENDS Naturals

CONSTANTS
    Items,             \* backups, workflows and rclone tasks
    Configs,           \* contents the configuration file may have
    Valid,             \* the contents that load_config accepts
    Schedule,          \* the due instants of an item under a configuration
    ReportSchedule,    \* the due instants of the periodic report under a configuration
    Runs,              \* runs that finish while the scheduler works
    Exposed,           \* short moments in which the file may change: "start" from
                       \* the first load to __init__, "reload" from digest to load
    NoDigest,          \* _config_digest of an unreadable file
    MaxTime,           \* bound on the clock
    Bounds             \* what is bounded besides the clock, see Bound

Times == 1..MaxTime

\* Bounds on the writes of the configuration file, on failing ticks and on how often
\* the clock is set back, and the runs that may finish.
Bound == [edits : Nat, failures : Nat, setbacks : Nat, runs : SUBSET Runs]

ASSUME SchedulerAssumption ==
    /\ MaxTime \in Nat \ {0}
    /\ Valid \subseteq Configs
    /\ Schedule \in [Configs -> [Items -> SUBSET Times]]
    /\ ReportSchedule \in [Configs -> SUBSET Times]
    /\ Exposed \subseteq {"start", "reload"}
    /\ NoDigest \notin Configs
    /\ Bounds \subseteq Bound

VARIABLES
    bound,         \* the member of Bounds that this behaviour keeps to
    clock,         \* the wall clock
    setbacks,      \* how often it was set back
    file,          \* the configuration file: is it there, mtime, content
    gui,           \* owner = "gui": with run history; otherwise a report buffer
    pc,            \* where the loop stands
    config,        \* self.config
    seen,          \* _config_mtime and _config_digest (mtime 0: None)
    look,          \* mtime and digest of the reload under way
    reloadError,   \* _reload_error is set
    startTime,     \* _start_time
    lastCheck,     \* _last_check_time (0: None)
    now,           \* the time of the tick under way
    fires,         \* how often an item was started for a due instant
    failures,      \* how many ticks have failed
    since,         \* lastCheck when the active configuration was loaded
    reschedules,   \* how often a reload changed the schedule of the report
    finishedAt,    \* RunRecord.finished_at (0: not finished)
    hooked,        \* finished runs whose terminal hook is still to store them
    stored,        \* runs in the history, or in _report_buffer
    gathered,      \* the records of the report under way
    reports        \* how many delivered reports a run was in

environment == <<bound, clock, setbacks, file, gui>>
reloading   == <<config, seen, look, reloadError, since, reschedules>>
window      == <<startTime, lastCheck, now>>
reporting   == <<finishedAt, hooked, stored, gathered, reports>>
vars == <<environment, pc, reloading, window, fires, failures, reporting>>

Look == [mtime : Nat, digest : Configs \cup {NoDigest}]

TypeOK ==
    /\ bound \in Bound
    /\ clock \in Times /\ setbacks \in Nat
    /\ file \in [there : BOOLEAN, mtime : Nat, content : Configs]
    /\ gui \in BOOLEAN
    /\ pc \in {"load", "construct", "entering", "waiting", "digest", "parse", "check",
               "query", "sending", "items", "cleanup"}
    /\ config \in Configs
    /\ seen \in Look /\ look \in Look
    /\ reloadError \in BOOLEAN
    /\ startTime \in Nat /\ lastCheck \in Nat /\ now \in Nat
    /\ fires \in [Items -> [Times -> Nat]]
    /\ failures \in Nat
    /\ since \in Nat /\ reschedules \in Nat
    /\ finishedAt \in [Runs -> Nat]
    /\ hooked \subseteq Runs
    /\ stored \subseteq Runs
    /\ gathered \subseteq Runs
    /\ reports \in [Runs -> Nat]

\* _config_mtime and _config_digest after a failed stat: both None.
Unseen == [mtime |-> 0, digest |-> NoDigest]

Init ==
    /\ bound \in Bounds
    /\ clock = 1 /\ setbacks = 0
    /\ \E c \in Valid : /\ file = [there |-> TRUE, mtime |-> 1, content |-> c]
                        /\ config = c
    /\ gui \in BOOLEAN
    /\ pc = "load"
    /\ seen = Unseen /\ look = Unseen /\ reloadError = FALSE
    /\ startTime = 0 /\ lastCheck = 0 /\ now = 0
    /\ since = 0 /\ reschedules = 0
    /\ fires = [i \in Items |-> [d \in Times |-> 0]]
    /\ failures = 0
    /\ finishedAt = [r \in Runs |-> 0]
    /\ hooked = {} /\ stored = {} /\ gathered = {}
    /\ reports = [r \in Runs |-> 0]

-----------------------------------------------------------------------------
(* What is due.                                                            *)

\* get_prev: d is the latest instant of a schedule that is not after t.
IsLatest(schedule, d, t) ==
    /\ d \in schedule /\ d <= t
    /\ \A e \in schedule : e <= t => e <= d

\* Mutant: the instant of the last check is due again.
IsDue_Inclusive(schedule, d, t) ==
    /\ IsLatest(schedule, d, t)
    /\ IF lastCheck = 0 THEN d >= startTime ELSE d >= lastCheck

\* _is_due: d is the instant for which a schedule is due at time t.
IsDue(schedule, d, t) ==
    /\ IsLatest(schedule, d, t)
    /\ IF lastCheck = 0 THEN d >= startTime ELSE d > lastCheck

\* report_schedule of the configuration the loop works with.
Reporting == ReportSchedule[config]

\* _report_window: run r finished between the last two report instants.
InWindow(r, t) ==
    \E due \in Reporting :
       /\ IsLatest(Reporting, due, t)
       /\ finishedAt[r] \in 1..due
       /\ \A earlier \in Reporting : earlier < due => earlier < finishedAt[r]

-----------------------------------------------------------------------------
(* Start.                                                                  *)

Written == [mtime |-> file.mtime, digest |-> file.content]

\* load_config by whoever creates the scheduler; it is tried again until it works.
LoadForStart ==
    /\ pc = "load"
    /\ file.there /\ file.content \in Valid
    /\ config' = file.content
    /\ pc' = "construct"
    /\ UNCHANGED <<environment, seen, look, reloadError, since, reschedules, window,
                   fires, failures, reporting>>

\* __init__ records mtime and digest of the file as it is then.
Construct ==
    /\ pc = "construct"
    /\ IF file.there THEN seen' = Written /\ pc' = "entering"
                     ELSE seen' = seen    /\ pc' = "load"
    /\ UNCHANGED <<environment, config, look, reloadError, since, reschedules, window,
                   fires, failures, reporting>>

\* _run_locked reaches the loop.
EnterLoop ==
    /\ pc = "entering"
    /\ startTime' = clock
    /\ pc' = "waiting"
    /\ UNCHANGED <<environment, reloading, lastCheck, now, fires, failures, reporting>>

-----------------------------------------------------------------------------
(* One tick: _reload_if_changed.                                           *)

\* Mutant: a failed stat leaves the last known state of the file in place.
BeginTick_KeepsSeen ==
    /\ pc = "waiting"
    /\ IF file.there
       THEN /\ look' = [look EXCEPT !.mtime = file.mtime]
            /\ pc' = "digest"
            /\ UNCHANGED reloadError
       ELSE /\ reloadError' = TRUE
            /\ pc' = "check"
            /\ UNCHANGED look
    /\ UNCHANGED <<environment, config, seen, since, reschedules, window,
                   fires, failures, reporting>>

\* The stat of the configuration file.
BeginTick ==
    /\ pc = "waiting"
    /\ IF file.there
       THEN /\ look' = [look EXCEPT !.mtime = file.mtime]
            /\ pc' = "digest"
            /\ UNCHANGED <<seen, reloadError>>
       ELSE /\ seen' = Unseen /\ reloadError' = TRUE
            /\ pc' = "check"
            /\ UNCHANGED look
    /\ UNCHANGED <<environment, config, since, reschedules, window, fires, failures, reporting>>

Digest ==
    /\ pc = "digest"
    /\ LET l == [look EXCEPT !.digest = IF file.there THEN file.content ELSE NoDigest]
       IN  IF l = seen THEN look' = Unseen /\ pc' = "check"
                       ELSE look' = l      /\ pc' = "parse"
    /\ UNCHANGED <<environment, config, seen, reloadError, since, reschedules, window,
                   fires, failures, reporting>>

\* The loop works with c from now on.
NewConfig(c) ==
    /\ config' = c
    /\ since' = IF c = config THEN since ELSE lastCheck
    /\ reschedules' = IF ReportSchedule[c] = Reporting THEN reschedules ELSE reschedules + 1

\* Mutant: a reload moves the lower edge of the due window.
Parse_MovesWindow ==
    /\ pc = "parse"
    /\ seen' = look
    /\ look' = Unseen
    /\ IF file.there /\ file.content \in Valid
       THEN /\ NewConfig(file.content) /\ reloadError' = FALSE
            /\ lastCheck' = clock
       ELSE /\ reloadError' = TRUE
            /\ UNCHANGED <<config, since, reschedules, lastCheck>>
    /\ pc' = "check"
    /\ UNCHANGED <<environment, startTime, now, fires, failures, reporting>>

\* Mutant: the error of an earlier reload is not cleared.
Parse_KeepsError ==
    /\ pc = "parse"
    /\ seen' = look
    /\ look' = Unseen
    /\ IF file.there /\ file.content \in Valid
       THEN /\ NewConfig(file.content)
            /\ UNCHANGED reloadError
       ELSE /\ reloadError' = TRUE
            /\ UNCHANGED <<config, since, reschedules>>
    /\ pc' = "check"
    /\ UNCHANGED <<environment, window, fires, failures, reporting>>

\* load_config reads the file once more.
Parse ==
    /\ pc = "parse"
    /\ seen' = look
    /\ look' = Unseen
    /\ IF file.there /\ file.content \in Valid
       THEN /\ NewConfig(file.content) /\ reloadError' = FALSE
       ELSE /\ reloadError' = TRUE
            /\ UNCHANGED <<config, since, reschedules>>
    /\ pc' = "check"
    /\ UNCHANGED <<environment, window, fires, failures, reporting>>

-----------------------------------------------------------------------------
(* One tick: the report.                                                   *)

\* The time of the tick is read.  The buffer of a scheduler without history is
\* taken and cleared before anything is sent.
Check ==
    /\ pc = "check"
    /\ now' = clock
    /\ IF \E d \in Reporting : IsDue(Reporting, d, clock)
       THEN IF gui THEN pc' = "query" /\ UNCHANGED <<stored, gathered>>
                   ELSE /\ pc' = "sending"
                        /\ gathered' = stored
                        /\ stored' = {}
       ELSE pc' = "items" /\ UNCHANGED <<stored, gathered>>
    /\ UNCHANGED <<environment, reloading, startTime, lastCheck, fires, failures, finishedAt,
                   hooked, reports>>

\* list_finished_between answers; when it fails it answers with an empty list.
Query ==
    /\ pc = "query"
    /\ gathered' \in {{r \in stored : InWindow(r, now)}, {}}
    /\ pc' = "sending"
    /\ UNCHANGED <<environment, reloading, window, fires, failures, finishedAt, hooked, stored,
                   reports>>

\* notify_report delivers the report, or it is lost.
Send ==
    /\ pc = "sending"
    /\ \/ reports' = [r \in Runs |-> IF r \in gathered THEN reports[r] + 1 ELSE reports[r]]
       \/ reports' = reports
    /\ gathered' = {}
    /\ pc' = "items"
    /\ UNCHANGED <<environment, reloading, window, fires, failures, finishedAt, hooked,
                   stored>>

-----------------------------------------------------------------------------
(* One tick: the items, the log cleanup, the end.                          *)

DueItems == {i \in Items : \E d \in Times : IsDue(Schedule[config][i], d, now)}

Fire(started) ==
    fires' = [i \in Items |-> [d \in Times |->
                 IF i \in started /\ IsDue(Schedule[config][i], d, now)
                 THEN fires[i][d] + 1 ELSE fires[i][d]]]

\* RunManager.start() for every due item; none of these calls suspends.
Trigger ==
    /\ pc = "items"
    /\ Fire(DueItems)
    /\ pc' = "cleanup"
    /\ UNCHANGED <<environment, reloading, window, failures, reporting>>

\* The log cleanup is over: the tick was successful.
EndTick ==
    /\ pc = "cleanup"
    /\ lastCheck' = now /\ now' = 0
    /\ pc' = "waiting"
    /\ UNCHANGED <<environment, reloading, startTime, fires, failures, reporting>>

\* Any exception ends the tick, after some items may have been started.
TickFails ==
    /\ pc \in {"query", "sending", "items", "cleanup"}
    /\ failures < bound.failures
    /\ failures' = failures + 1
    /\ \E started \in SUBSET (IF pc = "items" THEN DueItems ELSE {}) : Fire(started)
    /\ now' = 0 /\ gathered' = {}
    /\ pc' = "waiting"
    /\ UNCHANGED <<environment, reloading, startTime, lastCheck, finishedAt, hooked, stored,
                   reports>>

LoopStep ==
    \/ LoadForStart \/ Construct \/ EnterLoop
    \/ BeginTick \/ Digest \/ Parse
    \/ Check \/ Query \/ Send
    \/ Trigger \/ EndTick \/ TickFails

-----------------------------------------------------------------------------
(* The surroundings.                                                       *)

TimePasses ==
    /\ clock < MaxTime
    /\ clock' = clock + 1
    /\ UNCHANGED <<bound, setbacks, file, gui, pc, reloading, window, fires, failures, reporting>>

\* _local_now() is the clock of the host, which an administrator or NTP may set back.
ClockGoesBack ==
    /\ setbacks < bound.setbacks
    /\ clock' \in 1..(clock - 1)
    /\ setbacks' = setbacks + 1
    /\ UNCHANGED <<bound, file, gui, pc, reloading, window, fires, failures, reporting>>

MayWrite == "start" \in Exposed \/ pc \notin {"load", "construct"}
MayHide  == MayWrite /\ ("reload" \in Exposed \/ pc # "parse")

\* The editor or an administrator writes the file: every write has a new mtime.
Edit(c) ==
    /\ MayWrite
    /\ file.mtime <= bound.edits
    /\ file' = [there |-> TRUE, mtime |-> file.mtime + 1, content |-> c]
    /\ UNCHANGED <<bound, clock, setbacks, gui, pc, reloading, window, fires, failures, reporting>>

\* The file is unreachable for a while (share, permissions), and comes back as it was.
VanishOrReturn ==
    /\ MayHide
    /\ file' = [file EXCEPT !.there = ~@]
    /\ UNCHANGED <<bound, clock, setbacks, gui, pc, reloading, window, fires, failures, reporting>>

\* RunManager._finish sets finished_at ...
RunFinishes(r) ==
    /\ r \in bound.runs /\ finishedAt[r] = 0
    /\ finishedAt' = [finishedAt EXCEPT ![r] = clock]
    /\ hooked' = hooked \cup {r}
    /\ UNCHANGED <<environment, pc, reloading, window, fires, failures, stored, gathered,
                   reports>>

\* ... and then awaits the terminal hook, which stores the record in the history or,
\* without history, in the buffer.
StoreRun(r) ==
    /\ r \in hooked
    /\ hooked' = hooked \ {r}
    /\ stored' = stored \cup {r}
    /\ UNCHANGED <<environment, pc, reloading, window, fires, failures, finishedAt, gathered,
                   reports>>

Next ==
    \/ LoopStep
    \/ TimePasses \/ ClockGoesBack \/ VanishOrReturn
    \/ \E c \in Configs : Edit(c)
    \/ \E r \in Runs : RunFinishes(r) \/ StoreRun(r)

Spec == Init /\ [][Next]_vars

\* Until stop(), the loop's thread runs on: its wait between ticks has a timeout, and
\* reports and log cleanup come to an end.
FairSpec == Spec /\ WF_vars(LoopStep)
-----------------------------------------------------------------------------
(* Properties.                                                             *)

\* No due instant starts an item twice: not on the edge between two windows, not
\* after a reload, not when a tick takes long.  Only a tick that failed after it
\* had started the item, or a clock that was set back behind the instant, makes it
\* due once more.
TriggeredOnce ==
    \A i \in Items : \A d \in Times : fires[i][d] <= 1 + failures + setbacks

Started(i, d) == fires[i][d] > 0

\* No due instant is swallowed: once a tick has passed it, the item was started for
\* it, or for a later instant of the same window, under the configuration that is
\* active, provided this was active from the window's lower edge on.  In
\* particular a reload within the tick, an empty report, a failed tick or a clock that
\* is set back loses none (after that, the later instant may lie ahead of the window).
NothingMissed ==
    \A i \in Items : \A d \in Schedule[config][i] :
       /\ startTime <= d /\ since < d /\ d <= lastCheck
       => \E e \in Schedule[config][i] : d <= e /\ (e <= lastCheck \/ setbacks > 0) /\ Started(i, e)

\* A file that the scheduler takes for known is in force: its content is the active
\* configuration and no error is shown, or it is invalid and the error is shown,
\* whatever was written, hidden or restored between the checks, and whatever was
\* written between stat, digest and load.
NothingOverlooked ==
    pc \notin {"load", "construct"} /\ file.there /\ seen = Written
       => IF file.content \in Valid THEN config = file.content /\ ~reloadError
                                    ELSE reloadError

\* A run is in at most one delivered report, unless a tick failed after the report, the
\* clock was set back behind its instant, or a reload changed the schedule of the report:
\* the windows of the old and of the new schedule overlap (with history; a buffer hands
\* every run over once).
ReportedOnce ==
    \A r \in Runs : reports[r] <= 1 + (IF gui THEN failures + setbacks + reschedules ELSE 0)

\* A saved valid configuration becomes active, without an error left over.
EditsArrive ==
    \A c \in Valid :
       file.there /\ file.content = c
          ~> (config = c /\ ~reloadError) \/ ~file.there \/ file.content # c

=============================================================================
