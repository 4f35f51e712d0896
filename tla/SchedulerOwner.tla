--------------------------- MODULE SchedulerOwner ---------------------------
(***************************************************************************)
(* Who runs the scheduler.  In the process of the web interface an owner   *)
(* thread (SchedulerOwnerManager.run) starts a scheduler thread, publishes *)
(* it and replaces it when it has died; stop() runs in a third thread.     *)
(* `dk-runtime scheduler` starts a scheduler in a process of its own.      *)
(* They share two files: the lock that lets one scheduler work at a time,  *)
(* and the socket by which other processes reach its runs.  Every reading  *)
(* of the status takes that lock for a moment as well.                     *)
(*                                                                         *)
(* RunService.tla adds the runs and the requests that look at them.        *)
(***************************************************************************)
EXTENDS Naturals, FiniteSets

CONSTANTS
    Threads,        \* scheduler threads of the web process
    Daemons,        \* `dk-runtime scheduler` processes
    Nobody,
    Attempts,       \* SCHEDULER_LOCK_START_ATTEMPTS
    MaxFaults       \* bound: crashes, slow starts, failures and status readings

Schedulers == Threads \cup Daemons
Probe == "probe"            \* the reader of the status, as a holder of the lock

ASSUME OwnerAssumption ==
    /\ Attempts \in Nat \ {0} /\ MaxFaults \in Nat
    /\ Threads \cap Daemons = {}
    /\ Nobody \notin Schedulers \cup {Probe} /\ Probe \notin Schedulers

VARIABLES
    owner,      \* the owner thread: where it is, and the scheduler it has just started
    published,  \* _scheduler and _scheduler_thread
    stopper,    \* stop(): where it is, and the scheduler it has signalled first
    stopping,   \* the _stop_event of the owner
    sched,      \* the CronScheduler objects and their threads
    posting,    \* schedulers whose stop() has set the flag and not yet looked for the loop
    lock,       \* holder of dockkeep-scheduler.lock
    socket,     \* the scheduler whose socket run-control.sock is
    gaveUp,     \* schedulers that outlasted the time somebody waited for them
    faults      \* disturbances so far; a behaviour may begin with some of them spent

ownership == <<owner, published, stopper, stopping, gaveUp>>
hosts     == <<ownership, sched, posting, lock, socket, faults>>

\* stop: _stop_event; event: _async_stop, which exists from "armed" on; told: the
\* result in the owner's queue, until it takes it.
Fresh == [at |-> "locking", tries |-> 0, stop |-> FALSE, event |-> FALSE, told |-> "nothing"]
Over  == [Fresh EXCEPT !.at = "ended"]
EndsWith(result) == [Over EXCEPT !.told = result]

Ended(s)     == sched[s].at = "ended"
HasEvent(s)  == sched[s].at \in {"armed", "sweep", "bind", "loop", "shutdown", "closing"}
Listening(s) == sched[s].at \in {"loop", "shutdown", "closing"}

\* CronScheduler objects.
Tries   == 0 .. Attempts
Objects == [at : {"locking", "created", "armed", "sweep", "bind", "loop", "shutdown", "closing",
                  "leaving", "unwinding", "ended"},
            tries : Tries, stop : BOOLEAN, event : BOOLEAN,
            told : {"nothing", "running", "lock_error", "unexpected_error"}]

TypeOK ==
    /\ owner \in [at : {"off", "look", "waiting", "joining", "done"},
                  mine : Threads \cup {Nobody}]
    /\ published \in Threads \cup {Nobody}
    /\ stopper \in [at : {"no", "first", "owner", "second", "thread", "done"},
                    first : Threads \cup {Nobody}]
    /\ stopping \in BOOLEAN
    /\ sched \in [Schedulers -> Objects]
    /\ posting \subseteq Schedulers
    /\ lock \in Schedulers \cup {Nobody, Probe}
    /\ socket \in Schedulers \cup {Nobody}
    /\ gaveUp \subseteq Threads
    /\ faults \in 0 .. MaxFaults

HostsInit ==
    /\ owner = [at |-> "off", mine |-> Nobody]
    /\ published = Nobody
    /\ stopper = [at |-> "no", first |-> Nobody]
    /\ stopping = FALSE
    /\ sched = [s \in Schedulers |-> Over]
    /\ posting = {}
    /\ lock = Nobody
    /\ socket = Nobody
    /\ gaveUp = {}
    /\ faults \in 0 .. MaxFaults

Fault == faults < MaxFaults /\ faults' = faults + 1

-----------------------------------------------------------------------------
(* CronScheduler.stop(): the flag for a scheduler without a loop, then the   *)
(* event of the loop, if there is one by then.                               *)

Signalled(s) == [sched EXCEPT ![s].stop = TRUE]

Post(s) ==
    /\ s \in posting
    /\ posting' = posting \ {s}
    /\ sched' = IF HasEvent(s) THEN [sched EXCEPT ![s].event = TRUE] ELSE sched
    /\ UNCHANGED <<ownership, lock, socket, faults>>

-----------------------------------------------------------------------------
(* The scheduler.                                                           *)

Moves(s, from, to) == sched[s].at = from /\ sched' = [sched EXCEPT ![s].at = to]

\* _run() takes the lock or tries again a moment later; after the last attempt it
\* reports the conflict.
TakeLock(s) ==
    /\ lock = Nobody
    /\ lock' = s
    /\ sched[s].at = "locking"
    /\ sched' = [sched EXCEPT ![s] = [@ EXCEPT !.at = "created", !.tries = 0]]
    /\ UNCHANGED <<ownership, posting, socket, faults>>

Conflict(s) ==
    /\ sched[s].at = "locking" /\ lock # Nobody
    /\ sched' = IF sched[s].tries + 1 < Attempts
                THEN [sched EXCEPT ![s].tries = @ + 1]
                ELSE [sched EXCEPT ![s] = EndsWith("lock_error")]
    /\ UNCHANGED <<ownership, posting, lock, socket, faults>>

\* The lock file cannot be opened: the thread ends with the exception.
LockBreaks(s) ==
    /\ Fault
    /\ sched[s].at = "locking"
    /\ sched' = [sched EXCEPT ![s] = EndsWith("unexpected_error")]
    /\ UNCHANGED <<ownership, posting, lock, socket>>

\* _run_locked() creates the event, then looks at the flag.
CreateEvent(s) ==
    /\ Moves(s, "created", "armed")
    /\ UNCHANGED <<ownership, posting, lock, socket, faults>>

\* Mutant: a stop() that came before the event is forgotten.
ReadFlag_Late(s) ==
    /\ Moves(s, "armed", "sweep")
    /\ UNCHANGED <<ownership, posting, lock, socket, faults>>

ReadFlag(s) ==
    /\ sched[s].at = "armed"
    /\ sched' = [sched EXCEPT ![s] =
                    [@ EXCEPT !.at = "sweep", !.event = sched[s].event \/ sched[s].stop]]
    /\ UNCHANGED <<ownership, posting, lock, socket, faults>>

SweepEnds(s) ==
    /\ Moves(s, "sweep", "bind")
    /\ UNCHANGED <<ownership, posting, lock, socket, faults>>

\* RunControlServer.start(): a socket that answers stays, a dead one is replaced.
Answers == socket # Nobody /\ Listening(socket)

\* Mutant: the socket file of a dead process is taken for a live one.
Bind_KeepsStale(s) ==
    /\ sched[s].at = "bind"
    /\ IF socket # Nobody
       THEN /\ sched' = [sched EXCEPT ![s].at = "leaving", ![s].told = "unexpected_error"]
            /\ UNCHANGED socket
       ELSE /\ sched' = [sched EXCEPT ![s] = [@ EXCEPT !.at = "loop", !.told = "running"]]
            /\ socket' = s
    /\ UNCHANGED <<ownership, posting, lock, faults>>

Bind(s) ==
    /\ sched[s].at = "bind"
    /\ IF Answers
       THEN /\ sched' = [sched EXCEPT ![s].at = "leaving", ![s].told = "unexpected_error"]
            /\ UNCHANGED socket
       ELSE /\ sched' = [sched EXCEPT ![s] = [@ EXCEPT !.at = "loop", !.told = "running"]]
            /\ socket' = s
    /\ UNCHANGED <<ownership, posting, lock, faults>>

\* It cannot be created (the stale file is gone by then), or not be protected, and
\* then it is removed again.
BindFails(s) ==
    /\ Fault
    /\ sched[s].at = "bind" /\ ~Answers
    /\ sched' = [sched EXCEPT ![s] = [@ EXCEPT !.at = "leaving", !.told = "unexpected_error"]]
    /\ socket' = Nobody
    /\ UNCHANGED <<ownership, posting, lock>>

LeaveLoop(s) ==
    /\ sched[s].event
    /\ Moves(s, "loop", "shutdown")
    /\ UNCHANGED <<ownership, posting, lock, socket, faults>>

\* Whatever ends the loop, the finally clause shuts down.
LoopBreaks(s) ==
    /\ Fault
    /\ Moves(s, "loop", "shutdown")
    /\ UNCHANGED <<ownership, posting, lock, socket>>

\* Its runs are over, or SHUTDOWN_TIMEOUT is.
ShutdownEnds(s) ==
    /\ Moves(s, "shutdown", "closing")
    /\ UNCHANGED <<ownership, posting, lock, socket, faults>>

\* RunControlServer.close(): the path is removed while it is the own socket.
Close(s) ==
    /\ Moves(s, "closing", "leaving")
    /\ socket' = IF socket = s THEN Nobody ELSE socket
    /\ UNCHANGED <<ownership, posting, lock, faults>>

Release(s) ==
    /\ Moves(s, "leaving", "unwinding")
    /\ lock' = Nobody
    /\ UNCHANGED <<ownership, posting, socket, faults>>

\* asyncio.run() cancels what is left in the loop and waits for it.
Unwound(s) ==
    /\ sched[s].at = "unwinding"
    /\ sched' = [sched EXCEPT ![s] = EndsWith(sched[s].told)]
    /\ UNCHANGED <<ownership, posting, lock, socket, faults>>

\* `dk-runtime scheduler`, its signal handler, and its end by force.
StartDaemon(s) ==
    /\ s \in Daemons /\ Ended(s) /\ s \notin posting
    /\ Fault
    /\ sched' = [sched EXCEPT ![s] = Fresh]
    /\ UNCHANGED <<ownership, posting, lock, socket>>

StopDaemon(s) ==
    /\ s \in Daemons /\ ~Ended(s) /\ ~sched[s].stop
    /\ sched' = Signalled(s)
    /\ posting' = posting \cup {s}
    /\ UNCHANGED <<ownership, lock, socket, faults>>

DaemonDies(s) ==
    /\ s \in Daemons /\ ~Ended(s)
    /\ Fault
    /\ sched' = [sched EXCEPT ![s] = Over]
    /\ posting' = posting \ {s}
    /\ lock' = IF lock = s THEN Nobody ELSE lock
    /\ UNCHANGED <<ownership, socket>>

-----------------------------------------------------------------------------
(* The owner thread.                                                        *)

Boot ==
    /\ owner.at = "off"
    /\ owner' = [at |-> "look", mine |-> Nobody]
    /\ UNCHANGED <<published, stopper, stopping, gaveUp, sched, posting, lock, socket, faults>>

OwnerEnds ==
    /\ owner.at = "look" /\ stopping
    /\ owner' = [owner EXCEPT !.at = "done"]
    /\ UNCHANGED <<published, stopper, stopping, gaveUp, sched, posting, lock, socket, faults>>

\* A thread id is free again when nothing refers to the object it stood for.
Free(s) == s \in Threads /\ Ended(s) /\ s \notin posting /\ s # stopper.first

NothingRuns == published \in {Nobody} \cup {s \in Threads : Ended(s)}

\* Nothing is published, or what is has died; the configuration is loaded and a
\* thread started.
Start(s) ==
    /\ owner.at = "look" /\ ~stopping
    /\ NothingRuns
    /\ Free(s) /\ s = CHOOSE t \in Threads : Free(t)
    /\ published' = Nobody
    /\ sched' = [sched EXCEPT ![s] = Fresh]
    /\ owner' = [at |-> "waiting", mine |-> s]
    /\ gaveUp' = gaveUp \ {s}
    /\ UNCHANGED <<stopper, stopping, posting, lock, socket, faults>>

\* The configuration is not valid, or the scheduler cannot be set up.
CannotStart ==
    /\ Fault
    /\ owner.at = "look" /\ ~stopping
    /\ NothingRuns
    /\ published' = Nobody
    /\ UNCHANGED <<owner, stopper, stopping, gaveUp, sched, posting, lock, socket>>

\* Under _state_lock: publish it, unless stop() has come.
Publish ==
    /\ owner.at = "waiting" /\ sched[owner.mine].told = "running" /\ ~stopping
    /\ published' = owner.mine
    /\ owner' = [at |-> "look", mine |-> Nobody]
    /\ sched' = [sched EXCEPT ![owner.mine].told = "nothing"]
    /\ UNCHANGED <<stopper, stopping, gaveUp, posting, lock, socket, faults>>

Dismiss ==
    /\ sched' = [sched EXCEPT ![owner.mine] = [@ EXCEPT !.stop = TRUE, !.told = "nothing"]]
    /\ posting' = posting \cup {owner.mine}
    /\ owner' = [owner EXCEPT !.at = "joining"]
    /\ UNCHANGED <<published, stopper, stopping, gaveUp, lock, socket>>

\* Mutant: the scheduler is kept from being published, not from running.
Withdraw_Running ==
    /\ owner.at = "waiting" /\ sched[owner.mine].told = "running" /\ stopping
    /\ owner' = [owner EXCEPT !.at = "joining"]
    /\ UNCHANGED <<published, stopper, stopping, gaveUp, sched, posting, lock, socket, faults>>

Withdraw ==
    /\ owner.at = "waiting" /\ sched[owner.mine].told = "running" /\ stopping
    /\ Dismiss /\ UNCHANGED faults

StartFailed ==
    /\ owner.at = "waiting" /\ sched[owner.mine].told \notin {"nothing", "running"}
    /\ Dismiss /\ UNCHANGED faults

\* Mutant: a start that took too long is left to itself.
StartTimesOut_Abandons ==
    /\ owner.at = "waiting" /\ sched[owner.mine].told = "nothing"
    /\ Fault
    /\ owner' = [owner EXCEPT !.at = "joining"]
    /\ UNCHANGED <<published, stopper, stopping, gaveUp, sched, posting, lock, socket>>

\* SCHEDULER_START_TIMEOUT.
StartTimesOut ==
    /\ owner.at = "waiting" /\ sched[owner.mine].told = "nothing"
    /\ Fault /\ Dismiss

Joined ==
    /\ owner.at = "joining" /\ Ended(owner.mine)
    /\ owner' = [at |-> "look", mine |-> Nobody]
    /\ UNCHANGED <<published, stopper, stopping, gaveUp, sched, posting, lock, socket, faults>>

JoinTimesOut ==
    /\ owner.at = "joining" /\ ~Ended(owner.mine)
    /\ owner' = [at |-> "look", mine |-> Nobody]
    /\ gaveUp' = gaveUp \cup {owner.mine}
    /\ UNCHANGED <<published, stopper, stopping, sched, posting, lock, socket, faults>>

-----------------------------------------------------------------------------
(* SchedulerOwnerManager.stop(), called when the web application shuts down. *)

StopsAt(from, to) == stopper.at = from /\ stopper' = [stopper EXCEPT !.at = to]

AskStop ==
    /\ owner.at # "off"
    /\ StopsAt("no", "first")
    /\ stopping' = TRUE
    /\ UNCHANGED <<owner, published, gaveUp, sched, posting, lock, socket, faults>>

\* _stop_scheduler_once(): signal what is published, unless it already was.
StopOnce(from, to) ==
    /\ stopper.at = from
    /\ IF published \in {Nobody, stopper.first}
       THEN stopper' = [stopper EXCEPT !.at = to] /\ UNCHANGED <<sched, posting>>
       ELSE /\ stopper' = [at |-> to, first |-> published]
            /\ sched' = Signalled(published)
            /\ posting' = posting \cup {published}
    /\ UNCHANGED <<owner, published, stopping, gaveUp, lock, socket, faults>>

StopFirst  == StopOnce("first", "owner")
StopSecond == StopOnce("second", "thread")

\* The owner ends long before the 90 seconds of this join.
OwnerJoined ==
    /\ owner.at = "done"
    /\ StopsAt("owner", "second")
    /\ UNCHANGED <<owner, published, stopping, gaveUp, sched, posting, lock, socket, faults>>

ThreadJoined ==
    /\ NothingRuns
    /\ StopsAt("thread", "done")
    /\ UNCHANGED <<owner, published, stopping, gaveUp, sched, posting, lock, socket, faults>>

ThreadJoinTimesOut ==
    /\ ~NothingRuns
    /\ StopsAt("thread", "done")
    /\ gaveUp' = gaveUp \cup {published}
    /\ UNCHANGED <<owner, published, stopping, sched, posting, lock, socket, faults>>

\* Scheduler threads are daemons of the process: they end with it, wherever they are.
ProcessGone ==
    /\ owner' = [at |-> "off", mine |-> Nobody]
    /\ published' = Nobody
    /\ stopper' = [at |-> "no", first |-> Nobody]
    /\ stopping' = FALSE
    /\ sched' = [s \in Schedulers |-> IF s \in Threads THEN Over ELSE sched[s]]
    /\ posting' = posting \ Threads
    /\ lock' = IF lock \in Threads THEN Nobody ELSE lock
    /\ gaveUp' = {}
    /\ UNCHANGED socket

Exit  == stopper.at = "done" /\ ProcessGone /\ UNCHANGED faults
Crash == owner.at # "off" /\ Fault /\ ProcessGone

-----------------------------------------------------------------------------
(* SchedulerStatusReader._is_scheduler_lock_held(), in any process.          *)

ProbeTakes ==
    /\ lock = Nobody
    /\ Fault
    /\ lock' = Probe
    /\ UNCHANGED <<ownership, sched, posting, socket>>

ProbeLeaves ==
    /\ lock = Probe
    /\ lock' = Nobody
    /\ UNCHANGED <<ownership, sched, posting, socket, faults>>

-----------------------------------------------------------------------------
\* Steps of a scheduler that have nothing to do with its runs.
Hosts(s) ==
    \/ TakeLock(s) \/ Conflict(s) \/ LockBreaks(s) \/ CreateEvent(s) \/ ReadFlag(s)
    \/ Bind(s) \/ BindFails(s) \/ LeaveLoop(s) \/ LoopBreaks(s) \/ ShutdownEnds(s) \/ Close(s)
    \/ Release(s) \/ StartDaemon(s) \/ StopDaemon(s) \/ Post(s)

Owns ==
    \/ \E s \in Threads : Start(s)
    \/ OwnerEnds \/ CannotStart \/ Publish \/ Withdraw \/ StartFailed
    \/ StartTimesOut \/ Joined \/ JoinTimesOut

Stops ==
    \/ AskStop \/ StopFirst \/ OwnerJoined \/ StopSecond
    \/ ThreadJoined \/ ThreadJoinTimesOut

\* A scheduler works only if somebody will stop it: the owner has published it or
\* waits for its result, or it has been told to stop.
NoOrphanScheduler ==
    \A s \in Threads :
        sched[s].at = "loop" /\ ~sched[s].stop =>
            published = s \/ (owner.at = "waiting" /\ owner.mine = s)

\* The web process does not end under a scheduler that was not told to stop and given
\* its time.
ExitIsClean ==
    [][Exit => \A s \in Threads : Ended(s) \/ (sched[s].stop /\ s \in gaveUp)]_hosts

\* stop() is heard, whenever it comes.
StopIsHeard == \A s \in Schedulers : sched[s].stop ~> Ended(s)

\* While the web process runs and is not asked to stop, a scheduler works again and
\* again: after crashes, conflicts, slow starts and with the leftovers of the dead.
SchedulerComesBack ==
    owner.at # "off" /\ ~stopping ~>
        \/ \E s \in Schedulers : sched[s].at = "loop"
        \/ owner.at = "off" \/ stopping
=============================================================================
