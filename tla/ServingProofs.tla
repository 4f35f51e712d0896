---------------------------- MODULE ServingProofs -----------------------------
(***************************************************************************)
(* Proofs about SchedulerOwner and RunService for any number of scheduler  *)
(* threads, command line schedulers, runs and disturbances.                *)
(*                                                                         *)
(* HostsInv is about the hosts alone: the lock file belongs to whoever is  *)
(* between TakeLock and Release, and every thread that has not ended is in *)
(* somebody's hands.  RunsInv ties runs, rows and a request to the hosts.  *)
(***************************************************************************)
EXTENDS RunService, TLAPS

\* Between TakeLock and Release.
Locked == {"created", "armed", "sweep", "bind", "loop", "shutdown", "closing", "leaving"}

LockInv == \A s \in Schedulers : sched[s].at \in Locked => lock = s

\* A thread that was not told to stop is published or about to be.
OrphanInv ==
    /\ owner.at \in {"waiting", "joining"} => published = Nobody /\ owner.mine \in Threads
    /\ \A s \in Threads :
          ~Ended(s) /\ ~sched[s].stop =>
              published = s \/ (owner.at = "waiting" /\ owner.mine = s)

\* Whoever outlives the owner's interest in it was waited for; a stopper stops
\* what it has seen published, and the owner publishes nothing behind its back.
HandsInv ==
    \A s \in Threads :
        ~Ended(s) => \/ published = s
                     \/ owner.at \in {"waiting", "joining"} /\ owner.mine = s
                     \/ s \in gaveUp

StopInv ==
    /\ stopper.at # "no" => stopping
    /\ owner.at = "done" => stopping
    /\ owner.at = "off" => stopper.at = "no" /\ ~stopping
    /\ stopper.at \in {"second", "thread", "done"} => owner.at = "done"
    /\ stopper.first # Nobody => Ended(stopper.first) \/ sched[stopper.first].stop
    /\ stopper.at \in {"thread", "done"} =>
          published = Nobody \/ Ended(published) \/ sched[published].stop
    /\ stopper.at = "done" /\ published # Nobody => Ended(published) \/ published \in gaveUp

HostsInv == TypeOK /\ LockInv /\ OrphanInv /\ HandsInv /\ StopInv

\* A run that is in a run manager.
Live == {"queued", "running", "recorded"}
\* A scheduler may have runs from its first tick to the end of its loop.
Serving == {"loop", "shutdown", "closing", "leaving", "unwinding"}

RunInv(r) ==
    /\ run[r].at = "none" => run[r].by = Nobody
    /\ row[r] # "none" => InHistory(r)
    /\ r \in ManualRuns => run[r].by \in {Gui, Nobody}
    /\ r \in ScheduledRuns => run[r].by \in Schedulers \cup {Nobody}
    /\ run[r].at \in Live => /\ run[r].by = Gui => owner.at # "off"
                             /\ run[r].by \in Schedulers => sched[run[r].by].at \in Serving

\* What a request has seen of the runs that it has not seen live: they have a row, and
\* if they are still alive it is in a scheduler that it has not asked yet, or one that
\* is cancelling them.
ListingInv ==
    \A r \in listing.known \ listing.live :
        /\ row[r] # "none"
        /\ run[r].by = Gui => run[r].at = "over"
        /\ listing.reached /\ run[r].at # "over" =>
              run[r].by \in Schedulers /\ sched[run[r].by].at = "unwinding"

RunsInv == RunsTypeOK /\ (\A r \in Runs : RunInv(r)) /\ ListingInv

IInv == HostsInv /\ RunsInv
-----------------------------------------------------------------------------
(* Steps of a scheduler.                                                    *)

\* A step takes nobody out of the hands that will stop him: threads stay ended, and
\* stay told to stop until they are.
Onward ==
    \A s \in Threads : /\ Ended(s) => Ended(s)'
                       /\ sched[s].stop => sched'[s].stop \/ Ended(s)'

LEMMA OnwardKeepsHands ==
    ASSUME HostsInv, Onward, UNCHANGED ownership
    PROVE  OrphanInv' /\ HandsInv' /\ StopInv'
<1> USE DEF HostsInv, TypeOK, Onward, ownership
<1>1. OrphanInv'
  BY DEF OrphanInv
<1>2. HandsInv'
  BY DEF HandsInv
<1>3. StopInv'
  BY OwnerAssumption DEF StopInv
<1> QED
  BY <1>1, <1>2, <1>3

LEMMA NoTries == 0 \in Tries
  BY OwnerAssumption DEF Tries

\* A new, a dead and an ended scheduler.
LEMMA FreshObjects ==
    /\ Fresh \in Objects /\ Over \in Objects
    /\ \A t \in {"nothing", "running", "lock_error", "unexpected_error"} :
          EndsWith(t) \in Objects
<1>1. Fresh \in Objects
  BY NoTries DEF Fresh, Objects
<1>2. Over \in Objects
  BY <1>1 DEF Over, Objects
<1> QED
  BY <1>1, <1>2 DEF EndsWith, Objects

LEMMA FreshFields ==
    /\ Fresh.at = "locking" /\ ~Fresh.stop
    /\ Over.at = "ended"
    /\ \A t \in {"nothing", "running", "lock_error", "unexpected_error"} :
          EndsWith(t).at = "ended" /\ EndsWith(t).told = t
  BY DEF Fresh, Over, EndsWith

\* One scheduler changes, and the others do not.
LEMMA OneChanges ==
    ASSUME TypeOK, NEW s \in Schedulers, NEW o \in Objects, sched' = [sched EXCEPT ![s] = o]
    PROVE  /\ sched' \in [Schedulers -> Objects]
           /\ sched'[s] = o
           /\ \A t \in Schedulers \ {s} : sched'[t] = sched[t]
  BY DEF TypeOK

\* A step of one scheduler that leaves the owner and the stopper alone.
LEMMA OneMoves ==
    ASSUME HostsInv, NEW s \in Schedulers, NEW o \in Objects,
           sched' = [sched EXCEPT ![s] = o],
           UNCHANGED ownership,
           posting' \subseteq Schedulers,
           lock' \in Schedulers \cup {Nobody, Probe},
           socket' \in Schedulers \cup {Nobody},
           faults' \in 0 .. MaxFaults,
           \A t \in Schedulers \ {s} : lock = t => lock' = t,
           o.at \in Locked => lock' = s,
           s \in Threads /\ Ended(s) => o.at = "ended",
           s \in Threads /\ sched[s].stop => o.stop \/ o.at = "ended"
    PROVE  HostsInv'
<1>1. /\ sched' \in [Schedulers -> Objects]
      /\ sched'[s] = o
      /\ \A t \in Schedulers \ {s} : sched'[t] = sched[t]
  BY OneChanges DEF HostsInv
<1>2. TypeOK'
  BY <1>1 DEF HostsInv, TypeOK, ownership
<1>3. LockInv'
  BY <1>1 DEF HostsInv, LockInv
<1>4. Onward
  BY <1>1 DEF Onward, Ended, Schedulers
<1> QED
  BY <1>2, <1>3, <1>4, OnwardKeepsHands DEF HostsInv

LEMMA FaultCounts ==
    ASSUME faults \in 0 .. MaxFaults, Fault
    PROVE  faults' \in 0 .. MaxFaults
  BY OwnerAssumption DEF Fault

LEMMA SchedulerKeepsHosts ==
    ASSUME HostsInv, NEW s \in Schedulers,
           Hosts(s) \/ SweepEnds(s) \/ Unwound(s) \/ DaemonDies(s)
    PROVE  HostsInv'
<1>a. /\ sched \in [Schedulers -> Objects] /\ sched[s] \in Objects
      /\ posting \subseteq Schedulers /\ lock \in Schedulers \cup {Nobody, Probe}
      /\ socket \in Schedulers \cup {Nobody} /\ faults \in 0 .. MaxFaults
      /\ MaxFaults \in Nat
  BY OwnerAssumption DEF HostsInv, TypeOK
<1>b. sched[s].at \in Locked => lock = s
  BY DEF HostsInv, LockInv
<1>c. /\ Nobody \notin Schedulers /\ Probe \notin Schedulers /\ Nobody # Probe
      /\ s \in Daemons => s \notin Threads
  BY OwnerAssumption DEF Schedulers
<1>1. CASE TakeLock(s)
  <2> DEFINE o == [sched[s] EXCEPT !.at = "created", !.tries = 0]
  <2>1. o \in Objects
    BY <1>a, NoTries DEF Objects
  <2>2. sched' = [sched EXCEPT ![s] = o]
    BY <1>1 DEF TakeLock
  <2>3. o.at = "created" /\ o.stop = sched[s].stop
    BY <1>a DEF Objects
  <2>4. /\ lock = Nobody /\ lock' = s /\ sched[s].at = "locking"
        /\ UNCHANGED <<ownership, posting, socket, faults>>
    BY <1>1 DEF TakeLock
  <2> HIDE DEF o
  <2>5. \A t \in Schedulers \ {s} : lock = t => lock' = t
    BY <1>c, <2>4
  <2> QED
    BY <1>a, <1>c, <2>1, <2>2, <2>3, <2>4, <2>5, OneMoves DEF Ended, Locked
<1>2. CASE CreateEvent(s)
  <2> DEFINE o == [sched[s] EXCEPT !.at = "armed"]
  <2>1. o \in Objects
    BY <1>a, NoTries DEF Objects
  <2>2. sched' = [sched EXCEPT ![s] = o]
    BY <1>2 DEF CreateEvent, Moves
  <2>3. o.at = "armed" /\ o.stop = sched[s].stop
    BY <1>a DEF Objects
  <2> HIDE DEF o
  <2> QED
    BY <1>2, <1>a, <1>b, <1>c, <2>1, <2>2, <2>3, OneMoves
       DEF CreateEvent, Moves, Ended, Locked
<1>3. CASE ReadFlag(s)
  <2> DEFINE o == [sched[s] EXCEPT !.at = "sweep", !.event = sched[s].event \/ sched[s].stop]
  <2>1. o \in Objects
    BY <1>a, NoTries DEF Objects
  <2>2. sched' = [sched EXCEPT ![s] = o]
    BY <1>3 DEF ReadFlag
  <2>3. o.at = "sweep" /\ o.stop = sched[s].stop
    BY <1>a DEF Objects
  <2> HIDE DEF o
  <2> QED
    BY <1>3, <1>a, <1>b, <1>c, <2>1, <2>2, <2>3, OneMoves
       DEF ReadFlag, Ended, Locked
<1>4. CASE SweepEnds(s)
  <2> DEFINE o == [sched[s] EXCEPT !.at = "bind"]
  <2>1. o \in Objects
    BY <1>a, NoTries DEF Objects
  <2>2. sched' = [sched EXCEPT ![s] = o]
    BY <1>4 DEF SweepEnds, Moves
  <2>3. o.at = "bind" /\ o.stop = sched[s].stop
    BY <1>a DEF Objects
  <2> HIDE DEF o
  <2> QED
    BY <1>4, <1>a, <1>b, <1>c, <2>1, <2>2, <2>3, OneMoves
       DEF SweepEnds, Moves, Ended, Locked
<1>5. CASE BindFails(s)
  <2> DEFINE o == [sched[s] EXCEPT !.at = "leaving", !.told = "unexpected_error"]
  <2>1. o \in Objects
    BY <1>a, NoTries DEF Objects
  <2>2. sched' = [sched EXCEPT ![s] = o]
    BY <1>5 DEF BindFails, Fault
  <2>3. o.at = "leaving" /\ o.stop = sched[s].stop
    BY <1>a DEF Objects
  <2> HIDE DEF o
  <2> QED
    BY <1>5, <1>a, <1>b, <1>c, <2>1, <2>2, <2>3, FaultCounts, OneMoves
       DEF BindFails, Ended, Locked
<1>6. CASE LeaveLoop(s)
  <2> DEFINE o == [sched[s] EXCEPT !.at = "shutdown"]
  <2>1. o \in Objects
    BY <1>a, NoTries DEF Objects
  <2>2. sched' = [sched EXCEPT ![s] = o]
    BY <1>6 DEF LeaveLoop, Moves
  <2>3. o.at = "shutdown" /\ o.stop = sched[s].stop
    BY <1>a DEF Objects
  <2> HIDE DEF o
  <2> QED
    BY <1>6, <1>a, <1>b, <1>c, <2>1, <2>2, <2>3, OneMoves
       DEF LeaveLoop, Moves, Ended, Locked
<1>7. CASE LoopBreaks(s)
  <2> DEFINE o == [sched[s] EXCEPT !.at = "shutdown"]
  <2>1. o \in Objects
    BY <1>a, NoTries DEF Objects
  <2>2. sched' = [sched EXCEPT ![s] = o]
    BY <1>7 DEF LoopBreaks, Moves, Fault
  <2>3. o.at = "shutdown" /\ o.stop = sched[s].stop
    BY <1>a DEF Objects
  <2> HIDE DEF o
  <2> QED
    BY <1>7, <1>a, <1>b, <1>c, <2>1, <2>2, <2>3, FaultCounts, OneMoves
       DEF LoopBreaks, Moves, Ended, Locked
<1>8. CASE ShutdownEnds(s)
  <2> DEFINE o == [sched[s] EXCEPT !.at = "closing"]
  <2>1. o \in Objects
    BY <1>a, NoTries DEF Objects
  <2>2. sched' = [sched EXCEPT ![s] = o]
    BY <1>8 DEF ShutdownEnds, Moves
  <2>3. o.at = "closing" /\ o.stop = sched[s].stop
    BY <1>a DEF Objects
  <2> HIDE DEF o
  <2> QED
    BY <1>8, <1>a, <1>b, <1>c, <2>1, <2>2, <2>3, OneMoves
       DEF ShutdownEnds, Moves, Ended, Locked
<1>9. CASE Close(s)
  <2> DEFINE o == [sched[s] EXCEPT !.at = "leaving"]
  <2>1. o \in Objects
    BY <1>a, NoTries DEF Objects
  <2>2. sched' = [sched EXCEPT ![s] = o]
    BY <1>9 DEF Close, Moves
  <2>3. o.at = "leaving" /\ o.stop = sched[s].stop
    BY <1>a DEF Objects
  <2> HIDE DEF o
  <2> QED
    BY <1>9, <1>a, <1>b, <1>c, <2>1, <2>2, <2>3, OneMoves
       DEF Close, Moves, Ended, Locked
<1>10. CASE Release(s)
  <2> DEFINE o == [sched[s] EXCEPT !.at = "unwinding"]
  <2>1. o \in Objects
    BY <1>a, NoTries DEF Objects
  <2>2. sched' = [sched EXCEPT ![s] = o]
    BY <1>10 DEF Release, Moves
  <2>3. o.at = "unwinding" /\ o.stop = sched[s].stop
    BY <1>a DEF Objects
  <2> HIDE DEF o
  <2> QED
    BY <1>10, <1>a, <1>b, <1>c, <2>1, <2>2, <2>3, OneMoves
       DEF Release, Moves, Ended, Locked
<1>11. CASE LockBreaks(s)
  <2> DEFINE o == EndsWith("unexpected_error")
  <2>1. o \in Objects
    BY FreshObjects
  <2>2. sched' = [sched EXCEPT ![s] = o]
    BY <1>11 DEF LockBreaks, Fault
  <2>3. o.at = "ended"
    BY FreshFields
  <2> HIDE DEF o
  <2> QED
    BY <1>11, <1>a, <1>b, <1>c, <2>1, <2>2, <2>3, FaultCounts, OneMoves
       DEF LockBreaks, Ended, Locked
<1>12. CASE Unwound(s)
  <2> DEFINE o == EndsWith(sched[s].told)
  <2>1. o \in Objects
    BY <1>a, FreshObjects DEF Objects
  <2>2. sched' = [sched EXCEPT ![s] = o]
    BY <1>12 DEF Unwound
  <2>3. o.at = "ended"
    BY <1>a, FreshFields DEF Objects
  <2> HIDE DEF o
  <2> QED
    BY <1>12, <1>a, <1>b, <1>c, <2>1, <2>2, <2>3, OneMoves
       DEF Unwound, Ended, Locked
<1>13. CASE StartDaemon(s)
  <2> DEFINE o == Fresh
  <2>1. o \in Objects
    BY FreshObjects
  <2>2. sched' = [sched EXCEPT ![s] = o]
    BY <1>13 DEF StartDaemon, Fault
  <2>3. o.at = "locking"
    BY FreshFields
  <2> HIDE DEF o
  <2> QED
    BY <1>13, <1>a, <1>b, <1>c, <2>1, <2>2, <2>3, FaultCounts, OneMoves
       DEF StartDaemon, Ended, Locked
<1>14. CASE DaemonDies(s)
  <2> DEFINE o == Over
  <2>1. o \in Objects
    BY FreshObjects
  <2>2. sched' = [sched EXCEPT ![s] = o]
    BY <1>14 DEF DaemonDies, Fault
  <2>3. o.at = "ended"
    BY FreshFields
  <2> HIDE DEF o
  <2> QED
    BY <1>14, <1>a, <1>b, <1>c, <2>1, <2>2, <2>3, FaultCounts, OneMoves
       DEF DaemonDies, Ended, Locked
<1>15. CASE StopDaemon(s)
  <2> DEFINE o == [sched[s] EXCEPT !.stop = TRUE]
  <2>1. o \in Objects
    BY <1>a, NoTries DEF Objects
  <2>2. sched' = [sched EXCEPT ![s] = o]
    BY <1>15 DEF StopDaemon, Signalled
  <2>3. o.at = sched[s].at /\ o.stop
    BY <1>a DEF Objects
  <2> HIDE DEF o
  <2> QED
    BY <1>15, <1>a, <1>b, <1>c, <2>1, <2>2, <2>3, OneMoves
       DEF StopDaemon, Signalled, Ended, Locked
<1>16. CASE Conflict(s)
  <2>1. CASE sched[s].tries + 1 < Attempts
    <3> DEFINE o == [sched[s] EXCEPT !.tries = sched[s].tries + 1]
    <3>1. sched[s].tries + 1 \in Tries
      BY <1>a, <2>1, OwnerAssumption DEF Objects, Tries
    <3>2. o \in Objects /\ o.at = sched[s].at /\ o.stop = sched[s].stop
      BY <1>a, <3>1 DEF Objects
    <3>3. sched' = [sched EXCEPT ![s] = o]
      BY <1>16, <2>1 DEF Conflict
    <3> HIDE DEF o
    <3> QED
      BY <1>16, <1>a, <1>b, <1>c, <3>2, <3>3, OneMoves DEF Conflict, Ended, Locked
  <2>2. CASE ~(sched[s].tries + 1 < Attempts)
    <3> DEFINE o == EndsWith("lock_error")
    <3>1. o \in Objects /\ o.at = "ended"
      BY FreshObjects, FreshFields
    <3>2. sched' = [sched EXCEPT ![s] = o]
      BY <1>16, <2>2 DEF Conflict
    <3> HIDE DEF o
    <3> QED
      BY <1>16, <1>a, <1>b, <1>c, <3>1, <3>2, OneMoves DEF Conflict, Ended, Locked
  <2> QED
    BY <2>1, <2>2
<1>17. CASE Bind(s)
  <2>1. CASE Answers
    <3> DEFINE o == [sched[s] EXCEPT !.at = "leaving", !.told = "unexpected_error"]
    <3>1. o \in Objects /\ o.at = "leaving" /\ o.stop = sched[s].stop
      BY <1>a DEF Objects
    <3>2. sched' = [sched EXCEPT ![s] = o]
      BY <1>17, <1>a, <2>1 DEF Bind, Objects
    <3> HIDE DEF o
    <3> QED
      BY <1>17, <1>a, <1>b, <1>c, <2>1, <3>1, <3>2, OneMoves DEF Bind, Ended, Locked
  <2>2. CASE ~Answers
    <3> DEFINE o == [sched[s] EXCEPT !.at = "loop", !.told = "running"]
    <3>1. o \in Objects /\ o.at = "loop" /\ o.stop = sched[s].stop
      BY <1>a DEF Objects
    <3>2. sched' = [sched EXCEPT ![s] = o]
      BY <1>17, <2>2 DEF Bind
    <3> HIDE DEF o
    <3> QED
      BY <1>17, <1>a, <1>b, <1>c, <2>2, <3>1, <3>2, OneMoves DEF Bind, Ended, Locked
  <2> QED
    BY <2>1, <2>2
<1>18. CASE Post(s)
  <2>1. CASE HasEvent(s)
    <3> DEFINE o == [sched[s] EXCEPT !.event = TRUE]
    <3>1. o \in Objects /\ o.at = sched[s].at /\ o.stop = sched[s].stop
      BY <1>a DEF Objects
    <3>2. sched' = [sched EXCEPT ![s] = o]
      BY <1>18, <2>1 DEF Post
    <3> HIDE DEF o
    <3> QED
      BY <1>18, <1>a, <1>b, <1>c, <3>1, <3>2, OneMoves DEF Post, Ended, Locked
  <2>2. CASE ~HasEvent(s)
    <3> DEFINE o == sched[s]
    <3>1. sched' = [sched EXCEPT ![s] = o]
      BY <1>18, <1>a, <2>2 DEF Post
    <3>2. o \in Objects /\ o.at = sched[s].at /\ o.stop = sched[s].stop
      BY <1>a
    <3> HIDE DEF o
    <3> QED
      BY <1>18, <1>a, <1>b, <1>c, <3>1, <3>2, OneMoves DEF Post, Ended, Locked
  <2> QED
    BY <2>1, <2>2
<1> QED
  BY <1>1, <1>2, <1>3, <1>4, <1>5, <1>6, <1>7, <1>8, <1>9, <1>10, <1>11, <1>12, <1>13,
     <1>14, <1>15, <1>16, <1>17, <1>18 DEF Hosts

-----------------------------------------------------------------------------
(* Steps of the owner, of stop() and of the readers of the status.          *)

LEMMA QuietKeepsHosts ==
    ASSUME HostsInv,
           \/ Boot \/ OwnerEnds \/ CannotStart \/ Joined \/ JoinTimesOut
           \/ AskStop \/ OwnerJoined \/ ThreadJoined \/ ThreadJoinTimesOut
           \/ ProbeTakes \/ ProbeLeaves
    PROVE  HostsInv'
<1> USE OwnerAssumption DEF HostsInv, TypeOK, Ended, Schedulers
<1>1. CASE Boot
  BY <1>1 DEF Boot, LockInv, OrphanInv, HandsInv, StopInv
<1>2. CASE OwnerEnds
  BY <1>2 DEF OwnerEnds, LockInv, OrphanInv, HandsInv, StopInv
<1>3. CASE CannotStart
  BY <1>3, FaultCounts DEF CannotStart, NothingRuns, LockInv, OrphanInv, HandsInv, StopInv
<1>4. CASE Joined
  BY <1>4 DEF Joined, LockInv, OrphanInv, HandsInv, StopInv
<1>5. CASE JoinTimesOut
  BY <1>5 DEF JoinTimesOut, LockInv, OrphanInv, HandsInv, StopInv
<1>6. CASE AskStop
  BY <1>6 DEF AskStop, StopsAt, LockInv, OrphanInv, HandsInv, StopInv
<1>7. CASE OwnerJoined
  BY <1>7 DEF OwnerJoined, StopsAt, LockInv, OrphanInv, HandsInv, StopInv
<1>8. CASE ThreadJoined
  BY <1>8 DEF ThreadJoined, NothingRuns, StopsAt, LockInv, OrphanInv, HandsInv, StopInv
<1>9. CASE ThreadJoinTimesOut
  BY <1>9 DEF ThreadJoinTimesOut, NothingRuns, StopsAt, LockInv, OrphanInv, HandsInv, StopInv
<1>10. CASE ProbeTakes
  BY <1>10, FaultCounts DEF ProbeTakes, ownership, Locked, LockInv, OrphanInv, HandsInv, StopInv
<1>11. CASE ProbeLeaves
  BY <1>11 DEF ProbeLeaves, ownership, Locked, LockInv, OrphanInv, HandsInv, StopInv
<1> QED
  BY <1>1, <1>2, <1>3, <1>4, <1>5, <1>6, <1>7, <1>8, <1>9, <1>10, <1>11

\* A new scheduler takes the place of one that has ended.
LEMMA StartKeepsHosts == ASSUME HostsInv, NEW s \in Threads, Start(s) PROVE HostsInv'
<1> USE OwnerAssumption DEF HostsInv
<1>1. s \in Schedulers /\ TypeOK /\ sched' = [sched EXCEPT ![s] = Fresh]
  BY DEF Start, Schedulers
<1>2. /\ sched' \in [Schedulers -> Objects]
      /\ sched'[s] = Fresh
      /\ \A t \in Schedulers \ {s} : sched'[t] = sched[t]
  BY <1>1, FreshObjects, OneChanges
<1>3. /\ owner.at = "look" /\ ~stopping /\ Ended(s) /\ s # stopper.first
      /\ NothingRuns
      /\ published' = Nobody /\ owner' = [at |-> "waiting", mine |-> s]
      /\ gaveUp' = gaveUp \ {s}
      /\ UNCHANGED <<stopper, stopping, posting, lock, socket, faults>>
  BY DEF Start, Free
<1>4. TypeOK'
  BY <1>2, <1>3 DEF TypeOK
<1>5. LockInv'
  BY <1>2, <1>3, FreshFields DEF LockInv, Locked
<1>6. OrphanInv'
  BY <1>1, <1>2, <1>3 DEF OrphanInv, NothingRuns, Ended, Schedulers
<1>7. HandsInv'
  BY <1>1, <1>2, <1>3 DEF HandsInv, NothingRuns, Ended, Schedulers
<1>8. StopInv'
  BY <1>1, <1>2, <1>3 DEF StopInv, TypeOK, Ended, Schedulers
<1> QED
  BY <1>4, <1>5, <1>6, <1>7, <1>8

LEMMA PublishKeepsHosts == ASSUME HostsInv, Publish PROVE HostsInv'
<1> USE OwnerAssumption DEF HostsInv
<1> DEFINE m == owner.mine
           o == [sched[m] EXCEPT !.told = "nothing"]
<1>1. /\ owner.at = "waiting" /\ ~stopping /\ published = Nobody
      /\ m \in Threads /\ m \in Schedulers /\ m # Nobody
      /\ published' = m /\ owner' = [at |-> "look", mine |-> Nobody]
      /\ UNCHANGED <<stopper, stopping, gaveUp, posting, lock, socket, faults>>
  BY DEF Publish, OrphanInv, Schedulers
<1>2. TypeOK /\ sched \in [Schedulers -> Objects] /\ sched[m] \in Objects
  BY <1>1 DEF TypeOK
<1>3. o \in Objects /\ o.at = sched[m].at /\ o.stop = sched[m].stop
  BY <1>2 DEF Objects
<1>4. sched' = [sched EXCEPT ![m] = o]
  BY DEF Publish
<1> HIDE DEF o, m
<1>5. /\ sched' \in [Schedulers -> Objects]
      /\ \A t \in Schedulers : sched'[t].at = sched[t].at /\ sched'[t].stop = sched[t].stop
  BY <1>1, <1>2, <1>3, <1>4, OneChanges
<1>6. TypeOK'
  BY <1>1, <1>2, <1>5 DEF TypeOK
<1>7. LockInv'
  BY <1>1, <1>5 DEF LockInv
<1>8. OrphanInv' /\ HandsInv'
  BY <1>1, <1>5 DEF OrphanInv, HandsInv, Ended, Schedulers, m
<1>9. StopInv'
  BY <1>1, <1>2, <1>5 DEF StopInv, TypeOK, Ended, Schedulers
<1> QED
  BY <1>6, <1>7, <1>8, <1>9

\* The owner tells its scheduler to stop and waits for it.
LEMMA DismissKeepsHosts ==
    ASSUME HostsInv, owner.at = "waiting", Dismiss, faults' \in 0 .. MaxFaults
    PROVE  HostsInv'
<1> USE OwnerAssumption DEF HostsInv
<1> DEFINE m == owner.mine
           o == [sched[m] EXCEPT !.stop = TRUE, !.told = "nothing"]
<1>1. /\ published = Nobody /\ m \in Threads /\ m \in Schedulers
      /\ owner' = [owner EXCEPT !.at = "joining"]
      /\ posting' = posting \cup {m}
      /\ UNCHANGED <<published, stopper, stopping, gaveUp, lock, socket>>
  BY DEF Dismiss, OrphanInv, Schedulers
<1>2. TypeOK /\ sched \in [Schedulers -> Objects] /\ sched[m] \in Objects
  BY <1>1 DEF TypeOK
<1>3. o \in Objects /\ o.at = sched[m].at /\ o.stop
  BY <1>2 DEF Objects
<1>4. sched' = [sched EXCEPT ![m] = o]
  BY DEF Dismiss
<1>5. owner'.at = "joining" /\ owner'.mine = m
  BY <1>1, <1>2 DEF TypeOK
<1> HIDE DEF o, m
<1>6. /\ sched' \in [Schedulers -> Objects]
      /\ sched'[m].at = sched[m].at /\ sched'[m].stop
      /\ \A t \in Schedulers \ {m} : sched'[t] = sched[t]
  BY <1>1, <1>2, <1>3, <1>4, OneChanges
<1>7. TypeOK'
  BY <1>1, <1>2, <1>5, <1>6 DEF TypeOK
<1>8. LockInv'
  BY <1>1, <1>6 DEF LockInv
<1>9. OrphanInv'
  BY <1>1, <1>5, <1>6 DEF OrphanInv, Ended, Schedulers, m
<1>10. HandsInv'
  BY <1>1, <1>5, <1>6 DEF HandsInv, Ended, Schedulers, m
<1>11. StopInv'
  BY <1>1, <1>2, <1>5, <1>6 DEF StopInv, TypeOK, Ended, Schedulers
<1> QED
  BY <1>7, <1>8, <1>9, <1>10, <1>11

LEMMA OwnsKeepsHosts == ASSUME HostsInv, Owns PROVE HostsInv'
<1>1. CASE Withdraw
  BY <1>1, DismissKeepsHosts DEF Withdraw, HostsInv, TypeOK
<1>2. CASE StartFailed
  BY <1>2, DismissKeepsHosts DEF StartFailed, HostsInv, TypeOK
<1>3. CASE StartTimesOut
  BY <1>3, DismissKeepsHosts, FaultCounts DEF StartTimesOut, HostsInv, TypeOK
<1> QED
  BY <1>1, <1>2, <1>3, StartKeepsHosts, PublishKeepsHosts, QuietKeepsHosts DEF Owns

\* stop() signals what it sees published.
LEMMA StopOnceKeepsHosts ==
    ASSUME HostsInv, StopFirst \/ StopSecond PROVE HostsInv'
<1> USE OwnerAssumption DEF HostsInv
<1>1. PICK to \in {"owner", "thread"} :
         /\ to = "owner" => StopOnce("first", "owner")
         /\ to = "thread" => StopOnce("second", "thread")
  BY DEF StopFirst, StopSecond
<1>2. /\ TypeOK /\ sched \in [Schedulers -> Objects]
      /\ to = "owner" => stopper.at = "first"
      /\ to = "thread" => stopper.at = "second"
      /\ UNCHANGED <<owner, published, stopping, gaveUp, lock, socket, faults>>
  BY <1>1 DEF StopOnce, TypeOK
<1>3. CASE published \in {Nobody, stopper.first}
  <2>1. stopper' = [stopper EXCEPT !.at = to] /\ UNCHANGED <<sched, posting>>
    BY <1>1, <1>3 DEF StopOnce
  <2>2. TypeOK'
    BY <1>2, <2>1 DEF TypeOK
  <2>3. LockInv' /\ OrphanInv' /\ HandsInv'
    BY <1>2, <2>1 DEF LockInv, OrphanInv, HandsInv, Ended
  <2>4. StopInv'
    BY <1>2, <1>3, <2>1 DEF StopInv, TypeOK, Ended
  <2> QED
    BY <2>2, <2>3, <2>4
<1>4. CASE published \notin {Nobody, stopper.first}
  <2> DEFINE o == [sched[published] EXCEPT !.stop = TRUE]
  <2>1. /\ stopper' = [at |-> to, first |-> published]
        /\ sched' = [sched EXCEPT ![published] = o]
        /\ posting' = posting \cup {published}
    BY <1>1, <1>4 DEF StopOnce, Signalled
  <2>2. published \in Threads /\ published \in Schedulers /\ published # Nobody
    BY <1>2, <1>4 DEF TypeOK, Schedulers
  <2>3. o \in Objects /\ o.at = sched[published].at /\ o.stop
    BY <1>2, <2>2 DEF Objects
  <2> HIDE DEF o
  <2>4. /\ sched' \in [Schedulers -> Objects]
        /\ sched'[published].at = sched[published].at /\ sched'[published].stop
        /\ \A t \in Schedulers \ {published} : sched'[t] = sched[t]
    BY <1>2, <2>1, <2>2, <2>3, OneChanges
  <2>5. TypeOK'
    BY <1>2, <2>1, <2>2, <2>4 DEF TypeOK
  <2>6. LockInv'
    BY <1>2, <2>2, <2>4 DEF LockInv
  <2>7. OrphanInv' /\ HandsInv'
    BY <1>2, <2>2, <2>4 DEF OrphanInv, HandsInv, Ended, Schedulers
  <2>8. StopInv'
    BY <1>2, <2>1, <2>2, <2>4 DEF StopInv, TypeOK, Ended
  <2> QED
    BY <2>5, <2>6, <2>7, <2>8
<1> QED
  BY <1>3, <1>4

LEMMA StopsKeepsHosts == ASSUME HostsInv, Stops PROVE HostsInv'
  BY QuietKeepsHosts, StopOnceKeepsHosts DEF Stops

\* The end of the web process leaves nothing of its threads.
LEMMA ProcessGoneKeepsHosts ==
    ASSUME HostsInv, ProcessGone, faults' \in 0 .. MaxFaults
    PROVE  HostsInv'
<1> USE OwnerAssumption DEF HostsInv
<1>1. /\ sched' \in [Schedulers -> Objects]
      /\ \A t \in Threads : sched'[t].at = "ended"
      /\ \A t \in Schedulers \ Threads : sched'[t] = sched[t]
  BY FreshObjects, FreshFields DEF ProcessGone, TypeOK, Schedulers
<1>2. TypeOK'
  BY <1>1 DEF ProcessGone, TypeOK, Schedulers
<1>3. LockInv'
  BY <1>1 DEF ProcessGone, LockInv, Locked
<1>4. OrphanInv' /\ HandsInv' /\ StopInv'
  BY <1>1 DEF ProcessGone, OrphanInv, HandsInv, StopInv, Ended
<1> QED
  BY <1>2, <1>3, <1>4

LEMMA WebProcessEndsKeepsHosts == ASSUME HostsInv, Exit \/ Crash PROVE HostsInv'
  BY ProcessGoneKeepsHosts, FaultCounts DEF Exit, Crash, HostsInv, TypeOK

LEMMA InitHosts == ASSUME HostsInit PROVE HostsInv
<1> USE OwnerAssumption, FreshObjects, FreshFields
<1>1. TypeOK
  BY DEF HostsInit, TypeOK
<1>2. \A s \in Schedulers : sched[s].at = "ended"
  BY DEF HostsInit
<1> QED
  BY <1>1, <1>2 DEF HostsInit, HostsInv, LockInv, Locked, OrphanInv, HandsInv, StopInv, Ended,
                    Schedulers

-----------------------------------------------------------------------------
(* Runs, rows and the request.                                              *)

\* A scheduler goes on serving, or cancelling what it has not finished.
Stays(s) ==
    /\ sched[s].at \in Serving => sched'[s].at \in Serving
    /\ sched[s].at = "unwinding" => sched'[s].at = "unwinding"

\* Steps of the hosts that leave the runs alone and take no host away from them.
LEMMA HostsLeaveRuns ==
    ASSUME RunsInv, UNCHANGED <<run, listing>>,
           row' \in [Runs -> {"none", "running", "done", "interrupted"}],
           \A r \in Runs : row'[r] = "none" <=> row[r] = "none",
           owner.at # "off" => owner'.at # "off",
           \A s \in Schedulers : Stays(s) \/ HeldBy(s) = {}
    PROVE  RunsInv'
<1> USE OwnerAssumption, ServiceAssumption DEF RunsInv
<1>1. RunsTypeOK'
  BY DEF RunsTypeOK
<1>2. ASSUME NEW r \in Runs, run[r].at \in Live, run[r].by \in Schedulers
      PROVE  Stays(run[r].by)
  BY <1>2 DEF HeldBy, Live
<1>3. \A r \in Runs : RunInv(r)'
  BY <1>2 DEF RunInv, InHistory, Stays
<1>4. ASSUME NEW r \in (listing.known \ listing.live)'
      PROVE  /\ row'[r] # "none"
             /\ run'[r].by = Gui => run'[r].at = "over"
             /\ listing'.reached /\ run'[r].at # "over" =>
                   run'[r].by \in Schedulers /\ sched'[run'[r].by].at = "unwinding"
  <2>1. r \in Runs /\ r \in listing.known \ listing.live
    BY <1>4 DEF RunsTypeOK
  <2>2. run[r].at # "none"
    BY <2>1 DEF ListingInv, RunInv, InHistory, Schedulers
  <2>3. run[r].at \in Live \cup {"over"}
    BY <2>1, <2>2 DEF RunsTypeOK, Live
  <2> QED
    BY <2>1, <2>3, <1>2 DEF ListingInv, Stays
<1>5. ListingInv'
  BY <1>4 DEF ListingInv
<1> QED
  BY <1>1, <1>3, <1>5

\* The steps of a scheduler but its end.
LEMMA SchedulerStays ==
    ASSUME HostsInv, NEW s \in Schedulers, Hosts(s) \/ SweepEnds(s)
    PROVE  UNCHANGED owner /\ \A t \in Schedulers : Stays(t)
<1> USE DEF Stays, Serving, ownership
<1>1. sched \in [Schedulers -> Objects]
  BY DEF HostsInv, TypeOK
<1>2. CASE TakeLock(s)
  BY <1>1, <1>2 DEF TakeLock, Objects
<1>3. CASE Conflict(s)
  BY <1>1, <1>3 DEF Conflict, Objects
<1>4. CASE LockBreaks(s)
  BY <1>1, <1>4 DEF LockBreaks
<1>5. CASE CreateEvent(s)
  BY <1>1, <1>5 DEF CreateEvent, Moves, Objects
<1>6. CASE ReadFlag(s)
  BY <1>1, <1>6 DEF ReadFlag, Objects
<1>7. CASE SweepEnds(s)
  BY <1>1, <1>7 DEF SweepEnds, Moves, Objects
<1>8. CASE Bind(s)
  BY <1>1, <1>8 DEF Bind, Objects
<1>9. CASE BindFails(s)
  BY <1>1, <1>9 DEF BindFails, Objects
<1>10. CASE LeaveLoop(s)
  BY <1>1, <1>10 DEF LeaveLoop, Moves, Objects
<1>11. CASE LoopBreaks(s)
  BY <1>1, <1>11 DEF LoopBreaks, Moves, Objects
<1>12. CASE ShutdownEnds(s)
  BY <1>1, <1>12 DEF ShutdownEnds, Moves, Objects
<1>13. CASE Close(s)
  BY <1>1, <1>13 DEF Close, Moves, Objects
<1>14. CASE Release(s)
  BY <1>1, <1>14 DEF Release, Moves, Objects
<1>15. CASE StartDaemon(s)
  BY <1>1, <1>15 DEF StartDaemon, Ended
<1>16. CASE StopDaemon(s)
  BY <1>1, <1>16 DEF StopDaemon, Signalled, Objects
<1>17. CASE Post(s)
  BY <1>1, <1>17 DEF Post, Objects
<1> QED
  BY <1>2, <1>3, <1>4, <1>5, <1>6, <1>7, <1>8, <1>9, <1>10, <1>11, <1>12, <1>13, <1>14, <1>15,
     <1>16, <1>17 DEF Hosts

\* The owner, stop() and the readers of the status move no scheduler but a dead one.
LEMMA OwnerStays ==
    ASSUME HostsInv, Owns \/ Stops \/ ProbeTakes \/ ProbeLeaves
    PROVE  /\ owner.at # "off" => owner'.at # "off"
           /\ \A t \in Schedulers : Stays(t)
<1> USE DEF Stays, Serving
<1>1. sched \in [Schedulers -> Objects]
  BY DEF HostsInv, TypeOK
<1>2. CASE \E s \in Threads : Start(s)
  BY <1>1, <1>2 DEF Start, Free, Ended
<1>3. CASE Publish
  <2>1. owner'.at = "look"
    BY <1>3 DEF Publish
  <2> QED
    BY <1>1, <1>3, <2>1 DEF Publish, Objects
<1>4. CASE Withdraw \/ StartFailed \/ StartTimesOut
  <2>1. Dismiss
    BY <1>4 DEF Withdraw, StartFailed, StartTimesOut
  <2>2. owner'.at = "joining"
    BY <2>1 DEF Dismiss, HostsInv, TypeOK
  <2> QED
    BY <1>1, <2>1, <2>2 DEF Dismiss, Objects
<1>5. CASE StopFirst \/ StopSecond
  <2>1. UNCHANGED owner /\ (UNCHANGED sched \/ sched' = Signalled(published))
    BY <1>5 DEF StopFirst, StopSecond, StopOnce
  <2> QED
    BY <1>1, <2>1 DEF Signalled, Objects
<1>6. CASE OwnerEnds \/ CannotStart \/ Joined \/ JoinTimesOut
  <2>1. UNCHANGED sched /\ (owner.at # "off" => owner'.at # "off")
    BY <1>6 DEF OwnerEnds, CannotStart, Joined, JoinTimesOut, HostsInv, TypeOK
  <2> QED
    BY <2>1
<1>7. CASE AskStop \/ OwnerJoined \/ ThreadJoined \/ ThreadJoinTimesOut \/ ProbeTakes \/ ProbeLeaves
  BY <1>7 DEF AskStop, OwnerJoined, ThreadJoined, ThreadJoinTimesOut, ProbeTakes, ProbeLeaves,
              ownership
<1> QED
  BY <1>2, <1>3, <1>4, <1>5, <1>6, <1>7 DEF Owns, Stops

LEMMA SweepKeepsRuns ==
    ASSUME HostsInv, RunsInv, NEW s \in Schedulers, Sweep(s) PROVE RunsInv'
<1>1. UNCHANGED owner /\ \A t \in Schedulers : Stays(t)
  BY SchedulerStays DEF Sweep
<1>2. /\ row' \in [Runs -> {"none", "running", "done", "interrupted"}]
      /\ \A r \in Runs : row'[r] = "none" <=> row[r] = "none"
  BY DEF Sweep, Interrupted, RunsInv, RunsTypeOK
<1> QED
  BY <1>1, <1>2, HostsLeaveRuns DEF Sweep

LEMMA BootKeepsRuns == ASSUME RunsInv, BootServices PROVE RunsInv'
<1>1. owner'.at # "off" /\ \A t \in Schedulers : Stays(t)
  BY DEF BootServices, Boot, Stays
<1>2. /\ row' \in [Runs -> {"none", "running", "done", "interrupted"}]
      /\ \A r \in Runs : row'[r] = "none" <=> row[r] = "none"
  BY DEF BootServices, Interrupted, RunsInv, RunsTypeOK
<1> QED
  BY <1>1, <1>2, HostsLeaveRuns DEF BootServices

\* The loop of a scheduler ends when it holds no run.
LEMMA LoopEndsKeepsRuns ==
    ASSUME HostsInv, RunsInv, NEW s \in Schedulers, LoopEnds(s) PROVE RunsInv'
<1>1. UNCHANGED owner /\ \A t \in Schedulers \ {s} : Stays(t)
  BY DEF LoopEnds, Unwound, ownership, HostsInv, TypeOK, Stays
<1> QED
  BY <1>1, HostsLeaveRuns DEF LoopEnds, views, RunsInv, RunsTypeOK

\* A process that ends takes its runs with it.
LEMMA KilledKeepsTypes ==
    ASSUME RunsInv, NEW managers, Killed(managers)
    PROVE  /\ run' \in [Runs -> [at : {"none", "queued", "running", "recorded", "over"},
                                 by : Schedulers \cup {Gui, Nobody}]]
           /\ \A r \in Runs : /\ run'[r].by = run[r].by
                              /\ run[r].by \in managers => run'[r].at = "over"
                              /\ run[r].by \notin managers => run'[r] = run[r]
  BY DEF Killed, RunsInv, RunsTypeOK

LEMMA WebProcessEndsKeepsRuns ==
    ASSUME HostsInv, RunsInv, WebProcessEnds PROVE RunsInv'
<1> USE OwnerAssumption, ServiceAssumption DEF RunsInv
<1>1. /\ run' \in [Runs -> [at : {"none", "queued", "running", "recorded", "over"},
                            by : Schedulers \cup {Gui, Nobody}]]
      /\ \A r \in Runs : /\ run'[r].by = run[r].by
                         /\ run[r].by \in Threads \cup {Gui} => run'[r].at = "over"
                         /\ run[r].by \notin Threads \cup {Gui} => run'[r] = run[r]
  BY KilledKeepsTypes DEF WebProcessEnds
<1>2. \A t \in Schedulers \ Threads : sched'[t] = sched[t]
  BY DEF WebProcessEnds, Exit, Crash, ProcessGone, HostsInv, TypeOK, Schedulers
<1>3. RunsTypeOK' /\ (listing'.at = "no" => listing' = listing)
  BY <1>1 DEF WebProcessEnds, RunsTypeOK, Request
<1>4. \A r \in Runs : RunInv(r)'
  BY <1>1, <1>2 DEF WebProcessEnds, RunInv, InHistory, Live, RunsTypeOK
<1>5. ListingInv'
  <2>1. CASE listing.at = "no"
    BY <1>1, <1>2, <2>1 DEF WebProcessEnds, ListingInv, RunsTypeOK, RunInv, InHistory
  <2>2. CASE listing.at # "no"
    BY <2>2 DEF WebProcessEnds, ListingInv, Request
  <2> QED
    BY <2>1, <2>2
<1> QED
  BY <1>3, <1>4, <1>5

LEMMA DaemonEndsKeepsRuns ==
    ASSUME HostsInv, RunsInv, NEW s \in Schedulers, DaemonEnds(s) PROVE RunsInv'
<1> USE OwnerAssumption, ServiceAssumption DEF RunsInv
<1>1. /\ run' \in [Runs -> [at : {"none", "queued", "running", "recorded", "over"},
                            by : Schedulers \cup {Gui, Nobody}]]
      /\ \A r \in Runs : /\ run'[r].by = run[r].by
                         /\ run[r].by = s => run'[r].at = "over"
                         /\ run[r].by # s => run'[r] = run[r]
  BY KilledKeepsTypes DEF DaemonEnds
<1>2. UNCHANGED owner /\ \A t \in Schedulers \ {s} : sched'[t] = sched[t]
  BY DEF DaemonEnds, DaemonDies, ownership, HostsInv, TypeOK
<1>3. RunsTypeOK'
  BY <1>1 DEF DaemonEnds, RunsTypeOK
<1>4. \A r \in Runs : RunInv(r)'
  BY <1>1, <1>2 DEF DaemonEnds, RunInv, InHistory, Live, RunsTypeOK
<1>5. ListingInv'
  BY <1>1, <1>2 DEF DaemonEnds, ListingInv, RunsTypeOK
<1> QED
  BY <1>3, <1>4, <1>5

\* A run moves on in its manager, or starts there.
LEMMA RunStepKeepsRuns ==
    ASSUME HostsInv, RunsInv, NEW r \in Runs, RunStep(r) PROVE RunsInv'
<1> USE OwnerAssumption, ServiceAssumption DEF RunsInv
<1>1. UNCHANGED <<hosts, listing>> /\ UNCHANGED <<owner, sched>>
  BY DEF RunStep, Submit, Begin, Record, Forget, CutOff, hosts, ownership
<1>2. ASSUME NEW m \in Schedulers \cup {Gui}, Submit(r, m)
      PROVE  RunsInv'
  <2>1. /\ run[r].at = "none" /\ run' = [run EXCEPT ![r] = [at |-> "queued", by |-> m]]
        /\ UNCHANGED row
        /\ r \in ManualRuns => m = Gui /\ owner.at # "off"
        /\ r \in ScheduledRuns => m \in Schedulers /\ sched[m].at = "loop"
    BY <1>2 DEF Submit
  <2>2. row[r] = "none"
    BY <2>1 DEF RunInv, InHistory, Schedulers
  <2>3. RunsTypeOK'
    BY <1>1, <2>1 DEF RunsTypeOK
  <2>4. \A q \in Runs : RunInv(q)'
    BY <1>1, <2>1, <2>2 DEF RunInv, InHistory, Live, RunsTypeOK, Serving, Runs
  <2>5. ListingInv'
    BY <1>1, <2>1, <2>2 DEF ListingInv, RunsTypeOK
  <2> QED
    BY <2>3, <2>4, <2>5
<1>3. CASE Begin(r) \/ Record(r) \/ Forget(r) \/ CutOff(r)
  <2>1. PICK at \in {"running", "recorded", "over"} : run' = [run EXCEPT ![r].at = at]
    BY <1>3 DEF Begin, Record, Forget, CutOff
  <2>2. /\ run[r].at \in Live
        /\ row' \in [Runs -> {"none", "running", "done", "interrupted"}]
        /\ \A q \in Runs : row'[q] = row[q] \/ (q = r /\ row'[q] # "none" /\ InHistory(q))
    BY <1>3 DEF Begin, Record, Forget, CutOff, RunsTypeOK, Live
  <2>3. /\ run'[r].at = at /\ run'[r].by = run[r].by
        /\ \A q \in Runs \ {r} : run'[q] = run[q]
    BY <2>1 DEF RunsTypeOK
  <2>4. RunsTypeOK'
    BY ZenonT(60), <1>1, <2>1, <2>2 DEF RunsTypeOK
  <2>5. \A q \in Runs : RunInv(q)'
    BY <1>1, <2>2, <2>3 DEF RunInv, InHistory, Live
  <2>6. ListingInv'
    BY <1>1, <2>2, <2>3 DEF ListingInv, RunsTypeOK, Live
  <2> QED
    BY <2>4, <2>5, <2>6
<1> QED
  BY <1>2, <1>3 DEF RunStep

\* Whoever works behind the socket holds the lock, so a scheduler with runs that it is
\* not cancelling is the one behind the socket.
LEMMA LiveRunsAreBehindTheSocket ==
    ASSUME HostsInv, RunsInv, Answers, NEW r \in Runs, run[r].at \in Live,
           run[r].by \in Schedulers, sched[run[r].by].at # "unwinding"
    PROVE  r \in HeldBy(socket)
<1>1. socket \in Schedulers /\ lock = socket
  BY DEF Answers, Listening, HostsInv, TypeOK, LockInv, Locked
<1>2. lock = run[r].by
  BY DEF HostsInv, LockInv, Locked, RunsInv, RunInv, Serving
<1> QED
  BY <1>1, <1>2 DEF HeldBy, Live

\* What a request learns: first the own manager, then the one behind the socket.
LEMMA ListsKeepRuns ==
    ASSUME HostsInv, RunsInv, Lists PROVE RunsInv'
<1> USE OwnerAssumption, ServiceAssumption DEF RunsInv
<1>1. UNCHANGED <<owner, sched, run, row>>
  BY DEF Lists, ListOwn, LookOwn, ListScheduler, SchedulerUnavailable, ListHistory, hosts, ownership
<1>2. \A r \in Runs : RunInv(r)'
  BY <1>1 DEF RunInv, InHistory
<1> SUFFICES RunsTypeOK' /\ ListingInv'
  BY <1>2
<1>3. ASSUME NEW what \in {"list", "active", "look"}, NEW about \in SUBSET Runs, Asks(what, about)
      PROVE  RunsTypeOK' /\ ListingInv'
  <2>1. RunsTypeOK'
    BY <1>1, <1>3 DEF RunsTypeOK, Asks, Known, HeldBy
  <2>2. ASSUME NEW r \in Runs, row[r] # "none", r \notin HeldBy(Gui), run[r].by = Gui
        PROVE  run[r].at = "over"
    BY <2>2 DEF HeldBy, RunInv
  <2>3. ListingInv'
    BY <1>1, <1>3, <2>2 DEF ListingInv, Asks, Known
  <2> QED
    BY <2>1, <2>3
<1>4. ASSUME listing' = Request("answered")
      PROVE  RunsTypeOK' /\ ListingInv'
  BY <1>1, <1>4 DEF RunsTypeOK, ListingInv, Request
<1>5. CASE ListOwn
  BY <1>3, <1>5 DEF ListOwn
<1>6. CASE \E r \in Runs : LookOwn(r)
  <2>1. PICK r \in Runs : LookOwn(r)
    BY <1>6
  <2> QED
    BY <1>3, <1>4, <2>1 DEF LookOwn
<1>7. CASE ListScheduler
  <2> DEFINE live == listing.live \cup HeldBy(socket)
  <2>1. CASE listing' = Request("answered")
    BY <1>4, <2>1
  <2>2. CASE listing' = [listing EXCEPT !.at = "history", !.reached = TRUE, !.live = live]
    <3>1. /\ listing'.at = "history" /\ listing'.reached /\ listing'.live = live
          /\ listing'.known = listing.known /\ RunsTypeOK'
      BY <1>1, <2>2 DEF RunsTypeOK, HeldBy
    <3>2. ASSUME NEW r \in listing.known \ live, run[r].at # "over"
          PROVE  /\ row[r] # "none" /\ run[r].by # Gui
                 /\ run[r].by \in Schedulers /\ sched[run[r].by].at = "unwinding"
      <4>1. r \in Runs /\ r \in listing.known \ listing.live /\ r \notin HeldBy(socket)
        BY <3>2 DEF RunsTypeOK
      <4>2. row[r] # "none" /\ run[r].by # Gui
        BY <3>2, <4>1 DEF ListingInv
      <4>3. run[r].by \in Schedulers /\ run[r].at # "none"
        BY <4>1, <4>2 DEF RunInv, InHistory, Schedulers
      <4>4. run[r].at \in Live
        BY <3>2, <4>1, <4>3 DEF RunsTypeOK, Live
      <4> QED
        BY <1>7, <4>1, <4>2, <4>3, <4>4, LiveRunsAreBehindTheSocket DEF ListScheduler
    <3>3. ListingInv'
      BY <1>1, <3>1, <3>2 DEF ListingInv
    <3> QED
      BY <3>1, <3>3
  <2> QED
    BY <1>7, <2>1, <2>2 DEF ListScheduler
<1>8. CASE SchedulerUnavailable
  <2>1. CASE listing' = Request("answered")
    BY <1>4, <2>1
  <2>2. CASE listing' = [listing EXCEPT !.at = "history"]
    BY <1>1, <2>2 DEF RunsTypeOK, ListingInv
  <2> QED
    BY <1>8, <2>1, <2>2 DEF SchedulerUnavailable
<1>9. CASE ListHistory
  BY <1>4, <1>9 DEF ListHistory
<1> QED
  BY <1>5, <1>6, <1>7, <1>8, <1>9 DEF Lists

-----------------------------------------------------------------------------
(* The theorems.                                                            *)

LEMMA InitIInv == ASSUME Init PROVE IInv
<1>1. HostsInv
  BY InitHosts DEF Init
<1>2. RunsTypeOK
  BY DEF Init, RunsTypeOK, Request
<1>3. \A r \in Runs : RunInv(r)
  BY DEF Init, RunInv, Live
<1>4. ListingInv
  BY DEF Init, ListingInv, Request
<1> QED
  BY <1>1, <1>2, <1>3, <1>4 DEF IInv, RunsInv

LEMMA HostStepKeepsIInv == ASSUME IInv, HostStep PROVE IInv'
<1> USE DEF IInv
<1>1. ASSUME NEW s \in Schedulers, Hosts(s), UNCHANGED views
      PROVE  IInv'
  <2>1. row' \in [Runs -> {"none", "running", "done", "interrupted"}]
    BY <1>1 DEF views, RunsInv, RunsTypeOK
  <2> QED
    BY <1>1, <2>1, SchedulerKeepsHosts, SchedulerStays, HostsLeaveRuns DEF views
<1>2. ASSUME Owns \/ Stops \/ ProbeTakes \/ ProbeLeaves, UNCHANGED views
      PROVE  IInv'
  <2>1. row' \in [Runs -> {"none", "running", "done", "interrupted"}]
    BY <1>2 DEF views, RunsInv, RunsTypeOK
  <2>2. HostsInv'
    BY <1>2, OwnsKeepsHosts, StopsKeepsHosts, QuietKeepsHosts
  <2> QED
    BY <1>2, <2>1, <2>2, OwnerStays, HostsLeaveRuns DEF views
<1>3. ASSUME NEW s \in Schedulers, Sweep(s)
      PROVE  IInv'
  BY <1>3, SchedulerKeepsHosts, SweepKeepsRuns DEF Sweep
<1>4. ASSUME NEW s \in Schedulers, LoopEnds(s)
      PROVE  IInv'
  BY <1>4, SchedulerKeepsHosts, LoopEndsKeepsRuns DEF LoopEnds
<1>5. ASSUME NEW s \in Schedulers, DaemonEnds(s)
      PROVE  IInv'
  BY <1>5, SchedulerKeepsHosts, DaemonEndsKeepsRuns DEF DaemonEnds
<1>6. CASE BootServices
  BY <1>6, QuietKeepsHosts, BootKeepsRuns DEF BootServices
<1>7. CASE WebProcessEnds
  BY <1>7, WebProcessEndsKeepsHosts, WebProcessEndsKeepsRuns DEF WebProcessEnds
<1> QED
  BY <1>1, <1>2, <1>3, <1>4, <1>5, <1>6, <1>7 DEF HostStep

LEMMA StutterKeepsIInv == ASSUME IInv, UNCHANGED vars PROVE IInv'
  BY DEF IInv, HostsInv, TypeOK, LockInv, OrphanInv, HandsInv, StopInv, Ended, RunsInv, RunsTypeOK,
         RunInv, InHistory, ListingInv, vars, hosts, ownership

\* The lock, the hands of the owner and what the request has seen agree in every state.
THEOREM InductiveInvariant == Spec => []IInv
<1>1. Init => IInv
  BY InitIInv
<1>2. IInv /\ [Next]_vars => IInv'
  <2> SUFFICES ASSUME IInv, [Next]_vars
               PROVE  IInv'
    OBVIOUS
  <2>1. CASE HostStep
    BY <2>1, HostStepKeepsIInv
  <2>2. CASE Lists
    <3>1. UNCHANGED hosts
      BY <2>2 DEF Lists, ListOwn, LookOwn, ListScheduler, SchedulerUnavailable, ListHistory
    <3>2. HostsInv'
      BY <3>1 DEF IInv, HostsInv, TypeOK, LockInv, OrphanInv, HandsInv, StopInv, Ended, hosts,
                  ownership
    <3> QED
      BY <2>2, <3>2, ListsKeepRuns DEF IInv
  <2>3. ASSUME NEW r \in Runs, RunStep(r)
        PROVE  IInv'
    <3>1. UNCHANGED hosts
      BY <2>3 DEF RunStep, Submit, Begin, Record, Forget, CutOff
    <3>2. HostsInv'
      BY <3>1 DEF IInv, HostsInv, TypeOK, LockInv, OrphanInv, HandsInv, StopInv, Ended, hosts,
                  ownership
    <3> QED
      BY <2>3, <3>2, RunStepKeepsRuns DEF IInv
  <2>4. CASE UNCHANGED vars
    BY <2>4, StutterKeepsIInv
  <2> QED
    BY <2>1, <2>2, <2>3, <2>4 DEF Next
<1> QED
  BY <1>1, <1>2, PTL DEF Spec

\* Hosts, runs, rows and requests keep their types.
THEOREM TypeCorrect == Spec => [](TypeOK /\ RunsTypeOK)
<1>1. IInv => TypeOK /\ RunsTypeOK
  BY DEF IInv, HostsInv, RunsInv
<1> QED
  BY <1>1, InductiveInvariant, PTL

\* One scheduler works at a time, in whatever process: between its start and its end
\* it alone holds the lock file (SchedulerLock).
OneScheduler ==
    \A s, t \in Schedulers : sched[s].at \in Locked /\ sched[t].at \in Locked => s = t

THEOREM OneSchedulerWorks == Spec => []OneScheduler
<1>1. IInv => OneScheduler
  BY DEF IInv, HostsInv, LockInv, OneScheduler
<1> QED
  BY <1>1, InductiveInvariant, PTL

\* A thread that runs and was not told to stop is published, or its owner waits for it.
THEOREM SchedulersHaveAnOwner == Spec => []NoOrphanScheduler
<1>1. IInv => NoOrphanScheduler
  BY DEF IInv, HostsInv, OrphanInv, NoOrphanScheduler, Ended
<1> QED
  BY <1>1, InductiveInvariant, PTL

\* The web process does not end under a scheduler that was not told to stop and given
\* its time (SchedulerOwnerManager.stop).
THEOREM ProcessExitIsClean == Spec => ExitIsClean
<1>1. ASSUME IInv, Exit, NEW s \in Threads
      PROVE  Ended(s) \/ (sched[s].stop /\ s \in gaveUp)
  <2>1. owner.at = "done" /\ (published = s => Ended(s) \/ sched[s].stop)
    BY <1>1, OwnerAssumption DEF Exit, IInv, HostsInv, StopInv, Schedulers
  <2>2. ~Ended(s) => s \in gaveUp
    BY <1>1, <2>1, OwnerAssumption DEF Exit, IInv, HostsInv, StopInv, HandsInv, Schedulers
  <2>3. ~Ended(s) /\ ~sched[s].stop => published = s
    BY <1>1, <2>1 DEF IInv, HostsInv, OrphanInv
  <2> QED
    BY <2>1, <2>2, <2>3
<1>2. IInv /\ [Next]_vars =>
        [Exit => \A s \in Threads : Ended(s) \/ (sched[s].stop /\ s \in gaveUp)]_hosts
  BY <1>1
<1> QED
  BY <1>2, InductiveInvariant, PTL DEF Spec, ExitIsClean

\* A starting scheduler closes no row of a run that is alive in another manager
\* (mark_active_runs_interrupted in CronScheduler and create_services).
THEOREM SweepIsSafe == Spec => SweepSparesLiveRuns
<1>1. ASSUME IInv, NEW s \in Schedulers, Sweep(s), s \in Threads, NEW r \in ScheduledRuns,
             row[r] = "running"
      PROVE  ~Alive(r)
  <2>1. SUFFICES ASSUME Alive(r) PROVE FALSE
    OBVIOUS
  <2>2. r \in Runs /\ RunInv(r) /\ run[r].at \in Live
    BY <1>1, <2>1 DEF IInv, RunsInv, Runs, Alive, Live
  <2>3. run[r].by \in Threads
    BY <1>1, <2>2, ServiceAssumption, OwnerAssumption DEF RunInv, InHistory, Schedulers
  <2>4. sched[run[r].by].at \in Locked /\ sched[run[r].by].at # "sweep"
    BY <2>1, <2>2, <2>3 DEF RunInv, Alive, Serving, Locked, Schedulers
  <2>5. lock = run[r].by /\ lock = s /\ sched[s].at = "sweep"
    BY <1>1, <2>3, <2>4
    DEF Sweep, SweepEnds, Moves, IInv, HostsInv, LockInv, Locked, Schedulers
  <2> QED
    BY <2>4, <2>5
<1>2. ASSUME IInv, BootServices, NEW r \in ManualRuns, row[r] = "running"
      PROVE  ~Alive(r)
  <2>1. r \in Runs /\ RunInv(r) /\ owner.at = "off"
    BY <1>2 DEF IInv, RunsInv, Runs, BootServices, Boot
  <2>2. run[r].by = Gui
    BY <1>2, <2>1, ServiceAssumption, OwnerAssumption DEF RunInv, InHistory, Schedulers
  <2> QED
    BY <2>1, <2>2 DEF RunInv, Alive, Live
<1>3. ASSUME IInv, Next, NEW r \in Runs, row[r] = "running", row'[r] = "interrupted"
      PROVE  ~Alive(r)
  <2>1. CASE \E s \in Schedulers : Sweep(s)
    BY <1>1, <1>3, <2>1 DEF Sweep, Interrupted
  <2>2. CASE BootServices
    BY <1>2, <1>3, <2>2 DEF BootServices, Interrupted
  <2>3. CASE UNCHANGED row
    BY <1>3, <2>3
  <2>4. CASE \E q \in Runs : Begin(q) \/ Record(q)
    BY <1>3, <2>4 DEF Begin, Record, IInv, RunsInv, RunsTypeOK
  <2> QED
    BY <1>3, <2>1, <2>2, <2>3, <2>4
    DEF Next, HostStep, LoopEnds, DaemonEnds, WebProcessEnds, views, Lists, ListOwn, LookOwn,
        ListScheduler, SchedulerUnavailable, ListHistory, RunStep, Submit, Forget, CutOff
<1>4. IInv /\ [Next]_vars =>
        [\A r \in Runs : row[r] = "running" /\ row'[r] = "interrupted" => ~Alive(r)]_vars
  BY <1>3
<1> QED
  BY <1>4, InductiveInvariant, PTL DEF Spec, SweepSparesLiveRuns

\* What a request shows is true, whatever happens while it waits
\* (RunService.list_runs, list_active_runs and get_run).
THEOREM ListingsAreTrue == Spec => ListingIsTrue
<1> DEFINE Rows   == listing.known \subseteq listing.live \cup FromHistory
           Told   == listing.reached => \A r \in Stale \cap listing.known : ~Alive(r)
           Active == \A r \in listing.known :
                        Alive(r) => r \in listing.live \cup HeldBy(socket)
<1>1. ASSUME IInv PROVE Rows /\ Told
  BY <1>1 DEF IInv, RunsInv, RunsTypeOK, ListingInv, FromHistory, Stale, Alive
<1>2. ASSUME IInv, Answers PROVE Active
  <2>1. SUFFICES ASSUME NEW r \in listing.known \ listing.live, Alive(r)
                 PROVE  r \in HeldBy(socket)
    OBVIOUS
  <2>2. r \in Runs /\ RunInv(r) /\ row[r] # "none" /\ run[r].at \in Live /\ run[r].by # Gui
    BY <1>2, <2>1 DEF IInv, RunsInv, RunsTypeOK, ListingInv, Alive, Live
  <2>3. run[r].by \in Schedulers /\ sched[run[r].by].at # "unwinding"
    BY <2>1, <2>2 DEF RunInv, InHistory, Schedulers, Alive
  <2> QED
    BY <1>2, <2>2, <2>3, LiveRunsAreBehindTheSocket DEF IInv
<1>3. IInv /\ [Next]_vars =>
        [/\ ListHistory => Rows /\ Told
         /\ ListScheduler /\ listing.what = "active" => Active]_vars
  BY <1>1, <1>2 DEF ListScheduler
<1> QED
  BY <1>3, InductiveInvariant, PTL DEF Spec, ListingIsTrue

=============================================================================
