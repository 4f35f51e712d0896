---------------------------- MODULE ResourceLocks ----------------------------
(***************************************************************************)
(* core/locking.py (ResourceLockManager) and core/job_runner.py            *)
(* (_run_locked, _acquire_with_retry): every operational run takes one     *)
(* non-blocking file lock per repository or rclone endpoint it works on,   *)
(* in the order of the resource ids, keeps all of them until its statistics*)
(* are collected, and gives them back in the opposite order.               *)
(*                                                                         *)
(* Runs compete from several event loops (GUI, scheduler thread, one-shot  *)
(* CLI processes).  Taking and releasing contain no await: inside one loop *)
(* they are never interrupted, between loops they interleave lock by lock. *)
(* The lock files are flock(2) locks: the kernel frees those of a process  *)
(* that dies.                                                              *)
(***************************************************************************)
EXTENDS Naturals, FiniteSets

CONSTANTS
    Runs,            \* runs, in whatever process they execute
    Loops,           \* event loops
    LoopOf,          \* the loop a run executes on
    Resources,       \* canonical resource ids, numbered in their sort order
    Needs,           \* what a run locks: for a workflow the union over its steps
    Attempts,        \* lock_retry_count + 1, or 1 without a lock_retry_delay
    SchedulerRuns,   \* runs wrapped by the scheduler's operation
    Unopenable,      \* resources whose lock file cannot be opened (OSError)
    Nobody           \* the holder of a free lock

ASSUME LocksAssumption ==
    /\ LoopOf \in [Runs -> Loops]
    /\ Resources \subseteq Nat
    /\ Needs \in [Runs -> SUBSET Resources]
    /\ Attempts \in [Runs -> Nat \ {0}]
    /\ SchedulerRuns \subseteq Runs
    /\ Unopenable \subseteq Resources
    /\ Nobody \notin Runs

VARIABLES
    holder,        \* the run that holds the lock file of a resource, or Nobody
    pc,            \* where a run stands
    attempt,       \* the loop variable of _acquire_with_retry
    entered,       \* operational_started
    result,        \* how the run leaves the block it is unwinding from
    cancellable,   \* RunRecord.cancellable
    pending        \* runs with a CancelledError still to be delivered

vars == <<holder, pc, attempt, entered, result, cancellable, pending>>

TypeOK ==
    /\ holder \in [Resources -> Runs \cup {Nobody}]
    /\ pc \in [Runs -> {"idle", "acquiring", "sleeping", "operation", "collecting",
                        "releasing", "ended", "crashed"}]
    /\ attempt \in [Runs -> Nat]
    /\ \A r \in Runs : attempt[r] <= Attempts[r]
    /\ entered \subseteq Runs
    /\ result \in [Runs -> {"none", "completed", "raised", "conflict", "oserror", "cancelled"}]
    /\ cancellable \subseteq Runs
    /\ pending \subseteq Runs

Init ==
    /\ holder = [x \in Resources |-> Nobody]
    /\ pc = [r \in Runs |-> "idle"]
    /\ attempt = [r \in Runs |-> 0]
    /\ entered = {}
    /\ result = [r \in Runs |-> "none"]
    /\ cancellable = Runs
    /\ pending = {}

-----------------------------------------------------------------------------

\* acquired, the list of the locks taken so far.
Held(r) == {x \in Resources : holder[x] = r}

\* Between two awaits: a loop that takes or releases locks runs nothing else.
Busy(loop) == \E r \in Runs : LoopOf[r] = loop /\ pc[r] \in {"acquiring", "releasing"}

\* Mutant: the locks are taken in the order of a set, each time another.
IsNext_Unsorted(r, x) == x \in Needs[r] \ Held(r)

\* self.resources is sorted by resource id: x is the next lock to take.
IsNext(r, x) ==
    /\ x \in Needs[r] \ Held(r)
    /\ \A y \in Needs[r] \ Held(r) : x <= y

\* reversed(acquired): x is the next lock to give back.
IsLast(r, x) ==
    /\ x \in Held(r)
    /\ \A y \in Held(r) : y <= x

Goto(r, place) == pc' = [pc EXCEPT ![r] = place]

\* The block is left for a reason; the locks taken so far are released first.
Unwind(r, reason) ==
    /\ result' = [result EXCEPT ![r] = reason]
    /\ Goto(r, "releasing")

-----------------------------------------------------------------------------
(* Taking the locks.                                                       *)

\* run_backup, run_step or run_workflow reaches the first attempt.
Submit(r) ==
    /\ pc[r] = "idle"
    /\ ~Busy(LoopOf[r])
    /\ Goto(r, "acquiring")
    /\ attempt' = [attempt EXCEPT ![r] = 1]
    /\ UNCHANGED <<holder, entered, result, cancellable, pending>>

\* lock.acquire() with timeout=0 succeeds.
Take(r, x) ==
    /\ pc[r] = "acquiring"
    /\ IsNext(r, x)
    /\ holder[x] = Nobody /\ x \notin Unopenable
    /\ holder' = [holder EXCEPT ![x] = r]
    /\ UNCHANGED <<pc, attempt, entered, result, cancellable, pending>>

\* lock.acquire() with timeout=0 raises Timeout.
Blocked(r, x) ==
    /\ pc[r] = "acquiring"
    /\ IsNext(r, x)
    /\ holder[x] # Nobody /\ x \notin Unopenable
    /\ Unwind(r, "conflict")
    /\ UNCHANGED <<holder, attempt, entered, cancellable, pending>>

\* lock.acquire() cannot open the lock file.
CannotOpen(r, x) ==
    /\ pc[r] = "acquiring"
    /\ IsNext(r, x)
    /\ x \in Unopenable
    /\ Unwind(r, "oserror")
    /\ UNCHANGED <<holder, attempt, entered, cancellable, pending>>

\* Mutant: the loop over the locks stops one lock early.
Enter_OneShort(r) ==
    /\ pc[r] = "acquiring"
    /\ Cardinality(Needs[r] \ Held(r)) <= 1
    /\ entered' = entered \cup {r}
    /\ Goto(r, "operation")
    /\ UNCHANGED <<holder, attempt, result, cancellable, pending>>

\* All locks are held: the operation starts, its hooks included.
Enter(r) ==
    /\ pc[r] = "acquiring"
    /\ Needs[r] \subseteq Held(r)
    /\ entered' = entered \cup {r}
    /\ Goto(r, "operation")
    /\ UNCHANGED <<holder, attempt, result, cancellable, pending>>

-----------------------------------------------------------------------------
(* Under the locks.                                                        *)

\* The operation returns: _mark_operational_complete, then collect().
OperationEnds(r) ==
    /\ pc[r] = "operation" /\ r \notin pending
    /\ ~Busy(LoopOf[r])
    /\ cancellable' = cancellable \ {r}
    /\ Goto(r, "collecting")
    /\ UNCHANGED <<holder, attempt, entered, result, pending>>

OperationRaises(r) ==
    /\ pc[r] = "operation" /\ r \notin pending
    /\ ~Busy(LoopOf[r])
    /\ Unwind(r, "raised")
    /\ UNCHANGED <<holder, attempt, entered, cancellable, pending>>

\* The CancelledError arrives at the operation's next resumption.
OperationCancelled(r) ==
    /\ pc[r] = "operation" /\ r \in pending
    /\ ~Busy(LoopOf[r])
    /\ pending' = pending \ {r}
    /\ Unwind(r, "cancelled")
    /\ UNCHANGED <<holder, attempt, entered, cancellable>>

CollectEnds(r) ==
    /\ pc[r] = "collecting"
    /\ ~Busy(LoopOf[r])
    /\ Unwind(r, "completed")
    /\ UNCHANGED <<holder, attempt, entered, cancellable, pending>>

-----------------------------------------------------------------------------
(* Giving the locks back.                                                  *)

Release(r, x) ==
    /\ pc[r] = "releasing"
    /\ IsLast(r, x)
    /\ holder' = [holder EXCEPT ![x] = Nobody]
    /\ UNCHANGED <<pc, attempt, entered, result, cancellable, pending>>

MayRetry(r) == result[r] = "conflict" /\ attempt[r] < Attempts[r]

\* The conflict of an attempt that is not the last one: sleep(lock_retry_delay).
Retry(r) ==
    /\ pc[r] = "releasing" /\ Held(r) = {}
    /\ MayRetry(r)
    /\ result' = [result EXCEPT ![r] = "none"]
    /\ Goto(r, "sleeping")
    /\ UNCHANGED <<holder, attempt, entered, cancellable, pending>>

\* The run is over for JobRunner.  Only now does an operation that raised lose its
\* cancellability, and a scheduler run that was refused.
Leave(r) ==
    /\ pc[r] = "releasing" /\ Held(r) = {}
    /\ ~MayRetry(r)
    /\ Goto(r, "ended")
    /\ cancellable' = IF result[r] = "raised" \/ (result[r] = "conflict" /\ r \in SchedulerRuns)
                      THEN cancellable \ {r} ELSE cancellable
    /\ UNCHANGED <<holder, attempt, entered, result, pending>>

\* Mutant: the attempts are not counted.
Wake_NoCount(r) ==
    /\ pc[r] = "sleeping" /\ r \notin pending
    /\ ~Busy(LoopOf[r])
    /\ Goto(r, "acquiring")
    /\ UNCHANGED <<holder, attempt, entered, result, cancellable, pending>>

\* The sleep is over: the next attempt.
Wake(r) ==
    /\ pc[r] = "sleeping" /\ r \notin pending
    /\ ~Busy(LoopOf[r])
    /\ attempt' = [attempt EXCEPT ![r] = @ + 1]
    /\ Goto(r, "acquiring")
    /\ UNCHANGED <<holder, entered, result, cancellable, pending>>

\* The CancelledError arrives in the sleep, where no lock is held.
SleepCancelled(r) ==
    /\ pc[r] = "sleeping" /\ r \in pending
    /\ ~Busy(LoopOf[r])
    /\ pending' = pending \ {r}
    /\ result' = [result EXCEPT ![r] = "cancelled"]
    /\ Goto(r, "ended")
    /\ UNCHANGED <<holder, attempt, entered, cancellable>>

-----------------------------------------------------------------------------
(* The surroundings.                                                       *)

\* RunManager.cancel() or shutdown() on the run's own loop.
Cancel(r) ==
    /\ pc[r] \in {"sleeping", "operation", "collecting"}
    /\ r \in cancellable /\ r \notin pending
    /\ ~Busy(LoopOf[r])
    /\ pending' = pending \cup {r}
    /\ UNCHANGED <<holder, pc, attempt, entered, result, cancellable>>

\* A process dies, with all its loops: the kernel frees its locks.
Crash(dead) ==
    LET victims == {r \in Runs : LoopOf[r] \in dead /\ pc[r] \notin {"idle", "ended"}}
    IN  /\ pc' = [r \in Runs |-> IF r \in victims THEN "crashed" ELSE pc[r]]
        /\ holder' = [x \in Resources |-> IF holder[x] \in victims THEN Nobody ELSE holder[x]]
        /\ pending' = pending \ victims
        /\ UNCHANGED <<attempt, entered, result, cancellable>>

LockStep(r) == \/ \E x \in Resources : \/ Take(r, x) \/ Blocked(r, x) \/ CannotOpen(r, x)
                                       \/ Release(r, x)
               \/ Enter(r) \/ Retry(r) \/ Leave(r)
LoopStep(r) == OperationCancelled(r) \/ CollectEnds(r) \/ Wake(r) \/ SleepCancelled(r)
OpStep(r)   == OperationEnds(r) \/ OperationRaises(r)

Next ==
    \/ \E r \in Runs : Submit(r) \/ LockStep(r) \/ LoopStep(r) \/ OpStep(r) \/ Cancel(r)
    \/ \E dead \in SUBSET Loops : Crash(dead)

Spec == Init /\ [][Next]_vars

\* A thread between two awaits runs on, and a loop gets to every task it could
\* resume (strong fairness: another task of the loop may be busy in between).  An
\* operation may run for ever, and nobody has to submit or cancel anything.
Fairness == \A r \in Runs : WF_vars(LockStep(r)) /\ SF_vars(LoopStep(r))

FairSpec == Spec /\ Fairness

-----------------------------------------------------------------------------
(* Properties.                                                             *)

Working == {"operation", "collecting"}

\* Two runs never work on the same repository or rclone endpoint, whatever
\* processes they are in: a workflow keeps every lock of its steps for its whole
\* runtime, and no partial acquisition, retry or crash lets an operation start or
\* go on without all of them.
ExclusiveWork ==
    \A r, q \in Runs : r # q /\ pc[r] \in Working /\ pc[q] \in Working
                          => Needs[r] \cap Needs[q] = {}

\* No run keeps a lock that nobody will release: a lock is held only by a run that
\* is taking, using or releasing its locks, never across a retry's sleep, after
\* its end, or beyond what it needs.
NoLockLeftBehind ==
    \A x \in Resources : holder[x] # Nobody =>
        /\ pc[holder[x]] \in {"acquiring", "releasing"} \cup Working
        /\ x \in Needs[holder[x]]

\* A cancellation never interrupts the collection of statistics: the run stops
\* being cancellable in the step that ends its operation, so a cancellation comes
\* before it and ends the operation, or is refused.
CollectUndisturbed == \A r \in Runs : pc[r] = "collecting" => r \notin pending

Contending == {"acquiring", "releasing"}

\* Runs never refuse each other until none is left: when all contention is over and
\* some run was turned away, then some run did get its locks, unless a process
\* died or a lock file could not be opened.  This is what sorting is for: with
\* partial acquisition in different orders two runs could block each other, and
\* since nobody waits, both would fail.
SomebodyWins ==
    /\ \E r \in Runs : result[r] = "conflict"
    /\ \A r \in Runs : pc[r] \notin Contending
    => \/ entered # {}
       \/ \E r \in Runs : pc[r] = "crashed" \/ result[r] = "oserror"

\* No run waits for a lock for ever: whatever the others do, it begins, is
\* refused, is cancelled, or its process dies.
AcquisitionEnds ==
    \A r \in Runs : pc[r] \in Contending \cup {"sleeping"}
                       ~> pc[r] \in {"operation", "ended", "crashed"}

=============================================================================
