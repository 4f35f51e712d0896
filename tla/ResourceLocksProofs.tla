------------------------- MODULE ResourceLocksProofs -------------------------
(***************************************************************************)
(* Proofs about ResourceLocks for every set of runs, loops and resources,  *)
(* whatever the runs need and how often they retry.                        *)
(*                                                                         *)
(* The exclusion properties follow from LockInv.  That somebody wins needs *)
(* WinnerInv: as long as nobody got all locks, some run is still taking    *)
(* locks and holds one that is above every lock about to be given back.    *)
(* When that run is refused a lock, this lock is higher still, so its      *)
(* holder cannot be giving it back and takes over the role.  The argument  *)
(* rests on the sorted order (Ascending).                                  *)
(***************************************************************************)
EXTENDS ResourceLocks, TLAPS

\* Locks are held by live runs that need them, all of them by a run that works.
LockInv ==
    /\ NoLockLeftBehind
    /\ \A r \in Runs : pc[r] \in Working => \A x \in Needs[r] : holder[x] = r

\* A cancellation waits only where it can be delivered.
PendingInv ==
    \A r \in Runs : /\ pc[r] = "collecting" => r \notin cancellable
                    /\ r \in pending => pc[r] \in {"sleeping", "operation"}

\* A run that takes locks has taken the lowest ones.
Ascending ==
    \A r \in Runs : pc[r] = "acquiring" =>
        \A x \in Held(r), y \in Needs[r] \ Held(r) : x < y

\* Who leaves without having entered was refused a lock, or could not open one; who
\* still tries has no result, and who sleeps an attempt left.
PhaseInv ==
    \A r \in Runs :
       /\ pc[r] \in Working => r \in entered
       /\ pc[r] = "releasing" => result[r] \in {"conflict", "oserror"} \/ r \in entered
       /\ pc[r] \in {"idle", "acquiring", "sleeping"} => result[r] = "none"
       /\ pc[r] = "sleeping" => attempt[r] < Attempts[r]

Excused == \E r \in Runs : pc[r] = "crashed" \/ result[r] = "oserror"

\* q takes locks and holds x, above all locks about to be given back.
Leads(q, x) ==
    /\ pc[q] = "acquiring" /\ holder[x] = q
    /\ \A y \in Resources : holder[y] # Nobody /\ pc[holder[y]] = "releasing" => y < x

WinnerInv ==
    (\E r \in Runs : result[r] = "conflict") =>
        \/ entered # {} \/ Excused
        \/ \E q \in Runs, x \in Resources : Leads(q, x)

IInv == TypeOK /\ LockInv /\ PendingInv /\ Ascending /\ PhaseInv /\ WinnerInv

-----------------------------------------------------------------------------
(* Every action preserves IInv.                                            *)

LEMMA SubmitKeepsIInv == ASSUME IInv, NEW r \in Runs, Submit(r) PROVE IInv'
<1>1. TypeOK'
  <2>1. Attempts[r] \in Nat /\ 1 <= Attempts[r]
    BY LocksAssumption
  <2>2. attempt' \in [Runs -> Nat] /\ \A q \in Runs : attempt'[q] <= Attempts[q]
    BY <2>1 DEF IInv, TypeOK, Submit
  <2> QED
    BY <2>2 DEF IInv, TypeOK, Submit, Goto
<1>2. LockInv'
  BY DEF IInv, TypeOK, Submit, Goto, LockInv, NoLockLeftBehind, Working
<1>3. PendingInv'
  BY DEF IInv, TypeOK, Submit, Goto, PendingInv
<1>4. Ascending'
  BY LocksAssumption DEF IInv, TypeOK, Submit, Goto, LockInv, Ascending, NoLockLeftBehind,
     Working, Held
<1>5. PhaseInv'
  BY DEF IInv, TypeOK, Submit, Goto, PhaseInv, Working
<1>6. WinnerInv'
  BY DEF IInv, TypeOK, Submit, Goto, WinnerInv, Excused, Leads
<1> QED
  BY <1>1, <1>2, <1>3, <1>4, <1>5, <1>6 DEF IInv

LEMMA TakeKeepsIInv == ASSUME IInv, NEW r \in Runs, NEW x \in Resources, Take(r, x) PROVE IInv'
<1>1. TypeOK'
  BY DEF IInv, TypeOK, Take
<1>2. LockInv'
  BY LocksAssumption DEF IInv, TypeOK, Take, IsNext, LockInv, NoLockLeftBehind
<1>3. PendingInv'
  BY DEF IInv, TypeOK, Take, PendingInv
<1>4. Ascending'
  BY LocksAssumption DEF IInv, TypeOK, Take, IsNext, Ascending, Held
<1>5. PhaseInv'
  BY DEF IInv, TypeOK, Take, PhaseInv
<1>6. WinnerInv'
  BY DEF IInv, TypeOK, Take, WinnerInv, Excused, Leads
<1> QED
  BY <1>1, <1>2, <1>3, <1>4, <1>5, <1>6 DEF IInv

\* The step the whole argument turns on: a run is refused a lock and gives up its own.
LEMMA BlockedKeepsIInv ==
    ASSUME IInv, NEW r \in Runs, NEW x \in Resources, Blocked(r, x)
    PROVE IInv'
<1>1. TypeOK'
  BY DEF IInv, TypeOK, Blocked, Unwind, Goto
<1>2. LockInv'
  BY DEF IInv, TypeOK, Blocked, Unwind, Goto, LockInv, NoLockLeftBehind, Working
<1>3. PendingInv'
  BY DEF IInv, TypeOK, Blocked, Unwind, Goto, PendingInv
<1>4. Ascending'
  BY DEF IInv, TypeOK, Blocked, Unwind, Goto, Ascending, Held
<1>5. PhaseInv'
  BY DEF IInv, TypeOK, Blocked, Unwind, Goto, PhaseInv, Working
<1>6. WinnerInv'
  <2>1. CASE entered # {} \/ Excused
    BY <2>1 DEF WinnerInv, Excused, Blocked, Unwind, Goto, IInv, TypeOK, PhaseInv
  <2>2. CASE entered = {} /\ ~Excused
    <3>1. PICK p \in Runs \ {r} : holder[x] = p /\ pc[p] \in {"acquiring", "releasing"}
      BY <2>2 DEF Blocked, IsNext, Held, IInv, TypeOK, LockInv, NoLockLeftBehind, PhaseInv
    <3>2. \A y \in Held(r) : y < x
      BY DEF Blocked, IsNext, IInv, Ascending
    <3>3. ASSUME pc[p] = "acquiring",
                 \A y \in Resources : holder[y] # Nobody /\ pc[holder[y]] = "releasing" => y < x
          PROVE  Leads(p, x)'
      BY <3>1, <3>2, <3>3 DEF Leads, Held, Blocked, Unwind, Goto, IInv, TypeOK
    <3>4. CASE \A q \in Runs : result[q] # "conflict"
      <4>1. \A q \in Runs : pc[q] # "releasing"
        BY <2>2, <3>4 DEF Excused, IInv, PhaseInv
      <4>2. \A y \in Resources : holder[y] # Nobody => pc[holder[y]] # "releasing"
        BY <4>1 DEF IInv, TypeOK
      <4>3. Leads(p, x)'
        BY <3>1, <3>3, <4>1, <4>2
      <4> QED
        BY <4>3 DEF WinnerInv
    <3>5. CASE \E q \in Runs : result[q] = "conflict"
      <4>1. PICK q \in Runs, z \in Resources : Leads(q, z)
        BY <2>2, <3>5 DEF IInv, WinnerInv
      <4>2. x \in Nat /\ z \in Nat /\ Resources \subseteq Nat
        BY LocksAssumption
      <4>3. CASE z < x
        <5>1. \A y \in Resources : holder[y] # Nobody /\ pc[holder[y]] = "releasing" => y < x
          BY <4>1, <4>2, <4>3 DEF Leads
        <5>2. pc[p] = "acquiring"
          BY <3>1, <5>1, LocksAssumption
        <5>3. Leads(p, x)'
          BY <3>3, <5>1, <5>2
        <5> QED
          BY <5>3 DEF WinnerInv
      <4>4. CASE x <= z
        <5>1. Leads(q, z)'
          BY <3>2, <4>1, <4>2, <4>4 DEF Leads, Held, Blocked, Unwind, Goto, IInv, TypeOK
        <5> QED
          BY <5>1 DEF WinnerInv
      <4> QED
        BY <4>2, <4>3, <4>4
    <3> QED
      BY <3>4, <3>5
  <2> QED
    BY <2>1, <2>2
<1> QED
  BY <1>1, <1>2, <1>3, <1>4, <1>5, <1>6 DEF IInv

LEMMA CannotOpenKeepsIInv ==
    ASSUME IInv, NEW r \in Runs, NEW x \in Resources, CannotOpen(r, x)
    PROVE IInv'
<1>1. TypeOK'
  BY DEF IInv, TypeOK, CannotOpen, Unwind, Goto
<1>2. LockInv'
  BY DEF IInv, TypeOK, CannotOpen, Unwind, Goto, LockInv, NoLockLeftBehind, Working
<1>3. PendingInv'
  BY DEF IInv, TypeOK, CannotOpen, Unwind, Goto, PendingInv
<1>4. Ascending'
  BY DEF IInv, TypeOK, CannotOpen, Unwind, Goto, Ascending, Held
<1>5. PhaseInv'
  BY DEF IInv, TypeOK, CannotOpen, Unwind, Goto, PhaseInv, Working
<1>6. WinnerInv'
  BY DEF IInv, TypeOK, CannotOpen, Unwind, WinnerInv, Excused
<1> QED
  BY <1>1, <1>2, <1>3, <1>4, <1>5, <1>6 DEF IInv

LEMMA EnterKeepsIInv == ASSUME IInv, NEW r \in Runs, Enter(r) PROVE IInv'
<1>1. TypeOK'
  BY DEF IInv, TypeOK, Enter, Goto
<1>2. LockInv'
  BY DEF IInv, TypeOK, Enter, Goto, LockInv, NoLockLeftBehind, Working, Held
<1>3. PendingInv'
  BY DEF IInv, TypeOK, Enter, Goto, PendingInv
<1>4. Ascending'
  BY DEF IInv, TypeOK, Enter, Goto, Ascending, Held
<1>5. PhaseInv'
  BY DEF IInv, TypeOK, Enter, Goto, PhaseInv
<1>6. WinnerInv'
  BY DEF IInv, TypeOK, Enter, WinnerInv
<1> QED
  BY <1>1, <1>2, <1>3, <1>4, <1>5, <1>6 DEF IInv

LEMMA OperationEndsKeepsIInv == ASSUME IInv, NEW r \in Runs, OperationEnds(r) PROVE IInv'
<1>1. TypeOK'
  BY DEF IInv, TypeOK, OperationEnds, Goto
<1>2. LockInv'
  BY DEF IInv, TypeOK, OperationEnds, Goto, LockInv, NoLockLeftBehind, Working
<1>3. PendingInv'
  BY DEF IInv, TypeOK, OperationEnds, Goto, PendingInv
<1>4. Ascending'
  BY DEF IInv, TypeOK, OperationEnds, Goto, Ascending, Held
<1>5. PhaseInv'
  BY DEF IInv, TypeOK, OperationEnds, Goto, PhaseInv, Working
<1>6. WinnerInv'
  BY DEF IInv, TypeOK, OperationEnds, PhaseInv, WinnerInv, Working
<1> QED
  BY <1>1, <1>2, <1>3, <1>4, <1>5, <1>6 DEF IInv

LEMMA OperationRaisesKeepsIInv == ASSUME IInv, NEW r \in Runs, OperationRaises(r) PROVE IInv'
<1>1. TypeOK'
  BY DEF IInv, TypeOK, OperationRaises, Unwind, Goto
<1>2. LockInv'
  BY DEF IInv, TypeOK, OperationRaises, Unwind, Goto, LockInv, NoLockLeftBehind, Working
<1>3. PendingInv'
  BY DEF IInv, TypeOK, OperationRaises, Unwind, Goto, PendingInv
<1>4. Ascending'
  BY DEF IInv, TypeOK, OperationRaises, Unwind, Goto, Ascending, Held
<1>5. PhaseInv'
  BY DEF IInv, TypeOK, OperationRaises, Unwind, Goto, PhaseInv, Working
<1>6. WinnerInv'
  BY DEF IInv, TypeOK, OperationRaises, PhaseInv, WinnerInv, Working
<1> QED
  BY <1>1, <1>2, <1>3, <1>4, <1>5, <1>6 DEF IInv

LEMMA OperationCancelledKeepsIInv ==
    ASSUME IInv, NEW r \in Runs, OperationCancelled(r)
    PROVE IInv'
<1>1. TypeOK'
  BY DEF IInv, TypeOK, OperationCancelled, Unwind, Goto
<1>2. LockInv'
  BY DEF IInv, TypeOK, OperationCancelled, Unwind, Goto, LockInv, NoLockLeftBehind, Working
<1>3. PendingInv'
  BY DEF IInv, TypeOK, OperationCancelled, Unwind, Goto, PendingInv
<1>4. Ascending'
  BY DEF IInv, TypeOK, OperationCancelled, Unwind, Goto, Ascending, Held
<1>5. PhaseInv'
  BY DEF IInv, TypeOK, OperationCancelled, Unwind, Goto, PhaseInv, Working
<1>6. WinnerInv'
  BY DEF IInv, TypeOK, OperationCancelled, PhaseInv, WinnerInv, Working
<1> QED
  BY <1>1, <1>2, <1>3, <1>4, <1>5, <1>6 DEF IInv

LEMMA CollectEndsKeepsIInv == ASSUME IInv, NEW r \in Runs, CollectEnds(r) PROVE IInv'
<1>1. TypeOK'
  BY DEF IInv, TypeOK, CollectEnds, Unwind, Goto
<1>2. LockInv'
  BY DEF IInv, TypeOK, CollectEnds, Unwind, Goto, LockInv, NoLockLeftBehind, Working
<1>3. PendingInv'
  BY DEF IInv, TypeOK, CollectEnds, Unwind, Goto, PendingInv
<1>4. Ascending'
  BY DEF IInv, TypeOK, CollectEnds, Unwind, Goto, Ascending, Held
<1>5. PhaseInv'
  BY DEF IInv, TypeOK, CollectEnds, Unwind, Goto, PhaseInv, Working
<1>6. WinnerInv'
  BY DEF IInv, TypeOK, CollectEnds, PhaseInv, WinnerInv, Working
<1> QED
  BY <1>1, <1>2, <1>3, <1>4, <1>5, <1>6 DEF IInv

LEMMA ReleaseKeepsIInv ==
    ASSUME IInv, NEW r \in Runs, NEW x \in Resources, Release(r, x)
    PROVE IInv'
<1>1. TypeOK'
  BY DEF IInv, TypeOK, Release
<1>2. LockInv'
  BY DEF IInv, TypeOK, Release, IsLast, LockInv, NoLockLeftBehind, Working, Held
<1>3. PendingInv'
  BY DEF IInv, TypeOK, Release, PendingInv
<1>4. Ascending'
  BY LocksAssumption DEF IInv, TypeOK, Release, IsLast, Ascending, Held
<1>5. PhaseInv'
  BY DEF IInv, TypeOK, Release, PhaseInv
<1>6. WinnerInv'
  BY DEF IInv, TypeOK, Release, IsLast, WinnerInv, Excused, Leads, Held
<1> QED
  BY <1>1, <1>2, <1>3, <1>4, <1>5, <1>6 DEF IInv

LEMMA RetryKeepsIInv == ASSUME IInv, NEW r \in Runs, Retry(r) PROVE IInv'
<1>1. TypeOK'
  BY DEF IInv, TypeOK, Retry, Goto
<1>2. LockInv'
  BY DEF IInv, TypeOK, Retry, Goto, LockInv, NoLockLeftBehind, Working, Held
<1>3. PendingInv'
  BY DEF IInv, TypeOK, Retry, Goto, PendingInv
<1>4. Ascending'
  BY DEF IInv, TypeOK, Retry, Goto, Ascending, Held
<1>5. PhaseInv'
  BY DEF IInv, TypeOK, Retry, MayRetry, Goto, PhaseInv, Working
<1>6. WinnerInv'
  BY DEF IInv, TypeOK, Retry, MayRetry, Goto, WinnerInv, Excused, Leads
<1> QED
  BY <1>1, <1>2, <1>3, <1>4, <1>5, <1>6 DEF IInv

LEMMA LeaveKeepsIInv == ASSUME IInv, NEW r \in Runs, Leave(r) PROVE IInv'
<1>1. TypeOK'
  BY DEF IInv, TypeOK, Leave, Goto
<1>2. LockInv'
  BY DEF IInv, TypeOK, Leave, Goto, LockInv, NoLockLeftBehind, Working, Held
<1>3. PendingInv'
  BY DEF IInv, TypeOK, Leave, Goto, PendingInv
<1>4. Ascending'
  BY DEF IInv, TypeOK, Leave, Goto, Ascending, Held
<1>5. PhaseInv'
  BY DEF IInv, TypeOK, Leave, Goto, PhaseInv, Working
<1>6. WinnerInv'
  BY DEF IInv, TypeOK, Leave, Goto, WinnerInv, Excused, Leads
<1> QED
  BY <1>1, <1>2, <1>3, <1>4, <1>5, <1>6 DEF IInv

LEMMA WakeKeepsIInv == ASSUME IInv, NEW r \in Runs, Wake(r) PROVE IInv'
<1>1. TypeOK'
  <2>1. attempt[r] \in Nat /\ Attempts[r] \in Nat
    BY LocksAssumption DEF IInv, TypeOK
  <2>2. attempt[r] + 1 <= Attempts[r]
    BY <2>1 DEF IInv, PhaseInv, Wake
  <2>3. attempt' \in [Runs -> Nat] /\ \A q \in Runs : attempt'[q] <= Attempts[q]
    BY <2>2 DEF IInv, TypeOK, Wake
  <2> QED
    BY <2>3 DEF IInv, TypeOK, Wake, Goto
<1>2. LockInv'
  BY DEF IInv, TypeOK, Wake, Goto, LockInv, NoLockLeftBehind, Working
<1>3. PendingInv'
  BY DEF IInv, TypeOK, Wake, Goto, PendingInv
<1>4. Ascending'
  BY LocksAssumption DEF IInv, TypeOK, Wake, Goto, LockInv, Ascending, NoLockLeftBehind,
     Working, Held
<1>5. PhaseInv'
  BY DEF IInv, TypeOK, Wake, Goto, PhaseInv, Working
<1>6. WinnerInv'
  BY DEF IInv, TypeOK, Wake, Goto, WinnerInv, Excused, Leads
<1> QED
  BY <1>1, <1>2, <1>3, <1>4, <1>5, <1>6 DEF IInv

LEMMA SleepCancelledKeepsIInv == ASSUME IInv, NEW r \in Runs, SleepCancelled(r) PROVE IInv'
<1>1. TypeOK'
  BY DEF IInv, TypeOK, SleepCancelled, Goto
<1>2. LockInv'
  BY DEF IInv, TypeOK, SleepCancelled, Goto, LockInv, NoLockLeftBehind, Working
<1>3. PendingInv'
  BY DEF IInv, TypeOK, SleepCancelled, Goto, PendingInv
<1>4. Ascending'
  BY DEF IInv, TypeOK, SleepCancelled, Goto, Ascending, Held
<1>5. PhaseInv'
  BY DEF IInv, TypeOK, SleepCancelled, Goto, PhaseInv, Working
<1>6. WinnerInv'
  BY DEF IInv, TypeOK, SleepCancelled, Goto, PhaseInv, WinnerInv, Excused, Leads
<1> QED
  BY <1>1, <1>2, <1>3, <1>4, <1>5, <1>6 DEF IInv

LEMMA CancelKeepsIInv == ASSUME IInv, NEW r \in Runs, Cancel(r) PROVE IInv'
<1>1. TypeOK'
  BY DEF IInv, TypeOK, Cancel
<1>2. LockInv'
  BY DEF IInv, TypeOK, Cancel, LockInv, NoLockLeftBehind
<1>3. PendingInv'
  BY DEF IInv, TypeOK, Cancel, PendingInv
<1>4. Ascending'
  BY DEF IInv, TypeOK, Cancel, Ascending, Held
<1>5. PhaseInv'
  BY DEF IInv, TypeOK, Cancel, PhaseInv
<1>6. WinnerInv'
  BY DEF IInv, TypeOK, Cancel, WinnerInv, Excused, Leads
<1> QED
  BY <1>1, <1>2, <1>3, <1>4, <1>5, <1>6 DEF IInv

LEMMA CrashKeepsIInv == ASSUME IInv, NEW dead \in SUBSET Loops, Crash(dead) PROVE IInv'
<1>1. TypeOK'
  BY DEF IInv, TypeOK, Crash
<1>2. LockInv'
  BY LocksAssumption DEF IInv, TypeOK, Crash, LockInv, NoLockLeftBehind, Working
<1>3. PendingInv'
  BY DEF IInv, TypeOK, Crash, PendingInv
<1>4. Ascending'
  BY LocksAssumption DEF IInv, TypeOK, Crash, Ascending, Held
<1>5. PhaseInv'
  BY DEF IInv, TypeOK, Crash, PhaseInv, Working
<1>6. WinnerInv'
  BY DEF IInv, TypeOK, Crash, WinnerInv, Excused, Leads
<1> QED
  BY <1>1, <1>2, <1>3, <1>4, <1>5, <1>6 DEF IInv

LEMMA InitEstablishesIInv == ASSUME Init PROVE IInv
<1>1. TypeOK
  BY LocksAssumption DEF Init, TypeOK
<1>2. LockInv /\ PendingInv /\ Ascending /\ PhaseInv /\ WinnerInv
  BY DEF Init, LockInv, NoLockLeftBehind, Working, PendingInv, Ascending, PhaseInv, WinnerInv
<1> QED
  BY <1>1, <1>2 DEF IInv

LEMMA StutterKeepsIInv == ASSUME IInv, UNCHANGED vars PROVE IInv'
<1>1. TypeOK'
  BY DEF IInv, TypeOK, vars
<1>2. LockInv' /\ PendingInv'
  BY DEF IInv, LockInv, NoLockLeftBehind, PendingInv, vars
<1>3. Ascending' /\ PhaseInv'
  BY DEF IInv, Ascending, Held, PhaseInv, vars
<1>4. WinnerInv'
  BY DEF IInv, WinnerInv, Excused, Leads, vars
<1> QED
  BY <1>1, <1>2, <1>3, <1>4 DEF IInv

LEMMA NextKeepsIInv == ASSUME IInv, [Next]_vars PROVE IInv'
<1>1. ASSUME NEW r \in Runs, LockStep(r) PROVE IInv'
  BY <1>1, TakeKeepsIInv, BlockedKeepsIInv, CannotOpenKeepsIInv, ReleaseKeepsIInv,
     EnterKeepsIInv, RetryKeepsIInv, LeaveKeepsIInv DEF LockStep
<1>2. ASSUME NEW r \in Runs, LoopStep(r) PROVE IInv'
  BY <1>2, OperationCancelledKeepsIInv, CollectEndsKeepsIInv, WakeKeepsIInv,
     SleepCancelledKeepsIInv DEF LoopStep
<1>3. ASSUME NEW r \in Runs, Submit(r) \/ OpStep(r) \/ Cancel(r) PROVE IInv'
  BY <1>3, SubmitKeepsIInv, OperationEndsKeepsIInv, OperationRaisesKeepsIInv, CancelKeepsIInv
     DEF OpStep
<1>4. ASSUME NEW dead \in SUBSET Loops, Crash(dead) PROVE IInv'
  BY <1>4, CrashKeepsIInv
<1> QED
  BY <1>1, <1>2, <1>3, <1>4, StutterKeepsIInv DEF Next

\* IInv is an invariant of the competing runs: the core of everything below.
THEOREM InductiveInvariant == Spec => []IInv
<1>1. Init => IInv
  BY InitEstablishesIInv
<1>2. IInv /\ [Next]_vars => IInv'
  BY NextKeepsIInv
<1> QED
  BY <1>1, <1>2, PTL DEF Spec

-----------------------------------------------------------------------------

\* Every variable keeps to its type, and no run makes more attempts than configured.
THEOREM TypeCorrect == Spec => []TypeOK
<1>1. IInv => TypeOK
  BY DEF IInv
<1> QED
  BY <1>1, InductiveInvariant, PTL

\* No two runs, of whatever processes, work on the same resource: ResourceLockManager
\* lets an operation start with all its locks only, and keeps them until its end.
THEOREM WorkIsExclusive == Spec => []ExclusiveWork
<1>1. ASSUME IInv PROVE ExclusiveWork
  <2> SUFFICES ASSUME NEW r \in Runs, NEW q \in Runs, r # q,
                      pc[r] \in Working, pc[q] \in Working,
                      NEW x \in Needs[r] \cap Needs[q]
               PROVE  FALSE
    BY DEF ExclusiveWork
  <2>1. holder[x] = r /\ holder[x] = q
    BY <1>1 DEF IInv, LockInv
  <2> QED
    BY <2>1
<1> QED
  BY <1>1, InductiveInvariant, PTL

\* A lock is held only by a live run that needs it and will release it: a conflict, a
\* retry, an exception, a cancellation or the end of a process leaves none behind.
THEOREM LocksAreReturned == Spec => []NoLockLeftBehind
<1>1. IInv => NoLockLeftBehind
  BY DEF IInv, LockInv
<1> QED
  BY <1>1, InductiveInvariant, PTL

\* Statistics are never collected under a pending cancellation.
THEOREM CollectingIsUndisturbed == Spec => []CollectUndisturbed
<1>1. IInv => CollectUndisturbed
  BY DEF IInv, PendingInv, CollectUndisturbed
<1> QED
  BY <1>1, InductiveInvariant, PTL

\* Runs that refuse each other leave a winner, because the locks are taken in the order
\* of the resource ids.
THEOREM ContentionHasAWinner == Spec => []SomebodyWins
<1>1. ASSUME IInv PROVE SomebodyWins
  <2>1. ASSUME \A r \in Runs : pc[r] \notin Contending
        PROVE  ~ \E q \in Runs, x \in Resources : Leads(q, x)
    BY <2>1 DEF Leads, Contending
  <2> QED
    BY <1>1, <2>1 DEF IInv, WinnerInv, Excused, SomebodyWins
<1> QED
  BY <1>1, InductiveInvariant, PTL
=============================================================================
