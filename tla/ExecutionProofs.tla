---------------------------- MODULE ExecutionProofs ----------------------------
(***************************************************************************)
(* Proofs about Execution for any targets, any number of hooks, any modes, *)
(* any pumps that fail and any number of cancellations.                    *)
(*                                                                         *)
(* The inductive invariant has one part for each thing that is kept in     *)
(* step with the place where the run is: the command it waits for, what a  *)
(* cancellation has reached, the steps and their rows, the hooks that were *)
(* begun, and the queues of step ids and summaries.                        *)
(***************************************************************************)
EXTENDS Execution, FiniteSetTheorems, WellFoundedInduction, SequenceTheorems, TLAPS


(***************************************************************************)
(* The command.                                                            *)
(***************************************************************************)
Ending == {"terminating", "killing", "reaping", "flushing"}

SubInv ==
  /\ SubprocessTypeOK
  /\ stage \in {"idle", "starting"} =>
       /\ ~ running /\ writers = {} /\ ~ killed /\ ~ closed
       /\ \A p \in Pumps : pumps[p] = "none"
  /\ stage \notin {"idle", "starting"} => \A p \in Pumps : pumps[p] # "none"
  /\ stage \in {"draining", "flushing"} => ~ running
  /\ stage \in {"killing", "reaping", "flushing"} => killed
  /\ stage \in {"waiting", "draining", "terminating", "killing"} => ~ closed
  /\ stage \in Ending => cause \in Raised
  /\ \A p \in Pumps : pumps[p] = "eof" => writers = {} \/ closed

LEMMA InitSubInv == SubprocessInit => SubInv
  BY DEF SubprocessInit, SubInv, SubprocessTypeOK, Stages, Processes, Group, Pumps, Raised, Ending

\* What a step of the run does to its command.
SubStep == Call \/ CallStep \/ ProcessStep \/ CancelCall

LEMMA NextIsSubStep == [Next]_vars => [SubStep]_subprocessVars
<1> SUFFICES ASSUME [Next]_vars PROVE [SubStep]_subprocessVars
  OBVIOUS
<1>1. CASE RunStep
  <2>1. NextHook => Call \/ UNCHANGED subprocessVars
    BY DEF NextHook, HookRefused
  <2>2. HooksDone \/ HookEnds \/ StepCreated \/ CommandEnds \/ StepFinished \/ Collect
          => UNCHANGED subprocessVars
    BY DEF HooksDone, HookEnds, StepCreated, CommandEnds, StepFinished, Collect
  <2>3. CommandStarts => Call \/ UNCHANGED subprocessVars
    BY DEF CommandStarts
  <2> QED
    BY <1>1, <2>1, <2>2, <2>3 DEF RunStep, SubStep
<1>2. CASE CommandStep
  BY <1>2 DEF CommandStep, SubStep
<1>3. CASE Processing
  BY <1>3 DEF Processing, SubStep
<1>4. CASE Cancel
  BY <1>4 DEF Cancel, StatementCancelled, SubStep
<1>5. CASE UNCHANGED vars
  BY <1>5 DEF vars, subprocessVars
<1> QED
  BY <1>1, <1>2, <1>3, <1>4, <1>5 DEF Next

LEMMA CallKeepsSubInv == ASSUME SubInv, Call PROVE SubInv'
  BY DEF Call, SubInv, SubprocessTypeOK, Stages, Raised, Ending

LEMMA EndsKeepsSubInv ==
  ASSUME SubInv, NEW r \in Raised \cup {"oserror", "exit0", "exit1"}, Ends(r), ~ running,
         UNCHANGED running
  PROVE  SubInv'
<1>1. pumps' \in [Pumps -> {"none", "reading", "eof", "failed"}]
      /\ \A p \in Pumps : pumps'[p] = "none"
  BY DEF Ends
<1> QED
  BY <1>1 DEF Ends, SubInv, SubprocessTypeOK, Stages, Raised, Ending, Processes, Group

LEMMA CallStepKeepsSubInv == ASSUME SubInv, CallStep PROVE SubInv'
<1>1. CASE Started
  <2>1. pumps' \in [Pumps -> {"none", "reading", "eof", "failed"}]
        /\ \A p \in Pumps : pumps'[p] = "reading"
    BY <1>1 DEF Started
  <2> QED
    BY <1>1, <2>1 DEF Started, SubInv, SubprocessTypeOK, Stages, Raised, Ending, Processes, Group
<1>2. CASE CannotStart \/ DrainEnds \/ TerminationEnds \/ FlushEnds
  <2>1. ~ running /\ UNCHANGED running
    BY <1>2 DEF CannotStart, DrainEnds, TerminationEnds, FlushEnds, SubInv, ProcessWaited
  <2>2. \E r \in Raised \cup {"oserror", "exit0", "exit1"} : Ends(r)
    BY <1>2 DEF CannotStart, DrainEnds, TerminationEnds, FlushEnds, SubInv, Ending, Raised
  <2> QED
    BY <2>1, <2>2, EndsKeepsSubInv
<1>3. CASE SeesExit \/ TimesOut \/ SeesPumpFailure
  BY <1>3 DEF SeesExit, TimesOut, SeesPumpFailure, Terminates, SubInv, SubprocessTypeOK, Stages,
     Raised, Ending
<1>4. CASE Kill \/ ClosePipes \/ ProcessGone
  <2>1. CASE Kill
    BY <2>1 DEF Kill, SubInv, SubprocessTypeOK, Stages, Raised, Ending
  <2>2. CASE ClosePipes
    BY <2>2 DEF ClosePipes, SubInv, SubprocessTypeOK, Stages, Raised, Ending
  <2>3. CASE ProcessGone
    <3>1. ~ running
      BY <2>3 DEF ProcessGone, ProcessWaited
    <3> QED
      BY <2>3, <3>1 DEF ProcessGone, SubInv, SubprocessTypeOK, Stages, Raised, Ending
  <2> QED
    BY <1>4, <2>1, <2>2, <2>3
<1> QED
  BY <1>1, <1>2, <1>3, <1>4 DEF CallStep

LEMMA ProcessStepKeepsSubInv == ASSUME SubInv, ProcessStep PROVE SubInv'
<1>1. ASSUME NEW p \in Pumps, PumpEnds(p) PROVE SubInv'
  <2>1. PICK e \in {"eof", "failed"} : /\ pumps' = [pumps EXCEPT ![p] = e]
                                       /\ e = "eof" => writers = {} \/ closed
    BY <1>1 DEF PumpEnds
  <2>2. /\ pumps' \in [Pumps -> {"none", "reading", "eof", "failed"}]
        /\ pumps'[p] = e /\ \A q \in Pumps : q # p => pumps'[q] = pumps[q]
    BY <2>1 DEF SubInv, SubprocessTypeOK
  <2>3. UNCHANGED <<stage, running, writers, killed, closed, cause, result>>
        /\ pumps[p] = "reading"
    BY <1>1 DEF PumpEnds
  <2> QED
    BY <2>1, <2>2, <2>3 DEF SubInv, SubprocessTypeOK
<1>2. ASSUME NEW p \in Processes, Fork(p) PROVE SubInv'
  BY <1>2 DEF Fork, SubInv, SubprocessTypeOK
<1>3. ASSUME NEW p \in Processes, CloseOutput(p) PROVE SubInv'
  BY <1>3 DEF CloseOutput, SubInv, SubprocessTypeOK
<1>4. CASE Exit
  BY <1>4 DEF Exit, SubInv, SubprocessTypeOK
<1> QED
  BY <1>1, <1>2, <1>3, <1>4 DEF ProcessStep

LEMMA CancelCallKeepsSubInv == ASSUME SubInv, CancelCall PROVE SubInv'
<1>1. CASE stage = "starting"
  <2>1. Ends("cancelled") /\ UNCHANGED running /\ ~ running
    BY <1>1 DEF CancelCall, SubInv
  <2> QED
    BY <2>1, EndsKeepsSubInv DEF Raised
<1>2. CASE stage # "starting"
  BY <1>2 DEF CancelCall, Terminates, SubInv, SubprocessTypeOK, Stages, Raised, Ending
<1> QED
  BY <1>1, <1>2

LEMMA SubInvKept == SubInv /\ [Next]_vars => SubInv'
<1> SUFFICES ASSUME SubInv, [SubStep]_subprocessVars PROVE SubInv'
  BY NextIsSubStep
<1>1. CASE UNCHANGED subprocessVars
  BY <1>1 DEF subprocessVars, SubInv, SubprocessTypeOK
<1> QED
  BY <1>1, CallKeepsSubInv, CallStepKeepsSubInv, ProcessStepKeepsSubInv, CancelCallKeepsSubInv
  DEF SubStep

\* A call that ends has waited for its process, and has killed the group unless every pipe
\* of it was at its end.
LEMMA CallsEndClean ==
  ASSUME SubInv, SubStep, stage # "idle", stage' = "idle"
  PROVE  /\ ~ running'
         /\ result' \in Raised /\ ~ SomePumpFailed => killed \/ "member" \notin writers
<1>1. ~ Call
  BY DEF Call
<1>2. ~ ProcessStep
  BY DEF ProcessStep, PumpEnds, Fork, CloseOutput, Exit
<1>3. CASE CancelCall
  BY <1>3 DEF CancelCall, Ends, Terminates, SubInv
<1>4. CASE CallStep
  <2>1. CASE CannotStart \/ DrainEnds
    BY <2>1 DEF CannotStart, DrainEnds, Ends, SubInv, Raised
  <2>2. CASE TerminationEnds
    <3>1. ~ running /\ UNCHANGED running /\ \A p \in Pumps : pumps[p] # "reading"
      BY <2>2 DEF TerminationEnds, ProcessWaited, Reading
    <3>2. stage = "terminating"
      BY <2>2 DEF TerminationEnds
    <3>3. ~ SomePumpFailed => pumps["stdout"] = "eof"
      BY <3>1, <3>2 DEF SomePumpFailed, Pumps, SubInv, SubprocessTypeOK
    <3>4. pumps["stdout"] = "eof" => writers = {}
      BY <3>2 DEF SubInv, Pumps
    <3> QED
      BY <3>1, <3>3, <3>4
  <2>3. CASE FlushEnds
    BY <2>3 DEF FlushEnds, Ends, SubInv
  <2> QED
    BY <1>4, <2>1, <2>2, <2>3 DEF CallStep, Started, SeesExit, TimesOut, SeesPumpFailure,
       Terminates, Kill, ClosePipes, ProcessGone
<1> QED
  BY <1>1, <1>2, <1>3, <1>4 DEF SubStep

-----------------------------------------------------------------------------
(***************************************************************************)
(* The place where the run is.                                             *)
(***************************************************************************)
Place == [doing : {"ready", "hook", "create", "start", "command", "finish", "collect", "over"},
          level : 0 .. 3, phase : Phases \cup {"work"}, unit : Nat \ {0},
          sub : Nat \ {0}, index : Nat \ {0}]
AtHooks(a) == a.doing \in {"ready", "hook"}
AtWork(a)  == a.doing \in {"create", "start", "command", "finish"}

Placed(a) ==
  /\ a \in Place /\ a.unit \in DOMAIN units /\ a.sub \in DOMAIN units[a.unit].subs
  /\ AtHooks(a) => a.level \in Around(a.unit) /\ a.phase \in Phases
  /\ AtWork(a) => a.level = 3 /\ a.phase = "work"
  /\ a.doing = "collect" => a.phase = "work"

\* The target is one of those that may be run.
TargetInv == mode \in Modes /\ target \in Targets

LEMMA TargetFacts ==
  ASSUME TargetInv
  PROVE  /\ target.workflow \in BOOLEAN
         /\ Len(units) \in Nat /\ Len(units) >= 1 /\ DOMAIN units = 1 .. Len(units)
         /\ \A u \in DOMAIN units :
              /\ u \in Nat \ {0} /\ units[u] \in Unit
              /\ units[u].task \in Tasks /\ units[u].scoped \in BOOLEAN
              /\ units[u].subs \in Seq(Substeps) /\ Len(units[u].subs) \in Nat
              /\ Len(units[u].subs) >= 1
              /\ DOMAIN units[u].subs = 1 .. Len(units[u].subs)
              /\ \A s \in DOMAIN units[u].subs : units[u].subs[s] \in Substeps
<1>1. target \in [workflow : BOOLEAN, units : Seq(Unit) \ {<< >>}]
  BY ExecutionAssumption DEF TargetInv
<1>2. target.workflow \in BOOLEAN /\ units \in Seq(Unit) /\ units # << >>
  BY <1>1 DEF units
<1>3. /\ Len(units) \in Nat /\ DOMAIN units = 1 .. Len(units)
      /\ \A u \in 1 .. Len(units) : units[u] \in Unit
  BY <1>2, LenProperties, ElementOfSeq
<1>4. Len(units) >= 1
  BY <1>2, <1>3, EmptySeq
<1>5. ASSUME NEW u \in DOMAIN units
      PROVE  /\ u \in Nat \ {0} /\ units[u] \in Unit
             /\ units[u].task \in Tasks /\ units[u].scoped \in BOOLEAN
             /\ units[u].subs \in Seq(Substeps) /\ Len(units[u].subs) \in Nat
             /\ Len(units[u].subs) >= 1
             /\ DOMAIN units[u].subs = 1 .. Len(units[u].subs)
             /\ \A s \in DOMAIN units[u].subs : units[u].subs[s] \in Substeps
  <2> DEFINE subs == units[u].subs
  <2>1. /\ u \in Nat \ {0} /\ units[u] \in Unit
        /\ units[u].task \in Tasks /\ units[u].scoped \in BOOLEAN
        /\ subs \in Seq(Substeps) /\ subs # << >>
    BY <1>3 DEF Unit
  <2> HIDE DEF subs
  <2>2. /\ Len(subs) \in Nat /\ DOMAIN subs = 1 .. Len(subs)
        /\ \A s \in 1 .. Len(subs) : subs[s] \in Substeps
    BY <2>1, LenProperties, ElementOfSeq
  <2>3. Len(subs) >= 1
    BY <2>1, <2>2, EmptySeq
  <2> QED
    BY <2>1, <2>2, <2>3 DEF subs
<1> QED
  BY <1>2, <1>3, <1>4, <1>5

LEMMA AroundIs ==
  ASSUME NEW u, NEW m
  PROVE  m \in Around(u) <=> m = 1 \/ (m = 2 /\ target.workflow) \/ (m = 3 /\ units[u].scoped)
  BY DEF Around

LEMMA MostOf ==
  ASSUME NEW S \in SUBSET (1 .. 3), S # {}
  PROVE  /\ MaxOf(S) \in S /\ \A n \in S : n <= MaxOf(S)
         /\ MinOf(S) \in S /\ \A n \in S : MinOf(S) <= n
<1>1. \A n \in S : n = 1 \/ n = 2 \/ n = 3
  OBVIOUS
<1>2. \E m \in S : \A n \in S : n <= m
  <2>1. CASE 3 \in S
    BY <1>1, <2>1
  <2>2. CASE 3 \notin S /\ 2 \in S
    BY <1>1, <2>2
  <2>3. CASE 3 \notin S /\ 2 \notin S
    <3>1. S = {1}
      BY <1>1, <2>3
    <3> QED
      BY <3>1
  <2> QED
    BY <2>1, <2>2, <2>3
<1>3. \E m \in S : \A n \in S : m <= n
  <2>1. CASE 1 \in S
    BY <1>1, <2>1
  <2>2. CASE 1 \notin S /\ 2 \in S
    BY <1>1, <2>2
  <2>3. CASE 1 \notin S /\ 2 \notin S
    <3>1. S = {3}
      BY <1>1, <2>3
    <3> QED
      BY <3>1
  <2> QED
    BY <2>1, <2>2, <2>3
<1> QED
  BY <1>2, <1>3 DEF MaxOf, MinOf

\* Where the run goes on from one level to another.
Inward(l, u, a) ==
  \/ \E m \in Around(u) : /\ a = HookList(m, "pre", u) /\ m >= l
                          /\ \A k \in Around(u) : k >= l => m <= k
  \/ a = SubstepAt(u, 1) /\ \A k \in Around(u) : k < l
Outward(l, u, phase, a) ==
  \/ \E m \in Around(u) : /\ a = HookList(m, phase, u) /\ m <= l
                          /\ \A k \in Around(u) : k <= l => k <= m
  \/ a = Collecting /\ l < 1

LEMMA BeginsInward ==
  ASSUME NEW u, NEW l \in 1 .. 4
  PROVE  Inward(l, u, Begins(l, u))
<1> DEFINE S == {m \in Around(u) : m >= l}
<1>1. S \in SUBSET (1 .. 3)
  BY DEF Around
<1>2. \A m : m \in S <=> m \in Around(u) /\ m >= l
  OBVIOUS
<1>3. Around(u) \subseteq 1 .. 3
  BY DEF Around
<1>4. Begins(l, u) = IF S # {} THEN HookList(MinOf(S), "pre", u) ELSE SubstepAt(u, 1)
  BY DEF Begins
<1> HIDE DEF S
<1>5. CASE S # {}
  <2>1. MinOf(S) \in S /\ \A n \in S : MinOf(S) <= n
    BY <1>1, <1>5, MostOf
  <2> QED
    BY <1>2, <1>4, <1>5, <2>1 DEF Inward
<1>6. CASE S = {}
  BY <1>2, <1>3, <1>4, <1>6 DEF Inward
<1> QED
  BY <1>5, <1>6

LEMMA OutwardIs ==
  ASSUME NEW u, NEW l \in 0 .. 3, NEW phase, NEW S, S = {m \in Around(u) : m <= l}
  PROVE  Outward(l, u, phase, IF S # {} THEN HookList(MaxOf(S), phase, u) ELSE Collecting)
<1>1. S \in SUBSET (1 .. 3)
  BY DEF Around
<1>2. \A m : m \in S <=> m \in Around(u) /\ m <= l
  OBVIOUS
<1>3. 1 \in Around(u)
  BY AroundIs
<1>4. CASE S # {}
  <2>1. MaxOf(S) \in S /\ \A n \in S : n <= MaxOf(S)
    BY <1>1, <1>4, MostOf
  <2> QED
    BY <1>2, <1>4, <2>1 DEF Outward
<1>5. CASE S = {}
  BY <1>2, <1>3, <1>5 DEF Outward
<1> QED
  BY <1>4, <1>5

LEMMA FailsOutward ==
  ASSUME NEW u, NEW l \in 0 .. 3
  PROVE  Outward(l, u, "on_error", Fails(l, u))
<1> DEFINE S == {m \in Around(u) : m <= l}
<1>1. Fails(l, u) = IF S # {} THEN HookList(MaxOf(S), "on_error", u) ELSE Collecting
  BY DEF Fails
<1> HIDE DEF S
<1>2. Outward(l, u, "on_error", IF S # {} THEN HookList(MaxOf(S), "on_error", u) ELSE Collecting)
  BY OutwardIs DEF S
<1> QED
  BY <1>1, <1>2

\* A level is done: the next unit begins, or the level outside of it ends.
LEMMA SucceedsWhere ==
  ASSUME NEW u, NEW l \in 1 .. 3, TargetInv, u \in DOMAIN units
  PROVE  \/ l = 3 /\ u + 1 \in DOMAIN units /\ Inward(3, u + 1, Succeeds(l, u))
         \/ (l = 3 => u = Len(units)) /\ Outward(l - 1, u, "post", Succeeds(l, u))
<1> USE TargetFacts
<1>1. CASE l = 3 /\ u < Len(units)
  <2>1. Succeeds(l, u) = Begins(3, u + 1)
    BY <1>1 DEF Succeeds
  <2>2. Inward(3, u + 1, Begins(3, u + 1))
    BY BeginsInward
  <2> QED
    BY <1>1, <2>1, <2>2
<1>2. CASE ~ (l = 3 /\ u < Len(units))
  <2> DEFINE S == {m \in Around(u) : m < l}
  <2>1. Succeeds(l, u) = IF S # {} THEN HookList(MaxOf(S), "post", u) ELSE Collecting
    BY <1>2 DEF Succeeds
  <2> DEFINE k == l - 1
  <2>2. k \in 0 .. 3 /\ S = {m \in Around(u) : m <= k}
    BY DEF Around
  <2> HIDE DEF S, k
  <2>3. Outward(k, u, "post", IF S # {} THEN HookList(MaxOf(S), "post", u) ELSE Collecting)
    BY <2>2, OutwardIs
  <2> QED
    BY <1>2, <2>1, <2>3 DEF k
<1> QED
  BY <1>1, <1>2

\* Each of these is a place of the target.
LEMMA PlacesAre ==
  ASSUME TargetInv
  PROVE  /\ \A u \in DOMAIN units : \A m \in Around(u), phase \in Phases :
              Placed(HookList(m, phase, u))
         /\ \A u \in DOMAIN units : \A s \in DOMAIN units[u].subs : Placed(SubstepAt(u, s))
         /\ Placed(Collecting) /\ Placed(Over)
<1> USE TargetFacts
<1>1. ASSUME NEW u \in DOMAIN units, NEW m \in Around(u), NEW phase \in Phases
      PROVE  Placed(HookList(m, phase, u))
  <2>1. m \in 0 .. 3
    BY DEF Around
  <2> QED
    BY <2>1 DEF Placed, Place, HookList, AtHooks, AtWork
<1>2. ASSUME NEW u \in DOMAIN units, NEW s \in DOMAIN units[u].subs
      PROVE  Placed(SubstepAt(u, s))
  BY DEF Placed, Place, SubstepAt, AtHooks, AtWork
<1>3. 1 \in DOMAIN units /\ 1 \in DOMAIN units[1].subs
  OBVIOUS
<1>4. Placed(Collecting) /\ Placed(Over)
  BY <1>3 DEF Placed, Place, Collecting, Over, AtHooks, AtWork
<1> QED
  BY <1>1, <1>2, <1>4

LEMMA InwardIsPlaced ==
  ASSUME TargetInv, NEW u \in DOMAIN units, NEW l, NEW a, Inward(l, u, a)
  PROVE  Placed(a)
  BY PlacesAre, TargetFacts DEF Inward, Phases

LEMMA OutwardIsPlaced ==
  ASSUME TargetInv, NEW u \in DOMAIN units, NEW l, NEW phase \in Phases, NEW a,
         Outward(l, u, phase, a)
  PROVE  Placed(a)
  BY PlacesAre DEF Outward

-----------------------------------------------------------------------------
(***************************************************************************)
(* The lists of hooks that were begun, at the place a.                     *)
(***************************************************************************)
Num(l, u) == IF l = 3 THEN u ELSE 0
Begun(l, x, p, b) == <<l, x, p>> \in b
Closed(l, x, b) == Begun(l, x, "post", b) \/ Begun(l, x, "on_error", b)

\* A list of hooks belongs to a level of the target.
HooksExist(b) ==
  /\ b \subseteq Levels \X Nat \X Phases
  /\ \A l \in Levels, x \in Nat, p \in Phases : Begun(l, x, p, b) =>
       /\ l = 2 => target.workflow
       /\ l = 3 => x \in DOMAIN units /\ units[x].scoped
       /\ l # 3 => x = 0

ClosedOnce(b) ==
  \A l \in Levels, x \in Nat : ~ (Begun(l, x, "post", b) /\ Begun(l, x, "on_error", b))
ClosedInOrder(b) ==
  \A l, m \in Levels, x, y \in Nat :
     Begun(l, x, "pre", b) /\ Begun(m, y, "pre", b) /\ l < m /\ Closed(l, x, b) => Closed(m, y, b)
AllClosed(b) == \A l \in Levels, x \in Nat : Begun(l, x, "pre", b) => Closed(l, x, b)

\* While the run is at a, in the middle of level a.level of a.unit.
Inside(a, b) ==
  /\ \A l \in Levels, x \in Nat : Begun(l, x, "pre", b) /\ ~ Closed(l, x, b) =>
        l <= a.level /\ (l = 3 => x = a.unit)
  /\ \A l \in Levels : l < a.level => ~ Closed(l, 0, b)
  /\ \A p \in Phases : Begun(a.level, Num(a.level, a.unit), p, b) => p \in {"pre", a.phase}
  /\ \A x \in Nat, p \in Phases : Begun(3, x, p, b) => x <= a.unit
  /\ a.phase = "pre" =>
       \A l \in Levels, x \in Nat, p \in Phases : Begun(l, x, p, b) =>
          l < a.level \/ (l = 3 /\ x < a.unit) \/ (l = a.level /\ p = "pre")

LevelInv(a, b) ==
  /\ HooksExist(b) /\ ClosedOnce(b) /\ ClosedInOrder(b)
  /\ AtHooks(a) \/ AtWork(a) => Inside(a, b)
  /\ a.doing = "hook" => Begun(a.level, Num(a.level, a.unit), a.phase, b)
  /\ a.doing = "collect" => AllClosed(b)

\* A list of hooks begins.
LEMMA ListBegins ==
  ASSUME NEW a, NEW b, LevelInv(a, b), TargetInv, Placed(a), AtHooks(a), NEW c,
         c = b \cup {<<a.level, Num(a.level, a.unit), a.phase>>}
  PROVE  /\ HooksExist(c) /\ ClosedOnce(c) /\ ClosedInOrder(c) /\ Inside(a, c)
         /\ Begun(a.level, Num(a.level, a.unit), a.phase, c)
<1> DEFINE n == Num(a.level, a.unit)
<1>1. /\ HooksExist(b) /\ ClosedOnce(b) /\ ClosedInOrder(b) /\ Inside(a, b)
  BY DEF LevelInv
<1>2. /\ a.level \in Levels /\ a.phase \in Phases /\ a.unit \in Nat /\ n \in Nat
      /\ a.level \in Around(a.unit) /\ a.unit \in DOMAIN units
  BY DEF Placed, Place, Around, Levels, Num
<1>3. \A l, x, p : Begun(l, x, p, c) <=> Begun(l, x, p, b) \/ (l = a.level /\ x = n /\ p = a.phase)
  BY DEF Begun
<1>4. /\ a.level = 2 => target.workflow
      /\ a.level = 3 => n \in DOMAIN units /\ units[n].scoped
      /\ a.level # 3 => n = 0
  BY <1>2, AroundIs DEF Num
<1>5. HooksExist(c)
  <2>1. c \subseteq Levels \X Nat \X Phases
    BY <1>1, <1>2 DEF HooksExist
  <2> QED
    BY ZenonT(60), <1>1, <1>3, <1>4, <2>1 DEF HooksExist
<1>6. \A p \in Phases : Begun(a.level, n, p, b) => p \in {"pre", a.phase}
  BY <1>1 DEF Inside
<1> HIDE DEF n
<1>7. ClosedOnce(c)
  BY <1>1, <1>2, <1>3, <1>6 DEF ClosedOnce, Phases
<1>8. \A l, x : Closed(l, x, c) <=>
         \/ Closed(l, x, b)
         \/ l = a.level /\ x = n /\ a.phase \in {"post", "on_error"}
  BY <1>3 DEF Closed
<1>9. Inside(a, c)
  <2>1. /\ \A l \in Levels, x \in Nat : Begun(l, x, "pre", b) /\ ~ Closed(l, x, b) =>
              l <= a.level /\ (l = 3 => x = a.unit)
        /\ \A l \in Levels : l < a.level => ~ Closed(l, 0, b)
        /\ \A x \in Nat, p \in Phases : Begun(3, x, p, b) => x <= a.unit
        /\ a.phase = "pre" =>
             \A l \in Levels, x \in Nat, p \in Phases : Begun(l, x, p, b) =>
                l < a.level \/ (l = 3 /\ x < a.unit) \/ (l = a.level /\ p = "pre")
    BY <1>1 DEF Inside
  <2>2. a.level = 3 => n = a.unit
    BY DEF n, Num
  <2>3. \A l \in Levels, x \in Nat : Begun(l, x, "pre", c) /\ ~ Closed(l, x, c) =>
              l <= a.level /\ (l = 3 => x = a.unit)
    BY <1>2, <1>3, <1>8, <2>1, <2>2 DEF Levels
  <2>4. \A l \in Levels : l < a.level => ~ Closed(l, 0, c)
    BY SMTT(30), <1>2, <1>8, <2>1 DEF Levels
  <2>5. \A p \in Phases : Begun(a.level, n, p, c) => p \in {"pre", a.phase}
    BY <1>3, <1>6
  <2>6. \A x \in Nat, p \in Phases : Begun(3, x, p, c) => x <= a.unit
    BY <1>2, <1>3, <2>1, <2>2
  <2>7. a.phase = "pre" =>
             \A l \in Levels, x \in Nat, p \in Phases : Begun(l, x, p, c) =>
                l < a.level \/ (l = 3 /\ x < a.unit) \/ (l = a.level /\ p = "pre")
    BY <1>3, <2>1
  <2> QED
    BY <2>3, <2>4, <2>5, <2>6, <2>7 DEF Inside, n
<1>10. ClosedInOrder(c)
  <2> SUFFICES ASSUME NEW l \in Levels, NEW m \in Levels, NEW x \in Nat, NEW y \in Nat,
                      Begun(l, x, "pre", c), Begun(m, y, "pre", c), l < m, Closed(l, x, c),
                      ~ Closed(m, y, c)
               PROVE  FALSE
    BY DEF ClosedInOrder
  <2>1. m <= a.level
    BY <1>9 DEF Inside
  <2>2. l < a.level
    BY <1>2, <2>1 DEF Levels
  <2>3. x = 0
    <3>1. l # 3
      BY <1>2, <2>2 DEF Levels
    <3> QED
      BY <1>5, <3>1 DEF HooksExist, Phases
  <2> QED
    BY <1>9, <2>2, <2>3 DEF Inside
<1>11. Begun(a.level, n, a.phase, c)
  BY <1>3
<1> QED
  BY <1>5, <1>7, <1>9, <1>10, <1>11 DEF n

\* On to a level inside of level a.level, or to the first of the next unit.
LEMMA InwardInside ==
  ASSUME NEW a, NEW b, TargetInv, Placed(a), HooksExist(b), Inside(a, b), NEW u, NEW l, NEW n,
         Inward(l, u, n),
         \/ a.phase = "pre" /\ u = a.unit /\ l = a.level + 1 /\ a.level \in Levels
         \/ /\ a.level = 3 /\ u = a.unit + 1 /\ l = 3
            /\ ~ units[a.unit].scoped \/ Closed(3, a.unit, b)
  PROVE  Inside(n, b)
<1> DEFINE m == n.level
<1>1. a.level \in 0 .. 3 /\ a.unit \in Nat /\ u \in Nat /\ l <= 4
  BY DEF Placed, Place
<1>2. /\ m \in Levels /\ n.unit = u /\ n.phase \in {"pre", "work"}
      /\ n.phase = "pre" => m >= l
      /\ n.phase = "work" => m = 3
      /\ \A k \in Around(u) : k >= l => k >= m /\ n.phase = "pre"
  <2>1. CASE \E k \in Around(u) : /\ n = HookList(k, "pre", u) /\ k >= l
                                  /\ \A j \in Around(u) : j >= l => k <= j
    <3>1. PICK k \in Around(u) : /\ n = HookList(k, "pre", u) /\ k >= l
                                 /\ \A j \in Around(u) : j >= l => k <= j
      BY <2>1
    <3>2. m = k /\ n.unit = u /\ n.phase = "pre"
      BY <3>1 DEF HookList
    <3>3. Around(u) \subseteq Levels
      BY DEF Around, Levels
    <3> QED
      BY <3>1, <3>2, <3>3 DEF Levels
  <2>2. CASE n = SubstepAt(u, 1) /\ \A k \in Around(u) : k < l
    <3>1. m = 3 /\ n.unit = u /\ n.phase = "work"
      BY <2>2 DEF SubstepAt
    <3>2. \A k \in Around(u) : ~ (k >= l)
      BY <1>1, <2>2 DEF Around
    <3> QED
      BY <3>1, <3>2 DEF Levels
  <2> QED
    BY <2>1, <2>2 DEF Inward
<1> HIDE DEF m
<1>3. /\ \A k \in Levels, x \in Nat : Begun(k, x, "pre", b) /\ ~ Closed(k, x, b) =>
              k <= a.level /\ (k = 3 => x = a.unit)
      /\ \A k \in Levels : k < a.level => ~ Closed(k, 0, b)
      /\ \A p \in Phases : Begun(a.level, Num(a.level, a.unit), p, b) => p \in {"pre", a.phase}
      /\ \A x \in Nat, p \in Phases : Begun(3, x, p, b) => x <= a.unit
      /\ a.phase = "pre" =>
             \A k \in Levels, x \in Nat, p \in Phases : Begun(k, x, p, b) =>
                k < a.level \/ (k = 3 /\ x < a.unit) \/ (k = a.level /\ p = "pre")
  BY DEF Inside
<1>4. \A k \in Levels, x \in Nat, p \in Phases : Begun(k, x, p, b) =>
         /\ k < 3 => k \in Around(u) /\ k \in Around(a.unit) /\ x = 0
         /\ k = 3 => x \in DOMAIN units /\ units[x].scoped
  BY AroundIs DEF HooksExist, Levels
<1>5. CASE a.phase = "pre" /\ u = a.unit /\ l = a.level + 1 /\ a.level \in Levels
  <2>1. a.level <= m /\ (n.phase = "pre" => a.level < m)
    BY <1>1, <1>2, <1>5 DEF Levels
  <2>2. \A k \in Levels : k < m => ~ Closed(k, 0, b)
    <3> SUFFICES ASSUME NEW k \in Levels, k < m, Closed(k, 0, b) PROVE FALSE
      OBVIOUS
    <3>1. k < 3 /\ k \in Around(u)
      BY <1>2, <1>4 DEF Levels, Closed, Phases
    <3>2. k <= a.level
      BY <1>1, <1>2, <1>5, <3>1 DEF Levels
    <3>3. k = a.level
      BY <1>3, <3>2, <1>1 DEF Levels
    <3> QED
      BY <1>3, <1>5, <3>1, <3>3 DEF Closed, Num, Phases
  <2>3. \A p \in Phases : Begun(m, Num(m, u), p, b) => p \in {"pre", n.phase}
    <3> SUFFICES ASSUME NEW p \in Phases, Begun(m, Num(m, u), p, b) PROVE p = "pre"
      OBVIOUS
    <3>1. Num(m, u) \in Nat /\ (m = 3 => Num(m, u) = u)
      BY <1>1 DEF Num
    <3>2. m < a.level \/ (m = 3 /\ u < a.unit) \/ (m = a.level /\ p = "pre")
      BY <1>2, <1>3, <1>5, <3>1
    <3> QED
      BY <1>1, <1>2, <1>5, <2>1, <3>2 DEF Levels
  <2>4. \A k \in Levels, x \in Nat : Begun(k, x, "pre", b) /\ ~ Closed(k, x, b) =>
              k <= m /\ (k = 3 => x = u)
    BY <1>1, <1>2, <1>3, <1>5, <2>1 DEF Levels
  <2>5. \A x \in Nat, p \in Phases : Begun(3, x, p, b) => x <= u
    BY <1>3, <1>5
  <2>6. n.phase = "pre" =>
             \A k \in Levels, x \in Nat, p \in Phases : Begun(k, x, p, b) =>
                k < m \/ (k = 3 /\ x < u) \/ (k = m /\ p = "pre")
    BY <1>1, <1>2, <1>3, <1>5, <2>1 DEF Levels
  <2> QED
    BY <1>2, <2>2, <2>3, <2>4, <2>5, <2>6 DEF Inside, m
<1>6. CASE /\ a.level = 3 /\ u = a.unit + 1 /\ l = 3
           /\ ~ units[a.unit].scoped \/ Closed(3, a.unit, b)
  <2>1. m = 3
    BY <1>2, <1>6 DEF Levels
  <2>2. \A p \in Phases : ~ Begun(3, u, p, b)
    BY <1>1, <1>3, <1>6
  <2>3. \A k \in Levels, x \in Nat : Begun(k, x, "pre", b) /\ ~ Closed(k, x, b) => k < 3
    BY <1>3, <1>4, <1>6 DEF Levels, Phases
  <2>4. \A x \in Nat, p \in Phases : Begun(3, x, p, b) => x < u
    BY <1>1, <1>3, <1>6
  <2>5. \A p \in Phases : Begun(m, Num(m, u), p, b) => p \in {"pre", n.phase}
    BY <2>1, <2>2 DEF Num
  <2>6. \A k \in Levels : k < m => ~ Closed(k, 0, b)
    BY <1>3, <1>6, <2>1
  <2>7. \A k \in Levels, x \in Nat : Begun(k, x, "pre", b) /\ ~ Closed(k, x, b) =>
              k <= m /\ (k = 3 => x = u)
    BY <2>1, <2>3 DEF Levels
  <2>8. \A x \in Nat, p \in Phases : Begun(3, x, p, b) => x <= u
    BY <2>4, <1>1
  <2>9. \A k \in Levels, x \in Nat, p \in Phases : Begun(k, x, p, b) =>
                k < m \/ (k = 3 /\ x < u) \/ (k = m /\ p = "pre")
    BY <2>1, <2>4 DEF Levels
  <2> QED
    BY <1>2, <2>5, <2>6, <2>7, <2>8, <2>9 DEF Inside, m
<1> QED
  BY <1>5, <1>6

\* Out to level l or one outside of it, or to the end.
LEMMA OutwardInside ==
  ASSUME NEW a, NEW b, TargetInv, Placed(a), HooksExist(b), Inside(a, b), NEW l \in 0 .. 3,
         NEW phase \in {"post", "on_error"}, NEW n, Outward(l, a.unit, phase, n),
         l <= a.level, a.level <= l + 1,
         \/ l = a.level /\ a.phase \notin {"post", "on_error"}
         \/ l < a.level /\ (a.level = 3 /\ ~ units[a.unit].scoped)
         \/ l < a.level /\ Closed(a.level, Num(a.level, a.unit), b)
  PROVE  /\ AtHooks(n) => Inside(n, b)
         /\ n.doing \in {"ready", "collect"}
         /\ n.doing = "collect" => AllClosed(b)
<1> DEFINE u == a.unit
<1>1. a.level \in 0 .. 3 /\ u \in Nat
  BY DEF Placed, Place
<1>2. /\ \A k \in Levels, x \in Nat : Begun(k, x, "pre", b) /\ ~ Closed(k, x, b) =>
              k <= a.level /\ (k = 3 => x = u)
      /\ \A k \in Levels : k < a.level => ~ Closed(k, 0, b)
      /\ \A p \in Phases : Begun(a.level, Num(a.level, u), p, b) => p \in {"pre", a.phase}
      /\ \A x \in Nat, p \in Phases : Begun(3, x, p, b) => x <= u
  BY DEF Inside
<1>3. \A k \in Levels, x \in Nat, p \in Phases : Begun(k, x, p, b) =>
         /\ k < 3 => k \in Around(u) /\ x = 0
         /\ k = 3 => x \in DOMAIN units /\ units[x].scoped
         /\ k = 3 /\ x = u => k \in Around(u)
  BY AroundIs DEF HooksExist, Levels
\* Nothing is open inside of level l.
<1>4. \A k \in Levels, x \in Nat : Begun(k, x, "pre", b) /\ ~ Closed(k, x, b) =>
         k <= l /\ k \in Around(u)
  <2> SUFFICES ASSUME NEW k \in Levels, NEW x \in Nat, Begun(k, x, "pre", b), ~ Closed(k, x, b)
               PROVE  k <= l /\ k \in Around(u)
    OBVIOUS
  <2>1. k <= a.level /\ (k = 3 => x = u) /\ k \in Around(u) /\ (k < 3 => x = 0)
        /\ (k = 3 => units[x].scoped)
    BY <1>2, <1>3 DEF Levels, Phases
  <2>2. x = Num(k, u)
    BY <2>1 DEF Num, Levels
  <2> QED
    BY <1>1, <2>1, <2>2 DEF Levels
<1>5. CASE n = Collecting /\ l < 1
  <2>1. AllClosed(b)
    BY <1>4, <1>5 DEF AllClosed, Levels
  <2> QED
    BY <1>5, <2>1 DEF Collecting, AtHooks
<1>6. ASSUME NEW m \in Around(u), n = HookList(m, phase, u), m <= l,
             \A k \in Around(u) : k <= l => k <= m
      PROVE  /\ n.doing = "ready" /\ Inside(n, b)
  <2>1. n.doing = "ready" /\ n.level = m /\ n.phase = phase /\ n.unit = u
    BY <1>6 DEF HookList
  <2>2. m \in Levels /\ m <= a.level
    BY <1>1, <1>6 DEF Around, Levels
  <2>3. \A k \in Levels, x \in Nat : Begun(k, x, "pre", b) /\ ~ Closed(k, x, b) =>
              k <= m /\ (k = 3 => x = u)
    BY <1>2, <1>4, <1>6
  <2>4. \A k \in Levels : k < m => ~ Closed(k, 0, b)
    BY <1>1, <1>2, <2>2 DEF Levels
  <2>5. \A p \in Phases : Begun(m, Num(m, u), p, b) => p \in {"pre", phase}
    <3>1. CASE m = a.level
      <4>1. a.phase \notin {"post", "on_error"}
        BY <1>1, <1>6, <3>1
      <4> QED
        BY <1>2, <3>1, <4>1 DEF Phases
    <3>2. CASE m < a.level
      <4>1. ~ Closed(m, 0, b) /\ m < 3
        BY <1>1, <1>2, <2>2, <3>2 DEF Levels
      <4> QED
        BY <4>1 DEF Closed, Num, Phases
    <3> QED
      BY <1>1, <2>2, <3>1, <3>2 DEF Levels
  <2> QED
    BY <1>2, <2>1, <2>3, <2>4, <2>5 DEF Inside
<1>7. n.doing = "ready" => n.doing # "collect"
  OBVIOUS
<1> QED
  BY <1>5, <1>6, <1>7 DEF Outward

-----------------------------------------------------------------------------
(***************************************************************************)
(* How the run goes on.                                                    *)
(***************************************************************************)
\* A level is done with its hooks, or has none.
Ends3(u, n) ==
  \/ u + 1 \in DOMAIN units /\ Inward(3, u + 1, n)
  \/ u = Len(units) /\ Outward(2, u, "post", n)

\* Where a list of hooks leads to that has come to its end.
Leaves(n) ==
  \/ at.phase = "pre" /\ Inward(at.level + 1, at.unit, n)
  \/ at.phase = "pre" /\ Outward(at.level, at.unit, "on_error", n)
  \/ at.phase = "post" /\ at.level = 3 /\ Ends3(at.unit, n)
  \/ at.phase = "post" /\ at.level < 3 /\ Outward(at.level - 1, at.unit, "post", n)
  \/ at.phase = "on_error" /\ Outward(at.level - 1, at.unit, "on_error", n)

LEMMA LevelAt ==
  ASSUME Placed(at), AtHooks(at)
  PROVE  /\ at.level \in Levels /\ at.level \in Nat /\ at.level - 1 \in 0 .. 3
         /\ at.level + 1 \in 1 .. 4 /\ at.unit \in DOMAIN units
         /\ at.phase \in Phases
<1>1. at.level \in Around(at.unit) /\ at.unit \in DOMAIN units /\ at.phase \in Phases
  BY DEF Placed
<1>2. at.level \in Levels
  BY <1>1 DEF Around, Levels
<1> DEFINE l == at.level
<1>3. l \in Levels
  BY <1>2
<1> HIDE DEF l
<1>4. l \in Nat /\ l - 1 \in 0 .. 3 /\ l + 1 \in 1 .. 4
  BY <1>3 DEF Levels
<1> QED
  BY <1>1, <1>2, <1>4 DEF l

LEMMA SucceedsEnds ==
  ASSUME TargetInv, NEW u \in DOMAIN units
  PROVE  Ends3(u, Succeeds(3, u))
<1>1. \A l \in 1 .. 3 :
        \/ l = 3 /\ u + 1 \in DOMAIN units /\ Inward(3, u + 1, Succeeds(l, u))
        \/ (l = 3 => u = Len(units)) /\ Outward(l - 1, u, "post", Succeeds(l, u))
  BY SucceedsWhere
<1>2. 3 \in 1 .. 3 /\ 3 - 1 = 2
  OBVIOUS
<1> QED
  BY <1>1, <1>2 DEF Ends3

LEMMA AfterHooksLeaves ==
  ASSUME TargetInv, Placed(at), AtHooks(at), NEW ok \in BOOLEAN
  PROVE  Leaves(AfterHooks(ok))
<1> USE LevelAt
<1>1. CASE at.phase = "pre" /\ ok
  <2>1. AfterHooks(ok) = Begins(at.level + 1, at.unit)
    BY <1>1 DEF AfterHooks
  <2>2. Inward(at.level + 1, at.unit, Begins(at.level + 1, at.unit))
    BY BeginsInward
  <2> QED
    BY <1>1, <2>1, <2>2 DEF Leaves
<1>2. CASE at.phase = "pre" /\ ~ ok
  <2>1. AfterHooks(ok) = Fails(at.level, at.unit)
    BY <1>2 DEF AfterHooks
  <2>2. at.level \in 0 .. 3
    BY DEF Levels
  <2>3. Outward(at.level, at.unit, "on_error", Fails(at.level, at.unit))
    BY <2>2, FailsOutward
  <2> QED
    BY <1>2, <2>1, <2>3 DEF Leaves
<1>3. CASE at.phase = "post"
  <2>1. AfterHooks(ok) = Succeeds(at.level, at.unit)
    BY <1>3 DEF AfterHooks
  <2>2. CASE at.level = 3
    BY <1>3, <2>1, <2>2, SucceedsEnds DEF Leaves
  <2>3. CASE at.level # 3
    <3>1. Outward(at.level - 1, at.unit, "post", Succeeds(at.level, at.unit))
      BY <2>3, SucceedsWhere DEF Levels
    <3> QED
      BY <1>3, <2>1, <2>3, <3>1 DEF Leaves, Levels
  <2> QED
    BY <2>2, <2>3
<1>4. CASE at.phase = "on_error"
  <2>1. AfterHooks(ok) = Fails(at.level - 1, at.unit)
    BY <1>4 DEF AfterHooks
  <2>2. Outward(at.level - 1, at.unit, "on_error", Fails(at.level - 1, at.unit))
    BY FailsOutward
  <2> QED
    BY <1>4, <2>1, <2>2 DEF Leaves
<1> QED
  BY <1>1, <1>2, <1>3, <1>4 DEF Phases

\* Where a successful substep leads to.
Continues(n) ==
  \/ at.sub + 1 \in DOMAIN UnitAt.subs /\ n = SubstepAt(at.unit, at.sub + 1)
  \/ at.sub = Len(UnitAt.subs) /\ UnitAt.scoped /\ n = HookList(3, "post", at.unit)
  \/ at.sub = Len(UnitAt.subs) /\ ~ UnitAt.scoped /\ Ends3(at.unit, n)

LEMMA AfterSubstepContinues ==
  ASSUME TargetInv, Placed(at), AtWork(at)
  PROVE  Continues(AfterSubstep)
<1> DEFINE u == at.unit  s == at.sub
<1>1. /\ u \in DOMAIN units /\ s \in DOMAIN units[u].subs /\ s \in Nat
      /\ DOMAIN units[u].subs = 1 .. Len(units[u].subs)
      /\ Len(units[u].subs) \in Nat /\ units[u].scoped \in BOOLEAN
  BY TargetFacts DEF Placed, Place
<1>2. Ends3(u, Succeeds(3, u))
  BY <1>1, SucceedsEnds
<1> HIDE DEF u, s
<1>3. CASE s < Len(units[u].subs)
  <2>1. AfterSubstep = SubstepAt(u, s + 1)
    BY <1>3 DEF AfterSubstep, UnitAt, u, s
  <2> QED
    BY <1>1, <1>3, <2>1 DEF Continues, UnitAt, u, s
<1>4. CASE ~ (s < Len(units[u].subs))
  <2>1. s = Len(units[u].subs)
    BY <1>1, <1>4
  <2>2. AfterSubstep = IF units[u].scoped THEN HookList(3, "post", u) ELSE Succeeds(3, u)
    BY <1>4 DEF AfterSubstep, UnitAt, u, s
  <2> QED
    BY <1>2, <2>1, <2>2 DEF Continues, UnitAt, u, s
<1> QED
  BY <1>3, <1>4

\* The invariant of places and hooks, of the next place n and the hooks c.
Fits(n, c) == Placed(n) /\ LevelInv(n, c)

LEMMA LeavesFits ==
  ASSUME TargetInv, Placed(at), AtHooks(at), NEW c, HooksExist(c), ClosedOnce(c),
         ClosedInOrder(c), Inside(at, c), Begun(at.level, Num(at.level, at.unit), at.phase, c),
         NEW n, Leaves(n)
  PROVE  Fits(n, c) /\ n.doing \in {"ready", "create", "collect"}
<1> DEFINE u == at.unit  l == at.level  k == l - 1
<1>1. /\ l \in Levels /\ l \in Nat /\ k \in 0 .. 3 /\ k = l - 1
      /\ u \in DOMAIN units /\ at.phase \in Phases
  BY LevelAt
<1> HIDE DEF u, l, k
<1>2. at.phase \in {"post", "on_error"} => Closed(l, Num(l, u), c)
  BY DEF Closed, u, l
<1>3. ASSUME NEW v \in DOMAIN units, NEW m, Inward(m, v, n), Inside(n, c)
      PROVE  Fits(n, c) /\ n.doing \in {"ready", "create"}
  <2>1. Placed(n)
    BY <1>3, InwardIsPlaced
  <2>2. n.doing \in {"ready", "create"}
    BY <1>3 DEF Inward, HookList, SubstepAt
  <2> QED
    BY <1>3, <2>1, <2>2 DEF Fits, LevelInv
<1>4. ASSUME NEW m \in 0 .. 3, NEW phase \in {"post", "on_error"}, Outward(m, u, phase, n),
             m <= l, l <= m + 1,
             \/ m = l /\ at.phase \notin {"post", "on_error"}
             \/ m < l /\ Closed(l, Num(l, u), c)
      PROVE  Fits(n, c) /\ n.doing \in {"ready", "collect"}
  <2>1. Placed(n)
    BY <1>1, <1>4, OutwardIsPlaced DEF Phases
  <2>2. /\ AtHooks(n) => Inside(n, c)
        /\ n.doing \in {"ready", "collect"}
        /\ n.doing = "collect" => AllClosed(c)
    BY <1>4, OutwardInside DEF u, l
  <2> QED
    BY <2>1, <2>2 DEF Fits, LevelInv, AtWork
<1>5. CASE at.phase = "pre" /\ Inward(at.level + 1, at.unit, n)
  <2>1. Inside(n, c)
    BY <1>1, <1>5, InwardInside DEF u, l
  <2> QED
    BY <1>1, <1>3, <1>5, <2>1 DEF u
<1>6. CASE at.phase = "pre" /\ Outward(at.level, at.unit, "on_error", n)
  <2>1. l \in 0 .. 3 /\ l <= l /\ l <= l + 1
    BY <1>1 DEF Levels
  <2>2. Outward(l, u, "on_error", n)
    BY <1>6 DEF u, l
  <2> QED
    BY <1>4, <1>6, <2>1, <2>2
<1>7. CASE at.phase = "post" /\ at.level = 3 /\ Ends3(at.unit, n)
  <2>1. Closed(3, at.unit, c)
    BY <1>2, <1>7 DEF u, l, Num
  <2>2. CASE u + 1 \in DOMAIN units /\ Inward(3, u + 1, n)
    <3>1. Inside(n, c)
      BY <1>7, <2>1, <2>2, InwardInside DEF u
    <3> QED
      BY <1>3, <2>2, <3>1
  <2>3. CASE Outward(2, u, "post", n)
    BY <1>1, <1>2, <1>4, <1>7, <2>3 DEF l
  <2> QED
    BY <1>7, <2>2, <2>3 DEF Ends3, u
<1>8. CASE \E phase \in {"post", "on_error"} :
             at.phase = phase /\ Outward(at.level - 1, at.unit, phase, n)
  <2>1. PICK phase \in {"post", "on_error"} : at.phase = phase /\ Outward(k, u, phase, n)
    BY <1>8 DEF u, l, k
  <2>2. k <= l /\ l <= k + 1 /\ k < l
    BY <1>1
  <2> QED
    BY <1>1, <1>2, <1>4, <2>1, <2>2
<1> QED
  BY <1>5, <1>6, <1>7, <1>8 DEF Leaves

LEMMA ContinuesFits ==
  ASSUME TargetInv, Placed(at), AtWork(at), NEW c, LevelInv(at, c), NEW n,
         Continues(n) \/ Outward(3, at.unit, "on_error", n)
  PROVE  Fits(n, c) /\ n.doing \in {"ready", "create", "collect"}
<1> DEFINE u == at.unit
<1>1. /\ u \in DOMAIN units /\ at.level = 3 /\ at.phase = "work" /\ UnitAt = units[u]
      /\ HooksExist(c) /\ ClosedOnce(c) /\ ClosedInOrder(c) /\ Inside(at, c)
      /\ u \in Nat /\ at.unit = u
  BY DEF Placed, AtWork, Place, UnitAt, LevelInv
<1> HIDE DEF u
<1>2. ASSUME NEW l \in {2, 3}, NEW phase \in {"post", "on_error"}, Outward(l, u, phase, n),
             l = 3 \/ ~ units[u].scoped
      PROVE  Fits(n, c) /\ n.doing \in {"ready", "collect"}
  <2>1. Placed(n)
    BY <1>1, <1>2, OutwardIsPlaced DEF Phases
  <2>2. l \in 0 .. 3 /\ l <= at.level /\ at.level <= l + 1
    BY <1>1, <1>2
  <2>3. \/ l = at.level /\ at.phase \notin {"post", "on_error"}
        \/ l < at.level /\ at.level = 3 /\ ~ units[at.unit].scoped
    BY <1>1, <1>2
  <2>4. /\ AtHooks(n) => Inside(n, c)
        /\ n.doing \in {"ready", "collect"}
        /\ n.doing = "collect" => AllClosed(c)
    BY <1>1, <1>2, <2>2, <2>3, OutwardInside
  <2> QED
    BY <1>1, <2>1, <2>4 DEF Fits, LevelInv, AtWork
<1>3. CASE Outward(3, at.unit, "on_error", n)
  BY <1>1, <1>2, <1>3
<1>4. CASE at.sub + 1 \in DOMAIN UnitAt.subs /\ n = SubstepAt(at.unit, at.sub + 1)
  <2>1. Placed(n)
    BY <1>1, <1>4, PlacesAre
  <2>2. n.doing = "create" /\ n.level = 3 /\ n.phase = "work" /\ n.unit = u
    BY <1>1, <1>4 DEF SubstepAt
  <2>3. Inside(n, c)
    BY <1>1, <2>2 DEF Inside
  <2> QED
    BY <1>1, <2>1, <2>2, <2>3 DEF Fits, LevelInv
<1>5. CASE UnitAt.scoped /\ n = HookList(3, "post", at.unit)
  <2>1. 3 \in Around(u)
    BY <1>1, <1>5, AroundIs
  <2>2. Placed(n)
    BY <1>1, <1>5, <2>1, PlacesAre DEF Phases
  <2>3. n.doing = "ready" /\ n.level = 3 /\ n.phase = "post" /\ n.unit = u
    BY <1>1, <1>5 DEF HookList
  <2>4. Inside(n, c)
    BY <1>1, <2>3 DEF Inside, Phases
  <2> QED
    BY <1>1, <2>2, <2>3, <2>4 DEF Fits, LevelInv
<1>6. CASE ~ UnitAt.scoped /\ Ends3(at.unit, n)
  <2>1. CASE u + 1 \in DOMAIN units /\ Inward(3, u + 1, n)
    <3>1. Inside(n, c)
      BY <1>1, <1>6, <2>1, InwardInside
    <3>2. Placed(n)
      BY <2>1, InwardIsPlaced
    <3>3. n.doing \in {"ready", "create"}
      BY <2>1 DEF Inward, HookList, SubstepAt
    <3> QED
      BY <1>1, <3>1, <3>2, <3>3 DEF Fits, LevelInv
  <2>2. CASE Outward(2, u, "post", n)
    BY <1>1, <1>2, <1>6, <2>2
  <2> QED
    BY <1>1, <1>6, <2>1, <2>2 DEF Ends3
<1> QED
  BY <1>3, <1>4, <1>5, <1>6 DEF Continues

-----------------------------------------------------------------------------
(***************************************************************************)
(* The substeps of a target in their order, numbered.                      *)
(***************************************************************************)
\* base[u] is the number of substeps of the units before u.
Numbers(us, base) ==
  /\ base \in [1 .. Len(us) + 1 -> Nat] /\ base[1] = 0
  /\ \A u \in 1 .. Len(us) : base[u + 1] = base[u] + Len(us[u].subs)
BaseOf(us) == CHOOSE base : Numbers(us, base)
Base == BaseOf(units)
Pos(u, s) == Base[u] + s
Total == Base[Len(units) + 1]

LEMMA LeastOf == ASSUME NEW S \in SUBSET Nat, S # {} PROVE \E m \in S : \A k \in S : m <= k
<1>1. IsWellFoundedOn(OpToRel(<, Nat), Nat)
  BY NatLessThanWellFounded
<1>2. PICK x \in S : \A y \in S : ~ (<<y, x>> \in OpToRel(<, Nat))
  BY <1>1, WFMin
<1>3. \A y \in S : ~ (y < x)
  BY <1>2 DEF OpToRel
<1> QED
  BY <1>3

LEMMA BaseExists ==
  ASSUME NEW us, Len(us) \in Nat, \A u \in 1 .. Len(us) : Len(us[u].subs) \in Nat
  PROVE  Numbers(us, BaseOf(us))
<1> DEFINE Upto(n, base) == /\ base \in [1 .. n -> Nat] /\ base[1] = 0
                            /\ \A u \in 1 .. Len(us) : u < n =>
                                  base[u + 1] = base[u] + Len(us[u].subs)
           Bad == {n \in 1 .. Len(us) + 1 : ~ \E base : Upto(n, base)}
<1>1. Bad = {}
  <2> SUFFICES ASSUME Bad # {} PROVE FALSE
    OBVIOUS
  <2>1. PICK n \in Bad : \A k \in Bad : n <= k
    <3>1. Bad \in SUBSET Nat
      OBVIOUS
    <3> HIDE DEF Bad
    <3> QED
      BY <3>1, LeastOf
  <2>2. n \in Nat /\ n >= 1 /\ n <= Len(us) + 1
    OBVIOUS
  <2>3. CASE n = 1
    <3>1. Upto(n, [u \in 1 .. 1 |-> 0])
      BY <2>3
    <3> QED
      BY <3>1
  <2>4. CASE n # 1
    <3> DEFINE p == n - 1
    <3>0. /\ p \in 1 .. Len(us) /\ n = p + 1 /\ p \in 1 .. Len(us) + 1
          /\ p \in Nat /\ ~ (n <= p)
      BY <2>2, <2>4
    <3>1. p \in 1 .. Len(us) /\ n = p + 1 /\ p \notin Bad /\ p \in 1 .. Len(us) + 1
      <4> HIDE DEF Bad, p
      <4> QED
        BY <2>1, <3>0
    <3>2. PICK base : Upto(p, base)
      BY <3>1
    <3> DEFINE next == base[p] + Len(us[p].subs)
               longer == [u \in 1 .. n |-> IF u = n THEN next ELSE base[u]]
    <3> HIDE DEF p
    <3>3. \A u \in 1 .. p : base[u] \in Nat
      BY <3>2
    <3>4. next \in Nat
      BY <3>1, <3>3
    <3> HIDE DEF next
    <3>5. longer \in [1 .. n -> Nat] /\ longer[1] = 0
      BY <2>2, <2>4, <3>1, <3>2, <3>3, <3>4
    <3>6. ASSUME NEW u \in 1 .. Len(us), u < n
          PROVE  longer[u + 1] = longer[u] + Len(us[u].subs)
      <4>1. CASE u < p
        <5>1. /\ u \in 1 .. n /\ u + 1 \in 1 .. n /\ u # n /\ u + 1 # n
          BY <2>2, <3>1, <3>6, <4>1
        <5>2. base[u + 1] = base[u] + Len(us[u].subs)
          BY <3>2, <4>1
        <5> QED
          BY <5>1, <5>2
      <4>2. CASE u = p
        <5>1. u \in 1 .. n /\ u + 1 = n /\ u # n /\ n \in 1 .. n
          BY <2>2, <3>1, <4>2
        <5> QED
          BY <4>2, <5>1 DEF next
      <4> QED
        BY <3>1, <3>6, <4>1, <4>2
    <3> HIDE DEF longer
    <3>7. Upto(n, longer)
      BY <3>5, <3>6
    <3> QED
      BY <3>7
  <2> QED
    BY <2>3, <2>4
<1>2. Len(us) + 1 \notin Bad /\ Len(us) + 1 \in 1 .. Len(us) + 1
  BY SMTT(30), <1>1
<1>3. PICK base : Upto(Len(us) + 1, base)
  BY <1>2
<1>4. Numbers(us, base)
  BY <1>3 DEF Numbers
<1> QED
  BY <1>4 DEF BaseOf

LEMMA BaseGrows ==
  ASSUME NEW us, Len(us) \in Nat, \A u \in 1 .. Len(us) : Len(us[u].subs) \in Nat,
         NEW base, Numbers(us, base), NEW u \in 1 .. Len(us) + 1, NEW v \in 1 .. Len(us) + 1,
         u <= v
  PROVE  base[u] <= base[v]
<1> DEFINE Bad == {n \in 1 .. Len(us) + 1 : u <= n /\ ~ (base[u] <= base[n])}
<1>1. \A n \in 1 .. Len(us) + 1 : base[n] \in Nat
  BY DEF Numbers
<1>2. Bad = {}
  <2> SUFFICES ASSUME Bad # {} PROVE FALSE
    OBVIOUS
  <2>1. PICK n \in Bad : \A k \in Bad : n <= k
    <3>1. Bad \in SUBSET Nat
      OBVIOUS
    <3> HIDE DEF Bad
    <3> QED
      BY <3>1, LeastOf
  <2>2. n # u /\ n \in 1 .. Len(us) + 1 /\ u <= n
    BY <1>1
  <2> DEFINE p == n - 1
  <2>3. p \in 1 .. Len(us) /\ n = p + 1 /\ u <= p /\ p \in 1 .. Len(us) + 1 /\ p < n
    BY <2>2
  <2>4. p \notin Bad
    BY <2>1, <2>3
  <2> HIDE DEF p
  <2>5. base[u] <= base[p]
    BY <2>3, <2>4
  <2>6. base[n] = base[p] + Len(us[p].subs)
    BY <2>3 DEF Numbers
  <2>7. base[u] <= base[n]
    BY <1>1, <2>2, <2>3, <2>5, <2>6
  <2> QED
    BY <2>7
<1> QED
  BY <1>2

LEMMA BaseFacts ==
  ASSUME TargetInv
  PROVE  /\ \A u \in 1 .. Len(units) + 1 : Base[u] \in Nat
         /\ Base[1] = 0 /\ Total \in Nat
         /\ \A u \in DOMAIN units : /\ Base[u] \in Nat /\ Base[u + 1] \in Nat
                                    /\ Base[u + 1] = Pos(u, Len(units[u].subs))
                                    /\ Base[u + 1] <= Total
         /\ \A u, v \in DOMAIN units : u < v => Base[u + 1] <= Base[v]
<1>1. Len(units) \in Nat /\ \A u \in 1 .. Len(units) : Len(units[u].subs) \in Nat
  BY TargetFacts
<1>2. Numbers(units, Base)
  BY <1>1, BaseExists DEF Base
<1>3. \A u, v \in 1 .. Len(units) + 1 : u <= v => Base[u] <= Base[v]
  BY <1>1, <1>2, BaseGrows
<1>4. DOMAIN units = 1 .. Len(units)
  BY TargetFacts
<1>5. \A u \in DOMAIN units : u \in 1 .. Len(units) + 1 /\ u + 1 \in 1 .. Len(units) + 1
                              /\ u + 1 <= Len(units) + 1
  BY <1>1, <1>4
<1>6. Len(units) + 1 \in 1 .. Len(units) + 1
  BY <1>1
<1>7. /\ \A u \in 1 .. Len(units) + 1 : Base[u] \in Nat
      /\ Base[1] = 0 /\ Total \in Nat
  BY <1>2, <1>6 DEF Numbers, Total
<1>8. ASSUME NEW u \in DOMAIN units
      PROVE  /\ Base[u] \in Nat /\ Base[u + 1] \in Nat
             /\ Base[u + 1] = Pos(u, Len(units[u].subs))
             /\ Base[u + 1] <= Total
  <2>1. Base[u] \in Nat /\ Base[u + 1] \in Nat
    BY <1>5, <1>7
  <2>2. Base[u + 1] = Pos(u, Len(units[u].subs))
    BY <1>2, <1>4 DEF Numbers, Pos
  <2>3. Base[u + 1] <= Total
    BY <1>3, <1>5, <1>6 DEF Total
  <2> QED
    BY <2>1, <2>2, <2>3
<1>9. ASSUME NEW u \in DOMAIN units, NEW v \in DOMAIN units, u < v
      PROVE  Base[u + 1] <= Base[v]
  <2>1. u + 1 <= v /\ u + 1 \in 1 .. Len(units) + 1 /\ v \in 1 .. Len(units) + 1
    BY <1>1, <1>4, <1>5, <1>9
  <2> QED
    BY <1>3, <2>1
<1> QED
  BY <1>7, <1>8, <1>9

\* The number of a substep tells which it is.
LEMMA PosFacts ==
  ASSUME TargetInv, NEW u \in DOMAIN units, NEW s \in DOMAIN units[u].subs
  PROVE  /\ Pos(u, s) \in Nat /\ Pos(u, s) >= 1 /\ Pos(u, s) <= Base[u + 1]
         /\ Pos(u, s) <= Total
         /\ \A v \in DOMAIN units : \A t \in DOMAIN units[v].subs :
              Pos(u, s) = Pos(v, t) => u = v /\ s = t
<1>1. \A v \in DOMAIN units : \A t \in DOMAIN units[v].subs :
         /\ v \in Nat /\ Base[v] \in Nat /\ Base[v + 1] \in Nat /\ t \in Nat /\ t >= 1
         /\ Pos(v, t) = Base[v] + t /\ Pos(v, t) <= Base[v + 1] /\ Base[v + 1] <= Total
  BY TargetFacts, BaseFacts DEF Pos
<1>2. ASSUME NEW v \in DOMAIN units, NEW t \in DOMAIN units[v].subs, Pos(u, s) = Pos(v, t)
      PROVE  u = v /\ s = t
  <2>1. ~ (u < v)
    <3>1. u < v => Base[u + 1] <= Base[v]
      BY BaseFacts
    <3> QED
      BY <1>1, <1>2, <3>1
  <2>2. ~ (v < u)
    <3>1. v < u => Base[v + 1] <= Base[u]
      BY BaseFacts
    <3> QED
      BY <1>1, <1>2, <3>1
  <2>3. u = v
    BY <1>1, <2>1, <2>2
  <2> QED
    BY <1>1, <1>2, <2>3
<1>3. Pos(u, s) \in Nat /\ Pos(u, s) >= 1 /\ Total \in Nat
  BY <1>1, BaseFacts
<1> QED
  BY <1>1, <1>2, <1>3

-----------------------------------------------------------------------------
(***************************************************************************)
(* What the actions do.                                                    *)
(***************************************************************************)
Rows == {"none", "running", "success", "failed", "cancelled"}
Verdicts == {"success", "failed", "cancelled", "raised"}
Step == [task : Tasks, sub : Substeps, row : Rows, verdict : Verdicts \cup {"none"}, summary : Nat]

\* The run stays at its place, for another command or for what follows it.
Stays(n) ==
  /\ n \in Place /\ n.level = at.level /\ n.phase = at.phase
  /\ n.unit = at.unit /\ n.sub = at.sub
Here == <<at.level, Num(at.level, at.unit), at.phase>>
NoEffect == UNCHANGED <<at, steps, stepIds, artifacts, collected, begun, outcome>>

HookEffect ==
  /\ AtHooks(at) /\ begun' = begun \cup {Here}
  /\ UNCHANGED <<steps, stepIds, artifacts, collected, cancels>>
  /\ \/ /\ Stays(at') /\ UNCHANGED outcome
        /\ \/ at'.doing = "hook" /\ at.doing = "ready" /\ stage = "idle" /\ stage' = "starting"
           \/ /\ at'.doing = "ready" /\ at.doing = "hook" /\ UNCHANGED subprocessVars
              /\ stage = "idle" /\ result = "exit0"
     \/ /\ Leaves(at') /\ UNCHANGED outcome
        /\ at.doing = "hook" => stage = "idle" /\ result \in Unsuccessful
        /\ UNCHANGED subprocessVars
     \/ /\ at.doing = "hook" /\ stage = "idle" /\ UNCHANGED subprocessVars
        /\ at' = Over /\ outcome' = (IF result = "cancelled" THEN "cancelled" ELSE "raised")
        /\ result \in {"cancelled", "error"}

LEMMA HookEffects ==
  ASSUME TargetInv, Placed(at), LevelInv(at, begun), NextHook \/ HooksDone \/ HookEnds
  PROVE  HookEffect
<1>1. AtHooks(at) /\ ListAt = Here
  BY DEF NextHook, HooksDone, HookEnds, AtHooks, ListAt, Here, Num
<1>2. at.doing = "hook" => begun = begun \cup {Here}
  BY DEF LevelInv, Begun, Here
<1>3. at \in Place /\ at.index + 1 \in Nat \ {0}
  BY DEF Placed, Place
<1>4. UNCHANGED <<steps, stepIds, artifacts, collected, cancels>> /\ begun' = begun \cup {Here}
  BY <1>1, <1>2 DEF NextHook, HooksDone, HookEnds
<1>5. Leaves(AfterHooks(TRUE)) /\ Leaves(AfterHooks(FALSE))
  BY <1>1, AfterHooksLeaves
<1>6. CASE at' = [at EXCEPT !.doing = "hook"] /\ NextHook /\ Call
  <2>1. Stays(at') /\ at'.doing = "hook"
    BY <1>3, <1>6 DEF Stays, Place
  <2> QED
    BY <1>1, <1>4, <1>6, <2>1 DEF NextHook, Call, HookEffect
<1>7. CASE \/ NextHook /\ HookRefused
           \/ HooksDone
           \/ HookEnds /\ result \in Unsuccessful /\ at' = AfterHooks(FALSE) /\ UNCHANGED outcome
  <2>1. /\ Leaves(at') /\ UNCHANGED outcome /\ UNCHANGED subprocessVars
        /\ at.doing = "hook" => stage = "idle" /\ result \in Unsuccessful
    BY <1>5, <1>7 DEF NextHook, HookRefused, HooksDone, HookEnds
  <2> QED
    BY <1>1, <1>4, <2>1 DEF HookEffect
<1>8. CASE /\ HookEnds /\ result = "exit0" /\ UNCHANGED outcome
           /\ at' = [at EXCEPT !.doing = "ready", !.index = @ + 1]
  <2> DEFINE next == at.index + 1
  <2>1. next \in Nat \ {0} /\ at' = [at EXCEPT !.doing = "ready", !.index = next]
    BY <1>3, <1>8
  <2> HIDE DEF next
  <2>2. Stays(at') /\ at'.doing = "ready"
    BY <1>3, <2>1 DEF Stays, Place
  <2>3. UNCHANGED subprocessVars /\ stage = "idle" /\ at.doing = "hook"
    BY <1>8 DEF HookEnds
  <2> QED
    BY <1>1, <1>4, <1>8, <2>2, <2>3 DEF HookEffect
<1>9. CASE HookEnds /\ \/ result = "cancelled" /\ Escapes("cancelled")
                       \/ result = "error" /\ Escapes("raised")
  BY <1>1, <1>4, <1>9 DEF HookEnds, HookEffect, Escapes
<1>10. CASE NextHook
  BY <1>6, <1>7, <1>10 DEF NextHook
<1>11. CASE HookEnds
  BY <1>7, <1>8, <1>9, <1>11 DEF HookEnds
<1> QED
  BY <1>7, <1>10, <1>11

\* The last step has this verdict.
Judged(v, s) ==
  steps' = [steps EXCEPT ![Len(steps)] = [steps[Len(steps)] EXCEPT !.verdict = v, !.summary = s]]

WorkEffect ==
  /\ at.doing \in {"start", "command"} /\ Stays(at')
  /\ UNCHANGED <<stepIds, artifacts, collected, begun, outcome, cancels>>
  /\ \/ /\ at'.doing = "command" /\ at.doing = "start" /\ UNCHANGED steps
        /\ stage = "idle" /\ stage' = "starting"
     \/ /\ at'.doing = "start" /\ at.doing = "command" /\ UNCHANGED <<steps, subprocessVars>>
        /\ stage = "idle" /\ result \in {"exit0"} \cup Unsuccessful
     \/ /\ at'.doing = "finish" /\ UNCHANGED subprocessVars
        /\ \E v \in Verdicts, s \in {0, Len(steps)} :
             /\ Judged(v, s)
             /\ s # 0 => v = "success" /\ SubAt = "backup"
             /\ at.doing = "command" /\ result \in {"cancelled", "error"} =>
                  v \in {"cancelled", "raised"}
        /\ at.doing = "command" => stage = "idle"

LEMMA VerdictEffects ==
  ASSUME Placed(at), NEW v \in Verdicts, NEW s, Verdict(v, s)
  PROVE  Stays(at') /\ at'.doing = "finish" /\ Judged(v, s)
<1>1. at \in Place
  BY DEF Placed
<1>2. Stays(at') /\ at'.doing = "finish"
  BY <1>1 DEF Verdict, Stays, Place
<1>3. Judged(v, s)
  BY DEF Verdict, Judged
<1> QED
  BY <1>2, <1>3

LEMMA OnToEffects ==
  ASSUME Placed(at), NEW index \in Nat \ {0}, OnTo(index)
  PROVE  Stays(at') /\ at'.doing = "start" /\ UNCHANGED steps
  BY DEF OnTo, Placed, Place, Stays

LEMMA WorkEffects ==
  ASSUME Placed(at), CommandStarts \/ CommandEnds
  PROVE  WorkEffect
<1>1. /\ UNCHANGED <<stepIds, artifacts, collected, begun, outcome, cancels>>
      /\ at.doing \in {"start", "command"}
  BY DEF CommandStarts, CommandEnds
<1>2. CASE CommandStarts /\ Call /\ at' = [at EXCEPT !.doing = "command"] /\ UNCHANGED steps
  <2>1. Stays(at') /\ at'.doing = "command"
    BY <1>2 DEF Placed, Place, Stays
  <2> QED
    BY <1>1, <1>2, <2>1 DEF CommandStarts, Call, WorkEffect
<1>3. ASSUME at.doing = "start", NEW v \in {"failed", "raised"}, Verdict(v, 0),
             UNCHANGED subprocessVars
      PROVE  WorkEffect
  <2>1. Stays(at') /\ at'.doing = "finish" /\ Judged(v, 0)
    BY <1>3, VerdictEffects DEF Verdicts
  <2> QED
    BY <1>1, <1>3, <2>1 DEF WorkEffect, Verdicts
<1>4. CASE CommandStarts
  <2>1. at.doing = "start"
    BY <1>4 DEF CommandStarts
  <2> QED
    BY <1>2, <1>3, <1>4, <2>1 DEF CommandStarts, SourceRefused
<1>5. ASSUME CommandEnds, NEW v \in Verdicts, NEW s \in {0, Len(steps)}, Verdict(v, s),
             s # 0 => v = "success" /\ SubAt = "backup",
             result \in {"cancelled", "error"} => v \in {"cancelled", "raised"}
      PROVE  WorkEffect
  <2>1. Stays(at') /\ at'.doing = "finish" /\ Judged(v, s)
    BY <1>5, VerdictEffects
  <2>2. UNCHANGED subprocessVars /\ stage = "idle"
    BY <1>5 DEF CommandEnds
  <2> QED
    BY <1>1, <1>5, <2>1, <2>2 DEF WorkEffect
<1>6. ASSUME CommandEnds, NEW index \in {2, 3}, OnTo(index),
             result \in {"exit0"} \cup Unsuccessful
      PROVE  WorkEffect
  <2>1. Stays(at') /\ at'.doing = "start" /\ UNCHANGED steps
    BY <1>6, OnToEffects
  <2>2. at.doing = "command" /\ stage = "idle" /\ UNCHANGED subprocessVars
    BY <1>6 DEF CommandEnds
  <2> QED
    BY <1>1, <1>6, <2>1, <2>2 DEF WorkEffect
<1>7. CASE CommandEnds
  <2>1. CASE RepositoryChecked
    BY <1>6, <1>7, <2>1 DEF RepositoryChecked
  <2>2. CASE RepositoryCreated
    BY <1>5, <1>6, <1>7, <2>2 DEF RepositoryCreated, Verdicts, Unsuccessful
  <2>3. CASE RemoteChecked
    BY <1>5, <1>6, <1>7, <2>3 DEF RemoteChecked, Verdicts, Unsuccessful
  <2>4. CASE WorkEnds
    BY <1>5, <1>7, <2>4 DEF WorkEnds, Summaries, Verdicts, Unsuccessful
  <2>5. CASE \/ result = "cancelled" /\ Verdict("cancelled", 0)
             \/ result = "error" /\ Verdict("raised", 0)
    BY <1>5, <1>7, <2>5 DEF Verdicts
  <2> QED
    BY <1>7, <2>1, <2>2, <2>3, <2>4, <2>5 DEF CommandEnds
<1> QED
  BY <1>4, <1>7

-----------------------------------------------------------------------------
(***************************************************************************)
(* The steps so far, at the place a with the hooks b.                      *)
(***************************************************************************)
AllGood(st) == \A i \in DOMAIN st : st[i].verdict = "success"

\* How many steps there are at each place.
StepsAt(a, st) ==
  /\ a.doing = "create" => Len(st) + 1 = Pos(a.unit, a.sub) /\ AllGood(st)
  /\ a.doing \in {"start", "command", "finish"} =>
       /\ Len(st) = Pos(a.unit, a.sub)
       /\ a.doing # "finish" => st[Len(st)].verdict = "none"
       /\ a.doing = "finish" => st[Len(st)].verdict \in Verdicts
  /\ AtHooks(a) /\ a.phase = "pre" => Len(st) = Base[a.unit] /\ AllGood(st)
  /\ AtHooks(a) /\ a.phase = "post" =>
       /\ Len(st) = Base[a.unit + 1] /\ AllGood(st)
       /\ a.level < 3 => a.unit = Len(units)

StepsAre(st) ==
  /\ st \in Seq(Step)
  /\ Len(st) <= Total
  /\ \A i \in DOMAIN st : /\ st[i].summary \in {0, i}
                          /\ st[i].sub # "backup" => st[i].summary = 0
                          /\ st[i].task \in {units[u].task : u \in DOMAIN units}
                          /\ i < Len(st) => st[i].verdict = "success"
  /\ \A u \in DOMAIN units : \A s \in DOMAIN units[u].subs : Pos(u, s) <= Len(st) =>
        st[Pos(u, s)].task = units[u].task /\ st[Pos(u, s)].sub = units[u].subs[s]

AllDone(st) == Len(st) = Total /\ AllGood(st)
StepsInv(a, st, b) ==
  /\ StepsAre(st) /\ StepsAt(a, st)
  /\ Begun(1, 0, "post", b) => AllDone(st)

\* The job's post_hooks are begun only when all the rest is done.
LEMMA PostIsLast ==
  ASSUME Placed(at), NEW b, LevelInv(at, b), Begun(1, 0, "post", b)
  PROVE  /\ ~ AtWork(at)
         /\ AtHooks(at) => at.level = 1 /\ at.phase = "post"
<1>1. Closed(1, 0, b) /\ 1 \in Levels /\ "post" \in Phases
  BY DEF Closed, Levels, Phases
<1>2. AtWork(at) => at.level = 3
  BY DEF Placed
<1>3. AtHooks(at) => at.level \in Around(at.unit)
  BY DEF Placed
<1>4. AtHooks(at) \/ AtWork(at) =>
        /\ ~ (1 < at.level)
        /\ Begun(at.level, Num(at.level, at.unit), "post", b) => "post" \in {"pre", at.phase}
  BY <1>1 DEF LevelInv, Inside
<1> QED
  BY <1>2, <1>3, <1>4 DEF Around, Num

LEMMA Ends3Steps ==
  ASSUME TargetInv, NEW u \in DOMAIN units, NEW n, Ends3(u, n), NEW st,
         Len(st) = Base[u + 1], AllGood(st)
  PROVE  StepsAt(n, st)
<1>1. CASE u + 1 \in DOMAIN units /\ Inward(3, u + 1, n)
  <2>1. /\ n.doing \in {"ready", "create"} /\ n.unit = u + 1
        /\ n.phase \in {"pre", "work"} /\ n.sub = 1
        /\ n.doing = "create" => n.phase = "work"
        /\ n.doing = "ready" => n.phase = "pre"
    BY <1>1 DEF Inward, HookList, SubstepAt
  <2> DEFINE v == u + 1
  <2>2. Base[v] \in Nat
    BY BaseFacts
  <2>3. Len(st) = Base[v] /\ n.unit = v /\ Pos(v, 1) = Base[v] + 1
    BY <2>1 DEF Pos
  <2>4. /\ n.doing = "create" => n.sub = 1
        /\ n.doing = "ready" => n.phase = "pre"
        /\ n.doing \in {"ready", "create"}
    BY <2>1
  <2> HIDE DEF v
  <2>5. Len(st) + 1 = Pos(v, 1)
    BY <2>3
  <2>6. n.doing = "create" => Len(st) + 1 = Pos(n.unit, n.sub)
    BY <2>3, <2>4, <2>5
  <2> QED
    BY <2>3, <2>4, <2>6 DEF StepsAt, AtHooks
<1>2. CASE u = Len(units) /\ Outward(2, u, "post", n)
  <2>1. /\ n.doing \in {"ready", "collect"}
        /\ n.doing = "ready" => n.phase = "post" /\ n.unit = u
    BY <1>2 DEF Outward, HookList, Collecting
  <2> QED
    BY <1>2, <2>1 DEF StepsAt, AtHooks
<1> QED
  BY <1>1, <1>2 DEF Ends3

LEMMA LeavesSteps ==
  ASSUME TargetInv, Placed(at), AtHooks(at), NEW st, StepsAt(at, st), NEW n, Leaves(n)
  PROVE  StepsAt(n, st)
<1> DEFINE u == at.unit
<1>1. u \in DOMAIN units /\ Base[u] \in Nat /\ Pos(u, 1) = Base[u] + 1
  BY BaseFacts DEF Placed, Pos
<1>2. CASE at.phase = "pre" /\ Inward(at.level + 1, at.unit, n)
  <2>1. /\ n.doing \in {"ready", "create"} /\ n.unit = u
        /\ n.doing = "create" => n.sub = 1
        /\ n.doing = "ready" => n.phase = "pre"
    BY <1>2 DEF Inward, HookList, SubstepAt
  <2>2. Len(st) = Base[u] /\ AllGood(st)
    BY <1>2 DEF StepsAt
  <2> HIDE DEF u
  <2> QED
    BY <1>1, <2>1, <2>2 DEF StepsAt, AtHooks
<1>3. CASE \/ Outward(at.level, at.unit, "on_error", n)
           \/ Outward(at.level - 1, at.unit, "on_error", n)
  <2>1. n.doing = "collect" \/ (n.doing = "ready" /\ n.phase = "on_error")
    BY <1>3 DEF Outward, HookList, Collecting
  <2> QED
    BY <2>1 DEF StepsAt, AtHooks
<1>4. CASE at.phase = "post" /\ at.level = 3 /\ Ends3(at.unit, n)
  BY <1>1, <1>4, Ends3Steps DEF StepsAt
<1>5. CASE at.phase = "post" /\ at.level < 3 /\ Outward(at.level - 1, at.unit, "post", n)
  <2>1. /\ n.doing \in {"ready", "collect"}
        /\ n.doing = "ready" => n.phase = "post" /\ n.unit = u
    BY <1>5 DEF Outward, HookList, Collecting
  <2> QED
    BY <1>5, <2>1 DEF StepsAt, AtHooks
<1> QED
  BY <1>2, <1>3, <1>4, <1>5 DEF Leaves

LEMMA ContinuesSteps ==
  ASSUME TargetInv, Placed(at), AtWork(at), NEW st, Len(st) = Pos(at.unit, at.sub), AllGood(st),
         NEW n, Continues(n)
  PROVE  StepsAt(n, st)
<1> DEFINE u == at.unit  s == at.sub
<1>1. /\ u \in DOMAIN units /\ s \in Nat /\ Base[u] \in Nat
      /\ Pos(u, s) = Base[u] + s /\ Pos(u, s + 1) = Base[u] + (s + 1)
      /\ s = Len(units[u].subs) => Base[u + 1] = Pos(u, s)
      /\ UnitAt = units[u]
  BY BaseFacts DEF Placed, Place, Pos, UnitAt
<1> HIDE DEF u, s
<1>2. CASE n = SubstepAt(u, s + 1)
  <2>1. n.doing = "create" /\ n.unit = u /\ n.sub = s + 1
    BY <1>2 DEF SubstepAt
  <2> QED
    BY <1>1, <2>1 DEF StepsAt, AtHooks, u, s
<1>3. CASE s = Len(units[u].subs) /\ n = HookList(3, "post", u)
  <2>1. n.doing = "ready" /\ n.unit = u /\ n.phase = "post" /\ n.level = 3
    BY <1>3 DEF HookList
  <2> QED
    BY <1>1, <1>3, <2>1 DEF StepsAt, AtHooks, u, s
<1>4. CASE s = Len(units[u].subs) /\ Ends3(u, n)
  <2>1. Len(st) = Base[u + 1]
    BY <1>1, <1>4 DEF u, s
  <2> QED
    BY <1>1, <1>4, <2>1, Ends3Steps
<1> QED
  BY <1>1, <1>2, <1>3, <1>4 DEF Continues, u, s

\* A change of the last step only.
LEMMA LastChanges ==
  ASSUME NEW st \in Seq(Step), Len(st) >= 1, NEW w \in Step
  PROVE  LET ut == [st EXCEPT ![Len(st)] = w]
         IN  /\ ut \in Seq(Step) /\ Len(ut) = Len(st) /\ DOMAIN ut = DOMAIN st
             /\ DOMAIN st = 1 .. Len(st) /\ Len(st) \in Nat
             /\ ut[Len(st)] = w /\ \A i \in DOMAIN st : i # Len(st) => ut[i] = st[i]
<1>1. /\ Len(st) \in Nat /\ DOMAIN st = 1 .. Len(st)
      /\ Len(st) \in 1 .. Len(st)
  BY LenProperties
<1>2. [st EXCEPT ![Len(st)] = w] \in Seq(Step) /\ Len([st EXCEPT ![Len(st)] = w]) = Len(st)
  BY <1>1, ExceptSeq
<1> DEFINE l == Len(st)
<1>3. l \in DOMAIN st
  BY <1>1
<1> HIDE DEF l
<1>4. LET ut == [st EXCEPT ![l] = w]
      IN  DOMAIN ut = DOMAIN st /\ ut[l] = w /\ \A i \in DOMAIN st : i # l => ut[i] = st[i]
  BY <1>3
<1> QED
  BY <1>1, <1>2, <1>4 DEF l

\* Then all that is said of the steps stays true of the others.
LEMMA LastChangesSteps ==
  ASSUME TargetInv, NEW st, StepsAre(st), Len(st) >= 1, NEW w \in Step, w.task = st[Len(st)].task,
         w.sub = st[Len(st)].sub, w.summary \in {0, Len(st)},
         w.sub # "backup" => w.summary = 0
  PROVE  StepsAre([st EXCEPT ![Len(st)] = w])
<1> DEFINE ut == [st EXCEPT ![Len(st)] = w]
<1>1. /\ ut \in Seq(Step) /\ Len(ut) = Len(st) /\ DOMAIN ut = DOMAIN st
      /\ DOMAIN st = 1 .. Len(st) /\ Len(st) \in Nat
      /\ ut[Len(st)] = w /\ \A i \in DOMAIN st : i # Len(st) => ut[i] = st[i]
  BY LastChanges DEF StepsAre
<1> HIDE DEF ut
<1>2. \A i \in DOMAIN ut : /\ ut[i].summary \in {0, i}
                           /\ ut[i].sub # "backup" => ut[i].summary = 0
                           /\ ut[i].task = st[i].task /\ ut[i].sub = st[i].sub
                           /\ i < Len(ut) => ut[i].verdict = "success"
  BY <1>1 DEF StepsAre
<1>3. \A i \in DOMAIN ut : ut[i].task \in {units[u].task : u \in DOMAIN units}
  BY <1>1, <1>2 DEF StepsAre
<1>4. ASSUME TRUE, NEW u \in DOMAIN units, NEW s \in DOMAIN units[u].subs, Pos(u, s) <= Len(ut)
      PROVE  ut[Pos(u, s)].task = units[u].task /\ ut[Pos(u, s)].sub = units[u].subs[s]
  <2> DEFINE p == Pos(u, s)
  <2>1. st[p].task = units[u].task /\ st[p].sub = units[u].subs[s]
    BY <1>1, <1>4 DEF StepsAre
  <2>2. p \in Nat /\ p >= 1 /\ p <= Len(ut)
    BY <1>4, PosFacts
  <2> HIDE DEF p
  <2>3. p \in DOMAIN ut
    BY <1>1, <2>2
  <2> QED
    BY <1>2, <2>1, <2>3 DEF p
<1>5. Len(ut) <= Total
  BY <1>1 DEF StepsAre
<1>6. StepsAre(ut)
  BY <1>1, <1>2, <1>3, <1>4, <1>5 DEF StepsAre
<1> QED
  BY <1>6 DEF ut

-----------------------------------------------------------------------------
(***************************************************************************)
(* The inductive invariant.                                                *)
(***************************************************************************)
\* Only a hook or the operation of a substep has a command.  A cancelled run is over, or the
\* cancellation is on its way through its command, or it is the result of its last step.
CancelInv ==
  /\ cancels \in 0 .. MaxCancels
  /\ at.doing \notin {"hook", "command"} => stage = "idle"
  /\ cancels > 0 =>
       \/ at.doing = "over"
       \/ /\ at.doing \in {"hook", "command"}
          /\ \/ stage = "idle" /\ result \in {"cancelled", "error"}
             \/ stage \in Ending /\ cause = "cancelled"
       \/ at.doing = "finish" /\ LastStep.verdict \in {"cancelled", "raised"}

OutcomeInv ==
  /\ outcome \in {"none", "success", "failed", "cancelled", "raised"}
  /\ at.doing = "over" <=> outcome # "none"
  /\ outcome = "success" => Successful

\* What the row of step i of st may be, at the place a of a run with c cancellations.
RowOf(i, st, a, c) ==
  IF mode \notin {"normal", "dryRun"} \/ (a.doing = "over" /\ c > 0 /\ i = Len(st))
  THEN {"none", "running", RowFor(st[i].verdict)}
  ELSE IF i = Len(st) /\ a.doing \in {"start", "command", "finish"} THEN {"running"}
  ELSE {RowFor(st[i].verdict)}

RowInv == \A i \in DOMAIN steps : steps[i].row \in RowOf(i, steps, at, cancels)

\* The number of the substep that the statistics come to next.
Until(a, out) ==
  IF a.doing = "collect" THEN Pos(a.unit, a.sub)
  ELSE IF a.doing = "over" /\ out \in {"success", "failed"} THEN Total + 1 ELSE 1

\* The steps whose ids wait in queue q.
Awaited(q, a, out, st) ==
  {n \in DOMAIN st : /\ st[n].verdict = "success" /\ <<st[n].task, st[n].sub>> = q
                     /\ Until(a, out) <= n
                     /\ a.doing = "finish" => n < Len(st)}

\* A queue of step ids has these, in their order.
Lists(queue, S) ==
  /\ queue \in Seq(Nat)
  /\ \A i \in DOMAIN queue : queue[i] \in S
  /\ \A n \in S : \E i \in DOMAIN queue : queue[i] = n
  /\ \A i, j \in DOMAIN queue : i < j => queue[i] < queue[j]

BackupTasks == {q[1] : q \in Queues}

\* Before the end of the run: without a history there are no step ids, with one they are
\* those of the steps that were not collected yet; with them wait the summaries of backups.
QueueInv(a, out, st, ids, arts) ==
  /\ ids \in [Queues -> Seq(DOMAIN st)] /\ arts \in [BackupTasks -> Seq({0} \cup DOMAIN st)]
  /\ a.doing # "over" =>
       /\ mode = "noHistory" => \A q \in Queues : ids[q] = << >>
       /\ mode # "noHistory" => \A q \in Queues : Lists(ids[q], Awaited(q, a, out, st))
       /\ \A t \in BackupTasks : \A k \in DOMAIN arts[t] : arts[t][k] # 0 =>
            st[arts[t][k]].verdict = "success" /\ st[arts[t][k]].task = t
       /\ mode \in {"normal", "faultyHistory"} => \A t \in BackupTasks :
            /\ Len(arts[t]) = Len(ids[<<t, "backup">>])
            /\ \A k \in DOMAIN arts[t] : arts[t][k] = st[ids[<<t, "backup">>][k]].summary

\* What is told of a step, and what of a successful backup.
ContextOf(c, st) ==
  /\ c.id # 0 => /\ c.id \in DOMAIN st
                 /\ st[c.id].task = c.task /\ st[c.id].sub = c.sub
                 /\ st[c.id].verdict = "success" /\ st[c.id].summary = c.summary
  /\ c.summary # 0 => /\ c.summary \in DOMAIN st
                      /\ st[c.summary].task = c.task /\ st[c.summary].verdict = "success"

BackupsUntil(n, st) == {i \in DOMAIN st : i < n /\ st[i].sub \in BackupSubsteps}

CollectInv(a, out, st, coll, b) ==
  LET next == Until(a, out)
  IN  /\ coll \in Seq([task : Tasks, sub : Substeps, id : Nat, summary : Nat])
      /\ next = 1 => coll = << >>
      /\ \A n \in DOMAIN coll : ContextOf(coll[n], st) /\ coll[n].id < next
      /\ \A n, m \in DOMAIN coll : coll[n].id # 0 /\ coll[n].id = coll[m].id => n = m
      /\ mode \in {"normal", "faultyHistory"} =>
           \A i \in BackupsUntil(next, st) : st[i].verdict = "success" =>
              \E n \in DOMAIN coll : coll[n].id = i
      /\ mode = "noHistory" /\ Begun(1, 0, "post", b) =>
           Len(coll) = Cardinality(BackupsUntil(next, st))

IInv ==
  /\ SubInv /\ TargetInv
  /\ Placed(at) /\ LevelInv(at, begun) /\ StepsInv(at, steps, begun)
  /\ CancelInv /\ OutcomeInv /\ RowInv
  /\ QueueInv(at, outcome, steps, stepIds, artifacts)
  /\ CollectInv(at, outcome, steps, collected, begun)

-----------------------------------------------------------------------------
(***************************************************************************)
(* Places, hooks and steps, action by action.                              *)
(***************************************************************************)
LEMMA StaysFits ==
  ASSUME Placed(at), NEW n, Stays(n), \/ AtHooks(at) /\ AtHooks(n)
                                      \/ AtWork(at) /\ AtWork(n),
         NEW c, HooksExist(c), ClosedOnce(c), ClosedInOrder(c), Inside(at, c),
         AtHooks(n) => Begun(at.level, Num(at.level, at.unit), at.phase, c)
  PROVE  Fits(n, c)
<1>1. /\ n.level = at.level /\ n.phase = at.phase /\ n.unit = at.unit /\ n.sub = at.sub
      /\ n \in Place
  BY DEF Stays
<1>2. Placed(n)
  BY <1>1 DEF Placed, AtHooks, AtWork
<1>3. Inside(n, c)
  BY <1>1 DEF Inside
<1>4. n.doing # "collect"
  BY DEF AtHooks, AtWork
<1>5. n.doing = "hook" => Begun(n.level, Num(n.level, n.unit), n.phase, c)
  BY <1>1 DEF AtHooks
<1> QED
  BY <1>2, <1>3, <1>4, <1>5 DEF Fits, LevelInv

LEMMA OverFits ==
  ASSUME TargetInv, NEW c, HooksExist(c), ClosedOnce(c), ClosedInOrder(c)
  PROVE  Fits(Over, c)
<1>1. Placed(Over)
  BY PlacesAre
<1>2. Over.doing = "over"
  BY DEF Over
<1> QED
  BY <1>1, <1>2 DEF Fits, LevelInv, AtHooks, AtWork

LEMMA OverSteps ==
  ASSUME NEW st, StepsAre(st), NEW b, Begun(1, 0, "post", b) => AllDone(st)
  PROVE  StepsInv(Over, st, b)
  BY DEF StepsInv, StepsAt, Over, AtHooks

LEMMA HookFits ==
  ASSUME TargetInv, Placed(at), LevelInv(at, begun), HookEffect
  PROVE  Fits(at', begun')
<1>1. /\ HooksExist(begun') /\ ClosedOnce(begun') /\ ClosedInOrder(begun') /\ Inside(at, begun')
      /\ Begun(at.level, Num(at.level, at.unit), at.phase, begun') /\ AtHooks(at)
  <2>1. AtHooks(at) /\ begun' = begun \cup {<<at.level, Num(at.level, at.unit), at.phase>>}
    BY DEF HookEffect, Here
  <2> QED
    BY <2>1, ListBegins
<1>2. CASE Stays(at') /\ at'.doing \in {"ready", "hook"}
  <2>1. AtHooks(at')
    BY <1>2 DEF AtHooks
  <2> QED
    BY <1>1, <1>2, <2>1, StaysFits
<1>3. CASE Leaves(at')
  BY <1>1, <1>3, LeavesFits
<1>4. CASE at' = Over
  BY <1>1, <1>4, OverFits
<1> QED
  BY <1>2, <1>3, <1>4 DEF HookEffect

LEMMA HookSteps ==
  ASSUME TargetInv, Placed(at), StepsInv(at, steps, begun), HookEffect
  PROVE  StepsInv(at', steps', begun')
<1>1. AtHooks(at) /\ begun' = begun \cup {Here} /\ steps' = steps
  BY DEF HookEffect
<1>2. StepsAre(steps) /\ StepsAt(at, steps)
  BY DEF StepsInv
<1>3. Begun(1, 0, "post", begun') => AllDone(steps)
  <2>1. CASE Begun(1, 0, "post", begun)
    BY <2>1 DEF StepsInv
  <2>2. CASE Here = <<1, 0, "post">>
    <3>1. at.level = 1 /\ at.phase = "post"
      BY <2>2 DEF Here
    <3>2. Len(steps) = Base[at.unit + 1] /\ AllGood(steps) /\ at.unit = Len(units)
      BY <1>1, <1>2, <3>1 DEF StepsAt
    <3> QED
      BY <3>2 DEF AllDone, Total
  <2> QED
    BY <1>1, <2>1, <2>2 DEF Begun
<1>4. StepsAt(at', steps)
  <2>1. CASE Stays(at') /\ at'.doing \in {"ready", "hook"}
    <3>1. /\ at'.level = at.level /\ at'.phase = at.phase /\ at'.unit = at.unit
          /\ AtHooks(at')
      BY <2>1 DEF Stays, AtHooks
    <3> QED
      BY <1>1, <1>2, <2>1, <3>1 DEF StepsAt
  <2>2. CASE Leaves(at')
    BY <1>1, <1>2, <2>2, LeavesSteps
  <2>3. CASE at' = Over
    BY <2>3 DEF StepsAt, Over, AtHooks
  <2> QED
    BY <2>1, <2>2, <2>3 DEF HookEffect
<1> QED
  BY <1>1, <1>2, <1>3, <1>4 DEF StepsInv

\* A step is added with this row.
Added(row) == steps' = Append(steps, NewStep(row))

LEMMA AddedSteps ==
  ASSUME TargetInv, Placed(at), at.doing = "create", StepsInv(at, steps, begun),
         NEW row \in {"none", "running"}, Added(row)
  PROVE  /\ StepsAre(steps') /\ Len(steps') = Pos(at.unit, at.sub)
         /\ Len(steps') = Len(steps) + 1 /\ Len(steps) \in Nat
         /\ DOMAIN steps = 1 .. Len(steps) /\ DOMAIN steps' = 1 .. Len(steps')
         /\ steps'[Len(steps')] = NewStep(row)
         /\ \A i \in DOMAIN steps : steps'[i] = steps[i] /\ steps[i].verdict = "success"
<1> DEFINE u == at.unit  s == at.sub  l == Len(steps')  new == NewStep(row)
<1>1. u \in DOMAIN units /\ s \in DOMAIN units[u].subs /\ UnitAt = units[u]
      /\ SubAt = units[u].subs[s]
  BY DEF Placed, UnitAt, SubAt
<1>2. /\ new \in Step /\ new.task = units[u].task /\ new.sub = units[u].subs[s]
      /\ new.summary = 0 /\ new.verdict = "none"
  BY <1>1, TargetFacts DEF NewStep, Step, Rows, Verdicts
<1>3. steps \in Seq(Step) /\ Len(steps) + 1 = Pos(u, s) /\ AllGood(steps)
      /\ StepsAre(steps)
  BY DEF StepsInv, StepsAre, StepsAt
<1> HIDE DEF new
<1>4. steps' = Append(steps, new)
  BY DEF Added, new
<1>5. /\ steps' \in Seq(Step) /\ l = Len(steps) + 1 /\ Len(steps) \in Nat
      /\ DOMAIN steps = 1 .. Len(steps) /\ DOMAIN steps' = 1 .. l
      /\ steps'[Len(steps) + 1] = new
      /\ \A i \in 1 .. Len(steps) : steps'[i] = steps[i]
  <2>1. /\ steps' \in Seq(Step) /\ l = Len(steps) + 1
        /\ steps'[Len(steps) + 1] = new
        /\ \A i \in 1 .. Len(steps) : steps'[i] = steps[i]
    BY <1>2, <1>3, <1>4, AppendProperties
  <2> QED
    BY <1>3, <2>1, LenProperties
<1> HIDE DEF l, u, s
<1>6. /\ l \in Nat /\ l = Pos(u, s) /\ l <= Total /\ steps'[l] = new
      /\ l \in 1 .. l /\ Len(steps) < l
      /\ \A i \in 1 .. l : i # l => i \in DOMAIN steps /\ steps'[i] = steps[i]
                                    /\ steps[i].verdict = "success"
  BY <1>1, <1>3, <1>5, PosFacts DEF AllGood
<1>7. \A i \in 1 .. l : /\ steps'[i].summary \in {0, i}
                        /\ steps'[i].sub # "backup" => steps'[i].summary = 0
                        /\ steps'[i].task \in {units[v].task : v \in DOMAIN units}
                        /\ i < l => steps'[i].verdict = "success"
  BY <1>1, <1>2, <1>3, <1>6 DEF StepsAre
<1>8. ASSUME NEW v \in DOMAIN units, NEW t \in DOMAIN units[v].subs, Pos(v, t) <= l
      PROVE  steps'[Pos(v, t)].task = units[v].task /\ steps'[Pos(v, t)].sub = units[v].subs[t]
  <2> DEFINE p == Pos(v, t)
  <2>1. p \in Nat /\ p >= 1 /\ p <= l /\ (p = l => v = u /\ t = s)
    BY <1>1, <1>6, <1>8, PosFacts
  <2>2. p <= Len(steps) => steps[p].task = units[v].task /\ steps[p].sub = units[v].subs[t]
    BY <1>3 DEF StepsAre
  <2> HIDE DEF p
  <2>3. CASE p = l
    BY <1>2, <1>6, <2>1, <2>3 DEF p
  <2>4. CASE p # l
    <3>1. p \in 1 .. l /\ p <= Len(steps)
      BY <1>5, <1>6, <2>1, <2>4
    <3> QED
      BY <1>6, <2>2, <2>4, <3>1 DEF p
  <2> QED
    BY <2>3, <2>4
<1>9. StepsAre(steps')
  BY <1>5, <1>6, <1>7, <1>8 DEF StepsAre, l
<1> QED
  BY <1>5, <1>6, <1>9, <1>3 DEF l, u, s, new, AllGood

\* While the run works the last step is that of its place.
LEMMA LastIsHere ==
  ASSUME TargetInv, Placed(at), StepsInv(at, steps, begun),
         at.doing \in {"start", "command", "finish"}
  PROVE  /\ Len(steps) \in Nat /\ Len(steps) >= 1 /\ DOMAIN steps = 1 .. Len(steps)
         /\ Len(steps) = Pos(at.unit, at.sub) /\ steps \in Seq(Step)
         /\ LastStep \in Step /\ LastStep = steps[Len(steps)]
         /\ LastStep.task = UnitAt.task /\ LastStep.sub = SubAt
         /\ LastStep.summary \in {0, Len(steps)}
         /\ LastStep.sub # "backup" => LastStep.summary = 0
         /\ at.unit \in DOMAIN units /\ UnitAt = units[at.unit]
         /\ at.sub \in DOMAIN units[at.unit].subs
<1> DEFINE u == at.unit  s == at.sub  l == Len(steps)
<1>1. u \in DOMAIN units /\ s \in DOMAIN units[u].subs /\ UnitAt = units[u]
      /\ SubAt = units[u].subs[s]
  BY DEF Placed, UnitAt, SubAt
<1>2. steps \in Seq(Step) /\ l = Pos(u, s) /\ StepsAre(steps)
  BY DEF StepsInv, StepsAre, StepsAt
<1>3. l \in Nat /\ DOMAIN steps = 1 .. l /\ l >= 1
  BY <1>1, <1>2, LenProperties, PosFacts
<1>4. /\ steps[Pos(u, s)].task = units[u].task /\ steps[Pos(u, s)].sub = units[u].subs[s]
  BY <1>1, <1>2, <1>3 DEF StepsAre
<1> HIDE DEF l
<1>5. l \in DOMAIN steps /\ steps[l] \in Step
  BY <1>2, <1>3, ElementOfSeq
<1>6. steps[l].summary \in {0, l} /\ (steps[l].sub # "backup" => steps[l].summary = 0)
  BY <1>2, <1>5 DEF StepsAre
<1> QED
  BY <1>1, <1>2, <1>3, <1>4, <1>5, <1>6 DEF LastStep, l

\* The last step becomes w.
Changed(w) == steps' = [steps EXCEPT ![Len(steps)] = w]

LEMMA ChangedSteps ==
  ASSUME TargetInv, Placed(at), StepsInv(at, steps, begun),
         at.doing \in {"start", "command", "finish"},
         NEW w \in Step, Changed(w), w.task = LastStep.task, w.sub = LastStep.sub,
         w.summary \in {0, Len(steps)}, w.sub # "backup" => w.summary = 0
  PROVE  /\ StepsAre(steps') /\ Len(steps') = Len(steps) /\ DOMAIN steps' = DOMAIN steps
         /\ steps'[Len(steps)] = w
         /\ \A i \in DOMAIN steps : i # Len(steps) =>
              i < Len(steps) /\ steps'[i] = steps[i] /\ steps[i].verdict = "success"
<1>1. /\ Len(steps) \in Nat /\ Len(steps) >= 1 /\ DOMAIN steps = 1 .. Len(steps)
      /\ steps \in Seq(Step) /\ LastStep = steps[Len(steps)]
  BY LastIsHere
<1>2. StepsAre(steps)
  BY DEF StepsInv
<1>3. StepsAre(steps')
  BY <1>1, <1>2, LastChangesSteps DEF Changed
<1>4. LET ut == [steps EXCEPT ![Len(steps)] = w]
      IN  /\ Len(ut) = Len(steps) /\ DOMAIN ut = DOMAIN steps
          /\ ut[Len(steps)] = w /\ \A i \in DOMAIN steps : i # Len(steps) => ut[i] = steps[i]
  BY <1>1, LastChanges
<1>5. \A i \in DOMAIN steps : i # Len(steps) => i < Len(steps) /\ steps[i].verdict = "success"
  <2>1. \A i \in DOMAIN steps : i < Len(steps) => steps[i].verdict = "success"
    BY <1>2 DEF StepsAre
  <2>2. \A i \in 1 .. Len(steps) : i # Len(steps) => i < Len(steps)
    <3> DEFINE l == Len(steps)
    <3>1. l \in Nat
      BY <1>1
    <3> HIDE DEF l
    <3>2. \A i \in 1 .. l : i # l => i < l
      BY <3>1
    <3> QED
      BY <3>2 DEF l
  <2> QED
    BY <1>1, <2>1, <2>2
<1> QED
  BY <1>3, <1>4, <1>5 DEF Changed

\* Its row or its verdict is another.
RowChanged(row) == steps' = [steps EXCEPT ![Len(steps)].row = row]

LEMMA JudgedSteps ==
  ASSUME TargetInv, Placed(at), StepsInv(at, steps, begun),
         at.doing \in {"start", "command"},
         NEW v \in Verdicts, NEW s \in {0, Len(steps)}, Judged(v, s),
         s # 0 => v = "success" /\ SubAt = "backup"
  PROVE  \E w \in Step : /\ Changed(w) /\ w.task = LastStep.task /\ w.sub = LastStep.sub
                         /\ w.row = LastStep.row /\ w.verdict = v /\ w.summary = s
                         /\ w.sub # "backup" => w.summary = 0
<1> DEFINE z == steps[Len(steps)]
           w == [z EXCEPT !.verdict = v, !.summary = s]
<1>1. /\ Len(steps) \in Nat /\ LastStep \in Step /\ LastStep = z
      /\ LastStep.sub = SubAt
  BY LastIsHere
<1>2. /\ w \in Step /\ w.task = LastStep.task /\ w.sub = LastStep.sub
      /\ w.row = LastStep.row /\ w.verdict = v /\ w.summary = s
  <2>1. s \in Nat /\ z \in Step
    BY <1>1
  <2> HIDE DEF z
  <2> QED
    BY <1>1, <2>1 DEF Step
<1>3. Changed(w)
  BY DEF Judged, Changed
<1> HIDE DEF w
<1> QED
  BY <1>1, <1>2, <1>3

LEMMA RowChangedSteps ==
  ASSUME TargetInv, Placed(at), StepsInv(at, steps, begun), at.doing = "finish",
         NEW row \in Rows, RowChanged(row)
  PROVE  \E w \in Step : /\ Changed(w) /\ w.task = LastStep.task /\ w.sub = LastStep.sub
                         /\ w.row = row /\ w.verdict = LastStep.verdict
                         /\ w.summary = LastStep.summary
<1> DEFINE w == [steps[Len(steps)] EXCEPT !.row = row]
<1>1. LastStep \in Step /\ LastStep = steps[Len(steps)]
  BY LastIsHere
<1>2. /\ w \in Step /\ w.task = LastStep.task /\ w.sub = LastStep.sub
      /\ w.row = row /\ w.verdict = LastStep.verdict /\ w.summary = LastStep.summary
  BY <1>1 DEF Step
<1>3. Changed(w)
  BY DEF RowChanged, Changed
<1> HIDE DEF w
<1> QED
  BY <1>1, <1>2, <1>3

LEMMA NewRowsAre == NewRows \subseteq {"none", "running"}
BY DEF NewRows

LEMMA EndRowsAre ==
  ASSUME TargetInv, Placed(at), StepsInv(at, steps, begun), at.doing = "finish"
  PROVE  /\ EndRows \subseteq Rows
         /\ EndRows \subseteq {"none", LastStep.row, RowFor(LastStep.verdict)}
         /\ mode # "faultyHistory" /\ LastStep.row # "none" =>
              EndRows = {RowFor(LastStep.verdict)}
         /\ LastStep.row \in Rows /\ LastStep.verdict \in Verdicts
<1>1. LastStep \in Step /\ LastStep = steps[Len(steps)]
  BY LastIsHere
<1>2. LastStep.verdict \in Verdicts
  BY <1>1 DEF StepsInv, StepsAt
<1> QED
  BY <1>1, <1>2 DEF EndRows, RowFor, Rows, Verdicts, Step

\* Work does not follow the job's post_hooks.
LEMMA WorkIsBefore ==
  ASSUME Placed(at), LevelInv(at, begun), AtWork(at)
  PROVE  ~ Begun(1, 0, "post", begun)
  BY PostIsLast

LEMMA WorkLevels ==
  ASSUME LevelInv(at, begun)
  PROVE  /\ HooksExist(begun) /\ ClosedOnce(begun) /\ ClosedInOrder(begun)
         /\ AtHooks(at) \/ AtWork(at) => Inside(at, begun)
  BY DEF LevelInv

LEMMA WorkFits ==
  ASSUME TargetInv, Placed(at), LevelInv(at, begun), WorkEffect
  PROVE  Fits(at', begun')
<1>1. begun' = begun /\ Stays(at') /\ AtWork(at) /\ AtWork(at') /\ ~ AtHooks(at')
  BY DEF WorkEffect, AtWork, AtHooks
<1> QED
  BY <1>1, WorkLevels, StaysFits

LEMMA WorkSteps ==
  ASSUME TargetInv, Placed(at), LevelInv(at, begun), StepsInv(at, steps, begun), WorkEffect
  PROVE  StepsInv(at', steps', begun')
<1>1. /\ begun' = begun /\ AtWork(at) /\ ~ AtHooks(at') /\ at.doing \in {"start", "command"}
      /\ at'.unit = at.unit /\ at'.sub = at.sub
      /\ at'.doing \in {"start", "command", "finish"}
  BY DEF WorkEffect, AtWork, AtHooks, Stays
<1>2. ~ Begun(1, 0, "post", begun')
  BY <1>1, WorkIsBefore
<1>3. StepsAre(steps) /\ StepsAt(at, steps)
  BY DEF StepsInv
<1>4. CASE at'.doing # "finish"
  <2>1. steps' = steps
    BY <1>4 DEF WorkEffect
  <2> QED
    BY <1>1, <1>2, <1>3, <1>4, <2>1 DEF StepsInv, StepsAt
<1>5. CASE at'.doing = "finish"
  <2>1. PICK v \in Verdicts, s \in {0, Len(steps)} :
               Judged(v, s) /\ (s # 0 => v = "success" /\ SubAt = "backup")
    BY <1>5 DEF WorkEffect
  <2>2. PICK w \in Step : /\ Changed(w) /\ w.task = LastStep.task /\ w.sub = LastStep.sub
                          /\ w.verdict = v /\ w.summary = s
                          /\ w.sub # "backup" => w.summary = 0
    BY <1>1, <2>1, JudgedSteps
  <2>3. /\ StepsAre(steps') /\ Len(steps') = Len(steps) /\ steps'[Len(steps)] = w
    BY <1>1, <2>2, ChangedSteps
  <2>4. Len(steps) = Pos(at.unit, at.sub)
    BY <1>1, <1>3 DEF StepsAt
  <2> QED
    BY <1>1, <1>2, <1>5, <2>2, <2>3, <2>4 DEF StepsInv, StepsAt
<1> QED
  BY <1>4, <1>5

LEMMA CreatedFits ==
  ASSUME TargetInv, Placed(at), LevelInv(at, begun), StepsInv(at, steps, begun), StepCreated
  PROVE  Fits(at', begun') /\ StepsInv(at', steps', begun')
<1>1. PICK row \in {"none", "running"} :
         at.doing = "create" /\ begun' = begun /\ Added(row)
  BY NewRowsAre DEF StepCreated, Added
<1>2. Stays(at') /\ at'.doing = "start"
  <2> DEFINE index == IF Prepares THEN 1 ELSE 3
  <2>1. index \in Nat \ {0} /\ at' = [at EXCEPT !.doing = "start", !.index = index]
    BY DEF StepCreated
  <2> HIDE DEF index
  <2> QED
    BY <2>1 DEF Stays, Placed, Place
<1>3. AtWork(at) /\ AtWork(at') /\ ~ AtHooks(at')
  BY <1>1, <1>2 DEF AtWork, AtHooks
<1>4. Fits(at', begun')
  BY <1>1, <1>2, <1>3, WorkLevels, StaysFits
<1>5. /\ StepsAre(steps') /\ Len(steps') = Pos(at.unit, at.sub)
      /\ steps'[Len(steps')] = NewStep(row)
  BY <1>1, AddedSteps
<1>6. NewStep(row).verdict = "none"
  BY DEF NewStep
<1>7. ~ Begun(1, 0, "post", begun')
  BY <1>1, <1>3, WorkIsBefore
<1>8. at'.unit = at.unit /\ at'.sub = at.sub
  BY <1>2 DEF Stays
<1>9. StepsAt(at', steps')
  BY <1>2, <1>3, <1>5, <1>6, <1>8 DEF StepsAt
<1> QED
  BY <1>4, <1>5, <1>7, <1>9 DEF StepsInv

\* What follows a step.
FinishEffect ==
  \/ LastStep.verdict = "success" /\ Continues(at') /\ UNCHANGED outcome
  \/ LastStep.verdict = "failed" /\ Outward(3, at.unit, "on_error", at') /\ UNCHANGED outcome
  \/ /\ LastStep.verdict \in {"cancelled", "raised"}
     /\ at' = Over /\ outcome' = LastStep.verdict

LEMMA FinishEffects ==
  ASSUME TargetInv, Placed(at), StepsInv(at, steps, begun), StepFinished
  PROVE  FinishEffect
<1>1. at.doing = "finish" /\ AtWork(at)
  BY DEF StepFinished, AtWork
<1>2. LastStep.verdict \in Verdicts
  BY <1>1, EndRowsAre
<1>3. Continues(AfterSubstep)
  BY <1>1, AfterSubstepContinues
<1>4. Outward(3, at.unit, "on_error", Fails(3, at.unit))
  BY FailsOutward
<1>5. CASE LastStep.verdict = "success"
  BY <1>3, <1>5 DEF StepFinished, FinishEffect
<1>6. CASE LastStep.verdict = "failed"
  BY <1>4, <1>6 DEF StepFinished, FinishEffect
<1>7. CASE LastStep.verdict \in {"cancelled", "raised"}
  BY <1>7 DEF StepFinished, FinishEffect, Escapes
<1> QED
  BY <1>2, <1>5, <1>6, <1>7 DEF Verdicts

LEMMA FinishedFits ==
  ASSUME TargetInv, Placed(at), LevelInv(at, begun), StepsInv(at, steps, begun), StepFinished
  PROVE  Fits(at', begun') /\ StepsInv(at', steps', begun')
<1>1. at.doing = "finish" /\ AtWork(at) /\ begun' = begun
  BY DEF StepFinished, AtWork
<1>2. PICK row \in Rows : RowChanged(row)
  BY <1>1, EndRowsAre DEF StepFinished, RowChanged
<1>3. PICK w \in Step : /\ Changed(w) /\ w.task = LastStep.task /\ w.sub = LastStep.sub
                        /\ w.verdict = LastStep.verdict /\ w.summary = LastStep.summary
  BY <1>1, <1>2, RowChangedSteps
<1>4. /\ Len(steps) = Pos(at.unit, at.sub) /\ LastStep.summary \in {0, Len(steps)}
      /\ LastStep.sub # "backup" => LastStep.summary = 0
  BY <1>1, LastIsHere
<1>5. /\ StepsAre(steps') /\ Len(steps') = Len(steps) /\ DOMAIN steps' = DOMAIN steps
      /\ steps'[Len(steps)] = w
      /\ \A i \in DOMAIN steps : i # Len(steps) =>
           i < Len(steps) /\ steps'[i] = steps[i] /\ steps[i].verdict = "success"
  BY <1>1, <1>3, <1>4, ChangedSteps
<1>6. ~ Begun(1, 0, "post", begun')
  BY <1>1, WorkIsBefore
<1>7. FinishEffect
  BY FinishEffects
<1>8. CASE LastStep.verdict = "success" /\ Continues(at')
  <2>1. Fits(at', begun')
    BY <1>1, <1>8, ContinuesFits
  <2>2. AllGood(steps')
    BY <1>3, <1>5, <1>8 DEF AllGood
  <2>3. StepsAt(at', steps')
    BY <1>1, <1>4, <1>5, <1>8, <2>2, ContinuesSteps
  <2> QED
    BY <1>5, <1>6, <2>1, <2>3 DEF StepsInv
<1>9. CASE Outward(3, at.unit, "on_error", at')
  <2>1. Fits(at', begun')
    BY <1>1, <1>9, ContinuesFits
  <2>2. at'.doing = "collect" \/ (at'.doing = "ready" /\ at'.phase = "on_error")
    BY <1>9 DEF Outward, HookList, Collecting
  <2>3. StepsAt(at', steps')
    BY <2>2 DEF StepsAt, AtHooks
  <2> QED
    BY <1>5, <1>6, <2>1, <2>3 DEF StepsInv
<1>10. CASE at' = Over
  BY <1>1, <1>5, <1>6, <1>10, OverFits, OverSteps, WorkLevels
<1> QED
  BY <1>7, <1>8, <1>9, <1>10 DEF FinishEffect

\* A statement whose caller is cancelled has written its row or not.
LEMMA CancelledFits ==
  ASSUME TargetInv, Placed(at), LevelInv(at, begun), StepsInv(at, steps, begun),
         StatementCancelled, begun' = begun
  PROVE  Fits(at', begun') /\ StepsInv(at', steps', begun')
<1>1. at' = Over /\ at.doing \in {"create", "finish"} /\ AtWork(at)
  BY DEF StatementCancelled, Escapes, AtWork
<1>2. ~ Begun(1, 0, "post", begun')
  BY <1>1, WorkIsBefore
<1>3. StepsAre(steps')
  <2>1. CASE at.doing = "create"
    <3>1. PICK row \in {"none"} \cup NewRows : Added(row)
      BY <1>1, <2>1 DEF StatementCancelled, Added
    <3>2. row \in {"none", "running"}
      BY NewRowsAre
    <3> QED
      BY <2>1, <3>1, <3>2, AddedSteps
  <2>2. CASE at.doing = "finish"
    <3>1. PICK row \in {LastStep.row} \cup EndRows : RowChanged(row)
      BY <1>1, <2>2 DEF StatementCancelled, RowChanged
    <3>2. row \in Rows
      BY <2>2, EndRowsAre
    <3>3. PICK w \in Step : /\ Changed(w) /\ w.task = LastStep.task /\ w.sub = LastStep.sub
                            /\ w.verdict = LastStep.verdict /\ w.summary = LastStep.summary
      BY <2>2, <3>1, <3>2, RowChangedSteps
    <3>4. /\ LastStep.summary \in {0, Len(steps)}
          /\ LastStep.sub # "backup" => LastStep.summary = 0
      BY <2>2, LastIsHere
    <3> QED
      BY <2>2, <3>3, <3>4, ChangedSteps
  <2> QED
    BY <1>1, <2>1, <2>2
<1> QED
  BY <1>1, <1>2, <1>3, OverFits, OverSteps, WorkLevels

\* Post-processing walks over the substeps in their order.
LEMMA WalksOn ==
  ASSUME TargetInv, Placed(at), at.doing = "collect"
  PROVE  \/ /\ NextToCollect.doing = "collect" /\ Placed(NextToCollect)
            /\ Pos(NextToCollect.unit, NextToCollect.sub) = Pos(at.unit, at.sub) + 1
            /\ NextToCollect # Over
         \/ NextToCollect = Over /\ Pos(at.unit, at.sub) = Total
<1> DEFINE u == at.unit  s == at.sub  v == u + 1  t == s + 1  n == NextToCollect
<1>1. /\ u \in DOMAIN units /\ s \in DOMAIN units[u].subs /\ UnitAt = units[u]
      /\ at \in Place /\ at.phase = "work"
  BY DEF Placed, UnitAt
<1>2. /\ u \in Nat \ {0} /\ s \in Nat \ {0} /\ v \in Nat \ {0} /\ t \in Nat \ {0}
      /\ DOMAIN units = 1 .. Len(units) /\ Len(units) \in Nat
      /\ DOMAIN units[u].subs = 1 .. Len(units[u].subs) /\ Len(units[u].subs) \in Nat
      /\ s <= Len(units[u].subs) /\ u <= Len(units)
  BY <1>1, TargetFacts DEF Place
<1>3. Over.doing = "over"
  BY DEF Over
<1>4. CASE s < Len(units[u].subs)
  <2>1. n = [at EXCEPT !.sub = t]
    BY <1>1, <1>4 DEF NextToCollect
  <2>2. t \in DOMAIN units[u].subs /\ Pos(u, t) = Pos(u, s) + 1
    <3> DEFINE l == Len(units[u].subs)  b == Base[u]
    <3>1. /\ l \in Nat /\ s \in Nat \ {0} /\ s < l /\ DOMAIN units[u].subs = 1 .. l
          /\ b \in Nat /\ Pos(u, s) = b + s /\ Pos(u, t) = b + t
      BY <1>1, <1>2, <1>4, BaseFacts DEF Pos
    <3> HIDE DEF l, b, u, s
    <3> QED
      BY <3>1
  <2> HIDE DEF t, n
  <2>3. n \in Place /\ n.doing = "collect" /\ n.unit = u /\ n.sub = t /\ n.phase = "work"
    BY <1>1, <1>2, <2>1 DEF Place
  <2>4. Placed(n)
    BY <1>1, <2>2, <2>3 DEF Placed, AtHooks, AtWork
  <2> QED
    BY <1>3, <2>2, <2>3, <2>4 DEF n
<1>5. CASE s = Len(units[u].subs) /\ u < Len(units)
  <2>1. n = [at EXCEPT !.unit = v, !.sub = 1]
    BY <1>1, <1>2, <1>5 DEF NextToCollect
  <2>2. v \in DOMAIN units
    BY <1>2, <1>5
  <2>3. 1 \in DOMAIN units[v].subs /\ Base[v] \in Nat /\ Pos(v, 1) = Base[v] + 1
        /\ Base[v] = Pos(u, s)
    BY <1>1, <1>5, <2>2, TargetFacts, BaseFacts DEF Pos
  <2> HIDE DEF v, n
  <2>4. n \in Place /\ n.doing = "collect" /\ n.unit = v /\ n.sub = 1 /\ n.phase = "work"
    <3>1. at \in Place /\ v \in Nat \ {0} /\ 1 \in Nat \ {0}
      BY <1>1, <1>2
    <3> QED
      BY <1>1, <2>1, <3>1 DEF Place
  <2>5. Placed(n)
    BY <2>2, <2>3, <2>4 DEF Placed, AtHooks, AtWork
  <2>6. Pos(n.unit, n.sub) = Pos(u, s) + 1
    BY <2>3, <2>4
  <2> QED
    BY <1>3, <2>4, <2>5, <2>6 DEF n
<1>6. CASE s = Len(units[u].subs) /\ u = Len(units)
  <2>1. n = Over
    BY <1>1, <1>2, <1>6 DEF NextToCollect
  <2>2. Pos(u, s) = Total
    BY <1>1, <1>6, BaseFacts DEF Total
  <2> QED
    BY <2>1, <2>2
<1> QED
  BY <1>2, <1>4, <1>5, <1>6

LEMMA CollectFits ==
  ASSUME TargetInv, Placed(at), LevelInv(at, begun), StepsInv(at, steps, begun), Collect
  PROVE  Fits(at', begun') /\ StepsInv(at', steps', begun')
<1>1. /\ at.doing = "collect" /\ at' = NextToCollect /\ begun' = begun /\ steps' = steps
  BY DEF Collect
<1>2. AllClosed(begun) /\ StepsAre(steps) /\ (Begun(1, 0, "post", begun) => AllDone(steps))
  BY <1>1 DEF LevelInv, StepsInv
<1>3. CASE at' = Over
  BY <1>1, <1>2, <1>3, OverFits, OverSteps, WorkLevels
<1>4. CASE at'.doing = "collect" /\ Placed(at')
  <2>1. LevelInv(at', begun')
    BY <1>1, <1>2, <1>4, WorkLevels DEF LevelInv, AtHooks, AtWork
  <2>2. StepsAt(at', steps')
    BY <1>4 DEF StepsAt, AtHooks
  <2> QED
    BY <1>1, <1>2, <1>4, <2>1, <2>2 DEF Fits, StepsInv
<1> QED
  BY <1>1, <1>3, <1>4, WalksOn

LEMMA NextFits ==
  ASSUME TargetInv, Placed(at), LevelInv(at, begun), StepsInv(at, steps, begun), [Next]_vars
  PROVE  Fits(at', begun') /\ StepsInv(at', steps', begun')
<1>1. CASE UNCHANGED <<at, steps, begun>>
  BY <1>1 DEF Fits
<1>2. CASE NextHook \/ HooksDone \/ HookEnds
  BY <1>2, HookEffects, HookFits, HookSteps
<1>3. CASE CommandStarts \/ CommandEnds
  BY <1>3, WorkEffects, WorkFits, WorkSteps
<1>4. CASE Cancel
  <2>1. begun' = begun
    BY <1>4 DEF Cancel
  <2>2. CASE StatementCancelled
    BY <2>1, <2>2, CancelledFits
  <2> QED
    BY <1>1, <1>4, <2>1, <2>2 DEF Cancel
<1>5. CASE CommandStep \/ Processing \/ UNCHANGED vars
  BY <1>1, <1>5 DEF CommandStep, Processing, vars
<1> QED
  BY <1>2, <1>3, <1>4, <1>5, CreatedFits, FinishedFits, CollectFits DEF Next, RunStep

-----------------------------------------------------------------------------
(***************************************************************************)
(* Cancellations, the outcome and the rows.                                *)
(***************************************************************************)
\* Without a call there is nothing that could go on.
LEMMA IdleIsStill ==
  ASSUME SubInv, stage = "idle"
  PROVE  ~ (CallStep \/ ProcessStep \/ CancelCall)
<1>1. ~ CallStep
  BY DEF CallStep, Started, CannotStart, SeesExit, TimesOut, SeesPumpFailure, DrainEnds,
     TerminationEnds, Kill, ClosePipes, ProcessGone, FlushEnds
<1>2. ~ ProcessStep
  BY DEF ProcessStep, PumpEnds, Fork, CloseOutput, Exit, SubInv
<1>3. ~ CancelCall
  BY DEF CancelCall
<1> QED
  BY <1>1, <1>2, <1>3

\* The cancellation is on its way through the command.
Escaping ==
  \/ stage = "idle" /\ result \in {"cancelled", "error"}
  \/ stage \in Ending /\ cause = "cancelled"

LEMMA CancellationEscapes ==
  ASSUME SubInv, CancelCall \/ ((CallStep \/ ProcessStep) /\ Escaping)
  PROVE  Escaping'
<1>1. CASE CancelCall
  BY <1>1 DEF CancelCall, Ends, Terminates, Ending, Escaping
<1>2. CASE CallStep /\ Escaping
  <2>1. stage \in Ending /\ cause = "cancelled"
    BY <1>2, IdleIsStill DEF Escaping
  <2> QED
    BY <1>2, <2>1 DEF CallStep, Started, CannotStart, SeesExit, TimesOut, SeesPumpFailure,
       DrainEnds, TerminationEnds, Kill, ClosePipes, ProcessGone, FlushEnds, Ends, Terminates,
       Ending, Escaping
<1>3. CASE ProcessStep /\ Escaping
  BY <1>3 DEF ProcessStep, PumpEnds, Fork, CloseOutput, Exit, Escaping
<1> QED
  BY <1>1, <1>2, <1>3

LEMMA LeavesDoing ==
  ASSUME NEW n, Leaves(n) \/ Continues(n) \/ Outward(3, at.unit, "on_error", n)
  PROVE  n.doing \in {"ready", "create", "collect"}
<1>1. \A l, u, phase : /\ Inward(l, u, n) => n.doing \in {"ready", "create"}
                       /\ Outward(l, u, phase, n) => n.doing \in {"ready", "collect"}
  BY DEF Inward, Outward, HookList, SubstepAt, Collecting
<1>2. \A u : Ends3(u, n) => n.doing \in {"ready", "create", "collect"}
  BY <1>1 DEF Ends3
<1> QED
  BY <1>1, <1>2 DEF Leaves, Continues, HookList, SubstepAt

\* What each action does to the place of the run.
LEMMA DoingOf ==
  ASSUME TargetInv, Placed(at), LevelInv(at, begun), StepsInv(at, steps, begun)
  PROVE  /\ HookEffect => at'.doing \in {"ready", "hook", "create", "collect", "over"}
         /\ WorkEffect => at'.doing \in {"start", "command", "finish"}
         /\ StepCreated => at'.doing = "start" /\ at.doing = "create"
         /\ StepFinished => /\ at'.doing \in {"ready", "create", "collect", "over"}
                            /\ at.doing = "finish"
         /\ Collect => at'.doing \in {"collect", "over"} /\ at.doing = "collect"
<1>1. Over.doing = "over"
  BY DEF Over
<1>2. HookEffect => at'.doing \in {"ready", "hook", "create", "collect", "over"}
  BY <1>1, LeavesDoing DEF HookEffect
<1>3. StepFinished => at'.doing \in {"ready", "create", "collect", "over"}
  BY <1>1, FinishEffects, LeavesDoing DEF FinishEffect
<1>4. StepCreated => at'.doing = "start"
  BY DEF StepCreated, Placed, Place
<1>5. Collect => at'.doing \in {"collect", "over"}
  BY <1>1, WalksOn DEF Collect
<1> QED
  BY <1>2, <1>3, <1>4, <1>5 DEF WorkEffect, StepCreated, StepFinished, Collect

LEMMA CancelInvKept ==
  ASSUME SubInv, TargetInv, Placed(at), LevelInv(at, begun), StepsInv(at, steps, begun),
         CancelInv, [Next]_vars
  PROVE  CancelInv'
<1>1. cancels \in 0 .. MaxCancels /\ (at.doing \notin {"hook", "command"} => stage = "idle")
      /\ (cancels > 0 => \/ at.doing = "over"
                         \/ at.doing \in {"hook", "command"} /\ Escaping
                         \/ /\ at.doing = "finish"
                            /\ LastStep.verdict \in {"cancelled", "raised"})
  BY DEF CancelInv, Escaping
<1>2. Over.doing = "over"
  BY DEF Over
<1>3. CASE HookEffect
  <2>1. cancels' = cancels /\ at.doing \in {"ready", "hook"}
    BY <1>3 DEF HookEffect, AtHooks
  <2>2. CASE cancels = 0
    <3>1. at'.doing = "hook" \/ stage' = "idle"
      BY <1>1, <1>3, <2>1 DEF HookEffect, subprocessVars
    <3> QED
      BY <1>1, <2>1, <2>2, <3>1 DEF CancelInv
  <2>3. CASE cancels > 0
    <3>1. stage = "idle" /\ at.doing = "hook"
      BY <1>1, <1>3, <2>1, <2>3 DEF HookEffect
    <3>2. result \in {"cancelled", "error"}
      BY <1>1, <2>1, <2>3, <3>1 DEF Escaping, Ending
    <3>3. at' = Over /\ stage' = "idle"
      BY <1>3, <3>1, <3>2 DEF HookEffect, Unsuccessful, subprocessVars
    <3> QED
      BY <1>1, <1>2, <2>1, <3>3 DEF CancelInv
  <2> QED
    BY <1>1, <2>2, <2>3
<1>4. CASE WorkEffect /\ cancels' = cancels
  <2>1. at.doing \in {"start", "command"}
    BY <1>4 DEF WorkEffect
  <2>2. at'.doing = "command" \/ stage' = "idle"
    BY <1>1, <1>4, <2>1 DEF WorkEffect, subprocessVars
  <2>3. CASE cancels = 0
    BY <1>1, <1>4, <2>2, <2>3 DEF CancelInv
  <2>4. CASE cancels > 0
    <3>1. at.doing = "command" /\ Escaping
      BY <1>1, <2>1, <2>4
    <3>2. stage = "idle" /\ result \in {"cancelled", "error"}
      BY <1>4, <3>1 DEF WorkEffect, Escaping, Ending
    <3>3. at'.doing = "finish"
      BY <1>4, <3>1, <3>2 DEF WorkEffect, Unsuccessful
    <3>4. PICK v \in {"cancelled", "raised"}, s \in {0, Len(steps)} :
                 Judged(v, s) /\ (s # 0 => v = "success" /\ SubAt = "backup")
      BY <1>4, <3>1, <3>2, <3>3 DEF WorkEffect
    <3>5. PICK w \in Step : /\ Changed(w) /\ w.task = LastStep.task /\ w.sub = LastStep.sub
                            /\ w.verdict = v /\ w.summary = s
                            /\ w.sub # "backup" => w.summary = 0
      BY <2>1, <3>4, JudgedSteps DEF Verdicts
    <3>6. Len(steps') = Len(steps) /\ steps'[Len(steps)] = w
      BY <2>1, <3>5, ChangedSteps
    <3>7. LastStep'.verdict \in {"cancelled", "raised"}
      BY <3>5, <3>6 DEF LastStep
    <3> QED
      BY <1>1, <1>4, <2>2, <3>3, <3>7 DEF CancelInv
  <2> QED
    BY <1>1, <2>3, <2>4
<1>5. CASE StepCreated \/ StepFinished \/ Collect
  <2>1. cancels' = cancels /\ UNCHANGED subprocessVars
    BY <1>5 DEF StepCreated, StepFinished, Collect
  <2>2. stage' = "idle"
    BY <1>1, <1>5, <2>1 DEF StepCreated, StepFinished, Collect, subprocessVars
  <2>3. CASE cancels = 0
    BY <1>1, <2>1, <2>2, <2>3 DEF CancelInv
  <2>4. CASE cancels > 0
    <3>1. at.doing = "finish" /\ LastStep.verdict \in {"cancelled", "raised"}
      BY <1>1, <1>5, <2>4 DEF StepCreated, StepFinished, Collect
    <3>2. StepFinished
      BY <1>5, <3>1 DEF StepCreated, Collect
    <3>3. at' = Over
      BY <3>1, <3>2, FinishEffects DEF FinishEffect
    <3> QED
      BY <1>1, <1>2, <2>1, <2>2, <3>3 DEF CancelInv
  <2> QED
    BY <1>1, <2>3, <2>4
<1>6. CASE Cancel
  <2>1. cancels' \in 0 .. MaxCancels
    BY <1>1, <1>6, ExecutionAssumption DEF Cancel
  <2>2. CASE StatementCancelled
    <3>1. at' = Over /\ stage' = stage /\ at.doing \in {"create", "finish"}
      BY <2>2 DEF StatementCancelled, Escapes, subprocessVars
    <3> QED
      BY <1>1, <1>2, <2>1, <3>1 DEF CancelInv
  <2>3. CASE at.doing \in {"hook", "command"} /\ CancelCall /\ UNCHANGED at
    <3>1. Escaping'
      BY <2>3, CancellationEscapes
    <3> QED
      BY <1>1, <2>1, <2>3, <3>1 DEF CancelInv, Escaping
  <2> QED
    BY <1>6, <2>2, <2>3 DEF Cancel
<1>7. CASE CommandStep \/ Processing
  <2>1. UNCHANGED <<at, steps, cancels>> /\ (CallStep \/ ProcessStep)
    BY <1>7 DEF CommandStep, Processing
  <2>2. stage # "idle"
    BY <2>1, IdleIsStill
  <2>3. at.doing \in {"hook", "command"} /\ (Escaping => Escaping')
    BY <1>1, <2>1, <2>2, CancellationEscapes
  <2> QED
    BY <1>1, <2>1, <2>3 DEF CancelInv, Escaping
<1>8. CASE UNCHANGED vars
  BY <1>8 DEF vars, CancelInv, LastStep
<1>9. NextHook \/ HooksDone \/ HookEnds => HookEffect
  BY HookEffects
<1>10. CommandStarts \/ CommandEnds => WorkEffect /\ cancels' = cancels
  BY WorkEffects DEF CommandStarts, CommandEnds
<1> QED
  BY <1>3, <1>4, <1>5, <1>6, <1>7, <1>8, <1>9, <1>10 DEF Next, RunStep

LEMMA OutcomeInvKept ==
  ASSUME SubInv, TargetInv, Placed(at), LevelInv(at, begun), StepsInv(at, steps, begun),
         OutcomeInv, [Next]_vars
  PROVE  OutcomeInv'
<1>1. /\ outcome \in {"none", "success", "failed", "cancelled", "raised"}
      /\ (at.doing = "over" <=> outcome # "none") /\ (outcome = "success" => Successful)
  BY DEF OutcomeInv
<1>2. Over.doing = "over"
  BY DEF Over
<1>3. ASSUME at.doing # "over", at'.doing # "over", UNCHANGED outcome
      PROVE  OutcomeInv'
  BY <1>1, <1>3 DEF OutcomeInv
<1>4. ASSUME at.doing # "over", at' = Over, outcome' \in {"cancelled", "raised"}
      PROVE  OutcomeInv'
  BY <1>2, <1>4 DEF OutcomeInv
<1>5. CASE UNCHANGED <<at, outcome, begun>>
  BY <1>1, <1>5 DEF OutcomeInv, Successful
<1>6. CASE HookEffect
  <2>1. at.doing # "over"
    BY <1>6 DEF HookEffect, AtHooks
  <2>2. CASE at' = Over /\ outcome' \in {"cancelled", "raised"}
    BY <1>4, <2>1, <2>2
  <2>3. CASE at'.doing # "over" /\ UNCHANGED outcome
    BY <1>3, <2>1, <2>3
  <2> QED
    BY <1>6, <2>2, <2>3, LeavesDoing DEF HookEffect
<1>7. CASE WorkEffect
  BY <1>3, <1>7, DoingOf DEF WorkEffect
<1>8. CASE StepCreated
  BY <1>3, <1>8, DoingOf DEF StepCreated
<1>9. CASE StepFinished
  BY <1>3, <1>4, <1>9, FinishEffects, LeavesDoing DEF FinishEffect, StepFinished
<1>10. CASE Collect
  <2>1. /\ at.doing = "collect" /\ at' = NextToCollect /\ begun' = begun
        /\ outcome' = IF NextToCollect = Over THEN IF Successful THEN "success" ELSE "failed"
                      ELSE outcome
    BY <1>10 DEF Collect
  <2>2. CASE NextToCollect = Over
    BY <1>2, <2>1, <2>2 DEF OutcomeInv, Successful
  <2>3. CASE NextToCollect # Over
    BY <1>3, <2>1, <2>3, WalksOn
  <2> QED
    BY <2>2, <2>3
<1>11. CASE Cancel
  <2>1. CASE StatementCancelled
    BY <1>4, <2>1 DEF StatementCancelled, Escapes
  <2> QED
    BY <1>5, <1>11, <2>1 DEF Cancel
<1>12. CASE CommandStep \/ Processing \/ UNCHANGED vars
  BY <1>5, <1>12 DEF CommandStep, Processing, vars
<1>13. NextHook \/ HooksDone \/ HookEnds => HookEffect
  BY HookEffects
<1>14. CommandStarts \/ CommandEnds => WorkEffect
  BY WorkEffects
<1> QED
  BY <1>6, <1>7, <1>8, <1>9, <1>10, <1>11, <1>12, <1>13, <1>14 DEF Next, RunStep

\* A statement has added the row of a step.
LEMMA AddedRow ==
  ASSUME TargetInv, Placed(at), LevelInv(at, begun), StepsInv(at, steps, begun), RowInv,
         NEW row \in {"none", "running"}, at.doing = "create", Added(row),
         \/ at'.doing = "start" /\ row \in NewRows
         \/ at'.doing = "over" /\ cancels' > 0,
         mode' = mode
  PROVE  RowInv'
<1>2. /\ Len(steps') = Len(steps) + 1 /\ Len(steps) \in Nat
      /\ DOMAIN steps = 1 .. Len(steps) /\ DOMAIN steps' = 1 .. Len(steps')
      /\ steps'[Len(steps')] = NewStep(row)
      /\ \A i \in DOMAIN steps : steps'[i] = steps[i] /\ steps[i].verdict = "success"
  BY AddedSteps
<1>3. NewStep(row).row = row
  BY DEF NewStep
<1> DEFINE l == Len(steps)  k == Len(steps')
<1>4. /\ \A i \in 1 .. k : i = k \/ i \in 1 .. l
      /\ \A i \in 1 .. l : i # k
  BY <1>2
<1> HIDE DEF l, k
<1>5. ASSUME NEW i \in 1 .. l PROVE steps'[i].row \in RowOf(i, steps', at', cancels')
  <2>1. steps[i].row \in RowOf(i, steps, at, cancels) /\ steps'[i] = steps[i]
    BY <1>2, <1>5 DEF RowInv, l
  <2>2. i # Len(steps')
    BY <1>4, <1>5 DEF k
  <2> QED
    BY <2>1, <2>2 DEF RowOf
<1>6. steps'[k].row \in RowOf(k, steps', at', cancels')
  <2>1. mode \in {"normal", "dryRun"} /\ row \in NewRows => row = "running"
    BY DEF NewRows
  <2> QED
    BY <1>2, <1>3, <2>1 DEF RowOf, k
<1>7. \A i \in DOMAIN steps' : steps'[i].row \in RowOf(i, steps', at', cancels')
  BY <1>2, <1>4, <1>5, <1>6 DEF k
<1> QED
  BY <1>7 DEF RowInv, RowOf

\* A statement has changed the row of the last step.
LEMMA ChangedRow ==
  ASSUME TargetInv, Placed(at), StepsInv(at, steps, begun), RowInv,
         NEW row, at.doing = "finish", RowChanged(row),
         \/ at'.doing \in {"ready", "create", "collect", "over"} /\ row \in EndRows
         \/ at'.doing = "over" /\ cancels' > 0 /\ row \in {LastStep.row} \cup EndRows,
         mode' = mode
  PROVE  RowInv'
<1>1. /\ EndRows \subseteq Rows /\ LastStep.row \in Rows
      /\ EndRows \subseteq {"none", LastStep.row, RowFor(LastStep.verdict)}
      /\ mode # "faultyHistory" /\ LastStep.row # "none" => EndRows = {RowFor(LastStep.verdict)}
  BY EndRowsAre
<1>2. PICK w \in Step : /\ Changed(w) /\ w.task = LastStep.task /\ w.sub = LastStep.sub
                        /\ w.row = row /\ w.verdict = LastStep.verdict
                        /\ w.summary = LastStep.summary
  BY <1>1, RowChangedSteps
<1>3. /\ LastStep.summary \in {0, Len(steps)}
      /\ LastStep.sub # "backup" => LastStep.summary = 0
      /\ LastStep = steps[Len(steps)] /\ Len(steps) \in DOMAIN steps
  BY LastIsHere
<1>4. /\ Len(steps') = Len(steps) /\ DOMAIN steps' = DOMAIN steps
      /\ steps'[Len(steps)] = w
      /\ \A i \in DOMAIN steps : i # Len(steps) => steps'[i] = steps[i]
  BY <1>2, <1>3, ChangedSteps
<1>5. ASSUME NEW i \in DOMAIN steps, i # Len(steps)
      PROVE  steps'[i].row \in RowOf(i, steps', at', cancels')
  <2>1. steps[i].row \in RowOf(i, steps, at, cancels) /\ steps'[i] = steps[i]
    BY <1>4, <1>5 DEF RowInv
  <2> QED
    BY <1>4, <1>5, <2>1 DEF RowOf
<1>6. steps'[Len(steps)].row \in RowOf(Len(steps), steps', at', cancels')
  <2>1. /\ steps'[Len(steps)].row = row /\ steps'[Len(steps)].verdict = LastStep.verdict
        /\ Len(steps') = Len(steps)
    BY <1>2, <1>4
  <2>2. LastStep.row \in RowOf(Len(steps), steps, at, cancels)
    BY <1>3 DEF RowInv
  <2>3. CASE mode \in {"normal", "dryRun"}
    <3>1. LastStep.row = "running"
      BY <2>2, <2>3 DEF RowOf
    <3>2. EndRows = {RowFor(LastStep.verdict)}
      BY <1>1, <2>3, <3>1
    <3> QED
      BY <2>1, <2>3, <3>1, <3>2 DEF RowOf
  <2>4. CASE mode \notin {"normal", "dryRun"}
    <3>1. LastStep.row \in {"none", "running", RowFor(LastStep.verdict)}
      BY <1>3, <2>2, <2>4 DEF RowOf
    <3> QED
      BY <1>1, <2>1, <2>4, <3>1 DEF RowOf
  <2> QED
    BY <2>3, <2>4
<1>7. \A i \in DOMAIN steps' : steps'[i].row \in RowOf(i, steps', at', cancels')
  BY <1>4, <1>5, <1>6
<1> QED
  BY <1>7 DEF RowInv, RowOf

LEMMA RowInvKept ==
  ASSUME SubInv, TargetInv, Placed(at), LevelInv(at, begun), StepsInv(at, steps, begun),
         CancelInv, RowInv, [Next]_vars
  PROVE  RowInv'
<1>1. mode' = mode
  BY DEF Next, RunStep, NextHook, HooksDone, HookEnds, StepCreated, CommandStarts,
     CommandEnds, StepFinished, Collect, CommandStep, Processing, Cancel, vars
<1>2. \A i \in DOMAIN steps : steps[i].row \in RowOf(i, steps, at, cancels)
  BY DEF RowInv
<1>3. ASSUME UNCHANGED steps,
             \/ /\ at'.doing \in {"start", "command", "finish"}
                   <=> at.doing \in {"start", "command", "finish"}
                /\ at.doing = "over" => at'.doing = "over" /\ cancels' = cancels
      PROVE  RowInv'
  <2>1. \A i \in DOMAIN steps' : steps'[i].row \in RowOf(i, steps', at', cancels')
    BY <1>2, <1>3 DEF RowOf
  <2> QED
    BY <1>1, <2>1 DEF RowInv, RowOf
<1>5. CASE HookEffect
  BY <1>3, <1>5, DoingOf DEF HookEffect, AtHooks
<1>6. CASE WorkEffect
  <2>1. at.doing \in {"start", "command"} /\ at'.doing \in {"start", "command", "finish"}
    BY <1>6, DoingOf DEF WorkEffect
  <2>2. CASE at'.doing = "finish"
    <3>1. PICK v \in Verdicts, s \in {0, Len(steps)} :
                 Judged(v, s) /\ (s # 0 => v = "success" /\ SubAt = "backup")
      BY <1>6, <2>2 DEF WorkEffect
    <3>2. PICK w \in Step : /\ Changed(w) /\ w.task = LastStep.task /\ w.sub = LastStep.sub
                            /\ w.row = LastStep.row /\ w.summary = s
                            /\ w.sub # "backup" => w.summary = 0
      BY <2>1, <3>1, JudgedSteps
    <3>3. /\ Len(steps') = Len(steps) /\ DOMAIN steps' = DOMAIN steps
          /\ steps'[Len(steps)] = w
          /\ \A i \in DOMAIN steps : i # Len(steps) => steps'[i] = steps[i]
      BY <2>1, <3>2, ChangedSteps
    <3>4. LastStep = steps[Len(steps)] /\ Len(steps) \in DOMAIN steps
          /\ LastStep.verdict = "none"
      BY <2>1, LastIsHere DEF StepsInv, StepsAt
    <3>5. ASSUME NEW i \in DOMAIN steps
          PROVE  steps'[i].row \in RowOf(i, steps', at', cancels')
      BY <1>2, <2>1, <2>2, <3>2, <3>3, <3>4, <3>5 DEF RowOf, RowFor
    <3> QED
      BY <1>1, <3>3, <3>5 DEF RowInv, RowOf
  <2>3. CASE at'.doing # "finish"
    BY <1>3, <1>6, <2>1, <2>3 DEF WorkEffect
  <2> QED
    BY <2>2, <2>3
<1>7. CASE StepCreated
  <2>1. PICK row \in NewRows : at.doing = "create" /\ Added(row) /\ at'.doing = "start"
    BY <1>7, DoingOf DEF StepCreated, Added
  <2> QED
    BY <1>1, <2>1, NewRowsAre, AddedRow
<1>8. CASE StepFinished
  <2>1. PICK row \in EndRows : at.doing = "finish" /\ RowChanged(row)
    BY <1>8 DEF StepFinished, RowChanged
  <2>2. at'.doing \in {"ready", "create", "collect", "over"}
    BY <1>8, DoingOf DEF StepFinished
  <2> QED
    BY <1>1, <2>1, <2>2, ChangedRow
<1>9. CASE Collect
  <2>1. at.doing = "collect" /\ at'.doing \in {"collect", "over"} /\ UNCHANGED steps
    BY <1>9, DoingOf DEF Collect
  <2> QED
    BY <1>3, <2>1
<1>10. CASE CommandStep \/ Processing \/ UNCHANGED vars
  BY <1>3, <1>10 DEF CommandStep, Processing, vars
<1>13. CASE Cancel
  <2>1. cancels' > 0
    BY <1>13 DEF Cancel, CancelInv
  <2>2. CASE StatementCancelled /\ at.doing = "create"
    <3>1. PICK row \in {"none"} \cup NewRows : Added(row)
      BY <2>2 DEF StatementCancelled, Added
    <3>2. row \in {"none", "running"} /\ at'.doing = "over"
      BY <2>2, <3>1, NewRowsAre DEF StatementCancelled, Escapes, Over
    <3> QED
      BY <1>1, <2>1, <2>2, <3>1, <3>2, AddedRow
  <2>3. CASE StatementCancelled /\ at.doing = "finish"
    <3>1. PICK row \in {LastStep.row} \cup EndRows : RowChanged(row)
      BY <2>3 DEF StatementCancelled, RowChanged
    <3>2. at'.doing = "over"
      BY <2>3 DEF StatementCancelled, Escapes, Over
    <3> QED
      BY <1>1, <2>1, <2>3, <3>1, <3>2, ChangedRow
  <2>4. CASE ~ StatementCancelled
    BY <1>3, <1>13, <2>4 DEF Cancel
  <2> QED
    BY <2>2, <2>3, <2>4 DEF StatementCancelled
<1>11. NextHook \/ HooksDone \/ HookEnds => HookEffect
  BY HookEffects
<1>12. CommandStarts \/ CommandEnds => WorkEffect
  BY WorkEffects
<1> QED
  BY <1>5, <1>6, <1>7, <1>8, <1>9, <1>10, <1>11, <1>12, <1>13 DEF Next, RunStep

-----------------------------------------------------------------------------
(***************************************************************************)
(* The queues.                                                             *)
(***************************************************************************)
LEMMA SeqGrows == ASSUME NEW A, NEW B, A \subseteq B PROVE Seq(A) \subseteq Seq(B)
<1> SUFFICES ASSUME NEW q \in Seq(A) PROVE q \in Seq(B)
  OBVIOUS
<1>1. Len(q) \in Nat /\ q \in [1 .. Len(q) -> A]
  BY LenProperties
<1>2. q \in [1 .. Len(q) -> B]
  BY <1>1
<1> QED
  BY <1>1, <1>2, SeqDef

LEMMA NoneWait == ASSUME NEW queue, Lists(queue, {}) PROVE queue = << >>
<1>1. queue \in Seq(Nat) /\ \A i \in DOMAIN queue : FALSE
  BY DEF Lists
<1>2. Len(queue) \in Nat /\ DOMAIN queue = 1 .. Len(queue)
  BY <1>1, LenProperties
<1> DEFINE l == Len(queue)
<1>3. l = 0
  <2>1. l \in Nat /\ ~ (1 \in 1 .. l)
    BY <1>1, <1>2
  <2> HIDE DEF l
  <2> QED
    BY <2>1
<1> QED
  BY <1>1, <1>3, EmptySeq

LEMMA ListsAppend ==
  ASSUME NEW queue, NEW S, Lists(queue, S), NEW n \in Nat, \A m \in S : m < n
  PROVE  Lists(Append(queue, n), S \cup {n})
<1> DEFINE longer == Append(queue, n)  l == Len(queue)  k == l + 1
<1>1. /\ queue \in Seq(Nat)
      /\ \A i \in DOMAIN queue : queue[i] \in S
      /\ \A m \in S : \E i \in DOMAIN queue : queue[i] = m
      /\ \A i, j \in DOMAIN queue : i < j => queue[i] < queue[j]
  BY DEF Lists
<1>2. l \in Nat /\ DOMAIN queue = 1 .. l
  BY <1>1, LenProperties
<1>3. /\ longer \in Seq(Nat) /\ Len(longer) = k /\ longer[k] = n
      /\ \A i \in 1 .. l : longer[i] = queue[i]
  BY <1>1, AppendProperties
<1>4. DOMAIN longer = 1 .. k
  BY <1>3, LenProperties
<1>5. k \in Nat /\ k \in 1 .. k /\ (\A i \in 1 .. k : i = k \/ i \in 1 .. l)
      /\ (\A i \in 1 .. l : i \in 1 .. k /\ i < k /\ ~ (k < i))
  BY <1>2
<1> HIDE DEF longer, l, k
<1>6. \A i \in 1 .. k : longer[i] \in S \cup {n}
  BY <1>1, <1>2, <1>3, <1>5
<1>7. \A m \in S \cup {n} : \E i \in 1 .. k : longer[i] = m
  BY <1>1, <1>2, <1>3, <1>5
<1>8. \A i, j \in 1 .. k : i < j => longer[i] < longer[j]
  <2> SUFFICES ASSUME NEW i \in 1 .. k, NEW j \in 1 .. k, i < j PROVE longer[i] < longer[j]
    OBVIOUS
  <2>1. i \in 1 .. l
    BY <1>5
  <2>2. CASE j = k
    BY <1>1, <1>2, <1>3, <2>1, <2>2
  <2>3. CASE j \in 1 .. l
    BY <1>1, <1>2, <1>3, <2>1, <2>3
  <2> QED
    BY <1>5, <2>2, <2>3
<1>9. Lists(longer, S \cup {n})
  BY <1>3, <1>4, <1>6, <1>7, <1>8 DEF Lists
<1> QED
  BY <1>9 DEF longer

LEMMA HeadIsLeast ==
  ASSUME NEW queue, NEW S, Lists(queue, S), NEW p \in S, \A n \in S : n \in Nat /\ p <= n
  PROVE  queue # << >> /\ Head(queue) = p /\ Lists(Tail(queue), S \ {p})
<1> DEFINE rest == Tail(queue)  l == Len(queue)  k == l - 1
<1>1. /\ queue \in Seq(Nat)
      /\ \A i \in DOMAIN queue : queue[i] \in S
      /\ \A m \in S : \E i \in DOMAIN queue : queue[i] = m
      /\ \A i, j \in DOMAIN queue : i < j => queue[i] < queue[j]
  BY DEF Lists
<1>2. l \in Nat /\ DOMAIN queue = 1 .. l
  BY <1>1, LenProperties
<1>3. PICK i \in 1 .. l : queue[i] = p
  BY <1>1, <1>2
<1>4. 1 \in 1 .. l /\ (1 < i \/ i = 1)
  BY <1>2, <1>3
<1>5. queue[1] = p
  <2>1. queue[1] \in S /\ p <= queue[1] /\ queue[1] \in Nat /\ p \in Nat
    BY <1>1, <1>2, <1>4
  <2>2. 1 < i => queue[1] < p
    BY <1>1, <1>2, <1>3, <1>4
  <2> QED
    BY <1>3, <1>4, <2>1, <2>2
<1>6. queue # << >>
  BY <1>2, <1>4, EmptySeq
<1>7. /\ Head(queue) = queue[1] /\ rest \in Seq(Nat) /\ Len(rest) = k
      /\ \A j \in 1 .. k : rest[j] = queue[j + 1]
  BY <1>1, <1>6, HeadTailProperties
<1>8. DOMAIN rest = 1 .. k
  BY <1>7, LenProperties
<1>9. /\ \A j \in 1 .. k : j + 1 \in 1 .. l /\ 1 < j + 1
      /\ \A j \in 1 .. l : j = 1 \/ (j - 1 \in 1 .. k /\ (j - 1) + 1 = j)
  BY <1>2, <1>4
<1> HIDE DEF rest, l, k
<1>10. \A j \in 1 .. k : rest[j] \in S \ {p}
  <2> SUFFICES ASSUME NEW j \in 1 .. k PROVE rest[j] \in S \ {p}
    OBVIOUS
  <2> DEFINE m == j + 1
  <2>1. m \in 1 .. l /\ 1 < m /\ rest[j] = queue[m]
    BY <1>7, <1>9
  <2> HIDE DEF m
  <2>2. queue[m] \in S /\ queue[1] < queue[m] /\ queue[m] \in Nat
    BY <1>1, <1>2, <1>4, <2>1
  <2> QED
    BY <1>5, <2>1, <2>2
<1>11. \A n \in S \ {p} : \E j \in 1 .. k : rest[j] = n
  <2> SUFFICES ASSUME NEW n \in S \ {p} PROVE \E j \in 1 .. k : rest[j] = n
    OBVIOUS
  <2>1. PICK m \in 1 .. l : queue[m] = n
    BY <1>1, <1>2
  <2>2. m # 1
    BY <1>5, <2>1
  <2> DEFINE j == m - 1
  <2>3. j \in 1 .. k /\ j + 1 = m
    BY <1>9, <2>2
  <2> HIDE DEF j
  <2>4. rest[j] = n
    BY <1>7, <2>1, <2>3
  <2> QED
    BY <2>3, <2>4
<1>12. \A i1, j1 \in 1 .. k : i1 < j1 => rest[i1] < rest[j1]
  <2> SUFFICES ASSUME NEW i1 \in 1 .. k, NEW j1 \in 1 .. k, i1 < j1 PROVE rest[i1] < rest[j1]
    OBVIOUS
  <2> DEFINE i2 == i1 + 1  j2 == j1 + 1
  <2>1. /\ i2 \in 1 .. l /\ j2 \in 1 .. l /\ i2 < j2
        /\ rest[i1] = queue[i2] /\ rest[j1] = queue[j2]
    BY <1>7, <1>9
  <2> HIDE DEF i2, j2
  <2> QED
    BY <1>1, <1>2, <2>1
<1>13. Lists(rest, S \ {p})
  BY <1>7, <1>8, <1>10, <1>11, <1>12 DEF Lists
<1> QED
  BY <1>5, <1>6, <1>7, <1>13 DEF rest

LEMMA QueuesAre ==
  /\ \A t, s : <<t, s>> \in Queues <=> t \in BackupTasks /\ s \in BackupSubsteps
  /\ \A q \in Queues : q = <<q[1], q[2]>> /\ q[1] \in BackupTasks /\ q[2] \in BackupSubsteps
  /\ \A u \in DOMAIN units : units[u].task \in BackupTasks
<1>1. \A t, s : <<t, s>> \in Queues <=>
         (\E u \in DOMAIN units : t = units[u].task) /\ s \in BackupSubsteps
  BY DEF Queues
<1>2. \A q \in Queues : q = <<q[1], q[2]>>
  BY DEF Queues
<1>3. ASSUME NEW t PROVE t \in BackupTasks <=> \E u \in DOMAIN units : t = units[u].task
  <2>1. ASSUME t \in BackupTasks PROVE \E u \in DOMAIN units : t = units[u].task
    <3>1. PICK q \in Queues : t = q[1]
      BY <2>1 DEF BackupTasks
    <3> QED
      BY <3>1 DEF Queues
  <2>2. ASSUME NEW u \in DOMAIN units, t = units[u].task PROVE t \in BackupTasks
    <3> DEFINE q == <<t, "backup">>
    <3>1. q \in Queues /\ q[1] = t
      BY <1>1, <2>2 DEF BackupSubsteps
    <3> HIDE DEF q
    <3> QED
      BY <3>1 DEF BackupTasks
  <2> QED
    BY <2>1, <2>2
<1>4. \A t, s : <<t, s>> \in Queues <=> t \in BackupTasks /\ s \in BackupSubsteps
  BY <1>1, <1>3
<1>5. \A q \in Queues : q[1] \in BackupTasks /\ q[2] \in BackupSubsteps
  BY <1>2, <1>4
<1> QED
  BY <1>2, <1>3, <1>4, <1>5

\* Every step that was successful stays what it is.
Kept(st, ut) ==
  /\ DOMAIN st \subseteq DOMAIN ut
  /\ \A n \in DOMAIN st : st[n].verdict = "success" =>
       /\ ut[n].verdict = "success" /\ ut[n].task = st[n].task /\ ut[n].sub = st[n].sub
       /\ ut[n].summary = st[n].summary

LEMMA QueueKept ==
  ASSUME QueueInv(at, outcome, steps, stepIds, artifacts), NEW a, NEW out, NEW st,
         Kept(steps, st), at.doing # "over",
         a.doing # "over" => \A q \in Queues : Awaited(q, a, out, st)
                                                 = Awaited(q, at, outcome, steps)
  PROVE  QueueInv(a, out, st, stepIds, artifacts)
<1>1. /\ stepIds \in [Queues -> Seq(DOMAIN steps)]
      /\ artifacts \in [BackupTasks -> Seq({0} \cup DOMAIN steps)]
  BY DEF QueueInv
<1>2. /\ Seq(DOMAIN steps) \subseteq Seq(DOMAIN st)
      /\ Seq({0} \cup DOMAIN steps) \subseteq Seq({0} \cup DOMAIN st)
  BY SeqGrows DEF Kept
<1>3. /\ stepIds \in [Queues -> Seq(DOMAIN st)]
      /\ artifacts \in [BackupTasks -> Seq({0} \cup DOMAIN st)]
  BY <1>1, <1>2
<1>4. /\ mode = "noHistory" => \A q \in Queues : stepIds[q] = << >>
      /\ mode # "noHistory" =>
           \A q \in Queues : Lists(stepIds[q], Awaited(q, at, outcome, steps))
      /\ \A t \in BackupTasks : \A k \in DOMAIN artifacts[t] : artifacts[t][k] # 0 =>
           steps[artifacts[t][k]].verdict = "success" /\ steps[artifacts[t][k]].task = t
      /\ mode \in {"normal", "faultyHistory"} => \A t \in BackupTasks :
           /\ Len(artifacts[t]) = Len(stepIds[<<t, "backup">>])
           /\ \A k \in DOMAIN artifacts[t] :
                artifacts[t][k] = steps[stepIds[<<t, "backup">>][k]].summary
  BY DEF QueueInv
<1>5. \A t \in BackupTasks : \A k \in DOMAIN artifacts[t] : artifacts[t][k] # 0 =>
        st[artifacts[t][k]].verdict = "success" /\ st[artifacts[t][k]].task = t
  <2> SUFFICES ASSUME NEW t \in BackupTasks, NEW k \in DOMAIN artifacts[t], artifacts[t][k] # 0
               PROVE  st[artifacts[t][k]].verdict = "success" /\ st[artifacts[t][k]].task = t
    OBVIOUS
  <2>1. artifacts[t] \in Seq({0} \cup DOMAIN steps)
    BY <1>1
  <2>2. artifacts[t][k] \in {0} \cup DOMAIN steps
    BY <2>1, ElementOfSeq, LenProperties
  <2>3. artifacts[t][k] \in DOMAIN steps
    BY <2>2
  <2> QED
    BY <1>4, <2>3 DEF Kept
<1>6. ASSUME mode \in {"normal", "faultyHistory"}, NEW t \in BackupTasks,
             NEW k \in DOMAIN artifacts[t]
      PROVE  artifacts[t][k] = st[stepIds[<<t, "backup">>][k]].summary
  <2> DEFINE q == <<t, "backup">>
  <2>1. q \in Queues
    BY QueuesAre DEF BackupSubsteps
  <2>2. /\ artifacts[t] \in Seq({0} \cup DOMAIN steps) /\ stepIds[q] \in Seq(DOMAIN steps)
        /\ Len(artifacts[t]) = Len(stepIds[q])
    BY <1>1, <1>4, <1>6, <2>1
  <2>3. k \in DOMAIN stepIds[q]
    BY <2>2, LenProperties
  <2>4. Lists(stepIds[q], Awaited(q, at, outcome, steps))
    BY <1>4, <1>6, <2>1
  <2>5. stepIds[q][k] \in DOMAIN steps /\ steps[stepIds[q][k]].verdict = "success"
    BY <2>3, <2>4 DEF Lists, Awaited
  <2> QED
    BY <1>4, <1>6, <2>5 DEF Kept
<1> QED
  BY <1>3, <1>4, <1>5, <1>6 DEF QueueInv

LEMMA UntilIs ==
  ASSUME TargetInv
  PROVE  /\ \A a, out : a.doing \notin {"collect", "over"} => Until(a, out) = 1
         /\ \A out : Until(Collecting, out) = 1
         /\ \A a, out : a.doing = "collect" => Until(a, out) = Pos(a.unit, a.sub)
         /\ \A out : out \in {"success", "failed"} => Until(Over, out) = Total + 1
         /\ \A out : out \notin {"success", "failed"} => Until(Over, out) = 1
<1>1. Base[1] = 0 /\ Pos(1, 1) = Base[1] + 1
  BY BaseFacts DEF Pos
<1>2. Pos(1, 1) = 1
  BY <1>1
<1> QED
  BY <1>2 DEF Until, Collecting, Over

LEMMA LeavesUntil ==
  ASSUME TargetInv, NEW n, Leaves(n) \/ Continues(n) \/ Outward(3, at.unit, "on_error", n),
         NEW out
  PROVE  Until(n, out) = 1 /\ n.doing \in {"ready", "create", "collect"}
<1>1. n.doing = "collect" => n = Collecting
  <2>1. \A l, u, phase : /\ Inward(l, u, n) => n.doing # "collect"
                         /\ Outward(l, u, phase, n) /\ n.doing = "collect" => n = Collecting
    BY DEF Inward, Outward, HookList, SubstepAt
  <2>2. \A u : Ends3(u, n) /\ n.doing = "collect" => n = Collecting
    BY <2>1 DEF Ends3
  <2> QED
    BY <2>1, <2>2 DEF Leaves, Continues, HookList, SubstepAt
<1>2. n.doing \in {"ready", "create", "collect"}
  BY LeavesDoing
<1> QED
  BY <1>1, <1>2, UntilIs

\* What the steps are when a step is added or its verdict or row is written.
LEMMA StepsKept ==
  ASSUME TargetInv, Placed(at), StepsInv(at, steps, begun),
         \/ at.doing = "create" /\ \E row \in {"none", "running"} : Added(row)
         \/ /\ at.doing \in {"start", "command"}
            /\ \E v \in Verdicts, s \in {0, Len(steps)} :
                  Judged(v, s) /\ (s # 0 => v = "success" /\ SubAt = "backup")
         \/ at.doing = "finish" /\ \E row \in Rows : RowChanged(row)
         \/ UNCHANGED steps
  PROVE  Kept(steps, steps')
<1>1. CASE at.doing = "create" /\ \E row \in {"none", "running"} : Added(row)
  <2>1. PICK row \in {"none", "running"} : Added(row)
    BY <1>1
  <2>2. /\ Len(steps') = Len(steps) + 1 /\ Len(steps) \in Nat
        /\ DOMAIN steps = 1 .. Len(steps) /\ DOMAIN steps' = 1 .. Len(steps')
        /\ \A i \in DOMAIN steps : steps'[i] = steps[i]
    BY <1>1, <2>1, AddedSteps
  <2>3. DOMAIN steps \subseteq DOMAIN steps'
    BY <2>2
  <2> QED
    BY <2>2, <2>3 DEF Kept
<1>2. CASE /\ at.doing \in {"start", "command"}
           /\ \E v \in Verdicts, s \in {0, Len(steps)} :
                 Judged(v, s) /\ (s # 0 => v = "success" /\ SubAt = "backup")
  <2>1. PICK v \in Verdicts, s \in {0, Len(steps)} :
               Judged(v, s) /\ (s # 0 => v = "success" /\ SubAt = "backup")
    BY <1>2
  <2>2. PICK w \in Step : /\ Changed(w) /\ w.task = LastStep.task /\ w.sub = LastStep.sub
                          /\ w.summary = s /\ (w.sub # "backup" => w.summary = 0)
    BY <1>2, <2>1, JudgedSteps
  <2>3. /\ DOMAIN steps' = DOMAIN steps
        /\ \A i \in DOMAIN steps : i # Len(steps) => steps'[i] = steps[i]
    BY <1>2, <2>2, ChangedSteps
  <2>4. steps[Len(steps)].verdict = "none"
    BY <1>2 DEF StepsInv, StepsAt
  <2> QED
    BY <2>3, <2>4 DEF Kept
<1>3. CASE at.doing = "finish" /\ \E row \in Rows : RowChanged(row)
  <2>1. PICK row \in Rows : RowChanged(row)
    BY <1>3
  <2>2. PICK w \in Step : /\ Changed(w) /\ w.task = LastStep.task /\ w.sub = LastStep.sub
                          /\ w.verdict = LastStep.verdict /\ w.summary = LastStep.summary
    BY <1>3, <2>1, RowChangedSteps
  <2>3. /\ LastStep.summary \in {0, Len(steps)} /\ LastStep = steps[Len(steps)]
        /\ LastStep.sub # "backup" => LastStep.summary = 0
    BY <1>3, LastIsHere
  <2>4. /\ DOMAIN steps' = DOMAIN steps /\ steps'[Len(steps)] = w
        /\ \A i \in DOMAIN steps : i # Len(steps) => steps'[i] = steps[i]
    BY <1>3, <2>2, <2>3, ChangedSteps
  <2> QED
    BY <2>2, <2>3, <2>4 DEF Kept
<1>4. CASE UNCHANGED steps
  BY <1>4 DEF Kept
<1> QED
  BY <1>1, <1>2, <1>3, <1>4

\* Steps of the run that leave the queues alone.
LEMMA HookQueues ==
  ASSUME TargetInv, Placed(at), StepsInv(at, steps, begun), HookEffect,
         QueueInv(at, outcome, steps, stepIds, artifacts)
  PROVE  QueueInv(at', outcome', steps', stepIds', artifacts')
<1>1. at.doing \in {"ready", "hook"} /\ UNCHANGED <<steps, stepIds, artifacts>>
  BY DEF HookEffect, AtHooks
<1>2. Until(at, outcome) = 1
  BY <1>1, UntilIs
<1>3. at'.doing # "over" => Until(at', outcome') = 1 /\ at'.doing # "finish"
  <2>1. CASE at'.doing \in {"ready", "hook"}
    BY <2>1, UntilIs
  <2>2. CASE Leaves(at')
    BY <2>2, LeavesUntil
  <2>3. CASE at' = Over
    BY <2>3 DEF Over
  <2> QED
    BY <2>1, <2>2, <2>3 DEF HookEffect
<1>4. at'.doing # "over" => \A q \in Queues : Awaited(q, at', outcome', steps)
                                                 = Awaited(q, at, outcome, steps)
  BY <1>1, <1>2, <1>3 DEF Awaited
<1>5. Kept(steps, steps)
  BY DEF Kept
<1>6. at.doing # "over"
  BY <1>1
<1> QED
  BY <1>1, <1>4, <1>5, <1>6, QueueKept

LEMMA WorkQueues ==
  ASSUME TargetInv, Placed(at), LevelInv(at, begun), StepsInv(at, steps, begun), WorkEffect,
         QueueInv(at, outcome, steps, stepIds, artifacts)
  PROVE  QueueInv(at', outcome', steps', stepIds', artifacts')
<1>1. at.doing \in {"start", "command"} /\ at'.doing \in {"start", "command", "finish"}
      /\ UNCHANGED <<stepIds, artifacts>>
  BY DoingOf DEF WorkEffect
<1>2. Until(at, outcome) = 1 /\ Until(at', outcome') = 1 /\ at.doing # "over"
  BY <1>1, UntilIs
<1>3. steps[Len(steps)].verdict = "none"
  BY <1>1 DEF StepsInv, StepsAt
<1>4. CASE at'.doing # "finish"
  <2>1. UNCHANGED steps
    BY <1>4 DEF WorkEffect
  <2>2. \A q \in Queues : Awaited(q, at', outcome', steps) = Awaited(q, at, outcome, steps)
    BY <1>1, <1>2, <1>4 DEF Awaited
  <2>3. Kept(steps, steps)
    BY DEF Kept
  <2> QED
    BY <1>1, <1>2, <2>1, <2>2, <2>3, QueueKept
<1>5. CASE at'.doing = "finish"
  <2>1. PICK v \in Verdicts, s \in {0, Len(steps)} :
               Judged(v, s) /\ (s # 0 => v = "success" /\ SubAt = "backup")
    BY <1>5 DEF WorkEffect
  <2>2. PICK w \in Step : /\ Changed(w) /\ w.task = LastStep.task /\ w.sub = LastStep.sub
                          /\ w.summary = s /\ (w.sub # "backup" => w.summary = 0)
    BY <1>1, <2>1, JudgedSteps
  <2>3. /\ DOMAIN steps' = DOMAIN steps /\ Len(steps') = Len(steps)
        /\ \A i \in DOMAIN steps : i # Len(steps) =>
              i < Len(steps) /\ steps'[i] = steps[i] /\ steps[i].verdict = "success"
    BY <1>1, <2>2, ChangedSteps
  <2>4. Len(steps) \in Nat
    BY <1>1, LastIsHere
  <2>5. ASSUME NEW q \in Queues
        PROVE  Awaited(q, at', outcome', steps') = Awaited(q, at, outcome, steps)
    <3> DEFINE l == Len(steps)
    <3>1. \A n : n \in Awaited(q, at', outcome', steps') <=>
                   /\ n \in DOMAIN steps /\ steps'[n].verdict = "success"
                   /\ <<steps'[n].task, steps'[n].sub>> = q /\ 1 <= n /\ n < l
      BY <1>2, <1>5, <2>3 DEF Awaited
    <3>2. \A n : n \in Awaited(q, at, outcome, steps) <=>
                   /\ n \in DOMAIN steps /\ steps[n].verdict = "success"
                   /\ <<steps[n].task, steps[n].sub>> = q /\ 1 <= n
      BY <1>1, <1>2 DEF Awaited
    <3>3. ~ (l < l)
      BY <2>4
    <3>4. \A n \in DOMAIN steps : n < l => n # l /\ steps'[n] = steps[n]
      BY <2>3, <3>3
    <3>5. \A n \in DOMAIN steps : steps[n].verdict = "success" => n < l
      BY <1>3, <2>3
    <3> HIDE DEF l
    <3>6. \A n : n \in Awaited(q, at', outcome', steps')
                   <=> n \in Awaited(q, at, outcome, steps)
      BY <3>1, <3>2, <3>4, <3>5
    <3> QED
      BY <3>6
  <2>6. Kept(steps, steps')
    BY <1>1, <2>1, StepsKept
  <2> QED
    BY <1>1, <1>2, <2>5, <2>6, QueueKept
<1> QED
  BY <1>4, <1>5

LEMMA CreatedQueues ==
  ASSUME TargetInv, Placed(at), LevelInv(at, begun), StepsInv(at, steps, begun), StepCreated,
         QueueInv(at, outcome, steps, stepIds, artifacts)
  PROVE  QueueInv(at', outcome', steps', stepIds', artifacts')
<1>1. PICK row \in {"none", "running"} :
         /\ at.doing = "create" /\ at'.doing = "start" /\ UNCHANGED <<stepIds, artifacts>>
         /\ Added(row)
  BY NewRowsAre, DoingOf DEF StepCreated, Added
<1>2. Until(at, outcome) = 1 /\ Until(at', outcome') = 1
  BY <1>1, UntilIs
<1>3. /\ Len(steps') = Len(steps) + 1 /\ Len(steps) \in Nat
      /\ DOMAIN steps = 1 .. Len(steps) /\ DOMAIN steps' = 1 .. Len(steps')
      /\ steps'[Len(steps')] = NewStep(row)
      /\ \A i \in DOMAIN steps : steps'[i] = steps[i]
  BY <1>1, AddedSteps
<1>4. steps'[Len(steps')].verdict = "none"
  BY <1>3 DEF NewStep
<1>5. \A n : n \in DOMAIN steps' <=> n \in DOMAIN steps \/ n = Len(steps')
  BY <1>3
<1>6. \A q \in Queues : Awaited(q, at', outcome', steps') = Awaited(q, at, outcome, steps)
  BY <1>1, <1>2, <1>3, <1>4, <1>5 DEF Awaited
<1>7. Kept(steps, steps')
  BY <1>1, StepsKept
<1>8. at.doing # "over"
  BY <1>1
<1> QED
  BY <1>1, <1>6, <1>7, <1>8, QueueKept

LEMMA CancelledQueues ==
  ASSUME TargetInv, Placed(at), StepsInv(at, steps, begun), StatementCancelled,
         UNCHANGED <<stepIds, artifacts>>,
         QueueInv(at, outcome, steps, stepIds, artifacts)
  PROVE  QueueInv(at', outcome', steps', stepIds', artifacts')
<1>1. at' = Over /\ at'.doing = "over" /\ at.doing # "over"
  BY DEF StatementCancelled, Escapes, Over
<1>2. Kept(steps, steps')
  <2>1. CASE at.doing = "create" /\ \E row \in {"none"} \cup NewRows : Added(row)
    BY <2>1, NewRowsAre, StepsKept
  <2>2. CASE at.doing = "finish" /\ \E row \in {LastStep.row} \cup EndRows : RowChanged(row)
    BY <2>2, EndRowsAre, StepsKept
  <2> QED
    BY <2>1, <2>2 DEF StatementCancelled, Added, RowChanged
<1> QED
  BY <1>1, <1>2, QueueKept

\* A step id and a summary are added to their queues.
LEMMA QueueAdds ==
  ASSUME NEW st, NEW l, l = Len(st), st \in Seq(Step), l \in Nat, l >= 1, at.doing = "finish",
         TargetInv, Until(at, outcome) = 1,
         QueueInv(at, outcome, st, stepIds, artifacts),
         st[l].verdict = "success", st[l].summary \in {0, l},
         NEW h, h = <<st[l].task, st[l].sub>>, h \in Queues, NEW a, NEW out, Until(a, out) = 1,
         a.doing \notin {"finish", "over"}, NEW ids, NEW arts,
         ids = IF mode # "noHistory" THEN [stepIds EXCEPT ![h] = Append(@, l)] ELSE stepIds,
         arts = IF st[l].sub = "backup" /\ mode # "dryRun"
                THEN [artifacts EXCEPT ![st[l].task] = Append(@, st[l].summary)] ELSE artifacts
  PROVE  QueueInv(a, out, st, ids, arts)
<1> DEFINE t0 == st[l].task
<1>1. DOMAIN st = 1 .. Len(st) /\ l \in DOMAIN st /\ t0 \in BackupTasks
  BY LenProperties, QueuesAre
<1>2. /\ stepIds \in [Queues -> Seq(DOMAIN st)]
      /\ artifacts \in [BackupTasks -> Seq({0} \cup DOMAIN st)]
      /\ mode = "noHistory" => \A q \in Queues : stepIds[q] = << >>
      /\ mode # "noHistory" => \A q \in Queues : Lists(stepIds[q], Awaited(q, at, outcome, st))
      /\ \A t \in BackupTasks : \A k \in DOMAIN artifacts[t] : artifacts[t][k] # 0 =>
           st[artifacts[t][k]].verdict = "success" /\ st[artifacts[t][k]].task = t
      /\ mode \in {"normal", "faultyHistory"} => \A t \in BackupTasks :
           /\ Len(artifacts[t]) = Len(stepIds[<<t, "backup">>])
           /\ \A k \in DOMAIN artifacts[t] :
                artifacts[t][k] = st[stepIds[<<t, "backup">>][k]].summary
  BY DEF QueueInv
<1>3. /\ Append(stepIds[h], l) \in Seq(DOMAIN st)
      /\ Len(Append(stepIds[h], l)) = Len(stepIds[h]) + 1
      /\ Append(stepIds[h], l)[Len(stepIds[h]) + 1] = l
      /\ \A k \in 1 .. Len(stepIds[h]) : Append(stepIds[h], l)[k] = stepIds[h][k]
  <2>1. stepIds[h] \in Seq(DOMAIN st)
    BY <1>2
  <2> HIDE DEF t0
  <2> QED
    BY <1>1, <2>1, AppendProperties
<1>4. /\ Append(artifacts[t0], st[l].summary) \in Seq({0} \cup DOMAIN st)
      /\ Len(Append(artifacts[t0], st[l].summary)) = Len(artifacts[t0]) + 1
      /\ Append(artifacts[t0], st[l].summary)[Len(artifacts[t0]) + 1] = st[l].summary
      /\ \A k \in 1 .. Len(artifacts[t0]) :
           Append(artifacts[t0], st[l].summary)[k] = artifacts[t0][k]
  <2>1. artifacts[t0] \in Seq({0} \cup DOMAIN st) /\ st[l].summary \in {0} \cup DOMAIN st
    BY <1>1, <1>2
  <2> HIDE DEF t0
  <2> QED
    BY <2>1, AppendProperties
<1> HIDE DEF t0
<1>5. ids \in [Queues -> Seq(DOMAIN st)]
      /\ \A q \in Queues : ids[q] = IF mode # "noHistory" /\ q = h THEN Append(stepIds[h], l)
                                    ELSE stepIds[q]
  BY <1>2, <1>3
<1>6. arts \in [BackupTasks -> Seq({0} \cup DOMAIN st)]
      /\ \A t \in BackupTasks :
           arts[t] = IF st[l].sub = "backup" /\ mode # "dryRun" /\ t = t0
                     THEN Append(artifacts[t0], st[l].summary) ELSE artifacts[t]
  BY <1>1, <1>2, <1>4 DEF t0
<1>7. ASSUME mode # "noHistory", NEW q \in Queues
      PROVE  Lists(ids[q], Awaited(q, a, out, st))
  <2>1. \A n : n \in Awaited(q, at, outcome, st) <=>
                 /\ n \in DOMAIN st /\ st[n].verdict = "success"
                 /\ <<st[n].task, st[n].sub>> = q /\ 1 <= n /\ n < l
    BY DEF Awaited
  <2>2. \A n : n \in Awaited(q, a, out, st) <=>
                 /\ n \in DOMAIN st /\ st[n].verdict = "success"
                 /\ <<st[n].task, st[n].sub>> = q /\ 1 <= n
    BY DEF Awaited
  <2>3. \A n \in DOMAIN st : n < l \/ n = l
    BY <1>1
  <2>4. CASE q = h
    <3>1. Awaited(q, a, out, st) = Awaited(q, at, outcome, st) \cup {l}
      <4>1. 1 <= l
        OBVIOUS
      <4> QED
        BY <1>1, <2>1, <2>2, <2>3, <2>4, <4>1
    <3>2. \A n \in Awaited(q, at, outcome, st) : n < l
      BY <2>1
    <3>3. Lists(stepIds[q], Awaited(q, at, outcome, st))
      BY <1>2, <1>7
    <3>4. Lists(Append(stepIds[q], l), Awaited(q, at, outcome, st) \cup {l})
      BY <3>2, <3>3, ListsAppend
    <3> QED
      BY <1>5, <1>7, <2>4, <3>1, <3>4
  <2>5. CASE q # h
    <3>1. \A n : n \in Awaited(q, a, out, st) <=> n \in Awaited(q, at, outcome, st)
      BY <2>1, <2>2, <2>3, <2>5
    <3>2. Awaited(q, a, out, st) = Awaited(q, at, outcome, st)
      BY <3>1
    <3> QED
      BY <1>2, <1>5, <1>7, <2>5, <3>2
  <2> QED
    BY <2>4, <2>5
<1>8. ASSUME NEW t \in BackupTasks, NEW k \in DOMAIN arts[t], arts[t][k] # 0
      PROVE  st[arts[t][k]].verdict = "success" /\ st[arts[t][k]].task = t
  <2>1. CASE st[l].sub = "backup" /\ mode # "dryRun" /\ t = t0
    <3> DEFINE m == Len(artifacts[t0])
    <3>1. artifacts[t0] \in Seq({0} \cup DOMAIN st) /\ m \in Nat /\ DOMAIN artifacts[t0] = 1 .. m
      BY <1>1, <1>2, LenProperties
    <3>2. arts[t] \in Seq({0} \cup DOMAIN st) /\ Len(arts[t]) = m + 1
          /\ arts[t][m + 1] = st[l].summary
          /\ \A i \in 1 .. m : arts[t][i] = artifacts[t0][i]
      BY <1>4, <1>6, <2>1
    <3>6. DOMAIN arts[t] = 1 .. Len(arts[t])
      BY <3>2, LenProperties
    <3> HIDE DEF m
    <3>3. k \in 1 .. m \/ k = m + 1
      BY <3>1, <3>2, <3>6
    <3>4. CASE k \in 1 .. m
      <4>1. arts[t][k] = artifacts[t][k] /\ k \in DOMAIN artifacts[t]
        BY <2>1, <3>1, <3>2, <3>4
      <4> QED
        BY SMTT(30), <1>2, <1>8, <4>1
    <3>5. CASE k = m + 1
      <4>1. arts[t][k] = st[l].summary
        BY <3>2, <3>5
      <4>2. arts[t][k] = l
        BY <1>8, <4>1
      <4> QED
        BY <2>1, <4>2 DEF t0
    <3> QED
      BY <3>3, <3>4, <3>5
  <2>2. CASE ~ (st[l].sub = "backup" /\ mode # "dryRun" /\ t = t0)
    <3>1. arts[t] = artifacts[t]
      BY <1>6, <2>2
    <3> QED
      BY SMTT(30), <1>2, <1>8, <3>1
  <2> QED
    BY <2>1, <2>2
<1>9. ASSUME mode \in {"normal", "faultyHistory"}, NEW t \in BackupTasks
      PROVE  /\ Len(arts[t]) = Len(ids[<<t, "backup">>])
             /\ \A k \in DOMAIN arts[t] : arts[t][k] = st[ids[<<t, "backup">>][k]].summary
  <2> DEFINE q == <<t, "backup">>
  <2>1. q \in Queues /\ (q = h <=> st[l].sub = "backup" /\ t = t0)
    BY QueuesAre DEF BackupSubsteps, t0
  <2>2. mode # "noHistory" /\ mode # "dryRun"
    BY <1>9
  <2>3. /\ Len(artifacts[t]) = Len(stepIds[q])
        /\ \A k \in DOMAIN artifacts[t] : artifacts[t][k] = st[stepIds[q][k]].summary
    BY <1>2, <1>9
  <2>4. CASE q = h
    <3> DEFINE m == Len(artifacts[t])
    <3>1. t = t0 /\ arts[t] = Append(artifacts[t0], st[l].summary)
          /\ ids[q] = Append(stepIds[h], l)
      BY <1>5, <1>6, <2>1, <2>2, <2>4
    <3>2. artifacts[t] \in Seq({0} \cup DOMAIN st) /\ m \in Nat /\ DOMAIN artifacts[t] = 1 .. m
      BY <1>2, LenProperties
    <3>3. /\ Len(arts[t]) = m + 1 /\ Len(ids[q]) = m + 1
          /\ \A k \in 1 .. m : arts[t][k] = artifacts[t][k] /\ ids[q][k] = stepIds[q][k]
          /\ arts[t][m + 1] = st[l].summary /\ ids[q][m + 1] = l
      <4>1. Len(stepIds[h]) = m
        BY <2>3, <2>4
      <4>2. /\ Len(arts[t]) = m + 1 /\ arts[t][m + 1] = st[l].summary
            /\ \A k \in 1 .. m : arts[t][k] = artifacts[t][k]
        BY <1>4, <3>1
      <4> HIDE DEF m, q
      <4>3. /\ Len(ids[q]) = m + 1 /\ ids[q][m + 1] = l
            /\ \A k \in 1 .. m : ids[q][k] = stepIds[q][k]
        BY ZenonT(60), <1>3, <2>4, <3>1, <4>1
      <4> QED
        BY <4>2, <4>3
    <3>6. DOMAIN arts[t] = 1 .. Len(arts[t])
      BY <1>6, LenProperties
    <3>4. \A k \in 1 .. m + 1 : k \in 1 .. m \/ k = m + 1
      BY <3>2
    <3> HIDE DEF m, q
    <3>5. \A k \in 1 .. m + 1 : arts[t][k] = st[ids[q][k]].summary
      BY <2>3, <3>2, <3>3, <3>4
    <3> QED
      BY <3>3, <3>5, <3>6 DEF q
  <2>5. CASE q # h
    <3>1. arts[t] = artifacts[t] /\ ids[q] = stepIds[q]
      BY <1>5, <1>6, <2>1, <2>5
    <3> QED
      BY <2>3, <3>1
  <2> QED
    BY <2>4, <2>5
<1>10. mode = "noHistory" => \A q \in Queues : ids[q] = << >>
  BY <1>2, <1>5
<1> QED
  BY <1>5, <1>6, <1>7, <1>8, <1>9, <1>10 DEF QueueInv

LEMMA FinishedQueues ==
  ASSUME TargetInv, Placed(at), StepsInv(at, steps, begun), StepFinished,
         QueueInv(at, outcome, steps, stepIds, artifacts)
  PROVE  QueueInv(at', outcome', steps', stepIds', artifacts')
<1> DEFINE l == Len(steps)
<1>1. PICK row \in Rows : at.doing = "finish" /\ RowChanged(row) /\ Queue
  BY EndRowsAre DEF StepFinished, RowChanged
<1>2. PICK w \in Step : /\ Changed(w) /\ w.task = LastStep.task /\ w.sub = LastStep.sub
                        /\ w.verdict = LastStep.verdict /\ w.summary = LastStep.summary
  BY <1>1, RowChangedSteps
<1>3. /\ l \in Nat /\ l >= 1 /\ LastStep = steps[l]
      /\ LastStep.task = UnitAt.task /\ LastStep.sub = SubAt
      /\ LastStep.summary \in {0, l} /\ (LastStep.sub # "backup" => LastStep.summary = 0)
  BY <1>1, LastIsHere
<1>4. /\ StepsAre(steps') /\ Len(steps') = l /\ DOMAIN steps' = DOMAIN steps
      /\ steps'[l] = w /\ \A i \in DOMAIN steps : i # l => i < l /\ steps'[i] = steps[i]
  BY <1>1, <1>2, <1>3, ChangedSteps
<1> HIDE DEF l
<1>5. Kept(steps, steps')
  BY <1>1, StepsKept
<1>6. \A q \in Queues : Awaited(q, at, outcome, steps') = Awaited(q, at, outcome, steps)
  <2>1. \A n : n \in DOMAIN steps /\ n < l => steps'[n] = steps[n]
    BY <1>2, <1>3, <1>4
  <2> QED
    BY <1>1, <1>4, <2>1 DEF Awaited, l
<1>7. QueueInv(at, outcome, steps', stepIds, artifacts)
  BY <1>1, <1>5, <1>6, QueueKept
<1>8. Until(at, outcome) = 1
  BY <1>1, UntilIs
<1>9. CASE LastStep.verdict \in {"cancelled", "raised"}
  <2>1. at' = Over /\ at'.doing = "over" /\ UNCHANGED <<stepIds, artifacts>>
    BY <1>1, <1>9, FinishEffects DEF FinishEffect, Queue, Over
  <2> QED
    BY <1>1, <1>5, <2>1, QueueKept
<1>10. CASE LastStep.verdict = "failed" \/ LastStep.verdict = "success"
  <2>1. Until(at', outcome') = 1 /\ at'.doing \in {"ready", "create", "collect"}
    BY <1>10, FinishEffects, LeavesUntil DEF FinishEffect
  <2>2. CASE LastStep.verdict = "failed" \/ SubAt \notin BackupSubsteps
    <3>1. UNCHANGED <<stepIds, artifacts>>
      BY <1>1, <2>2 DEF Queue, BackupSubsteps
    <3>2. ASSUME NEW q \in Queues
          PROVE  Awaited(q, at', outcome', steps') = Awaited(q, at, outcome, steps)
      <4>1. steps[l].verdict = "success" => <<steps[l].task, steps[l].sub>> # q
        BY <1>3, <2>2, QueuesAre
      <4>2. steps'[l].verdict = "success" => <<steps'[l].task, steps'[l].sub>> # q
        BY <1>2, <1>3, <1>4, <4>1
      <4>3. \A n : n \in Awaited(q, at, outcome, steps) <=>
                     /\ n \in DOMAIN steps /\ steps[n].verdict = "success"
                     /\ <<steps[n].task, steps[n].sub>> = q /\ 1 <= n /\ n < l
        BY <1>1, <1>8 DEF Awaited, l
      <4>4. \A n : n \in Awaited(q, at', outcome', steps') <=>
                     /\ n \in DOMAIN steps /\ steps'[n].verdict = "success"
                     /\ <<steps'[n].task, steps'[n].sub>> = q /\ 1 <= n
        BY <1>4, <2>1 DEF Awaited
      <4>5. \A n \in DOMAIN steps : n # l => n < l /\ steps'[n] = steps[n]
        BY <1>4
      <4>6. \A n : n \in Awaited(q, at', outcome', steps')
                     <=> n \in Awaited(q, at, outcome, steps)
        BY <1>3, <4>1, <4>2, <4>3, <4>4, <4>5
      <4> QED
        BY <4>6
    <3> QED
      BY <1>1, <1>5, <3>1, <3>2, QueueKept
  <2>3. CASE LastStep.verdict = "success" /\ SubAt \in BackupSubsteps
    <3> DEFINE h == <<w.task, w.sub>>
    <3>1. h = <<UnitAt.task, SubAt>> /\ h \in Queues
      <4>1. at.unit \in DOMAIN units /\ UnitAt = units[at.unit]
        BY DEF Placed, UnitAt
      <4> QED
        BY <1>2, <1>3, <2>3, <4>1, QueuesAre
    <3>2. stepIds' = IF mode # "noHistory" THEN [stepIds EXCEPT ![h] = Append(@, l)] ELSE stepIds
      BY <1>1, <2>3, <3>1 DEF Queue, l
    <3>3. artifacts' = IF w.sub = "backup" /\ mode # "dryRun"
                       THEN [artifacts EXCEPT ![w.task] = Append(@, w.summary)] ELSE artifacts
      BY <1>1, <1>2, <1>3, <2>3 DEF Queue, BackupSubsteps
    <3>4. steps' \in Seq(Step) /\ at'.doing \notin {"finish", "over"}
      BY <1>4, <2>1 DEF StepsAre
    <3> HIDE DEF h
    <3>5. h = <<steps'[l].task, steps'[l].sub>>
      BY <1>4 DEF h
    <3> QED
      BY <1>1, <1>2, <1>3, <1>4, <1>7, <1>8, <2>1, <2>3, <3>1, <3>2, <3>3, <3>4, <3>5, QueueAdds
  <2> QED
    BY <1>10, <2>2, <2>3
<1> QED
  BY <1>1, <1>9, <1>10, EndRowsAre DEF Verdicts

-----------------------------------------------------------------------------
(***************************************************************************)
(* The collection.                                                         *)
(***************************************************************************)
CollectAt == Pos(at.unit, at.sub)

\* The substep that is collected has been done successfully.
Done(p) == p \in DOMAIN steps /\ steps[p].verdict = "success"

LEMMA CollectHere ==
  ASSUME TargetInv, Placed(at), StepsInv(at, steps, begun), Collect
  PROVE  /\ CollectAt \in Nat /\ CollectAt >= 1 /\ CollectAt <= Total
         /\ Until(at, outcome) = CollectAt /\ Until(at', outcome') = CollectAt + 1
         /\ at'.doing \in {"collect", "over"}
         /\ Done(CollectAt) => /\ steps[CollectAt].task = UnitAt.task
                               /\ steps[CollectAt].sub = SubAt
         /\ ~ Done(CollectAt) => \A n \in DOMAIN steps : CollectAt <= n => ~ Done(n)
         /\ UnitAt.task \in BackupTasks /\ SubAt \in Substeps /\ UnitAt.task \in Tasks
<1> DEFINE u == at.unit  s == at.sub
<1>1. /\ u \in DOMAIN units /\ s \in DOMAIN units[u].subs /\ at.doing = "collect"
      /\ UnitAt = units[u] /\ SubAt = units[u].subs[s] /\ at' = NextToCollect
      /\ NextToCollect = Over => outcome' \in {"success", "failed"}
  BY DEF Placed, Collect, UnitAt, SubAt
<1>2. CollectAt \in Nat /\ CollectAt >= 1 /\ CollectAt <= Total /\ CollectAt = Pos(u, s)
  BY <1>1, PosFacts DEF CollectAt
<1>3. UnitAt.task \in BackupTasks /\ SubAt \in Substeps /\ UnitAt.task \in Tasks
  BY <1>1, QueuesAre, TargetFacts
<1>4. Until(at, outcome) = CollectAt
  BY <1>1, UntilIs DEF CollectAt
<1>5. Until(at', outcome') = CollectAt + 1 /\ at'.doing \in {"collect", "over"}
  <2>1. CASE NextToCollect = Over /\ Pos(u, s) = Total
    BY <1>1, <1>2, <2>1, UntilIs DEF Over
  <2>2. CASE /\ NextToCollect.doing = "collect"
             /\ Pos(NextToCollect.unit, NextToCollect.sub) = Pos(u, s) + 1
    BY <1>1, <1>2, <2>2, UntilIs
  <2> QED
    BY <1>1, <2>1, <2>2, WalksOn
<1>6. StepsAre(steps) /\ steps \in Seq(Step)
  BY DEF StepsInv, StepsAre
<1>7. Len(steps) \in Nat /\ DOMAIN steps = 1 .. Len(steps)
  BY <1>6, LenProperties
<1> HIDE DEF u, s
<1>8. Done(CollectAt) => steps[CollectAt].task = UnitAt.task /\ steps[CollectAt].sub = SubAt
  <2>1. CollectAt \in DOMAIN steps => CollectAt <= Len(steps)
    BY <1>7
  <2> QED
    BY <1>1, <1>2, <1>6, <2>1 DEF StepsAre, Done
<1>9. ASSUME ~ Done(CollectAt), NEW n \in DOMAIN steps, CollectAt <= n PROVE ~ Done(n)
  <2> DEFINE p == CollectAt  l == Len(steps)
  <2>1. p \in Nat /\ p >= 1 /\ l \in Nat /\ n \in 1 .. l /\ p <= n
    BY <1>2, <1>7, <1>9
  <2>2. p \in DOMAIN steps => (p < l => steps[p].verdict = "success")
    BY <1>6 DEF StepsAre
  <2>3. DOMAIN steps = 1 .. l /\ ~ Done(p)
    BY <1>7, <1>9
  <2> HIDE DEF p, l
  <2>4. p \in 1 .. l
    BY <2>1
  <2>5. ~ (p < l)
    BY <2>2, <2>3, <2>4 DEF Done
  <2>6. n = p
    BY <2>1, <2>5
  <2> QED
    BY <2>3, <2>6
<1> QED
  BY <1>1, <1>2, <1>3, <1>4, <1>5, <1>8, <1>9

\* The queues of a substep of a backup give what belongs to it.
Here0 == <<UnitAt.task, SubAt>>
IdHere == Head0(stepIds[Here0])
SummaryHere == IF SubAt = "backup" THEN Head0(artifacts[UnitAt.task]) ELSE 0

LEMMA TailIs ==
  ASSUME NEW S, NEW q \in Seq(S)
  PROVE  /\ Tail0(q) \in Seq(S)
         /\ q = << >> => Tail0(q) = << >> /\ Head0(q) = 0
         /\ q # << >> => /\ Len(Tail0(q)) = Len(q) - 1 /\ Head0(q) = q[1] /\ q[1] \in S
                         /\ 1 \in DOMAIN q /\ Tail0(q) = Tail(q) /\ Head0(q) = Head(q)
                         /\ \A k \in 1 .. Len(q) - 1 : Tail0(q)[k] = q[k + 1]
<1>1. CASE q = << >>
  BY <1>1 DEF Tail0, Head0
<1>2. CASE q # << >>
  <2>1. /\ Head(q) = q[1] /\ Tail(q) \in Seq(S) /\ Len(Tail(q)) = Len(q) - 1
        /\ \A k \in 1 .. Len(q) - 1 : Tail(q)[k] = q[k + 1]
    BY <1>2, HeadTailProperties
  <2>2. Len(q) \in Nat /\ DOMAIN q = 1 .. Len(q) /\ Len(q) # 0
    BY <1>2, LenProperties, EmptySeq
  <2>3. 1 \in DOMAIN q
    BY <2>2
  <2>4. q[1] \in S
    BY <2>2, <2>3, ElementOfSeq
  <2> QED
    BY <1>2, <2>1, <2>3, <2>4 DEF Tail0, Head0
<1> QED
  BY <1>1, <1>2

LEMMA ContextHere ==
  ASSUME TargetInv, Placed(at), StepsInv(at, steps, begun), Collect, SubAt # "rclone",
         QueueInv(at, outcome, steps, stepIds, artifacts)
  PROVE  /\ SubAt \in BackupSubsteps /\ Here0 \in Queues /\ UnitAt.task \in BackupTasks
         /\ stepIds[Here0] \in Seq(DOMAIN steps)
         /\ artifacts[UnitAt.task] \in Seq({0} \cup DOMAIN steps)
         /\ mode = "noHistory" => IdHere = 0
         /\ mode # "noHistory" => /\ IdHere = IF Done(CollectAt) THEN CollectAt ELSE 0
                                  /\ Done(CollectAt) => stepIds[Here0] # << >>
                                  /\ ~ Done(CollectAt) => stepIds[Here0] = << >>
         /\ SummaryHere # 0 => /\ SummaryHere \in DOMAIN steps /\ Done(SummaryHere)
                               /\ steps[SummaryHere].task = UnitAt.task
         /\ SummaryHere \in Nat
         /\ mode \in {"normal", "faultyHistory"} /\ Done(CollectAt)
              => SummaryHere = steps[CollectAt].summary
<1> DEFINE p == CollectAt  t == UnitAt.task
<1>1. /\ p \in Nat /\ p >= 1 /\ Until(at, outcome) = p /\ at.doing = "collect"
      /\ Done(p) => steps[p].task = t /\ steps[p].sub = SubAt
      /\ ~ Done(p) => \A n \in DOMAIN steps : p <= n => ~ Done(n)
      /\ t \in BackupTasks /\ SubAt \in Substeps
  BY CollectHere DEF Collect
<1>2. SubAt \in BackupSubsteps /\ Here0 \in Queues
  BY <1>1, QueuesAre DEF Substeps, Here0
<1>3. /\ stepIds \in [Queues -> Seq(DOMAIN steps)]
      /\ artifacts \in [BackupTasks -> Seq({0} \cup DOMAIN steps)]
      /\ mode = "noHistory" => \A q \in Queues : stepIds[q] = << >>
      /\ mode # "noHistory" =>
           \A q \in Queues : Lists(stepIds[q], Awaited(q, at, outcome, steps))
      /\ \A x \in BackupTasks : \A k \in DOMAIN artifacts[x] : artifacts[x][k] # 0 =>
           steps[artifacts[x][k]].verdict = "success" /\ steps[artifacts[x][k]].task = x
      /\ mode \in {"normal", "faultyHistory"} => \A x \in BackupTasks :
           /\ Len(artifacts[x]) = Len(stepIds[<<x, "backup">>])
           /\ \A k \in DOMAIN artifacts[x] :
                artifacts[x][k] = steps[stepIds[<<x, "backup">>][k]].summary
  BY <1>1 DEF QueueInv
<1>4. stepIds[Here0] \in Seq(DOMAIN steps) /\ artifacts[t] \in Seq({0} \cup DOMAIN steps)
  BY <1>1, <1>2, <1>3
<1>5. DOMAIN steps \subseteq Nat \ {0} /\ StepsAre(steps)
  <2>1. steps \in Seq(Step) /\ StepsAre(steps)
    BY DEF StepsInv, StepsAre
  <2>2. Len(steps) \in Nat /\ DOMAIN steps = 1 .. Len(steps)
    BY <2>1, LenProperties
  <2> QED
    BY <2>1, <2>2
<1> HIDE DEF p, t
<1>6. mode = "noHistory" => IdHere = 0
  BY <1>2, <1>3, <1>4, TailIs DEF IdHere
<1>7. ASSUME mode # "noHistory"
      PROVE  /\ IdHere = IF Done(p) THEN p ELSE 0
             /\ Done(p) => stepIds[Here0] # << >>
             /\ ~ Done(p) => stepIds[Here0] = << >>
  <2> DEFINE S == Awaited(Here0, at, outcome, steps)
  <2>1. Lists(stepIds[Here0], S)
    BY <1>2, <1>3, <1>7
  <2>2. \A n : n \in S <=> n \in DOMAIN steps /\ Done(n) /\ p <= n
                           /\ <<steps[n].task, steps[n].sub>> = Here0
    BY <1>1 DEF Awaited, Done
  <2>3. CASE Done(p)
    <3>1. p \in S
      BY <1>1, <2>2, <2>3 DEF Done, Here0, t
    <3>2. \A n \in S : n \in Nat /\ p <= n
      BY <1>5, <2>2
    <3> HIDE DEF S
    <3>3. stepIds[Here0] # << >> /\ Head(stepIds[Here0]) = p
      BY <2>1, <3>1, <3>2, HeadIsLeast
    <3> QED
      BY <2>3, <3>3 DEF IdHere, Head0
  <2>4. CASE ~ Done(p)
    <3>1. S = {}
      BY <1>1, <2>2, <2>4
    <3> HIDE DEF S
    <3>2. stepIds[Here0] = << >>
      BY <2>1, <3>1, NoneWait
    <3> QED
      BY <2>4, <3>2 DEF IdHere, Head0
  <2> QED
    BY <2>3, <2>4
<1>8. /\ SummaryHere # 0 => /\ SummaryHere \in DOMAIN steps /\ Done(SummaryHere)
                            /\ steps[SummaryHere].task = t
      /\ SummaryHere \in Nat
  <2>1. CASE SubAt = "backup" /\ artifacts[t] # << >>
    <3>1. SummaryHere = artifacts[t][1] /\ 1 \in DOMAIN artifacts[t]
          /\ artifacts[t][1] \in {0} \cup DOMAIN steps
      BY <1>4, <2>1, TailIs DEF SummaryHere, t
    <3> QED
      BY <1>1, <1>3, <1>5, <3>1 DEF Done
  <2>2. CASE ~ (SubAt = "backup" /\ artifacts[t] # << >>)
    BY <2>2 DEF SummaryHere, Head0, t
  <2> QED
    BY <2>1, <2>2
<1>9. ASSUME mode \in {"normal", "faultyHistory"}, Done(p) PROVE SummaryHere = steps[p].summary
  <2>1. CASE SubAt = "backup"
    <3>1. Here0 = <<t, "backup">>
      BY <2>1 DEF Here0, t
    <3>2. /\ Len(artifacts[t]) = Len(stepIds[Here0])
          /\ \A k \in DOMAIN artifacts[t] : artifacts[t][k] = steps[stepIds[Here0][k]].summary
      BY <1>1, <1>3, <1>9, <3>1
    <3>3. stepIds[Here0] # << >> /\ IdHere = p
      BY <1>7, <1>9
    <3>4. artifacts[t] # << >>
      BY <1>4, <3>2, <3>3, EmptySeq
    <3>5. SummaryHere = artifacts[t][1] /\ 1 \in DOMAIN artifacts[t]
      BY <1>4, <2>1, <3>4, TailIs DEF SummaryHere, t
    <3>6. stepIds[Here0][1] = p
      BY <1>4, <3>3, TailIs DEF IdHere
    <3> QED
      BY <3>2, <3>5, <3>6
  <2>2. CASE SubAt # "backup"
    <3>1. p \in DOMAIN steps /\ steps[p].sub # "backup"
      BY <1>1, <1>9, <2>2 DEF Done
    <3> QED
      BY <1>5, <2>2, <3>1 DEF StepsAre, SummaryHere
  <2> QED
    BY <2>1, <2>2
<1> QED
  BY <1>1, <1>2, <1>4, <1>6, <1>7, <1>8, <1>9 DEF p, t

LEMMA CollectQueues ==
  ASSUME TargetInv, Placed(at), StepsInv(at, steps, begun), Collect,
         QueueInv(at, outcome, steps, stepIds, artifacts)
  PROVE  QueueInv(at', outcome', steps', stepIds', artifacts')
<1> DEFINE p == CollectAt  t == UnitAt.task
<1>1. /\ p \in Nat /\ p >= 1 /\ Until(at, outcome) = p /\ Until(at', outcome') = p + 1
      /\ at.doing = "collect" /\ at'.doing \in {"collect", "over"}
      /\ Done(p) => steps[p].task = t /\ steps[p].sub = SubAt
      /\ ~ Done(p) => \A n \in DOMAIN steps : p <= n => ~ Done(n)
      /\ UNCHANGED steps
  BY CollectHere DEF Collect
<1>2. DOMAIN steps \subseteq Nat
  <2>1. steps \in Seq(Step)
    BY DEF StepsInv, StepsAre
  <2>2. Len(steps) \in Nat /\ DOMAIN steps = 1 .. Len(steps)
    BY <2>1, LenProperties
  <2> QED
    BY <2>2
<1> HIDE DEF p, t
<1>3. ASSUME NEW q
      PROVE  /\ \A n : n \in Awaited(q, at, outcome, steps) <=>
                         /\ n \in DOMAIN steps /\ Done(n) /\ p <= n
                         /\ <<steps[n].task, steps[n].sub>> = q
             /\ \A n : n \in Awaited(q, at', outcome', steps) <=>
                         /\ n \in DOMAIN steps /\ Done(n) /\ p <= n /\ n # p
                         /\ <<steps[n].task, steps[n].sub>> = q
  <2>1. \A n \in DOMAIN steps : p + 1 <= n <=> p <= n /\ n # p
    BY <1>1, <1>2
  <2> QED
    BY <1>1, <2>1 DEF Awaited, Done
<1>4. \A q : q # Here0 =>
         Awaited(q, at', outcome', steps) = Awaited(q, at, outcome, steps)
  <2> SUFFICES ASSUME NEW q, q # Here0
               PROVE  Awaited(q, at', outcome', steps) = Awaited(q, at, outcome, steps)
    OBVIOUS
  <2>1. Done(p) => <<steps[p].task, steps[p].sub>> # q
    BY <1>1 DEF Here0, t
  <2>2. \A n : n \in Awaited(q, at', outcome', steps) <=> n \in Awaited(q, at, outcome, steps)
    BY <1>3, <2>1
  <2> QED
    BY <2>2
<1>5. CASE SubAt = "rclone"
  <2>1. UNCHANGED <<stepIds, artifacts>>
    BY <1>5 DEF Collect
  <2>2. \A q \in Queues : q # Here0
    BY <1>5, QueuesAre DEF Here0, BackupSubsteps
  <2>3. Kept(steps, steps)
    BY DEF Kept
  <2> QED
    BY <1>1, <1>4, <2>1, <2>2, <2>3, QueueKept
<1>6. CASE SubAt # "rclone"
  <2>1. /\ SubAt \in BackupSubsteps /\ Here0 \in Queues /\ t \in BackupTasks
        /\ stepIds[Here0] \in Seq(DOMAIN steps)
        /\ artifacts[t] \in Seq({0} \cup DOMAIN steps)
        /\ mode # "noHistory" => /\ Done(p) => stepIds[Here0] # << >>
                                 /\ ~ Done(p) => stepIds[Here0] = << >>
    BY <1>6, ContextHere DEF p, t
  <2>2. /\ stepIds' = [stepIds EXCEPT ![Here0] = Tail0(stepIds[Here0])]
        /\ artifacts' = [artifacts EXCEPT ![t] = IF SubAt = "backup" THEN Tail0(artifacts[t])
                                                 ELSE artifacts[t]]
    BY <1>6 DEF Collect, Here0, t
  <2>3. /\ stepIds \in [Queues -> Seq(DOMAIN steps)]
        /\ artifacts \in [BackupTasks -> Seq({0} \cup DOMAIN steps)]
        /\ mode = "noHistory" => \A q \in Queues : stepIds[q] = << >>
        /\ mode # "noHistory" =>
             \A q \in Queues : Lists(stepIds[q], Awaited(q, at, outcome, steps))
        /\ \A x \in BackupTasks : \A k \in DOMAIN artifacts[x] : artifacts[x][k] # 0 =>
             steps[artifacts[x][k]].verdict = "success" /\ steps[artifacts[x][k]].task = x
        /\ mode \in {"normal", "faultyHistory"} => \A x \in BackupTasks :
             /\ Len(artifacts[x]) = Len(stepIds[<<x, "backup">>])
             /\ \A k \in DOMAIN artifacts[x] :
                  artifacts[x][k] = steps[stepIds[<<x, "backup">>][k]].summary
    BY <1>1 DEF QueueInv
  <2>4. Tail0(stepIds[Here0]) \in Seq(DOMAIN steps)
        /\ Tail0(artifacts[t]) \in Seq({0} \cup DOMAIN steps)
    BY <2>1, TailIs
  <2>5. /\ stepIds' \in [Queues -> Seq(DOMAIN steps)]
        /\ stepIds'[Here0] = Tail0(stepIds[Here0])
        /\ \A q \in Queues : q # Here0 => stepIds'[q] = stepIds[q]
    BY <2>1, <2>2, <2>3, <2>4
  <2>6. /\ artifacts' \in [BackupTasks -> Seq({0} \cup DOMAIN steps)]
        /\ \A x \in BackupTasks : artifacts'[x] = IF x = t /\ SubAt = "backup"
                                                  THEN Tail0(artifacts[t]) ELSE artifacts[x]
    BY <2>1, <2>2, <2>3, <2>4
  <2>7. ASSUME mode # "noHistory", NEW q \in Queues
        PROVE  Lists(stepIds'[q], Awaited(q, at', outcome', steps))
    <3>1. CASE q # Here0
      BY <1>4, <2>3, <2>5, <2>7, <3>1
    <3>2. CASE q = Here0
      <4> DEFINE S == Awaited(q, at, outcome, steps)
      <4>1. Lists(stepIds[q], S)
        BY <2>3, <2>7
      <4>2. CASE Done(p)
        <5>1. p \in S /\ \A n \in S : n \in Nat /\ p <= n
          BY <1>1, <1>2, <1>3, <3>2, <4>2 DEF Done, Here0, t
        <5>2. Awaited(q, at', outcome', steps) = S \ {p}
          BY <1>3
        <5> HIDE DEF S
        <5>3. Lists(Tail(stepIds[q]), S \ {p}) /\ stepIds[q] # << >>
          BY <4>1, <5>1, HeadIsLeast
        <5> QED
          BY <2>5, <3>2, <5>2, <5>3 DEF Tail0
      <4>3. CASE ~ Done(p)
        <5>1. stepIds[q] = << >> /\ stepIds'[q] = << >>
          BY <2>1, <2>5, <2>7, <3>2, <4>3 DEF Tail0
        <5>2. Awaited(q, at', outcome', steps) = {} /\ S = {}
          BY <1>1, <1>3, <4>3
        <5> QED
          BY <4>1, <5>1, <5>2
      <4> QED
        BY <4>2, <4>3
    <3> QED
      BY <3>1, <3>2
  <2>8. ASSUME NEW x \in BackupTasks, NEW k \in DOMAIN artifacts'[x], artifacts'[x][k] # 0
        PROVE  steps[artifacts'[x][k]].verdict = "success" /\ steps[artifacts'[x][k]].task = x
    <3>1. CASE x = t /\ SubAt = "backup"
      <4> DEFINE l == Len(artifacts[t])
      <4>1. artifacts'[x] = Tail0(artifacts[t])
        BY <2>6, <3>1
      <4>2. artifacts[t] # << >>
        <5>1. Tail0(<< >>) = << >> /\ DOMAIN << >> = {}
          BY EmptySeq DEF Tail0
        <5> QED
          BY <2>8, <4>1, <5>1
      <4>3. /\ Len(Tail0(artifacts[t])) = l - 1 /\ DOMAIN Tail0(artifacts[t]) = 1 .. l - 1
            /\ l \in Nat /\ DOMAIN artifacts[t] = 1 .. l
            /\ \A i \in 1 .. l - 1 : Tail0(artifacts[t])[i] = artifacts[t][i + 1]
        BY <2>1, <2>4, <4>2, TailIs, LenProperties
      <4>4. k \in 1 .. l - 1
        BY <2>8, <4>1, <4>3
      <4> HIDE DEF l
      <4> DEFINE j == k + 1
      <4>5. j \in 1 .. l /\ artifacts'[x][k] = artifacts[t][j]
        BY <4>1, <4>3, <4>4
      <4> HIDE DEF j
      <4> QED
        BY <2>1, <2>3, <2>8, <3>1, <4>3, <4>5
    <3>2. CASE ~ (x = t /\ SubAt = "backup")
      <4>1. artifacts'[x] = artifacts[x]
        BY <2>6, <3>2
      <4> QED
        BY <2>3, <2>8, <4>1
    <3> QED
      BY <3>1, <3>2
  <2>9. ASSUME mode \in {"normal", "faultyHistory"}, NEW x \in BackupTasks
        PROVE  /\ Len(artifacts'[x]) = Len(stepIds'[<<x, "backup">>])
               /\ \A k \in DOMAIN artifacts'[x] :
                    artifacts'[x][k] = steps[stepIds'[<<x, "backup">>][k]].summary
    <3> DEFINE q == <<x, "backup">>
    <3>1. q \in Queues /\ (q = Here0 <=> x = t /\ SubAt = "backup")
      BY QueuesAre DEF BackupSubsteps, Here0, t
    <3>2. /\ Len(artifacts[x]) = Len(stepIds[q])
          /\ \A k \in DOMAIN artifacts[x] : artifacts[x][k] = steps[stepIds[q][k]].summary
      BY <2>3, <2>9
    <3>3. CASE q # Here0
      <4>1. artifacts'[x] = artifacts[x] /\ stepIds'[q] = stepIds[q]
        BY <2>5, <2>6, <3>1, <3>3
      <4> QED
        BY <3>2, <4>1
    <3>4. CASE q = Here0
      <4>1. /\ artifacts'[x] = Tail0(artifacts[x]) /\ stepIds'[q] = Tail0(stepIds[q])
            /\ stepIds[q] \in Seq(DOMAIN steps) /\ artifacts[x] \in Seq({0} \cup DOMAIN steps)
        BY <2>1, <2>5, <2>6, <3>1, <3>4
      <4> HIDE DEF q
      <4>2. CASE stepIds[q] = << >>
        <5>1. artifacts[x] = << >>
          BY <3>2, <4>1, <4>2, EmptySeq
        <5>2. artifacts'[x] = << >> /\ stepIds'[q] = << >>
          BY <4>1, <4>2, <5>1 DEF Tail0
        <5>3. DOMAIN artifacts'[x] = {}
          BY <5>2, EmptySeq
        <5> QED
          BY <5>2, <5>3 DEF q
      <4>3. CASE stepIds[q] # << >>
        <5> DEFINE l == Len(artifacts[x])
        <5>1. artifacts[x] # << >>
          BY <3>2, <4>1, <4>3, EmptySeq
        <5>6. /\ Len(artifacts'[x]) = l - 1
              /\ \A k \in 1 .. l - 1 : artifacts'[x][k] = artifacts[x][k + 1]
          BY <4>1, <5>1, TailIs
        <5>7. Len(stepIds[q]) = l
          BY <3>2 DEF q
        <5>8. /\ Len(stepIds'[q]) = Len(stepIds[q]) - 1
              /\ \A k \in 1 .. Len(stepIds[q]) - 1 : stepIds'[q][k] = stepIds[q][k + 1]
          BY <4>1, <4>3, TailIs
        <5>2. /\ Len(artifacts'[x]) = l - 1 /\ Len(stepIds'[q]) = l - 1
              /\ \A k \in 1 .. l - 1 : artifacts'[x][k] = artifacts[x][k + 1]
              /\ \A k \in 1 .. l - 1 : stepIds'[q][k] = stepIds[q][k + 1]
          <6> HIDE DEF l
          <6> QED
            BY <5>6, <5>7, <5>8
        <5>3. artifacts'[x] \in Seq({0} \cup DOMAIN steps)
          BY <2>6
        <5>4. DOMAIN artifacts'[x] = 1 .. l - 1 /\ DOMAIN artifacts[x] = 1 .. l /\ l \in Nat
          BY <4>1, <5>2, <5>3, LenProperties
        <5> HIDE DEF l
        <5>5. ASSUME NEW k \in 1 .. l - 1
              PROVE  artifacts'[x][k] = steps[stepIds'[q][k]].summary
          <6> DEFINE j == k + 1
          <6>1. j \in DOMAIN artifacts[x] /\ artifacts'[x][k] = artifacts[x][j]
                /\ stepIds'[q][k] = stepIds[q][j]
            BY <5>2, <5>4
          <6> HIDE DEF j
          <6> QED
            BY <3>2, <6>1
        <5> QED
          BY <5>2, <5>4, <5>5 DEF q
      <4> QED
        BY <4>2, <4>3
    <3> QED
      BY <3>3, <3>4
  <2>10. mode = "noHistory" => \A q \in Queues : stepIds'[q] = << >>
    BY <2>3, <2>5, <2>1 DEF Tail0
  <2> QED
    BY <1>1, <2>5, <2>6, <2>7, <2>8, <2>9, <2>10 DEF QueueInv
<1> QED
  BY <1>5, <1>6

LEMMA QueueInvKept ==
  ASSUME TargetInv, Placed(at), LevelInv(at, begun), StepsInv(at, steps, begun),
         QueueInv(at, outcome, steps, stepIds, artifacts), [Next]_vars
  PROVE  QueueInv(at', outcome', steps', stepIds', artifacts')
<1>1. CASE UNCHANGED <<at, outcome, steps, stepIds, artifacts>>
  BY <1>1
<1>2. CASE NextHook \/ HooksDone \/ HookEnds
  BY <1>2, HookEffects, HookQueues
<1>3. CASE CommandStarts \/ CommandEnds
  BY <1>3, WorkEffects, WorkQueues
<1>4. CASE Cancel
  <2>1. CASE StatementCancelled
    BY <1>4, <2>1, CancelledQueues DEF Cancel
  <2> QED
    BY <1>1, <1>4, <2>1 DEF Cancel
<1>5. CASE CommandStep \/ Processing \/ UNCHANGED vars
  BY <1>1, <1>5 DEF CommandStep, Processing, vars
<1> QED
  BY <1>2, <1>3, <1>4, <1>5, CreatedQueues, FinishedQueues, CollectQueues DEF Next, RunStep

-----------------------------------------------------------------------------
(***************************************************************************)
(* What was collected.                                                     *)
(***************************************************************************)
LEMMA NothingBefore ==
  ASSUME NEW st, st \in Seq(Step) PROVE BackupsUntil(1, st) = {} /\ IsFiniteSet({})
<1>1. Len(st) \in Nat /\ DOMAIN st = 1 .. Len(st)
  BY LenProperties
<1>2. \A i \in DOMAIN st : ~ (i < 1)
  BY <1>1
<1> QED
  BY <1>2, FS_EmptySet DEF BackupsUntil

\* Nothing is collected before the collection begins.
LEMMA NothingCollected ==
  ASSUME NEW a, NEW out, Until(a, out) = 1, NEW st, st \in Seq(Step), NEW b
  PROVE  CollectInv(a, out, st, << >>, b)
<1>1. BackupsUntil(1, st) = {} /\ Cardinality({}) = 0
  BY NothingBefore, FS_EmptySet
<1>2. /\ << >> \in Seq([task : Tasks, sub : Substeps, id : Nat, summary : Nat])
      /\ DOMAIN << >> = {} /\ Len(<< >>) = 0
  BY EmptySeq
<1>3. \A n : n \in DOMAIN << >> => FALSE
  BY <1>2
<1> QED
  BY <1>1, <1>2, <1>3 DEF CollectInv

LEMMA StillNothing ==
  ASSUME TargetInv, NEW a, NEW out, at.doing \notin {"collect", "over"},
         CollectInv(at, outcome, steps, collected, begun), UNCHANGED collected,
         Until(a, out) = 1, NEW st, st \in Seq(Step), NEW b
  PROVE  CollectInv(a, out, st, collected', b)
<1>1. Until(at, outcome) = 1
  BY UntilIs
<1>2. collected' = << >>
  BY <1>1 DEF CollectInv
<1> QED
  BY <1>2, NothingCollected

\* What one substep adds.
LEMMA OneMore ==
  ASSUME NEW st, st \in Seq(Step), NEW p \in Nat, p >= 1
  PROVE  /\ p \in DOMAIN st /\ st[p].sub \in BackupSubsteps =>
              Cardinality(BackupsUntil(p + 1, st)) = Cardinality(BackupsUntil(p, st)) + 1
         /\ ~ (p \in DOMAIN st /\ st[p].sub \in BackupSubsteps) =>
              BackupsUntil(p + 1, st) = BackupsUntil(p, st)
         /\ \A i \in BackupsUntil(p + 1, st) : i \in BackupsUntil(p, st) \/ i = p
<1>1. Len(st) \in Nat /\ DOMAIN st = 1 .. Len(st)
  BY LenProperties
<1>2. \A i \in DOMAIN st : i \in Nat /\ (i < p + 1 <=> i < p \/ i = p)
  BY <1>1
<1>3. \A i : i \in BackupsUntil(p + 1, st) <=>
               \/ i \in BackupsUntil(p, st)
               \/ i = p /\ p \in DOMAIN st /\ st[p].sub \in BackupSubsteps
  BY <1>2 DEF BackupsUntil
<1>4. p \notin BackupsUntil(p, st)
  BY DEF BackupsUntil
<1>5. IsFiniteSet(BackupsUntil(p, st))
  <2>1. IsFiniteSet(1 .. Len(st)) /\ BackupsUntil(p, st) \subseteq 1 .. Len(st)
    BY <1>1, FS_Interval DEF BackupsUntil
  <2> QED
    BY <2>1, FS_Subset
<1> DEFINE S == BackupsUntil(p, st)  T == BackupsUntil(p + 1, st)
<1> HIDE DEF S, T
<1>6. CASE p \in DOMAIN st /\ st[p].sub \in BackupSubsteps
  <2>1. T = S \cup {p}
    BY <1>3, <1>6 DEF S, T
  <2>2. Cardinality(T) = Cardinality(S) + 1
    BY <1>4, <1>5, <2>1, FS_AddElement DEF S
  <2> QED
    BY <1>3, <1>6, <2>2 DEF S, T
<1>7. CASE ~ (p \in DOMAIN st /\ st[p].sub \in BackupSubsteps)
  <2>1. T = S
    BY <1>3, <1>7 DEF S, T
  <2> QED
    BY <1>3, <1>7, <2>1 DEF S, T
<1> QED
  BY <1>6, <1>7

\* What Collect does with the context of the substep.
ContextAt == [task |-> UnitAt.task, sub |-> SubAt, id |-> IdHere, summary |-> SummaryHere]

LEMMA CollectEffect ==
  ASSUME Collect
  PROVE  /\ UNCHANGED <<mode, target, steps, begun, cancels>>
         /\ SubAt = "rclone" => collected' = collected
         /\ SubAt # "rclone" => collected' = IF Wanted(IdHere, SummaryHere)
                                             THEN Append(collected, ContextAt) ELSE collected
<1>1. UNCHANGED <<mode, target, steps, begun, cancels>>
  BY DEF Collect
<1>2. CASE SubAt = "rclone"
  BY <1>1, <1>2 DEF Collect
<1>3. CASE SubAt # "rclone"
  BY <1>1, <1>3 DEF Collect, IdHere, SummaryHere, ContextAt, Here0
<1> QED
  BY <1>1, <1>2, <1>3

LEMMA ContextIsRight ==
  ASSUME TargetInv, Placed(at), StepsInv(at, steps, begun), Collect, SubAt # "rclone",
         QueueInv(at, outcome, steps, stepIds, artifacts), mode # "dryRun"
  PROVE  /\ ContextOf(ContextAt, steps) /\ ContextAt.id \in {0, CollectAt}
         /\ ContextAt \in [task : Tasks, sub : Substeps, id : Nat, summary : Nat]
         /\ mode \in {"normal", "faultyHistory"} /\ Done(CollectAt) => ContextAt.id = CollectAt
<1> DEFINE p == CollectAt
<1>1. /\ p \in Nat /\ p >= 1 /\ UnitAt.task \in Tasks /\ SubAt \in Substeps
      /\ Done(p) => steps[p].task = UnitAt.task /\ steps[p].sub = SubAt
  BY CollectHere
<1>2. mode \in {"normal", "faultyHistory", "noHistory"}
  BY ExecutionAssumption DEF TargetInv
<1>3. /\ mode = "noHistory" => IdHere = 0
      /\ mode # "noHistory" => IdHere = IF Done(p) THEN p ELSE 0
      /\ SummaryHere # 0 => /\ SummaryHere \in DOMAIN steps /\ Done(SummaryHere)
                            /\ steps[SummaryHere].task = UnitAt.task
      /\ SummaryHere \in Nat
      /\ mode \in {"normal", "faultyHistory"} /\ Done(p) => SummaryHere = steps[p].summary
  BY ContextHere
<1> HIDE DEF p
<1>4. /\ ContextAt.task = UnitAt.task /\ ContextAt.sub = SubAt /\ ContextAt.id = IdHere
      /\ ContextAt.summary = SummaryHere
  BY DEF ContextAt
<1>5. IdHere \in {0, p} /\ IdHere \in Nat
  BY <1>1, <1>2, <1>3
<1>6. IdHere # 0 => Done(p) /\ IdHere = p /\ mode \in {"normal", "faultyHistory"}
  BY <1>2, <1>3
<1>7. ContextOf(ContextAt, steps)
  BY <1>1, <1>3, <1>4, <1>6 DEF ContextOf, Done
<1>8. ContextAt \in [task : Tasks, sub : Substeps, id : Nat, summary : Nat]
  BY <1>1, <1>3, <1>5 DEF ContextAt
<1>9. mode \in {"normal", "faultyHistory"} /\ Done(p) => ContextAt.id = p
  BY <1>3, <1>4
<1> QED
  BY <1>4, <1>5, <1>7, <1>8, <1>9 DEF p

LEMMA CollectCollects ==
  ASSUME TargetInv, Placed(at), StepsInv(at, steps, begun), Collect,
         QueueInv(at, outcome, steps, stepIds, artifacts),
         CollectInv(at, outcome, steps, collected, begun)
  PROVE  CollectInv(at', outcome', steps', collected', begun')
<1> DEFINE p == CollectAt  q == p + 1
           Context == [task : Tasks, sub : Substeps, id : Nat, summary : Nat]
<1>1. /\ p \in Nat /\ p >= 1 /\ Until(at, outcome) = p /\ Until(at', outcome') = q
      /\ UnitAt.task \in Tasks /\ SubAt \in Substeps
      /\ Done(p) => steps[p].task = UnitAt.task /\ steps[p].sub = SubAt
  BY CollectHere
<1>2. /\ UNCHANGED <<steps, begun>>
      /\ SubAt = "rclone" => collected' = collected
      /\ SubAt # "rclone" => collected' = IF Wanted(IdHere, SummaryHere)
                                          THEN Append(collected, ContextAt) ELSE collected
  BY CollectEffect
<1>3. steps \in Seq(Step) /\ StepsAre(steps) /\ (Begun(1, 0, "post", begun) => AllDone(steps))
  BY DEF StepsInv, StepsAre
<1>4. /\ p \in DOMAIN steps /\ steps[p].sub \in BackupSubsteps =>
            Cardinality(BackupsUntil(q, steps)) = Cardinality(BackupsUntil(p, steps)) + 1
      /\ ~ (p \in DOMAIN steps /\ steps[p].sub \in BackupSubsteps) =>
            BackupsUntil(q, steps) = BackupsUntil(p, steps)
      /\ \A i \in BackupsUntil(q, steps) : i \in BackupsUntil(p, steps) \/ i = p
  BY <1>1, <1>3, OneMore
<1>5. q \in Nat /\ q # 1 /\ p < q /\ 0 < q /\ \A i \in Nat : i < p => i < q
  BY <1>1
<1>6. /\ collected \in Seq(Context)
      /\ \A n \in DOMAIN collected : ContextOf(collected[n], steps) /\ collected[n].id < p
      /\ \A n, m \in DOMAIN collected :
            collected[n].id # 0 /\ collected[n].id = collected[m].id => n = m
      /\ mode \in {"normal", "faultyHistory"} =>
            \A i \in BackupsUntil(p, steps) : steps[i].verdict = "success" =>
               \E n \in DOMAIN collected : collected[n].id = i
      /\ mode = "noHistory" /\ Begun(1, 0, "post", begun) =>
            Len(collected) = Cardinality(BackupsUntil(p, steps))
  BY <1>1 DEF CollectInv
<1>7. Len(collected) \in Nat /\ DOMAIN collected = 1 .. Len(collected)
      /\ \A n \in DOMAIN collected : collected[n] \in Context /\ collected[n].id \in Nat
  <2>1. Len(collected) \in Nat /\ DOMAIN collected = 1 .. Len(collected)
    BY <1>6, LenProperties
  <2>2. collected \in Seq(Context)
    BY <1>6
  <2>3. \A c \in Context : c.id \in Nat
    OBVIOUS
  <2> HIDE DEF Context
  <2>4. \A n \in DOMAIN collected : collected[n] \in Context
    BY <2>1, <2>2, ElementOfSeq
  <2> QED
    BY <2>1, <2>3, <2>4
<1>8. mode = "noHistory" /\ Begun(1, 0, "post", begun) => Done(p)
  <2>1. Total \in Nat /\ p <= Total
    BY CollectHere, BaseFacts
  <2>2. Len(steps) = Total => DOMAIN steps = 1 .. Total
    BY <1>3, LenProperties
  <2> QED
    BY <1>1, <1>3, <2>1, <2>2 DEF AllDone, AllGood, Done
<1>9. SubAt # "rclone" <=> SubAt \in BackupSubsteps
  BY <1>1 DEF Substeps, BackupSubsteps
<1>10. q \in Nat /\ Until(at', outcome') # 1
  BY <1>1, <1>5
<1> HIDE DEF p, q, Context
<1>11. CASE collected' = collected
  <2>1. \A n \in DOMAIN collected : ContextOf(collected[n], steps) /\ collected[n].id < q
    BY <1>5, <1>6, <1>7
  <2>2. ~ (SubAt # "rclone" /\ Wanted(IdHere, SummaryHere))
    <3>1. Append(collected, ContextAt) # collected
      <4>1. Len(Append(collected, ContextAt)) = Len(collected) + 1
        <5> DEFINE T == Context \cup {ContextAt}
        <5>1. Context \subseteq T /\ ContextAt \in T
          OBVIOUS
        <5> HIDE DEF T
        <5>2. collected \in Seq(T)
          BY <1>6, <5>1, SeqMonotonic
        <5> QED
          BY <5>1, <5>2, AppendProperties
      <4> DEFINE new == Append(collected, ContextAt)  l == Len(collected)
      <4>2. l \in Nat /\ Len(new) = l + 1 /\ (new = collected => Len(new) = l)
        BY <1>7, <4>1
      <4> HIDE DEF new, l
      <4>3. new # collected
        BY <4>2
      <4> QED
        BY <4>3 DEF new
    <3> QED
      BY <1>2, <1>11, <3>1
  <2>3. ASSUME mode \in {"normal", "faultyHistory"}, NEW i \in BackupsUntil(q, steps),
               steps[i].verdict = "success"
        PROVE  \E n \in DOMAIN collected : collected[n].id = i
    <3>1. i # p
      <4> SUFFICES ASSUME i = p PROVE FALSE
        OBVIOUS
      <4>1. Done(p) /\ steps[p].sub \in BackupSubsteps
        BY <2>3 DEF BackupsUntil, Done
      <4>2. SubAt # "rclone"
        BY <1>1, <1>9, <4>1
      <4>3. ContextAt.id = p /\ ContextAt.id = IdHere
        BY <2>3, <4>1, <4>2, ContextIsRight DEF ContextAt, p
      <4>4. Wanted(IdHere, SummaryHere)
        BY <1>1, <2>3, <4>3 DEF Wanted
      <4> QED
        BY <2>2, <4>2, <4>4
    <3> QED
      BY <1>4, <1>6, <2>3, <3>1
  <2>4. ASSUME mode = "noHistory", Begun(1, 0, "post", begun)
        PROVE  Len(collected) = Cardinality(BackupsUntil(q, steps))
    <3>1. Wanted(IdHere, SummaryHere)
      BY <2>4 DEF Wanted, Successful, Begun
    <3>2. SubAt = "rclone"
      BY <2>2, <3>1
    <3>3. steps[p].sub \notin BackupSubsteps
      BY <1>1, <1>8, <1>9, <2>4, <3>2
    <3> QED
      BY <1>4, <1>6, <2>4, <3>3
  <2> QED
    BY <1>1, <1>2, <1>6, <1>10, <1>11, <2>1, <2>3, <2>4 DEF CollectInv, Context
<1>12. CASE SubAt # "rclone" /\ Wanted(IdHere, SummaryHere)
  <2> DEFINE l == Len(collected)  k == l + 1
  <2>1. collected' = Append(collected, ContextAt) /\ mode # "dryRun"
    BY <1>2, <1>12 DEF Wanted
  <2>2. /\ ContextOf(ContextAt, steps) /\ ContextAt.id \in {0, p} /\ ContextAt \in Context
        /\ mode \in {"normal", "faultyHistory"} /\ Done(p) => ContextAt.id = p
    BY <1>12, <2>1, ContextIsRight DEF p, Context
  <2>3. /\ collected' \in Seq(Context) /\ Len(collected') = k
        /\ collected'[k] = ContextAt
        /\ \A n \in 1 .. l : collected'[n] = collected[n]
    BY <1>6, <2>1, <2>2, AppendProperties
  <2>4. DOMAIN collected' = 1 .. k /\ l \in Nat /\ k = l + 1 /\ DOMAIN collected = 1 .. l
    BY <1>7, <2>3, LenProperties
  <2> HIDE DEF l, k
  <2>5. /\ DOMAIN collected' = DOMAIN collected \cup {k} /\ k \notin DOMAIN collected
        /\ \A n \in DOMAIN collected : collected'[n] = collected[n]
    BY <2>3, <2>4
  <2>6. \A n \in DOMAIN collected' : ContextOf(collected'[n], steps) /\ collected'[n].id < q
    BY <1>5, <1>6, <1>7, <2>2, <2>3, <2>5
  <2>7. \A n, m \in DOMAIN collected' :
           collected'[n].id # 0 /\ collected'[n].id = collected'[m].id => n = m
    <3>1. \A n \in DOMAIN collected : collected[n].id # p
      BY <1>1, <1>6, <1>7
    <3> QED
      BY <1>6, <2>2, <2>3, <2>5, <3>1
  <2>8. ASSUME mode \in {"normal", "faultyHistory"}, NEW i \in BackupsUntil(q, steps),
               steps[i].verdict = "success"
        PROVE  \E n \in DOMAIN collected' : collected'[n].id = i
    <3>1. CASE i = p
      <4>1. Done(p)
        BY <2>8, <3>1 DEF BackupsUntil, Done
      <4> QED
        BY <2>2, <2>3, <2>5, <2>8, <3>1, <4>1
    <3>2. CASE i # p
      <4>1. PICK n \in DOMAIN collected : collected[n].id = i
        BY <1>4, <1>6, <2>8, <3>2
      <4> QED
        BY <2>5, <4>1
    <3> QED
      BY <3>1, <3>2
  <2>9. ASSUME mode = "noHistory", Begun(1, 0, "post", begun)
        PROVE  Len(collected') = Cardinality(BackupsUntil(q, steps))
    <3>1. p \in DOMAIN steps /\ steps[p].sub \in BackupSubsteps
      BY <1>1, <1>8, <1>9, <1>12, <2>9 DEF Done
    <3>2. l = Cardinality(BackupsUntil(p, steps))
      BY <1>6, <2>9 DEF l
    <3> QED
      BY <1>4, <2>3, <2>4, <3>1, <3>2
  <2> QED
    BY <1>1, <1>2, <1>10, <2>3, <2>6, <2>7, <2>8, <2>9 DEF CollectInv, Context
<1> QED
  BY <1>2, <1>11, <1>12

LEMMA CollectInvKept ==
  ASSUME TargetInv, Placed(at), LevelInv(at, begun), StepsInv(at, steps, begun),
         QueueInv(at, outcome, steps, stepIds, artifacts),
         CollectInv(at, outcome, steps, collected, begun), [Next]_vars
  PROVE  CollectInv(at', outcome', steps', collected', begun')
<1>1. CASE UNCHANGED <<at, outcome, steps, collected, begun>>
  BY <1>1
<1>2. steps' \in Seq(Step)
  BY NextFits DEF StepsInv, StepsAre
<1>3. ASSUME at.doing \notin {"collect", "over"}, UNCHANGED collected,
             Until(at', outcome') = 1
      PROVE  CollectInv(at', outcome', steps', collected', begun')
  <2> DEFINE a == at'  out == outcome'  st == steps'  b == begun'
  <2>1. st \in Seq(Step) /\ Until(a, out) = 1
    BY <1>2, <1>3
  <2> HIDE DEF a, out, st, b
  <2>2. CollectInv(a, out, st, collected', b)
    BY <1>3, <2>1, StillNothing
  <2> QED
    BY <2>2 DEF a, out, st, b
<1>4. ASSUME NEW out \in {"cancelled", "raised"} PROVE Until(Over, out) = 1
  BY UntilIs
<1>5. CASE HookEffect
  <2>1. at.doing \notin {"collect", "over"} /\ UNCHANGED collected
    BY <1>5 DEF HookEffect, AtHooks
  <2>2. Until(at', outcome') = 1
    <3>1. CASE at'.doing \in {"ready", "hook"}
      BY <3>1, UntilIs
    <3>2. CASE Leaves(at')
      BY <3>2, LeavesUntil
    <3>3. CASE at' = Over /\ outcome' \in {"cancelled", "raised"}
      BY <1>4, <3>3
    <3> QED
      BY <1>5, <3>1, <3>2, <3>3 DEF HookEffect
  <2> QED
    BY <1>3, <2>1, <2>2
<1>6. CASE WorkEffect
  <2>1. /\ at.doing \notin {"collect", "over"} /\ UNCHANGED collected
        /\ at'.doing \notin {"collect", "over"}
    BY <1>6, DoingOf DEF WorkEffect
  <2> QED
    BY <1>3, <2>1, UntilIs
<1>7. CASE StepCreated
  <2>1. /\ at.doing \notin {"collect", "over"} /\ UNCHANGED collected
        /\ at'.doing \notin {"collect", "over"}
    BY <1>7, DoingOf DEF StepCreated
  <2> QED
    BY <1>3, <2>1, UntilIs
<1>8. CASE StepFinished
  <2>1. at.doing \notin {"collect", "over"} /\ UNCHANGED collected
    BY <1>8 DEF StepFinished
  <2>2. Until(at', outcome') = 1
    <3>1. CASE Continues(at') \/ Outward(3, at.unit, "on_error", at')
      BY <3>1, LeavesUntil
    <3>2. CASE at' = Over /\ outcome' \in {"cancelled", "raised"}
      BY <1>4, <3>2
    <3> QED
      BY <1>8, <3>1, <3>2, FinishEffects DEF FinishEffect
  <2> QED
    BY <1>3, <2>1, <2>2
<1>9. CASE Cancel
  <2>1. CASE StatementCancelled
    <3>1. /\ at.doing \notin {"collect", "over"} /\ at' = Over /\ outcome' = "cancelled"
      BY <2>1 DEF StatementCancelled, Escapes
    <3> QED
      BY <1>3, <1>4, <1>9, <3>1 DEF Cancel
  <2> QED
    BY <1>1, <1>9, <2>1 DEF Cancel
<1>10. CASE CommandStep \/ Processing \/ UNCHANGED vars
  BY <1>1, <1>10 DEF CommandStep, Processing, vars
<1>11. NextHook \/ HooksDone \/ HookEnds => HookEffect
  BY HookEffects
<1>12. CommandStarts \/ CommandEnds => WorkEffect
  BY WorkEffects
<1> QED
  BY <1>5, <1>6, <1>7, <1>8, <1>9, <1>10, <1>11, <1>12, CollectCollects DEF Next, RunStep

-----------------------------------------------------------------------------
(***************************************************************************)
(* The invariant is inductive.                                             *)
(***************************************************************************)
LEMMA TargetKept == ASSUME [Next]_vars PROVE UNCHANGED <<mode, target>>
<1>1. RunStep => UNCHANGED <<mode, target>>
  BY DEF RunStep, NextHook, HooksDone, HookEnds, StepCreated, CommandStarts, CommandEnds,
     StepFinished, Collect
<1> QED
  BY <1>1 DEF Next, CommandStep, Processing, Cancel, vars

\* The parts of the invariant in the next state are those of the places and steps there.
LEMMA PartsPrimed ==
  ASSUME UNCHANGED <<mode, target>>
  PROVE  /\ TargetInv' <=> TargetInv
         /\ Fits(at', begun') => Placed(at)' /\ LevelInv(at, begun)'
         /\ StepsInv(at', steps', begun') => StepsInv(at, steps, begun)'
         /\ QueueInv(at', outcome', steps', stepIds', artifacts')
              => QueueInv(at, outcome, steps, stepIds, artifacts)'
         /\ CollectInv(at', outcome', steps', collected', begun')
              => CollectInv(at, outcome, steps, collected, begun)'
<1>1. units' = units /\ mode' = mode /\ Base' = Base /\ Total' = Total
  BY DEF units, Base, Total
<1>2. \A u : Around(u)' = Around(u)
  BY DEF Around, units
<1>3. Queues' = Queues
  BY <1>1 DEF Queues
<1>4. BackupTasks' = BackupTasks
  BY <1>3 DEF BackupTasks
<1>5. TargetInv' <=> TargetInv
  BY DEF TargetInv
<1>6. Placed(at') => Placed(at)'
  BY <1>1, <1>2 DEF Placed, AtHooks, AtWork
<1>7. LevelInv(at', begun') => LevelInv(at, begun)'
  BY <1>1 DEF LevelInv, HooksExist
<1>8. StepsInv(at', steps', begun') => StepsInv(at, steps, begun)'
  BY <1>1 DEF StepsInv, StepsAre, StepsAt, AllDone, Pos
<1>9. QueueInv(at', outcome', steps', stepIds', artifacts')
        => QueueInv(at, outcome, steps, stepIds, artifacts)'
  BY <1>1, <1>3, <1>4 DEF QueueInv, Awaited, Until, Pos
<1>10. CollectInv(at', outcome', steps', collected', begun')
         => CollectInv(at, outcome, steps, collected, begun)'
  BY <1>1 DEF CollectInv, Until, Pos
<1> QED
  BY <1>5, <1>6, <1>7, <1>8, <1>9, <1>10 DEF Fits

LEMMA IInvKept == IInv /\ [Next]_vars => IInv'
<1> SUFFICES ASSUME IInv, [Next]_vars PROVE IInv'
  OBVIOUS
<1>1. /\ SubInv /\ TargetInv
      /\ Placed(at) /\ LevelInv(at, begun) /\ StepsInv(at, steps, begun)
      /\ CancelInv /\ OutcomeInv /\ RowInv
      /\ QueueInv(at, outcome, steps, stepIds, artifacts)
      /\ CollectInv(at, outcome, steps, collected, begun)
  BY DEF IInv
<1>2. Fits(at', begun') /\ StepsInv(at', steps', begun')
  BY <1>1, NextFits
<1>3. /\ QueueInv(at', outcome', steps', stepIds', artifacts')
      /\ CollectInv(at', outcome', steps', collected', begun')
  BY <1>1, QueueInvKept, CollectInvKept
<1>4. CancelInv' /\ OutcomeInv' /\ RowInv'
  BY <1>1, CancelInvKept, OutcomeInvKept, RowInvKept
<1>5. SubInv'
  BY <1>1, SubInvKept
<1> QED
  BY <1>1, <1>2, <1>3, <1>4, <1>5, TargetKept, PartsPrimed DEF IInv

LEMMA InitHolds == ASSUME Init PROVE IInv
<1> DEFINE first == HookList(1, "pre", 1)
<1>1. /\ mode \in Modes /\ target \in Targets /\ at = first /\ steps = << >>
      /\ stepIds = [q \in Queues |-> << >>]
      /\ artifacts = [t \in {q[1] : q \in Queues} |-> << >>]
      /\ collected = << >> /\ begun = {} /\ outcome = "none" /\ cancels = 0 /\ SubprocessInit
  BY DEF Init
<1>2. SubInv /\ TargetInv
  BY <1>1, InitSubInv DEF TargetInv
<1>3. /\ at.doing = "ready" /\ at.level = 1 /\ at.phase = "pre" /\ at.unit = 1 /\ at.sub = 1
  BY <1>1 DEF HookList
<1>4. Placed(at) /\ 1 \in Around(1)
  <2>1. 1 \in DOMAIN units
    BY <1>2, TargetFacts
  <2> QED
    BY <1>1, <1>2, <2>1, PlacesAre, AroundIs DEF Phases
<1>5. LevelInv(at, begun)
  BY <1>1, <1>3 DEF LevelInv, HooksExist, ClosedOnce, ClosedInOrder, Inside, Begun, Closed,
     AtHooks, AtWork
<1>6. /\ steps \in Seq(Step) /\ DOMAIN steps = {} /\ Len(steps) = 0
  BY <1>1, EmptySeq
<1>7. StepsInv(at, steps, begun)
  <2>1. Base[1] = 0 /\ Total \in Nat
    BY <1>2, BaseFacts
  <2>2. \A u \in DOMAIN units : \A s \in DOMAIN units[u].subs : ~ (Pos(u, s) <= Len(steps))
    BY <1>2, <1>6, PosFacts
  <2>3. StepsAre(steps)
    BY <1>6, <2>1, <2>2 DEF StepsAre
  <2>4. StepsAt(at, steps)
    BY <1>3, <1>6, <2>1 DEF StepsAt, AllGood, AtHooks
  <2> QED
    BY <1>1, <2>3, <2>4 DEF StepsInv, Begun
<1>8. CancelInv /\ OutcomeInv /\ RowInv
  <2>1. stage = "idle" /\ MaxCancels \in Nat
    BY <1>1, ExecutionAssumption DEF SubprocessInit
  <2> QED
    BY <1>1, <1>3, <1>6, <2>1 DEF CancelInv, OutcomeInv, RowInv
<1>9. QueueInv(at, outcome, steps, stepIds, artifacts)
  <2>1. \A S : << >> \in Seq(S)
    BY EmptySeq
  <2>2. \A q \in Queues : stepIds[q] = << >>
    BY <1>1
  <2>3. \A t \in BackupTasks : artifacts[t] = << >>
    BY <1>1 DEF BackupTasks
  <2>4. /\ stepIds \in [Queues -> Seq(DOMAIN steps)]
        /\ artifacts \in [BackupTasks -> Seq({0} \cup DOMAIN steps)]
    <3> DEFINE S == Seq(DOMAIN steps)  T == Seq({0} \cup DOMAIN steps)
    <3>1. << >> \in S /\ << >> \in T
      BY <2>1
    <3> HIDE DEF S, T
    <3>2. stepIds \in [Queues -> S] /\ artifacts \in [BackupTasks -> T]
      BY <1>1, <3>1 DEF BackupTasks
    <3> QED
      BY <3>2 DEF S, T
  <2>5. \A q \in Queues : Awaited(q, at, outcome, steps) = {}
    BY <1>6 DEF Awaited
  <2>6. Lists(<< >>, {})
    BY EmptySeq DEF Lists
  <2>7. \A t \in BackupTasks : <<t, "backup">> \in Queues
    BY QueuesAre DEF BackupSubsteps
  <2>8. DOMAIN << >> = {} /\ Len(<< >>) = 0
    BY EmptySeq
  <2>9. \A t \in BackupTasks : /\ DOMAIN artifacts[t] = {}
                               /\ Len(artifacts[t]) = Len(stepIds[<<t, "backup">>])
    BY <2>2, <2>3, <2>7, <2>8
  <2>10. \A q \in Queues : Lists(stepIds[q], Awaited(q, at, outcome, steps))
    BY <2>2, <2>5, <2>6
  <2> QED
    BY <2>2, <2>4, <2>9, <2>10 DEF QueueInv
<1>10. CollectInv(at, outcome, steps, collected, begun)
  BY <1>1, <1>2, <1>3, <1>6, UntilIs, NothingCollected
<1> QED
  BY <1>2, <1>4, <1>5, <1>7, <1>8, <1>9, <1>10 DEF IInv

\* Steps, hooks, rows, queues and what was collected fit together, wherever the run is.
THEOREM InductiveInvariant == Spec => []IInv
<1>1. Init => IInv
  BY InitHolds
<1> QED
  BY <1>1, IInvKept, PTL DEF Spec

-----------------------------------------------------------------------------
(***************************************************************************)
(* What a reader should know of a run.                                     *)
(***************************************************************************)
LEMMA StepsExist ==
  ASSUME IInv
  PROVE  /\ steps \in Seq(Step) /\ Len(steps) \in Nat /\ DOMAIN steps = 1 .. Len(steps)
         /\ Total \in Nat /\ Len(steps) <= Total /\ StepsAre(steps)
         /\ \A i \in DOMAIN steps : steps[i] \in Step /\ i \in Nat
<1>1. steps \in Seq(Step) /\ StepsAre(steps) /\ Len(steps) <= Total
  BY DEF IInv, StepsInv, StepsAre
<1>2. Len(steps) \in Nat /\ DOMAIN steps = 1 .. Len(steps)
  BY <1>1, LenProperties
<1>3. \A i \in DOMAIN steps : steps[i] \in Step
  BY <1>1, <1>2, ElementOfSeq
<1>4. Total \in Nat
  BY BaseFacts DEF IInv
<1> QED
  BY <1>1, <1>2, <1>3, <1>4

LEMMA TypesHold == ASSUME IInv PROVE TypeOK
<1>1. SubprocessTypeOK /\ mode \in Modes /\ target \in Targets
  BY DEF IInv, SubInv, TargetInv
<1>2. Placed(at) /\ TargetInv /\ HooksExist(begun)
  BY DEF IInv, LevelInv
<1>3. /\ at \in [doing : {"ready", "hook", "create", "start", "command", "finish", "collect",
                          "over"},
                 level : 0 .. 3, phase : Phases \cup {"work"}, unit : DOMAIN units,
                 sub : Nat \ {0}, index : Nat \ {0}]
      /\ at.sub \in DOMAIN UnitAt.subs
  BY <1>2 DEF Placed, Place, UnitAt
<1>4. ASSUME NEW i \in DOMAIN steps
      PROVE  steps[i] \in [task : {units[u].task : u \in DOMAIN units}, sub : Substeps,
                           row : {"none", "running", "success", "failed", "cancelled"},
                           verdict : {"none", "success", "failed", "cancelled", "raised"},
                           summary : {0, i}]
  <2>1. /\ steps[i] \in Step /\ steps[i].summary \in {0, i}
        /\ steps[i].task \in {units[u].task : u \in DOMAIN units}
    BY StepsExist DEF StepsAre
  <2> QED
    BY <2>1 DEF Step, Rows, Verdicts
<1>5. /\ stepIds \in [Queues -> Seq(DOMAIN steps)]
      /\ artifacts \in [{q[1] : q \in Queues} -> Seq({0} \cup DOMAIN steps)]
  BY DEF IInv, QueueInv, BackupTasks
<1>6. ASSUME NEW c \in begun PROVE c \in Levels \X (0 .. Len(units)) \X Phases
  <2>1. /\ c = <<c[1], c[2], c[3]>> /\ c[1] \in Levels /\ c[2] \in Nat /\ c[3] \in Phases
        /\ Begun(c[1], c[2], c[3], begun)
    BY <1>2 DEF HooksExist, Begun
  <2>2. c[2] = 0 \/ c[2] \in DOMAIN units
    BY <1>2, <2>1 DEF HooksExist
  <2>3. c[2] \in 0 .. Len(units)
    BY <1>2, <2>2, TargetFacts
  <2> QED
    BY <2>1, <2>3
<1>7. /\ outcome \in {"none", "success", "failed", "cancelled", "raised"}
      /\ cancels \in 0 .. MaxCancels
  BY DEF IInv, OutcomeInv, CancelInv
<1>8. begun \subseteq Levels \X (0 .. Len(units)) \X Phases
  BY <1>6
<1> QED
  BY <1>1, <1>3, <1>4, <1>5, <1>7, <1>8 DEF TypeOK

\* Every variable has its type.
THEOREM TypeCorrect == Spec => []TypeOK
<1>1. IInv => TypeOK
  BY TypesHold
<1> QED
  BY <1>1, InductiveInvariant, PTL

LEMMA LevelsDoUnwind == ASSUME IInv PROVE LevelsUnwind
<1> DEFINE opened == {b \in begun : b[3] = "pre"}
           Closings(b) == {p \in {"post", "on_error"} : <<b[1], b[2], p>> \in begun}
<1>1. /\ HooksExist(begun) /\ ClosedOnce(begun) /\ ClosedInOrder(begun)
      /\ at.doing = "collect" => AllClosed(begun)
  BY DEF IInv, LevelInv
<1>2. \A b \in opened : /\ b[1] \in Levels /\ b[2] \in Nat /\ Begun(b[1], b[2], "pre", begun)
                        /\ Closings(b) # {} <=> Closed(b[1], b[2], begun)
  <2> SUFFICES ASSUME NEW b \in opened
               PROVE  /\ b[1] \in Levels /\ b[2] \in Nat /\ Begun(b[1], b[2], "pre", begun)
                      /\ Closings(b) # {} <=> Closed(b[1], b[2], begun)
    OBVIOUS
  <2>1. b \in Levels \X Nat \X Phases /\ b[3] = "pre" /\ b \in begun
    BY <1>1 DEF HooksExist
  <2>2. b = <<b[1], b[2], "pre">> /\ b[1] \in Levels /\ b[2] \in Nat
    BY <2>1
  <2>3. <<b[1], b[2], "pre">> \in begun
    BY <2>1, <2>2
  <2>4. \A p : p \in Closings(b) <=> p \in {"post", "on_error"} /\ <<b[1], b[2], p>> \in begun
    OBVIOUS
  <2> HIDE DEF Closings, opened
  <2>5. Closings(b) # {} <=> Closed(b[1], b[2], begun)
    BY <2>4 DEF Closed, Begun
  <2> QED
    BY <2>2, <2>3, <2>5 DEF Begun
<1>3. ASSUME NEW b \in opened PROVE Cardinality(Closings(b)) <= 1
  <2>1. ~ (Begun(b[1], b[2], "post", begun) /\ Begun(b[1], b[2], "on_error", begun))
    BY <1>1, <1>2 DEF ClosedOnce
  <2>2. Closings(b) = {} \/ Closings(b) = {"post"} \/ Closings(b) = {"on_error"}
    BY <2>1 DEF Begun
  <2>3. Cardinality({}) = 0 /\ Cardinality({"post"}) = 1 /\ Cardinality({"on_error"}) = 1
    BY FS_EmptySet, FS_Singleton
  <2> HIDE DEF Closings
  <2>4. Cardinality(Closings(b)) = 0 \/ Cardinality(Closings(b)) = 1
    BY <2>2, <2>3
  <2> QED
    BY <2>4
<1>4. \A b, c \in opened : b[1] < c[1] /\ Closings(b) # {} => Closings(c) # {}
  <2> HIDE DEF opened, Closings
  <2> QED
    BY <1>1, <1>2 DEF ClosedInOrder
<1>5. at.doing = "collect" => \A b \in opened : Closings(b) # {}
  <2> HIDE DEF opened, Closings
  <2> QED
    BY <1>1, <1>2 DEF AllClosed
<1> QED
  BY <1>3, <1>4, <1>5 DEF LevelsUnwind

\* The hooks of the levels close as they were opened.
THEOREM LevelsCloseInOrder == Spec => []LevelsUnwind
<1>1. IInv => LevelsUnwind
  BY LevelsDoUnwind
<1> QED
  BY <1>1, InductiveInvariant, PTL

\* No row of a step shows another end than its own; after a run whose statements worked all
\* rows show it, but for the one that a cancellation met in its statement.
THEOREM RowsAreTrue == Spec => []RowsTellTheResult
<1>1. ASSUME IInv PROVE RowsTellTheResult
  <2>1. ASSUME NEW i \in DOMAIN steps
        PROVE  /\ steps[i].row \in {"none", "running", RowFor(steps[i].verdict)}
               /\ Ended /\ mode \in {"normal", "dryRun"} /\ (cancels = 0 \/ i < Len(steps)) =>
                    steps[i].row = RowFor(steps[i].verdict)
    <3>1. steps[i].row \in RowOf(i, steps, at, cancels)
      BY <1>1 DEF IInv, RowInv
    <3>2. Len(steps) \in Nat
      BY <1>1, LastIsHere DEF IInv, StepsInv, StepsAre
    <3> QED
      BY <3>1, <3>2 DEF RowOf, Ended
  <2> QED
    BY <2>1 DEF RowsTellTheResult
<1> QED
  BY <1>1, InductiveInvariant, PTL

\* The statistics are told of a step what this step did.
THEOREM ContextsAreTheirSteps == Spec => []StatsBelongToTheirStep
<1>1. ASSUME IInv PROVE StatsBelongToTheirStep
  <2>1. \A n \in DOMAIN collected : ContextOf(collected[n], steps)
    <3>1. CollectInv(at, outcome, steps, collected, begun)
      BY <1>1 DEF IInv
    <3> QED
      BY <3>1 DEF CollectInv
  <2>2. \A c \in Contexts : ContextOf(c, steps)
    BY <2>1 DEF Contexts
  <2> QED
    BY <2>2 DEF ContextOf, StatsBelongToTheirStep
<1> QED
  BY <1>1, InductiveInvariant, PTL

LEMMA AllAreCollected == ASSUME IInv PROVE EverySuccessIsCollected
<1> DEFINE successes == {i \in DOMAIN steps : /\ steps[i].verdict = "success"
                                              /\ steps[i].sub \in BackupSubsteps}
           after == Total + 1
<1>1. TargetInv /\ OutcomeInv /\ CollectInv(at, outcome, steps, collected, begun)
      /\ (Begun(1, 0, "post", begun) => AllDone(steps))
  BY DEF IInv, StepsInv
<1>2. /\ DOMAIN steps = 1 .. Len(steps) /\ Len(steps) \in Nat /\ Len(steps) <= Total
      /\ Total \in Nat
  BY StepsExist
<1>3. \A i : i \in BackupsUntil(after, steps) <=>
               i \in DOMAIN steps /\ steps[i].sub \in BackupSubsteps
  BY <1>2 DEF BackupsUntil
<1>4. Ended /\ outcome \in {"success", "failed"} => Until(at, outcome) = after
  BY DEF Ended, Until
<1> HIDE DEF after
<1>5. ASSUME Ended, mode \in {"normal", "faultyHistory"}, outcome \in {"success", "failed"},
             NEW i \in successes
      PROVE  Cardinality({n \in DOMAIN collected : collected[n].id = i}) = 1
  <2>1. i \in BackupsUntil(after, steps) /\ steps[i].verdict = "success" /\ i # 0
    BY <1>2, <1>3
  <2>2. PICK n \in DOMAIN collected : collected[n].id = i
    BY <1>1, <1>4, <1>5, <2>1 DEF CollectInv
  <2>3. \A m \in DOMAIN collected : collected[m].id = i => m = n
    BY <1>1, <2>1, <2>2 DEF CollectInv
  <2>4. {m \in DOMAIN collected : collected[m].id = i} = {n}
    BY <2>2, <2>3
  <2>5. Cardinality({n}) = 1
    BY FS_Singleton
  <2> QED
    BY <2>4, <2>5
<1>6. ASSUME Ended, mode = "noHistory", outcome = "success"
      PROVE  Len(collected) = Cardinality(successes)
  <2>1. Begun(1, 0, "post", begun) /\ AllDone(steps)
    BY <1>1, <1>6 DEF OutcomeInv, Successful, Begun
  <2>2. Len(collected) = Cardinality(BackupsUntil(after, steps))
    BY <1>1, <1>4, <1>6, <2>1 DEF CollectInv
  <2>3. BackupsUntil(after, steps) = successes
    BY <1>3, <2>1 DEF AllDone, AllGood
  <2> QED
    BY <2>2, <2>3
<1> QED
  BY <1>5, <1>6 DEF EverySuccessIsCollected

\* Every successful substep of a backup is collected once.
THEOREM SuccessesAreCollected == Spec => []EverySuccessIsCollected
<1>1. IInv => EverySuccessIsCollected
  BY AllAreCollected
<1> QED
  BY <1>1, InductiveInvariant, PTL

\* Steps of the run that leave the number of steps alone.
LEMMA NoNewStep ==
  ASSUME TargetInv, Placed(at), StepsInv(at, steps, begun), [Next]_vars, at.doing # "create"
  PROVE  Len(steps') = Len(steps)
<1>1. ASSUME NEW v \in Verdicts, NEW s \in {0, Len(steps)}, Judged(v, s),
             s # 0 => v = "success" /\ SubAt = "backup", at.doing \in {"start", "command"}
      PROVE  Len(steps') = Len(steps)
  <2>1. PICK w \in Step : /\ Changed(w) /\ w.task = LastStep.task /\ w.sub = LastStep.sub
                          /\ w.summary = s /\ (w.sub # "backup" => w.summary = 0)
    BY <1>1, JudgedSteps
  <2> QED
    BY <1>1, <2>1, ChangedSteps
<1>2. ASSUME NEW row \in Rows, RowChanged(row), at.doing = "finish"
      PROVE  Len(steps') = Len(steps)
  <2>1. PICK w \in Step : /\ Changed(w) /\ w.task = LastStep.task /\ w.sub = LastStep.sub
                          /\ w.verdict = LastStep.verdict /\ w.summary = LastStep.summary
    BY <1>2, RowChangedSteps
  <2>2. /\ LastStep.summary \in {0, Len(steps)}
        /\ LastStep.sub # "backup" => LastStep.summary = 0
    BY <1>2, LastIsHere
  <2> QED
    BY <1>2, <2>1, <2>2, ChangedSteps
<1>3. CASE UNCHANGED steps
  BY <1>3
<1>4. CASE CommandStarts \/ CommandEnds
  <2>1. WorkEffect /\ at.doing \in {"start", "command"}
    BY <1>4, WorkEffects DEF CommandStarts, CommandEnds
  <2> QED
    BY <1>1, <1>3, <2>1 DEF WorkEffect
<1>5. CASE StepFinished \/ (Cancel /\ StatementCancelled)
  <2>1. at.doing = "finish" /\ \E row \in {LastStep.row} \cup EndRows : RowChanged(row)
    BY <1>5 DEF StepFinished, StatementCancelled, RowChanged
  <2> QED
    BY <1>2, <2>1, EndRowsAre
<1>6. CASE NextHook \/ HooksDone \/ HookEnds \/ Collect \/ CommandStep \/ Processing
           \/ (Cancel /\ ~ StatementCancelled) \/ UNCHANGED vars
  BY <1>3, <1>6 DEF NextHook, HooksDone, HookEnds, Collect, CommandStep, Processing, Cancel, vars
<1>7. ~ StepCreated
  BY DEF StepCreated
<1> QED
  BY <1>4, <1>5, <1>6, <1>7 DEF Next, RunStep

\* What a cancelled run may still do.
LEMMA AfterCancel ==
  ASSUME IInv, [Next]_vars, cancels > 0
  PROVE  /\ stage = "idle" => stage' = "idle"
         /\ begun' = begun
         /\ outcome' # outcome => outcome' \in {"cancelled", "raised"}
<1>1. /\ SubInv /\ TargetInv /\ Placed(at) /\ LevelInv(at, begun)
      /\ StepsInv(at, steps, begun) /\ CancelInv
  BY DEF IInv
<1>2. /\ at.doing \notin {"hook", "command"} => stage = "idle"
      /\ \/ at.doing = "over"
         \/ at.doing \in {"hook", "command"} /\ Escaping
         \/ at.doing = "finish" /\ LastStep.verdict \in {"cancelled", "raised"}
  BY <1>1 DEF CancelInv, Escaping
<1>3. Escaping /\ stage = "idle" => result \in {"cancelled", "error"}
  BY <1>1 DEF Escaping, Ending
<1>4. CASE UNCHANGED <<stage, begun, outcome>>
  BY <1>4
<1>5. CASE HookEffect
  <2>1. at.doing = "hook" /\ Escaping /\ (stage = "idle" => result \in {"cancelled", "error"})
    BY <1>2, <1>3, <1>5 DEF HookEffect, AtHooks
  <2>2. begun' = begun
    BY <1>1, <1>5, <2>1 DEF HookEffect, LevelInv, Begun, Here
  <2>3. UNCHANGED subprocessVars /\ outcome' \in {"cancelled", "raised"}
    BY <1>5, <2>1 DEF HookEffect, Unsuccessful
  <2> QED
    BY <2>2, <2>3 DEF subprocessVars
<1>6. CASE WorkEffect
  <2>1. /\ at.doing = "command" /\ Escaping /\ UNCHANGED <<begun, outcome>>
        /\ UNCHANGED subprocessVars
    BY <1>2, <1>6, DoingOf, <1>1 DEF WorkEffect
  <2> QED
    BY <2>1 DEF subprocessVars
<1>7. CASE StepFinished
  <2>1. at.doing = "finish" /\ UNCHANGED <<begun>> /\ UNCHANGED subprocessVars
    BY <1>7 DEF StepFinished
  <2>2. outcome' \in {"cancelled", "raised"}
    BY <1>1, <1>2, <1>7, <2>1, FinishEffects DEF FinishEffect
  <2> QED
    BY <2>1, <2>2 DEF subprocessVars
<1>8. ~ StepCreated /\ ~ Collect
  BY <1>2 DEF StepCreated, Collect
<1>9. CASE Cancel
  <2>1. CASE StatementCancelled
    BY <1>9, <2>1 DEF StatementCancelled, Escapes, Cancel, subprocessVars
  <2>2. CASE CancelCall /\ UNCHANGED <<at, steps, outcome>>
    BY <1>1, <1>9, <2>2, IdleIsStill DEF Cancel
  <2> QED
    BY <1>9, <2>1, <2>2 DEF Cancel
<1>10. CASE CommandStep \/ Processing
  BY <1>1, <1>10, IdleIsStill DEF CommandStep, Processing
<1>11. CASE UNCHANGED vars
  BY <1>4, <1>11 DEF vars
<1>12. NextHook \/ HooksDone \/ HookEnds => HookEffect
  BY <1>1, HookEffects
<1>13. CommandStarts \/ CommandEnds => WorkEffect
  BY <1>1, WorkEffects
<1> QED
  BY <1>5, <1>6, <1>7, <1>8, <1>9, <1>10, <1>11, <1>12, <1>13 DEF Next, RunStep

\* A cancelled run starts nothing any more, and no step begins after one without success.
THEOREM CancelledRunsStartNothing == Spec => NothingStartsAfterCancel
<1> DEFINE Quiet == /\ cancels > 0 =>
                          /\ stage = "idle" => stage' = "idle"
                          /\ begun' = begun
                          /\ outcome' # outcome => outcome' \in {"cancelled", "raised"}
                    /\ cancels > 0 \/ (steps # << >> /\ LastStep.verdict # "success") =>
                          Len(steps') = Len(steps)
<1>1. ASSUME IInv, [Next]_vars PROVE Quiet
  <2>1. /\ TargetInv /\ Placed(at) /\ StepsInv(at, steps, begun) /\ CancelInv
    BY <1>1 DEF IInv
  <2>2. ASSUME cancels > 0 \/ (steps # << >> /\ LastStep.verdict # "success")
        PROVE  at.doing # "create"
    <3>1. CASE cancels > 0
      BY <2>1, <3>1 DEF CancelInv
    <3>2. CASE steps # << >> /\ LastStep.verdict # "success"
      <4>1. Len(steps) \in DOMAIN steps
        BY <1>1, <3>2, StepsExist, EmptySeq
      <4>2. ~ AllGood(steps)
        BY <3>2, <4>1 DEF AllGood, LastStep
      <4> QED
        BY <2>1, <4>2 DEF StepsInv, StepsAt
    <3> QED
      BY <2>2, <3>1, <3>2
  <2> QED
    BY <1>1, <2>1, <2>2, NoNewStep, AfterCancel
<1>2. IInv /\ [Next]_vars => [Quiet]_vars
  BY <1>1
<1> QED
  BY <1>2, InductiveInvariant, PTL DEF Spec, NothingStartsAfterCancel

\* No command outlives its call.
THEOREM NoCommandIsLeft == Spec => CommandsAreStopped
<1> DEFINE Stopped == stage # "idle" /\ stage' = "idle" =>
                        /\ ~ running'
                        /\ result' \in Raised /\ ~ SomePumpFailed
                             => killed \/ "member" \notin writers
<1>1. Init => SubInv
  BY InitSubInv DEF Init
<1>2. SubInv /\ [Next]_vars => SubInv'
  BY SubInvKept
<1>3. SubInv /\ [Next]_vars => [Stopped]_subprocessVars
  BY NextIsSubStep, CallsEndClean
<1> QED
  BY <1>1, <1>2, <1>3, PTL DEF Spec, CommandsAreStopped

=============================================================================
