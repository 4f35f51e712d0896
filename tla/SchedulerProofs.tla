--------------------------- MODULE SchedulerProofs ---------------------------
(***************************************************************************)
(* Proofs about Scheduler for any items, configurations, schedules, number *)
(* of edits, of failing ticks and of times the clock is set back.          *)
(*                                                                         *)
(* TriggerInv says how often an instant can have been used while its tick  *)
(* is still under way; the clock may be set back, and Pending counts how   *)
(* often the lower edge of the window is still to go back after it.        *)
(* CoveredInv: a tick which has started its items left none out (the only  *)
(* place that needs the existence of a latest due instant).  HistoryInv    *)
(* and BufferInv: where every run stands on its way into a report.         *)
(***************************************************************************)
EXTENDS Scheduler, WellFoundedInduction, TLAPS

Starting == {"load", "construct", "entering"}
InTick   == {"query", "sending", "items", "cleanup"}

\* How often the lower edge of the window is still to follow the clock back: when the
\* tick under way ends with an earlier time than the last one, and when the clock is
\* behind the tick by now.
Pending ==
    IF pc \in InTick THEN (IF now < lastCheck THEN 1 ELSE 0) + (IF clock < now THEN 1 ELSE 0)
                     ELSE (IF clock < lastCheck THEN 1 ELSE 0)

\* Before the loop nothing has happened.  The edge follows the clock back no more often
\* than the clock was set back.
TimeInv ==
    /\ pc \in Starting => /\ startTime = 0 /\ lastCheck = 0 /\ since = 0
                          /\ \A i \in Items : \A d \in Times : fires[i][d] = 0
    /\ pc \notin Starting => 1 <= startTime
    /\ pc \in InTick => 1 <= now
    /\ Pending <= setbacks

\* An instant has been used at most once, and only when it is behind the lower edge
\* or about to be, apart from failed ticks and from edges that went back.
Used(d) == d <= lastCheck \/ (pc = "cleanup" /\ d <= now)

TriggerInv ==
    \A i \in Items : \A d \in Times :
       fires[i][d] + Pending <= failures + setbacks + (IF Used(d) THEN 1 ELSE 0)

\* The items of the tick under way have been started.
Covered ==
    \A i \in Items : \A d \in Schedule[config][i] :
       startTime <= d /\ lastCheck < d /\ d <= now
       => \E e \in Schedule[config][i] : d <= e /\ e <= now /\ Started(i, e)

CoveredInv == NothingMissed /\ (pc = "cleanup" => Covered)

\* r finished no later than a report instant that is behind the lower edge or about
\* to be.
Reported(r) ==
    finishedAt[r] # 0 /\ \E due \in Reporting :
        /\ finishedAt[r] <= due
        /\ due <= lastCheck \/ (pc \in {"items", "cleanup"} /\ due <= now)

\* A report is under way only when one is due, and only with history is it queried.
ReportInv ==
    /\ pc = "query" => gui
    /\ pc # "sending" => gathered = {}
    /\ pc \in {"query", "sending"} => \E d \in Reporting : IsDue(Reporting, d, now)

\* With history, a run is gathered for the one report in whose window it finished.
HistoryInv ==
    gui => \A r \in Runs :
         /\ reports[r] + Pending
              <= failures + setbacks + reschedules + (IF Reported(r) THEN 1 ELSE 0)
         /\ r \in gathered => InWindow(r, now)

\* Without history, a run is handed from the hook to the buffer, to a report and away.
BufferInv ==
    ~gui => \A r \in Runs :
         /\ finishedAt[r] = 0 => r \notin hooked \cup stored \cup gathered
         /\ r \in hooked => r \notin stored \cup gathered
         /\ r \in stored => r \notin gathered
         /\ finishedAt[r] = 0 \/ r \in hooked \cup stored \cup gathered => reports[r] = 0
         /\ reports[r] <= 1

IInv ==
    /\ TypeOK /\ TimeInv /\ TriggerInv /\ CoveredInv
    /\ ReportInv /\ HistoryInv /\ BufferInv

-----------------------------------------------------------------------------
(* Facts about the definitions.                                            *)

\* A set of instants that reaches back to t has a latest one up to t: get_prev
\* answers whenever there is an answer.
LEMMA LatestExists ==
    ASSUME NEW S \in SUBSET Nat, NEW t \in Nat, NEW d \in S, d <= t
    PROVE  \E e \in S : IsLatest(S, e, t) /\ d <= e
<1> DEFINE T == {k \in Nat : \E e \in S : e <= t /\ e + k = t}
<1>1. t - d \in T
  OBVIOUS
<1>2. PICK k \in T : \A j \in T : ~ (<<j, k>> \in OpToRel(<, Nat))
  <2> HIDE DEF T
  <2>1. T \subseteq Nat
    BY DEF T
  <2> QED
    BY <1>1, <2>1, NatLessThanWellFounded, WFMin
<1>3. PICK e \in S : e <= t /\ e + k = t
  OBVIOUS
<1>4. ASSUME NEW f \in S, f <= t, ~ (f <= e) PROVE FALSE
  <2>1. t - f \in T /\ t - f < k
    BY <1>3, <1>4
  <2> QED
    BY <1>2, <2>1 DEF OpToRel
<1> QED
  BY <1>3, <1>4 DEF IsLatest

\* What the edge still has to follow is bounded, and moves only with clock, tick and edge.
LEMMA PendingIs == ASSUME TypeOK PROVE Pending \in Nat
  BY DEF Pending

LEMMA PendingKept ==
    ASSUME UNCHANGED <<clock, now, lastCheck>>, (pc \in InTick) = (pc' \in InTick)
    PROVE  Pending' = Pending
  BY DEF Pending

-----------------------------------------------------------------------------
(* Every action preserves IInv.                                            *)

LEMMA LoadForStartKeepsIInv == ASSUME IInv, LoadForStart PROVE IInv'
<1>0. Pending \in Nat /\ Pending' \in Nat /\ Pending' = Pending
  BY PendingIs, PendingKept DEF IInv, LoadForStart, InTick, environment, window
<1>1. TypeOK'
  BY DEF IInv, TypeOK, LoadForStart, environment, window, reporting
<1>2. TimeInv'
  BY <1>0 DEF IInv, TypeOK, LoadForStart, TimeInv, Starting, InTick, environment, reloading,
     window
<1>3. TriggerInv'
  BY <1>0 DEF IInv, TypeOK, LoadForStart, TimeInv, Starting, TriggerInv, environment
<1>4. CoveredInv'
  BY SchedulerAssumption DEF IInv, TypeOK, LoadForStart, TimeInv, Starting, CoveredInv,
     NothingMissed, window, Times,
     environment
<1>5. ReportInv'
  BY DEF IInv, TypeOK, LoadForStart, ReportInv, reporting, Reporting, reloading
<1>6. HistoryInv'
  <2> SUFFICES ASSUME gui = TRUE, NEW r \in Runs
               PROVE  /\ reports[r] + Pending <= failures + setbacks + reschedules
                      /\ r \notin gathered
    BY <1>0 DEF IInv, TypeOK, HistoryInv, LoadForStart, environment, reloading, reporting
  <2>1. ~ Reported(r)
    BY SchedulerAssumption DEF IInv, TypeOK, LoadForStart, TimeInv, Starting, Reported,
       Reporting, Times
  <2> QED
    BY <1>0, <2>1 DEF IInv, TypeOK, HistoryInv, ReportInv, LoadForStart
<1>7. BufferInv'
  BY DEF IInv, TypeOK, LoadForStart, BufferInv, environment, reloading, reporting
<1> QED
  BY <1>1, <1>2, <1>3, <1>4, <1>5, <1>6, <1>7 DEF IInv

LEMMA ConstructKeepsIInv == ASSUME IInv, Construct PROVE IInv'
<1>0. Pending \in Nat /\ Pending' \in Nat /\ Pending' = Pending
  BY PendingIs, PendingKept DEF IInv, Construct, InTick, environment, window
<1>1. TypeOK'
  BY DEF IInv, TypeOK, Construct, Written, Look, Unseen, environment, reloading, window,
     reporting
<1>2. TimeInv'
  BY <1>0 DEF IInv, TypeOK, Construct, TimeInv, Starting, InTick, environment, window
<1>3. TriggerInv'
  BY <1>0 DEF IInv, TypeOK, Construct, TimeInv, Starting, TriggerInv, environment
<1>4. CoveredInv'
  BY DEF IInv, TypeOK, Construct, CoveredInv, NothingMissed, Started, window,
     environment
<1>5. ReportInv'
  BY DEF IInv, TypeOK, Construct, ReportInv, reporting, Reporting, reloading
<1>6. HistoryInv'
  BY <1>0, SchedulerAssumption DEF IInv, TypeOK, Construct, TimeInv, Starting, ReportInv,
     HistoryInv, Reported, environment, reporting, Times, InTick, reloading, window, Reporting
<1>7. BufferInv'
  BY DEF IInv, TypeOK, Construct, BufferInv, environment, reporting
<1> QED
  BY <1>1, <1>2, <1>3, <1>4, <1>5, <1>6, <1>7 DEF IInv

LEMMA EnterLoopKeepsIInv == ASSUME IInv, EnterLoop PROVE IInv'
<1>0. Pending \in Nat /\ Pending' \in Nat /\ Pending' = Pending
  BY PendingIs, PendingKept DEF IInv, EnterLoop, InTick, environment, window
<1>1. TypeOK'
  BY DEF IInv, TypeOK, EnterLoop, environment, reloading, reporting, Times
<1>2. TimeInv'
  BY <1>0 DEF IInv, TypeOK, EnterLoop, TimeInv, Starting, InTick, environment, reloading,
     window, Times
<1>3. TriggerInv'
  BY <1>0 DEF IInv, TypeOK, EnterLoop, TriggerInv, Used, environment
<1>4. CoveredInv'
  BY SchedulerAssumption DEF IInv, TypeOK, EnterLoop, TimeInv, Starting, CoveredInv,
     NothingMissed, Times,
     environment
<1>5. ReportInv'
  BY DEF IInv, TypeOK, EnterLoop, ReportInv, reporting, Reporting, reloading
<1>6. HistoryInv'
  BY <1>0 DEF IInv, TypeOK, EnterLoop, HistoryInv, Reported, InWindow, environment, reporting,
     Reporting, reloading
<1>7. BufferInv'
  BY DEF IInv, TypeOK, EnterLoop, BufferInv, environment, reporting
<1> QED
  BY <1>1, <1>2, <1>3, <1>4, <1>5, <1>6, <1>7 DEF IInv

LEMMA BeginTickKeepsIInv == ASSUME IInv, BeginTick PROVE IInv'
<1>0. Pending \in Nat /\ Pending' \in Nat /\ Pending' = Pending
  BY PendingIs, PendingKept DEF IInv, BeginTick, InTick, environment, window
<1>1. TypeOK'
  <2>1. seen' \in Look /\ look' \in Look
    <3>1. CASE file.there
      BY <3>1 DEF IInv, TypeOK, BeginTick, Look
    <3>2. CASE ~file.there
      BY DEF IInv, TypeOK, BeginTick, Unseen, Look
    <3> QED
      BY <3>1, <3>2
  <2> QED
    BY <2>1 DEF IInv, TypeOK, BeginTick, environment, window, reporting
<1>2. TimeInv'
  BY <1>0 DEF IInv, TypeOK, BeginTick, TimeInv, Starting, InTick, environment, window
<1>3. TriggerInv'
  BY <1>0 DEF IInv, TypeOK, BeginTick, TriggerInv, Used, window, environment
<1>4. CoveredInv'
  BY DEF IInv, TypeOK, BeginTick, CoveredInv, NothingMissed, Started, window,
     environment
<1>5. ReportInv'
  BY DEF IInv, TypeOK, BeginTick, ReportInv, reporting, Reporting, reloading
<1>6. HistoryInv'
  BY <1>0 DEF IInv, TypeOK, BeginTick, HistoryInv, Reported, InWindow, environment, window,
     reporting, Reporting, reloading
<1>7. BufferInv'
  BY DEF IInv, TypeOK, BeginTick, BufferInv, environment, reporting
<1> QED
  BY <1>1, <1>2, <1>3, <1>4, <1>5, <1>6, <1>7 DEF IInv

LEMMA DigestKeepsIInv == ASSUME IInv, Digest PROVE IInv'
<1>0. Pending \in Nat /\ Pending' \in Nat /\ Pending' = Pending
  BY PendingIs, PendingKept DEF IInv, Digest, InTick, environment, window
<1>1. TypeOK'
  BY DEF IInv, TypeOK, Digest, Unseen, Look, environment, reloading, window, reporting
<1>2. TimeInv'
  BY <1>0 DEF IInv, TypeOK, Digest, TimeInv, Starting, InTick, environment, window
<1>3. TriggerInv'
  BY <1>0 DEF IInv, TypeOK, Digest, TriggerInv, Used, window, environment
<1>4. CoveredInv'
  BY DEF IInv, TypeOK, Digest, CoveredInv, NothingMissed, Started, window,
     environment
<1>5. ReportInv'
  BY DEF IInv, TypeOK, Digest, ReportInv, reporting, Reporting, reloading
<1>6. HistoryInv'
  BY <1>0 DEF IInv, TypeOK, Digest, HistoryInv, Reported, InWindow, environment, window,
     reporting, Reporting, reloading
<1>7. BufferInv'
  BY DEF IInv, TypeOK, Digest, BufferInv, environment, reporting
<1> QED
  BY <1>1, <1>2, <1>3, <1>4, <1>5, <1>6, <1>7 DEF IInv

LEMMA ParseKeepsIInv == ASSUME IInv, Parse PROVE IInv'
<1>0. Pending \in Nat /\ Pending' \in Nat /\ Pending' = Pending
  BY PendingIs, PendingKept DEF IInv, Parse, InTick, environment, window
<1>1. TypeOK'
  <2>1. /\ seen' \in Look /\ look' \in Look /\ reloadError' \in BOOLEAN
        /\ config' \in Configs /\ since' \in Nat /\ reschedules' \in Nat
    <3>1. CASE file.there /\ file.content \in Valid
      <4>1. seen' \in Look /\ look' \in Look /\ reloadError' \in BOOLEAN
        BY <3>1 DEF IInv, TypeOK, Parse, Unseen, Look
      <4>2. config' \in Configs /\ since' \in Nat
        BY <3>1 DEF IInv, TypeOK, Parse, NewConfig
      <4>3. reschedules' \in Nat
        BY <3>1 DEF IInv, TypeOK, Parse, NewConfig
      <4> QED
        BY <4>1, <4>2, <4>3
    <3>2. CASE ~ (file.there /\ file.content \in Valid)
      BY <3>2 DEF IInv, TypeOK, Parse, Unseen, Look
    <3> QED
      BY <3>1, <3>2
  <2> QED
    BY <2>1 DEF IInv, TypeOK, Parse, environment, window, reporting
<1>2. TimeInv'
  BY <1>0 DEF IInv, TypeOK, Parse, NewConfig, TimeInv, Starting, InTick, environment, window
<1>3. TriggerInv'
  BY <1>0 DEF IInv, TypeOK, Parse, TriggerInv, Used, window, environment
<1>4. CoveredInv'
  BY SchedulerAssumption DEF IInv, TypeOK, Parse, NewConfig, CoveredInv, NothingMissed, Started,
     window, Times,
     environment
<1>5. ReportInv'
  BY DEF IInv, TypeOK, Parse, ReportInv, reporting, Reporting, reloading
<1>6. HistoryInv'
  <2> SUFFICES ASSUME gui = TRUE, NEW r \in Runs
               PROVE  reports[r] + Pending
                         <= failures + setbacks + reschedules' + (IF Reported(r)' THEN 1 ELSE 0)
    BY <1>0 DEF IInv, TypeOK, HistoryInv, ReportInv, Parse, environment, reporting
  <2>1. /\ reports[r] \in Nat /\ failures \in Nat /\ setbacks \in Nat /\ reschedules \in Nat
        /\ reports[r] + Pending
              <= failures + setbacks + reschedules + (IF Reported(r) THEN 1 ELSE 0)
    BY DEF IInv, TypeOK, HistoryInv
  <2>2. CASE Reporting' = Reporting /\ reschedules' = reschedules
    <3>1. Reported(r)' = Reported(r)
      BY <2>2 DEF Parse, Reported, window, reporting
    <3> QED
      BY <1>0, <2>1, <2>2, <3>1
  <2>3. CASE reschedules' = reschedules + 1
    BY <1>0, <2>1, <2>3
  <2>4. \/ Reporting' = Reporting /\ reschedules' = reschedules
        \/ reschedules' = reschedules + 1
    BY DEF Parse, NewConfig, Reporting
  <2> QED
    BY <2>2, <2>3, <2>4
<1>7. BufferInv'
  BY DEF IInv, TypeOK, Parse, BufferInv, environment, reporting
<1> QED
  BY <1>1, <1>2, <1>3, <1>4, <1>5, <1>6, <1>7 DEF IInv

LEMMA CheckKeepsIInv == ASSUME IInv, Check PROVE IInv'
<1>0. Pending \in Nat /\ Pending' \in Nat /\ Pending' = Pending
  BY PendingIs, SchedulerAssumption DEF IInv, TypeOK, Check, Pending, InTick, Times,
     environment, window
<1>1. TypeOK'
  BY DEF IInv, TypeOK, Check, environment, reloading, Times
<1>2. TimeInv'
  BY <1>0 DEF IInv, TypeOK, Check, TimeInv, Starting, environment, reloading, window,
     reporting, Times
<1>3. TriggerInv'
  BY <1>0 DEF IInv, TypeOK, Check, TriggerInv, Used, environment
<1>4. CoveredInv'
  BY DEF IInv, TypeOK, Check, CoveredInv, NothingMissed, Started, reloading,
     environment
<1>5. ReportInv'
  BY DEF IInv, TypeOK, Check, ReportInv, IsDue, environment, Reporting, reloading
<1>6. HistoryInv'
  BY <1>0 DEF IInv, TypeOK, Check, ReportInv, HistoryInv, Reported, environment,
     Reporting, reloading
<1>7. BufferInv'
  BY DEF IInv, TypeOK, Check, BufferInv, environment
<1> QED
  BY <1>1, <1>2, <1>3, <1>4, <1>5, <1>6, <1>7 DEF IInv

LEMMA QueryKeepsIInv == ASSUME IInv, Query PROVE IInv'
<1>0. Pending \in Nat /\ Pending' \in Nat /\ Pending' = Pending
  BY PendingIs, PendingKept DEF IInv, Query, InTick, environment, window
<1>1. TypeOK'
  BY DEF IInv, TypeOK, Query, environment, reloading, window
<1>2. TimeInv'
  BY <1>0 DEF IInv, TypeOK, Query, TimeInv, Starting, InTick, environment, reloading, window,
     reporting
<1>3. TriggerInv'
  BY <1>0 DEF IInv, TypeOK, Query, TriggerInv, Used, window, environment
<1>4. CoveredInv'
  BY DEF IInv, TypeOK, Query, CoveredInv, NothingMissed, Started, reloading, window,
     environment
<1>5. ReportInv'
  BY DEF IInv, TypeOK, Query, ReportInv, IsDue, window, Reporting, reloading
<1>6. HistoryInv'
  BY <1>0 DEF IInv, TypeOK, Query, ReportInv, HistoryInv, Reported, InWindow, window,
     environment, Reporting, reloading
<1>7. BufferInv'
  BY DEF IInv, TypeOK, Query, BufferInv, ReportInv, environment, Reporting, reloading
<1> QED
  BY <1>1, <1>2, <1>3, <1>4, <1>5, <1>6, <1>7 DEF IInv

LEMMA SendKeepsIInv == ASSUME IInv, Send PROVE IInv'
<1>0. Pending \in Nat /\ Pending' \in Nat /\ Pending' = Pending
  BY PendingIs, PendingKept DEF IInv, Send, InTick, environment, window
<1>1. TypeOK'
  BY DEF IInv, TypeOK, Send, environment, reloading, window, reporting
<1>2. TimeInv'
  BY <1>0 DEF IInv, TypeOK, Send, TimeInv, Starting, InTick, environment, reloading, window,
     reporting
<1>3. TriggerInv'
  BY <1>0 DEF IInv, TypeOK, Send, TriggerInv, Used, window, environment
<1>4. CoveredInv'
  BY DEF IInv, TypeOK, Send, CoveredInv, NothingMissed, Started, reloading, window,
     environment
<1>5. ReportInv'
  BY DEF IInv, TypeOK, Send, ReportInv, Reporting, reloading
<1>6. HistoryInv'
  <2> SUFFICES ASSUME gui = TRUE PROVE HistoryInv'
    BY DEF IInv, TypeOK, HistoryInv, Send, environment, Reporting, reloading
  <2>1. PICK due \in Reporting : IsDue(Reporting, due, now)
    BY DEF Send, IInv, ReportInv, Reporting, reloading
  <2>2. \A r \in gathered : /\ reports[r] + Pending <= failures + setbacks + reschedules
                            /\ finishedAt[r] # 0 /\ finishedAt[r] <= due
    <3> SUFFICES ASSUME NEW r \in gathered
                 PROVE  /\ reports[r] + Pending <= failures + setbacks + reschedules
                        /\ finishedAt[r] # 0 /\ finishedAt[r] <= due
      OBVIOUS
    <3>1. PICK d \in Reporting :
             /\ IsLatest(Reporting, d, now)
             /\ finishedAt[r] \in 1..d
             /\ \A earlier \in Reporting : earlier < d => earlier < finishedAt[r]
      BY DEF IInv, TypeOK, HistoryInv, InWindow, Reporting, reloading
    <3>2. d = due /\ d \in Nat /\ due \in Nat
      BY <2>1, <3>1, SchedulerAssumption DEF IsDue, IsLatest, Times, IInv, TypeOK, Reporting
    <3>3. ~ Reported(r)
      <4> SUFFICES ASSUME NEW e \in Reporting, finishedAt[r] <= e, e <= lastCheck
                   PROVE  FALSE
        BY DEF Reported, Send, Reporting, reloading
      <4>1. e \in Nat /\ e >= due
        BY <3>1, <3>2 DEF IInv, TypeOK
      <4>2. lastCheck = 0 \/ due > lastCheck
        BY <2>1 DEF IsDue
      <4>3. e >= 1
        BY SchedulerAssumption DEF IInv, TypeOK, Times, Reporting
      <4> QED
        BY <4>1, <4>2, <4>3 DEF IInv, TypeOK
    <3> QED
      BY <1>0, <3>1, <3>2, <3>3 DEF IInv, HistoryInv, TypeOK, Reporting, reloading
  <2>3. \A r \in gathered : Reported(r)'
    BY <2>1, <2>2 DEF Send, Reported, IsDue, IsLatest, window, Reporting, reloading
  <2>4. \A r \in Runs : Reported(r) => Reported(r)'
    BY DEF Send, Reported, window, Reporting, reloading
  <2>5. \A r \in Runs : reports[r] + Pending
       <= failures + setbacks + reschedules + (IF Reported(r) THEN 1 ELSE 0)
    BY DEF IInv, TypeOK, HistoryInv, Reporting, reloading
  <2>6. \A r \in Runs :
           reports'[r] + Pending
                <= failures + setbacks + reschedules + (IF Reported(r)' THEN 1 ELSE 0)
    <3> SUFFICES ASSUME NEW r \in Runs
                 PROVE  reports'[r] + Pending
                           <= failures + setbacks + reschedules + (IF Reported(r)' THEN 1 ELSE 0)
      OBVIOUS
    <3>0. reports[r] \in Nat /\ failures \in Nat /\ setbacks \in Nat /\ Pending \in Nat
        /\ reschedules \in Nat
      BY <1>0 DEF IInv, TypeOK
    <3>1. CASE reports'[r] = reports[r]
      BY <2>4, <2>5, <3>0, <3>1
    <3>2. CASE r \in gathered /\ reports'[r] = reports[r] + 1
      BY <2>2, <2>3, <3>0, <3>2
    <3> QED
      BY <3>1, <3>2 DEF Send
  <2> QED
    BY <1>0, <2>6 DEF Send, HistoryInv, environment, Reporting, reloading
<1>7. BufferInv'
  BY DEF IInv, TypeOK, Send, BufferInv, environment
<1> QED
  BY <1>1, <1>2, <1>3, <1>4, <1>5, <1>6, <1>7 DEF IInv

LEMMA TriggerKeepsIInv == ASSUME IInv, Trigger PROVE IInv'
<1>0. Pending \in Nat /\ Pending' \in Nat /\ Pending' = Pending
  BY PendingIs, PendingKept DEF IInv, Trigger, InTick, environment, window
<1>1. TypeOK'
  BY DEF IInv, TypeOK, Trigger, Fire, environment, reloading, window, reporting
<1>2. TimeInv'
  BY <1>0 DEF IInv, TypeOK, Trigger, TimeInv, Starting, InTick, environment, reloading, window
<1>3. TriggerInv'
  BY <1>0, SchedulerAssumption DEF IInv, TypeOK, Trigger, Fire, TriggerInv, Used, window,
     Times, IsDue, IsLatest, environment
<1>4. CoveredInv'
  <2>1. ASSUME NEW i \in Items, NEW d \in Schedule[config][i],
               startTime <= d, lastCheck < d, d <= now
        PROVE  \E e \in Schedule[config][i] : d <= e /\ e <= now /\ fires'[i][e] > 0
    <3>1. Schedule[config][i] \subseteq Times
      BY SchedulerAssumption DEF IInv, TypeOK
    <3>2. PICK e \in Schedule[config][i] : IsLatest(Schedule[config][i], e, now) /\ d <= e
      BY <2>1, SchedulerAssumption, LatestExists DEF IInv, TypeOK, Times
    <3>3. IsDue(Schedule[config][i], e, now)
      BY <2>1, <3>1, <3>2 DEF IsDue, IInv, TypeOK, Times
    <3>4. i \in DueItems /\ e \in Times
      BY <3>1, <3>3 DEF DueItems
    <3>5. fires'[i][e] = fires[i][e] + 1
      BY <3>3, <3>4 DEF Trigger, Fire
    <3>6. fires'[i][e] > 0
      BY <3>4, <3>5 DEF IInv, TypeOK
    <3> QED
      BY <3>2, <3>6 DEF IsLatest
  <2>2. \A i \in Items : \A d \in Times : fires[i][d] > 0 => fires'[i][d] > 0
    BY DEF Trigger, Fire, IInv, TypeOK
  <2>3. NothingMissed'
    BY <2>2, SchedulerAssumption DEF Trigger, reloading, window, IInv, TypeOK, CoveredInv,
       NothingMissed, Started, environment
  <2> QED
    BY <2>1, <2>3 DEF Trigger, reloading, window, CoveredInv, Covered, Started
<1>5. ReportInv'
  BY DEF IInv, TypeOK, Trigger, ReportInv, reporting, Reporting, reloading
<1>6. HistoryInv'
  BY <1>0 DEF IInv, TypeOK, Trigger, HistoryInv, Reported, InWindow, environment, window,
     reporting, Reporting, reloading
<1>7. BufferInv'
  BY DEF IInv, TypeOK, Trigger, BufferInv, environment, reporting
<1> QED
  BY <1>1, <1>2, <1>3, <1>4, <1>5, <1>6, <1>7 DEF IInv

LEMMA EndTickKeepsIInv == ASSUME IInv, EndTick PROVE IInv'
<1>0. /\ Pending \in Nat /\ Pending' \in Nat
      /\ Pending' <= Pending
      /\ now < lastCheck => Pending' < Pending
  BY PendingIs, SchedulerAssumption DEF IInv, TypeOK, EndTick, Pending, InTick, Times,
     environment, window
<1>1. TypeOK'
  BY DEF IInv, TypeOK, EndTick, environment, reloading, reporting
<1>2. TimeInv'
  BY <1>0 DEF IInv, TypeOK, EndTick, TimeInv, Starting, InTick, environment, reloading, window
<1>3. TriggerInv'
  <2> SUFFICES ASSUME NEW i \in Items, NEW d \in Times
               PROVE  fires[i][d] + Pending' <= failures + setbacks + (IF d <= now THEN 1 ELSE 0)
    BY DEF TriggerInv, Used, EndTick, environment
  <2>1. /\ fires[i][d] \in Nat /\ failures \in Nat /\ setbacks \in Nat
        /\ now \in Nat /\ lastCheck \in Nat /\ d \in Nat
    BY SchedulerAssumption DEF IInv, TypeOK, Times
  <2>2. /\ fires[i][d] + Pending <= failures + setbacks + 1
        /\ ~ (d <= lastCheck) /\ ~ (d <= now) => fires[i][d] + Pending <= failures + setbacks
    BY <1>0, <2>1 DEF IInv, TriggerInv, Used
  <2>3. CASE d <= now
    BY <1>0, <2>1, <2>2, <2>3
  <2>4. CASE ~ (d <= now)
    BY <1>0, <2>1, <2>2, <2>4
  <2> QED
    BY <2>3, <2>4
<1>4. CoveredInv'
  <2>1. now \in Nat /\ lastCheck \in Nat /\ setbacks \in Nat /\ setbacks' = setbacks
    BY DEF EndTick, IInv, TypeOK, environment
  <2>0. lastCheck <= now \/ setbacks > 0
    BY <1>0, <2>1 DEF IInv, TimeInv
  <2> SUFFICES ASSUME NEW i \in Items, NEW d \in Schedule[config][i],
                      startTime <= d, since < d, d <= now
               PROVE  \E e \in Schedule[config][i] :
                         d <= e /\ (e <= now \/ setbacks > 0) /\ Started(i, e)
    BY <2>1 DEF EndTick, reloading, CoveredInv, NothingMissed, Started
  <2>2. Schedule[config][i] \subseteq Nat
    BY SchedulerAssumption DEF IInv, TypeOK, Times
  <2>3. CASE d <= lastCheck
    <3>1. PICK e \in Schedule[config][i] :
             d <= e /\ (e <= lastCheck \/ setbacks > 0) /\ Started(i, e)
      BY <2>3 DEF IInv, CoveredInv, NothingMissed
    <3> QED
      BY <2>0, <2>1, <2>2, <3>1
  <2>4. CASE lastCheck < d
    BY <2>4 DEF EndTick, IInv, CoveredInv, Covered
  <2> QED
    BY <2>1, <2>2, <2>3, <2>4
<1>5. ReportInv'
  BY DEF IInv, TypeOK, EndTick, ReportInv, reporting, Reporting, reloading
<1>6. HistoryInv'
  <2> SUFFICES ASSUME gui = TRUE, NEW r \in Runs
               PROVE  reports[r] + Pending'
                    <= failures + setbacks + reschedules + (IF Reported(r)' THEN 1 ELSE 0)
    BY DEF IInv, TypeOK, HistoryInv, ReportInv, EndTick, environment, reporting,
       Reporting, reloading
  <2>1. /\ reports[r] \in Nat /\ failures \in Nat /\ setbacks \in Nat /\ finishedAt[r] \in Nat
        /\ reschedules \in Nat /\ now \in Nat /\ lastCheck \in Nat /\ Reporting \subseteq Nat
    BY SchedulerAssumption DEF IInv, TypeOK, Times, Reporting
  <2>2. /\ reports[r] + Pending <= failures + setbacks + reschedules + 1
        /\ ~ Reported(r) => reports[r] + Pending <= failures + setbacks + reschedules
    BY <1>0, <2>1 DEF IInv, HistoryInv, Reporting, reloading
  <2>3. CASE Reported(r)'
    BY <1>0, <2>1, <2>2, <2>3
  <2>4. CASE ~ Reported(r)' /\ ~ Reported(r)
    BY <1>0, <2>1, <2>2, <2>4
  <2>5. CASE ~ Reported(r)' /\ Reported(r)
    <3>1. PICK due \in Reporting : due <= lastCheck /\ ~ (due <= now)
      BY <2>5 DEF Reported, EndTick, reporting, Reporting, reloading
    <3>2. now < lastCheck
      BY <2>1, <3>1
    <3> QED
      BY <1>0, <2>1, <2>2, <2>5, <3>2
  <2> QED
    BY <2>3, <2>4, <2>5
<1>7. BufferInv'
  BY DEF IInv, TypeOK, EndTick, BufferInv, environment, reporting
<1> QED
  BY <1>1, <1>2, <1>3, <1>4, <1>5, <1>6, <1>7 DEF IInv

LEMMA TickFailsKeepsIInv == ASSUME IInv, TickFails PROVE IInv'
<1>0. Pending \in Nat /\ Pending' \in Nat /\ Pending' <= Pending
  BY PendingIs, SchedulerAssumption DEF IInv, TypeOK, TickFails, Pending, InTick, Times,
     environment, window
<1>1. TypeOK'
  BY DEF IInv, TypeOK, TickFails, Fire, environment, reloading
<1>2. TimeInv'
  BY <1>0 DEF IInv, TypeOK, TickFails, TimeInv, Starting, InTick, environment, reloading,
     window, reporting
<1>3. TriggerInv'
  BY <1>0 DEF IInv, TypeOK, TickFails, Fire, TriggerInv, Used, environment
<1>4. CoveredInv'
  <2>1. \A i \in Items : \A d \in Times : fires[i][d] > 0 => fires'[i][d] > 0
    BY DEF TickFails, Fire, IInv, TypeOK
  <2> QED
    BY <2>1, SchedulerAssumption DEF TickFails, reloading, window, IInv, TypeOK, CoveredInv,
       NothingMissed, Started, environment
<1>5. ReportInv'
  BY DEF IInv, TypeOK, TickFails, ReportInv, Reporting, reloading
<1>6. HistoryInv'
  <2> SUFFICES ASSUME gui = TRUE PROVE HistoryInv'
    BY DEF IInv, TypeOK, HistoryInv, TickFails, environment, Reporting, reloading
  <2>1. \A q \in Runs : reports[q] + Pending <= failures + setbacks + reschedules + 1
    BY <1>0 DEF IInv, TypeOK, HistoryInv, Reporting, reloading
  <2>2. \A q \in Runs :
           reports'[q] + Pending'
                <= failures' + setbacks' + reschedules' + (IF Reported(q)' THEN 1 ELSE 0)
    BY <1>0, <2>1 DEF IInv, TypeOK, TickFails, environment, reloading
  <2> QED
    BY <2>2 DEF HistoryInv, TickFails, Reporting, reloading
<1>7. BufferInv'
  BY DEF IInv, TypeOK, TickFails, BufferInv, environment
<1> QED
  BY <1>1, <1>2, <1>3, <1>4, <1>5, <1>6, <1>7 DEF IInv

LEMMA TimePassesKeepsIInv == ASSUME IInv, TimePasses PROVE IInv'
<1>0. Pending \in Nat /\ Pending' \in Nat /\ Pending' <= Pending
  BY PendingIs, SchedulerAssumption DEF IInv, TypeOK, TimePasses, Pending, InTick, Times,
     environment, window
<1>1. TypeOK'
  BY SchedulerAssumption DEF IInv, TypeOK, TimePasses, reloading, window, reporting, Times
<1>2. TimeInv'
  BY <1>0 DEF IInv, TypeOK, TimePasses, TimeInv, environment, reloading, window, Times
<1>3. TriggerInv'
  BY <1>0 DEF IInv, TypeOK, TimePasses, TriggerInv, Used, environment, window
<1>4. CoveredInv'
  BY DEF IInv, TypeOK, TimePasses, CoveredInv, NothingMissed, Covered, Started, environment,
     reloading, window
<1>5. ReportInv'
  BY DEF IInv, TypeOK, TimePasses, ReportInv, IsDue, window, reporting, Reporting, reloading
<1>6. HistoryInv'
  BY <1>0 DEF IInv, TypeOK, TimePasses, HistoryInv, Reported, InWindow, window, reporting,
     Reporting, reloading
<1>7. BufferInv'
  BY DEF IInv, TypeOK, TimePasses, BufferInv, environment, reporting
<1> QED
  BY <1>1, <1>2, <1>3, <1>4, <1>5, <1>6, <1>7 DEF IInv

LEMMA ClockGoesBackKeepsIInv == ASSUME IInv, ClockGoesBack PROVE IInv'
<1>0. Pending \in Nat /\ Pending' \in Nat /\ Pending' <= Pending + 1
  BY PendingIs, SchedulerAssumption DEF IInv, TypeOK, ClockGoesBack, Pending, InTick, Times,
     environment, window
<1>1. TypeOK'
  BY SchedulerAssumption DEF IInv, TypeOK, ClockGoesBack, reloading, window, reporting, Times
<1>2. TimeInv'
  BY <1>0 DEF IInv, TypeOK, ClockGoesBack, TimeInv, environment, reloading, window, Times
<1>3. TriggerInv'
  BY <1>0 DEF IInv, TypeOK, ClockGoesBack, TriggerInv, Used, environment, window
<1>4. CoveredInv'
  BY DEF IInv, TypeOK, ClockGoesBack, CoveredInv, NothingMissed, Covered, Started, environment,
     reloading, window
<1>5. ReportInv'
  BY DEF IInv, TypeOK, ClockGoesBack, ReportInv, IsDue, window, reporting, Reporting, reloading
<1>6. HistoryInv'
  BY <1>0 DEF IInv, TypeOK, ClockGoesBack, HistoryInv, Reported, InWindow, window, reporting,
     Reporting, reloading
<1>7. BufferInv'
  BY DEF IInv, TypeOK, ClockGoesBack, BufferInv, environment, reporting
<1> QED
  BY <1>1, <1>2, <1>3, <1>4, <1>5, <1>6, <1>7 DEF IInv

LEMMA EditKeepsIInv == ASSUME IInv, NEW c \in Configs, Edit(c) PROVE IInv'
<1>0. Pending \in Nat /\ Pending' \in Nat /\ Pending' = Pending
  BY PendingIs, PendingKept DEF IInv, Edit, InTick, environment, window
<1>1. TypeOK'
  BY DEF IInv, TypeOK, Edit, reloading, window, reporting
<1>2. TimeInv'
  BY <1>0 DEF IInv, TypeOK, Edit, TimeInv, environment, reloading, window
<1>3. TriggerInv'
  BY <1>0 DEF IInv, TypeOK, Edit, TriggerInv, Used, environment, window
<1>4. CoveredInv'
  BY DEF IInv, TypeOK, Edit, CoveredInv, NothingMissed, Covered, Started, environment,
     reloading, window
<1>5. ReportInv'
  BY DEF IInv, TypeOK, Edit, ReportInv, IsDue, window, reporting, Reporting, reloading
<1>6. HistoryInv'
  BY <1>0 DEF IInv, TypeOK, Edit, HistoryInv, Reported, InWindow, window, reporting,
     Reporting, reloading
<1>7. BufferInv'
  BY DEF IInv, TypeOK, Edit, BufferInv, environment, reporting
<1> QED
  BY <1>1, <1>2, <1>3, <1>4, <1>5, <1>6, <1>7 DEF IInv

LEMMA VanishOrReturnKeepsIInv == ASSUME IInv, VanishOrReturn PROVE IInv'
<1>0. Pending \in Nat /\ Pending' \in Nat /\ Pending' = Pending
  BY PendingIs, PendingKept DEF IInv, VanishOrReturn, InTick, environment, window
<1>1. TypeOK'
  BY DEF IInv, TypeOK, VanishOrReturn, reloading, window, reporting
<1>2. TimeInv'
  BY <1>0 DEF IInv, TypeOK, VanishOrReturn, TimeInv, environment, reloading, window
<1>3. TriggerInv'
  BY <1>0 DEF IInv, TypeOK, VanishOrReturn, TriggerInv, Used, environment, window
<1>4. CoveredInv'
  BY DEF IInv, TypeOK, VanishOrReturn, CoveredInv, NothingMissed, Covered, Started,
     environment, reloading, window
<1>5. ReportInv'
  BY DEF IInv, TypeOK, VanishOrReturn, ReportInv, IsDue, window, reporting, Reporting, reloading
<1>6. HistoryInv'
  BY <1>0 DEF IInv, TypeOK, VanishOrReturn, HistoryInv, Reported, InWindow, window, reporting,
     Reporting, reloading
<1>7. BufferInv'
  BY DEF IInv, TypeOK, VanishOrReturn, BufferInv, environment, reporting
<1> QED
  BY <1>1, <1>2, <1>3, <1>4, <1>5, <1>6, <1>7 DEF IInv

LEMMA RunFinishesKeepsIInv == ASSUME IInv, NEW r \in Runs, RunFinishes(r) PROVE IInv'
<1>0. Pending \in Nat /\ Pending' \in Nat /\ Pending' = Pending
  BY PendingIs, PendingKept DEF IInv, RunFinishes, InTick, environment, window
<1>1. TypeOK'
  BY DEF IInv, TypeOK, RunFinishes, environment, reloading, window, Times
<1>2. TimeInv'
  BY <1>0 DEF IInv, TypeOK, RunFinishes, TimeInv, environment, reloading, window, reporting
<1>3. TriggerInv'
  BY <1>0 DEF IInv, TypeOK, RunFinishes, TriggerInv, Used, window, environment
<1>4. CoveredInv'
  BY DEF IInv, TypeOK, RunFinishes, CoveredInv, NothingMissed, Covered, Started, reloading,
     window,
     environment
<1>5. ReportInv'
  BY DEF IInv, TypeOK, RunFinishes, ReportInv, IsDue, environment, window, Reporting, reloading
<1>6. HistoryInv'
  <2> SUFFICES ASSUME gui = TRUE PROVE HistoryInv'
    BY DEF IInv, TypeOK, HistoryInv, RunFinishes, environment, Reporting, reloading
  <2>1. \A q \in Runs : Reported(q) => Reported(q)'
    BY DEF IInv, TypeOK, RunFinishes, Reported, window, Reporting, reloading
  <2>2. \A q \in gathered : InWindow(q, now)'
    <3>1. \A q \in gathered : InWindow(q, now) /\ q \in Runs
      BY DEF IInv, TypeOK, HistoryInv, Reporting, reloading
    <3> QED
      BY <3>1 DEF IInv, TypeOK, RunFinishes, InWindow, window, Reporting, reloading
  <2>3. \A q \in Runs :
           reports[q] + Pending
                <= failures + setbacks + reschedules + (IF Reported(q)' THEN 1 ELSE 0)
    <3>1. \A q \in Runs :
             reports[q] + Pending
                  <= failures + setbacks + reschedules + (IF Reported(q) THEN 1 ELSE 0)
      BY DEF IInv, HistoryInv, Reporting, reloading
    <3> QED
      BY <1>0, <2>1, <3>1 DEF IInv, TypeOK
  <2> QED
    BY <1>0, <2>2, <2>3 DEF HistoryInv, RunFinishes, environment, Reporting, reloading
<1>7. BufferInv'
  BY DEF IInv, TypeOK, RunFinishes, BufferInv, environment, Times
<1> QED
  BY <1>1, <1>2, <1>3, <1>4, <1>5, <1>6, <1>7 DEF IInv

LEMMA StoreRunKeepsIInv == ASSUME IInv, NEW r \in Runs, StoreRun(r) PROVE IInv'
<1>0. Pending \in Nat /\ Pending' \in Nat /\ Pending' = Pending
  BY PendingIs, PendingKept DEF IInv, StoreRun, InTick, environment, window
<1>1. TypeOK'
  BY DEF IInv, TypeOK, StoreRun, environment, reloading, window
<1>2. TimeInv'
  BY <1>0 DEF IInv, TypeOK, StoreRun, TimeInv, environment, reloading, window, reporting
<1>3. TriggerInv'
  BY <1>0 DEF IInv, TypeOK, StoreRun, TriggerInv, Used, window, environment
<1>4. CoveredInv'
  BY DEF IInv, TypeOK, StoreRun, CoveredInv, NothingMissed, Covered, Started, reloading, window,
     environment
<1>5. ReportInv'
  BY DEF IInv, TypeOK, StoreRun, ReportInv, IsDue, environment, window, Reporting, reloading
<1>6. HistoryInv'
  BY <1>0 DEF IInv, TypeOK, StoreRun, HistoryInv, Reported, InWindow, environment, window,
     Reporting, reloading
<1>7. BufferInv'
  BY DEF IInv, TypeOK, StoreRun, BufferInv, environment
<1> QED
  BY <1>1, <1>2, <1>3, <1>4, <1>5, <1>6, <1>7 DEF IInv

LEMMA StutterKeepsIInv == ASSUME IInv, UNCHANGED vars PROVE IInv'
  BY DEF IInv, TypeOK, TimeInv, TriggerInv, Used, CoveredInv, Covered, NothingMissed,
     Started, ReportInv, HistoryInv, BufferInv, Reported, IsDue, InWindow, vars, Pending,
     InTick, Starting, environment, reloading, window, reporting, Reporting

LEMMA NextKeepsIInv == IInv /\ [Next]_vars => IInv'
<1> SUFFICES ASSUME IInv, [Next]_vars PROVE IInv'
  OBVIOUS
<1>1. CASE LoopStep
  BY <1>1, LoadForStartKeepsIInv, ConstructKeepsIInv, EnterLoopKeepsIInv,
     BeginTickKeepsIInv, DigestKeepsIInv, ParseKeepsIInv, CheckKeepsIInv, QueryKeepsIInv,
     SendKeepsIInv, TriggerKeepsIInv, EndTickKeepsIInv, TickFailsKeepsIInv DEF LoopStep
<1>2. CASE TimePasses \/ ClockGoesBack \/ VanishOrReturn
  BY <1>2, TimePassesKeepsIInv, ClockGoesBackKeepsIInv, VanishOrReturnKeepsIInv
<1>3. ASSUME NEW c \in Configs, Edit(c) PROVE IInv'
  BY <1>3, EditKeepsIInv
<1>4. ASSUME NEW r \in Runs, RunFinishes(r) \/ StoreRun(r) PROVE IInv'
  BY <1>4, RunFinishesKeepsIInv, StoreRunKeepsIInv
<1>5. CASE UNCHANGED vars
  BY <1>5, StutterKeepsIInv
<1> QED
  BY <1>1, <1>2, <1>3, <1>4, <1>5 DEF Next

LEMMA InitEstablishesIInv == Init => IInv
<1> SUFFICES ASSUME Init PROVE IInv
  OBVIOUS
<1>1. TypeOK
  <2>1. clock \in Times
    BY SchedulerAssumption DEF Init, Times
  <2>2. config \in Configs /\ file \in [there : BOOLEAN, mtime : Nat, content : Configs]
    BY SchedulerAssumption DEF Init
  <2>3. seen \in Look /\ look \in Look
    BY DEF Init, Look, Unseen
  <2> QED
    BY <2>1, <2>2, <2>3, SchedulerAssumption DEF Init, TypeOK
<1>2. TimeInv
  BY SchedulerAssumption DEF Init, TimeInv, Starting, Pending, InTick, Times
<1>3. TriggerInv
  BY SchedulerAssumption DEF Init, TriggerInv, Pending, InTick, Times
<1>4. CoveredInv
  BY SchedulerAssumption DEF Init, CoveredInv, NothingMissed, Times
<1>5. ReportInv
  BY DEF Init, ReportInv, Reporting, reloading
<1>6. HistoryInv
  BY SchedulerAssumption DEF Init, HistoryInv, Pending, InTick, Times, Reporting, reloading
<1>7. BufferInv
  BY DEF Init, BufferInv
<1> QED
  BY <1>1, <1>2, <1>3, <1>4, <1>5, <1>6, <1>7 DEF IInv

\* The inductive invariant, for any constants that satisfy SchedulerAssumption.
THEOREM InductiveInvariant == Spec => []IInv
<1>1. Init => IInv
  BY InitEstablishesIInv
<1>2. IInv /\ [Next]_vars => IInv'
  BY NextKeepsIInv
<1> QED
  BY <1>1, <1>2, PTL DEF Spec

-----------------------------------------------------------------------------

\* Every variable of the scheduler keeps to its type.
THEOREM TypeCorrect == Spec => []TypeOK
<1>1. IInv => TypeOK
  BY DEF IInv
<1> QED
  BY <1>1, InductiveInvariant, PTL

\* The due windows of successful ticks never overlap: no instant starts an item twice
\* unless ticks failed or the clock was set back.
THEOREM InstantsTriggerOnce == Spec => []TriggeredOnce
<1>1. IInv => TriggeredOnce
  BY PendingIs DEF IInv, TypeOK, TriggerInv, TriggeredOnce
<1> QED
  BY <1>1, InductiveInvariant, PTL

\* The due windows leave no gap: no instant that a tick has passed is swallowed, not
\* by a clock that is set back either.
THEOREM NoInstantIsMissed == Spec => []NothingMissed
<1>1. IInv => NothingMissed
  BY DEF IInv, CoveredInv
<1> QED
  BY <1>1, InductiveInvariant, PTL

\* With history, a run is in a second delivered report only through a failed tick, a
\* clock that was set back or a reload that changed the schedule of the report, and once
\* for each of them; without history (buffer) it is never in a second one.
THEOREM RunsAreReportedOnce == Spec => []ReportedOnce
<1>1. IInv => ReportedOnce
  <2> SUFFICES ASSUME IInv, NEW r \in Runs
               PROVE  reports[r] <= 1 + (IF gui THEN failures + setbacks + reschedules ELSE 0)
    BY DEF ReportedOnce
  <2>1. /\ reports[r] \in Nat /\ failures \in Nat /\ setbacks \in Nat /\ Pending \in Nat
        /\ reschedules \in Nat
        /\ gui \in BOOLEAN
    BY PendingIs DEF IInv, TypeOK
  <2>2. CASE gui
    BY <2>1, <2>2 DEF IInv, HistoryInv
  <2>3. CASE ~gui
    BY <2>1, <2>3 DEF IInv, BufferInv
  <2> QED
    BY <2>2, <2>3
<1> QED
  BY <1>1, InductiveInvariant, PTL
-----------------------------------------------------------------------------
(* The configuration file.                                                 *)

Active == IF file.content \in Valid THEN config = file.content /\ ~reloadError ELSE reloadError

\* A time stamp is never ahead of the file, and one that is equal belongs to what the
\* file contains: every write has a time stamp of its own.  What the scheduler has
\* recorded is in force even while the file is out of reach.
FileInv ==
    /\ 1 <= file.mtime /\ seen.mtime <= file.mtime /\ look.mtime <= file.mtime
    /\ pc = "parse" /\ look.mtime = file.mtime
          => look.digest = IF file.there THEN file.content ELSE NoDigest
    /\ pc \in {"load", "construct"} => reloadError = FALSE
    /\ pc = "construct" => file.content = config /\ config \in Valid
    /\ pc \notin {"load", "construct"} /\ seen = Written => Active

LEMMA NextKeepsFileInv ==
    ASSUME Exposed = {}, TypeOK, FileInv, [Next]_vars
    PROVE  FileInv'
<1> USE DEF TypeOK, FileInv, Active, Written
<1>1. CASE LoadForStart
  BY <1>1 DEF LoadForStart, environment
<1>2. CASE Construct
  BY <1>2 DEF Construct, environment
<1>3. CASE BeginTick
  BY <1>3 DEF BeginTick, environment, Unseen, Look
<1>4. CASE Digest
  BY <1>4 DEF Digest, environment, Unseen, Look
<1>5. CASE Parse
  BY <1>5, SchedulerAssumption DEF Parse, NewConfig, environment, Unseen, Look
<1>6. CASE EnterLoop \/ Check \/ Query \/ Send \/ Trigger \/ EndTick \/ TickFails
  BY <1>6 DEF EnterLoop, Check, Query, Send, Trigger, EndTick, TickFails, environment, reloading
<1>7. CASE TimePasses \/ ClockGoesBack \/ UNCHANGED vars
  BY <1>7 DEF TimePasses, ClockGoesBack, vars, environment, reloading
<1>8. ASSUME NEW c \in Configs, Edit(c) PROVE FileInv'
  BY <1>8 DEF Edit, MayWrite, reloading, Look
<1>9. CASE VanishOrReturn
  BY <1>9 DEF VanishOrReturn, MayHide, MayWrite, reloading
<1>10. ASSUME NEW r \in Runs, RunFinishes(r) \/ StoreRun(r) PROVE FileInv'
  BY <1>10 DEF RunFinishes, StoreRun, environment, reloading
<1> QED
  BY <1>1, <1>2, <1>3, <1>4, <1>5, <1>6, <1>7, <1>8, <1>9, <1>10 DEF Next, LoopStep

\* When the file does not change between the first load and __init__, and does not
\* become unreachable between digest and load, no change of it is overlooked.
THEOREM NoChangeIsOverlooked ==
    ASSUME Exposed = {}
    PROVE  Spec => []NothingOverlooked
<1>1. Init => FileInv
  BY DEF Init, FileInv, Unseen
<1>2. TypeOK /\ FileInv /\ [Next]_vars => FileInv'
  BY NextKeepsFileInv
<1>3. FileInv => NothingOverlooked
  BY DEF FileInv, Active, NothingOverlooked
<1> QED
  BY <1>1, <1>2, <1>3, TypeCorrect, PTL DEF Spec
=============================================================================
