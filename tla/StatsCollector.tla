--------------------------- MODULE StatsCollector ----------------------------
(* The collection of snapshots and statistics of restic repositories         *)
(* (services/backup_stats_collector.py) into the tables of ArtifactStore.    *)
(*                                                                           *)
(* A run holds the resource lock of the repository that its backup had in    *)
(* the configuration when it was started, while it backs up, forgets and     *)
(* prunes, and while the collector is called for each of these substeps; a   *)
(* refresh from the web interface collects without any lock.  Every restic   *)
(* command of a collection looks its repository up in the configuration that *)
(* is active then, so that an edit redirects it.  Between the commands and   *)
(* the transactions everything else goes on: other collections, deletions    *)
(* and mergers of locations, and what is done to the repositories outside of *)
(* Dockkeep.  (The lock per backup around the store calls is left out: calls *)
(* for different backups of one repository do not share it.)                 *)
EXTENDS ArtifactStore, Sequences

CONSTANTS Keys,        \* canonical locations of repositories
          Backups,     \* backups of the configuration
          Runs,        \* operational runs, each with one repository
          Refreshes,   \* refreshes
          Plans,       \* substeps of a run: sequences of backup, retention, cleanup
          MaxSnaps,    \* bound: snapshots
          MaxIds,      \* bound: repository ids
          MaxChanges,  \* bound: failures and changes from outside
          MaxAtOnce    \* bound: calls under way

Calls == Runs \union Refreshes
Substeps == {"backup", "retention", "cleanup"}
ASSUME CollectorAssumption ==
    /\ Runs \intersect Refreshes = {} /\ NoRun \notin Runs
    /\ Plans \subseteq Seq(Substeps)

VARIABLES repo,        \* [key |-> [id, snaps]]: the restic repositories
          config,      \* config.toml: the repository of every backup
          made,        \* the runs that made snapshots 1, 2, ...
          ids,         \* repository ids so far
          db,          \* the tables
          calls,       \* runs and refreshes
          strayed,     \* runs of which a command went to a repository they had not locked
          days,        \* for every day, the snapshots older than DK_APPDATA_RETENTION_DAYS
          changes      \* failures and other changes so far
outside == <<repo, made, ids, config, days>>
vars == <<outside, db, calls, strayed, changes>>

\* configured_repository_location_keys
Configured == {config[b] : b \in Backups}
Today == Len(days)

Unread == [known |-> FALSE, keys |-> {}]
Idle == [at |-> "idle", backup |-> "none", locked |-> "none", plan |-> << >>, todo |-> << >>,
         id |-> 0, key |-> "none", stats |-> FALSE, snaps |-> {}, ok |-> TRUE, day |-> 0,
         row |-> 0, changed |-> FALSE, due |-> FALSE, protected |-> Unread, exact |-> FALSE]

Trigger(c) == IF c \in Refreshes THEN "refresh" ELSE Head(calls[c].todo)
CollectsStats(c) == Trigger(c) \in {"backup", "cleanup", "refresh"}
Lists(c) == Trigger(c) \in {"backup", "retention", "refresh"}
OnlyLatest(c) == Trigger(c) = "backup"

\* Runs that hold the resource lock of a repository.
\* Mutant: the lock is given up before the collection.
Holders_Operating(key) == {r \in Runs : calls[r].at = "operate" /\ calls[r].locked = key}
Holders(key) == {r \in Runs : calls[r].at \notin {"idle", "over"} /\ calls[r].locked = key}

Busy == Cardinality({c \in Calls : calls[c].at \notin {"idle", "over"}})

Go(c, at) == calls' = [calls EXCEPT ![c].at = at]
\* A collection ends: the next substep of the run, or the end and the lock's release.
Ended(call) ==
    IF Len(call.todo) > 1
    THEN [Idle EXCEPT !.at = "identify", !.backup = call.backup, !.locked = call.locked,
                      !.todo = Tail(call.todo)]
    ELSE [Idle EXCEPT !.at = "over"]
EndCollection(c) == calls' = [calls EXCEPT ![c] = Ended(@)]

\* A failure or a change from outside, or none when ok.
Disturb(ok) ==
    /\ ok \/ changes < MaxChanges
    /\ changes' = IF ok THEN changes ELSE changes + 1
Change == Disturb(FALSE)

InitialTables ==
    /\ ids = 1
    /\ made = <<NoRun>>
    /\ repo = [k \in Keys |-> [id |-> 1, snaps |-> {1}]]
    /\ db = Empty
    /\ config \in [Backups -> Keys]
    /\ days = <<{}>>

Init ==
    /\ InitialTables
    /\ calls = [c \in Calls |-> Idle] /\ strayed = {}
    /\ changes = 0

\* What a call has listed of a repository is no longer what is there.
Overtake(cs, key) ==
    [c \in Calls |-> IF cs[c].key = key THEN [cs[c] EXCEPT !.exact = FALSE] ELSE cs[c]]

(***************************************************************************)
(* Operations of a run.                                                    *)
(***************************************************************************)
StartRun(r) ==
    /\ calls[r].at = "idle" /\ Busy < MaxAtOnce
    /\ \E b \in Backups, plan \in Plans :
         /\ Holders(config[b]) = {}
         /\ calls' = [calls EXCEPT ![r] = [Idle EXCEPT !.at = "operate", !.backup = b,
                                                       !.locked = config[b], !.plan = plan]]
    /\ UNCHANGED <<outside, db, strayed, changes>>

StartRefresh(f) ==
    /\ calls[f].at = "idle" /\ Busy < MaxAtOnce
    /\ \E b \in Backups :
         calls' = [calls EXCEPT ![f] = [Idle EXCEPT !.at = "identify", !.backup = b]]
    /\ UNCHANGED <<outside, db, strayed, changes>>

\* The next substep is done; it will be collected.
Performed(r, cs) == [cs EXCEPT ![r].plan = Tail(@), ![r].todo = Append(@, Head(cs[r].plan))]

\* It may make no snapshot (--skip-if-unchanged).
BackUp(r) ==
    /\ calls[r].at = "operate" /\ calls[r].plan # << >> /\ Head(calls[r].plan) = "backup"
    /\ \/ UNCHANGED <<made, repo>> /\ calls' = Performed(r, calls)
       \/ /\ Len(made) < MaxSnaps
          /\ made' = Append(made, r)
          /\ repo' = [repo EXCEPT ![calls[r].locked].snaps = @ \union {Len(made')}]
          /\ calls' = Overtake(Performed(r, calls), calls[r].locked)
    /\ UNCHANGED <<ids, db, config, strayed, days, changes>>

\* Every policy keeps the newest snapshot.
Forget(r) ==
    /\ calls[r].at = "operate" /\ calls[r].plan # << >> /\ Head(calls[r].plan) = "retention"
    /\ LET here == repo[calls[r].locked].snaps
       IN  \E gone \in SUBSET here :
             /\ here # {} => Newest(here) \notin gone
             /\ repo' = [repo EXCEPT ![calls[r].locked].snaps = here \ gone]
    /\ calls' = Overtake(Performed(r, calls), calls[r].locked)
    /\ UNCHANGED <<made, ids, db, config, strayed, days, changes>>

CleanUp(r) ==
    /\ calls[r].at = "operate" /\ calls[r].plan # << >> /\ Head(calls[r].plan) = "cleanup"
    /\ calls' = Performed(r, calls)
    /\ UNCHANGED <<outside, db, strayed, changes>>

\* All is done, or a substep has failed: what succeeded is collected.
Operated(r) ==
    /\ calls[r].at = "operate"
    /\ Disturb(calls[r].plan = << >>)
    /\ calls' = [calls EXCEPT ![r] = IF @.todo = << >> THEN [Idle EXCEPT !.at = "over"]
                                     ELSE [@ EXCEPT !.at = "identify", !.plan = << >>]]
    /\ UNCHANGED <<outside, db, strayed>>

(***************************************************************************)
(* A collection.                                                           *)
(***************************************************************************)
Collecting(c, at) == calls[c].at = at /\ UNCHANGED outside

\* A restic command of c runs at the repository that its backup has in the configuration
\* now.  It may fail with an error, which its result tells; it raises when the
\* configuration cannot be read or no longer has the backup, which ends the collection.
Target(c) == config[calls[c].backup]
Command(c, outcome) ==
    /\ Disturb(outcome = "ok")
    /\ strayed' = IF c \in Runs /\ Target(c) # calls[c].locked THEN strayed \union {c} ELSE strayed

\* restic cat config: without an id there is nothing to collect for.
Identify(c) ==
    /\ Collecting(c, "identify")
    /\ \E outcome \in {"ok", "raised"} :
         /\ Command(c, outcome)
         /\ IF outcome = "ok"
            THEN calls' = [calls EXCEPT ![c].id = repo[Target(c)].id,
                             ![c].at = IF CollectsStats(c) THEN "stats" ELSE "list"]
            ELSE EndCollection(c)
    /\ UNCHANGED db

\* restic stats: the observation is for the location where it ran.
Stats(c) ==
    /\ Collecting(c, "stats")
    /\ \E outcome \in {"ok", "error", "raised"} :
         /\ Command(c, outcome)
         /\ IF outcome = "raised" THEN EndCollection(c)
            ELSE calls' = [calls EXCEPT ![c].key = Target(c), ![c].stats = (outcome = "ok"),
                                        ![c].at = "list"]
    /\ UNCHANGED db

Listed(c, latest) ==
    LET here == repo[Target(c)].snaps
    IN  IF latest /\ here # {} THEN {Newest(here)} ELSE here

\* Nothing usable: a retention without its list, or neither statistics nor snapshots.
Useless(c, ok, snaps) ==
    \/ Trigger(c) = "retention" /\ ~ ok
    \/ ~ calls[c].stats /\ snaps = {} /\ ~ (Trigger(c) = "backup" /\ ok)

\* restic snapshots, only the latest for a backup.  Then the time stamp is taken.
List(c) ==
    /\ Collecting(c, "list") /\ Lists(c)
    /\ \E outcome \in {"ok", "error", "raised"} :
         LET ok    == outcome = "ok"
             snaps == IF ok THEN Listed(c, OnlyLatest(c)) ELSE {}
             key   == IF CollectsStats(c) THEN calls[c].key ELSE Target(c)
         IN  /\ Command(c, outcome)
             /\ IF outcome = "raised" \/ Useless(c, ok, snaps) THEN EndCollection(c)
                ELSE calls' = [calls EXCEPT ![c].key = key, ![c].snaps = snaps, ![c].ok = ok,
                                 ![c].exact = ok /\ key = Target(c),
                                 ![c].day = Today, ![c].at = "resolve"]
    /\ UNCHANGED db

\* A cleanup does without a list, and takes this for a list that was read.
ListNothing(c) ==
    /\ Collecting(c, "list") /\ ~ Lists(c)
    /\ IF Useless(c, TRUE, {}) THEN EndCollection(c)
       ELSE calls' = [calls EXCEPT ![c].day = Today, ![c].at = "resolve"]
    /\ UNCHANGED <<db, strayed, changes>>

\* resolve_observed_location reads the location in a connection of its own ...
Resolve(c) ==
    /\ Collecting(c, "resolve")
    /\ LET known == LocationsOfKey(db, calls[c].key)
       IN  IF known # {} /\ LocationOf(db, calls[c].key).repo = calls[c].id THEN Go(c, "due")
           ELSE calls' = [calls EXCEPT ![c].at = "rebind",
                            ![c].row = IF known = {} THEN 0 ELSE LocationOf(db, calls[c].key).repo]
    /\ UNCHANGED <<db, strayed, changes>>

\* ... and writes in a transaction that follows.
Rebound(c) ==
    /\ Collecting(c, "rebind")
    /\ LET call == calls[c]
       IN  IF call.row = 0
           THEN db' = NewLocation(db, call.key, call.id) /\ Go(c, "due")
           ELSE /\ db' = Rebind(db, call.key, call.id, call.row)
                /\ calls' = [calls EXCEPT ![c].changed = TRUE, ![c].row = 0,
                                          ![c].at = IF OnlyLatest(c) THEN "relist" ELSE "due"]
    /\ UNCHANGED <<strayed, changes>>

\* The whole list of a repository that is new at its location.
Relist(c) ==
    /\ Collecting(c, "relist")
    /\ \E outcome \in {"ok", "error", "raised"} :
         LET ok == outcome = "ok"
         IN  /\ Command(c, outcome)
             /\ IF outcome = "raised" THEN EndCollection(c)
                ELSE calls' = [calls EXCEPT ![c].snaps = IF ok THEN Listed(c, FALSE) ELSE {},
                                 ![c].ok = ok, ![c].exact = ok /\ calls[c].key = Target(c),
                                 ![c].at = "due"]
    /\ UNCHANGED db

\* Before the retention of the day the protected locations are read from the
\* configuration; when it is not due, only the own location is protected.
CheckDue(c) ==
    /\ Collecting(c, "due")
    /\ \E readable \in BOOLEAN :
         LET due == RetentionIsDue(db, calls[c].id, calls[c].day)
         IN  /\ due \/ readable
             /\ Disturb(readable)
             /\ calls' = [calls EXCEPT
                  ![c].at = "persist", ![c].due = due,
                  ![c].protected = IF due /\ ~ readable THEN Unread
                                   ELSE [known |-> TRUE,
                                         keys |-> IF due THEN Configured ELSE {calls[c].key}]]
    /\ UNCHANGED <<db, strayed>>

\* Mutant: a list that could not be read counts as an empty one.
Full_Unread(c) == Trigger(c) \in {"refresh", "retention"} \/ calls[c].changed
Full(c) == calls[c].ok /\ (Trigger(c) \in {"refresh", "retention"} \/ calls[c].changed)
Observation(c) ==
    [repo |-> calls[c].id, key |-> calls[c].key, trigger |-> Trigger(c),
     run |-> IF c \in Refreshes THEN NoRun ELSE c,
     snaps |-> IF calls[c].ok THEN calls[c].snaps ELSE {},
     full |-> Full(c), stats |-> calls[c].stats]

Persists(c) ==
    /\ Collecting(c, "persist")
    /\ db' = Persist(db, Observation(c), calls[c].protected, days[calls[c].day], calls[c].day)
    /\ EndCollection(c)
    /\ UNCHANGED <<strayed, changes>>

\* A transaction fails.  (A restic command that fails or is broken off is above.)
Breaks(c) ==
    /\ calls[c].at \in {"rebind", "persist"}
    /\ Change
    /\ EndCollection(c)
    /\ UNCHANGED <<outside, db, strayed>>

Collect(c) ==
    \/ Identify(c) \/ Stats(c) \/ List(c) \/ ListNothing(c) \/ Resolve(c) \/ Rebound(c)
    \/ Relist(c) \/ CheckDue(c) \/ Persists(c) \/ Breaks(c)

(***************************************************************************)
(* Everything else.                                                        *)
(***************************************************************************)
\* From the web interface, without a lock.
RemoveLocation ==
    /\ Change
    /\ \E l \in db.locations : db' = DeleteLocation(db, l)
    /\ UNCHANGED <<outside, calls, strayed>>
Merge ==
    /\ Change
    /\ \E s, t \in db.locations : s # t /\ s.repo = t.repo /\ db' = MergeLocation(db, s, t)
    /\ UNCHANGED <<outside, calls, strayed>>

\* A repository is created anew, or replaced by a copy of another one.
Recreate ==
    /\ Change
    /\ ids < MaxIds
    /\ ids' = ids + 1
    /\ \E k \in Keys :
         /\ Holders(k) = {}
         /\ repo' = [repo EXCEPT ![k] = [id |-> ids', snaps |-> {}]]
         /\ calls' = Overtake(calls, k)
    /\ UNCHANGED <<made, db, config, strayed, days>>
Copy ==
    /\ Change
    /\ \E k, from \in Keys :
         /\ Holders(k) \union Holders(from) = {} /\ repo[k] # repo[from]
         /\ repo' = [repo EXCEPT ![k] = repo[from]]
         /\ calls' = Overtake(calls, k)
    /\ UNCHANGED <<made, ids, db, config, strayed, days>>

\* config.toml is edited.
Reconfigure ==
    /\ Change
    /\ config' \in [Backups -> Keys] \ {config}
    /\ UNCHANGED <<repo, made, ids, db, calls, strayed, days>>

NewDay ==
    /\ Change
    /\ days' = Append(days, 1 .. Len(made))
    /\ UNCHANGED <<repo, made, ids, db, calls, config, strayed>>

Next ==
    \/ \E r \in Runs : StartRun(r) \/ BackUp(r) \/ Forget(r) \/ CleanUp(r) \/ Operated(r)
    \/ \E f \in Refreshes : StartRefresh(f)
    \/ \E c \in Calls : Collect(c)
    \/ RemoveLocation \/ Merge \/ Recreate \/ Copy \/ Reconfigure \/ NewDay

Spec == Init /\ [][Next]_vars

(***************************************************************************)
(* Properties.                                                             *)
(***************************************************************************)
PresentAt(d, key) ==
    {r.snap : r \in {x \in d.rows : x.present /\ \E l \in LocationsOfKey(d, key) : l.id = x.loc}}

\* A reconciliation leaves its location with exactly the snapshots that are in the
\* repository there, if this has not changed since it was listed.  For a run that is so:
\* it holds the lock, unless an edit of the configuration has led one of its commands to
\* another repository.  Neither a change of identity nor retention interferes, but
\* retention may remove the location itself when the configuration no longer names it.
\* A cleanup lists nothing: when it finds another repository at its location, it
\* reconciles with an empty list (Lists leaves that out).
ReconcileIsExact ==
    [][\A c \in Calls :
         (/\ Persists(c) /\ Full(c)
          /\ \/ calls[c].exact
             \/ c \in Runs \ strayed /\ Lists(c)
          /\ calls[c].key \in calls[c].protected.keys \/ ~ calls[c].protected.known)
         => PresentAt(db', calls[c].key) = repo[calls[c].key].snaps]_vars

\* A snapshot is attributed to no other run than the one that made it, whichever
\* collection registers it and in which order.  Excepted are a run of which a command
\* has gone to a repository it had not locked, since the configuration was edited
\* while it was under way; and a run that made no snapshot at all, which is named for
\* the newest one if nobody was before.
SnapshotsKeepTheirRun ==
    \A a \in db.artifacts :
       \/ a.by \in {NoRun, made[a.snap]}
       \/ a.by \in strayed
       \/ \A i \in DOMAIN made : made[i] # a.by

\* Retention removes nothing of a location that the configuration names
\* (README.md:521): what was present at the other configured locations still is.
\* Excepted are a location that the configuration names only since the collection read
\* it; and a retention that was not due when the collection asked and has become due
\* again since, because another collection of another day has done it, or because the
\* last location of the repository was removed: then nothing is protected but the
\* location of the collection itself.
RetentionSparesWhatIsUsed ==
    [][\A c \in Calls :
         Persists(c) =>
           \A k \in Configured \ {calls[c].key} :
              \/ PresentAt(db, k) \subseteq PresentAt(db', k)
              \/ calls[c].due /\ calls[c].protected.known /\ k \notin calls[c].protected.keys
              \/ ~ calls[c].due /\ RetentionIsDue(db, calls[c].id, calls[c].day)]_vars

\* Two locations are merged without losing a snapshot that either of them has,
\* nor a point of the growth of the repository.
Present(d) == {[repo |-> r.repo, snap |-> r.snap] : r \in {x \in d.rows : x.present}}
Growth(d, id) == {p.by : p \in {q \in d.points : q.repo = id}}
MergeLosesNothing ==
    [][\A s, t \in db.locations :
         (/\ Merge /\ s # t /\ s.repo = t.repo
          /\ db' = MergeLocation(db, s, t))
         => Present(db) = Present(db') /\ Growth(db, s.repo) = Growth(db', s.repo)]_vars
=============================================================================
