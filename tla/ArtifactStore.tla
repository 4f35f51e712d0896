---------------------------- MODULE ArtifactStore ----------------------------
(* The tables of appdata.db about restic repositories                        *)
(* (services/repository_artifact_store.py), and its transactions as          *)
(* operators from a database to a database:                                  *)
(*   repositories  restic repository ids                                     *)
(*   locations     [id, key, repo]: where a repository has been seen; key is *)
(*                 unique, ids grow in the order of creation                 *)
(*   artifacts     [repo, snap, by]: a snapshot and the run that made it     *)
(*   rows          [repo, snap, loc, present]: a snapshot at a location,     *)
(*                 there or known to be removed                              *)
(*   points        [repo, loc, by]: statistics of a location                 *)
(*   retained      [repo, day]: the day of the last retention of a repository *)
(* A snapshot is a number; a higher one is newer.                            *)
EXTENDS Naturals, FiniteSets

CONSTANTS LocationLimit,    \* DEFAULT_LOCATION_LIMIT
          RetentionCount,   \* DK_APPDATA_RETENTION_COUNT
          NoRun             \* no run step is linked

ASSUME LimitsAreNumbers == LocationLimit \in Nat /\ RetentionCount \in Nat

Empty == [repositories |-> {}, locations |-> {}, nextId |-> 1, artifacts |-> {}, rows |-> {},
          points |-> {}, retained |-> {}]

LocationsOfKey(db, key) == {l \in db.locations : l.key = key}
LocationOf(db, key) == CHOOSE l \in db.locations : l.key = key
IsPresent(db, a) == \E r \in db.rows : r.repo = a.repo /\ r.snap = a.snap /\ r.present

(***************************************************************************)
(* Deletions, with what the foreign keys take along.                       *)
(***************************************************************************)
DeleteArtifacts(db, gone) ==
    [db EXCEPT !.artifacts = @ \ gone,
               !.rows = {r \in @ : ~ \E a \in gone : a.repo = r.repo /\ a.snap = r.snap}]

DeleteLocations(db, gone) ==
    LET ids == {l.id : l \in gone}
    IN  [db EXCEPT !.locations = @ \ gone,
                   !.rows = {r \in @ : r.loc \notin ids},
                   !.points = {p \in @ : p.loc \notin ids}]

DeleteOrphans(db, repo) ==
    DeleteArtifacts(db, {a \in db.artifacts : a.repo = repo /\ ~ IsPresent(db, a)})

DeleteEmpty(db, repo) ==
    IF \E x \in db.locations \union db.artifacts \union db.points : x.repo = repo THEN db
    ELSE [db EXCEPT !.repositories = @ \ {repo}, !.retained = {x \in @ : x.repo # repo}]

(***************************************************************************)
(* Insertions.                                                             *)
(***************************************************************************)
FindOrCreate(db, repo) == [db EXCEPT !.repositories = @ \union {repo}]

\* A known key keeps the id of its location, whatever repository it belongs to.
UpsertLocation(db, repo, key) ==
    IF LocationsOfKey(db, key) = {}
    THEN [db EXCEPT !.locations = @ \union {[id |-> db.nextId, key |-> key, repo |-> repo]},
                    !.nextId = @ + 1]
    ELSE LET old == LocationOf(db, key)
         IN  [db EXCEPT !.locations = (@ \ {old}) \union {[old EXCEPT !.repo = repo]}]

InsertArtifacts(db, repo, snaps) ==
    [db EXCEPT !.artifacts = @ \union {[repo |-> repo, snap |-> s, by |-> NoRun] :
                                        s \in {t \in snaps : ~ \E a \in @ :
                                                               a.repo = repo /\ a.snap = t}}]

Observe(db, repo, snaps, loc) ==
    [db EXCEPT !.rows = {r \in @ : ~ (r.repo = repo /\ r.snap \in snaps /\ r.loc = loc)}
                          \union [repo : {repo}, snap : snaps, loc : {loc}, present : {TRUE}]]

MarkMissing(db, repo, snaps, loc) ==
    [db EXCEPT !.rows = {IF r.loc = loc /\ ~ (r.repo = repo /\ r.snap \in snaps)
                         THEN [r EXCEPT !.present = FALSE] ELSE r : r \in @}]

Newest(snaps) == CHOOSE s \in snaps : \A t \in snaps : t <= s

\* created_run_step_id is set once.
LinkNewest(db, repo, snaps, run) ==
    [db EXCEPT !.artifacts = {IF a.repo = repo /\ a.snap = Newest(snaps) /\ a.by = NoRun
                              THEN [a EXCEPT !.by = run] ELSE a : a \in @}]

(***************************************************************************)
(* Retention, once a day and repository.  A day is that of the time stamp  *)
(* of the observation, which is taken before its transaction.              *)
(***************************************************************************)
\* Of the locations of the repository that are not protected the newest stay.
\* Mutant: the protected ones are deleted like the others.
PruneLocations_Unprotected(db, repo, protected) ==
    LET ranked == {l \in db.locations : l.repo = repo}
        newer(l) == {m \in ranked : m.id > l.id}
    IN  DeleteLocations(db, {l \in ranked : Cardinality(newer(l)) >= LocationLimit})
PruneLocations(db, repo, protected) ==
    LET ranked == {l \in db.locations : l.repo = repo /\ l.key \notin protected}
        newer(l) == {m \in ranked : m.id > l.id}
    IN  DeleteLocations(db, {l \in ranked : Cardinality(newer(l)) >= LocationLimit})

\* Artifacts of any repository that are present nowhere, too old or too many.
PruneArtifacts(db, old) ==
    LET removable == {a \in db.artifacts : ~ IsPresent(db, a)}
        newer(a)  == {b \in removable : b.snap > a.snap \/ (b.snap = a.snap /\ b.repo > a.repo)}
    IN  DeleteArtifacts(db, {a \in removable :
                               a.snap \in old \/ Cardinality(newer(a)) >= RetentionCount})

RetentionIsDue(db, repo, day) == [repo |-> repo, day |-> day] \notin db.retained

ApplyRetention(db, repo, protected, old, day) ==
    [PruneArtifacts(PruneLocations(db, repo, protected), old) EXCEPT
        !.retained = {x \in @ : x.repo # repo} \union {[repo |-> repo, day |-> day]}]

(***************************************************************************)
(* Transactions.                                                           *)
(***************************************************************************)
\* One observation of a repository at a location: o has the fields repo, key,
\* snaps, full (reconcile), trigger, run, stats.
PersistObservation(db, o) ==
    LET placed  == UpsertLocation(FindOrCreate(db, o.repo), o.repo, o.key)
        loc     == LocationOf(placed, o.key).id
        seen    == Observe(InsertArtifacts(placed, o.repo, o.snaps), o.repo, o.snaps, loc)
        marked  == IF o.full THEN MarkMissing(seen, o.repo, o.snaps, loc) ELSE seen
        linked  == IF o.trigger = "backup" /\ o.snaps # {} /\ o.run # NoRun
                   THEN LinkNewest(marked, o.repo, o.snaps, o.run) ELSE marked
    IN  IF o.trigger # "retention" /\ o.stats
        THEN [linked EXCEPT !.points = @ \union {[repo |-> o.repo, loc |-> loc, by |-> o.run]}]
        ELSE linked

\* protected: [known, keys]; nothing is pruned when the configuration cannot be read.
Persist(db, o, protected, old, day) ==
    LET observed == PersistObservation(db, o)
    IN  IF protected.known /\ RetentionIsDue(observed, o.repo, day)
        THEN ApplyRetention(observed, o.repo, protected.keys, old, day)
        ELSE observed

\* A key now holds another repository than at the last observation, oldRepo.
Rebind(db, key, repo, oldRepo) ==
    LET moved   == DeleteLocations(db, LocationsOfKey(db, key))
        cleared == DeleteEmpty(DeleteOrphans(moved, oldRepo), oldRepo)
    IN  UpsertLocation(FindOrCreate(cleared, repo), repo, key)

NewLocation(db, key, repo) == UpsertLocation(FindOrCreate(db, repo), repo, key)

DeleteLocation(db, l) == DeleteEmpty(DeleteOrphans(DeleteLocations(db, {l}), l.repo), l.repo)

\* Rows of the source go to the target; where both have one it is present when either is.
MoveRows(db, source, target) ==
    LET either(r) == \E s \in db.rows : /\ s.repo = r.repo /\ s.snap = r.snap
                                        /\ s.loc \in {source.id, target.id} /\ s.present
    IN  [db EXCEPT !.rows = {IF r.loc \in {source.id, target.id}
                             THEN [r EXCEPT !.loc = target.id, !.present = either(r)]
                             ELSE r : r \in @}]
MovePoints(db, source, target) ==
    [db EXCEPT !.points = {IF p.loc = source.id /\ p.repo = source.repo
                           THEN [p EXCEPT !.loc = target.id] ELSE p : p \in @}]

\* Mutant: the source is deleted before its rows are moved.
MergeLocation_DeletesFirst(db, source, target) ==
    LET emptied == DeleteLocations(db, {source})
        merged  == MovePoints(MoveRows(emptied, source, target), source, target)
    IN  DeleteEmpty(DeleteOrphans(merged, source.repo), source.repo)
MergeLocation(db, source, target) ==
    LET moved  == MovePoints(MoveRows(db, source, target), source, target)
        merged == DeleteLocations(moved, {source})
    IN  DeleteEmpty(DeleteOrphans(merged, source.repo), source.repo)
=============================================================================
