---------------------------- MODULE CollectorProofs ----------------------------
(***************************************************************************)
(* Proofs about StatsCollector for any number of repositories, runs and    *)
(* refreshes, any plans of the runs and any limits of the store.           *)
(*                                                                         *)
(* First what the transactions of ArtifactStore do to the tables: they     *)
(* keep the keys and ids of locations unique (IsDb), none of them names a  *)
(* run for a snapshot for which it may not be named (Attributed), and      *)
(* those that delete spare what is present.  Then the invariant of the     *)
(* collections: the lock of a run keeps its own snapshot the newest of the *)
(* repository, and what it has listed there the whole of it, as long as no *)
(* edit of the configuration leads its commands to another repository.     *)
(***************************************************************************)
EXTENDS StatsCollector, WellFoundedInduction, SequenceTheorems, TLAPS

Location == [id : Nat, key : Keys, repo : Nat]
Artifact == [repo : Nat, snap : Nat, by : Runs \union {NoRun}]
Row      == [repo : Nat, snap : Nat, loc : Nat, present : BOOLEAN]
Point    == [repo : Nat, loc : Nat, by : Runs \union {NoRun}]
Database == [repositories : SUBSET Nat, locations : SUBSET Location, nextId : Nat,
             artifacts : SUBSET Artifact, rows : SUBSET Row, points : SUBSET Point,
             retained : SUBSET [repo : Nat, day : Nat]]
Identified(locations, next) ==
    /\ \A l, m \in locations : l.key = m.key \/ l.id = m.id => l = m
    /\ \A l \in locations : l.id < next
IsDb(d) == d \in Database /\ Identified(d.locations, d.nextId)

\* The snapshots that a table of artifacts may hold, and the runs it may name for each.
Attributed(artifacts, names) ==
    \A a \in artifacts : a.snap \in DOMAIN names /\ a.by \in names[a.snap]

(***************************************************************************)
(* The invariant of the collections.                                       *)
(***************************************************************************)
Starting == {"identify", "stats", "list"}
Later    == {"resolve", "rebind", "relist", "due", "persist"}
Call == [at : {"idle", "operate", "over"} \union Starting \union Later,
         backup : Backups \union {"none"}, locked : Keys \union {"none"},
         plan : Seq(Substeps), todo : Seq(Substeps), id : Nat, key : Keys \union {"none"},
         stats : BOOLEAN, snaps : SUBSET Nat, ok : BOOLEAN, day : Nat, row : Nat,
         changed : BOOLEAN, due : BOOLEAN,
         protected : [known : BOOLEAN, keys : SUBSET Keys], exact : BOOLEAN]

Active(call) == call.at \notin {"idle", "over"}
Cause(c, call) == IF c \in Refreshes THEN "refresh" ELSE Head(call.todo)
Complete(c, call) == Cause(c, call) \in {"refresh", "retention"} \/ call.changed
Makes(m, r) == \E i \in DOMAIN m : m[i] = r

\* A call, with the repositories rp, the snapshots m and the runs gone that have strayed.
Consistent(c, call, rp, m, gone) ==
    /\ Active(call) => call.backup \in Backups
    /\ c \in Runs /\ Active(call) => call.locked \in Keys
    /\ call.at \in Later => call.key \in Keys
    /\ call.at = "list" /\ Cause(c, call) # "retention" => call.key \in Keys
    /\ c \in Runs /\ call.at \in Starting \union Later => call.todo # << >>
    /\ call.snaps \subseteq 1 .. Len(m)
    /\ call.changed => call.at \in {"relist", "due", "persist"}
    /\ call.at = "relist" => Cause(c, call) = "backup"
    /\ call.exact => call.ok /\ call.at \in Later /\ Cause(c, call) # "cleanup"
    /\ call.exact /\ call.at # "relist" /\ Complete(c, call) => call.snaps = rp[call.key].snaps
    /\ c \in Runs \ gone /\ call.at \in Later => call.key = call.locked
    /\ c \in Runs \ gone /\ call.at = "list" /\ Cause(c, call) # "retention" =>
          call.key = call.locked
    /\ c \in Runs \ gone /\ call.at \in Later /\ call.ok /\ Cause(c, call) # "cleanup" =>
          call.exact
    /\ c \in Runs \ gone /\ call.at \in Later /\ Cause(c, call) = "backup" /\ call.snaps # {} =>
          m[Newest(call.snaps)] = c \/ ~ Makes(m, c)

\* No two runs have locked one repository, and the newest snapshot of a repository is of
\* the run that has locked it, once it has made one.
LockInv(cs, rp, m) ==
    /\ \A r, q \in Runs :
          Active(cs[r]) /\ Active(cs[q]) /\ cs[r].locked = cs[q].locked => r = q
    /\ \A r \in Runs :
          Active(cs[r]) /\ Makes(m, r) =>
             /\ rp[cs[r].locked].snaps # {}
             /\ m[Newest(rp[cs[r].locked].snaps)] = r
    /\ \A r \in Runs : cs[r].at = "idle" => ~ Makes(m, r)

SnapsInv(rp, m) ==
    /\ rp \in [Keys -> [id : Nat, snaps : SUBSET Nat]]
    /\ \A k \in Keys : rp[k].snaps \subseteq 1 .. Len(m)

\* A run is named only after it has operated: for a snapshot of its own, or if it has
\* strayed or made none.
Told(m, gone, cs) ==
    [s \in 1 .. Len(m) |->
        {NoRun} \union {r \in Runs : /\ cs[r].at \notin {"idle", "operate"}
                                     /\ m[s] = r \/ r \in gone \/ ~ Makes(m, r)}]

IInv ==
    /\ made \in Seq(Runs \union {NoRun}) /\ ids \in Nat /\ strayed \subseteq Runs
    /\ config \in [Backups -> Keys] /\ days \in Seq(SUBSET Nat)
    /\ SnapsInv(repo, made)
    /\ IsDb(db) /\ Attributed(db.artifacts, Told(made, strayed, calls))
    /\ calls \in [Calls -> Call]
    /\ \A c \in Calls : Consistent(c, calls[c], repo, made, strayed)
    /\ LockInv(calls, repo, made)


-----------------------------------------------------------------------------
(* The store: deletions.                                                    *)

\* A deletion that leaves the locations alone, and every row of a snapshot that is present.
Spares(d, e) ==
    /\ e.artifacts \subseteq d.artifacts
    /\ e.locations = d.locations /\ e.points = d.points
    /\ e.rows \subseteq d.rows
    /\ \A r \in d.rows : r.present => r \in e.rows

LEMMA DeleteArtifactsSpares ==
    ASSUME NEW d, IsDb(d), NEW gone, \A a \in gone : ~ IsPresent(d, a)
    PROVE  IsDb(DeleteArtifacts(d, gone)) /\ Spares(d, DeleteArtifacts(d, gone))
<1> DEFINE e == DeleteArtifacts(d, gone)
           rows == {r \in d.rows : ~ \E a \in gone : a.repo = r.repo /\ a.snap = r.snap}
<1>1. e = [d EXCEPT !.artifacts = @ \ gone, !.rows = rows]
  BY DEF DeleteArtifacts
<1>2. d \in Database
  BY DEF IsDb
<1>3. rows \subseteq d.rows /\ \A r \in d.rows : r.present => r \in rows
  BY DEF IsPresent
<1> HIDE DEF e, rows
<1>4. /\ e \in Database
      /\ e.artifacts = d.artifacts \ gone /\ e.rows = rows
      /\ e.locations = d.locations /\ e.points = d.points /\ e.nextId = d.nextId
  BY <1>1, <1>2, <1>3 DEF Database
<1>5. IsDb(e) /\ Spares(d, e)
  BY <1>3, <1>4 DEF IsDb, Spares
<1> QED
  BY <1>5 DEF e

LEMMA DeleteOrphansSpares ==
    ASSUME NEW d, IsDb(d), NEW id
    PROVE  IsDb(DeleteOrphans(d, id)) /\ Spares(d, DeleteOrphans(d, id))
  BY DeleteArtifactsSpares DEF DeleteOrphans

LEMMA PruneArtifactsSpares ==
    ASSUME NEW d, IsDb(d), NEW dated
    PROVE  IsDb(PruneArtifacts(d, dated)) /\ Spares(d, PruneArtifacts(d, dated))
<1> DEFINE removable == {a \in d.artifacts : ~ IsPresent(d, a)}
           newer(a) == {b \in removable : b.snap > a.snap \/ (b.snap = a.snap /\ b.repo > a.repo)}
           gone == {a \in removable : a.snap \in dated \/ Cardinality(newer(a)) >= RetentionCount}
<1>1. PruneArtifacts(d, dated) = DeleteArtifacts(d, gone)
  BY DEF PruneArtifacts
<1>2. \A a \in gone : ~ IsPresent(d, a)
  OBVIOUS
<1> HIDE DEF gone
<1> QED
  BY <1>1, <1>2, DeleteArtifactsSpares

LEMMA DeleteLocationsOf ==
    ASSUME NEW d, IsDb(d), NEW gone
    PROVE  LET e == DeleteLocations(d, gone)
               left(x) == ~ \E l \in gone : l.id = x.loc
           IN  /\ IsDb(e)
               /\ e.locations = d.locations \ gone
               /\ e.artifacts = d.artifacts
               /\ e.rows = {r \in d.rows : left(r)}
               /\ e.points = {p \in d.points : left(p)}
<1> DEFINE e == DeleteLocations(d, gone)
           rows == {r \in d.rows : ~ \E l \in gone : l.id = r.loc}
           points == {p \in d.points : ~ \E l \in gone : l.id = p.loc}
<1>1. e = [d EXCEPT !.locations = @ \ gone, !.rows = rows, !.points = points]
  <2>1. /\ {r \in d.rows : r.loc \notin {l.id : l \in gone}} = rows
        /\ {p \in d.points : p.loc \notin {l.id : l \in gone}} = points
    OBVIOUS
  <2> HIDE DEF rows, points
  <2> QED
    BY <2>1 DEF DeleteLocations
<1>2. d \in Database
  BY DEF IsDb
<1>3. rows \subseteq d.rows /\ points \subseteq d.points
  OBVIOUS
<1> HIDE DEF e, rows, points
<1>4. /\ e \in Database
      /\ e.artifacts = d.artifacts /\ e.rows = rows /\ e.points = points
      /\ e.locations = d.locations \ gone /\ e.nextId = d.nextId
  BY <1>1, <1>2, <1>3 DEF Database
<1>5. IsDb(e)
  BY <1>4 DEF IsDb, Identified
<1> QED
  BY <1>4, <1>5 DEF e, rows, points

\* Operations that leave the four tables as they are.
SameTables(d, e) ==
    /\ e.locations = d.locations /\ e.artifacts = d.artifacts
    /\ e.rows = d.rows /\ e.points = d.points

LEMMA DeleteEmptySame ==
    ASSUME NEW d, IsDb(d), NEW id
    PROVE  IsDb(DeleteEmpty(d, id)) /\ SameTables(d, DeleteEmpty(d, id))
<1> DEFINE e == [d EXCEPT !.repositories = @ \ {id}, !.retained = {x \in @ : x.repo # id}]
<1>1. d \in Database
  BY DEF IsDb
<1>2. /\ e \in Database /\ e.nextId = d.nextId /\ SameTables(d, e)
  BY <1>1 DEF Database, SameTables
<1> HIDE DEF e
<1>3. IsDb(e)
  BY <1>2 DEF IsDb, SameTables
<1>4. DeleteEmpty(d, id) \in {d, e}
  BY DEF DeleteEmpty, e
<1> QED
  BY <1>2, <1>3, <1>4 DEF SameTables

LEMMA FindOrCreateSame ==
    ASSUME NEW d, IsDb(d), NEW id \in Nat
    PROVE  /\ IsDb(FindOrCreate(d, id)) /\ SameTables(d, FindOrCreate(d, id))
           /\ FindOrCreate(d, id).retained = d.retained
<1> DEFINE e == FindOrCreate(d, id)
<1>1. d \in Database
  BY DEF IsDb
<1>2. e = [d EXCEPT !.repositories = @ \union {id}]
  BY DEF FindOrCreate
<1> HIDE DEF e
<1>3. /\ e \in Database /\ e.nextId = d.nextId /\ SameTables(d, e)
      /\ e.retained = d.retained
  BY <1>1, <1>2 DEF Database, SameTables
<1>4. IsDb(e)
  BY <1>3 DEF IsDb, SameTables
<1> QED
  BY <1>3, <1>4 DEF e

(***************************************************************************)
(* The store: insertions.                                                  *)
(***************************************************************************)
LEMMA LocationOfKey ==
    ASSUME NEW d, IsDb(d), NEW l \in d.locations
    PROVE  LocationOf(d, l.key) = l
  BY DEF LocationOf, IsDb, Identified

LEMMA UpsertLocationOf ==
    ASSUME NEW d, IsDb(d), NEW id \in Nat, NEW key \in Keys
    PROVE  LET e == UpsertLocation(d, id, key)
               here == LocationOf(e, key)
           IN  /\ IsDb(e)
               /\ e.artifacts = d.artifacts /\ e.rows = d.rows /\ e.points = d.points
               /\ e.retained = d.retained
               /\ here \in e.locations /\ here.key = key /\ here.repo = id
               /\ \A l \in d.locations : l.key # key => l \in e.locations
<1> DEFINE e == UpsertLocation(d, id, key)
<1>1. d \in Database /\ Identified(d.locations, d.nextId)
  BY DEF IsDb
<1>2. CASE LocationsOfKey(d, key) = {}
  <2> DEFINE new == [id |-> d.nextId, key |-> key, repo |-> id]
             next == d.nextId + 1
             f == [d EXCEPT !.locations = @ \union {new}, !.nextId = next]
  <2>1. e = f
    BY <1>2 DEF UpsertLocation
  <2>2. /\ d.nextId \in Nat /\ next \in Nat /\ d.nextId < next
        /\ new \in Location /\ new.key = key /\ new.repo = id /\ new.id = d.nextId
    BY <1>1 DEF Database, Location
  <2> HIDE DEF new, next, e
  <2>3. /\ f \in Database
        /\ f.locations = d.locations \union {new} /\ f.nextId = next
        /\ f.artifacts = d.artifacts /\ f.rows = d.rows /\ f.points = d.points
        /\ f.retained = d.retained
    BY <1>1, <2>2 DEF Database
  <2> HIDE DEF f
  <2>4. \A l \in d.locations : l.key # key /\ l.id < d.nextId /\ l.id \in Nat
    BY <1>1, <1>2 DEF LocationsOfKey, Identified, Database, Location
  <2>5. Identified(f.locations, f.nextId)
    BY <1>1, <2>2, <2>3, <2>4 DEF Identified
  <2>6. IsDb(f)
    BY <2>3, <2>5 DEF IsDb
  <2>7. new \in f.locations /\ LocationOf(f, key) = new
    BY <2>2, <2>3, <2>6, LocationOfKey
  <2>8. QED
    BY <2>1, <2>2, <2>3, <2>6, <2>7 DEF e
<1>3. CASE LocationsOfKey(d, key) # {}
  <2> DEFINE row == LocationOf(d, key)
             new == [row EXCEPT !.repo = id]
             f == [d EXCEPT !.locations = (@ \ {row}) \union {new}]
  <2>1. e = f
    BY <1>3 DEF UpsertLocation
  <2>2. row \in d.locations /\ row.key = key
    <3>1. PICK l \in d.locations : l.key = key
      BY <1>3 DEF LocationsOfKey
    <3> QED
      BY <3>1, LocationOfKey
  <2>3. row \in Location
    BY <1>1, <2>2 DEF Database
  <2> HIDE DEF row
  <2>4. new \in Location /\ new.key = key /\ new.repo = id /\ new.id = row.id
    BY <2>2, <2>3 DEF Location
  <2> HIDE DEF new, e
  <2>5. /\ f \in Database
        /\ f.locations = (d.locations \ {row}) \union {new} /\ f.nextId = d.nextId
        /\ f.artifacts = d.artifacts /\ f.rows = d.rows /\ f.points = d.points
        /\ f.retained = d.retained
    BY <1>1, <2>4 DEF Database
  <2> HIDE DEF f
  <2>6. Identified(f.locations, f.nextId)
    BY <1>1, <2>2, <2>4, <2>5 DEF Identified
  <2>7. IsDb(f)
    BY <2>5, <2>6 DEF IsDb
  <2>8. new \in f.locations /\ LocationOf(f, key) = new
    BY <2>4, <2>5, <2>7, LocationOfKey
  <2>9. \A l \in d.locations : l.key # key => l \in f.locations
    BY <2>2, <2>5
  <2> QED
    BY <2>1, <2>4, <2>5, <2>7, <2>8, <2>9 DEF e
<1> QED
  BY <1>2, <1>3

LEMMA InsertArtifactsOf ==
    ASSUME NEW d, IsDb(d), NEW id \in Nat, NEW snaps \in SUBSET Nat
    PROVE  LET e == InsertArtifacts(d, id, snaps)
           IN  /\ IsDb(e)
               /\ e.locations = d.locations /\ e.rows = d.rows /\ e.points = d.points
               /\ e.retained = d.retained
               /\ \A a \in e.artifacts : a \in d.artifacts \/ (a.snap \in snaps /\ a.by = NoRun)
<1> DEFINE new == {[repo |-> id, snap |-> s, by |-> NoRun] :
                     s \in {t \in snaps : ~ \E a \in d.artifacts : a.repo = id /\ a.snap = t}}
           e == [d EXCEPT !.artifacts = @ \union new]
<1>1. d \in Database
  BY DEF IsDb
<1>2. InsertArtifacts(d, id, snaps) = e
  BY DEF InsertArtifacts
<1>3. new \subseteq Artifact /\ \A a \in new : a.snap \in snaps /\ a.by = NoRun
  BY DEF Artifact
<1> HIDE DEF new
<1>4. /\ e \in Database
      /\ e.artifacts = d.artifacts \union new /\ e.nextId = d.nextId
      /\ e.locations = d.locations /\ e.rows = d.rows /\ e.points = d.points
      /\ e.retained = d.retained
  BY <1>1, <1>3 DEF Database
<1> HIDE DEF e
<1>5. IsDb(e)
  BY <1>4 DEF IsDb
<1> QED
  BY <1>2, <1>3, <1>4, <1>5

\* Operations on the rows alone.
LEMMA RowsOf ==
    ASSUME NEW d, IsDb(d), NEW rows \in SUBSET Row
    PROVE  LET e == [d EXCEPT !.rows = rows]
           IN  /\ IsDb(e) /\ e.rows = rows /\ e.retained = d.retained
               /\ e.locations = d.locations /\ e.artifacts = d.artifacts /\ e.points = d.points
<1> DEFINE e == [d EXCEPT !.rows = rows]
<1>1. /\ e \in Database /\ e.rows = rows /\ e.nextId = d.nextId
      /\ e.retained = d.retained
      /\ e.locations = d.locations /\ e.artifacts = d.artifacts /\ e.points = d.points
  BY DEF IsDb, Database
<1> HIDE DEF e
<1>2. IsDb(e)
  BY <1>1 DEF IsDb
<1> QED
  BY <1>1, <1>2 DEF e

LEMMA ObserveOf ==
    ASSUME NEW d, IsDb(d), NEW id \in Nat, NEW snaps \in SUBSET Nat, NEW loc \in Nat
    PROVE  LET e == Observe(d, id, snaps, loc)
           IN  /\ IsDb(e)
               /\ e.locations = d.locations /\ e.artifacts = d.artifacts /\ e.points = d.points
               /\ e.retained = d.retained
               /\ \A r \in d.rows : r.loc # loc => r \in e.rows
               /\ \A s \in snaps :
                     [repo |-> id, snap |-> s, loc |-> loc, present |-> TRUE] \in e.rows
<1> DEFINE rows == {r \in d.rows : ~ (r.repo = id /\ r.snap \in snaps /\ r.loc = loc)}
                     \union [repo : {id}, snap : snaps, loc : {loc}, present : {TRUE}]
<1>1. Observe(d, id, snaps, loc) = [d EXCEPT !.rows = rows]
  BY DEF Observe
<1>2. rows \in SUBSET Row
  BY DEF IsDb, Database, Row
<1>3. \A r \in d.rows : r.loc # loc => r \in rows
  OBVIOUS
<1>4. ASSUME NEW s \in snaps
      PROVE  [repo |-> id, snap |-> s, loc |-> loc, present |-> TRUE] \in rows
  OBVIOUS
<1> HIDE DEF rows
<1> QED
  BY <1>1, <1>2, <1>3, <1>4, RowsOf

LEMMA MarkMissingOf ==
    ASSUME NEW d, IsDb(d), NEW id \in Nat, NEW snaps \in SUBSET Nat, NEW loc \in Nat
    PROVE  LET e == MarkMissing(d, id, snaps, loc)
           IN  /\ IsDb(e)
               /\ e.locations = d.locations /\ e.artifacts = d.artifacts /\ e.points = d.points
               /\ e.retained = d.retained
               /\ \A r \in d.rows : r.loc # loc \/ (r.repo = id /\ r.snap \in snaps) =>
                     r \in e.rows
               /\ \A r \in e.rows : r.present /\ r.loc = loc => r.repo = id /\ r.snap \in snaps
<1> DEFINE gone(r) == r.loc = loc /\ ~ (r.repo = id /\ r.snap \in snaps)
           rows == {IF gone(r) THEN [r EXCEPT !.present = FALSE] ELSE r : r \in d.rows}
<1>1. MarkMissing(d, id, snaps, loc) = [d EXCEPT !.rows = rows]
  BY DEF MarkMissing
<1>2. \A r \in d.rows : r \in Row
  BY DEF IsDb, Database
<1>3. ASSUME NEW r \in d.rows
      PROVE  LET s == [r EXCEPT !.present = FALSE] IN s \in Row /\ ~ s.present
  BY <1>2 DEF Row
<1>4. rows \in SUBSET Row
  BY <1>2, <1>3
<1>5. \A r \in d.rows : ~ gone(r) => r \in rows
  OBVIOUS
<1>6. \A r \in rows : r.present => ~ gone(r)
  BY <1>3
<1> HIDE DEF rows
<1> QED
  BY <1>1, <1>4, <1>5, <1>6, RowsOf

LEMMA LinkNewestOf ==
    ASSUME NEW d, IsDb(d), NEW id \in Nat, NEW snaps, NEW run \in Runs
    PROVE  LET e == LinkNewest(d, id, snaps, run)
           IN  /\ IsDb(e)
               /\ e.locations = d.locations /\ e.rows = d.rows /\ e.points = d.points
               /\ e.retained = d.retained
               /\ \A a \in e.artifacts :
                     \E b \in d.artifacts : /\ a.snap = b.snap
                                            /\ a = b \/ (a.snap = Newest(snaps) /\ a.by = run)
<1> DEFINE links(a) == a.repo = id /\ a.snap = Newest(snaps) /\ a.by = NoRun
           artifacts == {IF links(a) THEN [a EXCEPT !.by = run] ELSE a : a \in d.artifacts}
           e == [d EXCEPT !.artifacts = artifacts]
<1>1. LinkNewest(d, id, snaps, run) = e
  BY DEF LinkNewest
<1>2. d \in Database /\ \A a \in d.artifacts : a \in Artifact
  BY DEF IsDb, Database
<1>3. ASSUME NEW a \in d.artifacts
      PROVE  LET b == [a EXCEPT !.by = run] IN b \in Artifact /\ b.snap = a.snap /\ b.by = run
  BY <1>2 DEF Artifact
<1>4. artifacts \in SUBSET Artifact
  BY <1>2, <1>3
<1>5. \A a \in artifacts :
         \E b \in d.artifacts : /\ a.snap = b.snap
                                /\ a = b \/ (a.snap = Newest(snaps) /\ a.by = run)
  <2> SUFFICES ASSUME NEW a \in artifacts
               PROVE  \E b \in d.artifacts :
                         /\ a.snap = b.snap
                         /\ a = b \/ (a.snap = Newest(snaps) /\ a.by = run)
    OBVIOUS
  <2>1. PICK b \in d.artifacts : a = IF links(b) THEN [b EXCEPT !.by = run] ELSE b
    OBVIOUS
  <2>2. CASE links(b)
    <3>1. a.snap = b.snap /\ a.by = run
      BY <1>3, <2>1, <2>2
    <3> QED
      BY <2>2, <3>1
  <2>3. CASE ~ links(b)
    BY <2>1, <2>3
  <2> QED
    BY <2>2, <2>3
<1> HIDE DEF artifacts
<1>6. /\ e \in Database
      /\ e.artifacts = artifacts /\ e.nextId = d.nextId
      /\ e.locations = d.locations /\ e.rows = d.rows /\ e.points = d.points
      /\ e.retained = d.retained
  BY <1>2, <1>4 DEF Database
<1> HIDE DEF e
<1>7. IsDb(e)
  BY <1>6 DEF IsDb
<1> QED
  BY <1>1, <1>5, <1>6, <1>7

LEMMA AddPointOf ==
    ASSUME NEW d, IsDb(d), NEW p \in Point
    PROVE  LET e == [d EXCEPT !.points = @ \union {p}]
           IN  /\ IsDb(e) /\ e.retained = d.retained
               /\ e.locations = d.locations /\ e.rows = d.rows /\ e.artifacts = d.artifacts
<1> DEFINE e == [d EXCEPT !.points = @ \union {p}]
<1>1. /\ e \in Database /\ e.artifacts = d.artifacts /\ e.nextId = d.nextId
      /\ e.locations = d.locations /\ e.rows = d.rows /\ e.retained = d.retained
  BY DEF IsDb, Database
<1> HIDE DEF e
<1>2. IsDb(e)
  BY <1>1 DEF IsDb
<1> QED
  BY <1>1, <1>2 DEF e

\* Retention takes the rows of the locations it deletes, and rows of what is present nowhere.
LEMMA ApplyRetentionOf ==
    ASSUME NEW d, IsDb(d), NEW id \in Nat, NEW protected, NEW dated, NEW day \in Nat
    PROVE  LET e == ApplyRetention(d, id, protected, dated, day)
           IN  /\ IsDb(e) /\ e.artifacts \subseteq d.artifacts /\ e.rows \subseteq d.rows
               /\ e.locations \subseteq d.locations
               /\ \A l \in d.locations : l.key \in protected =>
                     /\ l \in e.locations
                     /\ \A r \in d.rows : r.loc = l.id /\ r.present => r \in e.rows
<1> DEFINE ranked == {l \in d.locations : l.repo = id /\ l.key \notin protected}
           newer(l) == {m \in ranked : m.id > l.id}
           gone == {l \in ranked : Cardinality(newer(l)) >= LocationLimit}
           pruned == PruneLocations(d, id, protected)
           rest == PruneArtifacts(pruned, dated)
           e == [rest EXCEPT !.retained = {x \in @ : x.repo # id}
                                            \union {[repo |-> id, day |-> day]}]
<1>1. pruned = DeleteLocations(d, gone) /\ gone \subseteq d.locations
      /\ \A l \in gone : l.key \notin protected
  BY DEF PruneLocations
<1>2. ApplyRetention(d, id, protected, dated, day) = e
  BY DEF ApplyRetention
<1> HIDE DEF gone, pruned
<1>3. /\ IsDb(pruned) /\ pruned.locations = d.locations \ gone
      /\ pruned.artifacts = d.artifacts
      /\ pruned.rows = {r \in d.rows : ~ \E l \in gone : l.id = r.loc}
  BY <1>1, DeleteLocationsOf
<1>4. IsDb(rest) /\ Spares(pruned, rest)
  BY <1>3, PruneArtifactsSpares
<1> HIDE DEF rest
<1>5. rest \in Database
  BY <1>4 DEF IsDb
<1>6. /\ e \in Database /\ e.nextId = rest.nextId /\ SameTables(rest, e)
  BY <1>5 DEF Database, SameTables
<1> HIDE DEF e
<1>7. IsDb(e)
  BY <1>4, <1>6 DEF IsDb, SameTables
<1>8. /\ e.artifacts \subseteq d.artifacts /\ e.rows \subseteq d.rows
      /\ e.locations \subseteq d.locations
  BY <1>3, <1>4, <1>6 DEF Spares, SameTables
<1>9. ASSUME NEW l \in d.locations, l.key \in protected
      PROVE  l \in e.locations /\ \A r \in d.rows : r.loc = l.id /\ r.present => r \in e.rows
  <2>1. \A m \in gone : m.id # l.id
    BY <1>1, <1>9 DEF IsDb, Identified
  <2>2. l \in pruned.locations
    BY <1>1, <1>3, <1>9
  <2>3. \A r \in d.rows : r.loc = l.id => r \in pruned.rows
    BY <1>3, <2>1
  <2> QED
    BY <1>4, <1>6, <2>2, <2>3 DEF Spares, SameTables
<1> QED
  BY <1>2, <1>7, <1>8, <1>9

-----------------------------------------------------------------------------
(* The store: transactions.                                                 *)

\* Observations that a collection may make, with the runs that each snapshot may name.
IsObservation(o, names) ==
    /\ o.repo \in Nat /\ o.key \in Keys /\ o.snaps \in SUBSET Nat
    /\ o.run \in Runs \union {NoRun}
    /\ \A s \in o.snaps : s \in DOMAIN names /\ NoRun \in names[s]
    /\ o.trigger = "backup" /\ o.snaps # {} /\ o.run # NoRun => o.run \in names[Newest(o.snaps)]

LEMMA PersistObservationOf ==
    ASSUME NEW d, IsDb(d), NEW names, Attributed(d.artifacts, names),
           NEW o, IsObservation(o, names)
    PROVE  LET e == PersistObservation(d, o)
               here == LocationOf(e, o.key)
           IN  /\ IsDb(e) /\ Attributed(e.artifacts, names) /\ e.retained = d.retained
               /\ here \in e.locations /\ here.key = o.key
               /\ \A l \in d.locations : l.key # o.key => l \in e.locations
               /\ \A r \in d.rows : r.loc # here.id => r \in e.rows
               /\ \A s \in o.snaps : \E r \in e.rows : r.snap = s /\ r.loc = here.id /\ r.present
               /\ o.full => \A r \in e.rows : r.present /\ r.loc = here.id => r.snap \in o.snaps
<1> DEFINE found == FindOrCreate(d, o.repo)
           placed == UpsertLocation(found, o.repo, o.key)
           here == LocationOf(placed, o.key)
           loc == here.id
           added == InsertArtifacts(placed, o.repo, o.snaps)
           seen == Observe(added, o.repo, o.snaps, loc)
           marked == IF o.full THEN MarkMissing(seen, o.repo, o.snaps, loc) ELSE seen
           links == o.trigger = "backup" /\ o.snaps # {} /\ o.run # NoRun
           linked == IF links THEN LinkNewest(marked, o.repo, o.snaps, o.run) ELSE marked
           point == [repo |-> o.repo, loc |-> loc, by |-> o.run]
           counted == [linked EXCEPT !.points = @ \union {point}]
           counts == o.trigger # "retention" /\ o.stats
<1>1. PersistObservation(d, o) = IF counts THEN counted ELSE linked
  BY DEF PersistObservation
<1>2. /\ o.repo \in Nat /\ o.key \in Keys /\ o.snaps \in SUBSET Nat
      /\ o.run \in Runs \union {NoRun}
      /\ \A t \in o.snaps : t \in DOMAIN names /\ NoRun \in names[t]
  BY DEF IsObservation
<1>3. /\ IsDb(placed) /\ placed.artifacts = d.artifacts /\ placed.rows = d.rows
      /\ placed.retained = d.retained
      /\ here \in placed.locations /\ here.key = o.key
      /\ \A l \in d.locations : l.key # o.key => l \in placed.locations
  <2>1. IsDb(found) /\ SameTables(d, found) /\ found.retained = d.retained
    BY <1>2, FindOrCreateSame
  <2> HIDE DEF found
  <2> QED
    BY ZenonT(60), <1>2, <2>1, UpsertLocationOf DEF SameTables
<1> HIDE DEF found, placed, here
<1>4. loc \in Nat
  BY <1>3 DEF IsDb, Database, Location
<1> HIDE DEF loc
<1>5. /\ IsDb(added) /\ added.locations = placed.locations /\ added.rows = d.rows
      /\ added.retained = d.retained
      /\ \A a \in added.artifacts : a \in d.artifacts \/ (a.snap \in o.snaps /\ a.by = NoRun)
  BY <1>2, <1>3, InsertArtifactsOf
<1>6. Attributed(added.artifacts, names)
  BY <1>2, <1>5 DEF Attributed
<1> HIDE DEF added
<1>7. /\ IsDb(seen) /\ seen.locations = placed.locations /\ seen.artifacts = added.artifacts
      /\ seen.retained = d.retained
      /\ \A r \in d.rows : r.loc # loc => r \in seen.rows
      /\ \A s \in o.snaps : \E r \in seen.rows :
            r.repo = o.repo /\ r.snap = s /\ r.loc = loc /\ r.present
  <2>1. /\ IsDb(seen) /\ seen.locations = added.locations /\ seen.artifacts = added.artifacts
        /\ seen.retained = added.retained
        /\ \A r \in added.rows : r.loc # loc => r \in seen.rows
        /\ \A s \in o.snaps :
              [repo |-> o.repo, snap |-> s, loc |-> loc, present |-> TRUE] \in seen.rows
    BY <1>2, <1>4, <1>5, ObserveOf
  <2>2. ASSUME NEW s \in o.snaps
        PROVE  \E r \in seen.rows : r.repo = o.repo /\ r.snap = s /\ r.loc = loc /\ r.present
    <3> DEFINE row == [repo |-> o.repo, snap |-> s, loc |-> loc, present |-> TRUE]
    <3>1. row \in seen.rows
      BY <2>1
    <3>2. row.repo = o.repo /\ row.snap = s /\ row.loc = loc /\ row.present
      OBVIOUS
    <3> HIDE DEF row, seen
    <3> QED
      BY <3>1, <3>2
  <2> HIDE DEF seen
  <2> QED
    BY <1>5, <2>1, <2>2
<1> HIDE DEF seen
<1>8. /\ IsDb(marked) /\ marked.locations = placed.locations
      /\ marked.artifacts = added.artifacts /\ marked.retained = d.retained
      /\ \A r \in d.rows : r.loc # loc => r \in marked.rows
      /\ \A s \in o.snaps : \E r \in marked.rows : r.snap = s /\ r.loc = loc /\ r.present
      /\ o.full => \A r \in marked.rows : r.present /\ r.loc = loc => r.snap \in o.snaps
  <2>1. CASE o.full
    <3>1. /\ IsDb(marked) /\ marked.locations = seen.locations
          /\ marked.artifacts = seen.artifacts /\ marked.retained = seen.retained
          /\ \A r \in seen.rows : r.loc # loc \/ (r.repo = o.repo /\ r.snap \in o.snaps) =>
                r \in marked.rows
          /\ \A r \in marked.rows : r.present /\ r.loc = loc =>
                r.repo = o.repo /\ r.snap \in o.snaps
      BY <1>2, <1>4, <1>7, <2>1, MarkMissingOf
    <3> HIDE DEF marked
    <3>2. \A s \in o.snaps : \E r \in marked.rows : r.snap = s /\ r.loc = loc /\ r.present
      BY <1>7, <3>1
    <3> QED
      BY <1>7, <3>1, <3>2
  <2>2. CASE ~ o.full
    BY <1>7, <2>2
  <2> QED
    BY <2>1, <2>2
<1> HIDE DEF marked
<1>9. /\ IsDb(linked) /\ linked.locations = placed.locations /\ linked.rows = marked.rows
      /\ Attributed(linked.artifacts, names) /\ linked.retained = d.retained
  <2>1. CASE links
    <3>1. o.run \in Runs /\ o.run \in names[Newest(o.snaps)]
      BY <1>2, <2>1 DEF IsObservation
    <3>2. /\ IsDb(linked) /\ linked.locations = marked.locations /\ linked.rows = marked.rows
          /\ linked.retained = marked.retained
          /\ \A a \in linked.artifacts :
               \E b \in marked.artifacts : /\ a.snap = b.snap
                                           /\ a = b \/ (a.snap = Newest(o.snaps) /\ a.by = o.run)
      BY <1>2, <1>8, <2>1, <3>1, LinkNewestOf
    <3> HIDE DEF linked, links
    <3>3. Attributed(linked.artifacts, names)
      BY <1>6, <1>8, <3>1, <3>2 DEF Attributed
    <3> QED
      BY <1>8, <3>2, <3>3
  <2>2. CASE ~ links
    BY <1>6, <1>8, <2>2
  <2> QED
    BY <2>1, <2>2
<1> HIDE DEF linked
<1>10. point \in Point
  BY <1>2, <1>4 DEF Point
<1> HIDE DEF point
<1>11. /\ IsDb(counted) /\ counted.locations = placed.locations /\ counted.rows = marked.rows
       /\ Attributed(counted.artifacts, names) /\ counted.retained = d.retained
  BY <1>9, <1>10, AddPointOf
<1> HIDE DEF counted, counts
<1> DEFINE e == PersistObservation(d, o)
<1>12. /\ IsDb(e) /\ e.locations = placed.locations /\ e.rows = marked.rows
       /\ Attributed(e.artifacts, names) /\ e.retained = d.retained
  BY <1>1, <1>9, <1>11
<1> HIDE DEF e
<1>13. LocationOf(e, o.key) = here
  BY <1>3, <1>12, LocationOfKey
<1> QED
  BY <1>3, <1>8, <1>12, <1>13 DEF e, loc

LEMMA PresentAtOf ==
    ASSUME NEW d, NEW key, NEW s
    PROVE  s \in PresentAt(d, key) <=>
             \E r \in d.rows : /\ r.present /\ r.snap = s
                               /\ \E l \in d.locations : l.key = key /\ l.id = r.loc
  BY DEF PresentAt, LocationsOfKey

LEMMA PersistOf ==
    ASSUME NEW d, IsDb(d), NEW names, Attributed(d.artifacts, names),
           NEW o, IsObservation(o, names), NEW protected, NEW dated, NEW day \in Nat
    PROVE  LET e == Persist(d, o, protected, dated, day)
               safe(k) == \/ ~ protected.known \/ k \in protected.keys
                          \/ ~ RetentionIsDue(d, o.repo, day)
           IN  /\ IsDb(e) /\ Attributed(e.artifacts, names)
               /\ o.full /\ safe(o.key) => PresentAt(e, o.key) = o.snaps
               /\ \A k : k # o.key /\ safe(k) => PresentAt(d, k) \subseteq PresentAt(e, k)
<1> DEFINE f == PersistObservation(d, o)
           e == Persist(d, o, protected, dated, day)
           here == LocationOf(f, o.key)
           due == RetentionIsDue(d, o.repo, day)
           safe(k) == ~ protected.known \/ k \in protected.keys \/ ~ due
<1>1. /\ IsDb(f) /\ Attributed(f.artifacts, names) /\ f.retained = d.retained
      /\ here \in f.locations /\ here.key = o.key
      /\ \A l \in d.locations : l.key # o.key => l \in f.locations
      /\ \A r \in d.rows : r.loc # here.id => r \in f.rows
      /\ \A s \in o.snaps : \E r \in f.rows : r.snap = s /\ r.loc = here.id /\ r.present
      /\ o.full => \A r \in f.rows : r.present /\ r.loc = here.id => r.snap \in o.snaps
  BY PersistObservationOf
<1>2. /\ IsDb(e) /\ e.artifacts \subseteq f.artifacts /\ e.rows \subseteq f.rows
      /\ e.locations \subseteq f.locations
      /\ \A l \in f.locations : safe(l.key) =>
            l \in e.locations /\ \A r \in f.rows : r.loc = l.id /\ r.present => r \in e.rows
  <2> RetentionIsDue(f, o.repo, day) <=> due
    BY <1>1 DEF RetentionIsDue
  <2>1. CASE protected.known /\ due
    <3>1. e = ApplyRetention(f, o.repo, protected.keys, dated, day)
      BY <2>1 DEF Persist
    <3>2. o.repo \in Nat
      BY DEF IsObservation
    <3> HIDE DEF e, f, due
    <3> QED
      BY <1>1, <2>1, <3>1, <3>2, ApplyRetentionOf
  <2>2. CASE ~ (protected.known /\ due)
    <3>1. e = f
      BY <2>2 DEF Persist
    <3> HIDE DEF e, f, due
    <3> QED
      BY <1>1, <2>2, <3>1
  <2> QED
    BY <2>1, <2>2
<1> HIDE DEF e, f, here, due
<1>3. Attributed(e.artifacts, names)
  BY <1>1, <1>2 DEF Attributed
<1>4. ASSUME o.full, safe(o.key) PROVE PresentAt(e, o.key) = o.snaps
  <2>1. ASSUME NEW s \in o.snaps PROVE s \in PresentAt(e, o.key)
    <3>1. PICK r \in f.rows : r.snap = s /\ r.loc = here.id /\ r.present
      BY <1>1
    <3>2. r \in e.rows /\ here \in e.locations
      BY <1>1, <1>2, <1>4, <3>1
    <3> QED
      BY <1>1, <3>1, <3>2, PresentAtOf
  <2>2. ASSUME NEW s \in PresentAt(e, o.key) PROVE s \in o.snaps
    <3>1. PICK r \in e.rows : /\ r.present /\ r.snap = s
                              /\ \E l \in e.locations : l.key = o.key /\ l.id = r.loc
      BY PresentAtOf
    <3>2. r \in f.rows /\ r.loc = here.id
      BY <1>1, <1>2, <3>1 DEF IsDb, Identified
    <3> QED
      BY <1>1, <1>4, <3>1, <3>2
  <2> QED
    BY <2>1, <2>2
<1>5. ASSUME NEW k, k # o.key, safe(k), NEW s \in PresentAt(d, k)
      PROVE  s \in PresentAt(e, k)
  <2>1. PICK r \in d.rows : /\ r.present /\ r.snap = s
                            /\ \E l \in d.locations : l.key = k /\ l.id = r.loc
    BY PresentAtOf
  <2>2. PICK l \in d.locations : l.key = k /\ l.id = r.loc
    BY <2>1
  <2>3. l \in f.locations /\ l.id # here.id
    BY <1>1, <1>5, <2>2 DEF IsDb, Identified
  <2>4. r \in e.rows /\ l \in e.locations
    BY <1>1, <1>2, <1>5, <2>1, <2>2, <2>3
  <2> QED
    BY <2>1, <2>2, <2>4, PresentAtOf
<1> QED
  BY <1>2, <1>3, <1>4, <1>5 DEF e, due

\* Transactions that give no snapshot a run.
LEMMA NewLocationOf ==
    ASSUME NEW d, IsDb(d), NEW key \in Keys, NEW id \in Nat
    PROVE  IsDb(NewLocation(d, key, id)) /\ NewLocation(d, key, id).artifacts = d.artifacts
<1> DEFINE found == FindOrCreate(d, id)
<1>1. IsDb(found) /\ found.artifacts = d.artifacts
  BY FindOrCreateSame DEF SameTables
<1>2. NewLocation(d, key, id) = UpsertLocation(found, id, key)
  BY DEF NewLocation
<1> HIDE DEF found
<1> QED
  BY <1>1, <1>2, UpsertLocationOf

LEMMA CleanedOf ==
    ASSUME NEW d, IsDb(d), NEW id
    PROVE  LET e == DeleteEmpty(DeleteOrphans(d, id), id) IN IsDb(e) /\ Spares(d, e)
<1> DEFINE cleared == DeleteOrphans(d, id)
<1>1. IsDb(cleared) /\ Spares(d, cleared)
  BY DeleteOrphansSpares
<1> HIDE DEF cleared
<1>2. IsDb(DeleteEmpty(cleared, id)) /\ SameTables(cleared, DeleteEmpty(cleared, id))
  BY <1>1, DeleteEmptySame
<1> QED
  BY <1>1, <1>2 DEF Spares, SameTables, cleared

LEMMA DeletedOf ==
    ASSUME NEW d, IsDb(d), NEW gone, NEW id
    PROVE  LET e == DeleteEmpty(DeleteOrphans(DeleteLocations(d, gone), id), id)
           IN  IsDb(e) /\ e.artifacts \subseteq d.artifacts
<1> DEFINE moved == DeleteLocations(d, gone)
<1>1. IsDb(moved) /\ moved.artifacts = d.artifacts
  BY DeleteLocationsOf
<1> HIDE DEF moved
<1>2. LET e == DeleteEmpty(DeleteOrphans(moved, id), id)
      IN  IsDb(e) /\ e.artifacts \subseteq d.artifacts
  BY <1>1, CleanedOf DEF Spares
<1> QED
  BY <1>2 DEF moved

LEMMA RebindOf ==
    ASSUME NEW d, IsDb(d), NEW key \in Keys, NEW id \in Nat, NEW row
    PROVE  IsDb(Rebind(d, key, id, row)) /\ Rebind(d, key, id, row).artifacts \subseteq d.artifacts
<1> DEFINE moved == DeleteLocations(d, LocationsOfKey(d, key))
           cleared == DeleteEmpty(DeleteOrphans(moved, row), row)
<1>1. IsDb(cleared) /\ cleared.artifacts \subseteq d.artifacts
  BY DeletedOf
<1>2. Rebind(d, key, id, row) = NewLocation(cleared, key, id)
  BY DEF Rebind, NewLocation
<1> HIDE DEF cleared
<1> QED
  BY <1>1, <1>2, NewLocationOf

LEMMA DeleteLocationOf ==
    ASSUME NEW d, IsDb(d), NEW l
    PROVE  IsDb(DeleteLocation(d, l)) /\ DeleteLocation(d, l).artifacts \subseteq d.artifacts
  BY DeletedOf DEF DeleteLocation

\* The merger of two locations: what is present of a repository stays present, and its
\* statistics stay, whatever the tables hold.
LEMMA MergeLocationOf ==
    ASSUME NEW d, IsDb(d), NEW s \in d.locations, NEW t \in d.locations, s # t
    PROVE  LET e == MergeLocation(d, s, t)
           IN  /\ IsDb(e) /\ e.artifacts \subseteq d.artifacts
               /\ Present(e) = Present(d) /\ Growth(e, s.repo) = Growth(d, s.repo)
<1> DEFINE both == {s.id, t.id}
           either(r) == \E q \in d.rows : /\ q.repo = r.repo /\ q.snap = r.snap
                                          /\ q.loc \in both /\ q.present
           moved(r) == [r EXCEPT !.loc = t.id, !.present = either(r)]
           rows == {IF r.loc \in both THEN moved(r) ELSE r : r \in d.rows}
           f == [d EXCEPT !.rows = rows]
           points == {IF p.loc = s.id /\ p.repo = s.repo THEN [p EXCEPT !.loc = t.id]
                      ELSE p : p \in d.points}
           g == [f EXCEPT !.points = points]
           h == DeleteLocations(g, {s})
           e == DeleteEmpty(DeleteOrphans(h, s.repo), s.repo)
<1>1. MergeLocation(d, s, t) = e
  <2>1. MoveRows(d, s, t) = f
    BY DEF MoveRows
  <2>2. f.points = d.points
    BY DEF IsDb, Database
  <2> HIDE DEF f
  <2>3. MovePoints(f, s, t) = g
    BY <2>2 DEF MovePoints
  <2> HIDE DEF g
  <2> QED
    BY <2>1, <2>3 DEF MergeLocation
<1>2. /\ s.id \in Nat /\ t.id \in Nat /\ s.id # t.id
      /\ \A r \in d.rows : r \in Row
      /\ \A p \in d.points : p \in Point
  BY DEF IsDb, Database, Identified, Location
<1>3. ASSUME NEW r \in d.rows
      PROVE  /\ moved(r) \in Row /\ moved(r).repo = r.repo /\ moved(r).snap = r.snap
             /\ moved(r).loc = t.id
             /\ moved(r).present <=> either(r)
  <2>1. either(r) \in BOOLEAN
    OBVIOUS
  <2> HIDE DEF either
  <2> QED
    BY <1>2, <2>1 DEF Row
<1> HIDE DEF either, moved
<1>4. \A r \in d.rows : /\ moved(r) \in Row /\ moved(r).repo = r.repo
                        /\ moved(r).snap = r.snap /\ moved(r).loc = t.id
  BY <1>3
<1>5. rows \in SUBSET Row /\ \A x \in rows : x.loc # s.id
  BY <1>2, <1>4
<1>6. ASSUME NEW p \in d.points
      PROVE  LET at == [p EXCEPT !.loc = t.id]
             IN  at \in Point /\ at.by = p.by /\ at.repo = p.repo /\ at.loc = t.id
  BY <1>2 DEF Point
<1>7. points \in SUBSET Point
  BY <1>2, <1>6
<1>8. ASSUME NEW r \in d.rows, r.present
      PROVE  \E x \in rows : x.repo = r.repo /\ x.snap = r.snap /\ x.present
  <2>1. CASE r.loc \in both
    <3>1. moved(r) \in rows
      BY <2>1
    <3>2. either(r)
      BY <1>8, <2>1 DEF either
    <3>3. moved(r).present
      BY <1>3, <3>2
    <3>4. moved(r).repo = r.repo /\ moved(r).snap = r.snap
      BY <1>4
    <3> HIDE DEF rows
    <3> QED
      BY <3>1, <3>3, <3>4
  <2>2. CASE r.loc \notin both
    <3>1. r \in rows
      BY <2>2
    <3> HIDE DEF rows
    <3> QED
      BY <1>8, <3>1
  <2> QED
    BY <2>1, <2>2
<1>9. ASSUME NEW x \in rows, x.present
      PROVE  \E r \in d.rows : x.repo = r.repo /\ x.snap = r.snap /\ r.present
  <2>1. PICK r \in d.rows : x = IF r.loc \in both THEN moved(r) ELSE r
    OBVIOUS
  <2>2. CASE r.loc \in both
    <3>1. x = moved(r)
      BY <2>1, <2>2
    <3>2. x.repo = r.repo /\ x.snap = r.snap
      BY <1>4, <3>1
    <3>3. either(r)
      BY <1>3, <1>9, <3>1
    <3> QED
      BY <3>2, <3>3 DEF either
  <2>3. CASE r.loc \notin both
    BY <1>9, <2>1, <2>3
  <2> QED
    BY <2>2, <2>3
<1>10. ASSUME NEW p \in d.points, p.repo = s.repo
       PROVE  \E x \in points : x.repo = s.repo /\ x.by = p.by /\ x.loc # s.id
  <2>1. CASE p.loc = s.id
    <3> DEFINE at == [p EXCEPT !.loc = t.id]
    <3>1. at \in points
      BY <1>10, <2>1
    <3>2. at.repo = s.repo /\ at.by = p.by /\ at.loc # s.id
      BY <1>2, <1>6, <1>10
    <3> HIDE DEF at, points
    <3> QED
      BY <3>1, <3>2
  <2>2. CASE p.loc # s.id
    <3>1. p \in points
      BY <2>2
    <3> HIDE DEF points
    <3> QED
      BY <1>10, <2>2, <3>1
  <2> QED
    BY <2>1, <2>2
<1>11. ASSUME NEW x \in points, x.repo = s.repo
       PROVE  \E p \in d.points : p.repo = s.repo /\ p.by = x.by
  <2>1. PICK p \in d.points : x = IF p.loc = s.id /\ p.repo = s.repo
                                  THEN [p EXCEPT !.loc = t.id] ELSE p
    OBVIOUS
  <2>2. x.repo = p.repo /\ x.by = p.by
    BY <1>6, <2>1
  <2> QED
    BY <1>11, <2>2
<1> HIDE DEF rows, points
<1>12. /\ IsDb(f) /\ f.rows = rows /\ f.locations = d.locations
       /\ f.artifacts = d.artifacts /\ f.points = d.points
  BY <1>5, RowsOf
<1> HIDE DEF f
<1>13. /\ g \in Database /\ g.points = points /\ g.nextId = f.nextId
       /\ g.rows = rows /\ g.locations = d.locations /\ g.artifacts = d.artifacts
  BY <1>7, <1>12 DEF IsDb, Database
<1> HIDE DEF g
<1>14. IsDb(g)
  BY <1>12, <1>13 DEF IsDb
<1>15. /\ IsDb(h) /\ h.artifacts = d.artifacts
       /\ h.rows = {r \in rows : ~ \E l \in {s} : l.id = r.loc}
       /\ h.points = {p \in points : ~ \E l \in {s} : l.id = p.loc}
  BY <1>13, <1>14, DeleteLocationsOf
<1> HIDE DEF h
<1>16. h.rows = rows /\ h.points = {p \in points : p.loc # s.id}
  BY <1>5, <1>15
<1>17. IsDb(e) /\ Spares(h, e)
  BY <1>15, CleanedOf
<1> HIDE DEF e
<1>18. Present(e) = Present(d)
  <2>1. \A r \in e.rows : r.present =>
           \E q \in d.rows : r.repo = q.repo /\ r.snap = q.snap /\ q.present
    BY <1>9, <1>16, <1>17 DEF Spares
  <2>2. \A r \in d.rows : r.present =>
           \E q \in e.rows : r.repo = q.repo /\ r.snap = q.snap /\ q.present
    BY <1>8, <1>16, <1>17 DEF Spares
  <2> QED
    BY <2>1, <2>2 DEF Present
<1>19. Growth(e, s.repo) = Growth(d, s.repo)
  <2>1. e.points = {p \in points : p.loc # s.id}
    BY <1>16, <1>17 DEF Spares
  <2> QED
    BY <1>10, <1>11, <2>1 DEF Growth
<1> QED
  BY <1>1, <1>15, <1>17, <1>18, <1>19 DEF Spares

-----------------------------------------------------------------------------
(* The collections.                                                         *)

LEMMA LeastOf == ASSUME NEW S \in SUBSET Nat, S # {} PROVE \E m \in S : \A k \in S : m <= k
<1>1. IsWellFoundedOn(OpToRel(<, Nat), Nat)
  BY NatLessThanWellFounded
<1>2. PICK x \in S : \A y \in S : ~ (<<y, x>> \in OpToRel(<, Nat))
  BY <1>1, WFMin
<1>3. \A y \in S : ~ (y < x)
  BY <1>2 DEF OpToRel
<1> QED
  BY <1>3

\* The newest of some snapshots is one of them.
LEMMA NewestOf ==
    ASSUME NEW n \in Nat, NEW S \in SUBSET (1 .. n), S # {}
    PROVE  Newest(S) \in S /\ \A t \in S : t <= Newest(S)
<1> DEFINE below == {n - t : t \in S}
<1>1. \A t \in S : t \in Nat /\ n - t \in Nat
  OBVIOUS
<1>2. below \in SUBSET Nat /\ below # {}
  BY <1>1
<1> HIDE DEF below
<1>3. PICK m \in below : \A k \in below : m <= k
  BY <1>2, LeastOf
<1>4. PICK s \in S : m = n - s
  BY DEF below
<1>5. ASSUME NEW t \in S PROVE t <= s
  <2>1. n - t \in below
    BY DEF below
  <2>2. n - s <= n - t
    BY <1>3, <1>4, <2>1
  <2> QED
    BY <1>1, <2>2
<1> QED
  BY <1>5 DEF Newest

LEMMA NewestIs ==
    ASSUME NEW S \in SUBSET Nat, NEW n \in S, \A t \in S : t <= n
    PROVE  Newest(S) = n
<1>1. \A s \in S : (\A t \in S : t <= s) <=> s = n
  OBVIOUS
<1> QED
  BY <1>1 DEF Newest

LEMMA TailOf ==
    ASSUME NEW T, NEW todo \in Seq(T), todo # << >>
    PROVE  /\ Tail(todo) \in Seq(T) /\ Head(todo) \in T /\ Head(todo) = todo[1]
           /\ 1 \in DOMAIN todo
           /\ Len(todo) > 1 => Tail(todo) # << >>
           /\ \A i \in DOMAIN Tail(todo) : i + 1 \in DOMAIN todo /\ Tail(todo)[i] = todo[i + 1]
<1> DEFINE rest == Tail(todo)
<1>1. /\ Head(todo) \in T /\ rest \in Seq(T) /\ Len(rest) = Len(todo) - 1
      /\ \A i \in 1 .. Len(rest) : rest[i] = todo[i + 1]
  BY HeadTailProperties
<1>2. Head(todo) = todo[1]
  OBVIOUS
<1> HIDE DEF rest
<1>3. /\ Len(todo) \in Nat /\ Len(todo) # 0 /\ DOMAIN todo = 1 .. Len(todo)
      /\ Len(rest) \in Nat /\ DOMAIN rest = 1 .. Len(rest)
  BY <1>1, LenProperties, EmptySeq
<1>4. Len(todo) > 1 => rest # << >>
  BY <1>1, <1>3, EmptySeq
<1>5. \A i \in DOMAIN rest : i + 1 \in DOMAIN todo /\ rest[i] = todo[i + 1]
  BY <1>1, <1>3
<1> QED
  BY <1>1, <1>2, <1>3, <1>4, <1>5 DEF rest

\* Snapshots that have been made stay made by the same run.
Extends(n, m) == Len(m) <= Len(n) /\ \A i \in 1 .. Len(m) : n[i] = m[i]

\* What may be told of a snapshot only grows.
LEMMA ToldGrows ==
    ASSUME NEW m \in Seq(Runs \union {NoRun}), NEW n \in Seq(Runs \union {NoRun}),
           Extends(n, m), NEW gone, NEW lost, gone \subseteq lost, NEW cs, NEW ds,
           \A r \in Runs : cs[r].at \notin {"idle", "operate"} =>
              /\ ds[r].at \notin {"idle", "operate"}
              /\ Makes(n, r) => Makes(m, r),
           NEW artifacts, Attributed(artifacts, Told(m, gone, cs))
    PROVE  Attributed(artifacts, Told(n, lost, ds))
<1> DEFINE T == Told(m, gone, cs)
           U == Told(n, lost, ds)
           may(s, r) == m[s] = r \/ r \in gone \/ ~ Makes(m, r)
           will(s, r) == n[s] = r \/ r \in lost \/ ~ Makes(n, r)
<1>1. /\ Len(m) \in Nat /\ Len(n) \in Nat /\ 1 .. Len(m) \subseteq 1 .. Len(n)
      /\ \A i \in 1 .. Len(m) : n[i] = m[i]
  BY LenProperties DEF Extends
<1>2. /\ DOMAIN T = 1 .. Len(m)
      /\ \A s \in 1 .. Len(m) :
            T[s] = {NoRun} \union {r \in Runs : cs[r].at \notin {"idle", "operate"} /\ may(s, r)}
  BY DEF Told
<1>3. /\ DOMAIN U = 1 .. Len(n)
      /\ \A s \in 1 .. Len(n) :
            U[s] = {NoRun} \union {r \in Runs : ds[r].at \notin {"idle", "operate"} /\ will(s, r)}
  BY DEF Told
<1> HIDE DEF T, U
<1>4. ASSUME NEW s \in 1 .. Len(m), NEW r \in Runs, cs[r].at \notin {"idle", "operate"}, may(s, r)
      PROVE  ds[r].at \notin {"idle", "operate"} /\ will(s, r)
  BY <1>1, <1>4
<1> HIDE DEF may, will
<1>5. \A s \in 1 .. Len(m) : T[s] \subseteq U[s]
  BY <1>1, <1>2, <1>3, <1>4
<1>6. \A a \in artifacts : a.snap \in DOMAIN T /\ a.by \in T[a.snap]
  BY DEF Attributed, T
<1>7. \A a \in artifacts : a.snap \in DOMAIN U /\ a.by \in U[a.snap]
  BY <1>1, <1>2, <1>3, <1>5, <1>6
<1> QED
  BY <1>7 DEF Attributed, U

\* What a step of one call needs to keep the lock.
LEMMA LockStays ==
    ASSUME NEW rp, NEW m, NEW cs \in [Calls -> Call], LockInv(cs, rp, m), NEW c \in Calls, NEW v,
           v.at # "idle",
           c \in Runs /\ Active(v) => Active(cs[c]) /\ v.locked = cs[c].locked
    PROVE  LockInv([cs EXCEPT ![c] = v], rp, m)
<1> DEFINE ds == [cs EXCEPT ![c] = v]
<1>1. ds[c] = v /\ \A q \in Runs : q # c => ds[q] = cs[q]
  BY DEF Calls
<1> HIDE DEF ds
<1>2. LockInv(ds, rp, m)
  BY <1>1 DEF LockInv
<1> QED
  BY <1>2 DEF ds

\* A step of one call that changes nothing but the tables, and the runs that have strayed.
LEMMA CallMoves ==
    ASSUME IInv, NEW c \in Calls, NEW v \in Call, calls' = [calls EXCEPT ![c] = v],
           UNCHANGED <<repo, made, ids, config, days>>,
           strayed \subseteq strayed', strayed' \subseteq Runs,
           IsDb(db'), Attributed(db'.artifacts, Told(made, strayed, calls)),
           v.at \in {"idle", "operate"} => calls[c].at \in {"idle", "operate"},
           Consistent(c, v, repo, made, strayed'), LockInv(calls', repo, made)
    PROVE  IInv'
<1>1. /\ calls' \in [Calls -> Call] /\ calls'[c] = v
      /\ \A q \in Calls : q # c => calls'[q] = calls[q]
  BY DEF IInv
<1>2. \A q \in Calls : Consistent(q, calls'[q], repo, made, strayed')
  <2>1. ASSUME NEW q \in Calls, q # c PROVE Consistent(q, calls'[q], repo, made, strayed')
    <3>1. Consistent(q, calls[q], repo, made, strayed) /\ calls'[q] = calls[q]
      BY <1>1, <2>1 DEF IInv
    <3>2. q \in Runs \ strayed' => q \in Runs \ strayed
      OBVIOUS
    <3> QED
      BY <3>1, <3>2 DEF Consistent
  <2> QED
    BY <1>1, <2>1
<1>3. Attributed(db'.artifacts, Told(made, strayed', calls'))
  <2>1. made \in Seq(Runs \union {NoRun}) /\ Extends(made, made)
    BY LenProperties DEF IInv, Extends
  <2>2. \A r \in Runs : calls[r].at \notin {"idle", "operate"} =>
                          calls'[r].at \notin {"idle", "operate"}
    BY <1>1 DEF Calls
  <2> QED
    BY <2>1, <2>2, ToldGrows
<1> QED
  BY <1>1, <1>2, <1>3 DEF IInv

LEMMA StepMoves ==
    ASSUME IInv, NEW c \in Calls, NEW v \in Call, calls' = [calls EXCEPT ![c] = v],
           UNCHANGED <<repo, made, ids, config, days>>,
           strayed \subseteq strayed', strayed' \subseteq Runs,
           IsDb(db'), Attributed(db'.artifacts, Told(made, strayed, calls)),
           v.at # "idle", v.at = "operate" => calls[c].at = "operate",
           Consistent(c, v, repo, made, strayed'),
           Active(calls[c]), v.locked = calls[c].locked \/ ~ Active(v)
    PROVE  IInv'
<1>1. LockInv(calls', repo, made)
  BY LockStays DEF IInv
<1> QED
  BY <1>1, CallMoves

LEMMA IdleCall ==
    /\ Idle \in Call /\ Idle.at = "idle" /\ Idle.key = "none" /\ Idle.todo = << >>
    /\ Idle.backup = "none" /\ Idle.locked = "none"
    /\ Idle.snaps = {} /\ Idle.changed = FALSE /\ Idle.exact = FALSE
<1>1. << >> \in Seq(Substeps)
  BY EmptySeq
<1>2. Unread \in [known : BOOLEAN, keys : SUBSET Keys]
  BY DEF Unread
<1> QED
  BY <1>1, <1>2 DEF Idle, Call

\* The end of a collection.
LEMMA EndKeepsIInv ==
    ASSUME IInv, NEW c \in Calls, EndCollection(c), calls[c].at \in Starting \union Later,
           UNCHANGED <<repo, made, ids, config, days>>,
           strayed \subseteq strayed', strayed' \subseteq Runs,
           IsDb(db'), Attributed(db'.artifacts, Told(made, strayed, calls))
    PROVE  IInv'
<1> DEFINE call == calls[c]
           v == Ended(call)
<1>1. calls' = [calls EXCEPT ![c] = v]
  BY DEF EndCollection
<1>2. call \in Call /\ Consistent(c, call, repo, made, strayed)
  BY DEF IInv
<1>3. Active(call)
  BY DEF Active, Starting, Later
<1>4. CASE Len(call.todo) > 1
  <2> DEFINE rest == Tail(call.todo)
  <2>1. rest \in Seq(Substeps) /\ rest # << >>
    <3>1. call.todo \in Seq(Substeps) /\ call.todo # << >>
      BY <1>2, <1>4 DEF Call
    <3> HIDE DEF call
    <3> QED
      BY <1>4, <3>1, TailOf
  <2>2. v = [Idle EXCEPT !.at = "identify", !.backup = call.backup, !.locked = call.locked,
                         !.todo = rest]
    BY <1>4 DEF Ended
  <2>3. /\ call.backup \in Backups /\ call.locked \in Keys \union {"none"}
        /\ c \in Runs => call.locked \in Keys
    BY <1>2, <1>3 DEF Consistent, Call
  <2> HIDE DEF rest, v
  <2>4. /\ v \in Call /\ v.at = "identify" /\ v.backup = call.backup
        /\ v.locked = call.locked /\ v.key = "none" /\ v.todo = rest
        /\ v.snaps = {} /\ v.changed = FALSE /\ v.exact = FALSE
    BY <2>1, <2>2, <2>3, IdleCall DEF Call, Starting
  <2>5. Consistent(c, v, repo, made, strayed')
    BY <2>1, <2>3, <2>4 DEF Consistent, Later
  <2> HIDE DEF call
  <2> QED
    BY <1>1, <1>3, <2>4, <2>5, StepMoves DEF call
<1>5. CASE ~ (Len(call.todo) > 1)
  <2>1. v = [Idle EXCEPT !.at = "over"]
    BY <1>5 DEF Ended
  <2> HIDE DEF v
  <2>2. /\ v \in Call /\ v.at = "over" /\ v.key = "none"
        /\ v.snaps = {} /\ v.changed = FALSE /\ v.exact = FALSE
    BY <2>1, IdleCall DEF Call
  <2>3. Consistent(c, v, repo, made, strayed') /\ ~ Active(v)
    BY <2>2 DEF Consistent, Active, Starting, Later
  <2> QED
    BY <1>1, <1>3, <2>2, <2>3, StepMoves
<1> QED
  BY <1>4, <1>5

\* What is known of a call that collects.
LEMMA CallFacts ==
    ASSUME IInv, NEW c \in Calls, calls[c].at \in Starting \union Later
    PROVE  /\ calls[c] \in Call /\ Consistent(c, calls[c], repo, made, strayed)
           /\ Active(calls[c]) /\ Target(c) \in Keys
           /\ Trigger(c) = Cause(c, calls[c])
           /\ Trigger(c) = "refresh" <=> c \in Refreshes
           /\ c \notin Refreshes => c \in Runs /\ Trigger(c) \in Substeps
           /\ Trigger(c) = "backup" => c \in Runs
<1>1. calls[c] \in Call /\ Consistent(c, calls[c], repo, made, strayed)
  BY DEF IInv
<1>2. Active(calls[c])
  BY DEF Active, Starting, Later
<1>3. Target(c) \in Keys
  BY <1>1, <1>2 DEF Consistent, Target, IInv
<1>4. CASE c \in Refreshes
  BY <1>1, <1>2, <1>3, <1>4 DEF Trigger, Cause
<1>5. CASE c \notin Refreshes
  <2>1. c \in Runs /\ calls[c].todo # << >> /\ calls[c].todo \in Seq(Substeps)
    BY <1>1, <1>5 DEF Consistent, Calls, Call
  <2> DEFINE first == Head(calls[c].todo)
  <2>2. first \in Substeps
    BY <2>1, TailOf
  <2>3. Trigger(c) = first /\ Cause(c, calls[c]) = first
    BY <1>5 DEF Trigger, Cause
  <2> HIDE DEF first
  <2>4. first # "refresh"
    BY <2>2 DEF Substeps
  <2> QED
    BY <1>1, <1>2, <1>3, <1>5, <2>1, <2>2, <2>3, <2>4
<1> QED
  BY <1>4, <1>5

\* A command of a call: a run that has not strayed finds what it has locked.
LEMMA CommandOf ==
    ASSUME IInv, NEW c \in Calls, NEW outcome, Command(c, outcome)
    PROVE  /\ strayed \subseteq strayed' /\ strayed' \subseteq Runs
           /\ c \in Runs \ strayed' => Target(c) = calls[c].locked /\ c \notin strayed
  BY DEF Command, IInv

\* What is listed of a repository.
LEMMA ListedOf ==
    ASSUME IInv, NEW c \in Calls, calls[c].at \in Starting \union Later, NEW latest \in BOOLEAN
    PROVE  LET here == repo[Target(c)].snaps
               snaps == Listed(c, latest)
           IN  /\ snaps \in SUBSET Nat /\ snaps \subseteq 1 .. Len(made)
               /\ ~ latest => snaps = here
               /\ c \in Runs /\ Target(c) = calls[c].locked /\ snaps # {} =>
                     made[Newest(snaps)] = c \/ ~ Makes(made, c)
<1> DEFINE here == repo[Target(c)].snaps
           snaps == Listed(c, latest)
           mine == c \in Runs /\ Target(c) = calls[c].locked
<1>1. here \subseteq 1 .. Len(made) /\ Len(made) \in Nat
  BY CallFacts, LenProperties DEF IInv, SnapsInv
<1>2. mine /\ Makes(made, c) => made[Newest(here)] = c
  BY CallFacts DEF IInv, LockInv
<1> HIDE DEF here
<1>3. snaps = IF latest /\ here # {} THEN {Newest(here)} ELSE here
  BY DEF Listed, here
<1>4. CASE latest /\ here # {}
  <2>1. Newest(here) \in here
    BY <1>1, <1>4, NewestOf
  <2>2. snaps = {Newest(here)}
    BY <1>3, <1>4
  <2>3. Newest(snaps) = Newest(here)
    <3> DEFINE n == Newest(here)
    <3>1. snaps = {n}
      BY <2>2
    <3>2. n \in 1 .. Len(made)
      BY <1>1, <2>1
    <3> HIDE DEF n, snaps
    <3>3. snaps \in SUBSET Nat /\ n \in snaps /\ \A t \in snaps : t <= n
      BY <1>1, <3>1, <3>2
    <3>4. Newest(snaps) = n
      BY <3>3, NewestIs
    <3> QED
      BY <3>4 DEF n, snaps
  <2>4. snaps \subseteq here /\ here \in SUBSET Nat
    BY <1>1, <2>1, <2>2
  <2> HIDE DEF snaps, mine
  <2>5. snaps \in SUBSET Nat /\ snaps \subseteq 1 .. Len(made)
    BY <1>1, <2>4
  <2>6. mine /\ snaps # {} => made[Newest(snaps)] = c \/ ~ Makes(made, c)
    BY <1>2, <2>3
  <2> QED
    BY <1>4, <2>5, <2>6 DEF snaps, here, mine
<1>5. CASE ~ (latest /\ here # {})
  <2>1. snaps = here /\ here \in SUBSET Nat
    BY <1>1, <1>3, <1>5
  <2> HIDE DEF snaps
  <2> QED
    BY <1>1, <1>2, <1>5, <2>1 DEF here, snaps
<1> QED
  BY <1>4, <1>5

\* A collection that goes on and has not listed yet.
LEMMA StartGoes ==
    ASSUME IInv, NEW c \in Calls, calls[c].at \in Starting, NEW v \in Call,
           calls' = [calls EXCEPT ![c] = v],
           v.at \in {"stats", "list"}, v.backup = calls[c].backup, v.locked = calls[c].locked,
           v.todo = calls[c].todo, v.snaps = calls[c].snaps, v.changed = calls[c].changed,
           v.exact = calls[c].exact,
           v.at = "list" /\ Trigger(c) # "retention" => v.key \in Keys,
           c \in Runs \ strayed' /\ v.at = "list" /\ Trigger(c) # "retention" =>
              v.key = v.locked,
           strayed \subseteq strayed', strayed' \subseteq Runs,
           UNCHANGED <<repo, made, ids, db, config, days>>
    PROVE  IInv'
<1>1. calls[c].at \in Starting \union Later
  OBVIOUS
<1>2. /\ Consistent(c, calls[c], repo, made, strayed) /\ Active(calls[c])
      /\ Trigger(c) = Cause(c, calls[c])
  BY <1>1, CallFacts
<1>3. Cause(c, v) = Trigger(c)
  BY <1>2 DEF Cause
<1>4. ~ v.changed /\ ~ v.exact /\ v.at \notin Later
  BY <1>2 DEF Consistent, Starting, Later
<1>5. Consistent(c, v, repo, made, strayed')
  BY <1>2, <1>3, <1>4 DEF Consistent, Active, Starting
<1>6. IsDb(db') /\ Attributed(db'.artifacts, Told(made, strayed, calls))
  BY DEF IInv
<1> QED
  BY <1>2, <1>5, <1>6, StepMoves

LEMMA IdentifyKeepsIInv == ASSUME IInv, NEW c \in Calls, Identify(c) PROVE IInv'
<1> DEFINE id == repo[Target(c)].id
           next == IF CollectsStats(c) THEN "stats" ELSE "list"
<1>1. /\ calls[c].at = "identify" /\ UNCHANGED <<repo, made, ids, db, config, days>>
      /\ calls[c].at \in Starting
  BY DEF Identify, Collecting, outside, Starting
<1>2. PICK outcome \in {"ok", "raised"} :
         /\ Command(c, outcome)
         /\ \/ calls' = [calls EXCEPT ![c].id = id, ![c].at = next]
            \/ EndCollection(c)
  BY DEF Identify
<1>3. strayed \subseteq strayed' /\ strayed' \subseteq Runs
  BY <1>2, CommandOf
<1>4. CASE EndCollection(c)
  BY <1>1, <1>3, <1>4, EndKeepsIInv DEF IInv
<1>5. CASE calls' = [calls EXCEPT ![c].id = id, ![c].at = next]
  <2> DEFINE v == [calls[c] EXCEPT !.id = id, !.at = next]
  <2>1. calls' = [calls EXCEPT ![c] = v]
    BY <1>5
  <2>2. /\ calls[c] \in Call /\ Consistent(c, calls[c], repo, made, strayed) /\ id \in Nat
        /\ c \notin Refreshes => c \in Runs /\ Trigger(c) \in Substeps
        /\ Trigger(c) = "refresh" <=> c \in Refreshes
    BY <1>1, CallFacts DEF IInv, SnapsInv
  <2>3. next \in {"stats", "list"} /\ (next = "list" => Trigger(c) = "retention")
    BY <2>2 DEF CollectsStats, Substeps
  <2> HIDE DEF id, next
  <2>4. /\ v \in Call /\ v.at = next /\ v.key = calls[c].key /\ v.todo = calls[c].todo
        /\ v.backup = calls[c].backup /\ v.locked = calls[c].locked
        /\ v.snaps = calls[c].snaps /\ v.changed = calls[c].changed
        /\ v.exact = calls[c].exact
    BY <2>2, <2>3 DEF Call, Starting
  <2> HIDE DEF v
  <2> QED
    BY <1>1, <1>3, <2>1, <2>3, <2>4, StartGoes
<1> QED
  BY <1>2, <1>4, <1>5

LEMMA StatsKeepsIInv == ASSUME IInv, NEW c \in Calls, Stats(c) PROVE IInv'
<1>1. /\ calls[c].at = "stats" /\ UNCHANGED <<repo, made, ids, db, config, days>>
      /\ calls[c].at \in Starting
  BY DEF Stats, Collecting, outside, Starting
<1>2. PICK outcome \in {"ok", "error", "raised"} :
         /\ Command(c, outcome)
         /\ \/ EndCollection(c)
            \/ calls' = [calls EXCEPT ![c].key = Target(c), ![c].stats = (outcome = "ok"),
                                      ![c].at = "list"]
  BY DEF Stats
<1>3. /\ strayed \subseteq strayed' /\ strayed' \subseteq Runs
      /\ c \in Runs \ strayed' => Target(c) = calls[c].locked
  BY <1>2, CommandOf
<1>4. CASE EndCollection(c)
  BY <1>1, <1>3, <1>4, EndKeepsIInv DEF IInv
<1>5. CASE calls' = [calls EXCEPT ![c].key = Target(c), ![c].stats = (outcome = "ok"),
                                  ![c].at = "list"]
  <2> DEFINE key == Target(c)
             fine == outcome = "ok"
             v == [calls[c] EXCEPT !.key = key, !.stats = fine, !.at = "list"]
  <2>1. calls' = [calls EXCEPT ![c] = v]
    BY <1>5
  <2>2. calls[c] \in Call /\ key \in Keys /\ fine \in BOOLEAN
    BY <1>1, CallFacts
  <2> HIDE DEF key, fine
  <2>3. /\ v \in Call /\ v.at = "list" /\ v.key = key /\ v.todo = calls[c].todo
        /\ v.backup = calls[c].backup /\ v.locked = calls[c].locked
        /\ v.snaps = calls[c].snaps /\ v.changed = calls[c].changed
        /\ v.exact = calls[c].exact
    BY <2>2 DEF Call, Starting
  <2>4. c \in Runs \ strayed' => v.key = v.locked
    BY <1>3, <2>3 DEF key
  <2> HIDE DEF v
  <2> QED
    BY <1>1, <1>3, <2>1, <2>2, <2>3, <2>4, StartGoes
<1> QED
  BY <1>2, <1>4, <1>5

LEMMA ListKeepsIInv == ASSUME IInv, NEW c \in Calls, List(c) PROVE IInv'
<1>1. /\ calls[c].at = "list" /\ Lists(c) /\ UNCHANGED <<repo, made, ids, db, config, days>>
      /\ calls[c].at \in Starting \union Later
  BY DEF List, Collecting, outside, Starting
<1>2. IsDb(db') /\ Attributed(db'.artifacts, Told(made, strayed, calls))
  BY <1>1 DEF IInv
<1> DEFINE fine(outcome) == outcome = "ok"
           snaps(ok) == IF ok THEN Listed(c, OnlyLatest(c)) ELSE {}
           place == IF CollectsStats(c) THEN calls[c].key ELSE Target(c)
<1>3. PICK outcome \in {"ok", "error", "raised"} :
         /\ Command(c, outcome)
         /\ \/ EndCollection(c)
            \/ calls' = [calls EXCEPT ![c].key = place, ![c].snaps = snaps(fine(outcome)),
                            ![c].ok = fine(outcome),
                            ![c].exact = fine(outcome) /\ place = Target(c),
                            ![c].day = Today, ![c].at = "resolve"]
  BY DEF List
<1>4. /\ strayed \subseteq strayed' /\ strayed' \subseteq Runs
      /\ c \in Runs \ strayed' => Target(c) = calls[c].locked /\ c \notin strayed
  BY <1>3, CommandOf
<1>5. CASE EndCollection(c)
  BY <1>1, <1>2, <1>4, <1>5, EndKeepsIInv
<1>6. CASE calls' = [calls EXCEPT ![c].key = place, ![c].snaps = snaps(fine(outcome)),
                            ![c].ok = fine(outcome),
                            ![c].exact = fine(outcome) /\ place = Target(c),
                            ![c].day = Today, ![c].at = "resolve"]
  <2> DEFINE ok == fine(outcome)
             key == place
             day == Today
             listed == snaps(ok)
             exact == ok /\ key = Target(c)
             v == [calls[c] EXCEPT !.key = key, !.snaps = listed, !.ok = ok, !.exact = exact,
                                   !.day = day, !.at = "resolve"]
  <2>1. calls' = [calls EXCEPT ![c] = v]
    BY <1>6
  <2>2. /\ calls[c] \in Call /\ Consistent(c, calls[c], repo, made, strayed)
        /\ Active(calls[c]) /\ Target(c) \in Keys
        /\ Trigger(c) = Cause(c, calls[c])
        /\ Trigger(c) = "refresh" <=> c \in Refreshes
    BY <1>1, CallFacts
  <2>3. key \in Keys
    BY <1>1, <2>2 DEF CollectsStats, Lists, Consistent
  <2>4. /\ listed \in SUBSET Nat /\ listed \subseteq 1 .. Len(made)
        /\ ok /\ Trigger(c) # "backup" => listed = repo[Target(c)].snaps
        /\ c \in Runs /\ Target(c) = calls[c].locked /\ listed # {} =>
              made[Newest(listed)] = c \/ ~ Makes(made, c)
    BY <1>1, ListedOf DEF OnlyLatest
  <2>5. c \in Runs \ strayed' => key = calls[c].locked
    <3>1. SUFFICES ASSUME c \in Runs \ strayed', CollectsStats(c) PROVE key = calls[c].locked
      BY <1>4
    <3>2. Trigger(c) # "retention"
      BY <3>1 DEF CollectsStats
    <3>3. calls[c].key = calls[c].locked
      BY <1>1, <1>4, <2>2, <3>1, <3>2 DEF Consistent
    <3> QED
      BY <3>1, <3>3
  <2>6. /\ exact \in BOOLEAN /\ ok \in BOOLEAN /\ day \in Nat
        /\ exact <=> ok /\ key = Target(c)
    BY LenProperties DEF IInv, Today
  <2> HIDE DEF listed, exact, ok, key, day
  <2>7. /\ v \in Call /\ v.at = "resolve" /\ v.key = key /\ v.todo = calls[c].todo
        /\ v.backup = calls[c].backup /\ v.locked = calls[c].locked
        /\ v.snaps = listed /\ v.changed = calls[c].changed /\ v.ok = ok
        /\ v.exact = exact
    BY <2>2, <2>3, <2>4, <2>6 DEF Call, Later
  <2> HIDE DEF v
  <2>8. Cause(c, v) = Trigger(c) /\ Trigger(c) # "cleanup"
    BY <1>1, <2>2, <2>7 DEF Cause, Lists
  <2>9. ~ calls[c].changed
    BY <1>1, <2>2 DEF Consistent
  <2>10. Consistent(c, v, repo, made, strayed')
    <3>1. c \in Runs => v.todo # << >>
      BY <1>1, <2>2, <2>7 DEF Consistent
    <3>2. v.exact => v.ok
      BY <2>6, <2>7
    <3>3. v.exact /\ Complete(c, v) => v.snaps = repo[v.key].snaps
      BY <2>4, <2>6, <2>7, <2>8, <2>9 DEF Complete
    <3>4. c \in Runs \ strayed' /\ v.ok => v.exact
      BY <1>4, <2>5, <2>6, <2>7
    <3>5. v.at \in Later /\ Active(v)
      BY <2>7 DEF Later, Active
    <3>6. c \in Runs \ strayed' /\ v.snaps # {} => made[Newest(v.snaps)] = c \/ ~ Makes(made, c)
      BY <1>4, <2>4, <2>7
    <3>7. v.backup \in Backups /\ (c \in Runs => v.locked \in Keys)
      BY <2>2, <2>7 DEF Consistent
    <3>8. c \in Runs \ strayed' => v.key = v.locked
      BY <2>5, <2>7
    <3>9. v.key \in Keys /\ v.snaps \subseteq 1 .. Len(made) /\ ~ v.changed
      BY <2>3, <2>4, <2>7, <2>9
    <3>10. v.at = "resolve"
      BY <2>7
    <3> QED
      BY <2>8, <3>1, <3>2, <3>3, <3>4, <3>5, <3>6, <3>7, <3>8, <3>9, <3>10 DEF Consistent
  <2> QED
    BY <1>1, <1>2, <1>4, <2>1, <2>2, <2>7, <2>10, StepMoves
<1> QED
  BY <1>3, <1>5, <1>6

\* A collection that goes on and keeps what it has listed.
LEMMA LaterGoes ==
    ASSUME IInv, NEW c \in Calls, calls[c].at \in {"resolve", "rebind", "due"}, NEW v \in Call,
           calls' = [calls EXCEPT ![c] = v], v.at \in Later,
           v.at = "relist" => Trigger(c) = "backup",
           v.backup = calls[c].backup, v.locked = calls[c].locked, v.key = calls[c].key,
           v.todo = calls[c].todo, v.snaps = calls[c].snaps, v.ok = calls[c].ok,
           v.exact = calls[c].exact,
           v.changed => \/ calls[c].changed /\ v.at \in {"due", "persist"}
                        \/ v.at = "due" /\ Trigger(c) # "backup"
                        \/ v.at = "relist",
           UNCHANGED <<repo, made, ids, strayed, config, days>>,
           IsDb(db'), Attributed(db'.artifacts, Told(made, strayed, calls))
    PROVE  IInv'
<1>1. calls[c].at \in Starting \union Later /\ calls[c].at \in Later
  BY DEF Later
<1>2. /\ Consistent(c, calls[c], repo, made, strayed) /\ Active(calls[c])
      /\ Trigger(c) = Cause(c, calls[c])
      /\ Trigger(c) = "refresh" \/ Trigger(c) \in Substeps
  BY <1>1, CallFacts
<1>3. Cause(c, v) = Trigger(c)
  BY <1>2 DEF Cause
<1>4. v.exact /\ v.at # "relist" /\ Complete(c, v) => Complete(c, calls[c])
  BY <1>2, <1>3 DEF Complete, Consistent, Substeps
<1>5. v.exact /\ v.at # "relist" /\ Complete(c, v) => v.snaps = repo[v.key].snaps
  BY <1>2, <1>4 DEF Consistent
<1>6. Consistent(c, v, repo, made, strayed)
  <2>1. v.changed => v.at \in {"relist", "due", "persist"}
    OBVIOUS
  <2>2. v.at # "list"
    BY DEF Later
  <2> QED
    BY <1>1, <1>2, <1>3, <1>5, <2>1, <2>2 DEF Consistent
<1>7. v.at \notin {"idle", "operate"}
  BY DEF Later
<1> QED
  BY <1>2, <1>6, <1>7, StepMoves DEF IInv

LEMMA ListNothingKeepsIInv == ASSUME IInv, NEW c \in Calls, ListNothing(c) PROVE IInv'
<1>1. /\ calls[c].at = "list" /\ ~ Lists(c)
      /\ UNCHANGED <<repo, made, ids, db, config, days, strayed>>
      /\ calls[c].at \in Starting \union Later
  BY DEF ListNothing, Collecting, outside, Starting
<1>2. IsDb(db') /\ Attributed(db'.artifacts, Told(made, strayed, calls))
  BY <1>1 DEF IInv
<1>3. \/ EndCollection(c)
      \/ calls' = [calls EXCEPT ![c].day = Today, ![c].at = "resolve"]
  BY DEF ListNothing
<1>4. CASE EndCollection(c)
  BY <1>1, <1>2, <1>4, EndKeepsIInv DEF IInv
<1>5. CASE calls' = [calls EXCEPT ![c].day = Today, ![c].at = "resolve"]
  <2> DEFINE day == Today
             v == [calls[c] EXCEPT !.day = day, !.at = "resolve"]
  <2>1. calls' = [calls EXCEPT ![c] = v]
    BY <1>5
  <2>2. /\ calls[c] \in Call /\ Consistent(c, calls[c], repo, made, strayed)
        /\ Active(calls[c]) /\ Trigger(c) = Cause(c, calls[c])
        /\ Trigger(c) = "refresh" <=> c \in Refreshes
        /\ c \notin Refreshes => Trigger(c) \in Substeps
    BY <1>1, CallFacts
  <2>3. Trigger(c) = "cleanup" /\ day \in Nat
    BY <1>1, <2>2, LenProperties DEF Lists, Substeps, IInv, Today
  <2> HIDE DEF day
  <2>4. /\ v \in Call /\ v.at = "resolve" /\ v.key = calls[c].key /\ v.todo = calls[c].todo
        /\ v.backup = calls[c].backup /\ v.locked = calls[c].locked
        /\ v.snaps = calls[c].snaps /\ v.changed = calls[c].changed
        /\ v.exact = calls[c].exact
    BY <2>2, <2>3 DEF Call, Later
  <2> HIDE DEF v
  <2>5. Cause(c, v) = "cleanup"
    BY <2>2, <2>3, <2>4 DEF Cause
  <2>6. /\ ~ v.changed /\ ~ v.exact /\ v.key \in Keys
        /\ c \in Runs \ strayed => v.key = v.locked
    BY <1>1, <2>2, <2>3, <2>4 DEF Consistent, Later
  <2>7. Consistent(c, v, repo, made, strayed)
    <3>1. /\ v.backup \in Backups /\ v.snaps \subseteq 1 .. Len(made)
          /\ c \in Runs => v.todo # << >> /\ v.locked \in Keys
      BY <1>1, <2>2, <2>4 DEF Consistent
    <3> QED
      BY <2>4, <2>5, <2>6, <3>1 DEF Consistent
  <2> QED
    BY <1>1, <1>2, <2>1, <2>2, <2>4, <2>7, StepMoves DEF IInv
<1> QED
  BY <1>3, <1>4, <1>5

LEMMA ResolveKeepsIInv == ASSUME IInv, NEW c \in Calls, Resolve(c) PROVE IInv'
<1> DEFINE known == LocationsOfKey(db, calls[c].key)
           row == IF known = {} THEN 0 ELSE LocationOf(db, calls[c].key).repo
<1>1. /\ calls[c].at = "resolve" /\ UNCHANGED <<repo, made, ids, db, config, days, strayed>>
      /\ calls[c].at \in Starting \union Later
  BY DEF Resolve, Collecting, outside, Later
<1>2. IsDb(db') /\ Attributed(db'.artifacts, Told(made, strayed, calls))
  BY <1>1 DEF IInv
<1>3. /\ calls[c] \in Call /\ Consistent(c, calls[c], repo, made, strayed)
  BY <1>1, CallFacts
<1>4. row \in Nat
  <2>1. CASE known = {}
    BY <2>1
  <2>2. CASE known # {}
    <3>1. PICK l \in db.locations : l.key = calls[c].key
      BY <2>2 DEF LocationsOfKey
    <3>2. LocationOf(db, calls[c].key) = l
      BY <3>1, LocationOfKey DEF IInv
    <3>3. l.repo \in Nat
      BY <3>1 DEF IInv, IsDb, Database, Location
    <3> QED
      BY <2>2, <3>2, <3>3
  <2> QED
    BY <2>1, <2>2
<1>5. \/ Go(c, "due")
      \/ calls' = [calls EXCEPT ![c].at = "rebind", ![c].row = row]
  BY DEF Resolve
<1> HIDE DEF row, known
<1>6. ~ calls[c].changed
  BY <1>1, <1>3 DEF Consistent
<1>7. CASE Go(c, "due")
  <2> DEFINE v == [calls[c] EXCEPT !.at = "due"]
  <2>1. calls' = [calls EXCEPT ![c] = v]
    BY <1>7 DEF Go
  <2>2. /\ v \in Call /\ v.at = "due" /\ v.key = calls[c].key /\ v.todo = calls[c].todo
        /\ v.backup = calls[c].backup /\ v.locked = calls[c].locked
        /\ v.snaps = calls[c].snaps /\ v.changed = calls[c].changed /\ v.ok = calls[c].ok
        /\ v.exact = calls[c].exact
    BY <1>3 DEF Call, Later
  <2> HIDE DEF v
  <2> QED
    BY <1>1, <1>2, <1>6, <2>1, <2>2, LaterGoes DEF Later
<1>8. CASE calls' = [calls EXCEPT ![c].at = "rebind", ![c].row = row]
  <2> DEFINE v == [calls[c] EXCEPT !.at = "rebind", !.row = row]
  <2>1. calls' = [calls EXCEPT ![c] = v]
    BY <1>8
  <2>2. /\ v \in Call /\ v.at = "rebind" /\ v.key = calls[c].key /\ v.todo = calls[c].todo
        /\ v.backup = calls[c].backup /\ v.locked = calls[c].locked
        /\ v.snaps = calls[c].snaps /\ v.changed = calls[c].changed /\ v.ok = calls[c].ok
        /\ v.exact = calls[c].exact
    BY <1>3, <1>4 DEF Call, Later
  <2> HIDE DEF v
  <2> QED
    BY <1>1, <1>2, <1>6, <2>1, <2>2, LaterGoes DEF Later
<1> QED
  BY <1>5, <1>7, <1>8

LEMMA ReboundKeepsIInv == ASSUME IInv, NEW c \in Calls, Rebound(c) PROVE IInv'
<1>1. /\ calls[c].at = "rebind" /\ UNCHANGED <<repo, made, ids, config, days, strayed>>
      /\ calls[c].at \in Starting \union Later /\ calls[c].at \in Later
  BY DEF Rebound, Collecting, outside, Later
<1>2. calls[c] \in Call /\ Consistent(c, calls[c], repo, made, strayed)
  BY <1>1, CallFacts
<1>3. calls[c].id \in Nat /\ calls[c].key \in Keys
  BY <1>1, <1>2 DEF Call, Consistent
<1> DEFINE next == IF OnlyLatest(c) THEN "relist" ELSE "due"
<1>4. \/ db' = NewLocation(db, calls[c].key, calls[c].id) /\ Go(c, "due")
      \/ /\ db' = Rebind(db, calls[c].key, calls[c].id, calls[c].row)
         /\ calls' = [calls EXCEPT ![c].changed = TRUE, ![c].row = 0, ![c].at = next]
  BY DEF Rebound
<1>5. IsDb(db') /\ db'.artifacts \subseteq db.artifacts
  BY <1>3, <1>4, NewLocationOf, RebindOf DEF IInv
<1>6. Attributed(db'.artifacts, Told(made, strayed, calls))
  BY <1>5 DEF IInv, Attributed
<1>7. ~ calls[c].changed
  BY <1>1, <1>2 DEF Consistent
<1>8. CASE Go(c, "due")
  <2> DEFINE v == [calls[c] EXCEPT !.at = "due"]
  <2>1. calls' = [calls EXCEPT ![c] = v]
    BY <1>8 DEF Go
  <2>2. /\ v \in Call /\ v.at = "due" /\ v.key = calls[c].key /\ v.todo = calls[c].todo
        /\ v.backup = calls[c].backup /\ v.locked = calls[c].locked
        /\ v.snaps = calls[c].snaps /\ v.changed = calls[c].changed /\ v.ok = calls[c].ok
        /\ v.exact = calls[c].exact
    BY <1>2 DEF Call, Later
  <2> HIDE DEF v
  <2> QED
    BY <1>1, <1>5, <1>6, <1>7, <2>1, <2>2, LaterGoes DEF Later
<1>9. CASE calls' = [calls EXCEPT ![c].changed = TRUE, ![c].row = 0, ![c].at = next]
  <2> DEFINE v == [calls[c] EXCEPT !.changed = TRUE, !.row = 0, !.at = next]
  <2>1. calls' = [calls EXCEPT ![c] = v]
    BY <1>9
  <2>2. next \in {"relist", "due"} /\ (next = "relist" <=> Trigger(c) = "backup")
    BY DEF OnlyLatest
  <2> HIDE DEF next
  <2>3. /\ v \in Call /\ v.at = next /\ v.key = calls[c].key /\ v.todo = calls[c].todo
        /\ v.backup = calls[c].backup /\ v.locked = calls[c].locked
        /\ v.snaps = calls[c].snaps /\ v.changed = TRUE /\ v.ok = calls[c].ok
        /\ v.exact = calls[c].exact
    BY <1>2, <2>2 DEF Call, Later
  <2> HIDE DEF v
  <2> QED
    BY <1>1, <1>5, <1>6, <2>1, <2>2, <2>3, LaterGoes DEF Later
<1> QED
  BY <1>4, <1>8, <1>9

LEMMA RelistKeepsIInv == ASSUME IInv, NEW c \in Calls, Relist(c) PROVE IInv'
<1>1. /\ calls[c].at = "relist" /\ UNCHANGED <<repo, made, ids, db, config, days>>
      /\ calls[c].at \in Starting \union Later /\ calls[c].at \in Later
  BY DEF Relist, Collecting, outside, Later
<1>2. IsDb(db') /\ Attributed(db'.artifacts, Told(made, strayed, calls))
  BY <1>1 DEF IInv
<1>3. /\ calls[c] \in Call /\ Consistent(c, calls[c], repo, made, strayed)
      /\ Active(calls[c]) /\ Trigger(c) = Cause(c, calls[c])
      /\ Trigger(c) = "backup" /\ c \in Runs /\ Target(c) \in Keys
  <2>1. /\ calls[c] \in Call /\ Consistent(c, calls[c], repo, made, strayed)
        /\ Active(calls[c]) /\ Trigger(c) = Cause(c, calls[c])
    BY <1>1, CallFacts
  <2>2. Trigger(c) = "backup"
    BY <1>1, <2>1 DEF Consistent
  <2> QED
    BY <1>1, <2>1, <2>2, CallFacts
<1> DEFINE fine(outcome) == outcome = "ok"
           snaps(ok) == IF ok THEN Listed(c, FALSE) ELSE {}
<1>4. PICK outcome \in {"ok", "error", "raised"} :
         /\ Command(c, outcome)
         /\ \/ EndCollection(c)
            \/ calls' = [calls EXCEPT ![c].snaps = snaps(fine(outcome)), ![c].ok = fine(outcome),
                            ![c].exact = fine(outcome) /\ calls[c].key = Target(c),
                            ![c].at = "due"]
  BY DEF Relist
<1>5. /\ strayed \subseteq strayed' /\ strayed' \subseteq Runs
      /\ c \in Runs \ strayed' => Target(c) = calls[c].locked /\ c \notin strayed
  BY <1>4, CommandOf
<1>6. CASE EndCollection(c)
  BY <1>1, <1>2, <1>5, <1>6, EndKeepsIInv
<1>7. CASE calls' = [calls EXCEPT ![c].snaps = snaps(fine(outcome)), ![c].ok = fine(outcome),
                            ![c].exact = fine(outcome) /\ calls[c].key = Target(c),
                            ![c].at = "due"]
  <2> DEFINE ok == fine(outcome)
             listed == snaps(ok)
             exact == ok /\ calls[c].key = Target(c)
             v == [calls[c] EXCEPT !.snaps = listed, !.ok = ok, !.exact = exact, !.at = "due"]
  <2>1. calls' = [calls EXCEPT ![c] = v]
    BY <1>7
  <2>2. /\ listed \in SUBSET Nat /\ listed \subseteq 1 .. Len(made)
        /\ ok => listed = repo[Target(c)].snaps
        /\ Target(c) = calls[c].locked /\ listed # {} =>
              made[Newest(listed)] = c \/ ~ Makes(made, c)
    BY <1>1, <1>3, ListedOf
  <2>3. ok \in BOOLEAN /\ exact \in BOOLEAN /\ (exact <=> ok /\ calls[c].key = Target(c))
    OBVIOUS
  <2>4. /\ c \in Runs \ strayed' => calls[c].key = calls[c].locked
        /\ calls[c].key \in Keys /\ calls[c].locked \in Keys
    BY <1>1, <1>3, <1>5 DEF Consistent
  <2> HIDE DEF listed, ok, exact
  <2>5. /\ v \in Call /\ v.at = "due" /\ v.key = calls[c].key /\ v.todo = calls[c].todo
        /\ v.backup = calls[c].backup /\ v.locked = calls[c].locked
        /\ v.snaps = listed /\ v.changed = calls[c].changed /\ v.ok = ok
        /\ v.exact = exact
    BY <1>3, <2>2, <2>3 DEF Call, Later
  <2> HIDE DEF v
  <2>6. Cause(c, v) = "backup"
    BY <1>3, <2>5 DEF Cause
  <2>7. v.exact => v.ok /\ v.snaps = repo[v.key].snaps
    BY <2>2, <2>3, <2>5
  <2>8. /\ c \in Runs \ strayed' /\ v.ok => v.exact
        /\ c \in Runs \ strayed' /\ v.snaps # {} =>
              made[Newest(v.snaps)] = c \/ ~ Makes(made, c)
    BY <1>5, <2>2, <2>3, <2>4, <2>5
  <2>9. Consistent(c, v, repo, made, strayed')
    <3>1. v.todo # << >> /\ v.backup \in Backups /\ v.at \in Later /\ v.at = "due"
      BY <1>1, <1>3, <2>5 DEF Consistent, Later
    <3>2. c \in Runs \ strayed' => v.key = v.locked
      BY <2>4, <2>5
    <3>3. v.snaps \subseteq 1 .. Len(made) /\ v.key \in Keys /\ v.locked \in Keys
      BY <2>2, <2>4, <2>5
    <3> QED
      BY <2>6, <2>7, <2>8, <3>1, <3>2, <3>3 DEF Consistent
  <2> QED
    BY <1>1, <1>2, <1>3, <1>5, <2>1, <2>5, <2>9, StepMoves
<1> QED
  BY <1>4, <1>6, <1>7

LEMMA CheckDueKeepsIInv == ASSUME IInv, NEW c \in Calls, CheckDue(c) PROVE IInv'
<1>1. /\ calls[c].at = "due" /\ UNCHANGED <<repo, made, ids, db, config, days, strayed>>
      /\ calls[c].at \in Starting \union Later /\ calls[c].at \in Later
  BY DEF CheckDue, Collecting, outside, Later
<1>2. IsDb(db') /\ Attributed(db'.artifacts, Told(made, strayed, calls))
  BY <1>1 DEF IInv
<1>3. calls[c] \in Call /\ calls[c].key \in Keys
  BY <1>1, CallFacts DEF Consistent
<1> DEFINE isDue == RetentionIsDue(db, calls[c].id, calls[c].day)
           protected(readable) ==
              IF isDue /\ ~ readable THEN Unread
              ELSE [known |-> TRUE, keys |-> IF isDue THEN Configured ELSE {calls[c].key}]
<1>4. PICK readable \in BOOLEAN :
         calls' = [calls EXCEPT ![c].at = "persist", ![c].due = isDue,
                                ![c].protected = protected(readable)]
  BY DEF CheckDue
<1> DEFINE due == isDue
           keys == protected(readable)
           v == [calls[c] EXCEPT !.at = "persist", !.due = due, !.protected = keys]
<1>5. calls' = [calls EXCEPT ![c] = v]
  BY <1>4
<1>6. keys \in [known : BOOLEAN, keys : SUBSET Keys] /\ due \in BOOLEAN
  BY <1>3 DEF Unread, IInv, Configured, RetentionIsDue
<1> HIDE DEF keys, due
<1>7. /\ v \in Call /\ v.at = "persist" /\ v.key = calls[c].key /\ v.todo = calls[c].todo
      /\ v.backup = calls[c].backup /\ v.locked = calls[c].locked
      /\ v.snaps = calls[c].snaps /\ v.changed = calls[c].changed /\ v.ok = calls[c].ok
      /\ v.exact = calls[c].exact
  BY <1>3, <1>6 DEF Call, Later
<1> HIDE DEF v
<1> QED
  BY <1>1, <1>2, <1>5, <1>7, LaterGoes DEF Later

LEMMA ObservationOf ==
    ASSUME IInv, NEW c \in Calls, calls[c].at = "persist"
    PROVE  /\ IsObservation(Observation(c), Told(made, strayed, calls))
           /\ Observation(c).key = calls[c].key /\ Observation(c).full = Full(c)
           /\ Observation(c).repo = calls[c].id
           /\ Observation(c).snaps = IF calls[c].ok THEN calls[c].snaps ELSE {}
<1>1. /\ calls[c] \in Call /\ Consistent(c, calls[c], repo, made, strayed)
      /\ Trigger(c) = Cause(c, calls[c])
      /\ c \notin Refreshes => c \in Runs
  BY CallFacts DEF Later
<1>2. calls[c].id \in Nat /\ calls[c].key \in Keys
  BY <1>1 DEF Call, Consistent, Later
<1> DEFINE o == Observation(c)
           names == Told(made, strayed, calls)
<1>3. /\ o.repo = calls[c].id /\ o.key = calls[c].key /\ o.trigger = Trigger(c)
      /\ o.run = (IF c \in Refreshes THEN NoRun ELSE c) /\ o.full = Full(c)
      /\ o.snaps = IF calls[c].ok THEN calls[c].snaps ELSE {}
  BY DEF Observation
<1>4. /\ DOMAIN names = 1 .. Len(made)
      /\ \A s \in 1 .. Len(made) :
            names[s] = {NoRun} \union {r \in Runs : /\ calls[r].at \notin {"idle", "operate"}
                                                    /\ \/ made[s] = r \/ r \in strayed
                                                       \/ ~ Makes(made, r)}
  BY DEF Told
<1>5. Len(made) \in Nat
  BY LenProperties DEF IInv
<1> HIDE DEF o, names
<1>6. o.snaps \in SUBSET (1 .. Len(made))
  BY <1>1, <1>3 DEF Consistent
<1>7. \A s \in o.snaps : s \in DOMAIN names /\ NoRun \in names[s]
  BY <1>4, <1>6
<1>8. ASSUME o.trigger = "backup", o.snaps # {}, o.run # NoRun
      PROVE  o.run \in names[Newest(o.snaps)]
  <2>1. /\ o.run = c /\ c \in Runs /\ o.snaps = calls[c].snaps /\ calls[c].snaps # {}
        /\ Cause(c, calls[c]) = "backup"
    BY <1>1, <1>3, <1>8
  <2>2. Newest(o.snaps) \in 1 .. Len(made)
    BY <1>5, <1>6, <1>8, NewestOf
  <2>3. made[Newest(o.snaps)] = c \/ c \in strayed \/ ~ Makes(made, c)
    BY <1>1, <2>1 DEF Consistent, Later
  <2> QED
    BY <1>4, <2>1, <2>2, <2>3
<1>9. o.run \in Runs \union {NoRun}
  BY <1>1, <1>3
<1>10. o.snaps \in SUBSET Nat
  BY <1>6
<1>11. IsObservation(o, names)
  BY <1>2, <1>3, <1>7, <1>8, <1>9, <1>10 DEF IsObservation
<1> QED
  BY <1>3, <1>11 DEF o, names

\* What the transaction of a collection does to the tables.
LEMMA PersistsOf ==
    ASSUME IInv, NEW c \in Calls, Persists(c)
    PROVE  LET protected == calls[c].protected
               safe(k) == \/ ~ protected.known \/ k \in protected.keys
                          \/ ~ RetentionIsDue(db, calls[c].id, calls[c].day)
           IN  /\ IsDb(db') /\ Attributed(db'.artifacts, Told(made, strayed, calls))
               /\ Full(c) /\ safe(calls[c].key) => PresentAt(db', calls[c].key) = calls[c].snaps
               /\ \A k : k # calls[c].key /\ safe(k) => PresentAt(db, k) \subseteq PresentAt(db', k)
<1> DEFINE o == Observation(c)
           protected == calls[c].protected
           day == calls[c].day
           dated == days[calls[c].day]
           names == Told(made, strayed, calls)
<1>1. calls[c].at = "persist" /\ db' = Persist(db, o, protected, dated, day)
  BY DEF Persists, Collecting
<1>2. IsDb(db) /\ Attributed(db.artifacts, names) /\ day \in Nat
  BY DEF IInv, Call
<1>3. /\ IsObservation(o, names) /\ o.key = calls[c].key /\ o.full = Full(c)
      /\ o.repo = calls[c].id
      /\ o.snaps = IF calls[c].ok THEN calls[c].snaps ELSE {}
  BY <1>1, ObservationOf
<1>4. Full(c) => calls[c].ok
  BY DEF Full
<1> HIDE DEF o, protected, dated, day, names
<1> DEFINE safe(k) == \/ ~ protected.known \/ k \in protected.keys
                      \/ ~ RetentionIsDue(db, o.repo, day)
<1> DEFINE e == Persist(db, o, protected, dated, day)
<1>5. /\ IsDb(e) /\ Attributed(e.artifacts, names)
      /\ o.full /\ safe(o.key) => PresentAt(e, o.key) = o.snaps
      /\ \A k : k # o.key /\ safe(k) => PresentAt(db, k) \subseteq PresentAt(e, k)
  BY ZenonT(60), <1>2, <1>3, PersistOf
<1> db' = e
  BY <1>1
<1> HIDE DEF e
<1>6. Full(c) /\ safe(calls[c].key) => PresentAt(db', calls[c].key) = calls[c].snaps
  BY <1>3, <1>4, <1>5
<1>7. \A k : k # calls[c].key /\ safe(k) => PresentAt(db, k) \subseteq PresentAt(db', k)
  BY <1>3, <1>5
<1> QED
  BY <1>3, <1>5, <1>6, <1>7 DEF protected, day, names

LEMMA PersistsKeepsIInv == ASSUME IInv, NEW c \in Calls, Persists(c) PROVE IInv'
<1>1. /\ calls[c].at \in Starting \union Later /\ EndCollection(c)
      /\ UNCHANGED <<repo, made, ids, config, days, strayed>>
  BY DEF Persists, Collecting, outside, Later
<1>2. IsDb(db') /\ Attributed(db'.artifacts, Told(made, strayed, calls))
  BY PersistsOf
<1> QED
  BY <1>1, <1>2, EndKeepsIInv DEF IInv

LEMMA BreaksKeepsIInv == ASSUME IInv, NEW c \in Calls, Breaks(c) PROVE IInv'
<1>1. /\ calls[c].at \in Starting \union Later /\ EndCollection(c)
      /\ UNCHANGED <<repo, made, ids, db, config, days, strayed>>
  BY DEF Breaks, outside, Later
<1>2. IsDb(db') /\ Attributed(db'.artifacts, Told(made, strayed, calls))
  BY <1>1 DEF IInv
<1> QED
  BY <1>1, <1>2, EndKeepsIInv DEF IInv

-----------------------------------------------------------------------------
(* The operations of the runs, and everything else.                         *)

LEMMA BeginKeepsIInv ==
    ASSUME IInv, NEW c \in Calls, calls[c].at = "idle", NEW v \in Call, v.backup \in Backups,
           v.at \in {"operate", "identify"}, v.todo = << >>, v.snaps = {},
           v.changed = FALSE, v.exact = FALSE,
           c \in Runs => v.at = "operate" /\ v.locked \in Keys /\ Holders(v.locked) = {},
           calls' = [calls EXCEPT ![c] = v],
           UNCHANGED <<repo, made, ids, db, config, days, strayed>>
    PROVE  IInv'
<1>1. Consistent(c, v, repo, made, strayed)
  BY DEF Consistent, Active, Starting, Later
<1>2. LockInv(calls', repo, made)
  <2>1. calls'[c] = v /\ \A q \in Calls : q # c => calls'[q] = calls[q]
    BY DEF IInv
  <2>2. c \in Runs => ~ Makes(made, c)
    BY DEF IInv, LockInv
  <2>3. c \in Runs => \A q \in Runs : Active(calls[q]) => calls[q].locked # v.locked
    BY DEF Holders, Active
  <2> QED
    BY <2>1, <2>2, <2>3 DEF IInv, LockInv, Calls
<1>3. IsDb(db') /\ Attributed(db'.artifacts, Told(made, strayed, calls))
  BY DEF IInv
<1> QED
  BY <1>1, <1>2, <1>3, CallMoves DEF IInv

LEMMA StartRunKeepsIInv == ASSUME IInv, NEW r \in Runs, StartRun(r) PROVE IInv'
<1>1. PICK b \in Backups, plan \in Plans :
         /\ Holders(config[b]) = {}
         /\ calls' = [calls EXCEPT ![r] = [Idle EXCEPT !.at = "operate", !.backup = b,
                                                       !.locked = config[b], !.plan = plan]]
  BY DEF StartRun
<1> DEFINE key == config[b]
           v == [Idle EXCEPT !.at = "operate", !.backup = b, !.locked = key, !.plan = plan]
<1>2. key \in Keys /\ plan \in Seq(Substeps)
  BY CollectorAssumption DEF IInv
<1>3. calls' = [calls EXCEPT ![r] = v] /\ Holders(key) = {}
  BY <1>1
<1> HIDE DEF key
<1>4. /\ v \in Call /\ v.at = "operate" /\ v.backup = b /\ v.locked = key /\ v.todo = << >>
      /\ v.snaps = {} /\ v.changed = FALSE /\ v.exact = FALSE
  BY <1>2, IdleCall DEF Call
<1> HIDE DEF v
<1>5. calls[r].at = "idle" /\ UNCHANGED <<repo, made, ids, db, config, days, strayed>>
  BY DEF StartRun, outside
<1>6. r \in Calls
  BY DEF Calls
<1> QED
  BY <1>2, <1>3, <1>4, <1>5, <1>6, BeginKeepsIInv

LEMMA StartRefreshKeepsIInv == ASSUME IInv, NEW f \in Refreshes, StartRefresh(f) PROVE IInv'
<1>1. PICK b \in Backups :
         calls' = [calls EXCEPT ![f] = [Idle EXCEPT !.at = "identify", !.backup = b]]
  BY DEF StartRefresh
<1> DEFINE v == [Idle EXCEPT !.at = "identify", !.backup = b]
<1>2. /\ v \in Call /\ v.at = "identify" /\ v.backup = b /\ v.todo = << >>
      /\ v.snaps = {} /\ v.changed = FALSE /\ v.exact = FALSE
  BY IdleCall DEF Call, Starting
<1>3. calls' = [calls EXCEPT ![f] = v]
  BY <1>1
<1> HIDE DEF v
<1>4. calls[f].at = "idle" /\ UNCHANGED <<repo, made, ids, db, config, days, strayed>>
  BY DEF StartRefresh, outside
<1>5. f \in Calls /\ f \notin Runs
  BY CollectorAssumption DEF Calls
<1> QED
  BY <1>2, <1>3, <1>4, <1>5, BeginKeepsIInv

\* A call whose next substep is done.
LEMMA PerformedOf ==
    ASSUME IInv, NEW r \in Runs, calls[r].at = "operate", calls[r].plan # << >>
    PROVE  \E v \in Call :
              /\ Performed(r, calls) = [calls EXCEPT ![r] = v]
              /\ v.at = "operate" /\ v.locked = calls[r].locked
              /\ Consistent(r, v, repo, made, strayed)
<1> DEFINE call == calls[r]
           first == Head(call.plan)
           rest == Tail(call.plan)
           more == Append(call.todo, first)
           v == [call EXCEPT !.plan = rest, !.todo = more]
<1>1. /\ call \in Call /\ Consistent(r, call, repo, made, strayed)
  BY DEF IInv, Calls
<1>2. call.plan \in Seq(Substeps) /\ call.todo \in Seq(Substeps)
  BY <1>1 DEF Call
<1>3. Performed(r, calls) = [calls EXCEPT ![r] = v]
  BY DEF Performed
<1>4. first \in Substeps /\ rest \in Seq(Substeps)
  BY <1>2, TailOf
<1> HIDE DEF first, rest
<1>5. more \in Seq(Substeps)
  BY <1>2, <1>4, AppendProperties
<1> HIDE DEF more
<1>6. /\ v \in Call /\ v.at = "operate" /\ v.locked = call.locked /\ v.backup = call.backup
      /\ v.snaps = call.snaps /\ v.changed = call.changed /\ v.exact = call.exact
  BY <1>1, <1>4, <1>5 DEF Call
<1> HIDE DEF v
<1>7. Consistent(r, v, repo, made, strayed)
  BY <1>1, <1>6 DEF Consistent, Active, Starting, Later
<1> QED
  BY <1>3, <1>6, <1>7

Overtaken(call, key) == IF call.key = key THEN [call EXCEPT !.exact = FALSE] ELSE call
Elsewhere(key, rq, rp) == \A k \in Keys : k # key => rq[k] = rp[k]

\* A repository changes while calls are under way that have listed it.
LEMMA OvertakenCall ==
    ASSUME NEW c, NEW call \in Call, NEW rp, NEW m, Len(m) \in Nat, NEW gone,
           Consistent(c, call, rp, m, gone),
           NEW key, NEW rq, Elsewhere(key, rq, rp),
           NEW n, Len(n) \in Nat, Extends(n, m),
           c \in Runs /\ call.at \in Later /\ Makes(n, c) => Makes(m, c),
           c \in Runs \ gone /\ call.at \in Later => call.key # key
    PROVE  LET v == Overtaken(call, key)
           IN  /\ v \in Call /\ v.at = call.at /\ v.locked = call.locked
               /\ Consistent(c, v, rq, n, gone)
<1> DEFINE v == Overtaken(call, key)
<1>1. /\ v \in Call /\ v.at = call.at /\ v.key = call.key /\ v.todo = call.todo
      /\ v.backup = call.backup /\ v.locked = call.locked
      /\ v.snaps = call.snaps /\ v.ok = call.ok /\ v.changed = call.changed
      /\ v.exact = IF call.key = key THEN FALSE ELSE call.exact
  <2>1. CASE call.key = key
    BY <2>1 DEF Call, Overtaken
  <2>2. CASE call.key # key
    BY <2>2 DEF Overtaken
  <2> QED
    BY <2>1, <2>2
<1> HIDE DEF v
<1>2. Cause(c, v) = Cause(c, call) /\ (Complete(c, v) <=> Complete(c, call))
  BY <1>1 DEF Cause, Complete
<1>3. v.snaps \subseteq 1 .. Len(n)
  BY <1>1 DEF Consistent, Extends
<1>4. v.exact /\ v.at # "relist" /\ Complete(c, v) => v.snaps = rq[v.key].snaps
  BY <1>1, <1>2 DEF Consistent, Elsewhere
<1>5. v.snaps # {} => n[Newest(v.snaps)] = m[Newest(v.snaps)]
  BY <1>1, NewestOf DEF Consistent, Extends
<1>6. c \in Runs \ gone /\ v.at \in Later /\ v.ok /\ Cause(c, v) # "cleanup" => v.exact
  BY <1>1, <1>2 DEF Consistent
<1>7. c \in Runs \ gone /\ v.at \in Later /\ Cause(c, v) = "backup" /\ v.snaps # {} =>
          n[Newest(v.snaps)] = c \/ ~ Makes(n, c)
  BY <1>1, <1>2, <1>5 DEF Consistent
<1>8. v.exact => v.ok /\ v.at \in Later /\ Cause(c, v) # "cleanup"
  BY <1>1, <1>2 DEF Consistent
<1>9. Consistent(c, v, rq, n, gone)
  BY <1>1, <1>2, <1>3, <1>4, <1>6, <1>7, <1>8 DEF Consistent, Active
<1> QED
  BY <1>1, <1>9 DEF v

LEMMA RepoChanges ==
    ASSUME IInv, NEW key, NEW cs \in [Calls -> Call], calls' = Overtake(cs, key),
           \A c \in Calls : Consistent(c, cs[c], repo, made, strayed),
           \A r \in Runs : cs[r].at = calls[r].at,
           \A r \in Runs \ strayed : cs[r].at \in Later => cs[r].key # key,
           made' \in Seq(Runs \union {NoRun}), Extends(made', made), SnapsInv(repo', made'),
           \A r \in Runs : cs[r].at \notin {"idle", "operate"} /\ Makes(made', r) =>
              Makes(made, r),
           \A k \in Keys : k # key => repo'[k] = repo[k],
           LockInv(cs, repo', made'), ids' \in Nat, UNCHANGED <<db, config, strayed, days>>
    PROVE  IInv'
<1>1. Len(made) \in Nat /\ Len(made') \in Nat /\ made \in Seq(Runs \union {NoRun})
  BY LenProperties DEF IInv
<1>2. \A c \in Calls : /\ calls'[c] \in Call /\ calls'[c].at = cs[c].at
                       /\ calls'[c].locked = cs[c].locked
                       /\ Consistent(c, calls'[c], repo', made', strayed)
  <2> TAKE c \in Calls
  <2> DEFINE call == cs[c]
  <2>1. calls'[c] = Overtaken(call, key) /\ Elsewhere(key, repo', repo)
    BY DEF Overtake, Overtaken, Elsewhere
  <2>2. /\ call \in Call /\ Consistent(c, call, repo, made, strayed)
        /\ c \in Runs \ strayed /\ call.at \in Later => call.key # key
    OBVIOUS
  <2>3. c \in Runs /\ call.at \in Later /\ Makes(made', c) => Makes(made, c)
    BY DEF Later
  <2> HIDE DEF call
  <2>4. /\ calls'[c] \in Call /\ calls'[c].at = call.at /\ calls'[c].locked = call.locked
        /\ Consistent(c, calls'[c], repo', made', strayed)
    BY <1>1, <2>1, <2>2, <2>3, OvertakenCall
  <2> QED
    BY <2>4 DEF call
<1>3. calls' \in [Calls -> Call]
  BY <1>2 DEF Overtake
<1>4. LockInv(calls', repo', made')
  BY <1>2 DEF LockInv, Calls, Active
<1>5. Attributed(db'.artifacts, Told(made', strayed', calls'))
  <2>1. \A r \in Runs : calls[r].at \notin {"idle", "operate"} =>
           /\ calls'[r].at \notin {"idle", "operate"}
           /\ Makes(made', r) => Makes(made, r)
    BY <1>2 DEF Calls
  <2>2. Attributed(db.artifacts, Told(made, strayed, calls))
    BY DEF IInv
  <2> QED
    BY <1>1, <2>1, <2>2, ToldGrows
<1> QED
  BY <1>2, <1>3, <1>4, <1>5 DEF IInv

\* The run that holds the lock changes the repository.
LEMMA LockKept ==
    ASSUME IInv, NEW r \in Runs, Active(calls[r]), NEW v, Active(v), v.locked = calls[r].locked,
           NEW rp, \A k \in Keys : k # calls[r].locked => rp[k] = repo[k],
           NEW n, Extends(n, made), \A q \in Runs : q # r /\ Makes(n, q) => Makes(made, q),
           Makes(n, r) => /\ rp[calls[r].locked].snaps # {}
                          /\ n[Newest(rp[calls[r].locked].snaps)] = r
    PROVE  LockInv([calls EXCEPT ![r] = v], rp, n)
<1> DEFINE cs == [calls EXCEPT ![r] = v]
<1>1. cs[r] = v /\ \A q \in Runs : q # r => cs[q] = calls[q]
  BY DEF IInv, Calls
<1> HIDE DEF cs
<1>2. \A q \in Runs : Active(calls[q]) => /\ calls[q].locked \in Keys
                                          /\ q # r => calls[q].locked # calls[r].locked
  BY DEF IInv, Consistent, LockInv, Calls
<1>3. \A q \in Runs : Active(cs[q]) => Active(calls[q]) /\ cs[q].locked = calls[q].locked
  BY <1>1
<1>4. ASSUME NEW q \in Runs, q # r, Active(cs[q]), Makes(n, q)
      PROVE  rp[cs[q].locked].snaps # {} /\ n[Newest(rp[cs[q].locked].snaps)] = q
  <2> DEFINE here == repo[calls[q].locked].snaps
  <2>1. rp[cs[q].locked].snaps = here /\ cs[q] = calls[q] /\ Makes(made, q)
    BY <1>1, <1>2, <1>4
  <2>2. here # {} /\ made[Newest(here)] = q
    BY <1>4, <2>1 DEF IInv, LockInv
  <2>3. here \subseteq 1 .. Len(made) /\ Len(made) \in Nat
    BY <1>2, <1>4, <2>1, LenProperties DEF IInv, SnapsInv
  <2>4. Newest(here) \in 1 .. Len(made)
    BY <2>2, <2>3, NewestOf
  <2> HIDE DEF here
  <2> QED
    BY <2>1, <2>2, <2>4 DEF Extends
<1>5. ASSUME NEW q \in Runs, cs[q].at = "idle" PROVE ~ Makes(n, q)
  BY <1>1, <1>5 DEF IInv, LockInv, Active
<1>6. LockInv(cs, rp, n)
  <2>1. \A p, q \in Runs :
           Active(cs[p]) /\ Active(cs[q]) /\ cs[p].locked = cs[q].locked => p = q
    BY <1>3 DEF IInv, LockInv
  <2> QED
    BY <1>1, <1>4, <1>5, <2>1 DEF LockInv
<1> QED
  BY <1>6 DEF cs

\* A run that has performed a substep, and the other runs where they were.
LEMMA PerformedCalls ==
    ASSUME IInv, NEW r \in Runs, calls[r].at = "operate", NEW v \in Call, v.at = "operate",
           Consistent(r, v, repo, made, strayed)
    PROVE  LET cs == [calls EXCEPT ![r] = v]
           IN  /\ cs \in [Calls -> Call]
               /\ \A c \in Calls : Consistent(c, cs[c], repo, made, strayed)
               /\ \A q \in Runs : cs[q].at = calls[q].at
               /\ \A q \in Runs \ strayed : cs[q].at \in Later => cs[q].key # calls[r].locked
<1> DEFINE cs == [calls EXCEPT ![r] = v]
<1>1. /\ cs \in [Calls -> Call] /\ cs[r] = v /\ \A q \in Calls : q # r => cs[q] = calls[q]
  BY DEF IInv, Calls
<1> HIDE DEF cs
<1>2. \A q \in Runs : q # r /\ calls[q].at \in Later => calls[q].locked # calls[r].locked
  BY DEF IInv, LockInv, Active, Later
<1>3. \A q \in Runs \ strayed : calls[q].at \in Later => calls[q].key = calls[q].locked
  BY DEF IInv, Consistent, Calls
<1>4. \A q \in Runs \ strayed : cs[q].at \in Later => cs[q].key # calls[r].locked
  BY <1>1, <1>2, <1>3 DEF Later, Calls
<1>5. \A c \in Calls : Consistent(c, cs[c], repo, made, strayed)
  BY <1>1 DEF IInv
<1>6. \A q \in Runs : cs[q].at = calls[q].at
  BY <1>1 DEF Calls
<1> QED
  BY <1>1, <1>4, <1>5, <1>6 DEF cs

LEMMA PerformedKeepsIInv ==
    ASSUME IInv, NEW r \in Runs, calls[r].at = "operate", calls[r].plan # << >>,
           calls' = Performed(r, calls),
           UNCHANGED <<repo, made, ids, db, config, strayed, days>>
    PROVE  IInv'
<1>1. PICK v \in Call : /\ Performed(r, calls) = [calls EXCEPT ![r] = v]
                        /\ v.at = "operate" /\ v.locked = calls[r].locked
                        /\ Consistent(r, v, repo, made, strayed)
  BY PerformedOf
<1>2. r \in Calls /\ Active(calls[r])
  BY DEF Calls, Active
<1>3. IsDb(db') /\ Attributed(db'.artifacts, Told(made, strayed, calls))
  BY DEF IInv
<1> QED
  BY <1>1, <1>2, <1>3, StepMoves DEF IInv

\* The substep that a run performs next.
LEMMA BackUpKeepsIInv == ASSUME IInv, NEW r \in Runs, BackUp(r) PROVE IInv'
<1> DEFINE key == calls[r].locked
           n == Append(made, r)
           next == Len(made) + 1
           here == repo[key].snaps
           more == here \union {next}
<1>1. /\ calls[r].at = "operate" /\ calls[r].plan # << >>
      /\ UNCHANGED <<ids, db, config, strayed, days>>
      /\ \/ UNCHANGED <<made, repo>> /\ calls' = Performed(r, calls)
         \/ /\ made' = n /\ repo' = [repo EXCEPT ![key].snaps = here \union {Len(n)}]
            /\ calls' = Overtake(Performed(r, calls), key)
  BY DEF BackUp
<1>2. CASE UNCHANGED <<made, repo>> /\ calls' = Performed(r, calls)
  BY <1>1, <1>2, PerformedKeepsIInv
<1>3. CASE /\ made' = n /\ repo' = [repo EXCEPT ![key].snaps = here \union {Len(n)}]
           /\ calls' = Overtake(Performed(r, calls), key)
  <2>1. PICK v \in Call : /\ Performed(r, calls) = [calls EXCEPT ![r] = v]
                          /\ v.at = "operate" /\ v.locked = key
                          /\ Consistent(r, v, repo, made, strayed)
    BY <1>1, PerformedOf
  <2>2. /\ r \in Calls /\ key \in Keys /\ Active(calls[r]) /\ Active(v)
        /\ here \subseteq 1 .. Len(made) /\ Len(made) \in Nat
    <3>1. r \in Calls /\ Active(calls[r]) /\ Active(v)
      BY <1>1, <2>1 DEF Calls, Active
    <3>2. key \in Keys
      BY <3>1 DEF IInv, Consistent
    <3> QED
      BY <3>1, <3>2, LenProperties DEF IInv, SnapsInv
  <2>3. /\ n \in Seq(Runs \union {NoRun}) /\ Len(n) = next /\ n[next] = r /\ Extends(n, made)
        /\ DOMAIN n = 1 .. next /\ DOMAIN made = 1 .. Len(made)
    BY <2>2, AppendProperties, LenProperties DEF IInv, Extends
  <2>4. next \in Nat /\ \A t \in more : t \in Nat /\ t <= next
    BY <2>2
  <2>5. more # {} /\ Newest(more) = next
    BY <2>4, NewestIs
  <2>6. \A i \in 1 .. next : i = next \/ i \in 1 .. Len(made)
    BY <2>2
  <2> HIDE DEF n, next
  <2>7. \A q \in Runs : q # r /\ Makes(n, q) => Makes(made, q)
    BY <2>3, <2>6 DEF Makes, Extends
  <2>8. repo' = [repo EXCEPT ![key].snaps = more]
    BY <1>3, <2>3
  <2>9. more \in SUBSET Nat /\ more \subseteq 1 .. next
    BY <2>2, <2>4 DEF next
  <2> HIDE DEF more, here
  <2>10. repo'[key].snaps = more /\ \A k \in Keys : k # key => repo'[k] = repo[k]
    BY <2>2, <2>8 DEF IInv, SnapsInv
  <2>11. SnapsInv(repo', n)
    <3>1. repo' \in [Keys -> [id : Nat, snaps : SUBSET Nat]]
      BY <2>2, <2>8, <2>9 DEF IInv, SnapsInv
    <3>2. next \in Nat /\ Len(made) <= next
      BY <2>3, <2>4 DEF Extends
    <3>3. \A k \in Keys : repo[k].snaps \subseteq 1 .. Len(made)
      BY DEF IInv, SnapsInv
    <3>4. ASSUME NEW k \in Keys PROVE repo'[k].snaps \subseteq 1 .. next
      <4>1. CASE k = key
        BY <2>9, <2>10, <4>1
      <4>2. CASE k # key
        BY <2>2, <2>10, <3>2, <3>3, <4>2
      <4> QED
        BY <4>1, <4>2
    <3> QED
      BY <2>3, <3>1, <3>4 DEF SnapsInv
  <2> DEFINE cs == [calls EXCEPT ![r] = v]
  <2>12. LockInv(cs, repo', n)
    BY ZenonT(60), <2>1, <2>2, <2>3, <2>5, <2>7, <2>10, LockKept
  <2>13. /\ cs \in [Calls -> Call]
         /\ \A c \in Calls : Consistent(c, cs[c], repo, made, strayed)
         /\ \A q \in Runs : cs[q].at = calls[q].at
         /\ \A q \in Runs \ strayed : cs[q].at \in Later => cs[q].key # key
    BY <1>1, <2>1, PerformedCalls
  <2>14. calls' = Overtake(cs, key)
    BY <1>3, <2>1
  <2>15. \A q \in Runs : cs[q].at \notin {"idle", "operate"} /\ Makes(n, q) => Makes(made, q)
    BY <1>1, <2>7, <2>13
  <2> HIDE DEF cs, key
  <2> QED
    BY ZenonT(60), <1>1, <1>3, <2>3, <2>10, <2>11, <2>12, <2>13, <2>14, <2>15, RepoChanges
       DEF IInv
<1> QED
  BY <1>1, <1>2, <1>3

LEMMA ForgetKeepsIInv == ASSUME IInv, NEW r \in Runs, Forget(r) PROVE IInv'
<1> DEFINE key == calls[r].locked
           here == repo[key].snaps
<1>1. PICK gone \in SUBSET here :
         /\ here # {} => Newest(here) \notin gone
         /\ repo' = [repo EXCEPT ![key].snaps = here \ gone]
  BY DEF Forget
<1> DEFINE left == here \ gone
<1>2. /\ calls[r].at = "operate" /\ calls[r].plan # << >>
      /\ calls' = Overtake(Performed(r, calls), key)
      /\ UNCHANGED <<made, ids, db, config, strayed, days>>
  BY DEF Forget
<1>3. PICK v \in Call : /\ Performed(r, calls) = [calls EXCEPT ![r] = v]
                        /\ v.at = "operate" /\ v.locked = key
                        /\ Consistent(r, v, repo, made, strayed)
  BY <1>2, PerformedOf
<1>4. /\ r \in Calls /\ key \in Keys /\ Active(calls[r]) /\ Active(v)
      /\ here \subseteq 1 .. Len(made) /\ Len(made) \in Nat
  <2>1. r \in Calls /\ Active(calls[r]) /\ Active(v)
    BY <1>2, <1>3 DEF Calls, Active
  <2>2. key \in Keys
    BY <2>1 DEF IInv, Consistent
  <2> QED
    BY <2>1, <2>2, LenProperties DEF IInv, SnapsInv
<1>5. here # {} => left # {} /\ Newest(left) = Newest(here)
  <2>1. SUFFICES ASSUME here # {} PROVE left # {} /\ Newest(left) = Newest(here)
    OBVIOUS
  <2> DEFINE n == Newest(here)
  <2>2. n \in here /\ \A t \in here : t <= n
    BY <1>4, <2>1, NewestOf
  <2>3. n \in left
    BY <1>1, <2>1, <2>2
  <2>4. left \in SUBSET Nat /\ \A t \in left : t <= n
    BY <1>4, <2>2
  <2> HIDE DEF n, left
  <2>5. Newest(left) = n
    BY <2>3, <2>4, NewestIs
  <2> QED
    BY <2>3, <2>5 DEF n
<1>6. left \in SUBSET Nat /\ left \subseteq 1 .. Len(made)
  BY <1>4
<1> HIDE DEF left
<1>7. repo' = [repo EXCEPT ![key].snaps = left]
  BY <1>1 DEF left
<1>8. repo'[key].snaps = left /\ \A k \in Keys : k # key => repo'[k] = repo[k]
  BY <1>4, <1>7 DEF IInv, SnapsInv
<1>9. SnapsInv(repo', made)
  <2>1. repo' \in [Keys -> [id : Nat, snaps : SUBSET Nat]]
    BY <1>4, <1>6, <1>7 DEF IInv, SnapsInv
  <2>2. \A k \in Keys : repo'[k].snaps \subseteq 1 .. Len(made)
    BY <1>6, <1>8 DEF IInv, SnapsInv
  <2> QED
    BY <2>1, <2>2 DEF SnapsInv
<1>10. Extends(made, made)
  BY <1>4 DEF Extends
<1> DEFINE cs == [calls EXCEPT ![r] = v]
<1>11. LockInv(cs, repo', made)
  <2>1. Makes(made, r) => left # {} /\ made[Newest(left)] = r
    BY <1>4, <1>5 DEF IInv, LockInv
  <2> QED
    BY <1>3, <1>4, <1>8, <1>10, <2>1, LockKept
<1>12. /\ cs \in [Calls -> Call]
       /\ \A c \in Calls : Consistent(c, cs[c], repo, made, strayed)
       /\ \A q \in Runs : cs[q].at = calls[q].at
       /\ \A q \in Runs \ strayed : cs[q].at \in Later => cs[q].key # key
  BY <1>2, <1>3, PerformedCalls
<1>13. calls' = Overtake(cs, key)
  BY <1>2, <1>3
<1>14. made' \in Seq(Runs \union {NoRun}) /\ Extends(made', made) /\ ids' \in Nat
  BY <1>2, <1>10 DEF IInv
<1>15. SnapsInv(repo', made') /\ LockInv(cs, repo', made')
  BY <1>2, <1>9, <1>11
<1> HIDE DEF cs, key
<1> QED
  BY <1>2, <1>8, <1>12, <1>13, <1>14, <1>15, RepoChanges

LEMMA CleanUpKeepsIInv == ASSUME IInv, NEW r \in Runs, CleanUp(r) PROVE IInv'
  BY PerformedKeepsIInv DEF CleanUp, outside

LEMMA OperatedKeepsIInv == ASSUME IInv, NEW r \in Runs, Operated(r) PROVE IInv'
<1> DEFINE call == calls[r]
           v == IF call.todo = << >> THEN [Idle EXCEPT !.at = "over"]
                ELSE [call EXCEPT !.at = "identify", !.plan = << >>]
<1>1. /\ call.at = "operate" /\ calls' = [calls EXCEPT ![r] = v]
      /\ UNCHANGED <<repo, made, ids, db, config, strayed, days>>
  BY DEF Operated, outside
<1>2. r \in Calls /\ call \in Call /\ Consistent(r, call, repo, made, strayed)
  BY DEF IInv, Calls
<1>3. Active(call) /\ << >> \in Seq(Substeps)
  BY <1>1, EmptySeq DEF Active
<1>4. IsDb(db') /\ Attributed(db'.artifacts, Told(made, strayed, calls))
  BY <1>1 DEF IInv
<1>5. CASE call.todo = << >>
  <2>1. v = [Idle EXCEPT !.at = "over"]
    BY <1>5
  <2> HIDE DEF v
  <2>2. /\ v \in Call /\ v.at = "over"
        /\ v.snaps = {} /\ v.changed = FALSE /\ v.exact = FALSE
    BY <2>1, IdleCall DEF Call
  <2>3. Consistent(r, v, repo, made, strayed) /\ ~ Active(v)
    BY <2>2 DEF Consistent, Active, Starting, Later
  <2> QED
    BY <1>1, <1>2, <1>3, <1>4, <2>2, <2>3, StepMoves DEF IInv
<1>6. CASE call.todo # << >>
  <2>1. v = [call EXCEPT !.at = "identify", !.plan = << >>]
    BY <1>6
  <2> HIDE DEF v, call
  <2>2. /\ v \in Call /\ v.at = "identify" /\ v.locked = call.locked /\ v.todo = call.todo
        /\ v.backup = call.backup /\ v.snaps = call.snaps /\ v.changed = call.changed
        /\ v.exact = call.exact
    BY <1>2, <1>3, <2>1 DEF Call, Starting
  <2>3. Consistent(r, v, repo, made, strayed)
    BY <1>1, <1>2, <1>3, <1>6, <2>2 DEF Consistent, Active, Starting, Later
  <2> QED
    BY <1>1, <1>2, <1>3, <1>4, <2>2, <2>3, StepMoves DEF call, IInv
<1> QED
  BY <1>5, <1>6

-----------------------------------------------------------------------------
(* Everything else.                                                         *)

\* Where nobody holds the lock, another repository may appear.
LEMMA AppearsKeepsIInv ==
    ASSUME IInv, NEW key \in Keys, Holders(key) = {}, calls' = Overtake(calls, key),
           NEW new \in [id : Nat, snaps : SUBSET Nat], new.snaps \subseteq 1 .. Len(made),
           repo' = [repo EXCEPT ![key] = new], ids' \in Nat,
           UNCHANGED <<made, db, config, strayed, days>>
    PROVE  IInv'
<1>1. \A k \in Keys : k # key => repo'[k] = repo[k]
  BY DEF IInv, SnapsInv
<1>2. SnapsInv(repo', made')
  BY DEF IInv, SnapsInv
<1>3. made' \in Seq(Runs \union {NoRun}) /\ Extends(made', made)
  BY LenProperties DEF IInv, Extends
<1>4. \A r \in Runs : Active(calls[r]) => calls[r].locked # key /\ calls[r].locked \in Keys
  BY DEF Holders, Active, IInv, Consistent, Calls
<1>5. LockInv(calls, repo', made')
  BY <1>1, <1>4 DEF IInv, LockInv
<1>6. \A r \in Runs \ strayed : calls[r].at \in Later => calls[r].key # key
  BY <1>4 DEF Active, Later, IInv, Consistent, Calls
<1>7. /\ calls \in [Calls -> Call]
      /\ \A c \in Calls : Consistent(c, calls[c], repo, made, strayed)
  BY DEF IInv
<1>8. \A r \in Runs : Makes(made', r) => Makes(made, r)
  OBVIOUS
<1> QED
  BY <1>1, <1>2, <1>3, <1>5, <1>6, <1>7, <1>8, RepoChanges

LEMMA RecreateKeepsIInv == ASSUME IInv, Recreate PROVE IInv'
<1>1. PICK k \in Keys : /\ Holders(k) = {} /\ calls' = Overtake(calls, k)
                        /\ repo' = [repo EXCEPT ![k] = [id |-> ids', snaps |-> {}]]
  BY DEF Recreate
<1>2. ids' \in Nat /\ UNCHANGED <<made, db, config, strayed, days>>
  BY DEF Recreate, IInv
<1>3. [id |-> ids', snaps |-> {}] \in [id : Nat, snaps : SUBSET Nat]
  BY <1>2
<1> QED
  BY <1>1, <1>2, <1>3, AppearsKeepsIInv

LEMMA CopyKeepsIInv == ASSUME IInv, Copy PROVE IInv'
<1>1. PICK k \in Keys, from \in Keys : /\ Holders(k) = {} /\ calls' = Overtake(calls, k)
                                       /\ repo' = [repo EXCEPT ![k] = repo[from]]
  BY DEF Copy
<1>2. ids' \in Nat /\ UNCHANGED <<made, db, config, strayed, days>>
  BY DEF Copy, IInv
<1>3. /\ repo[from] \in [id : Nat, snaps : SUBSET Nat]
      /\ repo[from].snaps \subseteq 1 .. Len(made)
  BY DEF IInv, SnapsInv
<1> QED
  BY <1>1, <1>2, <1>3, AppearsKeepsIInv

LEMMA ReconfigureKeepsIInv == ASSUME IInv, Reconfigure PROVE IInv'
  BY DEF Reconfigure, IInv

LEMMA NewDayKeepsIInv == ASSUME IInv, NewDay PROVE IInv'
<1>1. /\ days' = Append(days, 1 .. Len(made))
      /\ UNCHANGED <<repo, made, ids, db, calls, config, strayed>>
  BY DEF NewDay
<1>2. days \in Seq(SUBSET Nat) /\ Len(made) \in Nat
  BY LenProperties DEF IInv
<1>3. 1 .. Len(made) \in SUBSET Nat
  BY <1>2
<1>4. days' \in Seq(SUBSET Nat)
  BY <1>1, <1>2, <1>3, AppendProperties
<1> QED
  BY <1>1, <1>4 DEF IInv

\* Steps that change nothing but the tables.
LEMMA TablesChange ==
    ASSUME IInv, UNCHANGED <<repo, made, ids, calls, config, strayed, days>>,
           IsDb(db'), db'.artifacts \subseteq db.artifacts
    PROVE  IInv'
  BY DEF IInv, Attributed

LEMMA RemoveLocationKeepsIInv == ASSUME IInv, RemoveLocation PROVE IInv'
<1>1. PICK l \in db.locations : db' = DeleteLocation(db, l)
  BY DEF RemoveLocation
<1>2. UNCHANGED <<repo, made, ids, calls, config, strayed, days>> /\ IsDb(db)
  BY DEF RemoveLocation, outside, IInv
<1>3. IsDb(db') /\ db'.artifacts \subseteq db.artifacts
  BY <1>1, <1>2, DeleteLocationOf
<1> QED
  BY <1>2, <1>3, TablesChange

LEMMA MergeKeepsIInv == ASSUME IInv, Merge PROVE IInv'
<1>1. PICK s \in db.locations, t \in db.locations : s # t /\ db' = MergeLocation(db, s, t)
  BY DEF Merge
<1>2. UNCHANGED <<repo, made, ids, calls, config, strayed, days>> /\ IsDb(db)
  BY DEF Merge, outside, IInv
<1>3. IsDb(db') /\ db'.artifacts \subseteq db.artifacts
  BY <1>1, <1>2, MergeLocationOf
<1> QED
  BY <1>2, <1>3, TablesChange

LEMMA InitIInv == Init => IInv
<1> SUFFICES ASSUME Init PROVE IInv
  OBVIOUS
<1>1. /\ ids = 1 /\ made = <<NoRun>> /\ config \in [Backups -> Keys] /\ db = Empty
      /\ days = <<{}>> /\ strayed = {}
      /\ repo = [k \in Keys |-> [id |-> 1, snaps |-> {1}]] /\ calls = [c \in Calls |-> Idle]
  BY DEF Init, InitialTables
<1>2. made \in Seq(Runs \union {NoRun}) /\ Len(made) = 1 /\ days \in Seq(SUBSET Nat)
  BY <1>1
<1>3. SnapsInv(repo, made)
  BY <1>1, <1>2 DEF SnapsInv
<1>4. IsDb(db) /\ Attributed(db.artifacts, Told(made, strayed, calls))
  BY <1>1 DEF Empty, IsDb, Database, Identified, Attributed
<1>5. calls \in [Calls -> Call]
  BY <1>1, IdleCall
<1>6. \A c \in Calls : ~ Active(calls[c])
  BY <1>1, IdleCall DEF Active
<1>7. \A c \in Calls : Consistent(c, calls[c], repo, made, strayed)
  BY <1>1, IdleCall DEF Consistent, Active, Starting, Later
<1>8. \A r \in Runs : ~ Makes(made, r)
  BY <1>1, <1>2, CollectorAssumption DEF Makes
<1>9. LockInv(calls, repo, made)
  BY <1>6, <1>8 DEF LockInv, Calls
<1> QED
  BY <1>1, <1>2, <1>3, <1>4, <1>5, <1>7, <1>9 DEF IInv

LEMMA NextKeepsIInv == IInv /\ [Next]_vars => IInv'
<1> SUFFICES ASSUME IInv, [Next]_vars PROVE IInv'
  OBVIOUS
<1>1. ASSUME NEW r \in Runs,
             StartRun(r) \/ BackUp(r) \/ Forget(r) \/ CleanUp(r) \/ Operated(r)
      PROVE  IInv'
  BY <1>1, StartRunKeepsIInv, BackUpKeepsIInv, ForgetKeepsIInv, CleanUpKeepsIInv,
     OperatedKeepsIInv
<1>2. ASSUME NEW f \in Refreshes, StartRefresh(f) PROVE IInv'
  BY <1>2, StartRefreshKeepsIInv
<1>3. ASSUME NEW c \in Calls, Collect(c) PROVE IInv'
  BY <1>3, IdentifyKeepsIInv, StatsKeepsIInv, ListKeepsIInv, ListNothingKeepsIInv,
     ResolveKeepsIInv, ReboundKeepsIInv, RelistKeepsIInv, CheckDueKeepsIInv,
     PersistsKeepsIInv, BreaksKeepsIInv DEF Collect
<1>4. CASE RemoveLocation \/ Merge \/ Recreate \/ Copy \/ Reconfigure \/ NewDay
  BY <1>4, RemoveLocationKeepsIInv, MergeKeepsIInv, RecreateKeepsIInv, CopyKeepsIInv,
     ReconfigureKeepsIInv, NewDayKeepsIInv
<1>5. CASE UNCHANGED vars
  BY <1>5 DEF vars, outside, IInv
<1> QED
  BY <1>1, <1>2, <1>3, <1>4, <1>5 DEF Next

-----------------------------------------------------------------------------
(* The theorems.                                                            *)

\* The invariant of the collections: while a run holds the resource lock of a
\* repository, its own snapshot stays the newest there, if it has made one; and what it
\* has listed stays the whole of it, unless an edit of the configuration has led one of
\* its commands elsewhere (backup_stats_collector.py under the lock of runs.py).
THEOREM InductiveInvariant == Spec => []IInv
<1>1. Init => IInv
  BY InitIInv
<1>2. IInv /\ [Next]_vars => IInv'
  BY NextKeepsIInv
<1> QED
  BY <1>1, <1>2, PTL DEF Spec

\* A snapshot is attributed to no other run than the one that made it, whatever the order
\* of the collections, the mergers, the edits of the configuration and the prunings of the
\* tables.  Excepted are a run of which a command has gone to a repository that it had not
\* locked, and a run that has made no snapshot.
THEOREM RunsAreTold == Spec => []SnapshotsKeepTheirRun
<1>1. ASSUME IInv, NEW a \in db.artifacts
      PROVE  \/ a.by \in {NoRun, made[a.snap]}
             \/ a.by \in strayed
             \/ \A i \in DOMAIN made : made[i] # a.by
  <2> DEFINE names == Told(made, strayed, calls)
  <2>1. a.snap \in DOMAIN names /\ a.by \in names[a.snap]
    BY <1>1 DEF IInv, Attributed
  <2>2. names[a.snap] = {NoRun} \union
           {r \in Runs : /\ calls[r].at \notin {"idle", "operate"}
                         /\ made[a.snap] = r \/ r \in strayed \/ ~ Makes(made, r)}
    BY <2>1 DEF Told
  <2> HIDE DEF names
  <2> QED
    BY <2>1, <2>2 DEF Makes
<1>2. IInv => SnapshotsKeepTheirRun
  BY <1>1 DEF SnapshotsKeepTheirRun
<1> QED
  BY <1>2, InductiveInvariant, PTL

\* The keys and the ids of the locations stay unique in the tables, which every
\* lookup of a location by its canonical key relies on.
THEOREM LocationsAreUnique ==
    Spec => [](\A l, m \in db.locations : l.key = m.key \/ l.id = m.id => l = m)
<1>1. IInv => \A l, m \in db.locations : l.key = m.key \/ l.id = m.id => l = m
  BY DEF IInv, IsDb, Identified
<1> QED
  BY <1>1, InductiveInvariant, PTL

\* A full collection of a run under its lock, or one that nothing has overtaken, leaves
\* the location of the repository with exactly the snapshots that are in it.  Excepted are
\* a run of which a command has gone to a repository that it had not locked; a cleanup,
\* which lists nothing; and a collection whose own location the configuration that it
\* read no longer names, so that retention may remove it.
THEOREM ListsAreReconciled == Spec => ReconcileIsExact
<1> DEFINE Exactly(c) ==
             (/\ Persists(c) /\ Full(c)
              /\ \/ calls[c].exact
                 \/ c \in Runs \ strayed /\ Lists(c)
              /\ calls[c].key \in calls[c].protected.keys \/ ~ calls[c].protected.known)
             => PresentAt(db', calls[c].key) = repo[calls[c].key].snaps
<1>1. ASSUME IInv, NEW c \in Calls PROVE Exactly(c)
  <2>1. SUFFICES ASSUME Persists(c), Full(c), calls[c].exact \/ (c \in Runs \ strayed /\ Lists(c)),
                        calls[c].key \in calls[c].protected.keys
                           \/ ~ calls[c].protected.known
                 PROVE  PresentAt(db', calls[c].key) = repo[calls[c].key].snaps
    OBVIOUS
  <2>2. PresentAt(db', calls[c].key) = calls[c].snaps
    BY <1>1, <2>1, PersistsOf
  <2>3. calls[c].at = "persist"
    BY <2>1 DEF Persists, Collecting
  <2>4. Consistent(c, calls[c], repo, made, strayed) /\ Trigger(c) = Cause(c, calls[c])
    BY <1>1, <2>3, CallFacts DEF Later
  <2>5. calls[c].ok /\ Complete(c, calls[c])
    BY <2>1, <2>4 DEF Full, Complete
  <2>6. calls[c].exact
    BY <2>1, <2>3, <2>4, <2>5 DEF Lists, Consistent, Later
  <2> QED
    BY <2>2, <2>3, <2>4, <2>5, <2>6 DEF Consistent
<1>2. IInv /\ [Next]_vars => [\A c \in Calls : Exactly(c)]_vars
  BY <1>1
<1> QED
  BY <1>2, InductiveInvariant, PTL DEF Spec, ReconcileIsExact

\* The retention of the day removes nothing that is present at another location that the
\* configuration names (README.md:521).  Excepted are a location that the configuration
\* names only since the collection has read it, and a retention that was not due when the
\* collection asked and has become due again before its transaction.
THEOREM RetentionSparesTheConfigured == Spec => RetentionSparesWhatIsUsed
<1> DEFINE Spared(c, k) ==
             \/ PresentAt(db, k) \subseteq PresentAt(db', k)
             \/ calls[c].due /\ calls[c].protected.known /\ k \notin calls[c].protected.keys
             \/ ~ calls[c].due /\ RetentionIsDue(db, calls[c].id, calls[c].day)
<1>1. ASSUME IInv, NEW c \in Calls, Persists(c), NEW k \in Configured \ {calls[c].key}
      PROVE  Spared(c, k)
  <2>1. k # calls[c].key
    OBVIOUS
  <2>2. \/ ~ calls[c].protected.known \/ k \in calls[c].protected.keys
        \/ ~ RetentionIsDue(db, calls[c].id, calls[c].day)
        => PresentAt(db, k) \subseteq PresentAt(db', k)
    BY <1>1, <2>1, PersistsOf
  <2> QED
    BY <2>2
<1>2. IInv /\ [Next]_vars =>
         [\A c \in Calls :
            Persists(c) => \A k \in Configured \ {calls[c].key} : Spared(c, k)]_vars
  BY <1>1
<1> QED
  BY <1>2, InductiveInvariant, PTL DEF Spec, RetentionSparesWhatIsUsed

\* Two locations are merged without losing a snapshot that either of them has, nor a
\* point of the growth of the repository.
THEOREM MergersLoseNothing == Spec => MergeLosesNothing
<1> DEFINE Kept(s, t) ==
             (/\ Merge /\ s # t /\ s.repo = t.repo
              /\ db' = MergeLocation(db, s, t))
             => Present(db) = Present(db') /\ Growth(db, s.repo) = Growth(db', s.repo)
<1>1. ASSUME IInv, NEW s \in db.locations, NEW t \in db.locations PROVE Kept(s, t)
  BY <1>1, MergeLocationOf DEF IInv
<1>2. IInv /\ [Next]_vars => [\A s, t \in db.locations : Kept(s, t)]_vars
  BY <1>1
<1> QED
  BY <1>2, InductiveInvariant, PTL DEF Spec, MergeLosesNothing

=============================================================================
