----------------------------- MODULE ConfigProofs ------------------------------
(***************************************************************************)
(* Proofs about ConfigEditor for any number of requests, any operations    *)
(* and texts, and about ConfigModel for every document.                    *)
(*                                                                         *)
(* Four parts: what an edit leaves alone (EditFrame); what the requests    *)
(* keep of the file they have read (IInv); the agreement of the three      *)
(* translations of the inheritance; and what a page puts into its table    *)
(* when it is saved as it is shown (Alike, PagesUnchanging).               *)
(***************************************************************************)
EXTENDS ConfigEditor, FiniteSetTheorems, TLAPS

-----------------------------------------------------------------------------
(* Tables and documents.                                                    *)

LEMMA OverTables ==
    ASSUME NEW upper, NEW lower, IsTable(upper), IsTable(lower)
    PROVE  IsTable(Over(upper, lower))
  BY DEF IsTable, Over

LEMMA TableOf == ASSUME NEW doc, IsDocument(doc), NEW p PROVE IsTable(At(doc, p))
<1>1. IsTable(<<>>)
  BY DEF IsTable
<1> QED
  BY <1>1 DEF IsDocument, At

\* The path of a task.
LEMMA TaskPath ==
    ASSUME NEW doc, IsDocument(doc), NEW p \in DOMAIN doc, IsTask(p)
    PROVE  /\ p = <<p[1], p[2], p[3]>> /\ p[1] \in Kinds /\ p \notin GlobalPaths
           /\ p[2] # Nothing /\ p[3] # Nothing /\ <<"job", p[2]>> \in DOMAIN doc
<1>1. IsPath(p) /\ (p \in GlobalPaths \/ <<"job", p[2]>> \in DOMAIN doc)
  BY DEF IsDocument
<1>2. p \notin GlobalPaths
  BY DEF GlobalPaths, IsTask
<1>3. Len(p) = 3
  BY DEF IsTask
<1>4. p # <<p[1], p[2]>>
  BY <1>3
<1> QED
  BY <1>1, <1>2, <1>4 DEF IsPath

\* Writing one table changes this table.
LEMMA PutFrame ==
    ASSUME NEW doc, NEW q, NEW table, NEW p, p # q
    PROVE  At(Put(doc, q, table), p) = At(doc, p)
  BY DEF Put, At

LEMMA WithoutFrame ==
    ASSUME NEW doc, NEW ps, NEW p, p \notin ps
    PROVE  At(Without(doc, ps), p) = At(doc, p)
  BY DEF Without, At

LEMMA PutOrDropFrame ==
    ASSUME NEW doc, NEW q, NEW table, NEW p, p # q
    PROVE  At(PutOrDrop(doc, q, table), p) = At(doc, p)
  BY PutFrame, WithoutFrame DEF PutOrDrop

\* The tables of the global page are no tables of a job.
LEMMA GlobalPath ==
    /\ GlobalPaths = {<<"global">>, <<"global", "backup">>, <<"global", "rclone">>}
    /\ \A p \in GlobalPaths : p[1] = "global" /\ IsPath(p)
    /\ \A p : IsPath(p) => (p \in GlobalPaths <=> p[1] = "global")
    /\ \A p \in GlobalPaths : \A j : p # <<"job", j>>
<1>1. GlobalPaths = {<<"global">>, <<"global", "backup">>, <<"global", "rclone">>}
  BY DEF GlobalPaths, Containers
<1>2. \A p \in GlobalPaths : p[1] = "global"
  BY <1>1
<1>3. \A p : IsPath(p) /\ p \notin GlobalPaths => p[1] \in Kinds \union {"job"}
  BY DEF IsPath, Kinds
<1>4. ASSUME NEW p \in GlobalPaths, NEW j, p = <<"job", j>> PROVE FALSE
  BY <1>2, <1>4
<1> QED
  BY <1>1, <1>2, <1>3, <1>4 DEF IsPath, Kinds, Containers

\* A table can be written where its job is, and removed unless it is the job's own.
LEMMA PutDocument ==
    ASSUME NEW doc, IsDocument(doc), NEW q, IsPath(q),
           q \in GlobalPaths \/ <<"job", q[2]>> \in DOMAIN doc \union {q},
           NEW table, IsTable(table)
    PROVE  IsDocument(Put(doc, q, table))
  BY DEF IsDocument, Put

LEMMA WithoutDocument ==
    ASSUME NEW doc, IsDocument(doc), NEW ps,
           \A p \in DOMAIN doc \ ps : p \in GlobalPaths \/ <<"job", p[2]>> \notin ps
    PROVE  IsDocument(Without(doc, ps))
  BY DEF IsDocument, Without

LEMMA PutOrDropDocument ==
    ASSUME NEW doc, IsDocument(doc), NEW q, IsPath(q),
           q \in GlobalPaths \/ <<"job", q[2]>> \in DOMAIN doc,
           \A j : q # <<"job", j>>,
           NEW table, IsTable(table)
    PROVE  IsDocument(PutOrDrop(doc, q, table))
<1>1. IsDocument(Without(doc, {q}))
  BY WithoutDocument
<1>2. IsDocument(Put(doc, q, table))
  BY PutDocument
<1> QED
  BY <1>1, <1>2 DEF PutOrDrop

LEMMA RenameFrame ==
    ASSUME NEW doc, NEW old, NEW new, NEW p, p # old, p # new
    PROVE  At(Rename(doc, old, new), p) = At(doc, p)
  BY DEF Rename, At

LEMMA RenameDocument ==
    ASSUME NEW doc, IsDocument(doc), NEW k \in Kinds, NEW j, NEW old, NEW new,
           new # Nothing, <<k, j, old>> \in DOMAIN doc
    PROVE  /\ IsDocument(Rename(doc, <<k, j, old>>, <<k, j, new>>))
           /\ \A p \in DOMAIN doc : p # <<k, j, old>> =>
                 p \in DOMAIN Rename(doc, <<k, j, old>>, <<k, j, new>>)
<1> DEFINE O == <<k, j, old>>
           N == <<k, j, new>>
<1>1. /\ IsPath(O) /\ O \notin GlobalPaths
      /\ <<"job", j>> \in DOMAIN doc /\ j # Nothing /\ <<"job", j>> # O
  <2>1. O \notin GlobalPaths
    BY GlobalPath DEF Kinds, Containers
  <2>2. O \in DOMAIN doc /\ O[2] = j
    OBVIOUS
  <2>3. IsPath(O) /\ <<"job", j>> \in DOMAIN doc
    BY <2>1, <2>2 DEF IsDocument
  <2>4. j # Nothing
    BY <2>1, <2>3 DEF IsPath
  <2>5. <<"job", j>> # O
    BY DEF Kinds, Containers
  <2> QED
    BY <2>1, <2>3, <2>4, <2>5
<1>2. IsPath(N) /\ N[2] = j
  BY <1>1 DEF IsPath
<1> HIDE DEF O, N
<1>3. \A q : q \in DOMAIN Rename(doc, O, N) <=> q = N \/ (q \in DOMAIN doc /\ q # O)
  BY DEF Rename, O
<1>4. ASSUME NEW q \in DOMAIN Rename(doc, O, N)
      PROVE  /\ IsPath(q) /\ IsTable(Rename(doc, O, N)[q])
             /\ q \in GlobalPaths \/ <<"job", q[2]>> \in DOMAIN Rename(doc, O, N)
  <2>1. Rename(doc, O, N)[q] = IF q = N THEN doc[O] ELSE doc[q]
    BY <1>4 DEF Rename
  <2>2. O \in DOMAIN doc
    BY DEF O
  <2>3. IsPath(q) /\ IsTable(Rename(doc, O, N)[q])
    BY <1>2, <1>3, <2>1, <2>2 DEF IsDocument
  <2>4. CASE q = N
    BY <1>1, <1>2, <1>3, <2>3, <2>4
  <2>5. CASE q # N
    <3>1. q \in GlobalPaths \/ <<"job", q[2]>> \in DOMAIN doc
      BY <1>3, <2>5 DEF IsDocument
    <3>2. <<"job", q[2]>> # O
      BY DEF O, Kinds, Containers
    <3> QED
      BY <1>3, <2>3, <3>1, <3>2
  <2> QED
    BY <2>4, <2>5
<1>5. IsDocument(Rename(doc, O, N))
  BY <1>4 DEF IsDocument
<1> QED
  BY <1>3, <1>5 DEF O, N

\* A job takes its tables along when it gets a new name, and no others.
LEMMA RenameJobFrame ==
    ASSUME NEW doc, IsDocument(doc), NEW old, NEW new, new # Nothing, <<"job", old>> \in DOMAIN doc
    PROVE  /\ \A p : ~ OfJob(p, old) /\ ~ OfJob(p, new) =>
                 At(RenameJob(doc, old, new), p) = At(doc, p)
           /\ IsDocument(RenameJob(doc, old, new))
           /\ <<"job", new>> \in DOMAIN RenameJob(doc, old, new)
<1> DEFINE name(p) == IF OfJob(p, old) THEN [p EXCEPT ![2] = new] ELSE p
           renamed == RenameJob(doc, old, new)
<1>1. /\ DOMAIN renamed = {name(p) : p \in DOMAIN doc}
      /\ \A q \in DOMAIN renamed :
            renamed[q] = doc[CHOOSE p \in DOMAIN doc : name(p) = q]
  BY DEF RenameJob
<1> HIDE DEF renamed
<1>2. ASSUME NEW p \in DOMAIN doc, OfJob(p, old)
      PROVE  OfJob(name(p), new) /\ IsPath(name(p)) /\ name(p)[2] = new
  <2>1. IsPath(p) /\ p[1] # "global" /\ p \notin GlobalPaths
    BY <1>2, GlobalPath DEF IsDocument, OfJob
  <2>2. name(p) = [p EXCEPT ![2] = new]
    BY <1>2
  <2> HIDE DEF name
  <2>3. CASE p = <<p[1], p[2]>> /\ p[1] \in Containers \union {"job"}
    <3>1. name(p) = <<p[1], new>>
      BY <2>2, <2>3
    <3>2. name(p)[1] = p[1] /\ name(p)[2] = new
      BY <3>1
    <3> QED
      BY <2>1, <2>3, <3>1, <3>2 DEF IsPath, OfJob
  <2>4. CASE p = <<p[1], p[2], p[3]>> /\ p[1] \in Kinds /\ p[3] # Nothing
    <3>1. name(p) = <<p[1], new, p[3]>>
      BY <2>2, <2>4
    <3>2. name(p)[1] = p[1] /\ name(p)[2] = new /\ name(p)[3] = p[3]
      BY <3>1
    <3> QED
      BY <2>1, <2>4, <3>1, <3>2 DEF IsPath, OfJob
  <2> QED
    BY <2>1, <2>3, <2>4 DEF IsPath
<1>3. ASSUME NEW p \in DOMAIN doc, ~ OfJob(p, old)
      PROVE  name(p) = p
  BY <1>3
<1>4. \A q \in DOMAIN renamed :
         /\ \E p \in DOMAIN doc : name(p) = q
         /\ (CHOOSE p \in DOMAIN doc : name(p) = q) \in DOMAIN doc
         /\ name(CHOOSE p \in DOMAIN doc : name(p) = q) = q
  BY <1>1
<1> HIDE DEF name
<1>5. ASSUME NEW p, ~ OfJob(p, old), ~ OfJob(p, new)
      PROVE  At(renamed, p) = At(doc, p)
  <2>1. CASE p \in DOMAIN doc
    <3>1. p \in DOMAIN renamed
      BY <1>1, <1>3, <1>5, <2>1
    <3>2. (CHOOSE q \in DOMAIN doc : name(q) = p) = p
      BY <1>2, <1>3, <1>4, <1>5, <3>1
    <3> QED
      BY <1>1, <2>1, <3>1, <3>2 DEF At
  <2>2. CASE p \notin DOMAIN doc
    <3>1. p \notin DOMAIN renamed
      BY <1>2, <1>3, <1>4, <1>5, <2>2
    <3> QED
      BY <2>2, <3>1 DEF At
  <2> QED
    BY <2>1, <2>2
<1>6. <<"job", new>> \in DOMAIN renamed
  <2> DEFINE p == <<"job", old>>
  <2>1. OfJob(p, old) /\ [p EXCEPT ![2] = new] = <<"job", new>>
    BY DEF OfJob
  <2>2. name(p) = <<"job", new>>
    BY <2>1 DEF name
  <2> QED
    BY <1>1, <2>2
<1>7. IsDocument(renamed)
  <2>1. ASSUME NEW q \in DOMAIN renamed
        PROVE  /\ IsPath(q) /\ IsTable(renamed[q])
               /\ q \in GlobalPaths \/ <<"job", q[2]>> \in DOMAIN renamed
    <3>1. PICK p \in DOMAIN doc : name(p) = q /\ renamed[q] = doc[p]
      BY <1>1, <1>4
    <3>2. IsPath(p) /\ IsTable(doc[p]) /\ (p \in GlobalPaths \/ <<"job", p[2]>> \in DOMAIN doc)
      BY DEF IsDocument
    <3>3. CASE OfJob(p, old)
      BY <1>2, <1>6, <3>1, <3>2, <3>3
    <3>4. CASE ~ OfJob(p, old)
      <4>1. q = p
        BY <1>3, <3>1, <3>4
      <4>2. CASE q \in GlobalPaths
        BY <3>1, <3>2, <4>1, <4>2
      <4>3. CASE q \notin GlobalPaths
        <5>1. q[2] # old
          BY <3>2, <3>4, <4>1, <4>3, GlobalPath DEF OfJob
        <5> DEFINE J == <<"job", q[2]>>
        <5>2. J \in DOMAIN doc /\ J[2] = q[2]
          BY <3>2, <4>1, <4>3
        <5>3. ~ OfJob(J, old)
          BY <5>1, <5>2 DEF OfJob
        <5> HIDE DEF J
        <5>4. J \in DOMAIN renamed
          BY <1>1, <1>3, <5>2, <5>3
        <5> QED
          BY <3>1, <3>2, <4>1, <5>4 DEF J
      <4> QED
        BY <4>2, <4>3
    <3> QED
      BY <3>3, <3>4
  <2> QED
    BY <2>1 DEF IsDocument
<1> QED
  BY <1>5, <1>6, <1>7 DEF renamed

-----------------------------------------------------------------------------
(* Edits.                                                                   *)

\* A form that is accepted leaves a table.
LEMMA FieldsTable ==
    ASSUME NEW table, NEW p, NEW form, IsTable(table), IsForm(p, form), ~ FormIsBad(form)
    PROVE  IsTable(ApplyFields(table, form))
<1> DEFINE set == [f \in {g \in DOMAIN form : form[g] # Blank} |-> form[f]]
           rest == [f \in DOMAIN table \ DOMAIN form |-> table[f]]
<1>1. IsTable(set)
  BY DEF IsTable, IsForm, FormIsBad, Odd
<1>2. IsTable(rest)
  BY DEF IsTable
<1> QED
  BY <1>1, <1>2, OverTables DEF ApplyFields

LEMMA CredentialTable ==
    ASSUME NEW table, NEW secret, IsTable(table), IsSecret(secret),
           ~ CredentialIsBad(table, secret)
    PROVE  IsTable(ApplyCredential(table, secret))
<1> DEFINE rest == [f \in DOMAIN table \ Passwords |-> table[f]]
           value == IF secret.value = Blank THEN table["password"] ELSE secret.value
           one == [f \in {secret.mode} |-> value]
<1>1. IsTable(rest)
  BY DEF IsTable
<1>2. CASE secret.mode \in {"absent", "inherit"}
  BY <1>1, <1>2 DEF ApplyCredential
<1>3. CASE secret.mode \in Passwords
  <2>1. ApplyCredential(table, secret) = Over(one, rest)
    BY <1>3 DEF ApplyCredential, Passwords
  <2>2. secret.value = Blank => "password" \in DOMAIN table
    BY <1>3 DEF CredentialIsBad
  <2>3. \/ value \notin {Nothing, Blank, NotANumber, "empty"} \union Odd
        \/ secret.value = Blank /\ value = table["password"]
    BY DEF IsSecret
  <2>4. value \notin {Nothing, Blank, NotANumber, "empty"} \union Odd
    BY <2>2, <2>3 DEF IsTable, Lists, Flags, Texts, Numbers, Odd
  <2>5. IsTable(one)
    BY <2>4 DEF IsTable, Odd
  <2> QED
    BY <1>1, <2>1, <2>5, OverTables
<1> QED
  BY <1>2, <1>3 DEF IsSecret

\* An edit that is accepted leaves the tables alone that it is not about.
LEMMA EditFrame ==
    ASSUME NEW doc, IsDocument(doc), NEW op, IsOperation(op), Edit(doc, op).ok,
           NEW p, ~ Addressed(op, p)
    PROVE  At(Edit(doc, op).doc, p) = At(doc, p)
<1> USE DEF Done, Refusal
<1>1. CASE op.what = "global"
  <2> DEFINE G == <<"global">>
             B == <<"global", "backup">>
             R == <<"global", "rclone">>
  <2>1. p # G /\ p # B /\ p # R
    BY <1>1 DEF Addressed
  <2>2. Edit(doc, op) = SaveGlobal(doc, op)
    BY <1>1 DEF Edit
  <2>3. \E global, backup, rclone :
          Edit(doc, op).doc = PutOrDrop(PutOrDrop(Put(doc, G, global), B, backup), R, rclone)
    BY <2>2 DEF SaveGlobal
  <2> HIDE DEF G, B, R
  <2> QED
    BY <2>1, <2>3, PutFrame, PutOrDropFrame
<1>2. CASE op.what = "job"
  <2> DEFINE q == <<"job", op.new>>
             renamed == IF op.job = Nothing THEN Put(doc, q, <<>>)
                        ELSE RenameJob(doc, op.job, op.new)
  <2>1. ~ OfJob(p, op.job) /\ ~ OfJob(p, op.new) /\ p # q
    BY <1>2 DEF Addressed, OfJob
  <2>2. Edit(doc, op) = SaveJob(doc, op)
    BY <1>2 DEF Edit
  <2>3. /\ Edit(doc, op).doc = Put(renamed, q, ApplyFields(At(renamed, q), op.form))
        /\ op.job # Nothing => <<"job", op.job>> \in DOMAIN doc
    BY <2>2 DEF SaveJob
  <2>4. op.new # Nothing
    BY <1>2 DEF IsOperation
  <2> HIDE DEF q
  <2>5. At(renamed, p) = At(doc, p)
    <3>1. CASE op.job = Nothing
      BY <2>1, <3>1, PutFrame
    <3>2. CASE op.job # Nothing
      <4>1. <<"job", op.job>> \in DOMAIN doc
        BY <2>3, <3>2
      <4>2. At(RenameJob(doc, op.job, op.new), p) = At(doc, p)
        <5>1. ~ OfJob(p, op.job) /\ ~ OfJob(p, op.new)
          BY <2>1
        <5>2. \A x : ~ OfJob(x, op.job) /\ ~ OfJob(x, op.new) =>
                       At(RenameJob(doc, op.job, op.new), x) = At(doc, x)
          BY <2>4, <4>1, RenameJobFrame
        <5> QED
          BY <5>1, <5>2
      <4> QED
        BY <3>2, <4>2
    <3> QED
      BY <3>1, <3>2
  <2> HIDE DEF renamed
  <2> QED
    BY <2>1, <2>3, <2>5, PutFrame
<1>3. CASE op.what = "defaults"
  <2> DEFINE q == <<op.kind, op.job>>
  <2>1. p # q /\ op.kind \in Containers
    BY <1>3 DEF Addressed, IsOperation
  <2>2. \E table : Edit(doc, op).doc = PutOrDrop(doc, q, table)
    <3>1. CASE op.kind = "backup"
      <4>1. Edit(doc, op) = SaveBackupDefaults(doc, op)
        BY <1>3, <3>1 DEF Edit
      <4> QED
        BY <3>1, <4>1 DEF SaveBackupDefaults
    <3>2. CASE op.kind = "rclone"
      <4>1. Edit(doc, op) = SaveRcloneDefaults(doc, op)
        BY <1>3, <3>2 DEF Edit
      <4> QED
        BY <3>2, <4>1 DEF SaveRcloneDefaults
    <3> QED
      BY <2>1, <3>1, <3>2 DEF Containers
  <2> HIDE DEF q
  <2> QED
    BY <2>1, <2>2, PutOrDropFrame
<1>4. CASE op.what = "task"
  <2> DEFINE old == <<op.kind, op.job, op.task>>
             new == <<op.kind, op.job, op.new>>
  <2>1. p # old /\ p # new
    BY <1>4 DEF Addressed
  <2>2. Placed(doc, op) = IF op.task = Nothing THEN Put(doc, new, <<>>)
                          ELSE Rename(doc, old, new)
    BY DEF Placed
  <2>3. \E table : Edit(doc, op).doc = Put(Placed(doc, op), new, table)
    <3>1. CASE op.kind = "backup"
      <4>1. Edit(doc, op) = SaveBackup(doc, op)
        BY <1>4, <3>1 DEF Edit
      <4> QED
        BY <3>1, <4>1 DEF SaveBackup
    <3>2. CASE op.kind = "rclone"
      <4>1. Edit(doc, op) = SaveRclone(doc, op)
        BY <1>4, <3>2 DEF Edit
      <4> QED
        BY <3>2, <4>1 DEF SaveRclone
    <3>3. CASE op.kind = "workflow"
      <4>1. Edit(doc, op) = SaveWorkflow(doc, op)
        BY <1>4, <3>3 DEF Edit
      <4> QED
        BY <3>3, <4>1 DEF SaveWorkflow
    <3> QED
      BY <1>4, <3>1, <3>2, <3>3 DEF IsOperation, Kinds, Containers
  <2> HIDE DEF old, new
  <2>4. At(Placed(doc, op), p) = At(doc, p)
    BY <2>1, <2>2, PutFrame, RenameFrame
  <2> QED
    BY <2>1, <2>3, <2>4, PutFrame
<1>5. CASE op.what = "delete"
  <2> DEFINE q == <<op.kind, op.job, op.task>>
  <2>1. p # q /\ Edit(doc, op) = DeleteTask(doc, op)
    BY <1>5 DEF Addressed, Edit
  <2>2. Edit(doc, op).doc = Without(doc, {q})
    BY <2>1 DEF DeleteTask
  <2> HIDE DEF q
  <2> QED
    BY <2>1, <2>2, WithoutFrame
<1>6. CASE op.what = "deleteJob"
  <2> DEFINE gone == {q \in DOMAIN doc : OfJob(q, op.job)}
  <2>1. p \notin gone /\ Edit(doc, op) = DeleteJob(doc, op)
    BY <1>6 DEF Addressed, Edit
  <2>2. Edit(doc, op).doc = Without(doc, gone)
    BY <2>1 DEF DeleteJob
  <2> HIDE DEF gone
  <2> QED
    BY <2>1, <2>2, WithoutFrame
<1> QED
  BY <1>1, <1>2, <1>3, <1>4, <1>5, <1>6 DEF IsOperation

\* ... and makes a document of a document.
LEMMA EditDocument ==
    ASSUME NEW doc, IsDocument(doc), NEW op, IsOperation(op), Edit(doc, op).ok
    PROVE  IsDocument(Edit(doc, op).doc)
<1> USE DEF Done, Refusal
<1> USE GlobalPath
<1>1. CASE op.what = "global"
  <2> DEFINE G == <<"global">>
             B == <<"global", "backup">>
             R == <<"global", "rclone">>
             backup == ApplyFields(At(doc, B), op.tables[B])
             secret == ApplyCredential(backup, op.secret)
             rclone == ApplyFields(At(doc, R), op.tables[R])
             global == ApplyFields(At(doc, G), op.tables[G])
  <2>1. /\ IsSecret(op.secret) /\ DOMAIN op.tables = GlobalPaths
        /\ \A p \in GlobalPaths : IsForm(p, op.tables[p])
    BY <1>1 DEF IsOperation
  <2>2. Edit(doc, op) = SaveGlobal(doc, op)
    BY <1>1 DEF Edit
  <2>3. /\ ~ CredentialIsBad(backup, op.secret)
        /\ \A p \in DOMAIN op.tables : ~ FormIsBad(op.tables[p])
        /\ Edit(doc, op).doc = PutOrDrop(PutOrDrop(Put(doc, G, global), B, secret), R, rclone)
    BY <2>2 DEF SaveGlobal
  <2>4. G \in GlobalPaths /\ B \in GlobalPaths /\ R \in GlobalPaths
    OBVIOUS
  <2> HIDE DEF G, B, R
  <2>5. IsTable(global) /\ IsTable(rclone) /\ IsTable(secret)
    BY <2>1, <2>3, <2>4, TableOf, FieldsTable, CredentialTable
  <2> HIDE DEF backup, secret, rclone, global
  <2>6. IsDocument(Put(doc, G, global))
    BY <2>4, <2>5, PutDocument
  <2>7. IsDocument(PutOrDrop(Put(doc, G, global), B, secret))
    BY <2>4, <2>5, <2>6, PutOrDropDocument
  <2> QED
    BY <2>3, <2>4, <2>5, <2>7, PutOrDropDocument
<1>2. CASE op.what = "job"
  <2> DEFINE p == <<"job", op.new>>
             renamed == IF op.job = Nothing THEN Put(doc, p, <<>>)
                        ELSE RenameJob(doc, op.job, op.new)
  <2>1. /\ op.new # Nothing /\ IsForm(<<"job", op.new>>, op.form)
        /\ Edit(doc, op) = SaveJob(doc, op)
    BY <1>2 DEF IsOperation, Edit
  <2>2. /\ Edit(doc, op).doc = Put(renamed, p, ApplyFields(At(renamed, p), op.form))
        /\ ~ FormIsBad(op.form)
        /\ op.job # Nothing => <<"job", op.job>> \in DOMAIN doc
    BY <2>1 DEF SaveJob
  <2>3. IsPath(p) /\ p[2] = op.new /\ IsTable(<<>>)
    BY <2>1 DEF IsPath, IsTable
  <2>4. IsDocument(renamed) /\ p \in DOMAIN renamed
    <3>1. CASE op.job = Nothing
      <4>1. IsDocument(Put(doc, p, <<>>))
        <5>1. p \in GlobalPaths \/ <<"job", p[2]>> \in DOMAIN doc \union {p}
          BY <2>3
        <5> HIDE DEF p
        <5> QED
          BY <2>3, <5>1, PutDocument
      <4>2. p \in DOMAIN Put(doc, p, <<>>)
        BY DEF Put
      <4> QED
        BY <3>1, <4>1, <4>2
    <3>2. CASE op.job # Nothing
      BY <2>1, <2>2, <3>2, RenameJobFrame
    <3> QED
      BY <3>1, <3>2
  <2> HIDE DEF renamed
  <2>5. IsTable(ApplyFields(At(renamed, p), op.form))
    BY <2>1, <2>2, <2>4, TableOf, FieldsTable
  <2>6. IsDocument(Put(renamed, p, ApplyFields(At(renamed, p), op.form)))
    BY <2>3, <2>4, <2>5, PutDocument
  <2> QED
    BY <2>2, <2>6
<1>3. CASE op.what = "defaults"
  <2> DEFINE p == <<op.kind, op.job>>
             table == ApplyFields(At(doc, p), op.form)
  <2>1. op.kind \in Containers /\ IsForm(<<op.kind, op.job>>, op.form)
    BY <1>3 DEF IsOperation
  <2>2. /\ ~ FormIsBad(op.form) /\ <<"job", op.job>> \in DOMAIN doc
        /\ \/ Edit(doc, op).doc = PutOrDrop(doc, p, table)
           \/ /\ IsSecret(op.secret) /\ ~ CredentialIsBad(table, op.secret)
              /\ Edit(doc, op).doc = PutOrDrop(doc, p, ApplyCredential(table, op.secret))
    <3>1. CASE op.kind = "backup"
      <4>1. Edit(doc, op) = SaveBackupDefaults(doc, op)
        BY <1>3, <3>1 DEF Edit
      <4>2. IsSecret(op.secret)
        BY <1>3, <3>1 DEF IsOperation
      <4> QED
        BY <3>1, <4>1, <4>2 DEF SaveBackupDefaults
    <3>2. CASE op.kind = "rclone"
      <4>1. Edit(doc, op) = SaveRcloneDefaults(doc, op)
        BY <1>3, <3>2 DEF Edit
      <4> QED
        BY <3>2, <4>1 DEF SaveRcloneDefaults
    <3> QED
      BY <2>1, <3>1, <3>2 DEF Containers
  <2>3. op.job # Nothing
    <3>1. IsPath(<<"job", op.job>>)
      BY <2>2 DEF IsDocument
    <3> QED
      BY <3>1 DEF IsPath
  <2>4. IsPath(p) /\ p[2] = op.job /\ \A j : p # <<"job", j>>
    BY <2>1, <2>3 DEF IsPath, Containers
  <2>5. IsTable(table)
    BY <2>1, <2>2, TableOf, FieldsTable
  <2>6. /\ IsSecret(op.secret) /\ ~ CredentialIsBad(table, op.secret)
        => IsTable(ApplyCredential(table, op.secret))
    BY <2>5, CredentialTable
  <2> HIDE DEF p, table
  <2> QED
    BY <2>2, <2>4, <2>5, <2>6, PutOrDropDocument
<1>4. CASE op.what = "task"
  <2> DEFINE p == <<op.kind, op.job, op.new>>
             table == ApplyFields(At(Placed(doc, op), p), op.form)
  <2>1. op.kind \in Kinds /\ op.new # Nothing /\ IsForm(<<op.kind, op.job, op.new>>, op.form)
    BY <1>4 DEF IsOperation
  <2>2. ASSUME ~ TaskRefused(doc, op)
        PROVE  /\ IsDocument(Placed(doc, op)) /\ IsTable(table) /\ IsPath(p) /\ p[2] = op.job
               /\ <<"job", op.job>> \in DOMAIN Placed(doc, op)
    <3>1. /\ <<"job", op.job>> \in DOMAIN doc /\ ~ FormIsBad(op.form)
          /\ op.task # Nothing => <<op.kind, op.job, op.task>> \in DOMAIN doc
      BY <2>2 DEF TaskRefused
    <3>2. op.job # Nothing
      <4>1. IsPath(<<"job", op.job>>)
        BY <3>1 DEF IsDocument
      <4> QED
        BY <4>1 DEF IsPath
    <3>3. IsPath(p) /\ p[2] = op.job
      BY <2>1, <3>2 DEF IsPath
    <3>4. IsDocument(Placed(doc, op)) /\ <<"job", op.job>> \in DOMAIN Placed(doc, op)
      <4>1. CASE op.task = Nothing
        <5>1. Placed(doc, op) = Put(doc, p, <<>>)
          BY <4>1 DEF Placed
        <5>2. IsTable(<<>>)
          BY DEF IsTable
        <5> HIDE DEF p
        <5>3. IsDocument(Put(doc, p, <<>>))
          BY <3>1, <3>3, <5>2, PutDocument
        <5>4. <<"job", op.job>> \in DOMAIN Put(doc, p, <<>>)
          BY <3>1 DEF Put
        <5> QED
          BY <5>1, <5>3, <5>4
      <4>2. CASE op.task # Nothing
        <5>1. Placed(doc, op) = Rename(doc, <<op.kind, op.job, op.task>>, p)
          BY <4>2 DEF Placed
        <5>2. <<op.kind, op.job, op.task>> \in DOMAIN doc
          BY <3>1, <4>2
        <5>3. <<"job", op.job>> # <<op.kind, op.job, op.task>>
          BY <2>1 DEF Kinds, Containers
        <5> DEFINE after == Rename(doc, <<op.kind, op.job, op.task>>, p)
        <5>4. /\ IsDocument(after)
              /\ \A q \in DOMAIN doc : q # <<op.kind, op.job, op.task>> => q \in DOMAIN after
          BY <2>1, <5>2, RenameDocument
        <5> HIDE DEF after
        <5> QED
          BY <3>1, <5>1, <5>3, <5>4 DEF after
      <4> QED
        BY <4>1, <4>2
    <3>5. IsTable(table)
      BY <2>1, <3>1, <3>4, TableOf, FieldsTable
    <3> QED
      BY <3>3, <3>4, <3>5
  <2>3. CASE op.kind = "backup"
    <3>1. IsSecret(op.secret) /\ Edit(doc, op) = SaveBackup(doc, op)
      BY <1>4, <2>3 DEF IsOperation, Edit
    <3>2. /\ ~ TaskRefused(doc, op) /\ ~ CredentialIsBad(table, op.secret)
          /\ Edit(doc, op).doc = Put(Placed(doc, op), p, ApplyCredential(table, op.secret))
      BY <2>3, <3>1 DEF SaveBackup
    <3> HIDE DEF p, table
    <3>3. IsTable(ApplyCredential(table, op.secret))
      BY <2>2, <3>1, <3>2, CredentialTable
    <3> QED
      BY <2>2, <3>2, <3>3, PutDocument
  <2>4. CASE op.kind = "rclone"
    <3>1. Edit(doc, op) = SaveRclone(doc, op)
      BY <1>4, <2>4 DEF Edit
    <3>2. ~ TaskRefused(doc, op) /\ Edit(doc, op).doc = Put(Placed(doc, op), p, table)
      BY <2>4, <3>1 DEF SaveRclone
    <3> HIDE DEF p, table
    <3> QED
      BY <2>2, <3>2, PutDocument
  <2>5. CASE op.kind = "workflow"
    <3> DEFINE steps == [f \in {"steps"} |-> op.steps]
    <3>1. Edit(doc, op) = SaveWorkflow(doc, op)
      BY <1>4, <2>5 DEF Edit
    <3>2. /\ ~ TaskRefused(doc, op)
          /\ Edit(doc, op).doc = Put(Placed(doc, op), p, Over(steps, table))
      BY <2>5, <3>1 DEF SaveWorkflow
    <3>3. IsTable(steps)
      BY DEF IsTable
    <3> HIDE DEF p, table, steps
    <3>4. IsTable(Over(steps, table))
      BY <2>2, <3>2, <3>3, OverTables
    <3> QED
      BY <2>2, <3>2, <3>4, PutDocument
  <2> QED
    BY <2>1, <2>3, <2>4, <2>5 DEF Kinds, Containers
<1>5. CASE op.what = "delete"
  <2> DEFINE q == <<op.kind, op.job, op.task>>
  <2>1. Edit(doc, op) = DeleteTask(doc, op)
    BY <1>5 DEF Edit
  <2>2. \A j : q # <<"job", j>>
    OBVIOUS
  <2>3. Edit(doc, op).doc = Without(doc, {q})
    BY <2>1 DEF DeleteTask
  <2> HIDE DEF q
  <2> QED
    BY <2>2, <2>3, WithoutDocument
<1>6. CASE op.what = "deleteJob"
  <2> DEFINE gone == {p \in DOMAIN doc : OfJob(p, op.job)}
  <2>1. Edit(doc, op) = DeleteJob(doc, op)
    BY <1>6 DEF Edit
  <2>2. Edit(doc, op).doc = Without(doc, gone)
    BY <2>1 DEF DeleteJob
  <2>3. ASSUME NEW p \in DOMAIN doc \ gone, p \notin GlobalPaths
        PROVE  <<"job", p[2]>> \notin gone
    <3>1. p[1] # "global" /\ p[2] # op.job
      BY <2>3 DEF IsDocument, OfJob
    <3>2. <<"job", p[2]>>[2] = p[2]
      OBVIOUS
    <3> QED
      BY <3>1, <3>2 DEF OfJob
  <2> HIDE DEF gone
  <2> QED
    BY <2>2, <2>3, WithoutDocument
<1> QED
  BY <1>1, <1>2, <1>3, <1>4, <1>5, <1>6 DEF IsOperation

-----------------------------------------------------------------------------
(* Loading.                                                                 *)

\* A file that can be loaded can be loaded with more password files, too.
LEMMA LoadableMonotone ==
    ASSUME NEW doc, NEW D, NEW E, D \subseteq E, Loadable(doc, D)
    PROVE  Loadable(doc, E)
<1>1. ModelProblems(doc) = {} /\ RawProblems(doc, D) = {} /\ ResolvedProblems(doc) = {}
  BY DEF Loadable, Messages
<1>2. RawProblems(doc, E) = {}
  BY <1>1 DEF RawProblems, MissingFiles
<1> QED
  BY <1>1, <1>2 DEF Loadable, Messages

-----------------------------------------------------------------------------
(* The requests.                                                            *)

Ops == Operations \union {[what |-> "none"], [what |-> "raw"]}
Call(news) ==
    [at : {"idle", "waiting", "validating", "writing", "blaming", "answered"}, op : Ops,
     new : news, overtaken : BOOLEAN,
     answer : {"none", "saved", "refused", "broken before", "error"}]

\* The lock is held by the structured edit that has read the file and not answered.
Owner(c) == c.at \in {"validating", "writing", "blaming"} /\ c.op.what # "raw"

\* A call that writes will write a document that can be loaded; a structured edit
\* that was not overtaken writes the file as it is now, edited.
Consistent(c, doc) ==
    /\ c.at # "answered" => c.answer = "none"
    /\ c.at \in {"waiting", "blaming"} => c.op \in Operations
    /\ c.at \in {"validating", "writing"} => c.op \in Operations \/ c.op.what = "raw"
    /\ c.at \in {"validating", "writing", "blaming"} => IsDocument(c.new)
    /\ c.at = "writing" => Loadable(c.new, Files)
    /\ c.at \in {"validating", "writing"} /\ c.op.what # "raw" /\ ~ c.overtaken =>
          Edit(doc, c.op).ok /\ c.new = Edit(doc, c.op).doc

CallsInv ==
    /\ \E news : calls \in [Requests -> Call(news)]
    /\ \A r \in Requests : holder = r <=> Owner(calls[r])
    /\ \A r \in Requests : Consistent(calls[r], file.doc)

FileInv ==
    /\ file.state \in States /\ byHand \in BOOLEAN
    /\ disk \subseteq Files /\ hands \in 0 .. MaxHands
    /\ IsDocument(file.doc)
    /\ FileStaysLoadable

IInv == CallsInv /\ FileInv

\* One call goes on while the file stays as it is.
LEMMA OneCall ==
    ASSUME IInv, NEW r \in Requests, NEW news, NEW c \in Call(news),
           calls' = [calls EXCEPT ![r] = c],
           Consistent(c, file.doc), holder' = r <=> Owner(c),
           \A q \in Requests \ {r} : holder' = q <=> holder = q,
           UNCHANGED <<file, byHand, disk, hands>>
    PROVE  IInv'
<1>1. PICK olds : calls \in [Requests -> Call(olds)]
  BY DEF IInv, CallsInv
<1>2. c \in Call(olds \union news) /\ Call(olds) \subseteq Call(olds \union news)
  BY DEF Call
<1>3. /\ calls' \in [Requests -> Call(olds \union news)]
      /\ calls'[r] = c
      /\ \A q \in Requests \ {r} : calls'[q] = calls[q]
  BY <1>1, <1>2
<1>4. CallsInv'
  BY <1>3 DEF IInv, CallsInv
<1> QED
  BY <1>4 DEF IInv, FileInv, FileStaysLoadable

LEMMA AnswerCall ==
    /\ \A a \in {"none", "saved", "refused", "broken before", "error"} :
          Answered(a) \in Call({<<>>}) /\ Answered(a).at = "answered" /\ Answered(a).answer = a
    /\ Idle \in Call({<<>>}) /\ Idle.at = "idle" /\ Idle.answer = "none"
  BY DEF Answered, Idle, Call, Ops

\* A call that gets its answer gives the lock back.
LEMMA AnswerKeepsIInv ==
    ASSUME IInv, NEW r \in Requests, NEW a \in {"saved", "refused", "broken before", "error"},
           Answer(r, a), holder' = IF holder = r THEN Nobody ELSE holder,
           UNCHANGED <<file, byHand, disk, hands>>
    PROVE  IInv'
<1> DEFINE c == Answered(a)
<1>1. c \in Call({<<>>}) /\ c.at = "answered" /\ calls' = [calls EXCEPT ![r] = c]
  BY AnswerCall DEF Answer
<1> HIDE DEF c
<1>2. Consistent(c, file.doc) /\ ~ Owner(c)
  BY <1>1 DEF Consistent, Owner
<1> QED
  BY <1>1, <1>2, OneCall, EditorAssumption

LEMMA SubmitKeepsIInv ==
    ASSUME IInv, NEW r \in Requests, Submit(r) \/ SubmitRaw(r) PROVE IInv'
<1>1. PICK news : calls \in [Requests -> Call(news)]
  BY DEF IInv, CallsInv
<1>2. /\ calls[r] \in Call(news) /\ calls[r].answer = "none"
      /\ ~ Owner(calls[r]) /\ holder # r
  BY <1>1 DEF IInv, CallsInv, Owner, Consistent, Submit, SubmitRaw
<1>3. CASE Submit(r)
  <2>1. PICK op \in Operations : calls' = [calls EXCEPT ![r].at = "waiting", ![r].op = op]
    BY <1>3 DEF Submit
  <2> DEFINE c == [calls[r] EXCEPT !.at = "waiting", !.op = op]
  <2>2. c \in Call(news) /\ c.at = "waiting" /\ c.op = op /\ c.answer = "none"
    BY <1>2 DEF Call, Ops
  <2>3. calls' = [calls EXCEPT ![r] = c]
    BY <2>1
  <2> HIDE DEF c
  <2>4. Consistent(c, file.doc) /\ ~ Owner(c)
    BY <2>2 DEF Consistent, Owner
  <2> QED
    BY <1>2, <1>3, <2>2, <2>3, <2>4, OneCall DEF Submit
<1>4. CASE SubmitRaw(r)
  <2>1. PICK d \in RawTexts :
           calls' = [calls EXCEPT ![r].at = "validating", ![r].op = [what |-> "raw"], ![r].new = d]
    BY <1>4 DEF SubmitRaw
  <2> DEFINE raw == [what |-> "raw"]
             c == [calls[r] EXCEPT !.at = "validating", !.op = raw, !.new = d]
  <2>2. raw \in Ops /\ raw.what = "raw" /\ IsDocument(d)
    BY EditorAssumption DEF Ops
  <2>3. calls' = [calls EXCEPT ![r] = c]
    BY <2>1
  <2> HIDE DEF raw
  <2>4. /\ c \in Call(news \union {d}) /\ c.at = "validating" /\ c.op = raw /\ c.new = d
        /\ c.answer = "none"
    BY <1>2, <2>2 DEF Call
  <2> HIDE DEF c
  <2>5. Consistent(c, file.doc) /\ ~ Owner(c)
    BY <2>2, <2>4 DEF Consistent, Owner
  <2> QED
    BY <1>2, <1>4, <2>3, <2>4, <2>5, OneCall DEF SubmitRaw
<1> QED
  BY <1>3, <1>4

LEMMA BeginKeepsIInv == ASSUME IInv, NEW r \in Requests, Begin(r) PROVE IInv'
<1> DEFINE edit == Edit(file.doc, calls[r].op)
<1>1. /\ calls[r].at = "waiting" /\ holder = Nobody /\ UNCHANGED <<file, byHand, disk, hands>>
      /\ \/ Answer(r, "error") /\ UNCHANGED holder
         \/ Answer(r, "refused") /\ UNCHANGED holder
         \/ /\ edit.ok /\ holder' = r
            /\ calls' = [calls EXCEPT ![r].at = "validating", ![r].new = edit.doc]
  BY DEF Begin, Edited
<1>2. CASE UNCHANGED holder
  BY <1>1, <1>2, AnswerKeepsIInv, EditorAssumption
<1>3. CASE /\ edit.ok /\ holder' = r
           /\ calls' = [calls EXCEPT ![r].at = "validating", ![r].new = edit.doc]
  <2> DEFINE c == [calls[r] EXCEPT !.at = "validating", !.new = edit.doc]
  <2>1. PICK news : calls \in [Requests -> Call(news)]
    BY DEF IInv, CallsInv
  <2>2. /\ calls[r].op \in Operations /\ IsOperation(calls[r].op) /\ IsDocument(file.doc)
        /\ calls[r].answer = "none"
    BY <1>1, EditorAssumption DEF IInv, CallsInv, FileInv, Consistent
  <2>3. IsDocument(edit.doc) /\ calls[r].op.what # "raw"
    BY <1>3, <2>2, EditDocument DEF IsOperation
  <2>4. calls' = [calls EXCEPT ![r] = c]
    BY <1>3
  <2> HIDE DEF edit
  <2>5. /\ c \in Call(news \union {edit.doc}) /\ c.at = "validating"
        /\ c.op = calls[r].op /\ c.new = edit.doc /\ c.answer = calls[r].answer
    BY <2>1 DEF Call
  <2> HIDE DEF c
  <2>6. Consistent(c, file.doc) /\ Owner(c)
    BY <1>3, <2>2, <2>3, <2>5 DEF Consistent, Owner, edit
  <2> QED
    BY <1>1, <1>3, <2>4, <2>5, <2>6, OneCall, EditorAssumption
<1> QED
  BY <1>1, <1>2, <1>3

LEMMA ValidateKeepsIInv == ASSUME IInv, NEW r \in Requests, Validate(r) PROVE IInv'
<1>1. PICK news : calls \in [Requests -> Call(news)]
  BY DEF IInv, CallsInv
<1>2. /\ calls[r] \in Call(news) /\ calls[r].at = "validating"
      /\ UNCHANGED <<file, byHand, disk, holder, hands>>
      /\ Consistent(calls[r], file.doc) /\ (holder = r <=> Owner(calls[r]))
  BY <1>1 DEF Validate, IInv, CallsInv
<1>3. CASE Loadable(calls[r].new, disk)
  <2> DEFINE c == [calls[r] EXCEPT !.at = "writing"]
  <2>1. calls' = [calls EXCEPT ![r] = c]
    BY <1>3 DEF Validate
  <2>2. Loadable(calls[r].new, Files)
    BY <1>3, LoadableMonotone DEF IInv, FileInv
  <2>3. /\ c \in Call(news) /\ c.at = "writing" /\ c.op = calls[r].op /\ c.new = calls[r].new
        /\ c.overtaken = calls[r].overtaken /\ c.answer = calls[r].answer
    BY <1>2 DEF Call
  <2> HIDE DEF c
  <2>4. Consistent(c, file.doc) /\ (Owner(c) <=> Owner(calls[r]))
    BY <1>2, <2>2, <2>3 DEF Consistent, Owner
  <2> QED
    BY <1>2, <2>1, <2>3, <2>4, OneCall
<1>4. CASE ~ Loadable(calls[r].new, disk) /\ IsRaw(r)
  <2>1. Answer(r, "refused") /\ holder # r
    BY <1>2, <1>4 DEF Validate, IsRaw, Owner
  <2> QED
    BY <1>2, <2>1, AnswerKeepsIInv
<1>5. CASE ~ Loadable(calls[r].new, disk) /\ ~ IsRaw(r)
  <2> DEFINE c == [calls[r] EXCEPT !.at = "blaming"]
  <2>1. calls' = [calls EXCEPT ![r] = c]
    BY <1>5 DEF Validate
  <2>2. /\ c \in Call(news) /\ c.at = "blaming" /\ c.op = calls[r].op /\ c.new = calls[r].new
        /\ c.answer = calls[r].answer
    BY <1>2 DEF Call
  <2> HIDE DEF c
  <2>3. Consistent(c, file.doc) /\ Owner(c) /\ Owner(calls[r])
    BY <1>2, <1>5, <2>2 DEF Consistent, Owner, IsRaw
  <2> QED
    BY <1>2, <2>1, <2>2, <2>3, OneCall
<1> QED
  BY <1>3, <1>4, <1>5

\* When somebody without the lock replaces the file, no edit under way counts on it.
LEMMA OvertakingKeepsCalls ==
    ASSUME NEW news, NEW cs \in [Requests -> Call(news)], NEW old, NEW doc,
           \A r \in Requests : Consistent(cs[r], old)
    PROVE  /\ Overtaking(cs) \in [Requests -> Call(news)]
           /\ \A r \in Requests : /\ Consistent(Overtaking(cs)[r], doc)
                                  /\ Owner(Overtaking(cs)[r]) <=> Owner(cs[r])
                                  /\ Overtaking(cs)[r].at = cs[r].at
                                  /\ Overtaking(cs)[r].answer = cs[r].answer
<1>1. ASSUME NEW r \in Requests
      PROVE  LET c == Overtaking(cs)[r]
             IN  /\ c \in Call(news) /\ c.at = cs[r].at /\ c.op = cs[r].op /\ c.new = cs[r].new
                 /\ c.answer = cs[r].answer
                 /\ c.at \in {"validating", "writing"} => c.overtaken
  <2>1. cs[r] \in Call(news)
    OBVIOUS
  <2> QED
    BY <2>1 DEF Overtaking, Call
<1>2. Overtaking(cs) \in [Requests -> Call(news)]
  BY <1>1 DEF Overtaking
<1>3. ASSUME NEW r \in Requests
      PROVE  Consistent(Overtaking(cs)[r], doc) /\ (Owner(Overtaking(cs)[r]) <=> Owner(cs[r]))
  BY <1>1 DEF Consistent, Owner
<1> QED
  BY <1>1, <1>2, <1>3

LEMMA WriteKeepsIInv == ASSUME IInv, NEW r \in Requests, Write(r) PROVE IInv'
<1> DEFINE saved == Answered("saved")
           after == [calls EXCEPT ![r] = saved]
<1>1. PICK news : calls \in [Requests -> Call(news)]
  BY DEF IInv, CallsInv
<1>2. /\ calls[r].at = "writing" /\ file'.state = "text" /\ file'.doc = calls[r].new
      /\ byHand' = FALSE /\ UNCHANGED <<disk, hands>>
      /\ holder' = IF holder = r THEN Nobody ELSE holder
      /\ calls' = IF IsRaw(r) THEN Overtaking(after) ELSE after
  BY DEF Write, Text, Release
<1>3. FileInv'
  BY <1>2 DEF IInv, CallsInv, FileInv, Consistent, FileStaysLoadable, States
<1>4. saved \in Call(news \union {<<>>}) /\ saved.at = "answered"
  BY AnswerCall DEF Call
<1> HIDE DEF saved
<1>5. Call(news) \subseteq Call(news \union {<<>>})
  BY DEF Call
<1>6. /\ after \in [Requests -> Call(news \union {<<>>})]
      /\ after[r] = saved
      /\ \A q \in Requests \ {r} : after[q] = calls[q]
  BY <1>1, <1>4, <1>5
<1> HIDE DEF after
<1>7. /\ ~ Owner(saved) /\ \A doc : Consistent(saved, doc)
      /\ \A q \in Requests : holder' = q <=> Owner(after[q])
  BY <1>2, <1>4, <1>6, EditorAssumption DEF Owner, Consistent, IInv, CallsInv
<1>8. \A q \in Requests : Consistent(after[q], file.doc)
  BY <1>6, <1>7 DEF IInv, CallsInv
<1>9. CASE IsRaw(r)
  <2>1. /\ Overtaking(after) \in [Requests -> Call(news \union {<<>>})]
        /\ \A q \in Requests : /\ Consistent(Overtaking(after)[q], file'.doc)
                               /\ Owner(Overtaking(after)[q]) <=> Owner(after[q])
    BY <1>6, <1>8, OvertakingKeepsCalls
  <2> QED
    BY <1>2, <1>3, <1>7, <1>9, <2>1 DEF IInv, CallsInv
<1>10. CASE ~ IsRaw(r)
  <2>1. holder = r
    BY <1>2, <1>10 DEF IsRaw, IInv, CallsInv, Owner
  <2>2. \A q \in Requests \ {r} : ~ Owner(calls[q])
    BY <2>1 DEF IInv, CallsInv
  <2>3. \A q \in Requests : Consistent(after[q], file'.doc)
    BY <1>6, <1>7, <1>8, <2>2 DEF Consistent, Owner
  <2> QED
    BY <1>2, <1>3, <1>6, <1>7, <1>10, <2>3 DEF IInv, CallsInv
<1> QED
  BY <1>9, <1>10

LEMMA EndKeepsIInv == ASSUME IInv, NEW r \in Requests, WriteFails(r) \/ Blame(r) PROVE IInv'
  BY AnswerKeepsIInv DEF WriteFails, Blame, Release

LEMMA HandsKeepIInv == ASSUME IInv, HandWrites \/ FilesChange PROVE IInv'
<1>1. hands' \in 0 .. MaxHands
  BY EditorAssumption DEF HandWrites, FilesChange, IInv, FileInv
<1>2. CASE HandWrites
  <2>1. /\ file'.state \in States /\ IsDocument(file'.doc) /\ byHand'
        /\ calls' = Overtaking(calls) /\ UNCHANGED <<disk, holder>>
    BY <1>2, EditorAssumption DEF HandWrites, Text, EmptyAs, States, IsDocument
  <2>2. FileInv'
    BY <1>1, <2>1 DEF IInv, FileInv, FileStaysLoadable
  <2>3. CallsInv'
    <3>1. PICK news : calls \in [Requests -> Call(news)]
      BY DEF IInv, CallsInv
    <3> QED
      BY <2>1, <3>1, OvertakingKeepsCalls DEF IInv, CallsInv
  <2> QED
    BY <2>2, <2>3 DEF IInv
<1>3. CASE FilesChange
  BY <1>1, <1>3 DEF FilesChange, IInv, CallsInv, FileInv, FileStaysLoadable
<1> QED
  BY <1>2, <1>3

LEMMA InitIInv == ASSUME Init PROVE IInv
<1>1. /\ file.state \in States /\ IsDocument(file.doc)
      /\ file.state = "text" => Loadable(file.doc, Files)
  BY EditorAssumption DEF Init, Text, EmptyAs, States, IsDocument
<1>a. byHand = FALSE /\ disk = Files /\ hands = 0
  BY DEF Init
<1>2. FileInv
  <2>1. FileStaysLoadable
    BY <1>1 DEF FileStaysLoadable
  <2>2. byHand \in BOOLEAN
    BY <1>a
  <2>3. disk \subseteq Files /\ hands \in 0 .. MaxHands
    BY <1>a, EditorAssumption
  <2> QED
    BY <1>1, <2>1, <2>2, <2>3 DEF FileInv
<1>3. /\ calls \in [Requests -> Call({<<>>})]
      /\ \A r \in Requests : calls[r].at = "idle" /\ calls[r].answer = "none" /\ holder # r
  BY AnswerCall, EditorAssumption DEF Init
<1>4. CallsInv
  BY <1>3 DEF CallsInv, Consistent, Owner
<1> QED
  BY <1>2, <1>4 DEF IInv

LEMMA NextKeepsIInv == ASSUME IInv, [Next]_vars PROVE IInv'
<1>1. CASE UNCHANGED vars
  BY <1>1 DEF vars, IInv, CallsInv, FileInv, FileStaysLoadable
<1> QED
  BY <1>1, SubmitKeepsIInv, BeginKeepsIInv, ValidateKeepsIInv, WriteKeepsIInv, EndKeepsIInv,
     HandsKeepIInv DEF Next, RequestStep

\* The file and the requests agree in every state.
THEOREM InductiveInvariant == Spec => []IInv
  BY InitIInv, NextKeepsIInv, PTL DEF Spec

\* The lock is held exactly by the edit between its reading of the file and its
\* answer (_serialized_write).
THEOREM TypeCorrect == Spec => []TypeOK
<1>1. IInv => TypeOK
  BY DEF IInv, CallsInv, FileInv, TypeOK, Call, Owner, IsRaw
<1> QED
  BY <1>1, InductiveInvariant, PTL

\* No sequence of edits and raw saves of however many requests leaves a file that
\* cannot be loaded (ConfigService._save_raw_sync).
THEOREM FileIsLoadable == Spec => []FileStaysLoadable
<1>1. IInv => FileStaysLoadable
  BY DEF IInv, FileInv
<1> QED
  BY <1>1, InductiveInvariant, PTL

\* A structured edit that is saved leaves every other table as it is in the file that
\* it replaces (_serialized_write).
THEOREM EditsKeepTheRest == Spec => EditsDoNotInterfere
<1>1. ASSUME IInv, Next, NEW r \in Requests, calls[r].at = "writing",
             calls'[r].answer = "saved", ~ IsRaw(r), ~ calls[r].overtaken, NEW p
      PROVE  Addressed(calls[r].op, p) \/ At(file'.doc, p) = At(file.doc, p)
  <2>1. CASE Write(r)
    <3>1. file'.doc = Edit(file.doc, calls[r].op).doc /\ Edit(file.doc, calls[r].op).ok
      BY <1>1, <2>1 DEF Write, Text, IInv, CallsInv, Consistent, IsRaw
    <3>2. IsDocument(file.doc) /\ IsOperation(calls[r].op)
      BY <1>1, EditorAssumption DEF IInv, CallsInv, FileInv, Consistent, IsRaw
    <3> QED
      BY <3>1, <3>2, EditFrame
  <2>2. CASE ~ Write(r)
    <3>1. PICK news : calls \in [Requests -> Call(news)]
      BY <1>1 DEF IInv, CallsInv
    <3>2. calls[r].answer = "none" /\ calls[r].at = "writing"
      BY <1>1 DEF IInv, CallsInv, Consistent
    <3>3. ASSUME NEW c PROVE [calls EXCEPT ![r] = c][r] = c
      BY <3>1
    <3>4. CASE \E q \in Requests : Submit(q) \/ SubmitRaw(q) \/ RequestStep(q)
      <4>1. PICK q \in Requests : Submit(q) \/ SubmitRaw(q) \/ RequestStep(q)
        BY <3>4
      <4>2. CASE q = r
        <5>1. WriteFails(r)
          BY <2>2, <3>2, <4>1, <4>2 DEF Submit, SubmitRaw, RequestStep, Begin, Validate, Blame
        <5> QED
          BY <1>1, <3>3, <5>1, AnswerCall DEF WriteFails, Answer
      <4>3. CASE q # r
        <5>1. calls'[r] = calls[r] \/ calls'[r].answer = calls[r].answer
          <6>1. CASE Write(q)
            <7> DEFINE after == [calls EXCEPT ![q] = Answered("saved")]
            <7>1. calls' = after \/ calls' = Overtaking(after)
              BY <6>1 DEF Write
            <7>2. after[r] = calls[r]
              BY <3>1, <4>3
            <7> HIDE DEF after
            <7>3. Overtaking(after)[r].answer = calls[r].answer
              BY <3>1, <7>2 DEF Overtaking, Call
            <7> QED
              BY <7>1, <7>2, <7>3
          <6>2. CASE \/ Submit(q) \/ SubmitRaw(q) \/ Begin(q)
                     \/ Validate(q) \/ WriteFails(q) \/ Blame(q)
            BY <3>1, <4>3, <6>2
            DEF Submit, SubmitRaw, Begin, Edited, Validate, WriteFails, Blame, Answer
          <6> QED
            BY <4>1, <6>1, <6>2 DEF RequestStep
        <5> QED
          BY <1>1, <3>2, <5>1
      <4> QED
        BY <4>2, <4>3
    <3>5. CASE HandWrites \/ FilesChange
      <4>1. calls' = calls \/ calls' = Overtaking(calls)
        BY <3>5 DEF HandWrites, FilesChange
      <4>2. Overtaking(calls)[r].answer = calls[r].answer
        BY <3>1 DEF Overtaking, Call
      <4> QED
        BY <1>1, <3>2, <4>1, <4>2
    <3> QED
      BY <1>1, <3>4, <3>5 DEF Next
  <2> QED
    BY <2>1, <2>2
<1>2. IInv /\ [Next]_vars =>
        [\A r \in Requests :
           (/\ calls[r].at = "writing" /\ calls'[r].answer = "saved"
            /\ ~IsRaw(r) /\ ~calls[r].overtaken)
           => \A p \in DOMAIN file.doc \union DOMAIN file'.doc :
                Addressed(calls[r].op, p) \/ At(file'.doc, p) = At(file.doc, p)]_vars
  BY <1>1
<1> QED
  BY <1>2, InductiveInvariant, PTL DEF Spec, EditsDoNotInterfere

-----------------------------------------------------------------------------
(* The translations of the inheritance.                                     *)

\* The first of three tables that has one of the fields.
LEMMA FirstOfThree ==
    ASSUME NEW doc, NEW a, NEW b, NEW c, NEW fields
    PROVE  First(doc, <<a, b, c>>, fields) =
              IF fields \intersect DOMAIN At(doc, a) # {} THEN a
              ELSE IF fields \intersect DOMAIN At(doc, b) # {} THEN b
              ELSE IF fields \intersect DOMAIN At(doc, c) # {} THEN c ELSE <<>>
<1> DEFINE chain == <<a, b, c>>
           has(x) == fields \intersect DOMAIN At(doc, x) # {}
           set == {i \in DOMAIN chain : has(chain[i])}
           least == CHOOSE i \in set : \A k \in set : i <= k
<1>1. First(doc, chain, fields) = IF set = {} THEN <<>> ELSE chain[least]
  BY DEF First
<1>2. /\ DOMAIN chain = {1, 2, 3} /\ chain[1] = a /\ chain[2] = b /\ chain[3] = c
  OBVIOUS
<1> HIDE DEF chain, has
<1>3. /\ set \subseteq {1, 2, 3}
      /\ 1 \in set <=> has(a)
      /\ 2 \in set <=> has(b)
      /\ 3 \in set <=> has(c)
  BY <1>2
<1> HIDE DEF set
<1>4. CASE has(a)
  <2>1. \A i \in set : (\A k \in set : i <= k) <=> i = 1
    BY <1>3, <1>4
  <2>2. least = 1
    BY <1>3, <1>4, <2>1
  <2> QED
    BY <1>1, <1>2, <1>3, <1>4, <2>2 DEF chain, has
<1>5. CASE ~ has(a) /\ has(b)
  <2>1. \A i \in set : (\A k \in set : i <= k) <=> i = 2
    BY <1>3, <1>5
  <2>2. least = 2
    BY <1>3, <1>5, <2>1
  <2> QED
    BY <1>1, <1>2, <1>3, <1>5, <2>2 DEF chain, has
<1>6. CASE ~ has(a) /\ ~ has(b) /\ has(c)
  <2>1. set = {3}
    BY <1>3, <1>6
  <2>2. least = 3
    BY <2>1
  <2> QED
    BY <1>1, <1>2, <1>3, <1>6, <2>2 DEF chain, has
<1>7. CASE ~ has(a) /\ ~ has(b) /\ ~ has(c)
  <2>1. set = {}
    BY <1>3, <1>7
  <2> QED
    BY <1>1, <1>7, <2>1 DEF chain, has
<1> QED
  BY <1>4, <1>5, <1>6, <1>7

LEMMA FirstOfTwo ==
    ASSUME NEW doc, NEW a, NEW b, NEW fields
    PROVE  First(doc, <<a, b>>, fields) =
              IF fields \intersect DOMAIN At(doc, a) # {} THEN a
              ELSE IF fields \intersect DOMAIN At(doc, b) # {} THEN b ELSE <<>>
<1> DEFINE chain == <<a, b>>
           has(x) == fields \intersect DOMAIN At(doc, x) # {}
           set == {i \in DOMAIN chain : has(chain[i])}
           least == CHOOSE i \in set : \A k \in set : i <= k
<1>1. First(doc, chain, fields) = IF set = {} THEN <<>> ELSE chain[least]
  BY DEF First
<1>2. DOMAIN chain = {1, 2} /\ chain[1] = a /\ chain[2] = b
  OBVIOUS
<1> HIDE DEF chain, has
<1>3. /\ set \subseteq {1, 2}
      /\ 1 \in set <=> has(a)
      /\ 2 \in set <=> has(b)
  BY <1>2
<1> HIDE DEF set
<1>4. CASE has(a)
  <2>1. \A i \in set : (\A k \in set : i <= k) <=> i = 1
    BY <1>3, <1>4
  <2>2. least = 1
    BY <1>3, <1>4, <2>1
  <2> QED
    BY <1>1, <1>2, <1>3, <1>4, <2>2 DEF chain, has
<1>5. CASE ~ has(a) /\ has(b)
  <2>1. set = {2}
    BY <1>3, <1>5
  <2>2. least = 2
    BY <2>1
  <2> QED
    BY <1>1, <1>2, <1>3, <1>5, <2>2 DEF chain, has
<1>6. CASE ~ has(a) /\ ~ has(b)
  <2>1. set = {}
    BY <1>3, <1>6
  <2> QED
    BY <1>1, <1>6, <2>1 DEF chain, has
<1> QED
  BY <1>4, <1>5, <1>6

\* The levels of the resolver, as the view names them.
LEMMA ResolveLevels ==
    ASSUME NEW doc, NEW p, NEW f
    PROVE  LET b == Above(p, f)[1]
               c == Above(p, f)[2]
           IN  /\ Above(p, f) = <<b, c>> /\ Chain(p, f) = <<p, b, c>>
               /\ b # <<>> /\ c # <<>>
               /\ AboveTask(doc, p[1], p[2], f) =
                    Inherit(f, Get(At(doc, b), f), Get(At(doc, c), f))
               /\ Resolve(doc, p, f) =
                    Inherit(f, Get(At(doc, p), f), AboveTask(doc, p[1], p[2], f))
<1>1. CASE f \in Cross
  BY <1>1 DEF Above, Chain, Resolve, AboveTask, ResolveJob
<1>2. CASE f \notin Cross
  BY <1>2 DEF Above, Chain, Resolve, AboveTask, ResolveDefaults
<1> QED
  BY <1>1, <1>2

\* What loading makes of a field: a value, unless it holds an empty text.
LEMMA GetOf ==
    ASSUME NEW doc, IsDocument(doc), NEW p, NEW f, f # "steps"
    PROVE  /\ f \in DOMAIN At(doc, p) =>
                 /\ Get(At(doc, p), f) = Loads(At(doc, p)[f])
                 /\ At(doc, p)[f] # EmptyText => Get(At(doc, p), f) # Nothing
                 /\ p \in DOMAIN doc /\ At(doc, p) = doc[p]
           /\ f \notin DOMAIN At(doc, p) => Get(At(doc, p), f) = Nothing
<1>1. IsTable(At(doc, p))
  BY TableOf
<1>2. f \in DOMAIN At(doc, p) => p \in DOMAIN doc /\ At(doc, p) = doc[p]
  BY DEF At
<1>3. \A v : v \notin {Nothing, EmptyText} => Loads(v) # Nothing
  BY DEF Loads, Nothing
<1> QED
  BY <1>1, <1>2, <1>3 DEF Get, IsTable

\* What the view of a job says of a field: the level that set it, and its value.
LEMMA SourceIsRight ==
    ASSUME NEW doc, IsDocument(doc), NEW p \in DOMAIN doc, IsTask(p), NEW f, f # "steps",
           ~ Emptied(doc, Chain(p, f), f)
    PROVE  /\ SourceOf(doc, p, f) = <<>> => Resolve(doc, p, f) = Default(f)
           /\ SourceOf(doc, p, f) # <<>> =>
                 /\ Resolve(doc, p, f) = Loads(doc[SourceOf(doc, p, f)][f])
                 /\ Resolve(doc, p, f) # Nothing
<1> DEFINE b == Above(p, f)[1]
           c == Above(p, f)[2]
           v == AboveTask(doc, p[1], p[2], f)
<1>1. /\ Chain(p, f) = <<p, b, c>> /\ b # <<>> /\ c # <<>>
      /\ v = Inherit(f, Get(At(doc, b), f), Get(At(doc, c), f))
      /\ Resolve(doc, p, f) = Inherit(f, Get(At(doc, p), f), v)
  BY ResolveLevels
<1>2. p # <<>>
  BY DEF IsTask, IsDocument, IsPath
<1> HIDE DEF b, c, v
<1>3. SourceOf(doc, p, f) = IF f \in DOMAIN At(doc, p) THEN p
                            ELSE IF f \in DOMAIN At(doc, b) THEN b
                            ELSE IF f \in DOMAIN At(doc, c) THEN c ELSE <<>>
  BY <1>1, FirstOfThree DEF SourceOf
<1>4. SourceOf(doc, p, f) # <<>> => doc[SourceOf(doc, p, f)][f] # EmptyText
  BY DEF Emptied, SourceOf
<1>5. CASE f \in DOMAIN At(doc, p)
  BY <1>1, <1>2, <1>3, <1>4, <1>5, GetOf DEF Inherit
<1>6. CASE f \notin DOMAIN At(doc, p) /\ f \in DOMAIN At(doc, b)
  <2>1. v = Loads(doc[b][f]) /\ v # Nothing
    BY <1>1, <1>3, <1>4, <1>6, GetOf DEF Inherit
  <2> QED
    BY <1>1, <1>3, <1>6, <2>1, GetOf DEF Inherit
<1>7. CASE f \notin DOMAIN At(doc, p) /\ f \notin DOMAIN At(doc, b) /\ f \in DOMAIN At(doc, c)
  <2>1. v = Loads(doc[c][f]) /\ v # Nothing
    BY <1>1, <1>3, <1>4, <1>7, GetOf DEF Inherit
  <2> QED
    BY <1>1, <1>3, <1>7, <2>1, GetOf DEF Inherit
<1>8. CASE /\ f \notin DOMAIN At(doc, p) /\ f \notin DOMAIN At(doc, b)
           /\ f \notin DOMAIN At(doc, c)
  <2>1. v = Default(f)
    BY <1>1, <1>8, GetOf DEF Inherit
  <2> QED
    BY <1>1, <1>3, <1>8, <2>1, GetOf DEF Inherit
<1> QED
  BY <1>5, <1>6, <1>7, <1>8

\* Only the password fields of a table count for the choice of one.
LEMMA PreferredSecret ==
    ASSUME NEW table
    PROVE  /\ PasswordHint(Secret(table)) = PasswordHint(table)
           /\ DOMAIN Secret(table) = {} => PasswordHint(table) = <<>>
<1> DEFINE order == <<"password_env", "password_file", "password">>
           set(t) == {i \in DOMAIN order : order[i] \in DOMAIN t}
           least(t) == CHOOSE i \in set(t) : \A k \in set(t) : i <= k
           S == Secret(table)
<1>1. /\ PasswordHint(table) = IF set(table) = {} THEN <<>>
                               ELSE <<order[least(table)], table[order[least(table)]]>>
      /\ PasswordHint(S) = IF set(S) = {} THEN <<>>
                           ELSE <<order[least(S)], S[order[least(S)]]>>
  BY DEF PasswordHint, Preferred
<1>2. /\ DOMAIN order = {1, 2, 3}
      /\ \A i \in DOMAIN order : order[i] \in Passwords
  BY DEF Passwords
<1>3. /\ DOMAIN S = Passwords \intersect DOMAIN table
      /\ \A f \in DOMAIN S : S[f] = table[f]
  BY DEF Secret
<1> HIDE DEF order, S
<1>4. set(S) = set(table)
  BY <1>2, <1>3
<1>5. least(S) = least(table)
  BY <1>4
<1>6. DOMAIN S = {} => set(table) = {}
  BY <1>2, <1>3
<1>7. set(table) # {} => order[least(table)] \in DOMAIN S
  <2>1. ASSUME set(table) # {} PROVE least(table) \in set(table)
    <3>1. set(table) \subseteq {1, 2, 3}
      BY <1>2
    <3>2. \E i \in set(table) : \A k \in set(table) : i <= k
      BY <2>1, <3>1
    <3> QED
      BY <3>2
  <2> QED
    BY <1>2, <1>3, <2>1
<1> HIDE DEF set, least
<1>8. PasswordHint(S) = PasswordHint(table)
  BY <1>1, <1>3, <1>4, <1>5, <1>7
<1> QED
  BY <1>1, <1>6, <1>8 DEF S

\* The view of a job names the source of every value, and hides none.
LEMMA SourcesAreRight == ASSUME NEW doc, IsDocument(doc) PROVE SourcesAgree(doc)
<1> SUFFICES ASSUME NEW p \in DOMAIN doc, IsTask(p)
             PROVE  LET view   == EffectiveView(doc, p)
                        secret == EffectiveCredentials(doc, p)
                    IN  /\ \A f \in Inherited(p[1]) \union Cross : Emptied(doc, Chain(p, f), f) \/
                             IF f \notin DOMAIN view THEN SourceOf(doc, p, f) = <<>>
                             ELSE view[f].value = IF view[f].source = <<>> THEN Default(f)
                                                  ELSE Loads(doc[view[f].source][f])
                        /\ p[1] = "backup" =>
                             secret.value = IF secret.source = <<>> THEN <<>>
                                            ELSE PasswordHint(doc[secret.source])
  BY DEF SourcesAgree
<1>1. ASSUME NEW f \in Inherited(p[1]) \union Cross, ~ Emptied(doc, Chain(p, f), f)
      PROVE  LET view == EffectiveView(doc, p)
             IN  IF f \notin DOMAIN view THEN SourceOf(doc, p, f) = <<>>
                 ELSE view[f].value = IF view[f].source = <<>> THEN Default(f)
                                      ELSE Loads(doc[view[f].source][f])
  <2>1. f # "steps"
    BY DEF Inherited, Cross
  <2>2. /\ f \in DOMAIN EffectiveView(doc, p) <=> Visible(EffectiveField(doc, p, f))
        /\ f \in DOMAIN EffectiveView(doc, p) =>
              EffectiveView(doc, p)[f] = EffectiveField(doc, p, f)
    BY DEF EffectiveView
  <2>3. /\ EffectiveField(doc, p, f).value = Resolve(doc, p, f)
        /\ EffectiveField(doc, p, f).source = SourceOf(doc, p, f)
    BY DEF EffectiveField
  <2> QED
    BY <1>1, <2>1, <2>2, <2>3, SourceIsRight DEF Visible
<1>2. ASSUME p[1] = "backup"
      PROVE  LET secret == EffectiveCredentials(doc, p)
             IN  secret.value = IF secret.source = <<>> THEN <<>>
                                ELSE PasswordHint(doc[secret.source])
  <2> DEFINE b == <<"backup", p[2]>>
             c == <<"global", "backup">>
             source == SecretSource(doc, p)
             set(q) == Passwords \intersect DOMAIN At(doc, q) # {}
  <2>1. /\ EffectiveCredentials(doc, p).value = PasswordHint(ResolveSecret(doc, p))
        /\ EffectiveCredentials(doc, p).source = source
    BY DEF EffectiveCredentials, PasswordHint
  <2>2. \A q : DOMAIN Secret(At(doc, q)) = Passwords \intersect DOMAIN At(doc, q)
    BY DEF Secret
  <2>3. ResolveSecret(doc, p) = Secret(At(doc, IF set(p) THEN p ELSE IF set(b) THEN b ELSE c))
    BY <2>2 DEF ResolveSecret, SecretAboveTask, InheritSecret
  <2>4. Chain(p, "password") = <<p, b, c>> /\ b # <<>> /\ c # <<>> /\ p # <<>>
    <3>1. Above(p, "password") = <<b, c>> /\ b # <<>> /\ c # <<>>
      BY <1>2 DEF Above, Cross
    <3>2. p # <<>>
      BY DEF IsTask
    <3> HIDE DEF b, c
    <3> QED
      BY <3>1, <3>2 DEF Chain
  <2> HIDE DEF b, c
  <2>5. source = IF set(p) THEN p ELSE IF set(b) THEN b ELSE IF set(c) THEN c ELSE <<>>
    <3>1. source = First(doc, <<p, b, c>>, Passwords)
      BY <2>4 DEF SecretSource
    <3> HIDE DEF source
    <3> QED
      BY <3>1, FirstOfThree
  <2>6. \A q : /\ set(q) => PasswordHint(Secret(At(doc, q))) = PasswordHint(doc[q])
               /\ ~ set(q) => PasswordHint(Secret(At(doc, q))) = <<>>
    <3>1. ASSUME NEW q, set(q) PROVE At(doc, q) = doc[q]
      BY <3>1 DEF At
    <3>2. ASSUME NEW q, ~ set(q) PROVE DOMAIN Secret(At(doc, q)) = {}
      BY <2>2, <3>2
    <3> QED
      BY <3>1, <3>2, PreferredSecret
  <2> HIDE DEF source, set
  <2> QED
    BY <2>1, <2>3, <2>4, <2>5, <2>6
<1> QED
  BY <1>1, <1>2

\* A table of a loadable file sets at most one password field.
LEMMA OnePassword ==
    ASSUME NEW doc, SeveralPasswords(doc) = {}, NEW p,
           Passwords \intersect DOMAIN At(doc, p) # {}
    PROVE  \E f \in Passwords : Passwords \intersect DOMAIN At(doc, p) = {f}
<1> DEFINE S == Passwords \intersect DOMAIN At(doc, p)
<1>1. p \in DOMAIN doc /\ At(doc, p) = doc[p]
  BY DEF At
<1>2. DOMAIN Secret(doc[p]) = S
  BY <1>1 DEF Secret
<1>3. ~ Cardinality(S) > 1
  BY <1>1, <1>2 DEF SeveralPasswords
<1>4. IsFiniteSet({"password"}) /\ IsFiniteSet({"password_env"}) /\ IsFiniteSet({"password_file"})
  BY FS_Singleton
<1>5. IsFiniteSet({"password"} \union {"password_env"})
  BY <1>4, FS_Union
<1>6. IsFiniteSet(({"password"} \union {"password_env"}) \union {"password_file"})
  BY <1>4, <1>5, FS_Union
<1>7. Passwords = ({"password"} \union {"password_env"}) \union {"password_file"}
  BY DEF Passwords
<1>8. IsFiniteSet(S)
  BY <1>6, <1>7, FS_Subset
<1>9. Cardinality(S) \in Nat /\ Cardinality(S) # 0
  BY <1>8, FS_CardinalityType, FS_EmptySet
<1>10. Cardinality(S) = 1
  BY <1>3, <1>9
<1> QED
  BY <1>8, <1>10, FS_Singleton

\* With one password field in a table, the order of preference does not matter.
LEMMA ChosenPassword ==
    ASSUME NEW table
    PROVE  LET chosen == Preferred(table, <<"password", "password_env", "password_file">>)
           IN  /\ Passwords \intersect DOMAIN table = {} => chosen = <<>>
               /\ \A f \in Passwords :
                     Passwords \intersect DOMAIN table = {f} => chosen = <<f, table[f]>>
<1> DEFINE order == <<"password", "password_env", "password_file">>
           set == {i \in DOMAIN order : order[i] \in DOMAIN table}
           least == CHOOSE i \in set : \A k \in set : i <= k
<1>1. Preferred(table, order) = IF set = {} THEN <<>> ELSE <<order[least], table[order[least]]>>
  BY DEF Preferred
<1>2. /\ DOMAIN order = {1, 2, 3}
      /\ order[1] = "password" /\ order[2] = "password_env" /\ order[3] = "password_file"
  OBVIOUS
<1>3. \A i \in DOMAIN order : order[i] \in Passwords
  BY <1>2 DEF Passwords
<1> HIDE DEF order
<1>4. ASSUME Passwords \intersect DOMAIN table = {} PROVE set = {}
  BY <1>3, <1>4
<1>5. ASSUME NEW f \in Passwords, Passwords \intersect DOMAIN table = {f}
      PROVE  set # {} /\ order[least] = f
  <2>1. \E i \in DOMAIN order : order[i] = f
    BY <1>2 DEF Passwords
  <2>2. PICK i \in DOMAIN order : order[i] = f
    BY <2>1
  <2>3. \A k \in DOMAIN order : order[k] = f => k = i
    BY <1>2, <2>2
  <2>4. set = {i}
    BY <1>3, <1>5, <2>2, <2>3
  <2>5. i <= i
    BY <1>2
  <2>6. least = i
    BY <2>4, <2>5
  <2> QED
    BY <2>2, <2>4, <2>6
<1> HIDE DEF set, least
<1> QED
  BY <1>1, <1>4, <1>5 DEF order

\* The hint of a password depends on the password fields alone.
LEMMA SameSecretSameHint ==
    ASSUME NEW s, NEW t, Secret(s) = Secret(t)
    PROVE  PasswordHint(s) = PasswordHint(t)
  BY PreferredSecret

\* What the editor shows as inherited is what the resolver inherits.
LEMMA HintsAreRight ==
    ASSUME NEW doc, IsDocument(doc), SeveralPasswords(doc) = {}
    PROVE  HintsAgree(doc)
<1> SUFFICES ASSUME NEW p \in DOMAIN doc, IsTask(p)
             PROVE  /\ \A f \in Inherited(p[1]) \union Cross : Emptied(doc, Above(p, f), f) \/
                         AboveTask(doc, p[1], p[2], f) =
                            IF f \in DOMAIN Parent(doc, p) THEN Loads(Parent(doc, p)[f])
                            ELSE Default(f)
                    /\ p[1] = "backup" =>
                          PasswordHint(Parent(doc, p)) = PasswordHint(SecretAboveTask(doc, p[2]))
  BY DEF HintsAgree
<1> DEFINE defaults == At(doc, <<p[1], p[2]>>)
           scalars  == [f \in DOMAIN defaults \ Passwords |-> defaults[f]]
           merged   == Over(scalars, GlobalParent(doc, p[1]))
           secrets  == IF p[1] = "backup" THEN MergePassword(merged, defaults) ELSE merged
           crossed  == Over(CrossFields(At(doc, <<"job", p[2]>>)), CrossParent(doc))
           global   == At(doc, <<"global", p[1]>>)
<1>1. p[1] \in Kinds
  BY TaskPath
<1>2. Parent(doc, p) = Over(crossed, secrets)
  BY <1>1 DEF Parent, TaskParent, IsTask, Kinds, Containers
<1>3. /\ DOMAIN crossed = Cross
      /\ crossed["notify"] =
            IF "notify" \in DOMAIN At(doc, <<"job", p[2]>>) THEN At(doc, <<"job", p[2]>>)["notify"]
            ELSE IF "notify" \in DOMAIN At(doc, <<"global">>) THEN At(doc, <<"global">>)["notify"]
            ELSE "no"
  BY DEF Over, CrossFields, CrossParent, Cross
<1>4. \A f : /\ f \in DOMAIN merged <=>
                   \/ f \in DOMAIN defaults \ Passwords
                   \/ f \in DOMAIN global
                   \/ f = "retention" /\ f \in Inherited(p[1])
             /\ f \in DOMAIN merged =>
                   merged[f] = IF f \in DOMAIN defaults \ Passwords THEN defaults[f]
                               ELSE IF f \in DOMAIN global THEN global[f] ELSE "no"
  BY DEF Over, GlobalParent
<1> HIDE DEF merged, crossed, scalars
<1>5. \A f : f \notin Passwords =>
             /\ f \in DOMAIN secrets <=> f \in DOMAIN merged
             /\ f \in DOMAIN merged => secrets[f] = merged[f]
  <2> DEFINE chosen == Preferred(defaults, <<"password", "password_env", "password_file">>)
  <2>1. chosen = <<>> \/ chosen[1] \in Passwords
    <3>1. CASE Passwords \intersect DOMAIN defaults = {}
      BY <3>1, ChosenPassword
    <3>2. CASE Passwords \intersect DOMAIN defaults # {}
      <4>1. PICK f \in Passwords : Passwords \intersect DOMAIN defaults = {f}
        BY <3>2, OnePassword
      <4>2. chosen = <<f, defaults[f]>>
        BY <4>1, ChosenPassword
      <4> HIDE DEF chosen
      <4> QED
        BY <4>2
    <3> QED
      BY <3>1, <3>2
  <2>2. secrets = merged \/ /\ chosen # <<>>
                            /\ secrets = Over([f \in {chosen[1]} |-> chosen[2]],
                                              [f \in DOMAIN merged \ Passwords |-> merged[f]])
    BY DEF MergePassword
  <2> HIDE DEF chosen, secrets
  <2> QED
    <3>1. CASE secrets = merged
      BY <3>1
    <3>2. CASE secrets # merged
      <4> DEFINE rest == [f \in DOMAIN merged \ Passwords |-> merged[f]]
                 one == [f \in {chosen[1]} |-> chosen[2]]
      <4>1. secrets = Over(one, rest) /\ chosen[1] \in Passwords
        BY <2>1, <2>2, <3>2
      <4>2. /\ DOMAIN one \subseteq Passwords
            /\ DOMAIN rest = DOMAIN merged \ Passwords
            /\ \A f \in DOMAIN rest : rest[f] = merged[f]
        BY <4>1
      <4> HIDE DEF one, rest
      <4> QED
        BY <4>1, <4>2 DEF Over
    <3> QED
      BY <3>1, <3>2
<1>6. ASSUME NEW f \in Inherited(p[1]) \union Cross, ~ Emptied(doc, Above(p, f), f)
      PROVE  AboveTask(doc, p[1], p[2], f) =
                IF f \in DOMAIN Parent(doc, p) THEN Loads(Parent(doc, p)[f]) ELSE Default(f)
  <2> DEFINE b == Above(p, f)[1]
             c == Above(p, f)[2]
  <2>a. /\ Above(p, f) = <<b, c>> /\ b # <<>> /\ c # <<>>
        /\ AboveTask(doc, p[1], p[2], f) = Inherit(f, Get(At(doc, b), f), Get(At(doc, c), f))
    BY ResolveLevels
  <2>b. /\ f \in Cross => b = <<"job", p[2]>> /\ c = <<"global">>
        /\ f \notin Cross => b = <<p[1], p[2]>> /\ c = <<"global", p[1]>>
    BY DEF Above
  <2> HIDE DEF b, c
  <2>c. First(doc, <<b, c>>, {f}) = IF f \in DOMAIN At(doc, b) THEN b
                                    ELSE IF f \in DOMAIN At(doc, c) THEN c ELSE <<>>
    BY FirstOfTwo
  <2>d. /\ f \in DOMAIN At(doc, b) => doc[b][f] # EmptyText
        /\ f \notin DOMAIN At(doc, b) /\ f \in DOMAIN At(doc, c) => doc[c][f] # EmptyText
    BY <1>6, <2>a, <2>c DEF Emptied
  <2>e. f # "steps"
    BY DEF Inherited, Cross
  <2>f. Loads("no") = "no"
    BY DEF Loads, EmptyText, QuotedNo, Fraction
  <2>g. AboveTask(doc, p[1], p[2], f) =
           IF f \in DOMAIN At(doc, b) THEN Loads(At(doc, b)[f])
           ELSE IF f \in DOMAIN At(doc, c) THEN Loads(At(doc, c)[f]) ELSE Default(f)
    BY <2>a, <2>d, <2>e, GetOf DEF Inherit
  <2>1. CASE f = "notify"
    <3>1. b = <<"job", p[2]>> /\ c = <<"global">>
      BY <2>1, <2>b DEF Cross
    <3>2. f \in DOMAIN Parent(doc, p) /\ Parent(doc, p)[f] = crossed["notify"]
      BY <1>2, <1>3, <2>1 DEF Over, Cross
    <3>3. Default(f) = "no"
      BY <2>1 DEF Default, Lists, Flags
    <3> QED
      BY <1>3, <2>1, <2>f, <2>g, <3>1, <3>2, <3>3
  <2>2. CASE f # "notify"
    <3>1. /\ f \in Inherited(p[1]) /\ f \in {"retention", "keep", "exclude", "bwlimit"}
          /\ f \notin Passwords /\ f \notin Cross
      BY <2>2 DEF Inherited, Cross, Passwords
    <3>2. At(doc, b) = defaults /\ At(doc, c) = global
      BY <2>b, <3>1
    <3>3. /\ f \in DOMAIN Parent(doc, p) <=> f \in DOMAIN secrets
          /\ f \in DOMAIN secrets => Parent(doc, p)[f] = secrets[f]
      BY <1>2, <1>3, <3>1 DEF Over
    <3>4. /\ f \in DOMAIN Parent(doc, p) <=> f \in DOMAIN merged
          /\ f \in DOMAIN merged => Parent(doc, p)[f] = merged[f]
      BY <1>5, <3>1, <3>3
    <3>5. f = "retention" => Default(f) = "no"
      BY DEF Default, Lists, Flags
    <3> HIDE DEF defaults, global
    <3> QED
      BY <1>4, <2>f, <2>g, <3>1, <3>2, <3>4, <3>5
  <2> QED
    BY <2>1, <2>2
<1>7. ASSUME p[1] = "backup"
      PROVE  PasswordHint(Parent(doc, p)) = PasswordHint(SecretAboveTask(doc, p[2]))
  <2> DEFINE chosen == Preferred(defaults, <<"password", "password_env", "password_file">>)
  <2>1. SecretAboveTask(doc, p[2]) =
           IF DOMAIN Secret(defaults) # {} THEN Secret(defaults) ELSE Secret(global)
    BY <1>7 DEF SecretAboveTask, InheritSecret
  <2>2. DOMAIN Secret(defaults) = Passwords \intersect DOMAIN defaults
    BY DEF Secret
  <2>3. secrets = MergePassword(merged, defaults)
    BY <1>7
  <2>4. \A f \in Passwords : /\ f \in DOMAIN Parent(doc, p) <=> f \in DOMAIN secrets
                             /\ f \in DOMAIN secrets => Parent(doc, p)[f] = secrets[f]
    BY <1>2, <1>3 DEF Over, Passwords, Cross
  <2>5. \A f \in Passwords : /\ f \in DOMAIN merged <=> f \in DOMAIN global
                             /\ f \in DOMAIN merged => merged[f] = global[f]
    BY <1>4 DEF Passwords
  <2> HIDE DEF secrets, global
  <2>6. CASE Passwords \intersect DOMAIN defaults = {}
    <3>1. chosen = <<>>
      BY <2>6, ChosenPassword
    <3>2. secrets = merged
      BY <2>3, <3>1 DEF MergePassword
    <3>3. Passwords \intersect DOMAIN Parent(doc, p) = Passwords \intersect DOMAIN global
      BY <2>4, <2>5, <3>2
    <3>4. \A f \in Passwords \intersect DOMAIN global : Parent(doc, p)[f] = global[f]
      BY <2>4, <2>5, <3>2
    <3>5. Secret(Parent(doc, p)) = Secret(global)
      BY <3>3, <3>4 DEF Secret
    <3>6. Secret(Secret(global)) = Secret(global)
      BY DEF Secret
    <3> QED
      BY <2>1, <2>2, <2>6, <3>5, SameSecretSameHint, PreferredSecret
  <2>7. CASE Passwords \intersect DOMAIN defaults # {}
    <3>1. PICK f \in Passwords : Passwords \intersect DOMAIN defaults = {f}
      BY <2>7, OnePassword
    <3>2. chosen = <<f, defaults[f]>>
      BY <3>1, ChosenPassword
    <3>3. secrets = Over([g \in {f} |-> defaults[f]],
                         [g \in DOMAIN merged \ Passwords |-> merged[g]])
      BY <2>3, <3>2 DEF MergePassword
    <3>4. \A g \in Passwords : /\ g \in DOMAIN secrets <=> g = f
                               /\ g = f => secrets[g] = defaults[f]
      BY <3>3 DEF Over
    <3>5. Passwords \intersect DOMAIN Parent(doc, p) = Passwords \intersect DOMAIN defaults
      BY <2>4, <3>1, <3>4
    <3>6. \A g \in Passwords \intersect DOMAIN defaults : Parent(doc, p)[g] = defaults[g]
      BY <2>4, <3>1, <3>4
    <3>7. Secret(Parent(doc, p)) = Secret(defaults)
      BY <3>5, <3>6 DEF Secret
    <3> QED
      BY <2>1, <2>2, <2>7, <3>7, SameSecretSameHint, PreferredSecret
  <2> QED
    BY <2>6, <2>7
<1> QED
  BY <1>6, <1>7

\* In every reachable state in which the file can be loaded, the hints of the editor and
\* the sources of the view of a job (field_views, _FieldSourceResolver) say what
\* resolve_config makes of the file, for every field for which the level that they take
\* the value from does not hold an empty text; an empty text stays among the fields that
\* are set, while resolve_config goes on to the next level.
THEOREM ViewsAreRight == Spec => []ViewsAgree
<1>1. IInv => ViewsAgree
  BY HintsAreRight, SourcesAreRight
  DEF IInv, FileInv, ViewsAgree, Loadable, Messages, ModelProblems
<1> QED
  BY <1>1, InductiveInvariant, PTL

-----------------------------------------------------------------------------
(* The pages.                                                               *)

\* u says what t says, but for what a page cannot show; an empty list of the global page,
\* and an empty text, may be missing.
SameTable(p, t, u) ==
    /\ DOMAIN u \subseteq DOMAIN t
    /\ \A f \in DOMAIN u : u[f] # t[f] =>
          f \in Flags \union Lists /\ t[f] \in Unshown /\ u[f] # Malformed
    /\ \A f \in DOMAIN t \ DOMAIN u : \/ p \in GlobalPaths /\ f \in Lists /\ t[f] = "empty"
                                      \/ f \in Lists /\ t[f] \in Unshown
                                      \/ f \in Texts /\ t[f] = EmptyText
\* e says what d says, and is d outside of the tables of a page.
Alike(d, e, page) ==
    /\ \A p : IsTask(p) => (p \in DOMAIN e <=> p \in DOMAIN d)
    /\ \A p : SameTable(p, At(d, p), At(e, p))
    /\ \A p : p \notin page => At(e, p) = At(d, p)

LEMMA AlikeItself == ASSUME NEW d, NEW page PROVE Alike(d, d, page)
  BY DEF Alike, SameTable

LEMMA PutAlike ==
    ASSUME NEW d, NEW e, NEW page, Alike(d, e, page), NEW q \in page,
           IsTask(q) => q \in DOMAIN d, NEW table, SameTable(q, At(d, q), table)
    PROVE  Alike(d, Put(e, q, table), page)
<1>1. /\ \A p : p \in DOMAIN Put(e, q, table) <=> p \in DOMAIN e \/ p = q
      /\ \A p : At(Put(e, q, table), p) = IF p = q THEN table ELSE At(e, p)
  BY DEF Put, At
<1>2. \A p : SameTable(p, At(d, p), At(Put(e, q, table), p))
  BY <1>1 DEF Alike
<1> QED
  BY <1>1, <1>2 DEF Alike

LEMMA PutOrDropAlike ==
    ASSUME NEW d, NEW e, NEW page, Alike(d, e, page), NEW q \in page, ~ IsTask(q),
           NEW table, SameTable(q, At(d, q), table)
    PROVE  Alike(d, PutOrDrop(e, q, table), page)
<1>1. CASE DOMAIN table = {}
  <2>1. /\ \A p : p \in DOMAIN Without(e, {q}) <=> p \in DOMAIN e /\ p # q
        /\ \A p : At(Without(e, {q}), p) = IF p = q THEN <<>> ELSE At(e, p)
    BY DEF Without, At
  <2>2. SameTable(q, At(d, q), <<>>)
    BY <1>1 DEF SameTable
  <2>3. \A p : SameTable(p, At(d, p), At(Without(e, {q}), p))
    BY <2>1, <2>2 DEF Alike
  <2> QED
    BY <1>1, <2>1, <2>3 DEF Alike, PutOrDrop
<1>2. CASE DOMAIN table # {}
  BY <1>2, PutAlike DEF PutOrDrop
<1> QED
  BY <1>1, <1>2

\* What a reader of the tables gets is the same, unless the page cannot show it.
LEMMA AlikeGet ==
    ASSUME NEW d, NEW e, NEW page, Alike(d, e, page), NEW p, NEW f,
           p \in page => ~ Holds(d, p, f, Unshown)
    PROVE  \/ Get(At(e, p), f) = Get(At(d, p), f)
           \/ /\ p \in GlobalPaths /\ f \in Lists
              /\ Get(At(d, p), f) = "empty" /\ Get(At(e, p), f) = Nothing
<1>1. SameTable(p, At(d, p), At(e, p)) /\ (p \notin page => At(e, p) = At(d, p))
  BY DEF Alike
<1>2. p \in page /\ f \in DOMAIN At(d, p) => At(d, p)[f] \notin Unshown
  BY DEF Holds, Has, At
<1>3. Loads(EmptyText) = Nothing /\ Loads("empty") = "empty"
  BY DEF Loads, EmptyText, QuotedNo, Fraction
<1> QED
  BY <1>1, <1>2, <1>3 DEF SameTable, Get

LEMMA AlikeResolve ==
    ASSUME NEW d, NEW e, NEW page, Alike(d, e, page), NEW p, p[1] \in Kinds, p \notin GlobalPaths,
           NEW f, \A q \in page \intersect Range(Chain(p, f)) : ~ Holds(d, q, f, Unshown)
    PROVE  Resolve(e, p, f) = Resolve(d, p, f)
<1> DEFINE b == Above(p, f)[1]
           c == Above(p, f)[2]
<1>1. Chain(p, f) = <<p, b, c>>
  BY ResolveLevels
<1>2. \A doc : /\ AboveTask(doc, p[1], p[2], f) =
                    Inherit(f, Get(At(doc, b), f), Get(At(doc, c), f))
               /\ Resolve(doc, p, f) =
                    Inherit(f, Get(At(doc, p), f), AboveTask(doc, p[1], p[2], f))
  BY ResolveLevels
<1>3. b \notin GlobalPaths
  <2>1. b[1] \in Kinds \union {"job"}
    BY DEF Above
  <2>2. \A q \in GlobalPaths : q[1] = "global"
    BY GlobalPath
  <2> HIDE DEF b
  <2> QED
    BY <2>1, <2>2 DEF Kinds, Containers
<1>4. f \in Lists => Default(f) = "empty"
  BY DEF Default, Lists, Flags
<1> HIDE DEF b, c
<1>5. {p, b, c} \subseteq Range(Chain(p, f))
  <2>1. /\ DOMAIN <<p, b, c>> = {1, 2, 3}
        /\ <<p, b, c>>[1] = p /\ <<p, b, c>>[2] = b /\ <<p, b, c>>[3] = c
    OBVIOUS
  <2> QED
    BY <1>1, <2>1 DEF Range
<1>6. \A q \in {p, b, c} : q \in page => ~ Holds(d, q, f, Unshown)
  BY <1>5
<1>7. Get(At(e, p), f) = Get(At(d, p), f)
  BY <1>6, AlikeGet
<1>8. Get(At(e, b), f) = Get(At(d, b), f)
  BY <1>3, <1>6, AlikeGet
<1>9. AboveTask(e, p[1], p[2], f) = AboveTask(d, p[1], p[2], f)
  <2>1. CASE Get(At(e, c), f) = Get(At(d, c), f)
    BY <1>2, <1>8, <2>1
  <2>2. CASE f \in Lists /\ Get(At(d, c), f) = "empty" /\ Get(At(e, c), f) = Nothing
    <3>1. \A own : Inherit(f, own, Nothing) = Inherit(f, own, "empty")
      BY <1>4, <2>2 DEF Inherit, Nothing
    <3> QED
      BY <1>2, <1>8, <2>2, <3>1
  <2> QED
    BY <1>6, <2>1, <2>2, AlikeGet
<1> QED
  BY <1>2, <1>7, <1>9

LEMMA AlikeSecret ==
    ASSUME NEW d, NEW e, NEW page, Alike(d, e, page), NEW p
    PROVE  Secret(At(e, p)) = Secret(At(d, p))
<1>1. SameTable(p, At(d, p), At(e, p))
  BY DEF Alike
<1>2. Passwords \intersect DOMAIN At(e, p) = Passwords \intersect DOMAIN At(d, p)
  BY <1>1 DEF SameTable, Lists, Texts, Passwords
<1>3. \A f \in Passwords \intersect DOMAIN At(e, p) : At(e, p)[f] = At(d, p)[f]
  BY <1>1 DEF SameTable, Lists, Flags, Passwords
<1> QED
  BY <1>2, <1>3 DEF Secret

LEMMA AlikeSteps ==
    ASSUME NEW d, NEW e, NEW page, Alike(d, e, page)
    PROVE  /\ \A p : StepsOf(e, p) = StepsOf(d, p)
           /\ \A k, j : TasksOf(e, k, j) = TasksOf(d, k, j)
<1>1. ASSUME NEW p PROVE StepsOf(e, p) = StepsOf(d, p)
  <2>1. SameTable(p, At(d, p), At(e, p))
    BY DEF Alike
  <2>2. "steps" \in DOMAIN At(e, p) <=> "steps" \in DOMAIN At(d, p)
    BY <2>1 DEF SameTable, Lists, Texts
  <2>3. "steps" \in DOMAIN At(e, p) =>
          /\ At(e, p)["steps"] = At(d, p)["steps"]
          /\ p \in DOMAIN d /\ p \in DOMAIN e /\ At(e, p) = e[p] /\ At(d, p) = d[p]
    BY <2>1, <2>2 DEF SameTable, At, Lists, Flags
  <2> QED
    BY <2>2, <2>3 DEF StepsOf, Has
<1>2. ASSUME NEW k, NEW j PROVE TasksOf(e, k, j) = TasksOf(d, k, j)
  <2>1. {q \in DOMAIN e : IsTask(q) /\ q[1] = k /\ q[2] = j} =
        {q \in DOMAIN d : IsTask(q) /\ q[1] = k /\ q[2] = j}
    BY DEF Alike
  <2> QED
    BY <2>1 DEF TasksOf
<1> QED
  BY <1>1, <1>2

\* What loading checks, table by table.
LEMMA LoadableMeans ==
    ASSUME NEW doc, NEW D
    PROVE  Loadable(doc, D) <=>
             /\ \A q \in DOMAIN doc : DOMAIN doc[q] \subseteq FieldsOf(q)
             /\ \A q \in DOMAIN doc : \A f \in DOMAIN doc[q] \ {"steps"} : doc[q][f] # Malformed
             /\ \A q \in DOMAIN doc : ~ Cardinality(DOMAIN Secret(doc[q])) > 1
             /\ \A q \in DOMAIN doc : IsTask(q) /\ q[1] \in Containers => q[3] \notin Reserved
             /\ \A q \in DOMAIN doc : IsTask(q) /\ q[1] = "workflow" => StepsOf(doc, q) # {}
             /\ \A q \in DOMAIN doc : Has(doc, q, "password_file") =>
                                         Get(doc[q], "password_file") \in D
             /\ \A q \in DOMAIN doc : IsTask(q) /\ q[1] = "workflow" =>
                                         \A s \in StepsOf(doc, q) : Named(doc, q[2], s)
             /\ Has(doc, <<"global">>, "retryCount") => Has(doc, <<"global">>, "retryDelay")
             /\ \A q \in DOMAIN doc : IsTask(q) /\ q[1] = "backup"
                                      /\ Resolve(doc, q, "retention") = "yes" => HasPolicy(doc, q)
             /\ \A q \in DOMAIN doc : IsTask(q) /\ q[1] = "workflow" =>
                  \A s \in StepsOf(doc, q) : s.kind = "backup" /\ s.part = "retention" =>
                     HasPolicy(doc, <<"backup", q[2], s.task>>)
<1>1. Loadable(doc, D) <=>
         /\ UnknownFields(doc) = {} /\ MalformedFields(doc) = {} /\ SeveralPasswords(doc) = {}
         /\ ReservedNames(doc) = {} /\ BadSteps(doc) = {} /\ MissingFiles(doc, D) = {}
         /\ UnknownSteps(doc) = {} /\ RetryProblem(doc) = {} /\ NoPolicy(doc) = {}
         /\ NoPolicyForStep(doc) = {}
  <2>1. Loadable(doc, D) <=> /\ ModelProblems(doc) = {} /\ RawProblems(doc, D) = {}
                             /\ ResolvedProblems(doc) = {}
    BY DEF Loadable, Messages
  <2> QED
    BY <2>1 DEF ModelProblems, RawProblems, ResolvedProblems
<1>2. UnknownFields(doc) = {} <=> \A q \in DOMAIN doc : DOMAIN doc[q] \subseteq FieldsOf(q)
  BY DEF UnknownFields
<1>3. MalformedFields(doc) = {} <=>
        \A q \in DOMAIN doc : \A f \in DOMAIN doc[q] \ {"steps"} : doc[q][f] # Malformed
  BY DEF MalformedFields
<1>4. SeveralPasswords(doc) = {} <=>
        \A q \in DOMAIN doc : ~ Cardinality(DOMAIN Secret(doc[q])) > 1
  BY DEF SeveralPasswords
<1>5. ReservedNames(doc) = {} <=>
        \A q \in DOMAIN doc : IsTask(q) /\ q[1] \in Containers => q[3] \notin Reserved
  BY DEF ReservedNames
<1>6. BadSteps(doc) = {} <=>
        \A q \in DOMAIN doc : IsTask(q) /\ q[1] = "workflow" => StepsOf(doc, q) # {}
  BY DEF BadSteps
<1>7. MissingFiles(doc, D) = {} <=>
        \A q \in DOMAIN doc : Has(doc, q, "password_file") => Get(doc[q], "password_file") \in D
  BY DEF MissingFiles
<1>8. UnknownSteps(doc) = {} <=>
        \A q \in DOMAIN doc : IsTask(q) /\ q[1] = "workflow" =>
                                \A s \in StepsOf(doc, q) : Named(doc, q[2], s)
  BY DEF UnknownSteps
<1>9. RetryProblem(doc) = {} <=>
        (Has(doc, <<"global">>, "retryCount") => Has(doc, <<"global">>, "retryDelay"))
  BY DEF RetryProblem
<1>10. NoPolicy(doc) = {} <=>
        \A q \in DOMAIN doc : IsTask(q) /\ q[1] = "backup"
                              /\ Resolve(doc, q, "retention") = "yes" => HasPolicy(doc, q)
  BY DEF NoPolicy
<1>11. NoPolicyForStep(doc) = {} <=>
        \A q \in DOMAIN doc : IsTask(q) /\ q[1] = "workflow" =>
           \A s \in StepsOf(doc, q) : s.kind = "backup" /\ s.part = "retention" =>
              HasPolicy(doc, <<"backup", q[2], s.task>>)
  BY DEF NoPolicyForStep
<1> QED
  BY <1>1, <1>2, <1>3, <1>4, <1>5, <1>6, <1>7, <1>8, <1>9, <1>10, <1>11

\* A document that says the same can be loaded, too, unless a retention turned on.
LEMMA AlikeLoads ==
    ASSUME NEW d, IsDocument(d), NEW e, NEW page, Alike(d, e, page), NEW D, Loadable(d, D),
           \A q \in page : ~ Holds(d, q, "retention", {QuotedNo})
    PROVE  Loadable(e, D)
<1>1. /\ \A q \in DOMAIN d : DOMAIN d[q] \subseteq FieldsOf(q)
      /\ \A q \in DOMAIN d : \A f \in DOMAIN d[q] \ {"steps"} : d[q][f] # Malformed
      /\ \A q \in DOMAIN d : ~ Cardinality(DOMAIN Secret(d[q])) > 1
  BY LoadableMeans
<1>2. \A q \in DOMAIN e : /\ At(e, q) = e[q] /\ SameTable(q, At(d, q), e[q])
                          /\ q \in DOMAIN d => At(d, q) = d[q]
                          /\ q \notin DOMAIN d => DOMAIN e[q] = {}
  <2>1. ASSUME NEW q \in DOMAIN e
        PROVE  At(e, q) = e[q] /\ SameTable(q, At(d, q), e[q])
    BY DEF Alike, At
  <2>2. ASSUME NEW q \in DOMAIN e, q \notin DOMAIN d PROVE DOMAIN e[q] = {}
    <3>1. At(d, q) = <<>>
      BY <2>2 DEF At
    <3>2. DOMAIN At(d, q) = {}
      BY <3>1
    <3> QED
      BY <2>1, <3>2 DEF SameTable
  <2> QED
    BY <2>1, <2>2 DEF At
<1>3. \A q \in DOMAIN e : DOMAIN e[q] \subseteq FieldsOf(q)
  BY <1>1, <1>2 DEF SameTable
<1>4. \A q \in DOMAIN e : \A f \in DOMAIN e[q] \ {"steps"} : e[q][f] # Malformed
  BY <1>1, <1>2 DEF SameTable
<1>5. \A q \in DOMAIN e : ~ Cardinality(DOMAIN Secret(e[q])) > 1
  <2>1. ASSUME NEW q \in DOMAIN e, q \in DOMAIN d PROVE Secret(e[q]) = Secret(d[q])
    BY <1>2, <2>1, AlikeSecret
  <2>2. ASSUME NEW q \in DOMAIN e, q \notin DOMAIN d
        PROVE  ~ Cardinality(DOMAIN Secret(e[q])) > 1
    <3>1. DOMAIN Secret(e[q]) = {}
      BY <1>2, <2>2 DEF Secret
    <3> QED
      BY <3>1, FS_EmptySet
  <2> QED
    BY <1>1, <2>1, <2>2
<1>6. \A q \in DOMAIN e : IsTask(q) => q \in DOMAIN d /\ q[1] \in Kinds /\ q \notin GlobalPaths
  BY TaskPath DEF Alike
<1>7. /\ \A q : StepsOf(e, q) = StepsOf(d, q)
      /\ \A j, s : Named(e, j, s) <=> Named(d, j, s)
  BY AlikeSteps DEF Named
<1>8. /\ \A q \in DOMAIN e : IsTask(q) /\ q[1] \in Containers => q[3] \notin Reserved
      /\ \A q \in DOMAIN e : IsTask(q) /\ q[1] = "workflow" => StepsOf(e, q) # {}
      /\ \A q \in DOMAIN e : IsTask(q) /\ q[1] = "workflow" =>
            \A s \in StepsOf(e, q) : Named(e, q[2], s)
  BY <1>6, <1>7, LoadableMeans
<1>9. \A q \in DOMAIN e : Has(e, q, "password_file") => Get(e[q], "password_file") \in D
  <2> SUFFICES ASSUME NEW q \in DOMAIN e, Has(e, q, "password_file")
               PROVE  Get(e[q], "password_file") \in D
    OBVIOUS
  <2>1. "password_file" \in DOMAIN e[q] /\ q \in DOMAIN d
    BY <1>2 DEF Has
  <2>2. "password_file" \in DOMAIN d[q] /\ e[q]["password_file"] = d[q]["password_file"]
    BY <1>2, <2>1 DEF SameTable, Flags, Lists
  <2>3. Get(d[q], "password_file") \in D
    BY <2>1, <2>2, LoadableMeans DEF Has, At
  <2> QED
    BY <2>1, <2>2, <2>3 DEF Get
<1>10. Has(e, <<"global">>, "retryCount") => Has(e, <<"global">>, "retryDelay")
  <2>1. Has(d, <<"global">>, "retryCount") => Has(d, <<"global">>, "retryDelay")
    BY LoadableMeans
  <2>2. SameTable(<<"global">>, At(d, <<"global">>), At(e, <<"global">>))
    BY DEF Alike
  <2> QED
    BY <2>1, <2>2 DEF SameTable, Has, Lists, Texts
<1>11. ASSUME NEW p, p[1] \in Kinds, p \notin GlobalPaths, NEW f \in {"retention", "keep"}
       PROVE  Resolve(e, p, f) = Resolve(d, p, f)
  <2>1. ASSUME NEW q \in page PROVE ~ Holds(d, q, f, Unshown)
    <3> SUFFICES ASSUME q \in DOMAIN d, f \in DOMAIN d[q], d[q][f] \in Unshown
                 PROVE  FALSE
      BY DEF Holds, Has, At
    <3>1. IsTable(d[q]) /\ f # "steps"
      BY DEF IsDocument
    <3>2. f = "retention" /\ d[q][f] = QuotedNo
      BY <3>1 DEF IsTable, Unshown, Lists, Flags
    <3> QED
      BY <3>2 DEF Holds, Has, At
  <2> QED
    BY <1>11, <2>1, AlikeResolve
<1>12. \A q \in DOMAIN e : IsTask(q) /\ q[1] = "backup"
                           /\ Resolve(e, q, "retention") = "yes" => HasPolicy(e, q)
  BY <1>6, <1>11, LoadableMeans DEF HasPolicy
<1>13. \A q \in DOMAIN e : IsTask(q) /\ q[1] = "workflow" =>
          \A s \in StepsOf(e, q) : s.kind = "backup" /\ s.part = "retention" =>
             HasPolicy(e, <<"backup", q[2], s.task>>)
  <2> SUFFICES ASSUME NEW q \in DOMAIN e, IsTask(q), q[1] = "workflow",
                      NEW s \in StepsOf(e, q), s.kind = "backup", s.part = "retention"
               PROVE  HasPolicy(e, <<"backup", q[2], s.task>>)
    OBVIOUS
  <2> DEFINE p == <<"backup", q[2], s.task>>
  <2>1. HasPolicy(d, p)
    BY <1>6, <1>7, LoadableMeans
  <2>2. p[1] \in Kinds /\ p \notin GlobalPaths
    BY GlobalPath DEF Kinds, Containers
  <2> HIDE DEF p
  <2>3. HasPolicy(e, p)
    BY <1>11, <2>1, <2>2 DEF HasPolicy
  <2> QED
    BY <2>3 DEF p
<1> QED
  BY <1>3, <1>4, <1>5, <1>8, <1>9, <1>10, <1>12, <1>13, LoadableMeans

\* The form of a page puts every field back as it was, but for a fraction.
LEMMA ViewTable ==
    ASSUME NEW p, IsPath(p), NEW table, IsTable(table), DOMAIN table \subseteq FieldsOf(p)
    PROVE  /\ FormIsBad(FieldViews(p, table)) <=>
                 \E f \in Numbers : f \in DOMAIN table /\ table[f] = Fraction
           /\ SameTable(p, table, ApplyFields(table, FieldViews(p, table)))
<1> DEFINE form == FieldViews(p, table)
           set == [f \in {g \in DOMAIN form : form[g] # Blank} |-> form[f]]
           rest == [f \in DOMAIN table \ DOMAIN form |-> table[f]]
<1>1. /\ DOMAIN form = PageFields(p)
      /\ \A f \in PageFields(p) :
            form[f] = IF f \in DOMAIN table THEN FieldView(p, table[f]) ELSE Blank
  BY DEF FieldViews
<1>2. "steps" \notin PageFields(p)
  BY DEF PageFields
<1>3. ASSUME NEW f \in PageFields(p) \intersect DOMAIN table
      PROVE  /\ form[f] \in {NotANumber, Fraction} <=> table[f] = Fraction
             /\ form[f] # Blank /\ form[f] # table[f] =>
                   f \in Flags \union Lists /\ table[f] \in Unshown /\ form[f] # Malformed
             /\ form[f] = Blank => \/ table[f] = "empty" /\ f \in Lists /\ p \in GlobalPaths
                                   \/ f \in Lists /\ table[f] \in Unshown
                                   \/ f \in Texts /\ table[f] = EmptyText
  <2>1. form[f] = FieldView(p, table[f])
    BY <1>1
  <2>2. /\ table[f] \notin {Nothing, Blank, NotANumber}
        /\ table[f] \in {"empty", BlankLine, Padded} => f \in Lists
        /\ table[f] = EmptyText => f \in Texts
        /\ table[f] = QuotedNo => f \in Flags
    BY <1>2 DEF IsTable
  <2>3. ~ Inheritable(p) => p \in GlobalPaths
    BY GlobalPath DEF Inheritable
  <2> HIDE DEF form
  <2>4. CASE table[f] \in {EmptyText, BlankLine}
    <3>1. form[f] = Blank
      BY <2>1, <2>4 DEF FieldView, EmptyText, BlankLine, QuotedNo, Padded
    <3> QED
      BY <2>2, <2>4, <3>1 DEF Unshown, Blank, NotANumber, Fraction, EmptyText, BlankLine
  <2>5. CASE table[f] \in {QuotedNo, Padded}
    BY <2>1, <2>2, <2>5 DEF FieldView, Unshown, Blank, NotANumber, Fraction, EmptyText,
       BlankLine, QuotedNo, Padded, Malformed
  <2>6. CASE table[f] = "empty" /\ ~ Inheritable(p)
    <3>1. form[f] = Blank
      BY <2>1, <2>6 DEF FieldView, EmptyText, BlankLine, QuotedNo, Padded
    <3> QED
      BY <2>2, <2>3, <2>6, <3>1 DEF Blank, NotANumber, Fraction
  <2>7. CASE /\ table[f] \notin {EmptyText, BlankLine, QuotedNo, Padded}
             /\ ~ (table[f] = "empty" /\ ~ Inheritable(p))
    <3>1. form[f] = table[f]
      BY <2>1, <2>7, Zenon DEF FieldView
    <3> QED
      BY <2>2, <3>1
  <2> QED
    BY <2>4, <2>5, <2>6, <2>7
<1>4. \A f \in DOMAIN table : table[f] = Fraction =>
         (f \in Numbers <=> f \in PageFields(p))
  <2>1. Numbers \intersect (Passwords \union {"steps"}) = {}
    BY DEF Numbers, Passwords
  <2> QED
    BY <1>2, <2>1 DEF IsTable, PageFields
<1> HIDE DEF form
<1>5. FormIsBad(form) <=> \E f \in Numbers : f \in DOMAIN table /\ table[f] = Fraction
  <2>1. Blank \notin {NotANumber, Fraction}
    BY DEF Blank, NotANumber, Fraction
  <2>2. FormIsBad(form) <=> \E f \in PageFields(p) : form[f] \in {NotANumber, Fraction}
    BY <1>1 DEF FormIsBad
  <2>3. FormIsBad(form) <=> \E f \in PageFields(p) \intersect DOMAIN table : table[f] = Fraction
    BY <1>1, <1>3, <2>1, <2>2
  <2> QED
    BY <1>4, <2>3
<1>6. /\ DOMAIN ApplyFields(table, form) = DOMAIN set \union DOMAIN rest
      /\ \A f \in DOMAIN set \union DOMAIN rest :
            ApplyFields(table, form)[f] = IF f \in DOMAIN set THEN set[f] ELSE rest[f]
  BY DEF ApplyFields, Over
<1>7. /\ \A f : f \in DOMAIN set <=> f \in PageFields(p) /\ form[f] # Blank
      /\ \A f \in DOMAIN set : f \in DOMAIN table /\ set[f] = form[f]
  BY <1>1, <1>3
<1>8. /\ DOMAIN rest = DOMAIN table \ PageFields(p)
      /\ \A f \in DOMAIN rest : rest[f] = table[f]
  BY <1>1
<1> HIDE DEF set, rest
<1>9. SameTable(p, table, ApplyFields(table, form))
  <2>1. \A f \in DOMAIN table \ DOMAIN ApplyFields(table, form) :
           f \in PageFields(p) /\ form[f] = Blank
    BY <1>6, <1>7, <1>8
  <2>2. DOMAIN ApplyFields(table, form) \subseteq DOMAIN table
    BY <1>6, <1>7, <1>8
  <2>3. ASSUME NEW f \in DOMAIN ApplyFields(table, form), ApplyFields(table, form)[f] # table[f]
        PROVE  f \in Flags \union Lists /\ table[f] \in Unshown
               /\ ApplyFields(table, form)[f] # Malformed
    BY <1>3, <1>6, <1>7, <1>8, <2>3
  <2>4. ASSUME NEW f \in DOMAIN table \ DOMAIN ApplyFields(table, form)
        PROVE  \/ p \in GlobalPaths /\ f \in Lists /\ table[f] = "empty"
               \/ f \in Lists /\ table[f] \in Unshown
               \/ f \in Texts /\ table[f] = EmptyText
    <3>1. f \in PageFields(p) \intersect DOMAIN table /\ form[f] = Blank
      BY <2>1
    <3> QED
      BY <1>3, <3>1
  <2> HIDE DEF form
  <2> QED
    BY <2>2, <2>3, <2>4 DEF SameTable
<1> QED
  BY <1>5, <1>9 DEF form

\* The source of the password that a page names, with one password field in the table.
LEMMA HintedPassword ==
    ASSUME NEW table
    PROVE  /\ Passwords \intersect DOMAIN table = {} => PasswordHint(table) = <<>>
           /\ \A f \in Passwords :
                 Passwords \intersect DOMAIN table = {f} => PasswordHint(table) = <<f, table[f]>>
<1> DEFINE order == <<"password_env", "password_file", "password">>
           set == {i \in DOMAIN order : order[i] \in DOMAIN table}
           least == CHOOSE i \in set : \A k \in set : i <= k
<1>1. PasswordHint(table) = IF set = {} THEN <<>> ELSE <<order[least], table[order[least]]>>
  BY DEF PasswordHint, Preferred
<1>2. /\ DOMAIN order = {1, 2, 3}
      /\ order[1] = "password_env" /\ order[2] = "password_file" /\ order[3] = "password"
  OBVIOUS
<1>3. \A i \in DOMAIN order : order[i] \in Passwords
  BY <1>2 DEF Passwords
<1> HIDE DEF order
<1>4. ASSUME Passwords \intersect DOMAIN table = {} PROVE set = {}
  BY <1>3, <1>4
<1>5. ASSUME NEW f \in Passwords, Passwords \intersect DOMAIN table = {f}
      PROVE  set # {} /\ order[least] = f
  <2>1. \E i \in DOMAIN order : order[i] = f
    BY <1>2 DEF Passwords
  <2>2. PICK i \in DOMAIN order : order[i] = f
    BY <2>1
  <2>3. \A k \in DOMAIN order : order[k] = f => k = i
    BY <1>2, <2>2
  <2>4. set = {i}
    BY <1>3, <1>5, <2>2, <2>3
  <2>5. i <= i
    BY <1>2
  <2>6. least = i
    BY <2>4, <2>5
  <2> QED
    BY <2>2, <2>4, <2>6
<1> HIDE DEF set, least
<1> QED
  BY <1>1, <1>4, <1>5

\* The password fields of a page, shown and saved, put back what was there.
LEMMA ViewCredential ==
    ASSUME NEW doc, IsDocument(doc), SeveralPasswords(doc) = {}, NEW p,
           NEW u, SameTable(p, At(doc, p), u)
    PROVE  /\ ~ CredentialIsBad(u, CredentialView(At(doc, p)))
           /\ SameTable(p, At(doc, p), ApplyCredential(u, CredentialView(At(doc, p))))
<1> DEFINE table == At(doc, p)
           view == CredentialView(table)
           rest == [f \in DOMAIN u \ Passwords |-> u[f]]
<1>1. IsTable(table)
  BY TableOf
<1>2. SameTable(p, table, u)
  OBVIOUS
<1>3. Passwords \intersect DOMAIN u = Passwords \intersect DOMAIN table
  BY <1>2 DEF SameTable, Lists, Texts, Passwords
<1>4. CASE Passwords \intersect DOMAIN table = {}
  <2>1. view.mode = "inherit"
    BY <1>4, HintedPassword DEF CredentialView
  <2> HIDE DEF view, table
  <2>2. ApplyCredential(u, view) = rest /\ ~ CredentialIsBad(u, view)
    BY <2>1 DEF ApplyCredential, CredentialIsBad, Passwords
  <2>3. DOMAIN rest = DOMAIN u /\ \A f \in DOMAIN u : rest[f] = u[f]
    BY <1>3, <1>4
  <2> HIDE DEF rest
  <2>4. SameTable(p, table, rest)
    BY <1>2, <2>3 DEF SameTable
  <2> QED
    BY <2>2, <2>4 DEF view, table
<1>5. CASE Passwords \intersect DOMAIN table # {}
  <2>1. PICK f \in Passwords : Passwords \intersect DOMAIN table = {f}
    BY <1>5, OnePassword
  <2>2. f \in DOMAIN table /\ table[f] # Blank
    BY <1>1, <2>1 DEF IsTable, Passwords
  <2>3. PasswordHint(table) = <<f, table[f]>>
    BY <2>1, HintedPassword
  <2>4. view.mode = f /\ view.value = IF f = "password" THEN Blank ELSE table[f]
    <3>1. <<f, table[f]>> # <<>> /\ <<f, table[f]>>[1] = f /\ <<f, table[f]>>[2] = table[f]
      OBVIOUS
    <3> QED
      BY <2>3, <3>1 DEF CredentialView
  <2> DEFINE value == IF view.value = Blank THEN u["password"] ELSE view.value
             one == [g \in {view.mode} |-> value]
  <2>5. f \in DOMAIN u /\ u[f] = table[f]
    BY <1>2, <1>3, <2>1 DEF SameTable, Flags, Lists, Passwords
  <2> HIDE DEF view, table
  <2>6. ~ CredentialIsBad(u, view)
    BY <2>2, <2>4, <2>5 DEF CredentialIsBad
  <2>7. view.mode \notin {"absent", "inherit"}
    BY <2>1, <2>4 DEF Passwords
  <2>8. ApplyCredential(u, view) = Over(one, rest)
    BY <2>7 DEF ApplyCredential
  <2>9. value = u[f]
    BY <2>2, <2>4, <2>5
  <2>10. DOMAIN one = {f} /\ one[f] = u[f]
    BY <2>4, <2>9
  <2>11. DOMAIN rest = DOMAIN u \ {f} /\ \A g \in DOMAIN rest : rest[g] = u[g]
    BY <1>3, <2>1
  <2> HIDE DEF one, rest
  <2>12. /\ DOMAIN Over(one, rest) = DOMAIN u
         /\ \A g \in DOMAIN u : Over(one, rest)[g] = u[g]
    BY <2>5, <2>10, <2>11 DEF Over
  <2>13. SameTable(p, table, Over(one, rest))
    BY <1>2, <2>12 DEF SameTable
  <2> QED
    BY <2>6, <2>8, <2>13 DEF view, table
<1> QED
  BY <1>4, <1>5

\* Saving a task or a job under the name it has renames nothing.
LEMMA RenameItself ==
    ASSUME NEW doc, NEW p \in DOMAIN doc, NEW page
    PROVE  Alike(doc, Rename(doc, p, p), page) /\ At(Rename(doc, p, p), p) = At(doc, p)
<1>1. /\ \A q : q \in DOMAIN Rename(doc, p, p) <=> q \in DOMAIN doc
      /\ \A q \in DOMAIN doc : Rename(doc, p, p)[q] = doc[q]
  BY DEF Rename
<1>2. \A q : At(Rename(doc, p, p), q) = At(doc, q)
  BY <1>1 DEF At
<1> QED
  BY <1>1, <1>2 DEF Alike, SameTable

LEMMA RenameJobItself ==
    ASSUME NEW doc, IsDocument(doc), NEW j, NEW page
    PROVE  /\ Alike(doc, RenameJob(doc, j, j), page)
           /\ \A p : At(RenameJob(doc, j, j), p) = At(doc, p)
<1> DEFINE name(p) == IF OfJob(p, j) THEN [p EXCEPT ![2] = j] ELSE p
           renamed == RenameJob(doc, j, j)
<1>1. /\ DOMAIN renamed = {name(p) : p \in DOMAIN doc}
      /\ \A q \in DOMAIN renamed : renamed[q] = doc[CHOOSE p \in DOMAIN doc : name(p) = q]
  BY DEF RenameJob
<1>2. ASSUME NEW p \in DOMAIN doc PROVE name(p) = p
  <2>1. CASE OfJob(p, j)
    <3>1. IsPath(p) /\ p[2] = j /\ p \notin GlobalPaths
      BY <2>1, GlobalPath DEF IsDocument, OfJob
    <3>2. CASE p = <<p[1], p[2]>>
      <4>1. [p EXCEPT ![2] = j] = p
        BY <3>1, <3>2
      <4> QED
        BY <2>1, <4>1
    <3>3. CASE p = <<p[1], p[2], p[3]>>
      <4>1. [p EXCEPT ![2] = j] = p
        BY <3>1, <3>3
      <4> QED
        BY <2>1, <4>1
    <3> QED
      BY <3>1, <3>2, <3>3 DEF IsPath
  <2>2. CASE ~ OfJob(p, j)
    BY <2>2
  <2> QED
    BY <2>1, <2>2
<1> HIDE DEF name, renamed
<1>3. DOMAIN renamed = DOMAIN doc
  BY <1>1, <1>2
<1>4. \A q \in DOMAIN doc : (CHOOSE p \in DOMAIN doc : name(p) = q) = q
  BY <1>2
<1>5. \A q \in DOMAIN doc : renamed[q] = doc[q]
  BY <1>1, <1>3, <1>4
<1>6. \A q : At(renamed, q) = At(doc, q)
  BY <1>3, <1>5 DEF At
<1> QED
  BY <1>3, <1>6 DEF Alike, SameTable, renamed

\* The page of a table of a loadable document.
LEMMA ViewPage ==
    ASSUME NEW doc, IsDocument(doc), NEW D, Loadable(doc, D), NEW p, IsPath(p)
    PROVE  /\ FormIsBad(FieldViews(p, At(doc, p))) <=>
                 \E f \in Numbers : Holds(doc, p, f, {Fraction})
           /\ SameTable(p, At(doc, p), ApplyFields(At(doc, p), FieldViews(p, At(doc, p))))
<1>1. IsTable(At(doc, p))
  BY TableOf
<1>2. DOMAIN At(doc, p) \subseteq FieldsOf(p)
  <2>1. DOMAIN <<>> = {}
    OBVIOUS
  <2> QED
    BY <2>1, LoadableMeans DEF At
<1>3. \A f : Holds(doc, p, f, {Fraction}) <=> f \in DOMAIN At(doc, p) /\ At(doc, p)[f] = Fraction
  <2>1. DOMAIN <<>> = {}
    OBVIOUS
  <2> QED
    BY <2>1 DEF Holds, Has, At
<1> QED
  BY <1>1, <1>2, <1>3, ViewTable

\* A page that shows a fraction is refused; any other that is saved as it is shown changes
\* nothing that a reader gets, but for what a page cannot show.
Fractional(doc, page) == \E p \in page : \E f \in Numbers : Holds(doc, p, f, {Fraction})
Unchanging(doc, op) ==
    IF Fractional(doc, OnPage(op)) THEN ~ Edit(doc, op).ok
    ELSE Edit(doc, op).ok /\ Alike(doc, Edit(doc, op).doc, OnPage(op))

LEMMA GlobalPage ==
    ASSUME NEW doc, IsDocument(doc), NEW D, Loadable(doc, D)
    PROVE  Unchanging(doc, GlobalForm(doc))
<1> DEFINE op == GlobalForm(doc)
           G == <<"global">>
           B == <<"global", "backup">>
           R == <<"global", "rclone">>
           backup == ApplyFields(At(doc, B), op.tables[B])
           secret == ApplyCredential(backup, op.secret)
           rclone == ApplyFields(At(doc, R), op.tables[R])
           global == ApplyFields(At(doc, G), op.tables[G])
<1>1. /\ op.what = "global" /\ op.secret = CredentialView(At(doc, B))
      /\ DOMAIN op.tables = GlobalPaths
      /\ \A p \in GlobalPaths : op.tables[p] = FieldViews(p, At(doc, p))
  BY DEF GlobalForm
<1>2. Edit(doc, op) = SaveGlobal(doc, op)
  BY <1>1 DEF Edit
<1>3. SaveGlobal(doc, op) =
         IF \/ \E p \in DOMAIN op.tables : FormIsBad(op.tables[p])
            \/ CredentialIsBad(backup, op.secret)
         THEN Refusal
         ELSE Done(PutOrDrop(PutOrDrop(Put(doc, G, global), B, secret), R, rclone))
  BY DEF SaveGlobal
<1>4. /\ G \in GlobalPaths /\ B \in GlobalPaths /\ R \in GlobalPaths
      /\ ~ IsTask(G) /\ ~ IsTask(B) /\ ~ IsTask(R) /\ OnPage(op) = GlobalPaths
  BY <1>1, GlobalPath DEF IsTask, OnPage
<1> HIDE DEF op, G, B, R
<1>5. \A p \in GlobalPaths :
         /\ FormIsBad(op.tables[p]) <=> \E f \in Numbers : Holds(doc, p, f, {Fraction})
         /\ SameTable(p, At(doc, p), ApplyFields(At(doc, p), op.tables[p]))
  BY <1>1, GlobalPath, ViewPage
<1>6. SameTable(G, At(doc, G), global) /\ SameTable(R, At(doc, R), rclone)
      /\ SameTable(B, At(doc, B), backup)
  BY <1>4, <1>5
<1>7. SeveralPasswords(doc) = {}
  BY DEF Loadable, Messages, ModelProblems
<1> HIDE DEF global, backup, rclone
<1>8. ~ CredentialIsBad(backup, op.secret) /\ SameTable(B, At(doc, B), secret)
  BY <1>1, <1>6, <1>7, ViewCredential
<1> HIDE DEF secret
<1>9. Alike(doc, Put(doc, G, global), GlobalPaths)
  <2>1. Alike(doc, doc, GlobalPaths)
    BY AlikeItself
  <2> QED
    BY <1>4, <1>6, <2>1, PutAlike
<1>10. Alike(doc, PutOrDrop(Put(doc, G, global), B, secret), GlobalPaths)
  BY <1>4, <1>8, <1>9, PutOrDropAlike
<1>11. Alike(doc, PutOrDrop(PutOrDrop(Put(doc, G, global), B, secret), R, rclone), GlobalPaths)
  BY <1>4, <1>6, <1>10, PutOrDropAlike
<1>12. (\E p \in DOMAIN op.tables : FormIsBad(op.tables[p])) <=> Fractional(doc, GlobalPaths)
  BY <1>1, <1>5 DEF Fractional
<1> QED
  BY <1>2, <1>3, <1>4, <1>8, <1>11, <1>12 DEF Unchanging, Done, Refusal, op

LEMMA JobPage ==
    ASSUME NEW doc, IsDocument(doc), NEW D, Loadable(doc, D), NEW j, <<"job", j>> \in DOMAIN doc
    PROVE  Unchanging(doc, JobForm(doc, j))
<1> DEFINE op == JobForm(doc, j)
           p == <<"job", j>>
           renamed == RenameJob(doc, j, j)
           table == ApplyFields(At(renamed, p), op.form)
<1>1. op.what = "job" /\ op.job = j /\ op.new = j /\ op.form = FieldViews(p, At(doc, p))
  BY DEF JobForm
<1>2. IsPath(p) /\ ~ IsTask(p) /\ OnPage(op) = {p}
  BY <1>1 DEF IsDocument, IsTask, OnPage
<1>3. j # Nothing
  BY <1>2, GlobalPath DEF IsPath, IsDocument
<1> HIDE DEF op
<1>4. Edit(doc, op) = SaveJob(doc, op)
  BY <1>1 DEF Edit
<1>5. SaveJob(doc, op) = IF FormIsBad(op.form) THEN Refusal ELSE Done(Put(renamed, p, table))
  BY <1>1, <1>3 DEF SaveJob
<1>6. Alike(doc, renamed, {p}) /\ At(renamed, p) = At(doc, p)
  BY RenameJobItself
<1> HIDE DEF renamed, p
<1>7. /\ FormIsBad(op.form) <=> Fractional(doc, {p})
      /\ SameTable(p, At(doc, p), table)
  BY <1>1, <1>2, <1>6, ViewPage DEF Fractional
<1> HIDE DEF table
<1>8. Alike(doc, Put(renamed, p, table), {p})
  BY <1>2, <1>6, <1>7, PutAlike
<1> QED
  BY <1>2, <1>4, <1>5, <1>7, <1>8 DEF Unchanging, Done, Refusal, op

LEMMA DefaultsPage ==
    ASSUME NEW doc, IsDocument(doc), NEW D, Loadable(doc, D), NEW j, <<"job", j>> \in DOMAIN doc
    PROVE  /\ Unchanging(doc, BackupDefaultsForm(doc, j))
           /\ Unchanging(doc, RcloneDefaultsForm(doc, j))
<1>1. SeveralPasswords(doc) = {}
  BY DEF Loadable, Messages, ModelProblems
<1>2. j # Nothing
  <2>1. IsPath(<<"job", j>>)
    BY DEF IsDocument
  <2> QED
    BY <2>1, GlobalPath DEF IsPath
<1>3. ASSUME NEW k \in Containers
      PROVE  LET p == <<k, j>>
                 view == FieldViews(p, At(doc, p))
             IN  /\ ~ IsTask(p)
                 /\ FormIsBad(view) <=> Fractional(doc, {p})
                 /\ SameTable(p, At(doc, p), ApplyFields(At(doc, p), view))
                 /\ \A u : SameTable(p, At(doc, p), u) => Alike(doc, PutOrDrop(doc, p, u), {p})
  <2> DEFINE p == <<k, j>>
  <2>1. IsPath(p) /\ ~ IsTask(p)
    BY <1>2 DEF IsPath, IsTask
  <2> HIDE DEF p
  <2>2. /\ FormIsBad(FieldViews(p, At(doc, p))) <=> Fractional(doc, {p})
        /\ SameTable(p, At(doc, p), ApplyFields(At(doc, p), FieldViews(p, At(doc, p))))
    BY <2>1, ViewPage DEF Fractional
  <2>3. Alike(doc, doc, {p})
    BY AlikeItself
  <2>4. \A u : SameTable(p, At(doc, p), u) => Alike(doc, PutOrDrop(doc, p, u), {p})
    BY <2>1, <2>3, PutOrDropAlike
  <2> QED
    BY <2>1, <2>2, <2>4 DEF p
<1>4. Unchanging(doc, BackupDefaultsForm(doc, j))
  <2> DEFINE op == BackupDefaultsForm(doc, j)
             p == <<"backup", j>>
             table == ApplyFields(At(doc, p), op.form)
             secret == ApplyCredential(table, op.secret)
  <2>1. /\ op.what = "defaults" /\ op.kind = "backup" /\ op.job = j
        /\ op.form = FieldViews(p, At(doc, p)) /\ op.secret = CredentialView(At(doc, p))
    BY DEF BackupDefaultsForm
  <2> HIDE DEF op
  <2>2. Edit(doc, op) = SaveBackupDefaults(doc, op) /\ OnPage(op) = {p}
    BY <2>1 DEF Edit, OnPage
  <2>3. SaveBackupDefaults(doc, op) =
           IF FormIsBad(op.form) \/ CredentialIsBad(table, op.secret) THEN Refusal
           ELSE Done(PutOrDrop(doc, p, secret))
    BY <2>1 DEF SaveBackupDefaults
  <2>4. /\ FormIsBad(op.form) <=> Fractional(doc, {p})
        /\ SameTable(p, At(doc, p), table)
        /\ \A u : SameTable(p, At(doc, p), u) => Alike(doc, PutOrDrop(doc, p, u), {p})
    BY <1>3, <2>1 DEF Containers
  <2> HIDE DEF p, table
  <2>5. ~ CredentialIsBad(table, op.secret) /\ SameTable(p, At(doc, p), secret)
    BY <1>1, <2>1, <2>4, ViewCredential
  <2> HIDE DEF secret
  <2>6. CASE Fractional(doc, {p})
    <3>1. Edit(doc, op) = Refusal
      BY <2>2, <2>3, <2>4, <2>6
    <3> QED
      BY <2>2, <2>6, <3>1 DEF Unchanging, Refusal, op
  <2>7. CASE ~ Fractional(doc, {p})
    <3>1. Edit(doc, op) = Done(PutOrDrop(doc, p, secret))
      BY <2>2, <2>3, <2>4, <2>5, <2>7
    <3>2. Alike(doc, PutOrDrop(doc, p, secret), {p})
      BY <2>4, <2>5
    <3> QED
      BY <2>2, <2>7, <3>1, <3>2 DEF Unchanging, Done, op
  <2> QED
    BY <2>6, <2>7
<1>5. Unchanging(doc, RcloneDefaultsForm(doc, j))
  <2> DEFINE op == RcloneDefaultsForm(doc, j)
             p == <<"rclone", j>>
             table == ApplyFields(At(doc, p), op.form)
  <2>1. /\ op.what = "defaults" /\ op.kind = "rclone" /\ op.job = j
        /\ op.form = FieldViews(p, At(doc, p))
    BY DEF RcloneDefaultsForm
  <2> HIDE DEF op
  <2>2. Edit(doc, op) = SaveRcloneDefaults(doc, op) /\ OnPage(op) = {p}
    BY <2>1 DEF Edit, OnPage
  <2>3. SaveRcloneDefaults(doc, op) =
           IF FormIsBad(op.form) THEN Refusal ELSE Done(PutOrDrop(doc, p, table))
    BY <2>1 DEF SaveRcloneDefaults
  <2>4. /\ FormIsBad(op.form) <=> Fractional(doc, {p})
        /\ Alike(doc, PutOrDrop(doc, p, table), {p})
    BY <1>3, <2>1 DEF Containers
  <2> HIDE DEF p, table
  <2> QED
    BY <2>2, <2>3, <2>4 DEF Unchanging, Done, Refusal, op
<1> QED
  BY <1>4, <1>5

\* What the pages of tasks share.
LEMMA TaskPage ==
    ASSUME NEW doc, IsDocument(doc), NEW D, Loadable(doc, D), NEW p \in DOMAIN doc, IsTask(p),
           NEW op, op.kind = p[1], op.job = p[2], op.task = p[3], op.new = p[3],
           op.what = "task", op.form = FieldViews(p, doc[p])
    PROVE  LET table == ApplyFields(At(Placed(doc, op), p), op.form)
           IN  /\ <<op.kind, op.job, op.new>> = p /\ OnPage(op) = {p}
               /\ TaskRefused(doc, op) <=> Fractional(doc, {p})
               /\ SameTable(p, At(doc, p), table)
               /\ \A u : SameTable(p, At(doc, p), u) =>
                          Alike(doc, Put(Placed(doc, op), p, u), {p})
<1> DEFINE table == ApplyFields(At(Placed(doc, op), p), op.form)
<1>1. /\ p = <<p[1], p[2], p[3]>> /\ p[3] # Nothing /\ <<"job", p[2]>> \in DOMAIN doc
      /\ IsPath(p) /\ At(doc, p) = doc[p]
  BY TaskPath DEF IsDocument, At
<1>2. <<op.kind, op.job, op.new>> = p /\ <<op.kind, op.job, op.task>> = p /\ OnPage(op) = {p}
  BY <1>1 DEF OnPage
<1>3. Placed(doc, op) = Rename(doc, p, p)
  BY <1>1, <1>2 DEF Placed
<1>4. Alike(doc, Placed(doc, op), {p}) /\ At(Placed(doc, op), p) = At(doc, p)
  BY <1>3, RenameItself
<1>5. /\ FormIsBad(op.form) <=> Fractional(doc, {p})
      /\ SameTable(p, At(doc, p), table)
  BY <1>1, <1>4, ViewPage DEF Fractional
<1>6. TaskRefused(doc, op) <=> Fractional(doc, {p})
  BY <1>1, <1>2, <1>5 DEF TaskRefused
<1>7. \A u : SameTable(p, At(doc, p), u) => Alike(doc, Put(Placed(doc, op), p, u), {p})
  BY <1>4, PutAlike
<1> QED
  BY <1>2, <1>5, <1>6, <1>7

\* The form of a backup or a workflow has one field more.
LEMMA TaskFormFields ==
    ASSUME NEW doc, NEW p, NEW one, DOMAIN one \in {{"secret"}, {"steps"}},
           NEW op, op = Over(one, TaskForm(doc, p))
    PROVE  /\ op.what = "task" /\ op.kind = p[1] /\ op.job = p[2] /\ op.task = p[3]
           /\ op.new = p[3] /\ op.form = FieldViews(p, doc[p])
           /\ \A f \in DOMAIN one : op[f] = one[f]
<1> DEFINE r == TaskForm(doc, p)
<1>1. /\ DOMAIN r = {"what", "kind", "job", "task", "new", "form"}
      /\ r.what = "task" /\ r.kind = p[1] /\ r.job = p[2] /\ r.task = p[3]
      /\ r.new = p[3] /\ r.form = FieldViews(p, doc[p])
  BY DEF TaskForm
<1>2. op = Over(one, r)
  OBVIOUS
<1> HIDE DEF r
<1>3. DOMAIN one \intersect DOMAIN r = {}
  BY <1>1
<1>4. \A f \in DOMAIN r : op[f] = r[f]
  BY <1>2, <1>3 DEF Over
<1>5. \A f \in DOMAIN one : op[f] = one[f]
  BY <1>2 DEF Over
<1> QED
  BY <1>1, <1>4, <1>5 DEF r

LEMMA BackupPage ==
    ASSUME NEW doc, IsDocument(doc), NEW D, Loadable(doc, D),
           NEW p \in DOMAIN doc, IsTask(p), p[1] = "backup"
    PROVE  Unchanging(doc, BackupForm(doc, p))
<1> DEFINE op == BackupForm(doc, p)
           table == ApplyFields(At(Placed(doc, op), p), op.form)
           secret == ApplyCredential(table, op.secret)
<1> DEFINE one == [f \in {"secret"} |-> CredentialView(doc[p])]
<1>a. op = Over(one, TaskForm(doc, p)) /\ DOMAIN one = {"secret"}
      /\ one["secret"] = CredentialView(doc[p])
  BY DEF BackupForm
<1> HIDE DEF op, one
<1>1. /\ op.what = "task" /\ op.kind = p[1] /\ op.job = p[2] /\ op.task = p[3]
      /\ op.new = p[3] /\ op.form = FieldViews(p, doc[p])
  BY <1>a, TaskFormFields
<1>2. op.secret = CredentialView(At(doc, p))
  <2>1. op["secret"] = one["secret"]
    BY <1>a, TaskFormFields
  <2> QED
    BY <1>a, <2>1 DEF At
<1>3. SeveralPasswords(doc) = {} /\ p[3] \notin Reserved
  BY LoadableMeans DEF Loadable, Messages, ModelProblems, Containers
<1> HIDE DEF op
<1>4. /\ <<op.kind, op.job, op.new>> = p /\ OnPage(op) = {p}
      /\ TaskRefused(doc, op) <=> Fractional(doc, {p})
      /\ SameTable(p, At(doc, p), table)
      /\ \A u : SameTable(p, At(doc, p), u) => Alike(doc, Put(Placed(doc, op), p, u), {p})
  BY <1>1, TaskPage
<1>5. Edit(doc, op) = SaveBackup(doc, op)
  BY <1>1 DEF Edit
<1>6. SaveBackup(doc, op) =
         IF op.new \in Reserved \/ TaskRefused(doc, op) \/ CredentialIsBad(table, op.secret)
         THEN Refusal ELSE Done(Put(Placed(doc, op), p, secret))
  <2>1. <<"backup", op.job, op.new>> = p
    BY <1>1, <1>4
  <2> QED
    BY <2>1 DEF SaveBackup
<1> HIDE DEF table
<1>7. ~ CredentialIsBad(table, op.secret) /\ SameTable(p, At(doc, p), secret)
  BY <1>2, <1>3, <1>4, ViewCredential
<1> HIDE DEF secret
<1>8. CASE Fractional(doc, {p})
  <2>1. Edit(doc, op) = Refusal
    BY <1>4, <1>5, <1>6, <1>8
  <2> QED
    BY <1>4, <1>8, <2>1 DEF Unchanging, Refusal, op
<1>9. CASE ~ Fractional(doc, {p})
  <2>1. Edit(doc, op) = Done(Put(Placed(doc, op), p, secret))
    BY <1>1, <1>3, <1>4, <1>5, <1>6, <1>7, <1>9
  <2>2. Alike(doc, Put(Placed(doc, op), p, secret), {p})
    BY <1>4, <1>7
  <2> QED
    BY <1>4, <1>9, <2>1, <2>2 DEF Unchanging, Done, op
<1> QED
  BY <1>8, <1>9

LEMMA RclonePage ==
    ASSUME NEW doc, IsDocument(doc), NEW D, Loadable(doc, D),
           NEW p \in DOMAIN doc, IsTask(p), p[1] = "rclone"
    PROVE  Unchanging(doc, RcloneForm(doc, p))
<1> DEFINE op == RcloneForm(doc, p)
           table == ApplyFields(At(Placed(doc, op), p), op.form)
<1>1. /\ op.what = "task" /\ op.kind = p[1] /\ op.job = p[2] /\ op.task = p[3]
      /\ op.new = p[3] /\ op.form = FieldViews(p, doc[p])
  BY DEF RcloneForm, TaskForm
<1>2. p[3] \notin Reserved
  BY LoadableMeans DEF Containers
<1> HIDE DEF op
<1>3. /\ <<op.kind, op.job, op.new>> = p /\ OnPage(op) = {p}
      /\ TaskRefused(doc, op) <=> Fractional(doc, {p})
      /\ Alike(doc, Put(Placed(doc, op), p, table), {p})
  BY <1>1, TaskPage
<1>4. Edit(doc, op) = SaveRclone(doc, op)
  BY <1>1 DEF Edit
<1>5. SaveRclone(doc, op) = IF op.new \in Reserved \/ TaskRefused(doc, op) THEN Refusal
                            ELSE Done(Put(Placed(doc, op), p, table))
  <2>1. <<"rclone", op.job, op.new>> = p
    BY <1>1, <1>3
  <2> QED
    BY <2>1 DEF SaveRclone
<1> HIDE DEF table
<1> QED
  BY <1>1, <1>2, <1>3, <1>4, <1>5 DEF Unchanging, Done, Refusal, op

LEMMA WorkflowPage ==
    ASSUME NEW doc, IsDocument(doc), NEW D, Loadable(doc, D),
           NEW p \in DOMAIN doc, IsTask(p), p[1] = "workflow"
    PROVE  Unchanging(doc, WorkflowForm(doc, p))
<1> DEFINE op == WorkflowForm(doc, p)
           table == ApplyFields(At(Placed(doc, op), p), op.form)
           steps == [f \in {"steps"} |-> op.steps]
<1> DEFINE one == [f \in {"steps"} |-> StepsOf(doc, p)]
<1>a. op = Over(one, TaskForm(doc, p)) /\ DOMAIN one = {"steps"}
      /\ one["steps"] = StepsOf(doc, p)
  BY DEF WorkflowForm
<1> HIDE DEF op, one
<1>1. /\ op.what = "task" /\ op.kind = p[1] /\ op.job = p[2] /\ op.task = p[3]
      /\ op.new = p[3] /\ op.form = FieldViews(p, doc[p])
  BY <1>a, TaskFormFields
<1>2. op.steps = StepsOf(doc, p)
  <2>1. op["steps"] = one["steps"]
    BY <1>a, TaskFormFields
  <2> QED
    BY <1>a, <2>1
<1>3. /\ StepsOf(doc, p) # {} /\ \A s \in StepsOf(doc, p) : Named(doc, p[2], s)
  BY LoadableMeans
<1>4. "steps" \in DOMAIN At(doc, p) /\ At(doc, p)["steps"] = StepsOf(doc, p)
  BY <1>3 DEF StepsOf, Has, At
<1> HIDE DEF op
<1>5. /\ <<op.kind, op.job, op.new>> = p /\ OnPage(op) = {p}
      /\ TaskRefused(doc, op) <=> Fractional(doc, {p})
      /\ SameTable(p, At(doc, p), table)
      /\ \A u : SameTable(p, At(doc, p), u) => Alike(doc, Put(Placed(doc, op), p, u), {p})
  BY <1>1, TaskPage
<1>6. Edit(doc, op) = SaveWorkflow(doc, op)
  BY <1>1 DEF Edit
<1>7. SaveWorkflow(doc, op) =
         IF op.steps = {} \/ (\E s \in op.steps : ~ Named(doc, op.job, s)) \/ TaskRefused(doc, op)
         THEN Refusal ELSE Done(Put(Placed(doc, op), p, Over(steps, table)))
  <2>1. <<"workflow", op.job, op.new>> = p
    BY <1>1, <1>5
  <2> QED
    BY <2>1 DEF SaveWorkflow
<1> HIDE DEF table
<1>8. SameTable(p, At(doc, p), Over(steps, table))
  <2>1. /\ DOMAIN Over(steps, table) = DOMAIN table \union {"steps"}
        /\ Over(steps, table)["steps"] = op.steps
        /\ \A f \in DOMAIN table : f # "steps" => Over(steps, table)[f] = table[f]
    <3>1. DOMAIN steps = {"steps"} /\ steps["steps"] = op.steps
      OBVIOUS
    <3> HIDE DEF steps
    <3> QED
      BY <3>1 DEF Over
  <2> HIDE DEF steps
  <2> QED
    BY <1>2, <1>4, <1>5, <2>1 DEF SameTable
<1> HIDE DEF steps
<1> QED
  BY <1>1, <1>2, <1>3, <1>5, <1>6, <1>7, <1>8 DEF Unchanging, Done, Refusal, op

\* Every page of a loadable document.
LEMMA PagesUnchanging ==
    ASSUME NEW doc, IsDocument(doc), NEW D, Loadable(doc, D), NEW op \in Forms(doc)
    PROVE  Unchanging(doc, op)
<1> DEFINE jobs == {p[2] : p \in {q \in DOMAIN doc : q[1] = "job"}}
           tasks(k) == {p \in DOMAIN doc : IsTask(p) /\ p[1] = k}
<1>1. \/ op = GlobalForm(doc)
      \/ \E j \in jobs : op = JobForm(doc, j)
      \/ \E j \in jobs : op = BackupDefaultsForm(doc, j)
      \/ \E j \in jobs : op = RcloneDefaultsForm(doc, j)
      \/ \E p \in tasks("backup") : op = BackupForm(doc, p)
      \/ \E p \in tasks("rclone") : op = RcloneForm(doc, p)
      \/ \E p \in tasks("workflow") : op = WorkflowForm(doc, p)
  BY DEF Forms
<1>2. ASSUME NEW j \in jobs PROVE <<"job", j>> \in DOMAIN doc
  <2>1. PICK p \in DOMAIN doc : p[1] = "job" /\ p[2] = j
    OBVIOUS
  <2>2. p \notin GlobalPaths
    BY <2>1, GlobalPath
  <2> QED
    BY <2>1, <2>2 DEF IsDocument
<1>3. ASSUME NEW j \in jobs
      PROVE  /\ Unchanging(doc, JobForm(doc, j)) /\ Unchanging(doc, BackupDefaultsForm(doc, j))
             /\ Unchanging(doc, RcloneDefaultsForm(doc, j))
  <2> HIDE DEF jobs
  <2> QED
    BY <1>2, <1>3, JobPage, DefaultsPage
<1>4. /\ \A p \in tasks("backup") : Unchanging(doc, BackupForm(doc, p))
      /\ \A p \in tasks("rclone") : Unchanging(doc, RcloneForm(doc, p))
      /\ \A p \in tasks("workflow") : Unchanging(doc, WorkflowForm(doc, p))
  BY BackupPage, RclonePage, WorkflowPage
<1>5. Unchanging(doc, GlobalForm(doc))
  BY GlobalPage
<1> HIDE DEF jobs, tasks
<1> QED
  BY <1>1, <1>3, <1>4, <1>5

\* A form that is shown again after a refusal says what was submitted.
LEMMA SubmittedForm ==
    ASSUME NEW p, NEW form, IsForm(p, form)
    PROVE  Submitted(p, form) = form
<1> DEFINE pseudo == PseudoTable(form)
<1>1. /\ \A f : f \in DOMAIN pseudo <=> f \in DOMAIN form /\ form[f] # Blank
      /\ \A f \in DOMAIN pseudo : pseudo[f] = form[f]
  BY DEF PseudoTable
<1>2. Submitted(p, form) = [f \in DOMAIN form |-> FieldViews(p, pseudo)[f]]
  BY DEF Submitted
<1> HIDE DEF pseudo
<1>3. ASSUME NEW f \in DOMAIN form PROVE FieldViews(p, pseudo)[f] = form[f]
  <2>1. FieldViews(p, pseudo)[f] =
           IF f \in DOMAIN pseudo THEN FieldView(p, pseudo[f]) ELSE Blank
    BY DEF FieldViews, IsForm
  <2>2. form[f] = "empty" => Inheritable(p)
    BY DEF IsForm
  <2>3. form[f] \notin {EmptyText, BlankLine, QuotedNo, Padded}
    BY DEF IsForm, Odd, Fraction, EmptyText, BlankLine, QuotedNo, Padded
  <2> QED
    BY <1>1, <2>1, <2>2, <2>3 DEF FieldView, Fraction, EmptyText, BlankLine, QuotedNo, Padded
<1>4. form = [f \in DOMAIN form |-> form[f]]
  BY DEF IsForm
<1>5. [f \in DOMAIN form |-> FieldViews(p, pseudo)[f]] = [f \in DOMAIN form |-> form[f]]
  BY <1>3
<1> QED
  BY <1>2, <1>4, <1>5

LEMMA SubmittedSecret ==
    ASSUME NEW secret, IsSecret(secret), Repeatable(secret)
    PROVE  CredentialViewFromForm(secret) = secret
<1>1. secret = [mode |-> secret.mode, value |-> secret.value]
  BY DEF IsSecret
<1> DEFINE m == IF secret.mode = "absent" THEN "inherit" ELSE secret.mode
           v == IF secret.mode = "password" THEN Blank ELSE secret.value
<1>2. m = secret.mode /\ v = secret.value
  BY DEF Repeatable
<1>3. CredentialViewFromForm(secret) = [mode |-> m, value |-> v]
  BY DEF CredentialViewFromForm
<1> HIDE DEF m, v
<1> QED
  BY <1>1, <1>2, <1>3

\* The page after a refusal asks for the same edit.
LEMMA FormAgainIsSame ==
    ASSUME NEW op, IsOperation(op), "secret" \in DOMAIN op => Repeatable(op.secret)
    PROVE  FormAgain(op) = op
<1> DEFINE secret(o) == IF "secret" \notin DOMAIN o THEN o
                        ELSE [o EXCEPT !.secret = CredentialViewFromForm(o.secret)]
<1>1. CASE op.what = "global"
  <2> DEFINE again == [p \in DOMAIN op.tables |-> Submitted(p, op.tables[p])]
  <2>1. /\ IsSecret(op.secret) /\ \A p \in GlobalPaths : IsForm(p, op.tables[p])
        /\ op.tables = [p \in GlobalPaths |-> op.tables[p]]
        /\ op = [what |-> "global", secret |-> op.secret, tables |-> op.tables]
    BY <1>1 DEF IsOperation
  <2>2. again = op.tables
    <3>1. DOMAIN op.tables = GlobalPaths
      BY <2>1
    <3>2. \A p \in GlobalPaths : Submitted(p, op.tables[p]) = op.tables[p]
      BY <2>1, SubmittedForm
    <3>3. again = [p \in GlobalPaths |-> op.tables[p]]
      BY <3>1, <3>2
    <3> QED
      BY <2>1, <3>3
  <2>3. FormAgain(op) = secret([op EXCEPT !.tables = again])
    BY <1>1 DEF FormAgain
  <2> HIDE DEF again
  <2>4. [op EXCEPT !.tables = again] = op
    BY <2>1, <2>2
  <2>5. CredentialViewFromForm(op.secret) = op.secret
    BY <2>1, SubmittedSecret
  <2>6. [op EXCEPT !.secret = op.secret] = op
    BY <2>1
  <2> QED
    BY <2>3, <2>4, <2>5, <2>6
<1>2. CASE op.what = "job"
  <2>1. /\ IsForm(<<"job", op.new>>, op.form)
        /\ op = [what |-> "job", job |-> op.job, new |-> op.new, form |-> op.form]
    BY <1>2 DEF IsOperation
  <2>2. FormAgain(op) = [op EXCEPT !.form = Submitted(<<"job", op.new>>, op.form)]
    BY <1>2 DEF FormAgain
  <2>3. Submitted(<<"job", op.new>>, op.form) = op.form
    BY <2>1, SubmittedForm
  <2>4. [op EXCEPT !.form = op.form] = op
    BY <2>1
  <2> QED
    BY <2>2, <2>3, <2>4
<1>3. CASE op.what = "defaults"
  <2> DEFINE again == Submitted(<<op.kind, op.job>>, op.form)
             defaults == [what |-> "defaults", kind |-> op.kind, job |-> op.job,
                          form |-> op.form]
  <2>1. /\ op.kind \in Containers /\ IsForm(<<op.kind, op.job>>, op.form)
        /\ CASE op.kind = "backup" ->
                  op = Over([f \in {"secret"} |-> op.secret], defaults) /\ IsSecret(op.secret)
             [] op.kind = "rclone" -> op = defaults
    BY <1>3 DEF IsOperation
  <2>2. again = op.form
    BY <2>1, SubmittedForm
  <2>3. FormAgain(op) = secret([op EXCEPT !.form = again])
    BY <1>3 DEF FormAgain
  <2>4. /\ op = [f \in DOMAIN op |-> op[f]]
        /\ "secret" \in DOMAIN op => IsSecret(op.secret)
    <3>1. CASE op.kind = "backup"
      BY <2>1, <3>1 DEF Over
    <3>2. CASE op.kind = "rclone"
      BY <2>1, <3>2
    <3> QED
      BY <2>1, <3>1, <3>2 DEF Containers
  <2> HIDE DEF again
  <2>5. [op EXCEPT !.form = op.form] = op
    BY <2>4
  <2>6. "secret" \in DOMAIN op => CredentialViewFromForm(op.secret) = op.secret
    BY <2>4, SubmittedSecret
  <2>7. [op EXCEPT !.secret = op.secret] = op
    BY <2>4
  <2> QED
    BY <2>2, <2>3, <2>5, <2>6, <2>7
<1>4. CASE op.what = "task"
  <2> DEFINE again == Submitted(<<op.kind, op.job, op.new>>, op.form)
             task == [what |-> "task", kind |-> op.kind, job |-> op.job, task |-> op.task,
                      new |-> op.new, form |-> op.form]
  <2>1. /\ op.kind \in Kinds /\ IsForm(<<op.kind, op.job, op.new>>, op.form)
        /\ CASE op.kind = "backup" ->
                  op = Over([f \in {"secret"} |-> op.secret], task) /\ IsSecret(op.secret)
             [] op.kind = "rclone"   -> op = task
             [] op.kind = "workflow" -> op = Over([f \in {"steps"} |-> op.steps], task)
    BY <1>4 DEF IsOperation
  <2>2. again = op.form
    BY <2>1, SubmittedForm
  <2>3. FormAgain(op) = secret([op EXCEPT !.form = again])
    BY <1>4 DEF FormAgain
  <2>4. /\ op = [f \in DOMAIN op |-> op[f]]
        /\ "secret" \in DOMAIN op => IsSecret(op.secret)
    <3>1. CASE op.kind = "backup"
      BY <2>1, <3>1 DEF Over
    <3>2. CASE op.kind = "rclone"
      BY <2>1, <3>2
    <3>3. CASE op.kind = "workflow"
      BY <2>1, <3>3 DEF Over
    <3> QED
      BY <2>1, <3>1, <3>2, <3>3 DEF Kinds, Containers
  <2> HIDE DEF again
  <2>5. [op EXCEPT !.form = op.form] = op
    BY <2>4
  <2>6. "secret" \in DOMAIN op => CredentialViewFromForm(op.secret) = op.secret
    BY <2>4, SubmittedSecret
  <2>7. [op EXCEPT !.secret = op.secret] = op
    BY <2>4
  <2> QED
    BY <2>2, <2>3, <2>5, <2>6, <2>7
<1>5. CASE op.what \in {"delete", "deleteJob"}
  BY <1>5 DEF FormAgain
<1> QED
  BY <1>1, <1>2, <1>3, <1>4, <1>5 DEF IsOperation

\* In every reachable state in which the file can be loaded, a page that is saved as it is
\* shown is refused if it shows a fraction where a whole number is asked for; else it is
\* accepted, the file can still be loaded unless a quoted "no" stood in retention, and it
\* leaves what every task gets as it is, but for a field that had a quoted "no", a blank line
\* or a padded line in a table of the page.  A page that comes back after a refusal asks for
\* the same edit, but for a new direct password and a request without a password source
\* (field_views, _apply_fields, credential_view).
THEOREM PagesAreRight == Spec => []PagesRoundTrip
<1>1. ASSUME IInv, file.state = "text", Loadable(file.doc, disk)
      PROVE  FormsAgree(file.doc)
  <2>1. IsDocument(file.doc)
    BY <1>1 DEF IInv, FileInv
  <2>2. ASSUME NEW op \in Forms(file.doc)
        PROVE  LET saved == Edit(file.doc, op)
               IN  IF Fractional(file.doc, OnPage(op))
                   THEN ~ saved.ok
                   ELSE /\ saved.ok
                        /\ \/ Loadable(saved.doc, disk)
                           \/ \E p \in OnPage(op) : Holds(file.doc, p, "retention", {QuotedNo})
                        /\ \A p \in {q \in DOMAIN file.doc : IsTask(q)} :
                             /\ p \in DOMAIN saved.doc
                             /\ StepsOf(saved.doc, p) = StepsOf(file.doc, p)
                             /\ \A f \in Inherited(p[1]) \union Cross :
                                  \/ Resolve(saved.doc, p, f) = Resolve(file.doc, p, f)
                                  \/ Disturbed(file.doc, op, p, f)
                             /\ p[1] = "backup" =>
                                  ResolveSecret(saved.doc, p) = ResolveSecret(file.doc, p)
    <3> DEFINE e == Edit(file.doc, op).doc
               page == OnPage(op)
    <3>1. Unchanging(file.doc, op)
      BY <1>1, <2>1, PagesUnchanging
    <3>2. CASE Fractional(file.doc, page)
      BY <3>1, <3>2 DEF Unchanging
    <3>3. CASE ~ Fractional(file.doc, page)
      <4>1. Edit(file.doc, op).ok /\ Alike(file.doc, e, page)
        BY <3>1, <3>3 DEF Unchanging
      <4> HIDE DEF e, page
      <4>2. Loadable(e, disk) \/ \E p \in page : Holds(file.doc, p, "retention", {QuotedNo})
        BY <1>1, <2>1, <4>1, AlikeLoads
      <4>3. ASSUME NEW p \in {q \in DOMAIN file.doc : IsTask(q)}
            PROVE  /\ p \in DOMAIN e /\ StepsOf(e, p) = StepsOf(file.doc, p)
                   /\ \A f : \/ Resolve(e, p, f) = Resolve(file.doc, p, f)
                             \/ \E q \in page \intersect Range(Chain(p, f)) :
                                   Holds(file.doc, q, f, Unshown)
                   /\ ResolveSecret(e, p) = ResolveSecret(file.doc, p)
        <5>1. p \in DOMAIN e /\ StepsOf(e, p) = StepsOf(file.doc, p)
          BY <4>1, AlikeSteps DEF Alike
        <5>2. p[1] \in Kinds /\ p \notin GlobalPaths
          BY <2>1, TaskPath
        <5>3. ASSUME NEW f, ~ \E q \in page \intersect Range(Chain(p, f)) :
                                  Holds(file.doc, q, f, Unshown)
              PROVE  Resolve(e, p, f) = Resolve(file.doc, p, f)
          BY <4>1, <5>2, <5>3, AlikeResolve
        <5>4. \A q : Secret(At(e, q)) = Secret(At(file.doc, q))
          BY <4>1, AlikeSecret
        <5>5. ResolveSecret(e, p) = ResolveSecret(file.doc, p)
          BY <5>4 DEF ResolveSecret, SecretAboveTask
        <5> QED
          BY <5>1, <5>3, <5>5
      <4> QED
        BY <3>3, <4>1, <4>2, <4>3 DEF e, page, Disturbed
    <3> QED
      BY <3>2, <3>3
  <2>3. ASSUME NEW op \in Operations, "secret" \in DOMAIN op => Repeatable(op.secret)
        PROVE  Edit(file.doc, FormAgain(op)) = Edit(file.doc, op)
    BY <2>3, EditorAssumption, FormAgainIsSame
  <2> QED
    BY <2>2, <2>3 DEF FormsAgree, Fractional
<1>2. IInv => PagesRoundTrip
  BY <1>1 DEF PagesRoundTrip
<1> QED
  BY <1>2, InductiveInvariant, PTL

=============================================================================
